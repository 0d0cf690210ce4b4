----------------------------- MODULE GroveBatch -----------------------------
(***************************************************************************)
(* apply_batch: several operations on a grove as one.  The operations are   *)
(* sorted by level and by path; levels are executed from the deepest up,    *)
(* one Merk per path, and each Merk's new root becomes an operation on the  *)
(* level above.  Merks are opened once, from the transaction, and a tree    *)
(* that the batch inserts is given a new empty Merk before anything runs.   *)
(* Everything goes into one StorageBatch, in which a put wins over a        *)
(* delete; an error drops it.                                               *)
(*                                                                          *)
(* A batch is a set of operations [path, key, op, ...].  "insert" is        *)
(* InsertOrReplace; "insert_error" and "insert_skip" are InsertIfNotExists  *)
(* with error_if_exists and without; "append" is MmrTreeAppend, whose path  *)
(* is path and key together.  The batch runs in its own transaction.        *)
(***************************************************************************)
EXTENDS GroveState

CONSTANTS
    Kinds,        \* the kinds of operations callers use
    Policies,     \* the SubelementsDeletionBehavior values they use
    ValidateTree, \* validate_insertion_does_not_override_tree
    Refill        \* whether they insert a tree that is refused and into it

InsertKinds == {"insert", "insert_error", "insert_skip"}

ASSUME KindsAssumption == Kinds \subseteq InsertKinds \cup {"delete", "delete_tree", "append"}
ASSUME PoliciesAssumption == Policies \subseteq {"Error", "Skip", "DeleteChildren"}
ASSUME OptionsAssumption == ValidateTree \in BOOLEAN /\ Refill \in BOOLEAN

VARIABLES
    store,   \* the committed database
    work,    \* the database overlaid with the StorageBatch
    job      \* the batch in progress

vars == <<store, work, job>>

Idle == [pc |-> "idle"]

At(p, k) == [path |-> p, key |-> k]
Target(o) == Child(o.path, o.key)

(* p is q or above it. *)
IsPrefix(p, q) == Len(p) <= Len(q) /\ SubSeq(q, 1, Len(p)) = p

----------------------------------------------------------------------------
(* The operations of callers.  DeleteTree names a tree, with its type, and  *)
(* Delete does not; nothing is put into a tree whose data is not a Merk.    *)

InsertOps(p, k) ==
    {[path |-> p, key |-> k, op |-> i, elem |-> e] :
        i \in Kinds \cap InsertKinds,
        e \in {Item(v) : v \in Values} \cup
              (IF Child(p, k) \in Paths THEN {EmptyTree(t) : t \in TreeTypes} ELSE {})}

DeleteOps(p, k) ==
    LET e == store.raw[p][k]
    IN  (IF "delete" \in Kinds /\ e # Absent /\ ~IsTree(e)
           THEN {[path |-> p, key |-> k, op |-> "delete"]} ELSE {}) \cup
        (IF "delete_tree" \in Kinds /\ IsTree(e)
           THEN {[path |-> p, key |-> k, op |-> "delete_tree", policy |-> y] : y \in Policies}
           ELSE {}) \cup
        (IF "append" \in Kinds /\ IsTree(e) /\ UsesNonMerkDataStorage(e.type)
            /\ e.count < MaxEntries
           THEN {[path |-> p, key |-> k, op |-> "append"]} ELSE {})

CallerOps == UNION {InsertOps(p, k) \cup DeleteOps(p, k) : p \in Paths, k \in Keys}

IsInsert(o) == o.op \in InsertKinds
IsDelete(o) == o.op \in {"delete", "delete_tree"}
InsertsTree(o) == IsInsert(o) /\ IsTree(o.elem)

(* The type of the tree at p once the batch has inserted its trees. *)
TypeIn(batch, p) ==
    IF \E o \in batch : InsertsTree(o) /\ Target(o) = p
      THEN (CHOOSE o \in batch : InsertsTree(o) /\ Target(o) = p).elem.type
      ELSE IF Opens(store, p) THEN TypeAt(store, p) ELSE "NormalTree"

(* An insertion of a tree that finds something it may not replace. *)
Refills(o) ==
    /\ InsertsTree(o)
    /\ \/ IsTree(store.raw[o.path][o.key])
       \/ o.op # "insert" /\ store.raw[o.path][o.key] # Absent

UsualOps(batch) ==
    /\ \A o \in batch : ~UsesNonMerkDataStorage(TypeIn(batch, o.path))
    /\ Refill \/ \A o, x \in batch : Refills(o) => ~IsPrefix(Target(o), x.path)

(* verify_consistency_of_operations. *)
Consistent(batch) ==
    /\ \A o, x \in batch : o # x /\ Target(o) = Target(x) =>
           {o.op, x.op} \cap {"append"} # {}
    /\ \A o, x \in batch : o.op = "append" /\ IsDelete(x) => Target(o) # Target(x)
    /\ \A o, x \in batch : IsDelete(o) /\ IsInsert(x) => ~IsPrefix(Target(o), x.path)

(* An append and an insertion of the same tree pass that check; callers do  *)
(* not send them.                                                           *)
Distinct(batch) == \A o, x \in batch : o # x => Target(o) # Target(x)

----------------------------------------------------------------------------
(* Before the levels: appends are executed and become ReplaceNonMerkTreeRoot *)
(* operations; every DeleteTree is checked against its policy, skipped or   *)
(* noted for the clean-up.                                                  *)

(* Mutant: other deletions of the batch are not taken into account. *)
EmptyExceptNothing(batch, p) == IsEmptyTree(store, p)

EmptyExcept(batch, p) ==
    Stored(store, p) \subseteq
        {x.key : x \in {y \in batch : /\ y.path = p /\ IsDelete(y)
                                      /\ y.op = "delete_tree" => y.policy # "Skip"}}

IsEmptyFor(batch, o) ==
    LET e == store.raw[o.path][o.key]
    IN  IF UsesNonMerkDataStorage(e.type) THEN e.count = 0
        ELSE EmptyExcept(batch, Target(o))

NotEmpty(batch, policy) ==
    {o \in batch : /\ o.op = "delete_tree" /\ o.policy = policy
                   /\ ~IsEmptyFor(batch, o)}

(* Mutant: a skipped deletion stays in the batch. *)
KeptAll(batch) == batch

Kept(batch) == batch \ NotEmpty(batch, "Skip")

Preprocessed(o) ==
    IF o.op # "append" THEN o
    ELSE [path |-> o.path, key |-> o.key, op |-> "replace_log",
          count |-> store.raw[o.path][o.key].count + 1]

Appended(g, batch) ==
    [g EXCEPT !.data = [p \in Paths |->
        IF \E o \in batch : o.op = "append" /\ Target(o) = p THEN @[p] + 1 ELSE @[p]]]

DoomedBy(o) ==
    IF UsesNonMerkDataStorage(store.raw[o.path][o.key].type) THEN {Target(o)}
    ELSE FindSubtrees(store, Target(o))

Doomed(batch) == UNION {DoomedBy(o) : o \in {x \in batch : x.op = "delete_tree"}}

(* The Merks given to inserted trees; the others are opened when needed. *)
Unopened == [open |-> FALSE]
NewMerk(p, t) ==
    [open |-> TRUE,
     merk |-> [tree |-> [path |-> p, top |-> None, keys |-> {}], type |-> t, base |-> FALSE]]

NewMerks(batch) ==
    [p \in Paths |->
        IF \E o \in batch : InsertsTree(o) /\ Target(o) = p
          THEN NewMerk(p, TypeIn(batch, p)) ELSE Unopened]

(* Mutant: the levels are started from the top. *)
FirstLevel(ops) == CHOOSE n \in {Len(o.path) : o \in ops} : \A o \in ops : Len(o.path) >= n

LastLevel(ops) == CHOOSE n \in {Len(o.path) : o \in ops} : \A o \in ops : Len(o.path) <= n

ApplyBatch(batch) ==
    /\ job = Idle
    /\ batch # {}
    /\ UsualOps(batch) /\ Distinct(batch)
    /\ Consistent(batch)
    /\ NotEmpty(batch, "Error") = {}
    /\ LET ops == {Preprocessed(o) : o \in Kept(batch)}
       IN  /\ ops # {}
           /\ work' = Appended(store, batch)
           /\ job' = [pc |-> "levels", batch |-> batch, ops |-> ops, level |-> LastLevel(ops),
                      merks |-> NewMerks(ops), doomed |-> Doomed(Kept(batch)), puts |-> {}]
    /\ UNCHANGED store

----------------------------------------------------------------------------
(* execute_ops_on_path. *)

MerkAt(p) == IF job.merks[p].open THEN job.merks[p].merk ELSE OpenMerk(store, p)
Found(m, k) == IF k \in m.tree.keys THEN store.raw[m.tree.path][k] ELSE Absent

Put(e) == [do |-> "put", elem |-> e]
Remove == [do |-> "remove"]
Skip == [do |-> "skip"]
Refuse == [do |-> "refuse"]

(* Mutant: the element keeps the child hash it had. *)
WithRootKeepsHash(e, root, hash) == [e EXCEPT !.root = root]

WithRoot(e, root, hash) == [e EXCEPT !.root = root, !.hash = hash]

(* Every type of element but the CommitmentTree, which InsertIfNotExists    *)
(* writes without a look at what is there; callers here insert none.        *)
InsertOutcome(e, o) ==
    IF ValidateTree /\ IsTree(e) THEN Refuse
    ELSE CASE e = Absent \/ o.op = "insert" -> Put(o.elem)
           [] e # Absent /\ o.op = "insert_error" -> Refuse
           [] e # Absent /\ o.op = "insert_skip" -> Skip

(* What an operation does to the Merk m.  An inserted tree is written empty *)
(* or, when operations below it were executed, with their root: the latter  *)
(* without any look at what is there.                                       *)
Outcome(m, o) ==
    LET e == Found(m, o.key)
    IN  CASE IsInsert(o) -> InsertOutcome(e, o)
          [] IsDelete(o) -> Remove
          [] o.op = "replace_root" ->
               IF IsTree(e) THEN Put(WithRoot(e, o.root, o.hash)) ELSE Refuse
          [] o.op = "replace_log" ->
               IF e = Absent THEN Refuse
               ELSE Put([EmptyTree("MmrTree") EXCEPT !.count = o.count,
                                                     !.hash = StateRoot(o.count)])
          [] o.op = "insert_tree" ->
               Put([EmptyTree(o.type) EXCEPT !.root = o.root, !.hash = o.hash])

OpsOn(p) == {o \in job.ops : o.path = p}

PutsOn(m, p) == {o \in OpsOn(p) : Outcome(m, o).do = "put"}
KeysAfter(m, p) ==
    (m.tree.keys \cup {o.key : o \in PutsOn(m, p)})
        \ {o.key : o \in {x \in OpsOn(p) : Outcome(m, x).do = "remove"}}

TopsAfter(m, p) ==
    LET keys == KeysAfter(m, p)
    IN  CASE keys = {} -> {None}
          [] keys = m.tree.keys -> {m.tree.top}
          [] OTHER -> keys

NodeAfter(m, p, k) ==
    IF \E o \in OpsOn(p) : o.key = k
      THEN LET out == Outcome(m, CHOOSE o \in OpsOn(p) : o.key = k)
           IN  CASE out.do = "put" -> out.elem
                 [] out.do = "remove" /\ k \in m.tree.keys -> Absent
                 [] OTHER -> work.raw[p][k]
      ELSE work.raw[p][k]

Executed(m, p, t) ==
    [work EXCEPT !.raw[p] = [k \in Keys |-> NodeAfter(m, p, k)],
                 !.linked[p] = KeysAfter(m, p),
                 !.top[p] = t,
                 !.base = IF p = <<>> THEN t ELSE @]

----------------------------------------------------------------------------
(* The root of the Merk at p as an operation on the level above. *)

(* Mutant: a tree that is going to be deleted may be written to. *)
MayPropagateToDeleted(o, root) == IsInsert(o) => IsTree(o.elem)

MayPropagate(o, root) ==
    /\ IsInsert(o) => IsTree(o.elem)
    /\ IsDelete(o) => root = None

Propagated(o, root, hash) ==
    IF IsDelete(o) THEN o
    ELSE [path |-> o.path, key |-> o.key, op |-> "insert_tree", type |-> o.elem.type,
          root |-> root, hash |-> hash]

Above(p) == {o \in job.ops : p # <<>> /\ Target(o) = p}

OpsAfter(p, root, hash) ==
    LET rest == job.ops \ OpsOn(p)
    IN  CASE p = <<>> -> rest
          [] p # <<>> /\ Above(p) = {} ->
               rest \cup {[path |-> Parent(p), key |-> p[Len(p)], op |-> "replace_root",
                           root |-> root, hash |-> hash]}
          [] OTHER -> (rest \ Above(p)) \cup {Propagated(o, root, hash) : o \in Above(p)}

PathsOnLevel == {p \in Paths : Len(p) = job.level /\ OpsOn(p) # {}}

Executable(p) ==
    /\ ~job.merks[p].open => Opens(store, p)
    /\ \A o \in OpsOn(p) : Outcome(MerkAt(p), o).do # "refuse"

ExecuteOpsOnPath(p) ==
    /\ job.pc = "levels" /\ p \in PathsOnLevel
    /\ Executable(p)
    /\ LET m == MerkAt(p)
       IN  \E t \in TopsAfter(m, p) :
           LET m2 == [m EXCEPT !.tree.keys = KeysAfter(m, p), !.tree.top = t]
               g == Executed(m, p, t)
           IN  /\ \A o \in Above(p) : MayPropagate(o, t)
               /\ work' = g
               /\ job' = [job EXCEPT !.ops = OpsAfter(p, t, RootHash(g, m2)),
                                     !.merks[p] = [open |-> TRUE, merk |-> m2],
                                     !.puts = @ \cup {At(p, k) : k \in KeysAfter(m, p)}]
    /\ UNCHANGED store

NextLevel ==
    /\ job.pc = "levels" /\ PathsOnLevel = {} /\ job.ops # {}
    /\ job' = [job EXCEPT !.level = @ - 1]
    /\ UNCHANGED <<store, work>>

BatchFails ==
    /\ job.pc = "levels"
    /\ \E p \in PathsOnLevel :
           Executable(p) =>
               \E t \in TopsAfter(MerkAt(p), p), o \in Above(p) : ~MayPropagate(o, t)
    /\ work' = store
    /\ job' = Idle
    /\ UNCHANGED store

(* The clean-up deletes what the transaction shows under the doomed paths,  *)
(* except where the batch puts something; then the batch is committed.      *)
CleanUp(g) ==
    [g EXCEPT !.raw = [p \in Paths |-> [k \in Keys |->
                  IF p \in job.doomed /\ store.raw[p][k] # Absent /\ At(p, k) \notin job.puts
                    THEN Absent ELSE @[p][k]]],
              !.linked = [p \in Paths |->
                  IF p \in job.doomed THEN {k \in @[p] : At(p, k) \in job.puts} ELSE @[p]],
              !.top = [p \in Paths |->
                  IF p \in job.doomed /\ (\A k \in Keys : At(p, k) \notin job.puts)
                    THEN None ELSE @[p]],
              !.data = [p \in Paths |->
                  IF p \in job.doomed THEN @[p] - store.data[p] ELSE @[p]]]

CommitBatch ==
    /\ job.pc = "levels" /\ job.ops = {}
    /\ work' = CleanUp(work)
    /\ store' = work'
    /\ job' = Idle

Crash ==
    /\ job # Idle
    /\ work' = store
    /\ job' = Idle
    /\ UNCHANGED store

----------------------------------------------------------------------------
Init == store = EmptyGrove /\ work = EmptyGrove /\ job = Idle

Proceed ==
    \/ \E p \in Paths : ExecuteOpsOnPath(p)
    \/ NextLevel
    \/ BatchFails
    \/ CommitBatch

Next ==
    \/ job = Idle /\ \E o, x, y \in CallerOps : ApplyBatch({o, x, y})
    \/ Proceed
    \/ Crash

Spec == Init /\ [][Next]_vars

----------------------------------------------------------------------------
(* Type invariant: a batch is executed from its deepest level up, and the   *)
(* groves and the Merks in the cache have their shapes.                     *)
TypeOK ==
    /\ \A g \in {store, work} : /\ g.linked \in [Paths -> SUBSET Keys]
                                /\ g.top \in [Paths -> Keys \cup {None}]
                                /\ g.data \in [Paths -> 0 .. MaxEntries]
    /\ job.pc = "levels" => /\ \A o \in job.ops : Len(o.path) <= job.level
                            /\ job.doomed \subseteq Paths
                            /\ \A p \in Paths : job.merks[p].open =>
                                   job.merks[p].merk.tree.path = p

(* verify_grovedb finds no issue after any batch: the roots carried up      *)
(* level by level bind what the batch left below.                           *)
BatchesVerify == VerifyIssues(store) = {}

(* A batch loses no key and leaves none behind: deleted trees take their    *)
(* storage along although the clean-up sees neither what the batch wrote    *)
(* nor deletes what it put.                                                 *)
BatchesLeaveNothing == ExactStorage(store)

(* What the operations of a batch say, all at once: deletions that are not  *)
(* skipped take the element and everything below it, insertions that are    *)
(* not skipped put theirs, appends lengthen a log.                          *)
Present(c, o) == \E e \in c : e.path = o.path /\ e.key = o.key

Below(c, p) == {e \in c : e.path = p}

EmptiedBy(c, batch, o) ==
    \A e \in Below(c, Target(o)) :
        \E x \in batch : /\ IsDelete(x) /\ x.path = e.path /\ x.key = e.key
                         /\ x.op = "delete_tree" => x.policy # "Skip"

Deleting(c, batch) ==
    {o \in batch : /\ IsDelete(o)
                   /\ o.op = "delete_tree" /\ o.policy = "Skip"
                          => /\ EmptiedBy(c, batch, o)
                             /\ \A e \in c : e.path = o.path /\ e.key = o.key
                                               => e.face.count = 0}

Inserting(c, batch) ==
    {o \in batch : IsInsert(o) /\ (o.op = "insert_skip" => ~Present(c, o))}

AfterBatch(c, batch) ==
    {e \in c : /\ \A o \in Deleting(c, batch) : ~IsPrefix(Target(o), Child(e.path, e.key))
               /\ \A o \in Inserting(c, batch) : ~IsPrefix(Target(o), Child(e.path, e.key))
               /\ \A o \in batch : o.op = "append" => Target(o) # Child(e.path, e.key)}
    \cup {[path |-> o.path, key |-> o.key, face |-> Face(o.elem)] : o \in Inserting(c, batch)}
    \cup {[e EXCEPT !.face.count = @ + 1] :
              e \in {x \in c : \E o \in batch : o.op = "append"
                                              /\ Target(o) = Child(x.path, x.key)}}

(* A batch is all or nothing, and what it does does not depend on levels,   *)
(* paths or the order of its operations.                                    *)
BatchIsWhole == [][store' # store => Content(store') = AfterBatch(Content(store), job.batch)]_vars

(* InsertIfNotExists: "if the key is found [...] the operation is rejected  *)
(* with an error (default)" or "the insert is silently skipped": a tree     *)
(* that was there keeps the keys no operation of the batch names.           *)
ExistingTreesAreKept ==
    [][store' # store =>
        \A o \in job.batch :
            o.op \in {"insert_error", "insert_skip"} =>
                \A e \in Below(Content(store), Target(o)) :
                    \/ e \in Content(store')
                    \/ \E x \in job.batch : Target(x) = Child(e.path, e.key)]_vars

=============================================================================
