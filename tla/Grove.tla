------------------------------- MODULE Grove -------------------------------
(***************************************************************************)
(* The direct (non-batch) write operations of a GroveDb: insert, delete,    *)
(* clear_subtree and mmr_tree_append, each run by one writer inside a       *)
(* transaction, its own or the caller's.                                    *)
(*                                                                          *)
(* An operation writes into a StorageBatch.  Its reads see the transaction  *)
(* and never the pending batch.  After the element is written the change is *)
(* carried to the root Merk one parent per step, each parent opened from    *)
(* the transaction; then the batch is committed into the transaction and,   *)
(* when the operation opened the transaction itself, the transaction into   *)
(* the database.                                                            *)
(***************************************************************************)
EXTENDS GroveState

CONSTANTS
    Callers,      \* what callers do besides default-option calls, see below
    MaxTxOps      \* bound on the operations of one caller transaction

(* "override_tree"    InsertOptions that let an insertion replace a tree     *)
(* "force_delete"     allow_deleting_non_empty_trees, below the root path    *)
(* "force_delete_top" the same at the root path                              *)
(* "clear_subtrees"   ClearOptions with allow_deleting_subtrees, below the   *)
(*                    root path                                              *)
(* "clear_subtrees_top" the same at the root path                            *)
(* "clear_unchecked"  ClearOptions without check_for_subtrees                *)
(* "clear_non_merk"   clear_subtree on a tree whose data is not a Merk       *)
(* "fill_non_merk"    insert at the path of a tree whose data is not a Merk  *)
(* "transaction"      several operations in one caller transaction           *)
CallerHabits ==
    {"override_tree", "force_delete", "force_delete_top", "clear_subtrees",
     "clear_subtrees_top", "clear_unchecked", "clear_non_merk", "fill_non_merk",
     "transaction"}

ASSUME CallersAssumption == Callers \subseteq CallerHabits
ASSUME MaxTxOpsAssumption == MaxTxOps \in Nat

VARIABLES
    store,    \* the committed database
    view,     \* what the open transaction reads
    work,     \* view overlaid with the operation's pending StorageBatch
    op,       \* the operation in progress
    tx,       \* the caller's transaction: open?, operations done in it
    seen      \* history: the view when the last operation ended

vars == <<store, view, work, op, tx, seen>>

(* op.pc is "idle"; "propagate" with op.merk the handle whose root is next   *)
(* written into its parent; "append" between the two commits of              *)
(* mmr_tree_append; "clear" inside clear_subtree, where op.ahead has the     *)
(* trees its iterator has not reached.  op.clear is the clear that a nested  *)
(* delete returns to.                                                        *)
NoClear == [on |-> FALSE]
ClearOf(p, keys) == [on |-> TRUE, path |-> p, ahead |-> keys]
Clearing(p, keys) == [pc |-> "clear", path |-> p, ahead |-> keys]
Idle == [pc |-> "idle"]
Propagate(m, c) == [pc |-> "propagate", merk |-> m, clear |-> c]

Init ==
    /\ store = EmptyGrove
    /\ view = EmptyGrove
    /\ work = EmptyGrove
    /\ op = Idle
    /\ tx = [open |-> FALSE, ops |-> 0]
    /\ seen = EmptyGrove

----------------------------------------------------------------------------
(* Transactions of the caller. *)

StartTransaction ==
    /\ "transaction" \in Callers
    /\ op = Idle /\ ~tx.open
    /\ tx' = [open |-> TRUE, ops |-> 0]
    /\ UNCHANGED <<store, view, work, op>>

CommitTransaction ==
    /\ op = Idle /\ tx.open
    /\ store' = view
    /\ tx' = [open |-> FALSE, ops |-> 0]
    /\ UNCHANGED <<view, work, op>>

(* A rolled back transaction stays usable. *)
RollbackTransaction ==
    /\ op = Idle /\ tx.open
    /\ view' = store /\ work' = store
    /\ tx' = [tx EXCEPT !.ops = 0]
    /\ UNCHANGED <<store, op>>

(* The process stops: batch and transaction are gone. *)
Crash ==
    /\ view' = store /\ work' = store
    /\ op' = Idle
    /\ tx' = [open |-> FALSE, ops |-> 0]
    /\ UNCHANGED store

(* An operation may begin: bounded inside a caller transaction. *)
MayBegin == op = Idle /\ (tx.open => tx.ops < MaxTxOps)

----------------------------------------------------------------------------
(* Carrying a change to the root. *)

(* Mutant: the element keeps the child hash it had. *)
ReconstructKeepsHash(e, root, hash) ==
    [e EXCEPT !.root = IF UsesNonMerkDataStorage(e.type) THEN None ELSE root]

Reconstruct(e, root, hash) ==
    [e EXCEPT !.root = IF UsesNonMerkDataStorage(e.type) THEN None ELSE root,
              !.hash = hash]

(* One turn of the loop in propagate_changes_with_transaction. *)
PropagateStep ==
    /\ op.pc = "propagate"
    /\ op.merk.tree.path # <<>>
    /\ LET c == op.merk.tree.path
           p == Parent(c)
           k == c[Len(c)]
           m == OpenMerk(view, p)
       IN  /\ Opens(view, p)
           /\ \E e \in GetResults(view, m, k) :
               /\ IsTree(e)
               /\ \E t \in PutTops(m, k) :
                   LET m2 == AfterPut(m, k, t)
                       e2 == Reconstruct(e, op.merk.tree.top, RootHash(work, op.merk))
                   IN  /\ work' = Written(work, m2, k, e2)
                       /\ op' = [op EXCEPT !.merk = m2]
    /\ UNCHANGED <<store, view, tx>>

(* An error: the operation's batch is dropped.  What it already committed   *)
(* into the transaction stays when the transaction is the caller's, and     *)
(* goes with the transaction when it is its own.                            *)
ReturnError ==
    /\ view' = IF tx.open THEN view ELSE store
    /\ work' = view'
    /\ op' = Idle
    /\ UNCHANGED <<store, tx>>

(* The parent does not open, or does not show the tree element. *)
PropagateFails ==
    /\ op.pc = "propagate"
    /\ op.merk.tree.path # <<>>
    /\ LET c == op.merk.tree.path
           p == Parent(c)
       IN  Opens(view, p) =>
               \E e \in GetResults(view, OpenMerk(view, p), c[Len(c)]) : ~IsTree(e)
    /\ ReturnError

(* Mutant: a nested delete opens and commits a transaction of its own. *)
CommitBatchNested ==
    /\ op.pc = "propagate"
    /\ op.merk.tree.path = <<>>
    /\ view' = work
    /\ op' = IF op.clear.on THEN Clearing(op.clear.path, op.clear.ahead) ELSE Idle
    /\ store' = IF tx.open THEN store ELSE work
    /\ tx' = IF tx.open /\ ~op.clear.on THEN [tx EXCEPT !.ops = @ + 1] ELSE tx
    /\ UNCHANGED work

(* commit_multi_context_batch, then commit_local; a nested delete returns   *)
(* to the clear_subtree that called it, whose transaction it used.          *)
CommitBatch ==
    /\ op.pc = "propagate"
    /\ op.merk.tree.path = <<>>
    /\ view' = work
    /\ IF op.clear.on
         THEN op' = Clearing(op.clear.path, op.clear.ahead) /\ UNCHANGED <<store, tx>>
         ELSE /\ op' = Idle
              /\ store' = IF tx.open THEN store ELSE work
              /\ tx' = IF tx.open THEN [tx EXCEPT !.ops = @ + 1] ELSE tx
    /\ UNCHANGED work

----------------------------------------------------------------------------
(* insert: add_element_on_transaction. *)

Elements(p, k) ==
    {Item(v) : v \in Values} \cup
    (IF Child(p, k) \in Paths THEN {EmptyTree(t) : t \in TreeTypes} ELSE {})

(* Mutant: validate_insertion_does_not_override_tree is not looked at. *)
MayReplaceAny(found, opt) == TRUE

MayReplace(found, opt) == ~IsTree(found) \/ opt = "override_tree"

Insert(p, k, e, opt) ==
    /\ MayBegin
    /\ Opens(view, p)
    /\ LET m == OpenMerk(view, p)
       IN  /\ \E found \in GetResults(view, m, k) : MayReplace(found, opt)
           /\ \E t \in PutTops(m, k) :
               /\ work' = Written(view, AfterPut(m, k, t), k, e)
               /\ op' = Propagate(AfterPut(m, k, t), NoClear)
    /\ UNCHANGED <<store, view, tx>>

----------------------------------------------------------------------------
(* delete: delete_internal_on_transaction.  A non-empty tree takes its      *)
(* subtrees' storage along, and is deleted through a second handle on the   *)
(* same Merk, opened as a layered Merk with the type of the deleted tree.   *)

DeleteEntry(m, k, g, c) ==
    \E t \in DeleteTops(m, k) :
        /\ work' = Written(g, AfterDelete(m, k, t), k, Absent)
        /\ op' = Propagate(AfterDelete(m, k, t), c)

(* Mutant: every tree is judged by the count in its element. *)
IsEmptyByCount(g, e, p) == e.count = 0

IsEmptyElement(g, e, p) ==
    IF UsesNonMerkDataStorage(e.type) THEN e.count = 0 ELSE IsEmptyTree(g, p)

Doomed(g, e, p) ==
    IF UsesNonMerkDataStorage(e.type) THEN {p} ELSE FindSubtrees(g, p)

DeleteFrom(p, k, opt, c) ==
    /\ Opens(view, p)
    /\ LET m == OpenMerk(view, p)
           child == Child(p, k)
       IN  \E e \in GetResults(view, m, k) :
           \/ e # Absent /\ ~IsTree(e) /\ DeleteEntry(m, k, view, c)
           \/ /\ IsTree(e) /\ IsEmptyElement(view, e, child)
              /\ DeleteEntry(m, k, view, c)
           \/ /\ IsTree(e) /\ ~IsEmptyElement(view, e, child)
              /\ opt = "force_delete"
              /\ DeleteEntry(OpenLayeredWithRootKey(view, p, m.tree.top, e.type),
                             k, Cleared(view, Doomed(view, e, child)), c)
    /\ UNCHANGED <<store, view, tx>>

Delete(p, k, opt) ==
    /\ MayBegin
    /\ DeleteFrom(p, k, opt, NoClear)

----------------------------------------------------------------------------
(* clear_subtree.  Without allow_deleting_subtrees a Merk holding a tree is  *)
(* refused; with it a raw iterator goes over the Merk once and every tree it *)
(* meets is deleted, by a whole delete on the same transaction, before the   *)
(* rest is cleared.  The order of keys is left open.                         *)

TreesIn(g, p) == {k \in Keys : IsTree(g.raw[p][k])}

ClearAll(p) ==
    /\ work' = Cleared(view, {p})
    /\ op' = Propagate(AfterClear(OpenMerk(view, p)), NoClear)
    /\ UNCHANGED <<store, view, tx>>

ClearSubtree(p, opt) ==
    /\ MayBegin
    /\ Opens(view, p)
    /\ ~UsesNonMerkDataStorage(TypeAt(view, p))
    /\ \/ /\ TreesIn(view, p) = {} \/ opt = "clear_unchecked"
          /\ ClearAll(p)
       \/ /\ TreesIn(view, p) # {} /\ opt = "clear_subtrees"
          /\ op' = Clearing(p, TreesIn(view, p))
          /\ UNCHANGED <<store, view, work, tx>>

ClearNested ==
    /\ op.pc = "clear"
    /\ \E k \in op.ahead :
           DeleteFrom(op.path, k, "force_delete", ClearOf(op.path, op.ahead \ {k}))

(* The raw iterator shows a tree that the loaded Merk does not. *)
ClearNestedFails ==
    /\ op.pc = "clear"
    /\ \E k \in op.ahead :
           Absent \in GetResults(view, OpenMerk(view, op.path), k)
    /\ ReturnError

ClearRest ==
    /\ op.pc = "clear"
    /\ op.ahead = {}
    /\ ClearAll(op.path)

(* The early return for non-Merk data: the storage is cleared and committed, *)
(* the element in the parent is not touched.                                *)
ClearNonMerk(p) ==
    /\ MayBegin
    /\ Opens(view, p)
    /\ UsesNonMerkDataStorage(TypeAt(view, p))
    /\ view' = Cleared(view, {p})
    /\ work' = view'
    /\ store' = IF tx.open THEN store ELSE view'
    /\ tx' = IF tx.open THEN [tx EXCEPT !.ops = @ + 1] ELSE tx
    /\ UNCHANGED op

----------------------------------------------------------------------------
(* mmr_tree_append: the log entry is committed into the transaction before  *)
(* the element that counts it is written.                                   *)

(* Mutant: the new leaf is counted twice. *)
NextSizeTwice(n) == n + 2

NextSize(n) == n + 1

MmrTreeAppend(p, k) ==
    /\ MayBegin
    /\ Opens(view, p)
    /\ \E e \in GetResults(view, OpenMerk(view, p), k) :
        /\ IsTree(e) /\ UsesNonMerkDataStorage(e.type)
        /\ e.count < MaxEntries
        /\ e.count <= view.data[Child(p, k)]
        /\ LET n == NextSize(e.count)
               c == Child(p, k)
           IN  /\ view' = [view EXCEPT !.data[c] = IF @ < n THEN n ELSE @]
               /\ op' = [pc |-> "append", path |-> p, key |-> k, count |-> n]
    /\ work' = view'
    /\ UNCHANGED <<store, tx>>

MmrTreeAppendElement ==
    /\ op.pc = "append"
    /\ LET m == OpenMerk(view, op.path)
           e == [EmptyTree("MmrTree") EXCEPT !.count = op.count,
                                             !.hash = StateRoot(op.count)]
       IN  \E t \in PutTops(m, op.key) :
           /\ work' = Written(view, AfterPut(m, op.key, t), op.key, e)
           /\ op' = Propagate(AfterPut(m, op.key, t), NoClear)
    /\ UNCHANGED <<store, view, tx>>

----------------------------------------------------------------------------
(* The calls callers make. *)

Options(os) == {"default"} \cup (os \cap Callers)

InsertCall ==
    \E p \in Paths, k \in Keys, opt \in Options({"override_tree"}) :
        \E e \in Elements(p, k) :
            /\ Opens(view, p) /\ UsesNonMerkDataStorage(TypeAt(view, p))
                   => "fill_non_merk" \in Callers
            /\ Insert(p, k, e, opt)

DeleteCall ==
    \E p \in Paths, k \in Keys :
        \/ Delete(p, k, "default")
        \/ /\ (IF p = <<>> THEN "force_delete_top" ELSE "force_delete") \in Callers
           /\ Delete(p, k, "force_delete")

ClearCall ==
    \E p \in Paths :
        \/ \E opt \in Options({"clear_unchecked"}) : ClearSubtree(p, opt)
        \/ /\ (IF p = <<>> THEN "clear_subtrees_top" ELSE "clear_subtrees") \in Callers
           /\ ClearSubtree(p, "clear_subtrees")
        \/ "clear_non_merk" \in Callers /\ ClearNonMerk(p)

AppendCall == \E p \in Paths, k \in Keys : MmrTreeAppend(p, k)

TransactionCall ==
    \/ StartTransaction
    \/ CommitTransaction
    \/ RollbackTransaction

Proceed ==
    \/ PropagateStep
    \/ PropagateFails
    \/ CommitBatch
    \/ ClearNested
    \/ ClearNestedFails
    \/ ClearRest
    \/ MmrTreeAppendElement

Next ==
    /\ \/ InsertCall
       \/ DeleteCall
       \/ ClearCall
       \/ AppendCall
       \/ TransactionCall
       \/ Proceed
       \/ Crash
    /\ seen' = IF op' = Idle THEN view' ELSE seen

Spec == Init /\ [][Next]_vars

----------------------------------------------------------------------------
(* Type invariant: groves, handles and the operation have their shapes. *)
IsElement(e, p, k) ==
    \/ e = Absent
    \/ \E v \in Values : e = Item(v)
    \/ /\ e.kind = "tree" /\ Child(p, k) \in Paths
       /\ e.type \in TreeTypes
       /\ e.root \in Keys \cup {None}
       /\ e.count \in 0 .. MaxEntries

IsGrove(g) ==
    /\ \A p \in Paths, k \in Keys : IsElement(g.raw[p][k], p, k)
    /\ g.top \in [Paths -> Keys \cup {None}]
    /\ g.linked \in [Paths -> SUBSET Keys]
    /\ g.data \in [Paths -> 0 .. MaxEntries]
    /\ g.base \in Keys \cup {None}

TypeOK ==
    /\ IsGrove(store) /\ IsGrove(view) /\ IsGrove(work) /\ IsGrove(seen)
    /\ op.pc \in {"idle", "propagate", "append", "clear"}
    /\ tx.open \in BOOLEAN /\ tx.ops \in 0 .. MaxTxOps

(* The authenticated chain: verify_grovedb finds no issue in the database,  *)
(* wherever the process stops, nor in a transaction between two operations: *)
(* every tree element binds the current root hash of what is stored below.  *)
GroveVerifies ==
    /\ VerifyIssues(store) = {}
    /\ op = Idle => VerifyIssues(view) = {}

(* Whatever options callers choose, every tree element in the database      *)
(* binds the Merk below it, but for two kinds: a tree whose data is not a   *)
(* Merk, and a ProvableCountTree, which a forced deletion of another kind   *)
(* of tree in it leaves bound without counts: the right keys and elements   *)
(* under the hash of a NormalTree (delete_internal_on_transaction).         *)
MerkTreesVerify ==
    \A p \in VerifyIssues(store) :
        \/ UsesNonMerkDataStorage(TypeAt(store, p))
        \/ /\ TypeAt(store, p) = "ProvableCountTree"
           /\ store.raw[Parent(p)][p[Len(p)]].hash =
                  RootHash(store, [OpenMerk(store, p) EXCEPT !.type = "NormalTree"])

(* No key is lost and none left behind: in every Merk that elements lead to *)
(* the nodes reached from the root pointer are the nodes stored, every log  *)
(* holds the entries its element counts, and a prefix no element leads to   *)
(* is empty, so that a tree inserted there later starts empty.              *)
NoKeyLostOrLeft ==
    /\ ExactStorage(store)
    /\ op = Idle => ExactStorage(view)

(* An operation that got past its own checks never fails half way up: each  *)
(* parent opens and shows a tree at the key the change came from.           *)
PropagationSucceeds ==
    op.pc = "propagate" /\ op.merk.tree.path # <<>> =>
        LET c == op.merk.tree.path
        IN  /\ Opens(view, Parent(c))
            /\ \A e \in GetResults(view, OpenMerk(view, Parent(c)), c[Len(c)]) : IsTree(e)

AllFaces ==
    {Item(v) : v \in Values} \cup
    {[kind |-> "tree", type |-> t, count |-> n] : t \in TreeTypes, n \in 0 .. MaxEntries}

Map == INSTANCE GroveMap WITH
           Faces <- AllFaces, committed <- Content(store), pending <- Content(seen),
           open <- tx.open

(* Every operation, however many Merks, batches and nested deletes it takes *)
(* and wherever the process stops, is one step of the hierarchical map: it  *)
(* changes the element it names and what is below it and nothing else, the  *)
(* database changes with it or, in a caller's transaction, not before that  *)
(* commits as a whole.                                                      *)
OperationsAreAtomic == Map!Spec

(* After every call the root key that open_base reads leads to the node on  *)
(* top of the root Merk ("Updated after each commit when the root may       *)
(* change due to AVL rotations").                                           *)
RootKeyFollowsRotations == OpenMerk(store, <<>>).tree.top = store.top[<<>>]

=============================================================================
