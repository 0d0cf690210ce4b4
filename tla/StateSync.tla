----------------------------- MODULE StateSync -----------------------------
(***************************************************************************)
(* State sync: a MultiStateSyncSession restores the grove of a snapshot     *)
(* from chunks.  Every subtree is cut into chunks 1 .. NumChunks[s], chunk  *)
(* c naming chunks 2c and 2c + 1 below it; an empty subtree has none and    *)
(* is answered by empty data.  The tree element of a subtree is in chunk    *)
(* At[s] of its parent.                                                     *)
(*                                                                          *)
(* apply_chunk takes a package of groups, a group being chunk ids of one    *)
(* subtree, and returns the package of what may be fetched next.  The call  *)
(* is synchronous; its loop is one action per turn because an error ends it *)
(* and keeps what the earlier turns did, and because the process may stop.  *)
(* The order of groups in a package and of chunks in a group is that of     *)
(* path digests and traversals; here it is any.                             *)
(***************************************************************************)
EXTENDS Naturals, FiniteSets

CONSTANTS
    Subtrees, Root,
    ParentOf,       \* the parent of every subtree but Root
    NumChunks,      \* how many chunks each subtree is cut into
    At,             \* the chunk of the parent that holds the tree element
    BatchSize,      \* subtrees_batch_size
    Answers,        \* what the source may answer, see AnswersTo
    MaxSessions     \* bound on the sessions started

ASSUME TreeAssumption ==
    /\ Root \in Subtrees
    /\ ParentOf \in [Subtrees \ {Root} -> Subtrees]
    /\ NumChunks \in [Subtrees -> Nat]
    /\ At \in [Subtrees \ {Root} -> Nat]
    /\ \A s \in Subtrees \ {Root} : At[s] \in 1 .. NumChunks[ParentOf[s]]

ASSUME BatchAssumption == BatchSize \in Nat \ {0} /\ MaxSessions \in Nat
ASSUME AnswersAssumption == Answers \subseteq {"chunk", "damaged", "empty"}

VARIABLES
    session,    \* whether there is a session, and how many there were
    current,    \* current_prefixes: the subtrees being restored
    processed,  \* processed_prefixes
    inBatch,    \* num_processed_subtrees_in_batch
    discovered, \* pending_discovered_subtrees
    asked,      \* the packages returned to the caller so far
    call,       \* the apply_chunk call in progress
    tx,         \* per subtree: the chunks the session's transaction shows
    db,         \* per subtree: the chunks in the database
    committed,  \* whether commit_session returned without an error
    intact      \* whether every answer of this session was the right one

vars == <<session, current, processed, inBatch, discovered, asked, call, tx, db,
          committed, intact>>

Chunks(s) == 1 .. NumChunks[s]
NoSync == [pending |-> {}, wanted |-> {}, restored |-> FALSE, on |-> FALSE]
NoCall == [on |-> FALSE]
NothingDiscovered == [some |-> FALSE, subtrees |-> {}]

Current == {s \in Subtrees : current[s].on}

(* Restorer::new expects the root chunk; add_subtree_sync_info asks for it. *)
NewSync == [pending |-> {1}, wanted |-> {1}, restored |-> FALSE, on |-> TRUE]
Group(s, ids) == [sub |-> s, ids |-> ids]

----------------------------------------------------------------------------
(* The end of a session, by commit, drop or crash. *)

EndSession ==
    /\ session' = [session EXCEPT !.on = FALSE]
    /\ current' = [s \in Subtrees |-> NoSync]
    /\ processed' = {}
    /\ inBatch' = 0
    /\ discovered' = NothingDiscovered
    /\ asked' = {}
    /\ call' = NoCall
    /\ intact' = TRUE

StartSnapshotSyncing ==
    /\ ~session.on /\ session.count < MaxSessions
    /\ session' = [on |-> TRUE, count |-> session.count + 1]
    /\ current' = [current EXCEPT ![Root] = NewSync]
    /\ asked' = {{Group(Root, {1})}}
    /\ UNCHANGED <<processed, inBatch, discovered, call, tx, db, committed, intact>>

IsSyncCompleted ==
    /\ Current # {} \/ processed # {}
    /\ \A s \in Current : current[s].pending = {}
    /\ ~discovered.some

(* root_hash hashes the root node of the root Merk, which is in its first   *)
(* chunk.                                                                   *)
RootHashMatches == NumChunks[Root] = 0 \/ 1 \in tx[Root]

CommitSession ==
    /\ session.on /\ ~call.on
    /\ IF IsSyncCompleted /\ RootHashMatches
         THEN db' = tx /\ committed' = TRUE
         ELSE UNCHANGED <<db, committed>>
    /\ tx' = db'
    /\ EndSession

(* The caller drops the session, or the process stops. *)
Crash ==
    /\ session.on
    /\ tx' = db
    /\ EndSession
    /\ UNCHANGED <<db, committed>>

----------------------------------------------------------------------------
(* apply_chunk. *)

ApplyChunk(package) ==
    /\ session.on /\ ~call.on
    /\ Current # {}
    /\ call' = [on |-> TRUE, todo |-> package, group |-> Group(Root, {}), busy |-> FALSE,
                local |-> {}, next |-> {}]
    /\ UNCHANGED <<session, current, processed, inBatch, discovered, asked, tx, db, committed,
                   intact>>

(* An error ends the call: the ids to fetch next are not returned. *)
Fail == call' = NoCall

TakeGroup(g) ==
    /\ call.on /\ ~call.busy
    /\ IF g.sub \in Current
         THEN call' = [call EXCEPT !.todo = @ \ {g}, !.group = g, !.busy = TRUE, !.local = {}]
         ELSE Fail
    /\ UNCHANGED <<session, current, processed, inBatch, discovered, asked, tx, db, committed,
                   intact>>

(* The chunk, something that does not decode or verify as the chunk, or the *)
(* empty data of an empty tree.                                             *)
RightAnswer(s) == IF NumChunks[s] = 0 THEN "empty" ELSE "chunk"
AnswersTo(s) == {a \in Answers : a = "chunk" => NumChunks[s] # 0} \cup {RightAnswer(s)}

(* Mutant: the chunks below the last one are asked for too. *)
BelowLast(s, c) == {2 * c, 2 * c + 1} \cap 1 .. NumChunks[s] + 1

(* The hash nodes of a chunk: the chunks that may be fetched after it. *)
Below(s, c) == {2 * c, 2 * c + 1} \cap Chunks(s)

(* process_chunk: the restorer writes what it verified. *)
Restored(info, s, c) ==
    [info EXCEPT !.pending = (@ \ {c}) \cup Below(s, c),
                 !.wanted = (@ \ {c}) \cup Below(s, c),
                 !.restored = TRUE]

ApplyInnerChunk(c, answer) ==
    LET s == call.group.sub
    IN  /\ call.on /\ call.busy
        /\ c \in call.group.ids
        /\ answer \in AnswersTo(s)
        /\ IF c \notin current[s].pending
             THEN Fail /\ UNCHANGED <<current, tx, intact>>
             ELSE /\ intact' = (intact /\ answer = RightAnswer(s))
                  /\ CASE answer = "chunk" ->
                            /\ current' = [current EXCEPT ![s] = Restored(@, s, c)]
                            /\ tx' = [tx EXCEPT ![s] = @ \cup {c}]
                            /\ call' = [call EXCEPT !.group.ids = @ \ {c},
                                                    !.local = @ \cup Below(s, c)]
                       [] answer = "empty" ->
                            /\ current' = [current EXCEPT ![s].pending = @ \ {c}]
                            /\ call' = [call EXCEPT !.group.ids = @ \ {c}]
                            /\ UNCHANGED tx
                       [] answer = "damaged" ->
                            /\ current' = [current EXCEPT ![s].pending = @ \ {c}]
                            /\ Fail
                            /\ UNCHANGED tx
        /\ UNCHANGED <<session, processed, inBatch, discovered, asked, db, committed>>

(* More chunks of the subtree may be fetched, or are still awaited. *)
ContinueSubtree ==
    LET s == call.group.sub
    IN  /\ call.on /\ call.busy /\ call.group.ids = {}
        /\ call.local # {} \/ current[s].pending # {}
        /\ call' = [call EXCEPT !.busy = FALSE,
                                !.next = IF call.local = {} THEN @
                                         ELSE @ \cup {Group(s, call.local)}]
        /\ UNCHANGED <<session, current, processed, inBatch, discovered, asked, tx, db, committed,
                       intact>>

(* Mutant: whatever was written is taken for the whole subtree. *)
FinalizesAnything(s) == current[s].restored \/ 1 \notin tx[s]

(* A subtree none of whose chunks carried data must have been empty all     *)
(* along, any other must have all its chunks.                               *)
Finalizes(s) ==
    IF current[s].restored THEN current[s].wanted = {} ELSE 1 \notin tx[s]

SubtreeInvalid ==
    LET s == call.group.sub
    IN  /\ call.on /\ call.busy /\ call.group.ids = {}
        /\ call.local = {} /\ current[s].pending = {}
        /\ ~Finalizes(s)
        /\ current' = [current EXCEPT ![s] = NoSync]
        /\ Fail
        /\ UNCHANGED <<session, processed, inBatch, discovered, asked, tx, db, committed, intact>>

(* discover_new_subtrees_metadata reads the stored nodes of the subtree. *)
Discover(s) == {x \in Subtrees \ {Root} : ParentOf[x] = s /\ At[x] \in tx[s]}

(* prepare_sync_state_sessions: the new ones among the discovered. *)
Fresh(found) == found \ (processed' \cup Current)
Prepared(cur, subs) == [s \in Subtrees |-> IF s \in subs THEN NewSync ELSE cur[s]]

(* Mutant: what was discovered before is overwritten. *)
ExtendDrops(old, found) == [some |-> TRUE, subtrees |-> found]

Extend(old, found) == [some |-> TRUE, subtrees |-> old.subtrees \cup found]

FinishSubtree ==
    LET s == call.group.sub
        found == Discover(s)
        cleared == [current EXCEPT ![s] = NoSync]
    IN  /\ call.on /\ call.busy /\ call.group.ids = {}
        /\ call.local = {} /\ current[s].pending = {}
        /\ Finalizes(s)
        /\ processed' = processed \cup {s}
        /\ inBatch' = inBatch + 1
        /\ IF inBatch' >= BatchSize
             THEN /\ discovered' = Extend(discovered, found)
                  /\ current' = cleared
                  /\ call' = [call EXCEPT !.busy = FALSE]
             ELSE /\ current' = Prepared(cleared, Fresh(found))
                  /\ call' = [call EXCEPT !.busy = FALSE,
                                          !.next = @ \cup {Group(x, {1}) : x \in Fresh(found)}]
                  /\ UNCHANGED discovered
        /\ UNCHANGED <<session, asked, tx, db, committed, intact>>

(* Mutant: only one group is returned. *)
ReturnedOne(next) == IF next = {} THEN asked ELSE asked \cup {{CHOOSE g \in next : TRUE}}

Returned(next) == IF next = {} THEN asked ELSE asked \cup {next}

(* The call returns.  When the batch is full and nothing is in flight the   *)
(* transaction is committed and the discovered subtrees are taken up.       *)
ReturnNext ==
    /\ call.on /\ ~call.busy /\ call.todo = {}
    /\ call' = NoCall
    /\ UNCHANGED processed
    /\ IF inBatch >= BatchSize /\ Current = {}
         THEN /\ db' = tx
              /\ discovered' = NothingDiscovered
              /\ inBatch' = 0
              /\ current' = Prepared(current, Fresh(discovered.subtrees))
              /\ asked' = Returned(call.next \cup
                                     {Group(x, {1}) : x \in Fresh(discovered.subtrees)})
         ELSE /\ asked' = Returned(call.next)
              /\ UNCHANGED <<db, discovered, inBatch, current>>
    /\ UNCHANGED <<session, tx, committed, intact>>

----------------------------------------------------------------------------
Init ==
    /\ session = [on |-> FALSE, count |-> 0]
    /\ current = [s \in Subtrees |-> NoSync]
    /\ processed = {}
    /\ inBatch = 0
    /\ discovered = NothingDiscovered
    /\ asked = {}
    /\ call = NoCall
    /\ tx = [s \in Subtrees |-> {}]
    /\ db = [s \in Subtrees |-> {}]
    /\ committed = FALSE
    /\ intact = TRUE

Turn ==
    \/ call.on /\ \E g \in call.todo : TakeGroup(g)
    \/ call.on /\ \E c \in call.group.ids, a \in Answers \cup {"chunk", "empty"} : ApplyInnerChunk(c, a)
    \/ ContinueSubtree
    \/ SubtreeInvalid
    \/ FinishSubtree
    \/ ReturnNext

Next ==
    \/ StartSnapshotSyncing
    \/ \E package \in asked : ApplyChunk(package)
    \/ Turn
    \/ CommitSession
    \/ Crash

Spec == Init /\ [][Next]_vars

(* The caller applies what it was told to fetch, though it may deliver old  *)
(* packages again in between; a call runs to its end; a session that        *)
(* reports completion is committed.                                         *)
Awaited(package) ==
    \E g \in package : g.sub \in Current /\ g.ids \cap current[g.sub].pending # {}

FairSpec ==
    /\ Spec
    /\ SF_vars(\E package \in asked : Awaited(package) /\ ApplyChunk(package))
    /\ WF_vars(Turn)
    /\ WF_vars(IsSyncCompleted /\ CommitSession)

----------------------------------------------------------------------------
(* Types, and that only chunks of a subtree are asked for: what is pending  *)
(* is an id the source can answer (next_global_chunk_ids of apply_chunk).   *)
TypeOK ==
    /\ session \in [on : BOOLEAN, count : 0 .. MaxSessions]
    /\ \A s \in Subtrees : /\ current[s].pending \subseteq Chunks(s) \cup {1}
                           /\ current[s].wanted \subseteq Chunks(s) \cup {1}
                           /\ tx[s] \subseteq Chunks(s)
                           /\ db[s] \subseteq tx[s]
    /\ processed \subseteq Subtrees \ Current
    /\ inBatch \in 0 .. Cardinality(Subtrees)
    /\ discovered.subtrees \subseteq Subtrees
    /\ committed \in BOOLEAN /\ intact \in BOOLEAN

Complete(stored) == \A s \in Subtrees : stored[s] = Chunks(s)

(* The session reports completion only when the transaction shows every     *)
(* chunk of every subtree, as long as every answer was the right one: in    *)
(* whatever order and however often packages are applied, whatever the      *)
(* batch size, and whatever an earlier session left on disk.                *)
RightAnswersSync ==
    intact /\ session.on /\ ~call.on /\ IsSyncCompleted => Complete(tx)

(* commit "verifies that the GroveDB root hash matches the expected         *)
(* app_hash to ensure the overall composition of all restored subtrees is   *)
(* correct": a committed session has restored them all.                     *)
CommittedIsWhole == committed => Complete(db)

(* Whenever the process stops, a subtree with stored chunks has its tree    *)
(* element stored: apply_chunk discovers from what was written, and the     *)
(* transaction is replaced only between subtrees.                           *)
StoredFromTheTop ==
    \A s \in Subtrees \ {Root} : db[s] # {} => db[ParentOf[s]] = Chunks(ParentOf[s])

(* A session in which every answer is right comes to its end: apply_chunk   *)
(* has always returned the ids of what is still pending.                    *)
SessionsEnd == session.on ~> (~session.on \/ ~intact)

=============================================================================
