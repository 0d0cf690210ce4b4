---------------------------- MODULE Transactions ----------------------------
(***************************************************************************)
(* Transactions over a grove: GroveDb operations read Merk nodes through a  *)
(* RocksDB optimistic transaction, build their changes in memory, and hand  *)
(* them to the transaction as one batch at the end.                         *)
(*                                                                          *)
(* The grove has a root Merk and one Merk per member of Subtrees.  What an  *)
(* operation does at any depth is done here at depth one: it changes one    *)
(* subtree and then rewrites the root node of the root Merk, whose hashes   *)
(* and root keys bind every subtree.  A location is a subtree or Root.      *)
(*                                                                          *)
(* RocksDB gives each committed write a sequence number.  A transaction     *)
(* reads its own writes and otherwise what is committed now (it takes no    *)
(* snapshot), remembers for every location it writes the sequence number    *)
(* that was current at its first write, and commits iff none of these       *)
(* locations got a later one.  Reads are not remembered.                    *)
(***************************************************************************)
EXTENDS Integers

CONSTANTS
    Subtrees, Keys,
    None,           \* no root key
    Root,           \* the location of the root Merk's root node
    Writers,        \* transactions that may be open at the same time
    Readers,        \* read-only calls in progress at the same time
    Interleave,     \* whether a commit may fall inside another transaction's operation
    MaxCommits      \* bound on the commits that write something

ASSUME LocationsAssumption == Root \notin Subtrees /\ None \notin Keys
ASSUME InterleaveAssumption == Interleave \in BOOLEAN
ASSUME MaxCommitsAssumption == MaxCommits \in Nat

Locations == Subtrees \cup {Root}
MerkStates ==
    {m \in [keys : SUBSET Keys, top : Keys \cup {None}] :
        IF m.keys = {} THEN m.top = None ELSE m.top \in m.keys}
NoMerks == [s \in Subtrees |-> [keys |-> {}, top |-> None]]

VARIABLES
    dbRoot,     \* committed: what the root Merk records of every subtree
    dbSub,      \* committed: the nodes of every subtree
    seq,        \* the sequence number of the last commit to each location
    clock,      \* the sequence number of the last commit
    open,       \* the open transactions
    tracked,    \* per transaction and location: Untracked, or the number to validate
    txRoot,     \* per transaction: the root node it wrote
    txSub,      \* per transaction and subtree: the nodes it wrote
    op,         \* per transaction: the operation in progress
    began,      \* per transaction: the clock at its first read
    effect,     \* per transaction: what its operations ask of each key
    asked,      \* what the committed transactions together ask for
    reader      \* per reader: the lookup in progress

db == <<dbRoot, dbSub, seq, clock, asked>>
txs == <<open, tracked, txRoot, txSub, op, began, effect>>
vars == <<db, txs, reader>>

Untracked == -1
Idle == [phase |-> "idle"]
NoEffect == [s \in Subtrees |-> [k \in Keys |-> "same"]]

----------------------------------------------------------------------------
(* Reads through a transaction: its own writes first, the database next. *)

RootSeenBy(t) == IF tracked[t][Root] = Untracked THEN dbRoot ELSE txRoot[t]
SubSeenBy(t, s) == IF tracked[t][s] = Untracked THEN dbSub[s] ELSE txSub[t][s]

StartTransaction(t) ==
    /\ t \notin open
    /\ open' = open \cup {t}
    /\ UNCHANGED <<tracked, txRoot, txSub, op, began, effect, db, reader>>

(* The operation opens the Merk it changes and applies the change in        *)
(* memory.  Deleting a key that is not there is an error that changes       *)
(* nothing.                                                                 *)
OpenMerk(t, s, k, put) ==
    /\ t \in open
    /\ op[t].phase = "idle"
    /\ put \/ k \in SubSeenBy(t, s).keys
    /\ op' = [op EXCEPT ![t] = [phase |-> "opened", sub |-> s, key |-> k, put |-> put,
                                merk |-> SubSeenBy(t, s)]]
    /\ began' = [began EXCEPT ![t] = IF @ = Untracked THEN clock ELSE @]
    /\ UNCHANGED <<open, tracked, txRoot, txSub, effect, db, reader>>

(* Propagation reads the parent, here the root Merk. *)
PropagateChanges(t) ==
    /\ t \in open
    /\ op[t].phase = "opened"
    /\ op' = [op EXCEPT ![t] = [phase |-> "propagated", sub |-> op[t].sub, key |-> op[t].key,
                                put |-> op[t].put, merk |-> op[t].merk,
                                root |-> RootSeenBy(t)]]
    /\ UNCHANGED <<open, tracked, txRoot, txSub, began, effect, db, reader>>

KeysAfter(merk, k, put) == IF put THEN merk.keys \cup {k} ELSE merk.keys \ {k}

(* Mutant: the root key stays as it was once there is one. *)
ChangedKeepsRoot(merk, k, put) ==
    {[keys |-> KeysAfter(merk, k, put), top |-> IF merk.top = None THEN k ELSE merk.top]}

(* The states a Merk may be left in: rotations decide the root key. *)
Changed(merk, k, put) == {m \in MerkStates : m.keys = KeysAfter(merk, k, put)}

(* rebuild_from_writebatch: the first write of a location in a transaction  *)
(* remembers the current sequence number, later ones keep it.               *)
Track(ts, locations) ==
    [l \in Locations |-> IF l \in locations /\ ts[l] = Untracked THEN clock ELSE ts[l]]

(* Mutant: the parent gets the root hash and key the Merk was opened with. *)
CommitBatchStale(t) ==
    /\ t \in open
    /\ op[t].phase = "propagated"
    /\ \E m \in Changed(op[t].merk, op[t].key, op[t].put) :
        /\ txSub' = [txSub EXCEPT ![t][op[t].sub] = m]
        /\ txRoot' = [txRoot EXCEPT ![t] = [op[t].root EXCEPT ![op[t].sub] = op[t].merk]]
    /\ tracked' = [tracked EXCEPT ![t] = Track(@, {op[t].sub, Root})]
    /\ effect' = [effect EXCEPT ![t][op[t].sub][op[t].key] = IF op[t].put THEN "in" ELSE "out"]
    /\ op' = [op EXCEPT ![t] = Idle]
    /\ UNCHANGED <<open, began, db, reader>>

CommitBatch(t) ==
    /\ t \in open
    /\ op[t].phase = "propagated"
    /\ \E m \in Changed(op[t].merk, op[t].key, op[t].put) :
        /\ txSub' = [txSub EXCEPT ![t][op[t].sub] = m]
        /\ txRoot' = [txRoot EXCEPT ![t] = [op[t].root EXCEPT ![op[t].sub] = m]]
    /\ tracked' = [tracked EXCEPT ![t] = Track(@, {op[t].sub, Root})]
    /\ effect' = [effect EXCEPT ![t][op[t].sub][op[t].key] = IF op[t].put THEN "in" ELSE "out"]
    /\ op' = [op EXCEPT ![t] = Idle]
    /\ UNCHANGED <<open, began, db, reader>>

----------------------------------------------------------------------------
(* The end of a transaction. *)

Written(t) == {l \in Locations : tracked[t][l] # Untracked}

(* Mutant: off by one, the commit right after the first write is missed. *)
ValidUpToOne(t) == \A l \in Written(t) : seq[l] <= tracked[t][l] + 1

Valid(t) == \A l \in Written(t) : seq[l] <= tracked[t][l]

(* The transaction's writes are dropped. *)
Forget(ts) ==
    /\ tracked' = [t \in Writers |->
                    IF t \in ts THEN [l \in Locations |-> Untracked] ELSE tracked[t]]
    /\ txRoot' = [t \in Writers |-> IF t \in ts THEN NoMerks ELSE txRoot[t]]
    /\ txSub' = [t \in Writers |-> IF t \in ts THEN NoMerks ELSE txSub[t]]
    /\ began' = [t \in Writers |-> IF t \in ts THEN Untracked ELSE began[t]]
    /\ effect' = [t \in Writers |-> IF t \in ts THEN NoEffect ELSE effect[t]]

Applied(e, keys) == (keys \cup {k \in Keys : e[k] = "in"}) \ {k \in Keys : e[k] = "out"}

(* What a commit does to the lookups in progress: their key is there all    *)
(* along or it is not.                                                      *)
Observed(newSub) ==
    [r \in Readers |->
        IF reader[r].phase # "opening" THEN reader[r]
        ELSE [reader[r] EXCEPT !.stable = @ /\ reader[r].key \in newSub[reader[r].sub].keys]]

(* commit() validates and applies.  A caller outside of GroveDb decides     *)
(* whether it can fall into another transaction's operation.                *)
CommitTransaction(t) ==
    /\ t \in open
    /\ op[t].phase = "idle"
    /\ Interleave \/ \A u \in open : op[u].phase = "idle"
    /\ Valid(t)
    /\ Written(t) # {} => clock < MaxCommits
    /\ dbRoot' = RootSeenBy(t)
    /\ dbSub' = [s \in Subtrees |-> SubSeenBy(t, s)]
    /\ clock' = IF Written(t) = {} THEN clock ELSE clock + 1
    /\ seq' = [l \in Locations |-> IF l \in Written(t) THEN clock + 1 ELSE seq[l]]
    /\ asked' = [s \in Subtrees |-> Applied(effect[t][s], asked[s])]
    /\ open' = open \ {t}
    /\ Forget({t})
    /\ reader' = Observed(dbSub')
    /\ UNCHANGED op

(* Busy: the transaction is consumed and nothing of it is applied. *)
CommitFails(t) ==
    /\ t \in open
    /\ op[t].phase = "idle"
    /\ ~Valid(t)
    /\ open' = open \ {t}
    /\ Forget({t})
    /\ UNCHANGED <<op, db, reader>>

(* The transaction object stays usable, as a new one. *)
RollbackTransaction(t) ==
    /\ t \in open
    /\ op[t].phase = "idle"
    /\ Forget({t})
    /\ UNCHANGED <<open, op, db, reader>>

(* The process dies: open transactions and lookups are gone. *)
Crash ==
    /\ open' = {}
    /\ Forget(Writers)
    /\ op' = [t \in Writers |-> Idle]
    /\ reader' = [r \in Readers |-> Idle]
    /\ UNCHANGED db

----------------------------------------------------------------------------
(* A lookup without a transaction of the caller: TxRef opens one of its     *)
(* own, which takes no snapshot.  It reads the root key of the subtree in   *)
(* the parent, then loads the subtree from that root key.                   *)

ReadParent(r, s, k) ==
    /\ reader[r].phase = "idle"
    /\ reader' = [reader EXCEPT ![r] = [phase |-> "opening", sub |-> s, key |-> k,
                                        root |-> dbRoot[s].top,
                                        stable |-> k \in dbSub[s].keys,
                                        found |-> FALSE]]
    /\ UNCHANGED <<db, txs>>

(* Without its root node the Merk is empty; a root node that is not the     *)
(* root any more covers only a part of the keys.                            *)
ReadSubtree(r) ==
    LET m == dbSub[reader[r].sub]
        there == reader[r].key \in m.keys
    IN  /\ reader[r].phase = "opening"
        /\ \E found \in IF reader[r].root \notin m.keys THEN {FALSE}
                        ELSE IF reader[r].root \in {m.top, reader[r].key} THEN {there}
                        ELSE {FALSE, there} :
            reader' = [reader EXCEPT ![r].phase = "done", ![r].found = found]
        /\ UNCHANGED <<db, txs>>

Answer(r) ==
    /\ reader[r].phase = "done"
    /\ reader' = [reader EXCEPT ![r] = Idle]
    /\ UNCHANGED <<db, txs>>

----------------------------------------------------------------------------
Init ==
    /\ dbSub = NoMerks
    /\ dbRoot = NoMerks
    /\ seq = [l \in Locations |-> 0]
    /\ clock = 0
    /\ open = {}
    /\ tracked = [t \in Writers |-> [l \in Locations |-> Untracked]]
    /\ txRoot = [t \in Writers |-> NoMerks]
    /\ txSub = [t \in Writers |-> NoMerks]
    /\ op = [t \in Writers |-> Idle]
    /\ began = [t \in Writers |-> Untracked]
    /\ effect = [t \in Writers |-> NoEffect]
    /\ asked = [s \in Subtrees |-> {}]
    /\ reader = [r \in Readers |-> Idle]

Write(t) ==
    \/ StartTransaction(t)
    \/ \E s \in Subtrees, k \in Keys, put \in BOOLEAN : OpenMerk(t, s, k, put)
    \/ PropagateChanges(t)
    \/ CommitBatch(t)
    \/ CommitTransaction(t)
    \/ CommitFails(t)
    \/ RollbackTransaction(t)

Read(r) ==
    \/ \E s \in Subtrees, k \in Keys : ReadParent(r, s, k)
    \/ ReadSubtree(r)
    \/ Answer(r)

Next ==
    \/ \E t \in Writers : Write(t)
    \/ \E r \in Readers : Read(r)
    \/ Crash

Spec == Init /\ [][Next]_vars

----------------------------------------------------------------------------
(* Properties. *)

(* The state is well formed (the column families and the transaction of     *)
(* storage.rs, the TxRef of util.rs).                                       *)
TypeOK ==
    /\ dbRoot \in [Subtrees -> MerkStates]
    /\ dbSub \in [Subtrees -> MerkStates]
    /\ seq \in [Locations -> Nat]
    /\ clock \in Nat
    /\ open \subseteq Writers
    /\ tracked \in [Writers -> [Locations -> Nat \cup {Untracked}]]
    /\ txRoot \in [Writers -> [Subtrees -> MerkStates]]
    /\ txSub \in [Writers -> [Subtrees -> MerkStates]]
    /\ asked \in [Subtrees -> SUBSET Keys]

(* The committed root node binds the committed nodes of every subtree: the  *)
(* hash and the root key it records are those of the nodes in storage.      *)
(* A transaction whose operations each read and wrote without a commit in   *)
(* between is either based on what it overwrites or refused, because every  *)
(* operation rewrites the root node (lib.rs propagate_changes_with_         *)
(* transaction, storage.rs commit_transaction).                             *)
RootBindsSubtrees == dbRoot = dbSub

(* No committed operation is lost: the committed keys are what the          *)
(* committed transactions asked for, one after the other.                   *)
NoLostUpdate == \A s \in Subtrees : dbSub[s].keys = asked[s]

(* Of two transactions that ran at the same time and wrote the same         *)
(* location, one fails: what commits has no location that another commit    *)
(* wrote since its first read (the documentation of start_transaction).     *)
OverlapIsRefused ==
    [][\A t \in open : (t \notin open' /\ clock' # clock) =>
            \A l \in Written(t) : seq[l] <= began[t]]_vars

(* "Concurrent read-only operations (e.g., `get`, `query`, `prove`) are      *)
(* safe to perform alongside a single active write transaction": a lookup   *)
(* finds a key that is there from its first read to its last                *)
(* (the documentation of start_transaction).                                *)
ReadersFindWhatStays ==
    \A r \in Readers : reader[r].phase = "done" /\ reader[r].stable => reader[r].found

=============================================================================
