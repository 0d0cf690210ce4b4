------------------------- MODULE TransactionsProofs -------------------------
(***************************************************************************)
(* For any number of subtrees, keys, transactions and readers: if no commit *)
(* falls inside another transaction's operation, the committed root node    *)
(* binds the committed subtrees and no committed operation is lost.         *)
(*                                                                          *)
(* The argument: a transaction that is still Current (its root node was not *)
(* overwritten since it first wrote it) sees a root node that binds the     *)
(* subtrees it sees, and sees the committed keys with its own operations    *)
(* applied.  Any commit that writes at all writes the root node, so it      *)
(* makes every other writing transaction not Current, and such a            *)
(* transaction is refused at its commit.                                    *)
(***************************************************************************)
EXTENDS Transactions, TLAPS

(* The operation in progress is idle, or has what its phase has read. *)
OpTyped(t) ==
    /\ op[t].phase \in {"idle", "opened", "propagated"}
    /\ op[t].phase # "idle" => /\ op[t].sub \in Subtrees
                               /\ op[t].key \in Keys
                               /\ op[t].put \in BOOLEAN
                               /\ op[t].merk \in MerkStates
    /\ op[t].phase = "propagated" => op[t].root \in [Subtrees -> MerkStates]

(* Types, with the operation in progress and the requested effects. *)
Types ==
    /\ TypeOK
    /\ op = [t \in Writers |-> op[t]]
    /\ \A t \in Writers : OpTyped(t)
    /\ effect \in [Writers -> [Subtrees -> [Keys -> {"same", "in", "out"}]]]

(* A number in use is one that was given out; a written subtree comes with  *)
(* a written root node.                                                     *)
Numbers ==
    /\ \A l \in Locations : seq[l] <= clock
    /\ \A t \in Writers : \A l \in Locations : tracked[t][l] <= clock
    /\ \A t \in Writers : \A s \in Subtrees :
          tracked[t][s] # Untracked => tracked[t][Root] # Untracked

Current(t) == tracked[t][Root] = Untracked \/ seq[Root] <= tracked[t][Root]

SeesBoundSubtrees(t) == \A s \in Subtrees : RootSeenBy(t)[s] = SubSeenBy(t, s)

SeesItsEffect(t) ==
    \A s \in Subtrees : SubSeenBy(t, s).keys = Applied(effect[t][s], asked[s])

(* What an operation has read is what it would read now. *)
ReadsAreFresh(t) ==
    /\ op[t].phase # "idle" => op[t].merk = SubSeenBy(t, op[t].sub)
    /\ op[t].phase = "propagated" => op[t].root = RootSeenBy(t)

Sound(t) ==
    /\ t \notin open => op[t].phase = "idle"
    /\ ReadsAreFresh(t)
    /\ tracked[t][Root] = Untracked => effect[t] = NoEffect
    /\ Current(t) => SeesBoundSubtrees(t) /\ SeesItsEffect(t)

IInv ==
    /\ Types
    /\ Numbers
    /\ RootBindsSubtrees
    /\ NoLostUpdate
    /\ \A t \in Writers : Sound(t)

----------------------------------------------------------------------------
(* Types. *)

LEMMA TypesInit == Init => Types
BY LocationsAssumption
   DEF Init, Types, TypeOK, OpTyped, NoMerks, MerkStates, Locations, Untracked, Idle, NoEffect

(* Dropping the writes of some transactions keeps the types. *)
LEMMA ForgetTypes ==
    ASSUME Types, NEW ts, Forget(ts)
    PROVE  /\ tracked' \in [Writers -> [Locations -> Nat \cup {Untracked}]]
           /\ txRoot' \in [Writers -> [Subtrees -> MerkStates]]
           /\ txSub' \in [Writers -> [Subtrees -> MerkStates]]
           /\ effect' \in [Writers -> [Subtrees -> [Keys -> {"same", "in", "out"}]]]
<1>1. NoMerks \in [Subtrees -> MerkStates]
    BY DEF NoMerks, MerkStates
<1>2. NoEffect \in [Subtrees -> [Keys -> {"same", "in", "out"}]]
    BY DEF NoEffect
<1>3. tracked' \in [Writers -> [Locations -> Nat \cup {Untracked}]]
    BY DEF Forget, Types, TypeOK, Untracked
<1>4. txRoot' \in [Writers -> [Subtrees -> MerkStates]]
    BY <1>1 DEF Forget, Types, TypeOK
<1>5. txSub' \in [Writers -> [Subtrees -> MerkStates]]
    BY <1>1 DEF Forget, Types, TypeOK
<1>6. effect' \in [Writers -> [Subtrees -> [Keys -> {"same", "in", "out"}]]]
    BY <1>2 DEF Forget, Types
<1> QED
    BY <1>3, <1>4, <1>5, <1>6

(* Every step keeps the types. *)
LEMMA TypesStep == Types /\ [Next]_vars => Types'
<1> SUFFICES ASSUME Types, [Next]_vars PROVE Types'
    OBVIOUS
<1> USE LocationsAssumption
<1>1. ASSUME NEW t \in Writers, StartTransaction(t) PROVE Types'
    BY <1>1 DEF StartTransaction, Types, TypeOK, OpTyped, db
<1>2. ASSUME NEW t \in Writers, NEW s \in Subtrees, NEW k \in Keys, NEW put \in BOOLEAN,
             OpenMerk(t, s, k, put)
      PROVE Types'
    <2>1. SubSeenBy(t, s) \in MerkStates
        BY DEF Types, TypeOK, SubSeenBy
    <2>2. op'[t].phase = "opened" /\ op'[t].sub = s /\ op'[t].key = k /\ op'[t].put = put
          /\ op'[t].merk = SubSeenBy(t, s) /\ op' = [u \in Writers |-> op'[u]]
          /\ \A u \in Writers : u # t => op'[u] = op[u]
        BY <1>2 DEF OpenMerk, Types
    <2>3. \A u \in Writers : OpTyped(u)'
        BY <2>1, <2>2 DEF Types, OpTyped
    <2> QED
        BY <1>2, <2>2, <2>3 DEF OpenMerk, Types, TypeOK, db
<1>3. ASSUME NEW t \in Writers, PropagateChanges(t) PROVE Types'
    BY <1>3 DEF PropagateChanges, Types, TypeOK, OpTyped, db, RootSeenBy
<1>4. ASSUME NEW t \in Writers, CommitBatch(t) PROVE Types'
    <2>1. PICK m \in MerkStates :
              /\ txSub' = [txSub EXCEPT ![t][op[t].sub] = m]
              /\ txRoot' = [txRoot EXCEPT ![t] = [op[t].root EXCEPT ![op[t].sub] = m]]
        BY <1>4 DEF CommitBatch, Changed
    <2>2. op[t].sub \in Subtrees /\ op[t].key \in Keys /\ op[t].root \in [Subtrees -> MerkStates]
        BY <1>4 DEF CommitBatch, Types, OpTyped
    <2>3. txSub' \in [Writers -> [Subtrees -> MerkStates]]
        BY <2>1, <2>2 DEF Types, TypeOK
    <2>4. txRoot' \in [Writers -> [Subtrees -> MerkStates]]
        BY <2>1, <2>2 DEF Types, TypeOK
    <2>5. tracked' \in [Writers -> [Locations -> Nat \cup {Untracked}]]
        <3>1. Track(tracked[t], {op[t].sub, Root}) \in [Locations -> Nat \cup {Untracked}]
            BY DEF Track, Types, TypeOK
        <3> QED
            BY <1>4, <3>1 DEF CommitBatch, Types, TypeOK
    <2>6. effect' \in [Writers -> [Subtrees -> [Keys -> {"same", "in", "out"}]]]
        BY <1>4, <2>2 DEF CommitBatch, Types
    <2>7. op' = [u \in Writers |-> op'[u]] /\ \A u \in Writers : OpTyped(u)'
        BY <1>4 DEF CommitBatch, Types, OpTyped, Idle
    <2> QED
        BY <1>4, <2>3, <2>4, <2>5, <2>6, <2>7 DEF CommitBatch, Types, TypeOK, db
<1>5. ASSUME NEW t \in Writers, CommitTransaction(t) PROVE Types'
    <2>1. /\ RootSeenBy(t) \in [Subtrees -> MerkStates]
          /\ \A s \in Subtrees : SubSeenBy(t, s) \in MerkStates
        BY DEF Types, TypeOK, RootSeenBy, SubSeenBy
    <2>2. dbRoot' \in [Subtrees -> MerkStates] /\ dbSub' \in [Subtrees -> MerkStates]
        BY <1>5, <2>1 DEF CommitTransaction
    <2>3. clock' \in Nat /\ seq' \in [Locations -> Nat] /\ asked' \in [Subtrees -> SUBSET Keys]
        BY <1>5 DEF CommitTransaction, Types, TypeOK, Applied
    <2>4. Forget({t})
        BY <1>5 DEF CommitTransaction
    <2> QED
        BY <1>5, <2>2, <2>3, <2>4, ForgetTypes DEF CommitTransaction, Types, TypeOK, OpTyped
<1>6. ASSUME NEW t \in Writers, CommitFails(t) \/ RollbackTransaction(t) PROVE Types'
    BY <1>6, ForgetTypes DEF CommitFails, RollbackTransaction, Types, TypeOK, OpTyped, db
<1>7. CASE Crash
    BY <1>7, ForgetTypes DEF Crash, Types, TypeOK, OpTyped, db, Idle
<1>8. ASSUME NEW r \in Readers, Read(r) PROVE Types'
    BY <1>8 DEF Read, ReadParent, ReadSubtree, Answer, Types, TypeOK, OpTyped, db, txs
<1>9. CASE UNCHANGED vars
    BY <1>9 DEF vars, Types, TypeOK, OpTyped, db, txs
<1> QED
    BY <1>1, <1>2, <1>3, <1>4, <1>5, <1>6, <1>7, <1>8, <1>9 DEF Next, Write

----------------------------------------------------------------------------
(* What a step does to one transaction. *)

(* After any step, a transaction that has written nothing, and is not in an *)
(* operation, sees the database: it is sound if the database is.            *)
LEMMA UnwrittenIsSound ==
    ASSUME Types', Numbers', RootBindsSubtrees', NoLostUpdate',
           NEW t \in Writers, op'[t].phase = "idle",
           tracked'[t][Root] = Untracked, effect'[t] = NoEffect
    PROVE  Sound(t)'
<1>1. \A s \in Subtrees : SubSeenBy(t, s)' = dbSub'[s]
    BY DEF Numbers, SubSeenBy
<1>2. RootSeenBy(t)' = dbRoot'
    BY DEF RootSeenBy
<1>3. \A s \in Subtrees : Applied(effect'[t][s], asked'[s]) = asked'[s]
    BY DEF Applied, NoEffect, Types, TypeOK
<1> QED
    BY <1>1, <1>2, <1>3
       DEF Sound, ReadsAreFresh, SeesBoundSubtrees, SeesItsEffect, RootBindsSubtrees, NoLostUpdate

(* A step that leaves the database and a transaction's own state alone      *)
(* leaves the transaction sound.                                            *)
LEMMA UntouchedStaysSound ==
    ASSUME NEW t \in Writers, Sound(t),
           UNCHANGED <<dbRoot, dbSub, seq, asked>>,
           tracked'[t] = tracked[t], txRoot'[t] = txRoot[t], txSub'[t] = txSub[t],
           op'[t] = op[t], effect'[t] = effect[t], t \in open => t \in open'
    PROVE  Sound(t)'
BY DEF Sound, ReadsAreFresh, Current, SeesBoundSubtrees, SeesItsEffect, RootSeenBy, SubSeenBy

----------------------------------------------------------------------------
(* The operations. *)

(* The part of the invariant that is not about types. *)
Rest == Numbers /\ RootBindsSubtrees /\ NoLostUpdate /\ \A t \in Writers : Sound(t)

(* Reading changes nothing but the operation in progress. *)
LEMMA ReadingIsSound ==
    ASSUME IInv, NEW t \in Writers,
           \/ StartTransaction(t)
           \/ \E s \in Subtrees, k \in Keys, put \in BOOLEAN : OpenMerk(t, s, k, put)
           \/ PropagateChanges(t)
    PROVE  Rest'
<1>1. UNCHANGED <<dbRoot, dbSub, seq, clock, asked, tracked, txRoot, txSub, effect>>
    BY DEF StartTransaction, OpenMerk, PropagateChanges, db
<1>2. Numbers' /\ RootBindsSubtrees' /\ NoLostUpdate'
    BY <1>1 DEF IInv, Numbers, RootBindsSubtrees, NoLostUpdate
<1>3. ASSUME NEW u \in Writers, u # t PROVE Sound(u)'
    BY <1>1, <1>3, UntouchedStaysSound
       DEF IInv, Types, TypeOK, StartTransaction, OpenMerk, PropagateChanges, db
<1>4. Sound(t)'
    <2>1. CASE StartTransaction(t)
        BY <1>1, <2>1, UntouchedStaysSound DEF IInv, StartTransaction
    <2>2. ASSUME NEW s \in Subtrees, NEW k \in Keys, NEW put \in BOOLEAN, OpenMerk(t, s, k, put)
          PROVE Sound(t)'
        BY <1>1, <2>2 DEF IInv, Types, TypeOK, OpenMerk, Sound, ReadsAreFresh, Current,
               SeesBoundSubtrees, SeesItsEffect, RootSeenBy, SubSeenBy
    <2>3. CASE PropagateChanges(t)
        <3>1. /\ op'[t].phase = "propagated"
              /\ op'[t].sub = op[t].sub
              /\ op'[t].merk = op[t].merk
              /\ op'[t].root = RootSeenBy(t)
            BY <2>3 DEF PropagateChanges, IInv, Types
        <3>2. \A s : SubSeenBy(t, s)' = SubSeenBy(t, s)
            BY <1>1 DEF SubSeenBy
        <3>3. RootSeenBy(t)' = RootSeenBy(t)
            BY <1>1 DEF RootSeenBy
        <3>4. SubSeenBy(t, op[t].sub)' = SubSeenBy(t, op[t].sub)
            BY <1>1, <3>1 DEF SubSeenBy
        <3>5. ReadsAreFresh(t)'
            BY <2>3, <3>1, <3>3, <3>4 DEF ReadsAreFresh, Sound, IInv, PropagateChanges
        <3> QED
            BY <1>1, <2>3, <3>2, <3>3, <3>5
               DEF PropagateChanges, IInv, Sound, Current, SeesBoundSubtrees, SeesItsEffect
    <2> QED
        BY <2>1, <2>2, <2>3
<1> QED
    BY <1>2, <1>3, <1>4 DEF Rest

(* Handing the batch to the transaction changes only what that transaction  *)
(* sees: the changed subtree and, in the root node, its record.             *)
LEMMA BatchIsSound ==
    ASSUME IInv, Types', NEW t \in Writers, CommitBatch(t)
    PROVE  Rest'
<1> USE LocationsAssumption
<1>1. UNCHANGED <<dbRoot, dbSub, seq, clock, asked, open>>
    BY DEF CommitBatch, db
<1>2. PICK s \in Subtrees, k \in Keys :
          /\ s = op[t].sub
          /\ k = op[t].key
          /\ op[t].put \in BOOLEAN
          /\ op[t].root \in [Subtrees -> MerkStates]
          /\ op[t].phase = "propagated"
    BY DEF CommitBatch, IInv, Types, OpTyped
<1>3. PICK m \in MerkStates :
          /\ m.keys = IF op[t].put THEN op[t].merk.keys \cup {k} ELSE op[t].merk.keys \ {k}
          /\ txSub' = [txSub EXCEPT ![t][s] = m]
          /\ txRoot' = [txRoot EXCEPT ![t] = [op[t].root EXCEPT ![s] = m]]
    BY <1>2 DEF CommitBatch, Changed, KeysAfter
<1>4. /\ tracked'[t] = Track(tracked[t], {s, Root})
      /\ \A u \in Writers : u # t => tracked'[u] = tracked[u]
    BY <1>2 DEF CommitBatch, IInv, Types, TypeOK
<1>5. /\ tracked'[t][Root] = IF tracked[t][Root] = Untracked THEN clock ELSE tracked[t][Root]
      /\ tracked'[t][s] = IF tracked[t][s] = Untracked THEN clock ELSE tracked[t][s]
      /\ \A r \in Subtrees : r # s => tracked'[t][r] = tracked[t][r]
    BY <1>2, <1>4 DEF Track, Locations
<1>6. clock \in Nat /\ clock # Untracked
    BY DEF IInv, Types, TypeOK, Untracked
<1>7. Numbers'
    <2>1. \A l \in Locations : tracked'[t][l] <= clock
        BY <1>2, <1>5, <1>6 DEF IInv, Numbers, Locations
    <2> QED
        BY <1>1, <1>4, <1>5, <1>6, <2>1 DEF IInv, Numbers
<1>8. RootBindsSubtrees' /\ NoLostUpdate'
    BY <1>1 DEF IInv, RootBindsSubtrees, NoLostUpdate
<1>9. ASSUME NEW u \in Writers, u # t PROVE Sound(u)'
    <2>1. txRoot'[u] = txRoot[u] /\ txSub'[u] = txSub[u]
        BY <1>3, <1>9 DEF IInv, Types, TypeOK
    <2>2. op'[u] = op[u] /\ effect'[u] = effect[u]
        BY <1>9 DEF CommitBatch, IInv, Types
    <2> QED
        BY <1>1, <1>4, <1>9, <2>1, <2>2, UntouchedStaysSound DEF IInv
<1>10. Sound(t)'
    <2>1. op'[t].phase = "idle" /\ t \in open'
        BY <1>1 DEF CommitBatch, IInv, Types, Idle
    <2>2. tracked'[t][Root] # Untracked
        BY <1>5, <1>6
    <2>3. SUFFICES ASSUME Current(t)' PROVE SeesBoundSubtrees(t)' /\ SeesItsEffect(t)'
        BY <2>1, <2>2 DEF Sound, ReadsAreFresh
    <2>4. Current(t)
        BY <1>1, <1>5, <2>2, <2>3 DEF Current
    <2>5. op[t].merk = SubSeenBy(t, s) /\ op[t].root = RootSeenBy(t)
        BY <1>2 DEF IInv, Sound, ReadsAreFresh
    <2>6. SubSeenBy(t, s)' = m /\ RootSeenBy(t)' = [op[t].root EXCEPT ![s] = m]
        BY <1>2, <1>3, <1>5, <1>6, <2>2 DEF SubSeenBy, RootSeenBy, IInv, Types, TypeOK
    <2>7. \A r \in Subtrees : r # s => SubSeenBy(t, r)' = SubSeenBy(t, r)
        BY <1>1, <1>2, <1>3, <1>5 DEF SubSeenBy, IInv, Types, TypeOK
    <2>8. SeesBoundSubtrees(t)'
        <3>1. SeesBoundSubtrees(t)
            BY <2>4 DEF IInv, Sound
        <3>2. ASSUME NEW r \in Subtrees PROVE RootSeenBy(t)'[r] = SubSeenBy(t, r)'
            BY <1>2, <2>5, <2>6, <2>7, <3>1 DEF SeesBoundSubtrees
        <3> QED
            BY <3>2 DEF SeesBoundSubtrees
    <2>9. SeesItsEffect(t)'
        <3>1. SeesItsEffect(t)
            BY <2>4 DEF IInv, Sound
        <3>2. \A r \in Subtrees : r # s => effect'[t][r] = effect[t][r]
            BY <1>2 DEF CommitBatch, IInv, Types
        <3>3. effect'[t][s] = [effect[t][s] EXCEPT ![k] = IF op[t].put THEN "in" ELSE "out"]
            BY <1>2 DEF CommitBatch, IInv, Types
        <3>4. m.keys = Applied(effect'[t][s], asked[s])
            <4>1. op[t].merk.keys = Applied(effect[t][s], asked[s])
                BY <1>2, <2>5, <3>1 DEF SeesItsEffect
            <4>2. effect[t][s] \in [Keys -> {"same", "in", "out"}]
                BY <1>2 DEF IInv, Types
            <4>3. CASE op[t].put
                BY <1>2, <1>3, <3>3, <4>1, <4>2, <4>3 DEF Applied
            <4>4. CASE ~op[t].put
                BY <1>2, <1>3, <3>3, <4>1, <4>2, <4>4 DEF Applied
            <4> QED
                BY <4>3, <4>4
        <3>5. ASSUME NEW r \in Subtrees
              PROVE SubSeenBy(t, r)'.keys = Applied(effect'[t][r], asked'[r])
            BY <1>1, <2>6, <2>7, <3>1, <3>2, <3>4 DEF SeesItsEffect
        <3> QED
            BY <3>5 DEF SeesItsEffect
    <2> QED
        BY <2>8, <2>9
<1> QED
    BY <1>7, <1>8, <1>9, <1>10 DEF Rest

----------------------------------------------------------------------------
(* The ends of a transaction. *)

(* Dropping writes, with the database as it is. *)
LEMMA DroppingIsSound ==
    ASSUME IInv, Types', NEW ts \in SUBSET Writers, Forget(ts),
           UNCHANGED <<dbRoot, dbSub, seq, clock, asked>>,
           \A t \in ts : op'[t].phase = "idle",
           \A t \in Writers \ ts : op'[t] = op[t] /\ (t \in open => t \in open')
    PROVE  Rest'
<1> USE LocationsAssumption
<1>1. \A t \in ts : (\A l \in Locations : tracked'[t][l] = Untracked) /\ effect'[t] = NoEffect
    BY DEF Forget
<1>2. \A t \in Writers \ ts : /\ tracked'[t] = tracked[t]
                              /\ txRoot'[t] = txRoot[t]
                              /\ txSub'[t] = txSub[t]
                              /\ effect'[t] = effect[t]
    BY DEF Forget
<1>3. Numbers'
    <2>1. clock \in Nat /\ Untracked <= clock
        BY DEF IInv, Types, TypeOK, Untracked
    <2>2. ASSUME NEW t \in Writers
          PROVE /\ \A l \in Locations : tracked'[t][l] <= clock
                /\ \A s \in Subtrees : tracked'[t][s] # Untracked => tracked'[t][Root] # Untracked
        BY <1>1, <1>2, <2>1 DEF IInv, Numbers, Locations
    <2> QED
        BY <2>2 DEF IInv, Numbers
<1>4. RootBindsSubtrees' /\ NoLostUpdate'
    BY DEF IInv, RootBindsSubtrees, NoLostUpdate
<1>5. ASSUME NEW t \in ts PROVE Sound(t)'
    BY <1>1, <1>3, <1>4, <1>5, UnwrittenIsSound DEF Locations
<1>6. ASSUME NEW t \in Writers \ ts PROVE Sound(t)'
    BY <1>2, <1>6, UntouchedStaysSound DEF IInv
<1> QED
    BY <1>3, <1>4, <1>5, <1>6 DEF Rest

(* A commit that passes validation replaces the database by what the        *)
(* transaction sees, which is sound; every other transaction that has       *)
(* written is not Current any more.                                         *)
LEMMA CommitIsSound ==
    ASSUME ~Interleave, IInv, Types', NEW t \in Writers, CommitTransaction(t)
    PROVE  Rest'
<1> USE LocationsAssumption
<1>1. Root \in Locations /\ \A s \in Subtrees : s \in Locations
    BY DEF Locations
<1>2. Current(t)
    BY <1>1 DEF CommitTransaction, Valid, Written, Current
<1>3. SeesBoundSubtrees(t) /\ SeesItsEffect(t)
    BY <1>2 DEF IInv, Sound
<1>4. RootBindsSubtrees'
    <2>1. RootSeenBy(t) \in [Subtrees -> MerkStates]
        BY DEF RootSeenBy, IInv, Types, TypeOK
    <2> QED
        BY <1>3, <2>1 DEF RootBindsSubtrees, CommitTransaction, SeesBoundSubtrees
<1>5. NoLostUpdate'
    BY <1>3 DEF NoLostUpdate, CommitTransaction, SeesItsEffect
<1>6. /\ clock \in Nat /\ clock' \in Nat /\ clock <= clock'
      /\ Written(t) # {} => clock' = clock + 1
      /\ \A l \in Locations : seq'[l] = IF l \in Written(t) THEN clock + 1 ELSE seq[l]
    BY DEF CommitTransaction, IInv, Types, TypeOK
<1>7. Forget({t})
    BY DEF CommitTransaction
<1>8. /\ \A l \in Locations : tracked'[t][l] = Untracked
      /\ effect'[t] = NoEffect
      /\ \A u \in Writers : u # t => tracked'[u] = tracked[u] /\ effect'[u] = effect[u]
                                     /\ txRoot'[u] = txRoot[u] /\ txSub'[u] = txSub[u]
    BY <1>7 DEF Forget
<1>9. Numbers'
    <2>1. ASSUME NEW l \in Locations PROVE seq'[l] <= clock'
        <3>1. seq[l] \in Nat /\ seq[l] <= clock
            BY DEF IInv, Numbers, Types, TypeOK
        <3>2. CASE l \in Written(t)
            <4>1. Written(t) # {}
                BY <3>2
            <4> QED
                BY <1>6, <3>2, <4>1
        <3>3. CASE l \notin Written(t)
            BY <1>6, <3>1, <3>3
        <3> QED
            BY <3>2, <3>3
    <2>2. ASSUME NEW u \in Writers, NEW l \in Locations PROVE tracked'[u][l] <= clock'
        <3>1. CASE u = t
            BY <1>6, <1>8, <3>1 DEF Untracked
        <3>2. CASE u # t
            <4>1. tracked[u][l] \in Int /\ tracked[u][l] <= clock
                BY DEF IInv, Numbers, Types, TypeOK, Untracked
            <4> QED
                BY <1>6, <1>8, <3>2, <4>1
        <3> QED
            BY <3>1, <3>2
    <2>3. \A u \in Writers : \A s \in Subtrees :
              tracked'[u][s] # Untracked => tracked'[u][Root] # Untracked
        BY <1>1, <1>8 DEF IInv, Numbers
    <2> QED
        BY <2>1, <2>2, <2>3 DEF Numbers
<1>10. \A u \in Writers : op'[u].phase = "idle"
    BY DEF CommitTransaction, IInv, Sound
<1>11. Sound(t)'
    BY <1>1, <1>4, <1>5, <1>8, <1>9, <1>10, UnwrittenIsSound
<1>12. ASSUME NEW u \in Writers, u # t PROVE Sound(u)'
    <2>1. CASE tracked[u][Root] = Untracked
        <3>1. tracked'[u][Root] = Untracked /\ effect'[u] = NoEffect
            BY <1>8, <1>12, <2>1 DEF IInv, Sound
        <3> QED
            BY <1>4, <1>5, <1>9, <1>10, <3>1, UnwrittenIsSound
    <2>2. CASE tracked[u][Root] # Untracked /\ Written(t) # {}
        <3>1. Root \in Written(t)
            BY <1>1, <2>2 DEF Written, IInv, Numbers, Locations
        <3>2. seq'[Root] = clock + 1 /\ tracked'[u][Root] <= clock /\ tracked'[u][Root] \in Int
            BY <1>1, <1>6, <1>8, <1>12, <3>1 DEF IInv, Numbers, Types, TypeOK, Untracked
        <3>3. ~Current(u)'
            BY <1>6, <1>8, <1>12, <2>2, <3>2 DEF Current
        <3> QED
            BY <1>8, <1>10, <1>12, <2>2, <3>3 DEF Sound, ReadsAreFresh
    <2>3. CASE tracked[u][Root] # Untracked /\ Written(t) = {}
        <3>1. \A l \in Locations : tracked[t][l] = Untracked
            BY <2>3 DEF Written
        <3>2. dbRoot' = dbRoot
            BY <1>1, <3>1 DEF CommitTransaction, RootSeenBy
        <3>3. dbSub' = dbSub
            BY <1>1, <3>1 DEF CommitTransaction, SubSeenBy, IInv, Types, TypeOK
        <3>4. seq' = seq
            BY <2>3 DEF CommitTransaction, IInv, Types, TypeOK
        <3>5. asked' = asked
            <4>1. \A s \in Subtrees : asked'[s] = asked[s]
                BY <1>5, <3>3 DEF NoLostUpdate, IInv
            <4>2. asked \in [Subtrees -> SUBSET Keys] /\ asked' \in [Subtrees -> SUBSET Keys]
                BY DEF IInv, Types, TypeOK
            <4> QED
                BY <4>1, <4>2
        <3>6. op'[u] = op[u] /\ (u \in open => u \in open')
            BY <1>12 DEF CommitTransaction
        <3> QED
            BY <1>8, <1>12, <3>2, <3>3, <3>4, <3>5, <3>6, UntouchedStaysSound DEF IInv
    <2> QED
        BY <2>1, <2>2, <2>3
<1> QED
    BY <1>4, <1>5, <1>9, <1>11, <1>12 DEF Rest

----------------------------------------------------------------------------
(* The invariant, and the theorems. *)

LEMMA IInvInit == Init => IInv
<1> SUFFICES ASSUME Init PROVE IInv
    OBVIOUS
<1> USE LocationsAssumption
<1>1. Types
    BY TypesInit
<1>2. Numbers
    BY DEF Init, Numbers, Untracked, Locations
<1>3. RootBindsSubtrees /\ NoLostUpdate
    BY DEF Init, RootBindsSubtrees, NoLostUpdate, NoMerks
<1>4. ASSUME NEW t \in Writers PROVE Sound(t)
    <2>1. \A s \in Subtrees : Applied(effect[t][s], asked[s]) = {}
        BY DEF Init, Applied, NoEffect
    <2> QED
        BY <2>1 DEF Init, Sound, ReadsAreFresh, Current, SeesBoundSubtrees, SeesItsEffect,
               RootSeenBy, SubSeenBy, Idle, Locations, NoMerks
<1> QED
    BY <1>1, <1>2, <1>3, <1>4 DEF IInv

(* Every step keeps the invariant when commits do not fall into operations. *)
LEMMA IInvStep == ~Interleave /\ IInv /\ [Next]_vars => IInv'
<1> SUFFICES ASSUME ~Interleave, IInv, [Next]_vars PROVE IInv'
    OBVIOUS
<1>1. Types'
    BY TypesStep DEF IInv
<1>2. SUFFICES Rest'
    BY <1>1 DEF IInv, Rest
<1>3. ASSUME NEW t \in Writers, Write(t) PROVE Rest'
    <2>1. CASE CommitTransaction(t)
        BY <1>1, <2>1, CommitIsSound
    <2>2. CASE CommitBatch(t)
        BY <1>1, <2>2, BatchIsSound
    <2>3. CASE CommitFails(t) \/ RollbackTransaction(t)
        <3>1. /\ Forget({t})
              /\ UNCHANGED <<dbRoot, dbSub, seq, clock, asked>>
              /\ \A u \in {t} : op'[u].phase = "idle"
              /\ \A u \in Writers \ {t} : op'[u] = op[u] /\ (u \in open => u \in open')
            BY <2>3 DEF CommitFails, RollbackTransaction, db
        <3>2. {t} \in SUBSET Writers
            OBVIOUS
        <3> QED
            BY <1>1, <3>1, <3>2, DroppingIsSound
    <2> QED
        BY <1>3, <2>1, <2>2, <2>3, ReadingIsSound DEF Write
<1>4. CASE Crash
    <2>1. /\ Forget(Writers)
          /\ UNCHANGED <<dbRoot, dbSub, seq, clock, asked>>
          /\ \A u \in Writers : op'[u].phase = "idle"
        BY <1>4 DEF Crash, db, Idle
    <2> QED
        BY <1>1, <2>1, DroppingIsSound
<1>5. CASE (\E r \in Readers : Read(r)) \/ UNCHANGED vars
    <2>1. UNCHANGED <<db, txs>>
        BY <1>5 DEF Read, ReadParent, ReadSubtree, Answer, vars
    <2> QED
        BY <2>1 DEF db, txs, IInv, Rest, Numbers, RootBindsSubtrees, NoLostUpdate, Sound,
               ReadsAreFresh, Current, SeesBoundSubtrees, SeesItsEffect, RootSeenBy, SubSeenBy
<1> QED
    BY <1>3, <1>4, <1>5 DEF Next

(* The types hold in every behaviour, commits inside operations included.   *)
THEOREM TypeCorrect == Spec => []TypeOK
<1>1. Types => TypeOK
    BY DEF Types
<1> QED
    BY TypesInit, TypesStep, <1>1, PTL DEF Spec

(* The committed root node binds the committed nodes of every subtree       *)
(* (lib.rs propagate_changes_with_transaction with storage.rs               *)
(* commit_multi_context_batch and commit_transaction), for any number of    *)
(* transactions whose operations no other commit falls into.                *)
THEOREM RootAlwaysBindsSubtrees == ~Interleave => (Spec => []RootBindsSubtrees)
<1> SUFFICES ASSUME ~Interleave PROVE Spec => []RootBindsSubtrees
    OBVIOUS
<1>1. Init => IInv
    BY IInvInit
<1>2. IInv /\ [Next]_vars => IInv'
    BY IInvStep
<1>3. IInv => RootBindsSubtrees
    BY DEF IInv
<1> QED
    BY <1>1, <1>2, <1>3, PTL DEF Spec

(* Under the same condition no committed operation is lost.                 *)
THEOREM NoUpdateIsLost == ~Interleave => (Spec => []NoLostUpdate)
<1> SUFFICES ASSUME ~Interleave PROVE Spec => []NoLostUpdate
    OBVIOUS
<1>1. Init => IInv
    BY IInvInit
<1>2. IInv /\ [Next]_vars => IInv'
    BY IInvStep
<1>3. IInv => NoLostUpdate
    BY DEF IInv
<1> QED
    BY <1>1, <1>2, <1>3, PTL DEF Spec

=============================================================================
