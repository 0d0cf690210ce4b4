------------------------------ MODULE GroveMap ------------------------------
(***************************************************************************)
(* What GroveDb promises to its users, without Merks, hashes, pointers or   *)
(* batches: a hierarchical map that changes by whole operations.            *)
(*                                                                          *)
(* A map is a set of entries [path, key, face].  The face of an element is  *)
(* what a user sees of it: an item's value, or a tree's type and, for a     *)
(* log, its length.  There are two maps: what is committed and what the     *)
(* caller sees, which differ only inside a caller's transaction.  Each      *)
(* operation changes the second at one stroke; outside a transaction the    *)
(* first changes with it, inside one it waits for the commit.               *)
(***************************************************************************)
EXTENDS Naturals, Sequences

CONSTANTS Paths, Keys, Faces

VARIABLES committed, pending, open

vars == <<committed, pending, open>>

Entry(p, k, f) == [path |-> p, key |-> k, face |-> f]

At(e, p, k) == e.path = p /\ e.key = k

Under(e, p) == Len(e.path) >= Len(p) /\ SubSeq(e.path, 1, Len(p)) = p

TreeFace(f) == f.kind = "tree"

Exists(m, p) ==
    p # <<>> => \E e \in m : At(e, SubSeq(p, 1, Len(p) - 1), p[Len(p)]) /\ TreeFace(e.face)

(* A new element; it may replace an item and never a tree. *)
Put(p, k, f) ==
    /\ Exists(pending, p)
    /\ ~ \E e \in pending : At(e, p, k) /\ TreeFace(e.face)
    /\ TreeFace(f) => f.count = 0
    /\ pending' = {e \in pending : ~At(e, p, k)} \cup {Entry(p, k, f)}

(* An element goes, and with it whatever is below it. *)
Remove(p, k) ==
    /\ \E e \in pending : At(e, p, k)
    /\ pending' = {e \in pending : ~At(e, p, k) /\ ~Under(e, Append(p, k))}

(* Everything in and below a tree goes; the tree stays. *)
ClearAt(p) ==
    /\ Exists(pending, p)
    /\ pending' = {e \in pending : ~Under(e, p)}

(* A log grows by one entry. *)
Extend(p, k) ==
    \E e \in pending :
        /\ At(e, p, k) /\ TreeFace(e.face)
        /\ pending' = (pending \ {e}) \cup
                          {[e EXCEPT !.face.count = @ + 1]}

Operation ==
    \/ \E p \in Paths, k \in Keys, f \in Faces : Put(p, k, f)
    \/ \E p \in Paths, k \in Keys : Remove(p, k) \/ Extend(p, k)
    \/ \E p \in Paths : ClearAt(p)

Init == committed = {} /\ pending = {} /\ open = FALSE

Begin == ~open /\ open' = TRUE /\ UNCHANGED <<committed, pending>>

InTransaction == open /\ Operation /\ UNCHANGED <<committed, open>>

OnItsOwn == ~open /\ Operation /\ committed' = pending' /\ UNCHANGED open

Commit == open /\ committed' = pending /\ open' = FALSE /\ UNCHANGED pending

Rollback == open /\ pending' = committed /\ UNCHANGED <<committed, open>>

(* The process stops. *)
Stop == pending' = committed /\ open' = FALSE /\ UNCHANGED committed

Next == Begin \/ InTransaction \/ OnItsOwn \/ Commit \/ Rollback \/ Stop

Spec == Init /\ [][Next]_vars

=============================================================================
