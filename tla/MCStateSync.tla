---------------------------- MODULE MCStateSync ----------------------------
(* A small snapshot.  Root, in two chunks, holds trees A and B.  B is        *)
(* empty.  A holds C, and C, in three chunks, holds D in its last one.       *)
EXTENDS StateSync, TLC

CONSTANTS A, B, C, D

MCSubtrees == {Root, A, B, C, D}
MCParentOf == A :> Root @@ B :> Root @@ C :> A @@ D :> C
MCNumChunks == Root :> 2 @@ A :> 1 @@ B :> 0 @@ C :> 3 @@ D :> 2
MCAt == A :> 1 @@ B :> 2 @@ C :> 1 @@ D :> 3

=============================================================================
