------------------------------ MODULE MCGrove ------------------------------
(* Small instances of Grove for TLC. *)
EXTENDS Grove, TLC

CONSTANTS a, b

(* Two trees in a tree below the root. *)
MCFork == {<<>>, <<a>>, <<a, a>>, <<a, b>>}

(* A chain of two trees below the root. *)
MCChain == {<<>>, <<a>>, <<a, b>>}

=============================================================================
