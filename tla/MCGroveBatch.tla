---------------------------- MODULE MCGroveBatch ----------------------------
(* Small instances of GroveBatch for TLC. *)
EXTENDS GroveBatch, TLC

CONSTANTS a, b

(* A chain of two trees below the root. *)
MCChain == {<<>>, <<a>>, <<a, b>>}

=============================================================================
