-------------------------------- MODULE Merk --------------------------------
(***************************************************************************)
(* A Merk: the AVL tree of MerkAvl, the nodes and the root key it keeps in  *)
(* storage, and the operations that change them.                            *)
(*                                                                          *)
(* A stored node carries its value and, for each child, the child's key,    *)
(* heights, hash and aggregate.  All of these are functions of the child's  *)
(* subtree, so a link is modelled by the subtree it stood for when the node *)
(* was written: two links are equal iff their hashes are.                   *)
(***************************************************************************)
EXTENDS MerkAvl

CONSTANTS
    MaxKey,     \* keys are 1 .. MaxKey
    Rewritten   \* the keys callers put with either of two values, not with one

ASSUME MaxKeyAssumption == MaxKey \in Nat \ {0}

Keys == 1 .. MaxKey
Values(k) == IF k \in Rewritten THEN {1, 2} ELSE {1}

VARIABLES
    tree,       \* Merk.tree: the tree in memory, Nil when empty
    nodes,      \* the data column family under the Merk's prefix
    root,       \* the root key in the roots column family, NoKey when absent
    content     \* the key-value map the applied batches amount to

vars == <<tree, nodes, root, content>>

NoValue == 0
MissingNode == [stored |-> FALSE]

(* A tree without what only the memory knows: its hash. *)
RECURSIVE Hash(_)
Hash(t) ==
    IF t.nil THEN Nil
    ELSE [key |-> t.key, val |-> t.val, left |-> Hash(t.left), right |-> Hash(t.right)]

RECURSIVE Subtree(_, _)
Subtree(t, k) ==
    IF t.key = k THEN t ELSE Subtree(Link(t, k < t.key), k)

Encode(t) ==
    [stored |-> TRUE, val |-> t.val, left |-> Hash(t.left), right |-> Hash(t.right)]

(* Decoding a node and fetching its children through their links, down to   *)
(* the leaves.  A link whose node is gone stays a hash: Nil here.           *)
RECURSIVE Fetch(_, _)
Fetch(ns, k) ==
    LET Child(link) == IF link = Nil THEN Nil ELSE Fetch(ns, link.key)
    IN  IF k = NoKey \/ ~ns[k].stored THEN Nil
        ELSE [Node(k, ns[k].val) EXCEPT !.left = Child(ns[k].left),
                                        !.right = Child(ns[k].right)]

----------------------------------------------------------------------------
RECURSIVE WrittenKeys(_)

(* Mutant: the right side is skipped when the left side was committed. *)
WrittenKeysOneSide(t) ==
    {t.key} \cup (IF t.leftModified THEN WrittenKeys(t.left)
                  ELSE IF t.rightModified THEN WrittenKeys(t.right) ELSE {})

(* TreeNode::commit: only children behind Modified links are committed; the *)
(* node itself always is.                                                   *)
WrittenKeys(t) ==
    {t.key} \cup (IF t.leftModified THEN WrittenKeys(t.left) ELSE {})
            \cup (IF t.rightModified THEN WrittenKeys(t.right) ELSE {})

RECURSIVE Clean(_)
Clean(t) ==
    IF t.nil THEN Nil
    ELSE [t EXCEPT !.leftModified = FALSE, !.rightModified = FALSE,
                   !.left = IF t.leftModified THEN Clean(@) ELSE @,
                   !.right = IF t.rightModified THEN Clean(@) ELSE @]

(* Mutant: the root key is written only when a new key is on top. *)
RootAfterNew(t, upd) ==
    IF t.nil THEN NoKey ELSE IF t.key \in upd.new THEN t.key ELSE root

RootAfter(t, upd) ==
    IF t.nil THEN NoKey
    ELSE IF upd.rootFrom # NoKey \/ t.key \in upd.new THEN t.key
    ELSE root

(* Merk::commit: one storage batch with the root key, the written nodes and *)
(* the deleted ones; a deletion of a key comes after its write.             *)
Commit(t, upd) ==
    LET written == IF t.nil THEN {} ELSE WrittenKeys(t)
    IN  /\ nodes' = [k \in Keys |->
                        IF k \in upd.deleted THEN MissingNode
                        ELSE IF k \in written THEN Encode(Subtree(t, k))
                        ELSE nodes[k]]
        /\ root' = RootAfter(t, upd)
        /\ tree' = Clean(t)

(* What a caller asks of each key: a value, NoValue to delete it, or        *)
(* nothing.  The batch has the asked keys, in order.                        *)
NoRequest == -1
Requests ==
    {req \in [Keys -> {1, 2, NoValue, NoRequest}] :
        \A k \in Keys : req[k] \in Values(k) \cup {NoValue, NoRequest}}

Batch(req) ==
    LET Entry(k) == [key |-> k, op |-> IF req[k] = NoValue THEN "delete" ELSE "put", val |-> req[k]]
    IN  SelectSeq([k \in Keys |-> Entry(k)], LAMBDA e : req[e.key] # NoRequest)

ApplyUnchecked(req) ==
    LET r == ApplyTo(tree, Batch(req))
    IN  /\ Commit(r.tree, r.upd)
        /\ content' = [k \in Keys |-> IF req[k] = NoRequest THEN content[k] ELSE req[k]]

(* Every stored node goes; the root key in storage stays. *)
Clear ==
    /\ nodes' = [k \in Keys |-> MissingNode]
    /\ tree' = Nil
    /\ content' = [k \in Keys |-> NoValue]
    /\ UNCHANGED root

(* A restart: the memory is lost and the tree loaded from its root key. *)
OpenBase ==
    /\ tree' = Fetch(nodes, root)
    /\ UNCHANGED <<nodes, root, content>>

Init ==
    /\ tree = Nil
    /\ nodes = [k \in Keys |-> MissingNode]
    /\ root = NoKey
    /\ content = [k \in Keys |-> NoValue]

Next ==
    \/ \E req \in Requests : ApplyUnchecked(req)
    \/ Clear
    \/ OpenBase

Spec == Init /\ [][Next]_vars

----------------------------------------------------------------------------
(* Properties. *)

(* The state is well formed: a tree over known keys, a stored node or none  *)
(* for every key, a root key or none (merk/mod.rs, the Merk struct).        *)
TypeOK ==
    /\ KeysOf(tree) \subseteq Keys
    /\ \A k \in Keys : nodes[k] = MissingNode \/ nodes[k].val \in Values(k)
    /\ root \in Keys \cup {NoKey}
    /\ \A k \in Keys : content[k] \in Values(k) \cup {NoValue}

(* Whatever batches of puts and deletes (of present and of absent keys)     *)
(* were applied, the tree is an AVL tree over its keys: in order and with   *)
(* no balance factor outside -1 .. 1, although one batch can remove and add *)
(* many keys under one rotation (tree/ops.rs apply_sorted, maybe_balance).  *)
TreeIsAvl == Ordered(tree) /\ Balanced(tree)

(* The tree holds exactly the keys and values the batches amount to: no     *)
(* removal, promotion or rotation loses a neighbour or brings back a        *)
(* deleted key (tree/ops.rs remove, promote_edge, build).                   *)
ContentIsTheBatches ==
    Content(tree) = {<<k, content[k]>> : k \in {j \in Keys : content[j] # NoValue}}

(* Storage mirrors the memory: the stored keys are the tree's keys, every   *)
(* stored node has the value and the child hashes of the tree's node, and   *)
(* no link is left Modified.  A rotation moves nodes whose parents were not *)
(* written by this batch, so each must be behind a Modified link            *)
(* (tree/mod.rs commit, merk/mod.rs commit).                                *)
StorageMirrorsTree ==
    /\ {k \in Keys : nodes[k].stored} = KeysOf(tree)
    /\ \A k \in KeysOf(tree) : nodes[k] = Encode(Subtree(tree, k))
    /\ Clean(tree) = tree

(* After a restart the base Merk opens the tree it had: the stored root key *)
(* is the key of the root node whenever there is one, although the commit   *)
(* writes it only when it sees the root key replaced or among the new keys  *)
(* (merk/mod.rs commit, load_base_root).                                    *)
ReopensAsItWas == Fetch(nodes, root) = tree

=============================================================================
