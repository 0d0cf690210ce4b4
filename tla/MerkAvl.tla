------------------------------ MODULE MerkAvl ------------------------------
(***************************************************************************)
(* The AVL algorithms of a Merk: applying a sorted batch to a tree.         *)
(*                                                                          *)
(* A tree is Nil or a node with a key, a value, two subtrees and, for each  *)
(* side, whether the link is Modified: a link that was (re)attached since   *)
(* the last commit is, and only nodes behind Modified links are written by  *)
(* the next commit.  Keys are numbers.  A batch is a sequence of            *)
(* [key, op, val] with strictly increasing keys.                            *)
(*                                                                          *)
(* Key updates are what the commit learns besides the tree: new keys,       *)
(* updated keys, deleted keys and the root key that was replaced.           *)
(***************************************************************************)
EXTENDS Integers, Sequences, FiniteSets

Nil == [nil |-> TRUE]
Node(k, v) ==
    [nil |-> FALSE, key |-> k, val |-> v, left |-> Nil, right |-> Nil,
     leftModified |-> FALSE, rightModified |-> FALSE]

(* Sides are booleans, TRUE for left, as in the code. *)
Link(t, left) == IF left THEN t.left ELSE t.right

(* detach then attach: the link on that side is Modified from now on. *)
Attach(t, left, child) ==
    IF left THEN [t EXCEPT !.left = child, !.leftModified = ~child.nil]
    ELSE [t EXCEPT !.right = child, !.rightModified = ~child.nil]

RECURSIVE Height(_)
Height(t) ==
    LET l == Height(t.left)
        r == Height(t.right)
    IN  IF t.nil THEN 0 ELSE 1 + (IF l > r THEN l ELSE r)

BalanceFactor(t) == Height(t.right) - Height(t.left)

----------------------------------------------------------------------------
(* Rotations. *)

RECURSIVE MaybeBalance(_)
RECURSIVE Rotate(_, _)

(* Mutant: off by one, a factor of 2 is let pass. *)
MaybeBalanceLate(t) ==
    IF BalanceFactor(t) \in -2 .. 2 THEN t ELSE Rotate(t, BalanceFactor(t) < 0)

MaybeBalance(t) ==
    LET bf == BalanceFactor(t)
        left == bf < 0
        child == Link(t, left)
    IN  IF bf \in -1 .. 1 THEN t
        ELSE IF left = (BalanceFactor(child) > 0)
             THEN Rotate(Attach(t, left, Rotate(child, ~left)), left)
             ELSE Rotate(t, left)

Rotate(t, left) ==
    LET child == Link(t, left)
        lowered == MaybeBalance(Attach(t, left, Link(child, ~left)))
    IN  MaybeBalance(Attach(child, ~left, lowered))

(* Takes the extreme node of a side off the tree: <<edge, rest>>. *)
RECURSIVE RemoveEdge(_, _)
RemoveEdge(t, left) ==
    IF Link(t, left).nil THEN <<Attach(t, ~left, Nil), Link(t, ~left)>>
    ELSE LET r == RemoveEdge(Link(t, left), left)
         IN  <<r[1], MaybeBalance(Attach(t, left, r[2]))>>

(* Mutant: the edge's own subtree is not attached again. *)
PromoteEdgeDropsRest(t, left, attach) ==
    MaybeBalance(Attach(RemoveEdge(t, left)[1], left, attach))

PromoteEdge(t, left, attach) ==
    LET r == RemoveEdge(t, left)
    IN  MaybeBalance(Attach(Attach(r[1], ~left, r[2]), left, attach))

(* Removes the root node: the edge of the taller child takes its place. *)
Remove(t) ==
    LET left == Height(t.left) > Height(t.right)
    IN  IF t.left.nil /\ t.right.nil THEN Nil
        ELSE IF t.left.nil \/ t.right.nil THEN Link(t, left)
        ELSE PromoteEdge(Link(t, left), ~left, Link(t, ~left))

----------------------------------------------------------------------------
(* Batches. *)

NoKey == 0
NoUpdates == [new |-> {}, updated |-> {}, deleted |-> {}, rootFrom |-> NoKey]

BatchKeys(b) == {b[i].key : i \in 1 .. Len(b)}
Before(b, k) == SelectSeq(b, LAMBDA e : e.key < k)
After(b, k) == SelectSeq(b, LAMBDA e : e.key > k)

Merge(u, v) ==
    [u EXCEPT !.new = @ \cup v.new, !.updated = @ \cup v.updated,
              !.deleted = @ \cup v.deleted]

Built(t, b) == [tree |-> t, upd |-> [NoUpdates EXCEPT !.new = BatchKeys(b)]]

RECURSIVE ApplyTo(_, _)
RECURSIVE Build(_)
RECURSIVE ApplySorted(_, _)
RECURSIVE Recurse(_, _, _)

(* Applies a batch to a tree that may be empty. *)
ApplyTo(t, b) ==
    IF b = <<>> THEN [tree |-> t, upd |-> NoUpdates]
    ELSE IF t.nil THEN Built(Build(b), b)
    ELSE ApplySorted(t, b)

(* Mutant: a deletion in the middle of the batch becomes a node. *)
BuildDeleted(b) ==
    IF b = <<>> THEN Nil
    ELSE LET mid == b[Len(b) \div 2 + 1]
         IN  Recurse(Node(mid.key, mid.val), b, NoUpdates).tree

(* A tree out of a batch: its middle entry is the root.  A deletion in the  *)
(* middle is skipped: the left half is built, the right half applied to it. *)
Build(b) ==
    IF b = <<>> THEN Nil
    ELSE LET mid == b[Len(b) \div 2 + 1]
         IN  IF mid.op = "delete"
             THEN LET l == Build(Before(b, mid.key))
                      r == After(b, mid.key)
                  IN  IF l.nil THEN Build(r) ELSE ApplySorted(l, r).tree
             ELSE Recurse(Node(mid.key, mid.val), b, NoUpdates).tree

(* The batch entries of both sides go to the subtrees, then the node is     *)
(* balanced.  A subtree's replaced root key is not reported upwards.        *)
Recurse(t, b, upd) ==
    LET lb == Before(b, t.key)
        rb == After(b, t.key)
        l == ApplyTo(t.left, lb)
        r == ApplyTo(t.right, rb)
        t1 == IF lb = <<>> THEN t ELSE Attach(t, TRUE, l.tree)
        t2 == IF rb = <<>> THEN t1 ELSE Attach(t1, FALSE, r.tree)
        t3 == MaybeBalance(t2)
        u == Merge(Merge(upd, l.upd), r.upd)
    IN  [tree |-> t3,
         upd |-> [u EXCEPT !.rootFrom = IF t3.key # t.key THEN t.key ELSE NoKey]]

(* The entry for the root's own key is applied first.  A deletion removes   *)
(* the root, then applies what is left of the batch to the rest.            *)
ApplySorted(t, b) ==
    LET own == {i \in 1 .. Len(b) : b[i].key = t.key}
        e == b[CHOOSE i \in own : TRUE]
        lb == Before(b, t.key)
        rb == After(b, t.key)
    IN  IF own = {} THEN Recurse(t, b, [NoUpdates EXCEPT !.new = {t.key}])
        ELSE IF e.op = "put"
             THEN Recurse([t EXCEPT !.val = e.val], b, [NoUpdates EXCEPT !.updated = {t.key}])
        ELSE LET l == ApplyTo(Remove(t), lb)
                 r == ApplyTo(l.tree, rb)
             IN  [tree |-> r.tree,
                  upd |-> [Merge(l.upd, r.upd) EXCEPT !.deleted = @ \cup {t.key},
                                                      !.rootFrom = t.key]]

----------------------------------------------------------------------------
(* Reference definitions. *)

RECURSIVE Content(_)
Content(t) ==
    IF t.nil THEN {} ELSE Content(t.left) \cup {<<t.key, t.val>>} \cup Content(t.right)

KeysOf(t) == {e[1] : e \in Content(t)}

RECURSIVE Ordered(_)
Ordered(t) ==
    t.nil \/ /\ Ordered(t.left) /\ Ordered(t.right)
             /\ \A k \in KeysOf(t.left) : k < t.key
             /\ \A k \in KeysOf(t.right) : k > t.key

RECURSIVE Balanced(_)
Balanced(t) ==
    t.nil \/ (BalanceFactor(t) \in -1 .. 1 /\ Balanced(t.left) /\ Balanced(t.right))

=============================================================================
