---------------------------- MODULE GroveState ----------------------------
(***************************************************************************)
(* The stored state of a grove and the way a Merk is opened from it and     *)
(* written back.  A grove is a tree of Merks.  The Merk at path p keeps its *)
(* nodes in the data column family under the prefix of p; the only thing    *)
(* that says which node is its AVL root is a pointer kept elsewhere: in the *)
(* tree element of the parent Merk, or, for the root Merk, in the roots     *)
(* column family.                                                           *)
(*                                                                          *)
(* A grove g is a record of                                                 *)
(*   raw[p][k]  the node stored under prefix p and key k (an element)       *)
(*   top[p]     the key of the node that is really on top of the AVL tree   *)
(*   linked[p]  the keys reached from top[p] through stored links           *)
(*   data[p]    the number of non-Merk entries stored under prefix p        *)
(*   base       the root key kept in the roots column family                *)
(*                                                                          *)
(* Which of its keys an AVL tree has on top is the business of module       *)
(* MerkAvl; here an insertion or a deletion may leave any key on top.       *)
(* MmrTree stands for the four tree types whose data is not a Merk; where   *)
(* they differ, for the MmrTree.                                            *)
(***************************************************************************)
EXTENDS Naturals, Sequences, FiniteSets

CONSTANTS
    Keys,         \* element keys
    Values,       \* item payloads
    Paths,        \* paths at which a Merk may live
    TreeTypes,    \* tree types callers insert
    None,         \* Option::None for a root key
    MaxEntries    \* bound on the entries appended to one MmrTree

Parent(p) == SubSeq(p, 1, Len(p) - 1)
Child(p, k) == Append(p, k)

ASSUME PathsAssumption ==
    /\ Paths \subseteq Seq(Keys)
    /\ <<>> \in Paths
    /\ \A p \in Paths : p # <<>> => Parent(p) \in Paths

ASSUME NoneAssumption == None \notin Keys

ASSUME TreeTypesAssumption ==
    TreeTypes \subseteq {"NormalTree", "ProvableCountTree", "MmrTree"}

ASSUME MaxEntriesAssumption == MaxEntries \in Nat

----------------------------------------------------------------------------
(* Elements.  The hash field is the part of the node's value hash that      *)
(* binds a child: combine_hash(value_hash(element), child root hash).       *)

NullHash == [h |-> "null"]
Absent == [kind |-> "absent"]
Item(v) == [kind |-> "item", val |-> v]
EmptyTree(t) ==
    [kind |-> "tree", type |-> t, root |-> None, count |-> 0, hash |-> NullHash]

IsTree(e) == e.kind = "tree"
UsesNonMerkDataStorage(t) == t = "MmrTree"

(* The root of an append-only log with n entries. *)
StateRoot(n) == IF n = 0 THEN NullHash ELSE [h |-> "log", entries |-> n]

EmptyGrove ==
    [raw    |-> [p \in Paths |-> [k \in Keys |-> Absent]],
     top    |-> [p \in Paths |-> None],
     linked |-> [p \in Paths |-> {}],
     data   |-> [p \in Paths |-> 0],
     base   |-> None]

----------------------------------------------------------------------------
(* Opening a Merk.  The parent's element is read straight from the parent's *)
(* raw storage: nothing checks that the parent itself is reachable.         *)

Stored(g, p) == {k \in Keys : g.raw[p][k] # Absent}

Opens(g, p) == p # <<>> => IsTree(g.raw[Parent(p)][p[Len(p)]])

TypeAt(g, p) ==
    IF p = <<>> THEN "NormalTree" ELSE g.raw[Parent(p)][p[Len(p)]].type

RootKeyAt(g, p) ==
    IF p = <<>> THEN g.base ELSE g.raw[Parent(p)][p[Len(p)]].root

(* load_root / load_base_root: a pointer to a node that is not stored gives *)
(* the empty tree, silently.  A pointer to a node that is stored but not on *)
(* top reaches only what hangs below that node; the node alone stands for   *)
(* it.                                                                      *)
LoadRoot(g, p, r) ==
    LET found == r # None /\ r \in Stored(g, p)
    IN  [path |-> p,
         top  |-> IF found THEN r ELSE None,
         keys |-> CASE ~found -> {}
                    [] found /\ r = g.top[p] -> g.linked[p]
                    [] OTHER -> {r}]

(* A Merk handle: the tree loaded, its type and whether it is the base Merk *)
(* (whose root key a commit writes to the roots column family).             *)
OpenMerk(g, p) ==
    [tree |-> LoadRoot(g, p, RootKeyAt(g, p)), type |-> TypeAt(g, p), base |-> p = <<>>]

(* The type decides how the handle hashes.  hash_for_link puts a count into   *)
(* the hash when the type asks for it and the node on top has one, which it   *)
(* has when it was inserted into a ProvableCountTree: as a ProvableCountTree  *)
(* the nodes of another Merk hash as they do there.                           *)
OpenLayeredWithRootKey(g, p, r, t) ==
    [tree |-> LoadRoot(g, p, r),
     type |-> IF t = "ProvableCountTree" THEN TypeAt(g, p) ELSE t,
     base |-> FALSE]

(* merk.get: the loaded tree is walked only while its links are in memory;  *)
(* at the first unloaded link the key is looked up in raw storage, so a     *)
(* node that is stored but not linked may be found too.                     *)
GetResults(g, m, k) ==
    LET e == g.raw[m.tree.path][k]
    IN  CASE m.tree.keys = {} -> {Absent}
          [] k \in m.tree.keys -> {e}
          [] OTHER -> {Absent} \cup (IF Cardinality(m.tree.keys) > 1 THEN {e} ELSE {})

----------------------------------------------------------------------------
(* Changing a Merk: the new handle, and the grove with the nodes, and the   *)
(* root key where the Merk keeps it, written.                               *)

PutTops(m, k) ==
    IF k \in m.tree.keys THEN {m.tree.top} ELSE m.tree.keys \cup {k}

DeleteTops(m, k) ==
    LET rest == m.tree.keys \ {k}
    IN  CASE k \notin m.tree.keys -> {m.tree.top}
          [] rest = {} -> {None}
          [] OTHER -> rest

AfterPut(m, k, t) ==
    [m EXCEPT !.tree.keys = @ \cup {k}, !.tree.top = t]

AfterDelete(m, k, t) ==
    [m EXCEPT !.tree.keys = @ \ {k}, !.tree.top = t]

Written(g, m, k, e) ==
    [g EXCEPT !.raw[m.tree.path][k] = e,
              !.linked[m.tree.path] = m.tree.keys,
              !.top[m.tree.path] = m.tree.top,
              !.base = IF m.base THEN m.tree.top ELSE @]

(* storage.clear and Merk::clear: every entry of the prefix goes; the roots *)
(* column family is left alone.                                             *)
Cleared(g, ps) ==
    [g EXCEPT !.raw = [p \in Paths |-> IF p \in ps THEN [k \in Keys |-> Absent] ELSE @[p]],
              !.linked = [p \in Paths |-> IF p \in ps THEN {} ELSE @[p]],
              !.top = [p \in Paths |-> IF p \in ps THEN None ELSE @[p]],
              !.data = [p \in Paths |-> IF p \in ps THEN 0 ELSE @[p]]]

AfterClear(m) == [m EXCEPT !.tree.keys = {}, !.tree.top = None]

(* root_hash of a handle whose nodes are in g.  hash_for_link picks the     *)
(* node hash by the type the handle was opened with.                        *)
RootHash(g, m) ==
    IF m.tree.keys = {} THEN NullHash
    ELSE [h   |-> IF m.type = "ProvableCountTree" THEN "counted" ELSE "plain",
          top |-> m.tree.top,
          kv  |-> [k \in m.tree.keys |-> g.raw[m.tree.path][k]]]

(* is_empty_tree: a raw iterator over the prefix finds nothing. *)
IsEmptyTree(g, p) == Stored(g, p) = {} /\ g.data[p] = 0

(* find_subtrees: p and every path below it that raw tree elements lead to. *)
FindSubtrees(g, p) ==
    {q \in Paths :
        /\ Len(q) >= Len(p)
        /\ SubSeq(q, 1, Len(p)) = p
        /\ \A i \in Len(p) + 1 .. Len(q) :
               IsTree(g.raw[SubSeq(q, 1, i - 1)][q[i]])}

----------------------------------------------------------------------------
(* verify_grovedb: the paths whose tree element does not bind what is       *)
(* stored below it.  The check walks raw storage from the root.             *)

ChildHash(g, p) ==
    LET e == g.raw[Parent(p)][p[Len(p)]]
    IN  CASE ~UsesNonMerkDataStorage(e.type) -> RootHash(g, OpenMerk(g, p))
          [] e.count <= g.data[p] -> StateRoot(e.count)
          [] OTHER -> NullHash

VerifyIssues(g) ==
    {p \in FindSubtrees(g, <<>>) \ {<<>>} :
        g.raw[Parent(p)][p[Len(p)]].hash # ChildHash(g, p)}

----------------------------------------------------------------------------
(* Nothing lost and nothing left: the nodes reached from every root pointer *)
(* are the nodes stored, every log has the entries its element counts, and  *)
(* a prefix no element leads to is empty.                                   *)
ExactStorage(g) ==
    \A p \in Paths :
        IF p \notin FindSubtrees(g, <<>>) THEN IsEmptyTree(g, p)
        ELSE /\ OpenMerk(g, p).tree.keys = Stored(g, p)
             /\ g.data[p] = IF UsesNonMerkDataStorage(TypeAt(g, p))
                            THEN g.raw[Parent(p)][p[Len(p)]].count ELSE 0

(* What a user of g sees: the elements of the Merks that loaded tree        *)
(* elements lead to, without root keys and hashes.                          *)
Face(e) ==
    IF IsTree(e) THEN [kind |-> "tree", type |-> e.type, count |-> e.count] ELSE e

Live(g) ==
    {p \in Paths :
        \A i \in 1 .. Len(p) :
            LET q == SubSeq(p, 1, i - 1)
            IN  p[i] \in OpenMerk(g, q).tree.keys /\ IsTree(g.raw[q][p[i]])}

Content(g) ==
    UNION {{[path |-> p, key |-> k, face |-> Face(g.raw[p][k])] :
                k \in OpenMerk(g, p).tree.keys} : p \in Live(g)}

=============================================================================
