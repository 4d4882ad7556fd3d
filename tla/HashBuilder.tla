---------------------------- MODULE HashBuilder -----------------------------
(***************************************************************************)
(* trie::HashBuilder (core/trie/hash_builder.cpp): the root of a Merkle    *)
(* Patricia trie from its entries in the order of their keys, with the     *)
(* branch nodes that are kept for the database collected on the way.       *)
(*                                                                         *)
(* Vectors are indexed from 1, so groups_[len] is groups[len + 1].  A mask *)
(* is the set of its digits.  A hash is the node that was hashed, and a    *)
(* reference to a node is the node itself together with its length, from   *)
(* which hashes and embedded nodes are told apart.                         *)
(***************************************************************************)
EXTENDS Tables

kHashLength == 32
EmptyRoot == [kind |-> "empty"]

\* Where two sequences differ for the first time.
PrefixLength(a, b) ==
    LET shorter == IF Len(a) < Len(b) THEN Len(a) ELSE Len(b) IN
    CHOOSE n \in 0 .. shorter : SubSeq(a, 1, n) = SubSeq(b, 1, n) /\ (n < shorter => a[n + 1] # b[n + 1])

UnpackNibbles(packed) ==
    [i \in 1 .. 2 * Len(packed) |-> IF i % 2 = 1 THEN packed[(i + 1) \div 2] \div 16 ELSE packed[i \div 2] % 16]

\* The hex prefix of a path: two nibbles to a byte, whether there is an odd one, and whether it ends.
EncodePath(path, terminating) ==
    LET odd == Len(path) % 2
        flags == 16 * ((IF terminating THEN 2 ELSE 0) + odd)
    IN <<IF odd = 1 THEN flags + path[1] ELSE flags>>
       \o [i \in 1 .. Len(path) \div 2 |-> (16 * path[2 * i - 1 + odd]) + path[2 * i + odd]]

(* ------------------------- Nodes and references ------------------------ *)

\* rlp::length of a string of n bytes, the first of which is below 0x80, and of a list.
StringLength(n) == IF n = 1 THEN 1 ELSE IF n < 56 THEN n + 1 ELSE n + 2
ListLength(payload) == payload + (IF payload < 56 THEN 1 ELSE IF payload < 256 THEN 2 ELSE 3)

Leaf(path, value) == [kind |-> "leaf", path |-> EncodePath(path, TRUE), value |-> value]
Extension(path, ref) == [kind |-> "extension", path |-> EncodePath(path, FALSE), child |-> ref]
Branch(refs) == [kind |-> "branch", children |-> refs]

RlpLength(node) ==
    ListLength(
        CASE node.kind = "leaf" -> StringLength(Len(node.path)) + StringLength(node.value.length)
          [] node.kind = "extension" -> StringLength(Len(node.path)) + node.child.length
          [] node.kind = "branch" ->
                17 - Cardinality(DOMAIN node.children)
                + FoldSet(LAMBDA d, n : n + node.children[d].length, 0, DOMAIN node.children))

NodeRef(node) ==
    [node |-> node, length |-> IF RlpLength(node) < kHashLength THEN RlpLength(node) ELSE kHashLength + 1]

(* ----------------------------- The builder ----------------------------- *)

NewHashBuilder(collecting) ==
    [key |-> <<>>, value |-> None, groups |-> <<>>, tree_masks |-> <<>>, hash_masks |-> <<>>,
     stack |-> <<>>, collecting |-> collecting, nodes |-> <<>>]

Grown(masks, n) == [i \in 1 .. (IF Len(masks) < n THEN n ELSE Len(masks)) |-> IF i <= Len(masks) THEN masks[i] ELSE {}]
Cut(masks, n) == SubSeq(Grown(masks, n), 1, n)
Mark(masks, i, digit) == [masks EXCEPT ![i] = @ \cup {digit}]

\* The digit that follows the longest common prefix joins its group.
JoinGroup(hb, curr, len) ==
    [hb EXCEPT !.groups = Mark(Grown(@, len + 1), len + 1, curr[len + 1]),
               !.tree_masks = Grown(@, Len(curr)), !.hash_masks = Grown(@, Len(curr))]

\* The leaf, or the extension that leads to the node on top of the stack.
ShortNode(hb, path, value, build_extensions) ==
    IF ~build_extensions THEN [hb EXCEPT !.stack = Append(@, NodeRef(Leaf(path, value)))]
    ELSE IF path = <<>> THEN hb
    ELSE [hb EXCEPT !.stack = Append(Front(@), NodeRef(Extension(path, Last(@))))]

\* The root from the reference on top of the stack, be it a hash or a node to be hashed.
RootOf(stack) == IF stack = <<>> THEN EmptyRoot ELSE Last(stack).node

\* Children are on top of the stack, in the order of their digits.
Children(stack, state_mask) ==
    LET digits == InOrder(state_mask, <)
        first == Len(stack) - Len(digits)
    IN [d \in state_mask |-> stack[first + CHOOSE i \in DOMAIN digits : digits[i] = d]]
BranchRef(hb, state_mask) ==
    [hb EXCEPT !.stack = Append(SubSeq(@, 1, Len(@) - Cardinality(state_mask)), NodeRef(Branch(Children(@, state_mask))))]

\* 32 bytes are copied, whatever the length of the reference is.
ChildHashes(refs, hash_mask) ==
    LET digits == InOrder(DOMAIN refs \cap hash_mask, <) IN
    [i \in DOMAIN digits |-> IF refs[digits[i]].length = kHashLength + 1 THEN refs[digits[i]].node ELSE None]

MakeNode(hb, len, refs, root) ==
    [state_mask |-> hb.groups[len + 1], tree_mask |-> hb.tree_masks[len + 1], hash_mask |-> hb.hash_masks[len + 1],
     hashes |-> ChildHashes(refs, hb.hash_masks[len + 1]), root_hash |-> root]

\* A branch that has hashes to keep, or descendants that are kept, goes to the collector.
StoreNode(hb, curr, len, refs) ==
    IF hb.tree_masks[len + 1] = {} /\ hb.hash_masks[len + 1] = {} THEN hb
    ELSE [hb EXCEPT !.tree_masks = IF len > 0 THEN Mark(@, len, curr[len]) ELSE @,
                    !.nodes = Append(@, [key |-> SubSeq(curr, 1, len),
                                         node |-> MakeNode(hb, len, refs, IF len = 0 THEN RootOf(hb.stack) ELSE None)])]
CollectNode(hb, curr, len, refs) ==
    IF ~hb.collecting THEN hb
    ELSE StoreNode([hb EXCEPT !.hash_masks = IF len > 0 THEN Mark(@, len, curr[len]) ELSE @], curr, len, refs)
CloseBranch(hb, curr, len) ==
    CollectNode(BranchRef(hb, hb.groups[len + 1]), curr, len, Children(hb.stack, hb.groups[len + 1]))

\* Groups and masks are cut to the prefix, and then the groups that are empty go too.
CloseGroup(hb, len) ==
    LET used == {i \in 1 .. len : hb.groups[i] # {}}
        n == IF used = {} THEN 0 ELSE CHOOSE i \in used : \A j \in used : j <= i
    IN [hb EXCEPT !.groups = SubSeq(@, 1, n), !.tree_masks = Cut(@, len), !.hash_masks = Cut(@, len)]

PrecLen(hb) == IF hb.groups = <<>> THEN 0 ELSE Len(hb.groups) - 1

\* The iterations of gen_struct_step; pl and sl are the lengths that curr shares with its neighbours.
RECURSIVE GenStructStep(_, _, _, _, _)
RECURSIVE Iteration(_, _, _, _, _, _, _)
Iteration(hb, curr, succ, value, build_extensions, pl, sl) ==
    LET len == IF pl > sl THEN pl ELSE sl
        in_branch == succ # <<>> \/ hb.groups # <<>>
        noded == ShortNode(JoinGroup(hb, curr, len),
                           SubSeq(curr, (IF in_branch THEN len + 2 ELSE len + 1), Len(curr)), value, build_extensions)
        closed == CloseGroup(IF in_branch THEN CloseBranch(noded, curr, len) ELSE noded, len)
    IN IF pl <= sl /\ succ # <<>> THEN noded
       ELSE IF pl = 0 THEN closed
       ELSE GenStructStep(closed, SubSeq(curr, 1, pl), succ, value, TRUE)
GenStructStep(hb, curr, succ, value, build_extensions) ==
    Iteration(hb, curr, succ, value, build_extensions, PrecLen(hb), PrefixLength(succ, curr))

Add(hb, packed, value) ==
    LET key == UnpackNibbles(packed)
        stepped == IF hb.key = <<>> THEN hb ELSE GenStructStep(hb, hb.key, key, hb.value, FALSE)
    IN [stepped EXCEPT !.key = key, !.value = value]

Finalize(hb) ==
    IF hb.key = <<>> THEN hb
    ELSE [GenStructStep(hb, hb.key, <<>>, hb.value, FALSE) EXCEPT !.key = <<>>, !.value = None]

\* All entries added in the order of their keys; the root is RootOf(built.stack).
Built(entries, collecting) ==
    Finalize(FoldLeft(LAMBDA hb, k : Add(hb, k, entries[k]), NewHashBuilder(collecting),
                      InOrder(DOMAIN entries, LexLess)))

(* --------------------------- Roots of vectors -------------------------- *)

AdjustIndexForRlp(i, len) == IF i > 127 THEN i ELSE IF i = 127 \/ i + 1 = len THEN 0 ELSE i + 1

IndexRlp(i) == IF i = 0 THEN <<128>> ELSE IF i < 128 THEN <<i>> ELSE <<129, i>>

VectorRoot(v) ==
    LET index(j) == AdjustIndexForRlp(j - 1, Len(v)) IN
    RootOf(Finalize(FoldLeft(LAMBDA hb, j : Add(hb, IndexRlp(index(j)), v[index(j) + 1]),
                             NewHashBuilder(FALSE), [j \in 1 .. Len(v) |-> j])).stack)

(* ------------------------------ Marshalling ---------------------------- *)

\* What follows the masks: the hash of the root, if there is one, and the hashes.
MarshalNode(n) ==
    [masks |-> <<n.state_mask, n.tree_mask, n.hash_mask>>,
     hashes |-> (IF n.root_hash = None THEN <<>> ELSE <<n.root_hash>>) \o n.hashes]
\* One hash more than the mask has digits is the root's.
UnmarshalNode(v) ==
    LET rooted == Cardinality(v.masks[3]) + 1 = Len(v.hashes) IN
    [state_mask |-> v.masks[1], tree_mask |-> v.masks[2], hash_mask |-> v.masks[3],
     hashes |-> IF rooted THEN Tail(v.hashes) ELSE v.hashes, root_hash |-> IF rooted THEN v.hashes[1] ELSE None]
=============================================================================
