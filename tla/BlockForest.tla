---------------------------- MODULE BlockForest ----------------------------
(***************************************************************************)
(* The unstable blocks of canister/src/blockforest.rs: a vector of trees   *)
(* of blocks.  Everything here is a constant-level operator on a forest;   *)
(* the modules that hold a forest in their state apply them.               *)
(*                                                                         *)
(* A block stands for its hash, Prev for header.prev_blockhash.  A tree is *)
(* the set of its nodes; a node is a block at a position, the sequence of  *)
(* child indices that leads to it from the root, so that the root is at    *)
(* << >> and the second child of the root at <<2>>.  Positions keep what   *)
(* the vector of children keeps (the order of children, and two copies of  *)
(* one block in one tree), and depth, lookup and grafting need no          *)
(* recursion.                                                              *)
(***************************************************************************)
EXTENDS Integers, FiniteSets, Sequences, SequencesExt

CONSTANTS
    Blocks,     \* the blocks the network can ever serve
    NoBlock,    \* the null hash, and the absence of a block
    Prev,       \* Prev[b]: the hash in the header of b of the block before it
    Delta       \* BlockForest.delta

ASSUME BlocksAssumption ==
    /\ NoBlock \notin Blocks
    /\ Prev \in [Blocks -> Blocks \cup {NoBlock}]

ASSUME DeltaAssumption == Delta \in Nat

-----------------------------------------------------------------------------
\* Trees: struct BlockTree

Position == Seq(Nat \ {0})

Node == [at : Position, block : Blocks]

\* One node at a position, and with a node all its ancestors and the earlier
\* siblings of these and of the node itself.
IsTree(t) ==
    /\ \E n \in t : n.at = <<>>
    /\ \A n, m \in t : n.at = m.at => n = m
    /\ \A n \in t : \A j \in 1..Len(n.at) : \A k \in 1..n.at[j] :
          \E m \in t : m.at = Append(SubSeq(n.at, 1, j - 1), k)

Tree == {t \in SUBSET Node : IsFiniteSet(t) /\ IsTree(t)}

Leaf(b) == {[at |-> <<>>, block |-> b]}

Root(t) == (CHOOSE n \in t : n.at = <<>>).block

HasBlock(t, b) == \E n \in t : n.block = b

\* depth(): the number of edges on the longest path down from the root.
Depth(t) == Max({Len(n.at) : n \in t})

\* The last of the child indices in use below position p.
NumChildren(t, p) ==
    Max({0} \cup {Last(n.at) : n \in {m \in t : m.at # <<>> /\ Front(m.at) = p}})

\* Pre-order: a node before its descendants, a child before its later siblings.
Index(p, i) == IF i <= Len(p) THEN p[i] ELSE 0

Before(p, q) ==
    \E i \in 1..Len(q) :
        /\ Index(p, i) < Index(q, i)
        /\ \A j \in 1..(i - 1) : Index(p, j) = Index(q, j)

\* find_mut(): the position at which a depth-first search meets b first.
Find(t, b) ==
    LET places == {n.at : n \in {m \in t : m.block = b}}
    IN  CHOOSE p \in places : \A q \in places : p = q \/ Before(p, q)

\* Mutant: the child index is not incremented.
GraftOverLast(t, p, s) ==
    LET child == Append(p, Max({1, NumChildren(t, p)}))
    IN  t \cup {[at |-> child \o n.at, block |-> n.block] : n \in s}

\* children.push(s) at position p.  The empty set of nodes is the None that
\* take_tree returns, and grafting it changes nothing.
Graft(t, p, s) ==
    LET child == Append(p, NumChildren(t, p) + 1)
    IN  t \cup {[at |-> child \o n.at, block |-> n.block] : n \in s}

CanExtend(t, b) == HasBlock(t, b) \/ HasBlock(t, Prev[b])

\* extend(), when it returns Ok: a no-op for a block the tree has.
Extend(t, b) ==
    IF HasBlock(t, b) THEN t ELSE Graft(t, Find(t, Prev[b]), Leaf(b))

\* Mutant: only the first child of the root is kept.
FirstSubtree(t) ==
    [i \in 1..Min({1, NumChildren(t, <<>>)}) |->
        {[at |-> Tail(n.at), block |-> n.block] :
            n \in {m \in t : m.at # <<>> /\ Head(m.at) = i}}]

\* The children of the root as trees of their own, in order: BlockTree::pop().
Subtrees(t) ==
    [i \in 1..NumChildren(t, <<>>) |->
        {[at |-> Tail(n.at), block |-> n.block] :
            n \in {m \in t : m.at # <<>> /\ Head(m.at) = i}}]

Leaves(t) == {n \in t : \A m \in t : ~IsStrictPrefix(n.at, m.at)}

BlockAt(t, p) == (CHOOSE n \in t : n.at = p).block

Blockchains(t) ==
    {[k \in 1..(Len(n.at) + 1) |-> BlockAt(t, SubSeq(n.at, 1, k - 1))] :
        n \in Leaves(t)}

-----------------------------------------------------------------------------
\* Forests: struct BlockForest

EmptyForest == <<>>

Attached(t, anchor) == Prev[Root(t)] = anchor

\* Tree i comes before tree j once pop() has partitioned the trees into
\* attached and detached ones and sorted the former by depth, both stably.
Ahead(trees, anchor, i, j) ==
    LET att(k) == Attached(trees[k], anchor)
        deep(k) == Depth(trees[k])
    IN  \/ att(i) /\ ~att(j)
        \/ att(i) /\ att(j) /\ deep(i) < deep(j)
        \/ /\ att(i) = att(j) /\ i < j
           /\ att(i) => deep(i) = deep(j)

Place(trees, anchor, i) ==
    Cardinality({j \in DOMAIN trees : j = i \/ Ahead(trees, anchor, j, i)})

\* concat(sorted attached trees, detached trees)
Partitioned(trees, anchor) ==
    [k \in DOMAIN trees |->
        trees[CHOOSE i \in DOMAIN trees : Place(trees, anchor, i) = k]]

NumAttached(trees, anchor) ==
    Cardinality({i \in DOMAIN trees : Attached(trees[i], anchor)})

\* Mutant: the competing trees are not looked at.
DeepestIsDeep(sorted, n) == n >= 1 /\ Depth(sorted[n]) >= Delta

\* The deepest attached tree is delta deep, and delta deeper than the next.
DeepestIsStable(sorted, n) ==
    /\ n >= 1
    /\ Depth(sorted[n]) >= Delta
    /\ n >= 2 => Depth(sorted[n]) - Depth(sorted[n - 1]) >= Delta

\* pop(): at most one block.  The trees are reordered even if none is stable;
\* the other attached trees are dropped if one is.
Pop(trees, anchor) ==
    LET sorted == Partitioned(trees, anchor)
        n == NumAttached(trees, anchor)
        detached == SubSeq(sorted, n + 1, Len(sorted))
    IN  IF DeepestIsStable(sorted, n)
        THEN [block |-> Root(sorted[n]),
              trees |-> detached \o Subtrees(sorted[n])]
        ELSE [block |-> NoBlock, trees |-> sorted]

\* take_tree(): removes the FIRST tree whose root follows b, and only that one.
TakeTree(trees, b) ==
    LET followers == {i \in DOMAIN trees : Prev[Root(trees[i])] = b}
    IN  IF followers = {}
        THEN [tree |-> {}, rest |-> trees]
        ELSE [tree |-> trees[Min(followers)],
              rest |-> RemoveAt(trees, Min(followers))]

\* Mutant: the tree taken is dropped when the block joins another tree.
PushDroppingTree(trees, b) ==
    LET taken == TakeTree(trees, b)
        homes == {i \in DOMAIN taken.rest : CanExtend(taken.rest[i], b)}
    IN  IF homes = {}
        THEN Append(taken.rest, Graft(Leaf(b), <<>>, taken.tree))
        ELSE [taken.rest EXCEPT ![Min(homes)] = Extend(@, b)]

\* Mutant: the tree taken becomes a child of the root of that tree.
PushBelowRoot(trees, b) ==
    LET taken == TakeTree(trees, b)
        homes == {i \in DOMAIN taken.rest : CanExtend(taken.rest[i], b)}
    IN  IF homes = {}
        THEN Append(taken.rest, Graft(Leaf(b), <<>>, taken.tree))
        ELSE [taken.rest EXCEPT ![Min(homes)] = Graft(Extend(@, b), <<>>, taken.tree)]

\* push(): into the first tree that has the block or the block before it, or
\* else as a tree of its own; the tree taken becomes a child of the block.
Push(trees, b) ==
    LET taken == TakeTree(trees, b)
        homes == {i \in DOMAIN taken.rest : CanExtend(taken.rest[i], b)}
    IN  IF homes = {}
        THEN Append(taken.rest, Graft(Leaf(b), <<>>, taken.tree))
        ELSE LET i == Min(homes)
                 extended == Extend(taken.rest[i], b)
             IN  [taken.rest EXCEPT
                    ![i] = Graft(extended, Find(extended, b), taken.tree)]

\* Mutant: one of the longest chains, contested or not.
SomeLongestChain(trees, anchor) ==
    LET chains == UNION {Blockchains(trees[i]) :
                            i \in {j \in DOMAIN trees : Attached(trees[j], anchor)}}
    IN  IF chains = {} THEN <<>>
        ELSE CHOOSE c \in chains : \A d \in chains : Len(d) <= Len(c)

\* get_current_chain(): what all the longest attached chains have in common.
GetCurrentChain(trees, anchor) ==
    LET chains == UNION {Blockchains(trees[i]) :
                            i \in {j \in DOMAIN trees : Attached(trees[j], anchor)}}
        longest == {c \in chains : \A d \in chains : Len(d) <= Len(c)}
    IN  IF chains = {} THEN <<>> ELSE LongestCommonPrefix(longest)

\* get_blocks(), as a set: it repeats a block once for every chain it is on.
GetBlocks(trees) == UNION {{n.block : n \in trees[i]} : i \in DOMAIN trees}

-----------------------------------------------------------------------------
\* Two trees above the anchor have the same root, as they can if a block comes
\* again that is not in the first tree that holds the block before it.
Twins(trees, anchor) ==
    \E i, j \in DOMAIN trees :
        i # j /\ Attached(trees[i], anchor) /\ Root(trees[i]) = Root(trees[j])
=============================================================================
