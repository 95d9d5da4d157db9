------------------------------ MODULE PaneTree ------------------------------
(***************************************************************************)
(* lib/paneTree.ts: a terminal tab's split layout is a binary tree, with a  *)
(* pane and its host at every leaf.  A saved layout has the same shape with *)
(* hosts only.  Ratios and rectangles are left out: they place the panes on *)
(* the screen and decide nothing else.  Workspaces knows these functions by *)
(* PaneTreeEquations only; TLC evaluates those on the definitions here.     *)
(***************************************************************************)
EXTENDS Naturals, Sequences

IsLeaf(n) == "a" \notin DOMAIN n
Leaf(pane, host) == [pane |-> pane, host |-> host]
null == [dead |-> TRUE]     \* JavaScript's, where a tree may be missing

RECURSIVE collectLeaves(_), splitLeaf(_, _, _), removeLeaf(_, _)

collectLeaves(n) ==
    IF IsLeaf(n) THEN <<n>> ELSE collectLeaves(n.a) \o collectLeaves(n.b)

splitLeaf(n, q, new) ==
    IF IsLeaf(n)
    THEN IF n.pane = q THEN [a |-> n, b |-> new] ELSE n
    ELSE [a |-> splitLeaf(n.a, q, new), b |-> splitLeaf(n.b, q, new)]

\* What is left of a split: a missing side's sibling takes its place.
LiveSides(a, b) == IF a # null /\ b # null THEN [a |-> a, b |-> b] ELSE IF a # null THEN a ELSE b

findLeaf(n, q) == \E i \in 1..Len(collectLeaves(n)) : collectLeaves(n)[i].pane = q
removeLeaf(n, q) ==
    IF IsLeaf(n) THEN IF n.pane = q THEN null ELSE n
    ELSE IF findLeaf(n.a, q) THEN LiveSides(removeLeaf(n.a, q), n.b)
    ELSE IF findLeaf(n.b, q) THEN LiveSides(n.a, removeLeaf(n.b, q))
    ELSE n

RECURSIVE serializeLayout(_), deserializeLayout(_, _), savedHosts(_)

serializeLayout(n) ==
    IF IsLeaf(n) THEN [host |-> n.host]
    ELSE [a |-> serializeLayout(n.a), b |-> serializeLayout(n.b)]

savedHosts(s) == IF IsLeaf(s) THEN <<s.host>> ELSE savedHosts(s.a) \o savedHosts(s.b)

\* The leaves of deleted hosts are dropped.  The panes' identifiers are new:
\* number gives them out.
deserializeLayout(s, hosts) ==
    IF IsLeaf(s) THEN IF s.host \in hosts THEN Leaf(0, s.host) ELSE null
    ELSE LiveSides(deserializeLayout(s.a, hosts), deserializeLayout(s.b, hosts))

RECURSIVE number(_, _)
number(n, ids) ==
    IF IsLeaf(n) THEN [n EXCEPT !.pane = Head(ids)]
    ELSE LET left == Len(collectLeaves(n.a))
         IN  [a |-> number(n.a, SubSeq(ids, 1, left)), b |-> number(n.b, SubSeq(ids, left + 1, Len(ids)))]

\* The trees with n leaves, at least i of them on the left.
RECURSIVE TreesWith(_, _), SplitsFrom(_, _, _)
TreesWith(leaves, n) == IF n = 1 THEN leaves ELSE SplitsFrom(leaves, n, 1)
SplitsFrom(leaves, n, i) ==
    IF i = n THEN {}
    ELSE [a : TreesWith(leaves, i), b : TreesWith(leaves, n - i)] \cup SplitsFrom(leaves, n, i + 1)
=============================================================================
