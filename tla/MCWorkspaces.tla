---------------------------- MODULE MCWorkspaces ----------------------------
(* An instance of Workspaces for TLC, with the trees of PaneTree.          *)
EXTENDS Workspaces

Tree == INSTANCE PaneTree

\* None, one of an older version, and one with split panes.
MCSavedBefore ==
    UNION {{<<>>,
            <<Row(g, "terminal", 2, None)>>,
            <<Row(h, "terminal", 3, [a |-> [host |-> h], b |-> [a |-> [host |-> g], b |-> [host |-> h]]]),
              Row(g, "sftp", 1, None)>>} : <<g, h>> \in {p \in Hosts \X Hosts : p[1] # p[2]}}

MCDead == Tree!null
MCTrees(leaves, c) == Tree!TreesWith(leaves, c)
MCCollectLeaves(n) == Tree!collectLeaves(n)
MCSplitLeaf(n, q, new) == Tree!splitLeaf(n, q, new)
MCRemoveLeaf(n, q) == Tree!removeLeaf(n, q)
MCSerializeLayout(n) == Tree!serializeLayout(n)
MCSavedHosts(s) == Tree!savedHosts(s)
MCDeserializeLayout(s, known) == Tree!deserializeLayout(s, known)
MCNumber(n, ids) == Tree!number(n, ids)
=============================================================================
