----------------------------- MODULE Workspaces -----------------------------
(***************************************************************************)
(* Tabs, split panes and saved workspaces: the handlers of                 *)
(* pages/AppShell.tsx over state/sessionsStore.ts, and the workspace rows   *)
(* behind state/workspacesStore.ts.                                         *)
(*                                                                          *)
(* A handler runs to its next await in one step.  Two handlers may be       *)
(* waiting: one of the user's, for the VPN gate, and the opening of a       *)
(* workspace, which opens its tabs one after the other through the same     *)
(* handlers.  Whether the gate says ok is left open (VpnGate models it).    *)
(***************************************************************************)
EXTENDS Integers, Sequences, SequencesExt, FiniteSetsExt, Functions

CONSTANTS
    Hosts,
    VpnHosts,       \* the hosts with a vpn_profile_id
    MAX_PANES,
    MaxClicks,      \* bound: what the user does altogether
    TabIds, PaneIds,    \* bound: the identifiers that are given out (UUIDs)
    SavedBefore,    \* workspaces of an earlier start
    None

\* lib/paneTree.ts, which PaneTree defines: the trees with given leaves and so
\* many of them, null, and the functions on them.
CONSTANTS
    Trees(_, _), Dead,
    CollectLeaves(_), SplitLeaf(_, _, _), RemoveLeaf(_, _),
    SerializeLayout(_), SavedHosts(_), DeserializeLayout(_, _), Number(_, _)

\* A leaf is a pane and its host; one that was just read from a workspace has
\* no pane yet, and a saved one is a host only.
Leaf(pane, host) == [pane |-> pane, host |-> host]
SavedLeaf(host) == [host |-> host]
Fork(a, b) == [a |-> a, b |-> b]
Leaves == [pane : PaneIds, host : Hosts]
NewLeaves == {Leaf(0, h) : h \in Hosts}
SavedLeaves == {SavedLeaf(h) : h \in Hosts}
Layouts(c) == Trees(Leaves, c)
SavedLayouts(c) == Trees(SavedLeaves, c)

\* workspace_tabs; a row of an older version has a pane_count only.
Row(h, k, n, l) == [host |-> h, kind |-> k, count |-> n, layout |-> l]
Kinds == {"terminal", "sftp"}
Rows == [host : Hosts, kind : Kinds, count : 1..MAX_PANES,
         layout : {None} \cup UNION {SavedLayouts(c) : c \in 1..MAX_PANES}]

ASSUME WorkspacesAssumption ==
    /\ VpnHosts \subseteq Hosts /\ Hosts # VpnHosts
    /\ {MAX_PANES, MaxClicks} \subseteq Nat \ {0}
    /\ None \notin Hosts \cup TabIds \cup PaneIds
    /\ \A c \in 1..MAX_PANES : None \notin Layouts(c) \cup SavedLayouts(c)
    /\ SavedBefore \subseteq Seq(Rows)

CountLeaves(n) == Len(CollectLeaves(n))
PanesIn(n) == {CollectLeaves(n)[i].pane : i \in 1..CountLeaves(n)}
LeafHosts(n) == [i \in 1..CountLeaves(n) |-> CollectLeaves(n)[i].host]
FindLeaf(n, q) == CHOOSE i \in 1..CountLeaves(n) : CollectLeaves(n)[i].pane = q

\* The code's recursion, a case at a time: trees, and what each function makes
\* of a leaf and of a split with sides a and b.
TreesEq ==
    \A L \in {Leaves, NewLeaves, SavedLeaves} :
        /\ Trees(L, 1) = L
        /\ \A c \in 2..MAX_PANES :
             Trees(L, c) = UNION {{Fork(a, b) : a \in Trees(L, i), b \in Trees(L, c - i)} : i \in 1..(c - 1)}
        /\ \A c \in 1..MAX_PANES : Dead \notin Trees(L, c)
CollectEq ==
    \A L \in {Leaves, NewLeaves} :
        /\ \A n \in L : CollectLeaves(n) = <<n>>
        /\ \A c \in 2..MAX_PANES : \A i \in 1..(c - 1) : \A a \in Trees(L, i), b \in Trees(L, c - i) :
             CollectLeaves(Fork(a, b)) = CollectLeaves(a) \o CollectLeaves(b)
SplitEq ==
    \A q \in PaneIds, new \in Leaves :
        /\ \A n \in Leaves : SplitLeaf(n, q, new) = IF n.pane = q THEN Fork(n, new) ELSE n
        /\ \A c \in 2..(MAX_PANES - 1) : \A i \in 1..(c - 1) : \A a \in Layouts(i), b \in Layouts(c - i) :
             SplitLeaf(Fork(a, b), q, new) = Fork(SplitLeaf(a, q, new), SplitLeaf(b, q, new))
WithoutDead(a, b) == IF a = Dead THEN b ELSE IF b = Dead THEN a ELSE Fork(a, b)
RemoveEq ==
    \A q \in PaneIds :
        /\ \A n \in Leaves : RemoveLeaf(n, q) = IF n.pane = q THEN Dead ELSE n
        /\ \A c \in 2..MAX_PANES : \A i \in 1..(c - 1) : \A a \in Layouts(i), b \in Layouts(c - i) :
             RemoveLeaf(Fork(a, b), q) = IF q \in PanesIn(a) THEN WithoutDead(RemoveLeaf(a, q), b)
                                         ELSE IF q \in PanesIn(b) THEN WithoutDead(a, RemoveLeaf(b, q))
                                         ELSE Fork(a, b)
SerializeEq ==
    /\ \A n \in Leaves : SerializeLayout(n) = SavedLeaf(n.host)
    /\ \A c \in 2..MAX_PANES : \A i \in 1..(c - 1) : \A a \in Layouts(i), b \in Layouts(c - i) :
         SerializeLayout(Fork(a, b)) = Fork(SerializeLayout(a), SerializeLayout(b))
SavedEq ==
    /\ \A h \in Hosts : SavedHosts(SavedLeaf(h)) = <<h>>
    /\ \A c \in 2..MAX_PANES : \A i \in 1..(c - 1) : \A a \in SavedLayouts(i), b \in SavedLayouts(c - i) :
         SavedHosts(Fork(a, b)) = SavedHosts(a) \o SavedHosts(b)
DeserializeEq ==
    \A known \in SUBSET Hosts :
        /\ \A h \in Hosts : DeserializeLayout(SavedLeaf(h), known) = IF h \in known THEN Leaf(0, h) ELSE Dead
        /\ \A c \in 2..MAX_PANES : \A i \in 1..(c - 1) : \A a \in SavedLayouts(i), b \in SavedLayouts(c - i) :
             DeserializeLayout(Fork(a, b), known)
               = WithoutDead(DeserializeLayout(a, known), DeserializeLayout(b, known))
NumberEq ==
    /\ \A h \in Hosts : \A ids \in [1..1 -> PaneIds] : Number(Leaf(0, h), ids) = Leaf(ids[1], h)
    /\ \A c \in 2..MAX_PANES : \A i \in 1..(c - 1) : \A a \in Trees(NewLeaves, i), b \in Trees(NewLeaves, c - i) :
         \A ids \in [1..c -> PaneIds] :
             Number(Fork(a, b), ids) = Fork(Number(a, SubSeq(ids, 1, i)), Number(b, SubSeq(ids, i + 1, c)))

ASSUME PaneTreeEquations ==
    TreesEq /\ CollectEq /\ SplitEq /\ RemoveEq /\ SerializeEq /\ SavedEq /\ DeserializeEq /\ NumberEq

\* What is left of s where only the places in keep are.
Thinned(s, keep) ==
    UNION {{[k \in 1..n |-> s[f[k]]] : f \in {g \in [1..n -> keep] :
                /\ \A i, j \in 1..n : i < j => g[i] < g[j]
                /\ keep = {g[i] : i \in 1..n}}} : n \in 0..Len(s)}

VARIABLES
    tabs,       \* sessionsStore.openSessions, in order
    main,       \* mainView: a tab's identifier, or None for a manage tab
    hosts,      \* hostsStore.hosts
    saved,      \* the rows of the workspace saved last
    click,      \* a handler of the user's that waits for the gate
    opening,    \* handleOpenWorkspace
    goal,       \* history: what is being opened while nobody interferes
    clicks      \* how often the user did something

vars == <<tabs, main, hosts, saved, click, opening, goal, clicks>>

NoClick == [op |-> "none", host |-> None, tab |-> None, pane |-> None]
NotOpening == [pc |-> "idle", todo |-> <<>>, known |-> {}, tab |-> None,
               pane |-> None, host |-> None, left |-> 0]

OpenIds == {tabs[i].id : i \in 1..Len(tabs)}
IndexOf(t) == CHOOSE i \in 1..Len(tabs) : tabs[i].id = t
Tab(t) == tabs[IndexOf(t)]
IsTerminal(t) == t \in OpenIds /\ Tab(t).kind = "terminal"
TabOf(q) == {t \in OpenIds : IsTerminal(t) /\ q \in PanesIn(Tab(t).layout)}
PanesOpen == UNION {PanesIn(Tab(t).layout) : t \in {u \in OpenIds : IsTerminal(u)}}
TerminalsOf(h) == {i \in 1..Len(tabs) : tabs[i].kind = "terminal" /\ tabs[i].host = h}
FirstTerminalOf(h) == tabs[Min(TerminalsOf(h))].id

\* New identifiers (random in the code): none that is open or remembered.
FreeTabs == TabIds \ (OpenIds \cup {click.tab, opening.tab})
FreePanes == PaneIds \ (PanesOpen \cup {click.pane, opening.pane})
FreshTab == CHOOSE t \in FreeTabs : TRUE
FreshPane == CHOOSE q \in FreePanes : TRUE
Numberings(n) == {ids \in [1..n -> FreePanes] : IsInjective(ids)}

TypeOK ==
    /\ \A i \in 1..Len(tabs) : /\ tabs[i].kind \in Kinds
                               /\ tabs[i].host \in Hosts
                               /\ tabs[i].kind = "terminal" <=> tabs[i].layout # None
    /\ main \in TabIds \cup {None}
    /\ hosts \subseteq Hosts
    /\ click.op \in {"none", "connect", "sftp", "split"}
    /\ opening.pc \in {"idle", "list", "tab", "gate", "layout", "flat", "split"}
    /\ opening.left \in 0..(MAX_PANES - 1)

Init ==
    /\ tabs = <<>> /\ main = None /\ hosts = Hosts /\ saved \in SavedBefore
    /\ click = NoClick /\ opening = NotOpening /\ goal = None /\ clicks = 0

-----------------------------------------------------------------------------
(* sessionsStore                                                           *)

OpenSession(h, kind) ==
    /\ FreeTabs # {} /\ FreePanes # {}
    /\ tabs' = Append(tabs, [id |-> FreshTab, kind |-> kind, host |-> h,
                  layout |-> IF kind = "terminal" THEN Leaf(FreshPane, h) ELSE None])
    /\ main' = FreshTab

\* splitPane: the tab and the pane must still be there, with room for one more;
\* a version that trusts the button that was clicked, and one that splits the
\* tab's last pane.
RoomAtTheClick(l) == TRUE
HasRoom(l) == CountLeaves(l) < MAX_PANES
TargetLast(l, q) == Last(CollectLeaves(l)).pane
Target(l, q) == q
SplitPane(t, q, h) ==
    IF t \in TabOf(q) /\ HasRoom(Tab(t).layout)
    THEN LET l == Tab(t).layout
             host == IF h = None THEN CollectLeaves(l)[FindLeaf(l, q)].host ELSE h
         IN  /\ FreePanes # {}
             /\ tabs' = [tabs EXCEPT ![IndexOf(t)].layout =
                            SplitLeaf(l, Target(l, q), Leaf(FreshPane, host))]
    ELSE UNCHANGED tabs

SetLayout(t, l) ==
    IF t \in OpenIds
    THEN /\ Numberings(CountLeaves(l)) # {}
         /\ tabs' = [tabs EXCEPT ![IndexOf(t)].layout =
                        Number(l, CHOOSE ids \in Numberings(CountLeaves(l)) : TRUE)]
    ELSE UNCHANGED tabs

\* reorderSessions inserts before what is at `to`; a version that forgets that
\* taking the tab out has shifted the later ones.
IndexUnshifted(from, to) == Min({to, Len(tabs)})
IndexShifted(from, to) == IF from < to THEN to - 1 ELSE to
ReorderSessions(from, to) ==
    tabs' = IF from = to THEN tabs
            ELSE InsertAt(RemoveAt(tabs, from), IndexShifted(from, to), tabs[from])

-----------------------------------------------------------------------------
(* The user                                                                *)

\* A click is taken while no other handler of the user's waits for a VPN.
Clicks == click = NoClick /\ goal' = None

\* The hosts that the tree, the grid and the command palette offer.
Offered == hosts

\* handleConnect: a terminal tab of the host is shown again.
ShowExisting(h) ==
    /\ Clicks /\ h \in Offered /\ TerminalsOf(h) # {}
    /\ main' = FirstTerminalOf(h)
    /\ UNCHANGED <<tabs, hosts, saved, click, opening>>

\* handleConnect and handleOpenSftp: open the tab, after the gate if any.
Open(h, op) ==
    /\ Clicks /\ h \in Offered
    /\ op = "connect" => TerminalsOf(h) = {}
    /\ IF h \in VpnHosts
       THEN click' = [NoClick EXCEPT !.op = op, !.host = h] /\ UNCHANGED <<tabs, main>>
       ELSE OpenSession(h, IF op = "sftp" THEN "sftp" ELSE "terminal") /\ UNCHANGED click
    /\ UNCHANGED <<hosts, saved, opening>>

\* The Split popover of a pane: None stands for the pane's own host.  Its
\* button is disabled in a full tab.
SplitOffered(q, h) ==
    /\ \E t \in TabOf(q) : CountLeaves(Tab(t).layout) < MAX_PANES
    /\ h \in hosts \cup {None}

\* handleSplitPane.
Split(q, h) ==
    /\ Clicks /\ SplitOffered(q, h)
    /\ LET t == CHOOSE u \in TabOf(q) : TRUE
           l == Tab(t).layout
           target == IF h = None THEN CollectLeaves(l)[FindLeaf(l, q)].host ELSE h
       IN  IF target \in VpnHosts
           THEN /\ click' = [op |-> "split", host |-> h, tab |-> t, pane |-> q]
                /\ UNCHANGED tabs
           ELSE SplitPane(t, q, h) /\ UNCHANGED click
    /\ UNCHANGED <<main, hosts, saved, opening>>

\* The gate lets the handler go on, or shows an error.
GateReturns(ok) ==
    /\ click # NoClick
    /\ click' = NoClick /\ goal' = None
    /\ IF ok
       THEN IF click.op = "split"
            THEN SplitPane(click.tab, click.pane, click.host) /\ UNCHANGED main
            ELSE OpenSession(click.host, IF click.op = "sftp" THEN "sftp" ELSE "terminal")
       ELSE UNCHANGED <<tabs, main>>
    /\ UNCHANGED <<hosts, saved, opening>>

\* handleCloseTab: the last of the remaining tabs is shown next.
MainFallsBack(t, rest) == IF main # t THEN main ELSE IF rest = <<>> THEN None ELSE Last(rest).id
CloseTab(t) ==
    LET rest == RemoveAt(tabs, IndexOf(t))
    IN  /\ t \in OpenIds /\ goal' = None
        /\ tabs' = rest
        /\ main' = MainFallsBack(t, rest)
        /\ UNCHANGED <<hosts, saved, click, opening>>

\* handleClosePane closes the tab with its only pane.
ClosePane(q) ==
    \E t \in TabOf(q) :
      IF CountLeaves(Tab(t).layout) <= 1 THEN CloseTab(t)
      ELSE /\ goal' = None
           /\ tabs' = [tabs EXCEPT ![IndexOf(t)].layout = RemoveLeaf(@, q)]
           /\ UNCHANGED <<main, hosts, saved, click, opening>>

\* A tab is clicked, in the bar or in the overflow list.
Show(t) ==
    /\ t \in OpenIds
    /\ main' = t
    /\ UNCHANGED <<tabs, hosts, saved, click, opening, goal>>

\* handleActivitySelect: a manage tab is.
ActivitySelect ==
    /\ main # None
    /\ main' = None
    /\ UNCHANGED <<tabs, hosts, saved, click, opening, goal>>

\* Ctrl+Tab and Ctrl+Shift+Tab.
CycleTab(delta) ==
    LET n == Len(tabs)
        current == IF main = None THEN 0 ELSE IndexOf(main)
    IN  /\ n > 0
        /\ main' = tabs[((current - 1 + delta + n) % n) + 1].id
        /\ UNCHANGED <<tabs, hosts, saved, click, opening, goal>>

\* A tab is dropped before another one, or after the last.
Drop(from, to) ==
    /\ from \in 1..Len(tabs) /\ to \in 1..(Len(tabs) + 1) /\ goal' = None
    /\ ReorderSessions(from, to)
    /\ UNCHANGED <<main, hosts, saved, click, opening>>

\* handleSaveCurrentLayout: one INSERT per tab, without a transaction; one for
\* a host that was deleted fails and ends it.
Saveable == {n \in 0..Len(tabs) : \A i \in 1..n : tabs[i].host \in hosts}
SaveCurrentLayout ==
    /\ Clicks /\ tabs # <<>>
    /\ saved' = [i \in 1..Max(Saveable) |->
                   IF tabs[i].kind = "sftp" THEN Row(tabs[i].host, "sftp", 1, None)
                   ELSE Row(tabs[i].host, "terminal", CountLeaves(tabs[i].layout),
                            SerializeLayout(tabs[i].layout))]
    /\ UNCHANGED <<tabs, main, hosts, click, opening>>

\* Deleting a host takes its workspace rows along; its tabs stay open.
DeleteHost(h) ==
    /\ Clicks /\ h \in hosts
    /\ hosts' = hosts \ {h}
    /\ saved' \in Thinned(saved, {i \in 1..Len(saved) : saved[i].host # h})
    /\ UNCHANGED <<tabs, main, click, opening>>

DeleteWorkspace ==
    /\ Clicks /\ saved # <<>>
    /\ saved' = <<>>
    /\ UNCHANGED <<tabs, main, hosts, click, opening>>

-----------------------------------------------------------------------------
(* handleOpenWorkspace                                                     *)

At(pc) == [opening EXCEPT !.pc = pc]
\* On to the next row.
NextRow == [NotOpening EXCEPT !.pc = "tab", !.todo = Tail(opening.todo), !.known = opening.known]
ThisRow == Head(opening.todo)

\* The hosts are those of the click; the rows are read from the database.
OpenWorkspace ==
    /\ click = NoClick /\ opening.pc = "idle"
    /\ opening' = [NotOpening EXCEPT !.pc = "list", !.known = hosts]
    /\ goal' = None
    /\ UNCHANGED <<tabs, main, hosts, saved, click>>

ListTabs ==
    /\ opening.pc = "list"
    /\ opening' = [At("tab") EXCEPT !.todo = saved]
    /\ goal' = IF tabs = <<>> /\ click = NoClick THEN [rows |-> saved, hosts |-> opening.known] ELSE None
    /\ UNCHANGED <<tabs, main, hosts, saved, click>>

OpenDone ==
    /\ opening.pc = "tab" /\ opening.todo = <<>>
    /\ opening' = NotOpening
    /\ UNCHANGED <<tabs, main, hosts, saved, click, goal>>

\* What happens to the terminal tab of the row once it is there: its layout
\* is restored or, if there is none or nothing of it is left, its panes are
\* split off one by one.
Restored(r, known) == IF r.layout = None THEN Dead ELSE DeserializeLayout(r.layout, known)
\* The loop over the panes starts at the second; a version that starts at the
\* first.
AllPanes(r) == r.count
PanesLeft(r) == r.count - 1
Arrange(t) ==
    [opening EXCEPT !.tab = t, !.left = PanesLeft(ThisRow),
                    !.pc = IF Restored(ThisRow, opening.known) # Dead THEN "layout" ELSE "flat"]

OpenRow ==
    /\ opening.pc = "tab" /\ opening.todo # <<>>
    /\ IF ThisRow.host \notin opening.known THEN opening' = NextRow /\ UNCHANGED main
       ELSE IF ThisRow.kind = "terminal" /\ TerminalsOf(ThisRow.host) # {}
       THEN /\ main' = FirstTerminalOf(ThisRow.host)
            /\ opening' = Arrange(main')
       ELSE opening' = At("gate") /\ UNCHANGED main
    /\ UNCHANGED <<tabs, hosts, saved, click, goal>>

\* The gate of handleConnect or handleOpenSftp; after a failed one the row's
\* tab may still be there, opened by the user in the meantime.
RowGate(ok) ==
    /\ opening.pc = "gate" /\ (ok \/ ThisRow.host \in VpnHosts)
    /\ IF ok
       THEN /\ OpenSession(ThisRow.host, ThisRow.kind)
            /\ opening' = IF ThisRow.kind = "sftp" THEN NextRow
                          ELSE IF TerminalsOf(ThisRow.host) # {} THEN Arrange(FirstTerminalOf(ThisRow.host))
                          ELSE Arrange(FreshTab)
            /\ UNCHANGED goal
       ELSE /\ opening' = IF ThisRow.kind = "terminal" /\ TerminalsOf(ThisRow.host) # {}
                          THEN Arrange(FirstTerminalOf(ThisRow.host)) ELSE NextRow
            /\ goal' = None
            /\ UNCHANGED <<tabs, main>>
    /\ UNCHANGED <<hosts, saved, click>>

\* After the gates of the other hosts, whatever they said.
RestoreLayout ==
    /\ opening.pc = "layout"
    /\ SetLayout(opening.tab, Restored(ThisRow, opening.known))
    /\ opening' = NextRow
    /\ UNCHANGED <<main, hosts, saved, click, goal>>

\* One more pane beside the first, if the tab is still there.
FlatGoesOn == opening.left > 0 /\ IsTerminal(opening.tab)
FlatSplit ==
    /\ opening.pc = "flat"
    /\ opening' = IF FlatGoesOn
                  THEN LET first == CollectLeaves(Tab(opening.tab).layout)[1]
                       IN  [At("split") EXCEPT !.pane = first.pane, !.host = first.host]
                  ELSE NextRow
    /\ UNCHANGED <<tabs, main, hosts, saved, click, goal>>

\* A pane that failed is not tried again.
OneLess(ok) == opening.left - 1
FlatGate(ok) ==
    /\ opening.pc = "split" /\ (ok \/ opening.host \in VpnHosts)
    /\ IF ok THEN SplitPane(opening.tab, opening.pane, None) /\ UNCHANGED goal
       ELSE UNCHANGED tabs /\ goal' = None
    /\ opening' = [At("flat") EXCEPT !.pane = None, !.host = None, !.left = OneLess(ok)]
    /\ UNCHANGED <<main, hosts, saved, click>>

Opening ==
    \/ ListTabs \/ OpenRow \/ OpenDone \/ RestoreLayout \/ FlatSplit
    \/ \E ok \in BOOLEAN : RowGate(ok) \/ FlatGate(ok)

-----------------------------------------------------------------------------
UserAction ==
    \/ \E h \in Hosts : ShowExisting(h) \/ DeleteHost(h) \/ \E op \in {"connect", "sftp"} : Open(h, op)
    \/ \E q \in PanesOpen : ClosePane(q) \/ \E h \in Hosts \cup {None} : Split(q, h)
    \/ \E t \in OpenIds : CloseTab(t) \/ Show(t)
    \/ ActivitySelect
    \/ \E delta \in {1, -1} : CycleTab(delta)
    \/ \E i, j \in 1..(Len(tabs) + 1) : Drop(i, j)
    \/ SaveCurrentLayout \/ DeleteWorkspace \/ OpenWorkspace

\* Events are handled only while handleOpenWorkspace waits: for the rows, or
\* for the VPN of a host that has one.
Waits ==
    \/ opening.pc \in {"idle", "list"}
    \/ opening.pc = "gate" /\ ThisRow.host \in VpnHosts
    \/ opening.pc = "split" /\ opening.host \in VpnHosts
    \/ /\ opening.pc = "layout"
       /\ \E l \in ToSet(CollectLeaves(Restored(ThisRow, opening.known))) :
            l.host \in VpnHosts \ {ThisRow.host}

User == Waits /\ clicks < MaxClicks /\ clicks' = clicks + 1 /\ UserAction
Next ==
    \/ User
    \/ UNCHANGED clicks /\ Opening
    \/ UNCHANGED clicks /\ Waits /\ \E ok \in BOOLEAN : GateReturns(ok)

\* Gates return (GateReturns of VpnGate) and the backend answers.
Spec == Init /\ [][Next]_vars

-----------------------------------------------------------------------------
\* The view shows a tab that is open, or a manage tab.
MainIsOpen == main \in OpenIds \cup {None}

\* The pane of a tab's k-th leaf.
PaneAt(i, k) == CollectLeaves(tabs[i].layout)[k].pane
Terminals == {i \in 1..Len(tabs) : tabs[i].kind = "terminal"}
AllDistinct ==
    /\ \A i, j \in 1..Len(tabs) : tabs[i].id = tabs[j].id => i = j
    /\ \A i, j \in Terminals : \A k \in 1..CountLeaves(tabs[i].layout), m \in 1..CountLeaves(tabs[j].layout) :
         PaneAt(i, k) = PaneAt(j, m) => i = j /\ k = m
    /\ \A i \in Terminals : CountLeaves(tabs[i].layout) \in 1..MAX_PANES

\* Tabs and panes stay well formed, however clicks, a workspace that is being
\* opened and the answers of the VPN gate overlap: the view never shows a tab that
\* was closed, no pane is in two places and no tab has more panes than MAX_PANES,
\* whether it was split or restored.
TabsWellFormed == TypeOK /\ MainIsOpen /\ AllDistinct

\* A dropped tab is just before the tab it was dropped on, or last, and the
\* others keep their order.
DropExact ==
    [][\A i \in 1..Len(tabs), j \in 1..(Len(tabs) + 1) : Drop(i, j) =>
         \E k \in 1..Len(tabs) :
            /\ tabs'[k] = tabs[i] /\ RemoveAt(tabs', k) = RemoveAt(tabs, i)
            /\ IF i = j THEN k = i
               ELSE IF j > Len(tabs) THEN k = Len(tabs)
               ELSE k < Len(tabs) /\ tabs'[k + 1] = tabs[j]]_vars

\* Splitting a pane puts the new one right after it, and closing a pane takes
\* away nothing else: the other panes of the tab stay, in their order.  What a
\* handler splits after it waited is the pane it was asked to split.
Remembered == {click.pane, opening.pane}
PaneEditsLocal ==
    [][\A t \in OpenIds : (IsTerminal(t) /\ t \in OpenIds' /\ opening.pc # "layout") =>
         LET before == CollectLeaves(Tab(t).layout)
             after == CollectLeaves(Tab(t)'.layout)
         IN  \/ after = before
             \/ \E k \in 1..Len(before) : after = RemoveAt(before, k)
             \/ \E k \in 1..Len(before) :
                  /\ RemoveAt(after, k + 1) = before
                  /\ clicks' = clicks => before[k].pane \in Remembered]_vars

\* A workspace opened with nothing open and nobody interfering brings back the
\* tabs of its rows in their order, with the hosts of their panes in theirs,
\* less what was deleted since it was saved.  (Two terminal tabs of one host
\* come back as one.)
KeptPlaces(s, known) == {i \in 1..Len(SavedHosts(s)) : SavedHosts(s)[i] \in known}
PanesWanted(r) ==
    IF r.layout = None \/ KeptPlaces(r.layout, goal.hosts) = {} THEN {[k \in 1..r.count |-> r.host]}
    ELSE Thinned(SavedHosts(r.layout), KeptPlaces(r.layout, goal.hosts))
ComesBackAs(tab, r) ==
    /\ tab.host = r.host /\ tab.kind = r.kind
    /\ r.kind = "terminal" => LeafHosts(tab.layout) \in PanesWanted(r)
Unambiguous(rows) == \A i, j \in 1..Len(rows) :
                        rows[i].host = rows[j].host /\ rows[i].kind = rows[j].kind => i = j
ReopensWhatWasSaved ==
    goal # None /\ opening.pc = "idle" /\ Unambiguous(goal.rows) =>
        /\ Len(tabs) = Len(goal.rows)
        /\ \A i \in 1..Len(tabs) : ComesBackAs(tabs[i], goal.rows[i])
=============================================================================
