---------------------------- MODULE HostLibrary -----------------------------
(***************************************************************************)
(* The library of hosts, groups, identities, keys and VPN profiles: the     *)
(* tables of data/*.rs, state/hostsStore.ts that mirrors them, the forms    *)
(* and lists of the frontend that change them, and the tree that shows the  *)
(* hosts.                                                                   *)
(*                                                                          *)
(* An operation of the store is a command to the backend followed by        *)
(* loadAll, whose lists are read at different times and answered in any     *)
(* order.  Two operations may be under way: one of a form, which may take   *)
(* several commands, and one of a list or a menu.  Names, addresses, icons, *)
(* colours and notes are left out: they decide nothing.  Row 0 is no row.   *)
(***************************************************************************)
EXTENDS Naturals, Sequences, FiniteSets

CONSTANTS
    MaxClicks,  \* bound: what the user does altogether
    MayFail     \* may a command or a list fail on its own?

ASSUME LibraryAssumption == MaxClicks \in Nat /\ MayFail \in BOOLEAN

VARIABLES
    db,         \* the rows
    store,      \* hostsStore: the lists it got last
    latest,     \* loadRequestId
    ops,        \* operations under way
    form,       \* the form in the right panel
    filter,     \* HostTree: is the tag chosen as a filter?
    missed,     \* history: what the calls of loadAll up to this one have
                \* shown is not enough
    clicks

vars == <<db, store, latest, ops, form, filter, missed, clicks>>

Slots == {"form", "list"}
NoRow == [none |-> TRUE]
Error == [error |-> TRUE]
NoForm == [kind |-> "none", id |-> 0, row |-> NoRow]
NoOp == [pc |-> "idle", todo |-> <<>>, made |-> [key |-> 0, identity |-> 0, vpn |-> 0],
         req |-> 0, groups |-> <<>>, rest |-> <<>>, entered |-> FALSE]

Host(g, i, v, t) == [group |-> g, identity |-> i, vpn |-> v, tag |-> t, fav |-> FALSE]
Group(p, o) == [parent |-> p, order |-> o]
\* The lists of loadAll: the groups, and the rest.
Rest(d) == [hosts |-> d.hosts, identities |-> d.identities, keys |-> d.keys]
Lists(d) == [groups |-> d.groups, rest |-> Rest(d)]

\* A library of an earlier start: a group in a group, a host with everything
\* in the inner one, and a bare host.  hosts.vpn_profile_id is a foreign key
\* (fk) unless the database is older than that column.  AppShell has loaded the
\* lists.
Init ==
    /\ \E fk \in BOOLEAN : db = [fk |-> fk, groups |-> <<Group(0, 0), Group(1, 0)>>,
             hosts |-> <<Host(2, 1, 1, TRUE), Host(0, 0, 0, FALSE)>>,
             identities |-> <<1>>, keys |-> {1}, vpns |-> {1}, next |-> 3]
    /\ store = Lists(db) /\ latest = 1 /\ missed = 0
    /\ ops = [s \in Slots |-> NoOp] /\ form = NoForm /\ filter = FALSE /\ clicks = 0

-----------------------------------------------------------------------------
(* The backend: what a command makes of the rows, or Error                 *)

Put(table, id, row) == [i \in DOMAIN table \cup {id} |-> IF i = id THEN row ELSE table[i]]
Drop(table, id) == [i \in DOMAIN table \ {id} |-> table[i]]
Exists(id, rows) == id = 0 \/ id \in rows               \* a foreign key

\* Foreign keys are on, where the table declares them; a version without them.
AnyRefs(d, row) == TRUE
RefsOK(d, row) ==
    /\ Exists(row.group, DOMAIN d.groups) /\ Exists(row.identity, DOMAIN d.identities)
    /\ d.fk => Exists(row.vpn, d.vpns)

\* hosts::update leaves is_favorite alone.
FavoriteOfRow(d, id, row) == [row EXCEPT !.fav = d.hosts[id].fav]

\* A host is created, with its favourite off, or updated.
PutHost(d, id, row) ==
    IF ~RefsOK(d, row) THEN Error
    ELSE IF id = 0 THEN [d EXCEPT !.hosts = Put(@, d.next, [row EXCEPT !.fav = FALSE]), !.next = @ + 1]
    ELSE IF id \in DOMAIN d.hosts THEN [d EXCEPT !.hosts[id] = FavoriteOfRow(d, id, row)]
    ELSE Error

PutGroup(d, id, row) ==
    IF ~Exists(row.parent, DOMAIN d.groups) THEN Error
    ELSE IF id = 0 THEN [d EXCEPT !.groups = Put(@, d.next, row), !.next = @ + 1]
    ELSE IF id \in DOMAIN d.groups THEN [d EXCEPT !.groups[id] = row]
    ELSE Error

PutIdentity(d, id, key) ==
    IF ~Exists(key, d.keys) THEN Error
    ELSE IF id = 0 THEN [d EXCEPT !.identities = Put(@, d.next, key), !.next = @ + 1]
    ELSE IF id \in DOMAIN d.identities THEN [d EXCEPT !.identities[id] = key]
    ELSE Error

\* ON DELETE SET NULL, and the UPDATE of vpn_profiles::delete: in one column,
\* and in that column of every row.
Unset(ref, id) == IF ref = id THEN 0 ELSE ref
UnsetIn(table, column, id) ==
    [r \in DOMAIN table |-> [table[r] EXCEPT ![column] = Unset(table[r][column], id)]]
\* A version that leaves the subgroups where they were.
SubgroupsStay(d, id) == Drop(d.groups, id)
SubgroupsMoveUp(d, id) == UnsetIn(Drop(d.groups, id), "parent", id)
Delete(d, table, id) ==
    CASE table = "host" /\ id \in DOMAIN d.hosts -> [d EXCEPT !.hosts = Drop(@, id)]
      [] table = "group" /\ id \in DOMAIN d.groups ->
           [d EXCEPT !.groups = SubgroupsMoveUp(d, id), !.hosts = UnsetIn(d.hosts, "group", id)]
      [] table = "identity" /\ id \in DOMAIN d.identities ->
           [d EXCEPT !.identities = Drop(d.identities, id), !.hosts = UnsetIn(d.hosts, "identity", id)]
      [] table = "key" /\ id \in d.keys ->
           [d EXCEPT !.keys = @ \ {id},
                     !.identities = [i \in DOMAIN d.identities |-> Unset(d.identities[i], id)]]
      [] table = "vpn" /\ id \in d.vpns ->
           [d EXCEPT !.vpns = @ \ {id}, !.hosts = UnsetIn(d.hosts, "vpn", id)]
      [] OTHER -> Error

\* import_csv, a row: a group path no group has makes the group, an identity
\* nobody has is left out, a label no host has makes the host; what the file
\* does not hold stays as it is.
ImportGroup(d, row) == IF Exists(row.group, DOMAIN d.groups) THEN d ELSE PutGroup(d, 0, Group(0, 0))
ImportTo(d, id) == IF id \in DOMAIN d.hosts THEN id ELSE 0
ImportRow(d, id, row) ==
    LET r == [row EXCEPT !.group = IF Exists(@, DOMAIN d.groups) THEN @ ELSE d.next,
                         !.identity = IF @ \in DOMAIN d.identities THEN @ ELSE 0]
    IN  IF id \in DOMAIN d.hosts
        THEN [r EXCEPT !.vpn = d.hosts[id].vpn, !.tag = @ \/ d.hosts[id].tag]
        ELSE r
Import(d, id, row) == PutHost(ImportGroup(d, row), ImportTo(d, id), ImportRow(d, id, row))

\* A command and its arguments; keys, identities and profiles the same form
\* has made are referred to.
Step(do, id, row) == [do |-> do, id |-> id, row |-> row]
Referring(row, made) ==
    [row EXCEPT !.identity = IF made.identity # 0 THEN made.identity ELSE @,
                !.vpn = IF made.vpn # 0 THEN made.vpn ELSE @]
OfVpnStore(c) == c.do = "vpn" \/ (c.do = "delete" /\ c.row.table = "vpn")
Execute(d, c, made) ==
    CASE c.do = "host" -> PutHost(d, c.id, Referring(c.row, made))
      [] c.do = "group" -> PutGroup(d, c.id, c.row)
      [] c.do = "identity" -> PutIdentity(d, c.id, IF made.key # 0 THEN made.key ELSE c.row.key)
      [] c.do = "key" -> [d EXCEPT !.keys = @ \cup {d.next}, !.next = @ + 1]
      [] c.do = "vpn" -> IF c.id = 0 THEN [d EXCEPT !.vpns = @ \cup {d.next}, !.next = @ + 1]
                         ELSE IF c.id \in d.vpns THEN d ELSE Error
      [] c.do = "favorite" -> IF c.id \in DOMAIN d.hosts THEN [d EXCEPT !.hosts[c.id].fav = c.row.fav] ELSE Error
      [] c.do = "import" -> Import(d, c.id, c.row)
      [] c.do = "delete" -> Delete(d, c.row.table, c.id)

\* What a command that fails may leave: it has no transaction, so whatever its
\* statements have done by then.  Those of a host write the row, delete its tags
\* (the old one of an updated row), insert the new one and read the row again;
\* those of a file make the group before the host, and a later row may fail;
\* a profile is taken from its hosts before it is deleted.
HostLeft(d, id, row) ==
    {PutHost(d, id, [row EXCEPT !.tag = t]) :
        t \in {FALSE, row.tag} \cup {d.hosts[h].tag : h \in {id} \cap DOMAIN d.hosts}}
LeftBy(d, c, made) ==
    ({d} \cup CASE c.do = "host" -> HostLeft(d, c.id, Referring(c.row, made))
                [] c.do = "import" -> {ImportGroup(d, c.row)} \cup
                     HostLeft(ImportGroup(d, c.row), ImportTo(d, c.id), ImportRow(d, c.id, c.row))
                [] c.do = "identity" \/ c.do = "favorite" -> {Execute(d, c, made)}
                [] OfVpnStore(c) /\ c.do = "delete" -> {[d EXCEPT !.hosts = UnsetIn(d.hosts, "vpn", c.id)]}
                [] OTHER -> {}) \ {Error}

-----------------------------------------------------------------------------
(* The store                                                               *)

Hosts == store.rest.hosts
Command(s) == Head(ops[s].todo)
Idle == \A s \in Slots : ops[s].pc = "idle"

\* vpnStore reloads its own lists only; a reorder reloads at its end, whatever
\* became of it.
Reloads(s) == ~OfVpnStore(Command(s)) /\ (s = "form" \/ Len(ops[s].todo) = 1)

\* The handler ends.  A form's closes the form that is there now, or shows the
\* error in its own.
EndOp(s, ok) ==
    /\ ops' = [ops EXCEPT ![s] = NoOp]
    /\ form' = IF s = "form" /\ ok THEN NoForm ELSE form

Made(s) ==
    IF Command(s).do \in {"key", "identity", "vpn"} /\ Command(s).id = 0
    THEN [ops[s].made EXCEPT ![Command(s).do] = db.next] ELSE ops[s].made

\* On to the next command, with nothing to reload in between.
NextCommand(s) ==
    IF Len(ops[s].todo) = 1 THEN EndOp(s, TRUE)
    ELSE /\ ops' = [ops EXCEPT ![s] = [ops[s] EXCEPT !.pc = "send", !.todo = Tail(ops[s].todo), !.made = Made(s)]]
         /\ UNCHANGED form

\* The answer starts loadAll.
StartLoad(s) ==
    /\ ops' = [ops EXCEPT ![s] = [ops[s] EXCEPT !.pc = "load", !.made = Made(s), !.req = latest + 1,
                                                !.groups = <<>>, !.rest = <<>>]]
    /\ latest' = latest + 1

\* A command that fails is reported, and nothing is reloaded.
Send(s) ==
    /\ ops[s].pc = "send"
    /\ LET d == Execute(db, Command(s), ops[s].made)
       IN  \/ /\ d # Error
              /\ db' = d
              /\ IF Reloads(s) THEN StartLoad(s) /\ UNCHANGED form ELSE NextCommand(s) /\ UNCHANGED latest
              /\ UNCHANGED missed
           \/ /\ d = Error \/ MayFail
              /\ db' \in LeftBy(db, Command(s), ops[s].made)
              /\ missed' = IF Lists(db') = Lists(db) THEN missed ELSE latest
              /\ IF s = "list" /\ Command(s).do = "group"
                 THEN StartLoad(s) /\ UNCHANGED form
                 ELSE EndOp(s, FALSE) /\ UNCHANGED latest
    /\ UNCHANGED <<store, filter, clicks>>

ReadGroups(s) ==
    /\ ops[s].pc = "load" /\ ops[s].groups = <<>>
    /\ ops' = [ops EXCEPT ![s].groups = <<db.groups>>]
    /\ UNCHANGED <<db, store, latest, form, filter, missed, clicks>>

ReadRest(s) ==
    /\ ops[s].pc = "load" /\ ops[s].rest = <<>>
    /\ ops' = [ops EXCEPT ![s].rest = <<Rest(db)>>]
    /\ UNCHANGED <<db, store, latest, form, filter, missed, clicks>>

\* Only the latest loadAll counts; a version in which the last answer does.
LastAnswerCounts(req) == TRUE
LatestCounts(req) == req = latest

\* Does a host have the tag: is its chip there?
UsedTag(hosts) == \E h \in DOMAIN hosts : hosts[h].tag

\* HostTree drops a tag from its filter that no host has any more.
FilterUsed(hosts) == filter /\ UsedTag(hosts)

Loaded(s) ==
    /\ ops[s].pc = "load" /\ ops[s].groups # <<>> /\ ops[s].rest # <<>>
    /\ IF LatestCounts(ops[s].req)
       THEN /\ store' = [groups |-> Head(ops[s].groups), rest |-> Head(ops[s].rest)]
            /\ filter' = FilterUsed(Head(ops[s].rest).hosts)
       ELSE UNCHANGED <<store, filter>>
    /\ IF Len(ops[s].todo) = 1 \/ s = "list" THEN EndOp(s, TRUE)
       ELSE /\ ops' = [ops EXCEPT ![s] = [ops[s] EXCEPT !.pc = "send", !.todo = Tail(ops[s].todo)]]
            /\ UNCHANGED form
    /\ UNCHANGED <<db, latest, missed, clicks>>

LoadFails(s) ==
    /\ MayFail /\ ops[s].pc = "load"
    /\ missed' = IF ops[s].req = latest THEN latest ELSE missed
    /\ EndOp(s, FALSE)
    /\ UNCHANGED <<db, store, latest, filter, clicks>>

-----------------------------------------------------------------------------
(* Lists and menus                                                         *)

Start(s, todo) == ops' = [ops EXCEPT ![s] = [NoOp EXCEPT !.pc = "send", !.todo = todo]]
Quick(c) == ops["list"].pc = "idle" /\ Start("list", <<c>>) /\ UNCHANGED <<form, filter>>

DeleteRow(table, id) == Quick(Step("delete", id, [table |-> table]))
DeleteHost == \E h \in DOMAIN Hosts : DeleteRow("host", h)
DeleteGroup == \E g \in DOMAIN store.groups : DeleteRow("group", g)
DeleteIdentity == \E i \in DOMAIN store.rest.identities : DeleteRow("identity", i)
DeleteKey == \E k \in store.rest.keys : DeleteRow("key", k)
DeleteProfile == \E v \in db.vpns : DeleteRow("vpn", v)
Duplicate(h) == Quick(Step("host", 0, Hosts[h]))
ToggleFavorite(h) == Quick(Step("favorite", h, [fav |-> ~Hosts[h].fav]))

\* A file of one row, of a host of the first library or a new one; db.next
\* stands for the path or label of nothing yet.
ImportCsv == \E h \in {1, db.next}, g \in {2, db.next} : Quick(Step("import", h, Host(g, 1, 0, TRUE)))

\* getGroupChildren, by sort_order and then by name.
Before(gs, a, b) == gs[a].order < gs[b].order \/ (gs[a].order = gs[b].order /\ a < b)
ChildGroups(gs, p) == {g \in DOMAIN gs : gs[g].parent = p}

\* handleGroupDrop: the dragged group goes before or after a sibling, and every
\* sibling is written back as it was listed, with its new place.
Droppable(g, target) == g # target /\ store.groups[g].parent = store.groups[target].parent
DropGroup(g, target, after) ==
    LET gs == store.groups
        siblings == ChildGroups(gs, gs[g].parent)
        ToPlace == 1..Cardinality(siblings)
        Precedes(a, b) ==
          CASE a = g -> IF after THEN Before(gs, target, b) ELSE ~Before(gs, b, target)
            [] b = g -> IF after THEN ~Before(gs, target, a) ELSE Before(gs, a, target)
            [] OTHER -> Before(gs, a, b)
    IN  /\ Droppable(g, target)
        /\ ops["list"].pc = "idle"
        /\ \E order \in [ToPlace -> siblings] :
             /\ \A i, j \in ToPlace : i < j => order[i] # order[j] /\ Precedes(order[i], order[j])
             /\ Start("list", [i \in ToPlace |-> Step("group", order[i], Group(gs[order[i]].parent, i - 1))])
        /\ UNCHANGED <<form, filter>>

ToggleFilter ==
    /\ UsedTag(Hosts)
    /\ filter' = ~filter /\ UNCHANGED <<ops, form>>

\* What the sidebar and the grid draw: every group, or while they filter those
\* with a host of `found` in them at any depth, from the root (0) down.  Each
\* recursion reaches the smallest set that its step does not leave.
HostMatches(h) == filter => Hosts[h].tag
Places == DOMAIN store.groups \cup {0}
Least(Closed(_)) == {g \in Places : \A S \in SUBSET Places : Closed(S) => g \in S}
GroupHasMatch(found) ==
    LET Closed(S) == /\ {Hosts[h].group : h \in found} \cap Places \subseteq S
                     /\ {store.groups[g].parent : g \in S \ {0}} \cap Places \subseteq S
    IN  Least(Closed)
Drawn(filtering, found) ==
    LET shown == IF filtering THEN GroupHasMatch(found) ELSE Places
        Closed(S) == /\ 0 \in S
                     /\ \A g \in shown \ {0} : store.groups[g].parent \in S => g \in S
    IN  Least(Closed)

InTree(h) == Hosts[h].group \in Drawn(filter, {k \in DOMAIN Hosts : HostMatches(k)})
\* In the grid, without a search and with one that finds this host alone.
InGrid(h) == Hosts[h].group \in Drawn(FALSE, {}) \cap Drawn(TRUE, {h})

-----------------------------------------------------------------------------
(* Forms                                                                   *)

\* A form of the kind that is open already is the same component with another
\* row: its fields keep what they hold.
Open(kind, id, row) ==
    /\ form' = [kind |-> kind, id |-> id, row |-> IF form.kind = kind THEN form.row ELSE row]
    /\ UNCHANGED <<ops, filter>>
EditHost == \E h \in DOMAIN Hosts : Open("host", h, Hosts[h])
NewHost == \E g \in DOMAIN store.groups \cup {0} : Open("host", 0, Host(g, 0, 0, FALSE))
EditGroup == \E g \in DOMAIN store.groups : Open("group", g, store.groups[g])
NewGroup == \E p \in DOMAIN store.groups \cup {0} : Open("group", 0, Group(p, 0))
EditIdentity == \E i \in DOMAIN store.rest.identities : Open("identity", i, [key |-> store.rest.identities[i]])
OpenForm ==
    \/ EditHost \/ NewHost \/ EditGroup \/ NewGroup \/ EditIdentity
    \/ Open("identity", 0, [key |-> 0]) \/ Open("key", 0, NoRow)
    \/ \E v \in db.vpns \cup {0} : Open("vpn", v, NoRow)

\* Cancel is there also while the form is being saved, which then goes on.
CancelForm == form # NoForm /\ form' = NoForm /\ UNCHANGED <<ops, filter>>

\* The button is disabled while the form is saved.  That the form opened after
\* a Cancel waits for the save too is a bound.
Submit(todo, entered) ==
    /\ ops["form"].pc = "idle"
    /\ ops' = [ops EXCEPT !["form"] = [NoOp EXCEPT !.pc = "send", !.todo = todo, !.entered = entered]]
    /\ UNCHANGED <<form, filter>>

\* The credentials section of HostForm: what is sent for it, and whether the
\* user has entered a password or a key.
Credentials == {"saved", "blank", "password", "savedKey", "newKey"}
Entered(cred) == cred \in {"password", "savedKey", "newKey"}
\* A password or a key without a user name is refused; a version that is not
\* so careful.
AnyCredentials(cred, username) == TRUE
CredentialsComplete(cred, username) == Entered(cred) => username
IdentitySteps(cred, username, key) ==
    IF cred = "saved" \/ ~username THEN <<>>
    ELSE CASE cred = "newKey" -> <<Step("key", 0, NoRow), Step("identity", 0, [key |-> 0])>>
           [] cred = "savedKey" -> <<Step("identity", 0, [key |-> key])>>
           [] OTHER -> <<Step("identity", 0, [key |-> 0])>>

\* What the form offers: the listed rows, none, and what the row had.
GroupChoices == DOMAIN store.groups \cup {0, form.row.group}
IdentityChoices(cred) == IF cred = "saved" THEN DOMAIN store.rest.identities \cup {0, form.row.identity} ELSE {0}
KeyChoices(cred) == IF cred = "savedKey" THEN store.rest.keys ELSE {0}
VpnChoices == db.vpns \cup {0}
NewProfile(upload) == IF upload THEN <<Step("vpn", 0, NoRow)>> ELSE <<>>

\* Bound: the user changes one field, or the credentials.
Edited(row) ==
    {[row EXCEPT !.group = g] : g \in GroupChoices} \cup {[row EXCEPT !.vpn = v] : v \in VpnChoices}
    \cup {[row EXCEPT !.tag = ~@]}

SubmitHost(cred, username) ==
    /\ form.kind = "host" /\ CredentialsComplete(cred, username)
    /\ \E row \in IF cred = "saved" THEN Edited(form.row) ELSE {form.row}, upload \in BOOLEAN,
          i \in IdentityChoices(cred), key \in KeyChoices(cred) :
         Submit(IdentitySteps(cred, username, key) \o NewProfile(upload)
                \o <<Step("host", form.id, [row EXCEPT !.identity = i])>>,
                Entered(cred))

\* Any group but the edited one may become its parent.
SubmitGroup ==
    /\ form.kind = "group"
    /\ \E p \in (DOMAIN store.groups \ {form.id}) \cup {0, form.row.parent} :
         Submit(<<Step("group", form.id, [form.row EXCEPT !.parent = p])>>, FALSE)

SubmitIdentity ==
    /\ form.kind = "identity"
    /\ \E key \in store.rest.keys \cup {0, form.row.key} :
         Submit(<<Step("identity", form.id, [key |-> key])>>, FALSE)

SubmitKey == form.kind = "key" /\ Submit(<<Step("key", 0, NoRow)>>, FALSE)
SubmitProfile == form.kind = "vpn" /\ Submit(<<Step("vpn", form.id, NoRow)>>, FALSE)

-----------------------------------------------------------------------------
Click ==
    /\ clicks < MaxClicks /\ clicks' = clicks + 1
    /\ \/ DeleteHost \/ DeleteGroup \/ DeleteIdentity \/ DeleteKey \/ DeleteProfile
       \/ \E h \in DOMAIN Hosts : Duplicate(h) \/ ToggleFavorite(h)
       \/ \E g, t \in DOMAIN store.groups, after \in BOOLEAN : DropGroup(g, t, after)
       \/ ImportCsv \/ ToggleFilter \/ OpenForm \/ CancelForm
       \/ \E cred \in Credentials, username \in BOOLEAN : SubmitHost(cred, username)
       \/ SubmitGroup \/ SubmitIdentity \/ SubmitKey \/ SubmitProfile
    /\ UNCHANGED <<db, store, latest, missed>>

Answer(s) == Send(s) \/ ReadGroups(s) \/ ReadRest(s) \/ Loaded(s) \/ LoadFails(s)
Next == Click \/ \E s \in Slots : Answer(s)

\* The backend answers every command.
Spec == Init /\ [][Next]_vars

-----------------------------------------------------------------------------
(* Properties                                                              *)

TypeOK ==
    /\ latest \in Nat /\ filter \in BOOLEAN /\ missed \in 0..latest /\ clicks \in 0..MaxClicks
    /\ \A h \in DOMAIN db.hosts : {db.hosts[h].fav, db.hosts[h].tag} \subseteq BOOLEAN
    /\ \A s \in Slots : ops[s].pc \in {"idle", "send", "load"}

\* Every reference in the tables is to a row that is there, whatever was deleted,
\* whatever command stopped halfway and whatever form was saved that had been
\* opened before (the foreign keys of data/mod.rs and the checks of the
\* commands); but in a database older than hosts.vpn_profile_id, which has no
\* foreign key there, a form or a copy of a host brings back a deleted profile.
ReferencesKept ==
    /\ TypeOK
    /\ \A h \in DOMAIN db.hosts :
         /\ Exists(db.hosts[h].identity, DOMAIN db.identities)
         /\ Exists(db.hosts[h].group, DOMAIN db.groups)
         /\ db.fk => Exists(db.hosts[h].vpn, db.vpns)
    /\ \A g \in DOMAIN db.groups : Exists(db.groups[g].parent, DOMAIN db.groups)
    /\ \A i \in DOMAIN db.identities : Exists(db.identities[i], db.keys)

\* When nothing is under way, hostsStore shows the tables as they are, whatever
\* order its lists were answered in.  The exceptions: a host keeps a VPN profile
\* that was deleted, since vpnStore.deleteProfile does not reload hostsStore; and
\* the store waits for the next loadAll when the latest one failed, or when a
\* command failed after it had changed a table, since nothing reloads then.
SameHost(shown, row) ==
    /\ [shown EXCEPT !.vpn = 0] = [row EXCEPT !.vpn = 0]
    /\ shown.vpn = row.vpn \/ shown.vpn \notin db.vpns
StoreFresh ==
    Idle /\ missed < latest =>
        /\ store.groups = db.groups
        /\ store.rest.identities = db.identities /\ store.rest.keys = db.keys
        /\ DOMAIN Hosts = DOMAIN db.hosts
        /\ \A h \in DOMAIN Hosts : SameHost(Hosts[h], db.hosts[h])

\* Then every host of the tables is in the tree that HostTree and the grid draw
\* from the root, with no search, with one that finds only this host, and with
\* the tag's filter if it has the tag, however groups were deleted, moved and
\* edited; but not one below a group that was made, in two edits, its own
\* ancestor (a loop that host_csv.rs holds impossible).
Looped(g) ==
    LET rest == DOMAIN store.groups \ Drawn(FALSE, {})
    IN  g \in rest /\ \A a \in rest : store.groups[a].parent \in DOMAIN store.groups
AllShown ==
    Idle /\ missed < latest =>
        \A h \in DOMAIN db.hosts :
            /\ h \in DOMAIN Hosts
            /\ Looped(Hosts[h].group) \/ (InGrid(h) /\ (HostMatches(h) => InTree(h)))

\* HostForm never drops a password or a key it was given: the host it saves has
\* an identity.
CredentialsKept ==
    [][ops["form"].pc = "send" /\ ops["form"].entered /\ Command("form").do = "host"
       /\ ops["form"]' # ops["form"]
       => \A h \in DOMAIN db'.hosts :
            (h \in DOMAIN db.hosts /\ db'.hosts[h] = db.hosts[h]) \/ db'.hosts[h].identity # 0]_vars
=============================================================================
