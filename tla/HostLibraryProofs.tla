------------------------- MODULE HostLibraryProofs --------------------------
(***************************************************************************)
(* The tables of the library and what hostsStore shows of them, for any     *)
(* number of clicks, rows, and any order of the answers.                    *)
(***************************************************************************)
EXTENDS HostLibrary, FiniteSetTheorems, TLAPS

HostRow == [group : Nat, identity : Nat, vpn : Nat, tag : BOOLEAN, fav : BOOLEAN]
GroupRow == [parent : Nat, order : Nat]
KeyRow == [key : Nat]

\* Finitely many rows by their identifiers.
Tables(R) == UNION {[D -> R] : D \in {E \in SUBSET Nat : IsFiniteSet(E)}}
Database == [groups : Tables(GroupRow), hosts : Tables(HostRow), identities : Tables(Nat),
             keys : SUBSET Nat, vpns : SUBSET Nat, next : Nat \ {0}, fk : BOOLEAN]

\* Every reference is to a row that is there.
References(d) ==
    /\ \A h \in DOMAIN d.hosts : RefsOK(d, d.hosts[h])
    /\ \A g \in DOMAIN d.groups : Exists(d.groups[g].parent, DOMAIN d.groups)
    /\ \A i \in DOMAIN d.identities : Exists(d.identities[i], d.keys)

Names == {"host", "group", "identity", "key", "vpn"}
Commands ==
    [do : {"host", "import"}, id : Nat, row : HostRow]
    \cup [do : {"group"}, id : Nat, row : GroupRow]
    \cup [do : {"identity"}, id : Nat, row : KeyRow]
    \cup [do : {"key", "vpn"}, id : Nat, row : {NoRow}]
    \cup [do : {"favorite"}, id : Nat, row : [fav : BOOLEAN]]
    \cup [do : {"delete"}, id : Nat, row : [table : Names]]
Makes == [key : Nat, identity : Nat, vpn : Nat]

-----------------------------------------------------------------------------
(* Tables                                                                  *)

LEMMA TableParts ==
  ASSUME NEW R, NEW t \in Tables(R)
  PROVE  /\ DOMAIN t \in SUBSET Nat /\ IsFiniteSet(DOMAIN t)
         /\ t \in [DOMAIN t -> R]
<1>1. PICK D \in SUBSET Nat : IsFiniteSet(D) /\ t \in [D -> R]
  BY DEF Tables
<1>2. DOMAIN t = D
  BY <1>1
<1> QED
  BY <1>1, <1>2

LEMMA IsTable ==
  ASSUME NEW R, NEW D \in SUBSET Nat, IsFiniteSet(D), NEW t \in [D -> R]
  PROVE  t \in Tables(R)
  BY DEF Tables

LEMMA PutTable ==
  ASSUME NEW R, NEW t \in Tables(R), NEW id \in Nat, NEW row \in R
  PROVE  Put(t, id, row) \in Tables(R)
<1>1. DOMAIN t \in SUBSET Nat /\ IsFiniteSet(DOMAIN t) /\ t \in [DOMAIN t -> R]
  BY TableParts
<1>2. DOMAIN t \cup {id} \in SUBSET Nat /\ IsFiniteSet(DOMAIN t \cup {id})
  BY <1>1, FS_AddElement
<1>3. Put(t, id, row) \in [DOMAIN t \cup {id} -> R]
  BY <1>1 DEF Put
<1> QED
  BY <1>2, <1>3, IsTable

LEMMA DropTable ==
  ASSUME NEW R, NEW t \in Tables(R), NEW id
  PROVE  Drop(t, id) \in Tables(R)
<1>1. DOMAIN t \in SUBSET Nat /\ IsFiniteSet(DOMAIN t) /\ t \in [DOMAIN t -> R]
  BY TableParts
<1>2. DOMAIN t \ {id} \in SUBSET Nat /\ IsFiniteSet(DOMAIN t \ {id})
  BY <1>1, FS_RemoveElement
<1>3. Drop(t, id) \in [DOMAIN t \ {id} -> R]
  BY <1>1 DEF Drop
<1> QED
  BY <1>2, <1>3, IsTable

LEMMA SetTable ==
  ASSUME NEW R, NEW t \in Tables(R), NEW id \in DOMAIN t, NEW row \in R
  PROVE  /\ [t EXCEPT ![id] = row] \in Tables(R)
         /\ DOMAIN [t EXCEPT ![id] = row] = DOMAIN t
         /\ [t EXCEPT ![id] = row][id] = row
         /\ \A i \in DOMAIN t \ {id} : [t EXCEPT ![id] = row][i] = t[i]
<1>1. DOMAIN t \in SUBSET Nat /\ IsFiniteSet(DOMAIN t) /\ t \in [DOMAIN t -> R]
  BY TableParts
<1>2. [t EXCEPT ![id] = row] \in [DOMAIN t -> R]
  BY <1>1
<1>3. [t EXCEPT ![id] = row] \in Tables(R)
  BY <1>1, <1>2, IsTable
<1> QED
  BY <1>1, <1>3

\* A column of the hosts that refers to a row of another table.
LEMMA UnsetHosts ==
  ASSUME NEW t \in Tables(HostRow), NEW id \in Nat, NEW column \in {"group", "identity", "vpn"}
  PROVE  /\ UnsetIn(t, column, id) \in Tables(HostRow)
         /\ DOMAIN UnsetIn(t, column, id) = DOMAIN t
         /\ \A h \in DOMAIN t : UnsetIn(t, column, id)[h] = [t[h] EXCEPT ![column] = Unset(t[h][column], id)]
<1>1. DOMAIN t \in SUBSET Nat /\ IsFiniteSet(DOMAIN t) /\ t \in [DOMAIN t -> HostRow]
  BY TableParts
<1>2. ASSUME NEW h \in DOMAIN t
      PROVE  [t[h] EXCEPT ![column] = Unset(t[h][column], id)] \in HostRow
  <2>1. t[h] \in HostRow
    BY <1>1
  <2>2. t[h][column] \in Nat
    BY <2>1 DEF HostRow
  <2> QED
    BY <2>1, <2>2 DEF HostRow, Unset
<1>3. UnsetIn(t, column, id) \in [DOMAIN t -> HostRow]
  BY <1>2 DEF UnsetIn
<1>4. UnsetIn(t, column, id) \in Tables(HostRow)
  BY <1>1, <1>3, IsTable
<1> QED
  BY <1>4 DEF UnsetIn

-----------------------------------------------------------------------------
(* The commands                                                            *)

\* Identifiers are never given twice: profiles have smaller ones than the next.
Numbered(d) == \A v \in d.vpns : v < d.next

\* What every command makes of tables in order: tables in order.
InOrder(d) == d \in Database /\ References(d) /\ Numbered(d)

\* References stay where only the hosts change, and theirs are checked.
LEMMA HostsChanged ==
  ASSUME NEW d, InOrder(d), NEW e \in Database, e.next >= d.next,
         e.groups = d.groups, e.identities = d.identities, e.keys = d.keys, e.vpns = d.vpns,
         e.fk = d.fk, \A h \in DOMAIN e.hosts : RefsOK(d, e.hosts[h])
  PROVE  InOrder(e)
<1>1. d \in Database /\ References(d) /\ Numbered(d)
  BY DEF InOrder
<1>2. References(e)
  BY <1>1 DEF References, RefsOK
<1>3. Numbered(e)
  <2>1. d.next \in Nat /\ e.next \in Nat /\ d.vpns \in SUBSET Nat
    BY <1>1 DEF Database
  <2> QED
    BY <1>1, <2>1 DEF Numbered
<1> QED
  BY <1>2, <1>3 DEF InOrder

\* A host that is created or updated has the identity it was given, and the
\* other hosts and tables stay.
LEMMA PutHostKeeps ==
  ASSUME NEW d, InOrder(d), NEW id \in Nat, NEW row \in HostRow, PutHost(d, id, row) # Error,
         NEW e, e = PutHost(d, id, row)
  PROVE  /\ InOrder(e) /\ e.next >= d.next /\ e.vpns = d.vpns
         /\ \A h \in DOMAIN e.hosts : \/ h \in DOMAIN d.hosts /\ e.hosts[h] = d.hosts[h]
                                      \/ e.hosts[h].identity = row.identity
<1>1. /\ d \in Database /\ References(d) /\ d.hosts \in Tables(HostRow)
      /\ d.next \in Nat \ {0} /\ d.next \in Nat /\ RefsOK(d, row)
  BY DEF InOrder, Database, PutHost
<1>2. CASE id = 0
  <2>1. PICK new : new = [row EXCEPT !.fav = FALSE]
    OBVIOUS
  <2>2. /\ new \in HostRow /\ new.group = row.group
        /\ new.identity = row.identity /\ new.vpn = row.vpn
    BY <2>1 DEF HostRow
  <2>3. PICK t, n : t = Put(d.hosts, d.next, new) /\ n = d.next + 1
    OBVIOUS
  <2>4. /\ t \in Tables(HostRow) /\ DOMAIN t = DOMAIN d.hosts \cup {d.next}
        /\ t[d.next] = new /\ \A h \in DOMAIN d.hosts \ {d.next} : t[h] = d.hosts[h]
    <3>1. t \in Tables(HostRow)
      BY <1>1, <2>2, <2>3, PutTable
    <3> QED
      BY <2>3, <3>1 DEF Put
  <2>5. n \in Nat /\ n >= d.next
    BY <1>1, <2>3
  <2>6. e = [d EXCEPT !.hosts = t, !.next = n]
    BY <1>1, <1>2, <2>1, <2>3 DEF PutHost
  <2>7. \A h \in DOMAIN t : RefsOK(d, t[h])
    BY <1>1, <2>2, <2>4 DEF References, RefsOK
  <2>8. InOrder(e) /\ e.hosts = t /\ e.next = n /\ e.vpns = d.vpns
    <3>1. n \in Nat \ {0}
      BY <1>1, <2>4, <2>5, <2>6, <2>7
    <3>2. e \in Database /\ e.hosts = t /\ e.next = n
      BY <1>1, <3>1, <2>4, <2>5, <2>6, <2>7 DEF Database
    <3>3. /\ e.groups = d.groups /\ e.identities = d.identities /\ e.keys = d.keys /\ e.vpns = d.vpns
          /\ e.fk = d.fk
      BY <1>1, <2>4, <2>5, <2>6, <2>7 DEF Database
    <3> QED
      BY <3>2, <3>3, <2>4, <2>5, <2>6, <2>7, HostsChanged
  <2> QED
    BY <2>2, <2>4, <2>5, <2>8
<1>3. CASE id # 0
  <2>1. id \in DOMAIN d.hosts
    BY <1>1, <1>3 DEF PutHost
  <2>2. d.hosts[id] \in HostRow
    BY <1>1, <2>1, TableParts
  <2>3. PICK new : new = FavoriteOfRow(d, id, row)
    OBVIOUS
  <2>4. /\ new \in HostRow /\ new.group = row.group
        /\ new.identity = row.identity /\ new.vpn = row.vpn
    BY <2>2, <2>3 DEF HostRow, FavoriteOfRow
  <2>5. PICK t, n : t = [d.hosts EXCEPT ![id] = new] /\ n = d.next
    OBVIOUS
  <2>6. /\ t \in Tables(HostRow) /\ DOMAIN t = DOMAIN d.hosts
        /\ t[id] = new /\ \A h \in DOMAIN d.hosts \ {id} : t[h] = d.hosts[h]
    BY <1>1, <2>1, <2>4, <2>5, SetTable
  <2>7. n \in Nat /\ n >= d.next
    BY <1>1, <2>5
  <2>8. e = [d EXCEPT !.hosts = t, !.next = n]
    <3>1. e = [d EXCEPT !.hosts[id] = new]
      BY <1>1, <1>3, <2>1, <2>3 DEF PutHost
    <3> QED
      BY <1>1, <2>5, <3>1 DEF Database
  <2>9. \A h \in DOMAIN t : RefsOK(d, t[h])
    BY <1>1, <2>4, <2>6 DEF References, RefsOK
  <2>10. InOrder(e) /\ e.hosts = t /\ e.next = n /\ e.vpns = d.vpns
    <3>1. n \in Nat \ {0}
      BY <1>1, <2>6, <2>7, <2>8, <2>9
    <3>2. e \in Database /\ e.hosts = t /\ e.next = n
      BY <1>1, <3>1, <2>6, <2>7, <2>8, <2>9 DEF Database
    <3>3. /\ e.groups = d.groups /\ e.identities = d.identities /\ e.keys = d.keys /\ e.vpns = d.vpns
          /\ e.fk = d.fk
      BY <1>1, <2>6, <2>7, <2>8, <2>9 DEF Database
    <3> QED
      BY <3>2, <3>3, <2>6, <2>7, <2>8, <2>9, HostsChanged
  <2> QED
    BY <2>4, <2>6, <2>7, <2>10
<1> QED
  BY <1>2, <1>3

\* Only the groups change, and none of them goes.
LEMMA PutGroupKeeps ==
  ASSUME NEW d, InOrder(d), NEW id \in Nat, NEW row \in GroupRow,
         Exists(row.parent, DOMAIN d.groups), id = 0 \/ id \in DOMAIN d.groups,
         NEW e, e = PutGroup(d, id, row)
  PROVE  /\ InOrder(e) /\ e.next >= d.next /\ Rest(e) = Rest(d) /\ e.vpns = d.vpns
         /\ e.next \in {d.next, d.next + 1}
         /\ id = 0 => e.next = d.next + 1 /\ DOMAIN e.groups = DOMAIN d.groups \cup {d.next}
<1>1. /\ d \in Database /\ References(d) /\ Numbered(d) /\ d.groups \in Tables(GroupRow)
      /\ d.next \in Nat \ {0} /\ d.next \in Nat /\ d.vpns \in SUBSET Nat
  BY DEF InOrder, Database
<1>2. ASSUME NEW t \in Tables(GroupRow), NEW n \in Nat \ {0}, n >= d.next,
             e = [d EXCEPT !.groups = t, !.next = n], DOMAIN d.groups \subseteq DOMAIN t,
             \A g \in DOMAIN t : Exists(t[g].parent, DOMAIN t)
      PROVE  InOrder(e) /\ Rest(e) = Rest(d) /\ e.vpns = d.vpns /\ e.next = n /\ e.groups = t
  <2>1. e \in Database
    BY <1>1, <1>2 DEF Database
  <2>2. /\ e.groups = t /\ e.next = n /\ e.hosts = d.hosts /\ e.identities = d.identities
        /\ e.keys = d.keys /\ e.vpns = d.vpns /\ e.fk = d.fk
    BY <1>1, <1>2 DEF Database
  <2>3. References(e)
    BY <1>1, <1>2, <2>2 DEF References, RefsOK, Exists
  <2>4. Numbered(e)
    BY <1>1, <1>2, <2>2 DEF Numbered
  <2> QED
    BY <2>1, <2>2, <2>3, <2>4 DEF InOrder, Rest
<1>3. CASE id = 0
  <2>1. PICK t, n : t = Put(d.groups, d.next, row) /\ n = d.next + 1
    OBVIOUS
  <2>2. /\ t \in Tables(GroupRow) /\ DOMAIN t = DOMAIN d.groups \cup {d.next}
        /\ t[d.next] = row /\ \A g \in DOMAIN d.groups \ {d.next} : t[g] = d.groups[g]
    <3>1. t \in Tables(GroupRow)
      BY <1>1, <2>1, PutTable
    <3> QED
      BY <2>1, <3>1 DEF Put
  <2>3. e = [d EXCEPT !.groups = t, !.next = n]
    BY <1>1, <1>3, <2>1 DEF PutGroup
  <2>4. \A g \in DOMAIN t : Exists(t[g].parent, DOMAIN t)
    BY <1>1, <2>2 DEF References, Exists
  <2>5. n \in Nat \ {0} /\ n >= d.next
    BY <1>1, <2>1
  <2>6. InOrder(e) /\ Rest(e) = Rest(d) /\ e.vpns = d.vpns /\ e.next = n /\ e.groups = t
    BY <1>2, <2>2, <2>3, <2>4, <2>5
  <2> QED
    BY <2>1, <2>2, <2>5, <2>6
<1>4. CASE id # 0
  <2>1. id \in DOMAIN d.groups
    BY <1>4
  <2>2. PICK t, n : t = [d.groups EXCEPT ![id] = row] /\ n = d.next
    OBVIOUS
  <2>3. /\ t \in Tables(GroupRow) /\ DOMAIN t = DOMAIN d.groups
        /\ t[id] = row /\ \A g \in DOMAIN d.groups \ {id} : t[g] = d.groups[g]
    BY <1>1, <2>1, <2>2, SetTable
  <2>4. e = [d EXCEPT !.groups = t, !.next = n]
    <3>1. e = [d EXCEPT !.groups[id] = row]
      BY <1>1, <1>4, <2>1 DEF PutGroup
    <3> QED
      BY <1>1, <2>2, <3>1 DEF Database
  <2>5. \A g \in DOMAIN t : Exists(t[g].parent, DOMAIN t)
    BY <1>1, <2>3 DEF References, Exists
  <2>6. n \in Nat \ {0} /\ n >= d.next
    BY <1>1, <2>2
  <2>7. InOrder(e) /\ Rest(e) = Rest(d) /\ e.vpns = d.vpns /\ e.next = n /\ e.groups = t
    BY <1>2, <2>3, <2>4, <2>5, <2>6
  <2> QED
    BY <1>4, <2>2, <2>6, <2>7
<1> QED
  BY <1>3, <1>4

LEMMA PutIdentityKeeps ==
  ASSUME NEW d, InOrder(d), NEW id \in Nat, NEW key \in Nat, PutIdentity(d, id, key) # Error,
         NEW e, e = PutIdentity(d, id, key)
  PROVE  InOrder(e) /\ e.next >= d.next /\ e.vpns = d.vpns
<1>1. /\ d \in Database /\ References(d) /\ Numbered(d) /\ d.identities \in Tables(Nat)
      /\ d.next \in Nat \ {0} /\ d.next \in Nat /\ Exists(key, d.keys) /\ d.vpns \in SUBSET Nat
  BY DEF InOrder, Database, PutIdentity
<1>2. ASSUME NEW t \in Tables(Nat), NEW n \in Nat \ {0}, n >= d.next,
             e = [d EXCEPT !.identities = t, !.next = n], DOMAIN d.identities \subseteq DOMAIN t,
             \A i \in DOMAIN t : Exists(t[i], d.keys)
      PROVE  InOrder(e) /\ e.next >= d.next /\ e.vpns = d.vpns
  <2>1. e \in Database
    BY <1>1, <1>2 DEF Database
  <2>2. /\ e.groups = d.groups /\ e.next = n /\ e.hosts = d.hosts /\ e.identities = t
        /\ e.keys = d.keys /\ e.vpns = d.vpns /\ e.fk = d.fk
    BY <1>1, <1>2 DEF Database
  <2>3. References(e)
    BY <1>1, <1>2, <2>2 DEF References, RefsOK, Exists
  <2>4. Numbered(e)
    BY <1>1, <1>2, <2>2 DEF Numbered
  <2> QED
    BY <1>2, <2>1, <2>2, <2>3, <2>4 DEF InOrder
<1>3. CASE id = 0
  <2>1. PICK t, n : t = Put(d.identities, d.next, key) /\ n = d.next + 1
    OBVIOUS
  <2>2. t \in Tables(Nat)
    BY <1>1, <2>1, PutTable
  <2>3. /\ DOMAIN t = DOMAIN d.identities \cup {d.next}
        /\ t[d.next] = key /\ \A i \in DOMAIN d.identities \ {d.next} : t[i] = d.identities[i]
    BY <2>1 DEF Put
  <2>4. e = [d EXCEPT !.identities = t, !.next = n]
    BY <1>1, <1>3, <2>1 DEF PutIdentity
  <2>5. \A i \in DOMAIN t : Exists(t[i], d.keys)
    BY <1>1, <2>3 DEF References
  <2>6. n \in Nat \ {0} /\ n >= d.next
    BY <1>1, <2>1
  <2> QED
    BY <1>2, <2>2, <2>3, <2>4, <2>5, <2>6
<1>4. CASE id # 0
  <2>1. id \in DOMAIN d.identities
    BY <1>1, <1>4 DEF PutIdentity
  <2>2. PICK t, n : t = [d.identities EXCEPT ![id] = key] /\ n = d.next
    OBVIOUS
  <2>3. /\ t \in Tables(Nat) /\ DOMAIN t = DOMAIN d.identities
        /\ t[id] = key /\ \A i \in DOMAIN d.identities \ {id} : t[i] = d.identities[i]
    BY <1>1, <2>1, <2>2, SetTable
  <2>4. e = [d EXCEPT !.identities = t, !.next = n]
    <3>1. e = [d EXCEPT !.identities[id] = key]
      BY <1>1, <1>4, <2>1 DEF PutIdentity
    <3> QED
      BY <1>1, <2>2, <3>1 DEF Database
  <2>5. \A i \in DOMAIN t : Exists(t[i], d.keys)
    BY <1>1, <2>3 DEF References
  <2>6. n \in Nat \ {0} /\ n >= d.next
    BY <1>1, <2>2
  <2> QED
    BY <1>2, <2>3, <2>4, <2>5, <2>6
<1> QED
  BY <1>3, <1>4

\* hostsStore shows a host as it is, but for a profile that is gone, which is
\* none that is yet to be made, so that it does not come back.
ShownAs(d, shown, row) ==
    /\ [shown EXCEPT !.vpn = 0] = [row EXCEPT !.vpn = 0]
    /\ shown.vpn = row.vpn \/ (shown.vpn \notin d.vpns /\ shown.vpn < d.next)

\* What the commands of vpnStore do to the other tables.
OnlyVpn(d, e) ==
    /\ e.groups = d.groups /\ e.identities = d.identities /\ e.keys = d.keys
    /\ e.vpns \subseteq d.vpns \cup {d.next} /\ DOMAIN e.hosts = DOMAIN d.hosts
    /\ \A h \in DOMAIN d.hosts : ShownAs(e, d.hosts[h], e.hosts[h])

LEMMA DeleteHostKeeps ==
  ASSUME NEW d, InOrder(d), NEW id \in Nat, NEW e, id \in DOMAIN d.hosts,
         e = [d EXCEPT !.hosts = Drop(d.hosts, id)]
  PROVE  InOrder(e) /\ e.next = d.next
<1>1. d \in Database /\ References(d) /\ d.hosts \in Tables(HostRow)
  BY DEF InOrder, Database
<1>2. PICK t : t = Drop(d.hosts, id)
  OBVIOUS
<1>3. t \in Tables(HostRow)
  BY <1>1, <1>2, DropTable
<1>4. DOMAIN t = DOMAIN d.hosts \ {id} /\ \A h \in DOMAIN t : t[h] = d.hosts[h]
  BY <1>2 DEF Drop
<1>5. e = [d EXCEPT !.hosts = t]
  BY <1>2
<1>6. e \in Database /\ e.hosts = t /\ e.next = d.next
  BY <1>1, <1>3, <1>5 DEF Database
<1>7. /\ e.groups = d.groups /\ e.identities = d.identities /\ e.keys = d.keys /\ e.vpns = d.vpns
      /\ e.fk = d.fk
  BY <1>1, <1>5 DEF Database
<1>8. \A h \in DOMAIN e.hosts : RefsOK(d, e.hosts[h])
  BY <1>1, <1>4, <1>6 DEF References
<1>9. e.next >= d.next
  BY <1>1, <1>6 DEF Database
<1> QED
  BY <1>6, <1>7, <1>8, <1>9, HostsChanged

LEMMA DeleteGroupKeeps ==
  ASSUME NEW d, InOrder(d), NEW id \in Nat, NEW e, id \in DOMAIN d.groups,
         e = [d EXCEPT !.groups = SubgroupsMoveUp(d, id), !.hosts = UnsetIn(d.hosts, "group", id)]
  PROVE  InOrder(e) /\ e.next = d.next
<1>1. /\ d \in Database /\ References(d) /\ Numbered(d)
      /\ d.hosts \in Tables(HostRow) /\ d.groups \in Tables(GroupRow)
  BY DEF InOrder, Database
<1>2. PICK u, o, t : u = UnsetIn(d.hosts, "group", id) /\ o = Drop(d.groups, id) /\ t = UnsetIn(o, "parent", id)
  OBVIOUS
<1>3. /\ u \in Tables(HostRow) /\ DOMAIN u = DOMAIN d.hosts
      /\ \A h \in DOMAIN d.hosts : u[h] = [d.hosts[h] EXCEPT !["group"] = Unset(d.hosts[h]["group"], id)]
  BY <1>1, <1>2, UnsetHosts
<1>4. \A h \in DOMAIN d.hosts : d.hosts[h] \in HostRow
  BY <1>1, TableParts
<1>5. ASSUME NEW h \in DOMAIN u
      PROVE  /\ u[h].identity = d.hosts[h].identity /\ u[h].vpn = d.hosts[h].vpn
             /\ u[h].group = IF d.hosts[h].group = id THEN 0 ELSE d.hosts[h].group
  <2>1. PICK r \in HostRow : r = d.hosts[h]
    BY <1>3, <1>4
  <2>2. u[h] = [r EXCEPT !.group = IF r.group = id THEN 0 ELSE r.group]
    BY <1>3, <2>1 DEF Unset
  <2> QED
    BY <2>1, <2>2 DEF HostRow
<1>6. o \in Tables(GroupRow)
  BY <1>1, <1>2, DropTable
<1>7. DOMAIN o = DOMAIN d.groups \ {id} /\ \A g \in DOMAIN o : o[g] = d.groups[g]
  BY <1>2 DEF Drop
<1>8. DOMAIN o \in SUBSET Nat /\ IsFiniteSet(DOMAIN o) /\ \A g \in DOMAIN o : o[g] \in GroupRow
  BY <1>6, TableParts
<1>9. /\ t = [g \in DOMAIN o |-> [o[g] EXCEPT !["parent"] = Unset(o[g]["parent"], id)]]
      /\ DOMAIN t = DOMAIN o
  BY <1>2 DEF UnsetIn
<1>10. \A g \in DOMAIN o : /\ t[g] \in GroupRow
                           /\ t[g].parent = IF o[g].parent = id THEN 0 ELSE o[g].parent
  BY <1>8, <1>9 DEF GroupRow, Unset
<1>11. t \in Tables(GroupRow)
  <2>1. t \in [DOMAIN o -> GroupRow]
    BY <1>9, <1>10
  <2> QED
    BY <1>8, <2>1, IsTable
<1>12. e = [d EXCEPT !.groups = t, !.hosts = u]
  BY <1>2 DEF SubgroupsMoveUp
<1>13. e \in Database /\ e.next = d.next /\ e.vpns = d.vpns
  BY <1>1, <1>3, <1>11, <1>12 DEF Database
<1>14. e.groups = t /\ e.hosts = u /\ e.identities = d.identities /\ e.keys = d.keys /\ e.fk = d.fk
  BY <1>1, <1>12 DEF Database
<1>15. \A h \in DOMAIN e.hosts : RefsOK(e, e.hosts[h])
  BY <1>1, <1>3, <1>5, <1>7, <1>9, <1>13, <1>14 DEF References, RefsOK, Exists
<1>16. ASSUME NEW g \in DOMAIN e.groups PROVE Exists(e.groups[g].parent, DOMAIN e.groups)
  <2>1. g \in DOMAIN o /\ g \in DOMAIN d.groups /\ o[g] = d.groups[g]
    BY <1>7, <1>9, <1>14
  <2>2. o[g].parent = 0 \/ o[g].parent \in DOMAIN d.groups
    BY <1>1, <2>1 DEF References, Exists
  <2>3. t[g].parent = IF o[g].parent = id THEN 0 ELSE o[g].parent
    BY <1>10, <2>1
  <2>4. t[g].parent = 0 \/ t[g].parent \in DOMAIN t
    BY <1>7, <1>9, <2>2, <2>3
  <2> QED
    BY <1>14, <2>4 DEF Exists
<1>17. References(e)
  BY <1>1, <1>14, <1>15, <1>16 DEF References
<1> QED
  BY <1>1, <1>13, <1>17 DEF InOrder, Numbered

LEMMA DeleteIdentityKeeps ==
  ASSUME NEW d, InOrder(d), NEW id \in Nat, NEW e, id \in DOMAIN d.identities,
         e = [d EXCEPT !.identities = Drop(d.identities, id), !.hosts = UnsetIn(d.hosts, "identity", id)]
  PROVE  InOrder(e) /\ e.next = d.next
<1>1. /\ d \in Database /\ References(d) /\ Numbered(d)
      /\ d.hosts \in Tables(HostRow) /\ d.identities \in Tables(Nat)
  BY DEF InOrder, Database
<1>2. PICK u, t : u = UnsetIn(d.hosts, "identity", id) /\ t = Drop(d.identities, id)
  OBVIOUS
<1>3. /\ u \in Tables(HostRow) /\ DOMAIN u = DOMAIN d.hosts
      /\ \A h \in DOMAIN d.hosts : u[h] = [d.hosts[h] EXCEPT !["identity"] = Unset(d.hosts[h]["identity"], id)]
  BY <1>1, <1>2, UnsetHosts
<1>4. \A h \in DOMAIN d.hosts : d.hosts[h] \in HostRow
  BY <1>1, TableParts
<1>5. ASSUME NEW h \in DOMAIN u
      PROVE  /\ u[h].group = d.hosts[h].group /\ u[h].vpn = d.hosts[h].vpn
             /\ u[h].identity = IF d.hosts[h].identity = id THEN 0 ELSE d.hosts[h].identity
  <2>1. PICK r \in HostRow : r = d.hosts[h]
    BY <1>3, <1>4
  <2>2. u[h] = [r EXCEPT !.identity = IF r.identity = id THEN 0 ELSE r.identity]
    BY <1>3, <2>1 DEF Unset
  <2> QED
    BY <2>1, <2>2 DEF HostRow
<1>6. t \in Tables(Nat)
  BY <1>1, <1>2, DropTable
<1>7. DOMAIN t = DOMAIN d.identities \ {id} /\ \A i \in DOMAIN t : t[i] = d.identities[i]
  BY <1>2 DEF Drop
<1>8. e = [d EXCEPT !.identities = t, !.hosts = u]
  BY <1>2
<1>9. e \in Database /\ e.next = d.next /\ e.vpns = d.vpns
  BY <1>1, <1>3, <1>6, <1>8 DEF Database
<1>10. e.groups = d.groups /\ e.hosts = u /\ e.identities = t /\ e.keys = d.keys /\ e.fk = d.fk
  BY <1>1, <1>8 DEF Database
<1>11. \A h \in DOMAIN e.hosts : RefsOK(e, e.hosts[h])
  BY <1>1, <1>3, <1>5, <1>7, <1>9, <1>10 DEF References, RefsOK, Exists
<1>12. References(e)
  BY <1>1, <1>7, <1>10, <1>11 DEF References
<1> QED
  BY <1>1, <1>9, <1>12 DEF InOrder, Numbered

LEMMA DeleteKeyKeeps ==
  ASSUME NEW d, InOrder(d), NEW id \in Nat, NEW e, id \in d.keys,
         e = [d EXCEPT !.keys = d.keys \ {id},
                       !.identities = [i \in DOMAIN d.identities |-> Unset(d.identities[i], id)]]
  PROVE  InOrder(e) /\ e.next = d.next
<1>1. d \in Database /\ References(d) /\ Numbered(d) /\ d.identities \in Tables(Nat)
  BY DEF InOrder, Database
<1>2. PICK t, k : t = [i \in DOMAIN d.identities |-> Unset(d.identities[i], id)] /\ k = d.keys \ {id}
  OBVIOUS
<1>3. /\ DOMAIN d.identities \in SUBSET Nat /\ IsFiniteSet(DOMAIN d.identities)
      /\ \A i \in DOMAIN d.identities : d.identities[i] \in Nat
  BY <1>1, TableParts
<1>4. /\ DOMAIN t = DOMAIN d.identities
      /\ \A i \in DOMAIN t : t[i] = IF d.identities[i] = id THEN 0 ELSE d.identities[i]
  BY <1>2 DEF Unset
<1>5. t \in [DOMAIN d.identities -> Nat]
  BY <1>2, <1>3 DEF Unset
<1>6. t \in Tables(Nat) /\ k \in SUBSET Nat
  BY <1>1, <1>2, <1>3, <1>5, IsTable DEF Database
<1>7. e = [d EXCEPT !.keys = k, !.identities = t]
  BY <1>2
<1>8. e \in Database /\ e.next = d.next /\ e.vpns = d.vpns
  BY <1>1, <1>6, <1>7 DEF Database
<1>9. e.groups = d.groups /\ e.hosts = d.hosts /\ e.identities = t /\ e.keys = k /\ e.fk = d.fk
  BY <1>1, <1>7 DEF Database
<1>10. \A h \in DOMAIN e.hosts : RefsOK(e, e.hosts[h])
  BY <1>1, <1>4, <1>8, <1>9 DEF References, RefsOK
<1>11. \A i \in DOMAIN e.identities : Exists(e.identities[i], e.keys)
  BY <1>1, <1>2, <1>4, <1>9 DEF References, Exists
<1>12. References(e)
  BY <1>1, <1>9, <1>10, <1>11 DEF References
<1> QED
  BY <1>1, <1>8, <1>12 DEF InOrder, Numbered

LEMMA DeleteProfileKeeps ==
  ASSUME NEW d, InOrder(d), NEW id \in Nat, NEW e, id \in d.vpns,
         e = [d EXCEPT !.vpns = d.vpns \ {id}, !.hosts = UnsetIn(d.hosts, "vpn", id)]
  PROVE  InOrder(e) /\ e.next = d.next /\ OnlyVpn(d, e)
<1>1. d \in Database /\ References(d) /\ Numbered(d) /\ d.hosts \in Tables(HostRow)
  BY DEF InOrder, Database
<1>2. PICK u, v : u = UnsetIn(d.hosts, "vpn", id) /\ v = d.vpns \ {id}
  OBVIOUS
<1>3. /\ u \in Tables(HostRow) /\ DOMAIN u = DOMAIN d.hosts
      /\ \A h \in DOMAIN d.hosts : u[h] = [d.hosts[h] EXCEPT !["vpn"] = Unset(d.hosts[h]["vpn"], id)]
  BY <1>1, <1>2, UnsetHosts
<1>4. \A h \in DOMAIN d.hosts : d.hosts[h] \in HostRow
  BY <1>1, TableParts
<1>5. \A h \in DOMAIN u : /\ u[h].group = d.hosts[h].group /\ u[h].identity = d.hosts[h].identity
                          /\ u[h].vpn = IF d.hosts[h].vpn = id THEN 0 ELSE d.hosts[h].vpn
                          /\ [d.hosts[h] EXCEPT !.vpn = 0] = [u[h] EXCEPT !.vpn = 0]
  BY <1>3, <1>4 DEF HostRow, Unset
<1>6. e = [d EXCEPT !.vpns = v, !.hosts = u]
  BY <1>2
<1>7. e \in Database /\ e.next = d.next /\ e.vpns = v
  BY <1>1, <1>2, <1>3, <1>6 DEF Database
<1>8. e.groups = d.groups /\ e.hosts = u /\ e.identities = d.identities /\ e.keys = d.keys /\ e.fk = d.fk
  BY <1>1, <1>6 DEF Database
<1>9. ASSUME NEW h \in DOMAIN e.hosts PROVE RefsOK(e, e.hosts[h])
  <2>1. h \in DOMAIN u /\ h \in DOMAIN d.hosts /\ RefsOK(d, d.hosts[h])
    BY <1>1, <1>3, <1>8 DEF References
  <2>2. d.fk => Exists(u[h].vpn, v)
    BY <1>2, <1>5, <2>1 DEF RefsOK, Exists
  <2>3. u[h].group = d.hosts[h].group /\ u[h].identity = d.hosts[h].identity
    BY <1>5, <2>1
  <2> QED
    BY <1>7, <1>8, <2>1, <2>2, <2>3 DEF RefsOK
<1>10. References(e)
  BY <1>1, <1>8, <1>9 DEF References
<1>11. Numbered(e)
  BY <1>1, <1>2, <1>7 DEF Numbered
<1>12. \A h \in DOMAIN d.hosts : ShownAs(e, d.hosts[h], e.hosts[h])
  <2>1. id \notin v /\ id < e.next
    BY <1>1, <1>2, <1>7 DEF Numbered
  <2> QED
    BY <1>3, <1>5, <1>7, <1>8, <2>1 DEF ShownAs
<1> QED
  BY <1>2, <1>3, <1>7, <1>8, <1>10, <1>11, <1>12 DEF InOrder, OnlyVpn

LEMMA DeleteKeeps ==
  ASSUME NEW d, InOrder(d), NEW id \in Nat, NEW table \in Names, Delete(d, table, id) # Error,
         NEW e, e = Delete(d, table, id)
  PROVE  InOrder(e) /\ e.next = d.next /\ (table = "vpn" => OnlyVpn(d, e))
<1>1. CASE table = "host"
  BY <1>1, DeleteHostKeeps DEF Delete
<1>2. CASE table = "group"
  BY <1>2, DeleteGroupKeeps DEF Delete
<1>3. CASE table = "identity"
  BY <1>3, DeleteIdentityKeeps DEF Delete
<1>4. CASE table = "key"
  BY <1>4, DeleteKeyKeeps DEF Delete
<1>5. CASE table = "vpn"
  BY <1>5, DeleteProfileKeeps DEF Delete
<1> QED
  BY <1>1, <1>2, <1>3, <1>4, <1>5 DEF Names

\* The group of a row of a file, and what is written for the row.
LEMMA ImportGroupKeeps ==
  ASSUME NEW d, InOrder(d), NEW row \in HostRow, NEW f, f = ImportGroup(d, row)
  PROVE  InOrder(f) /\ f.next >= d.next /\ f.vpns = d.vpns
<1>1. d.next \in Nat
  BY DEF InOrder, Database
<1>2. CASE Exists(row.group, DOMAIN d.groups)
  BY <1>1, <1>2 DEF ImportGroup
<1>3. CASE ~Exists(row.group, DOMAIN d.groups)
  <2>1. PICK g : g = Group(0, 0)
    OBVIOUS
  <2>2. g \in GroupRow /\ Exists(g.parent, DOMAIN d.groups)
    BY <2>1 DEF Group, GroupRow, Exists
  <2>3. f = PutGroup(d, 0, g)
    BY <1>3, <2>1 DEF ImportGroup
  <2> QED
    BY <2>2, <2>3, PutGroupKeeps
<1> QED
  BY <1>2, <1>3

LEMMA ImportRowType ==
  ASSUME NEW d, InOrder(d), NEW id \in Nat, NEW row \in HostRow
  PROVE  ImportRow(d, id, row) \in HostRow /\ ImportTo(d, id) \in Nat
<1>1. d.hosts \in Tables(HostRow) /\ d.next \in Nat
  BY DEF InOrder, Database
<1>2. PICK g, i : /\ g = IF Exists(row.group, DOMAIN d.groups) THEN row.group ELSE d.next
                  /\ i = IF row.identity \in DOMAIN d.identities THEN row.identity ELSE 0
  OBVIOUS
<1>3. PICK r : r = [row EXCEPT !.group = g, !.identity = i]
  OBVIOUS
<1>4. r \in HostRow
  BY <1>1, <1>2, <1>3 DEF HostRow
<1>5. CASE id \in DOMAIN d.hosts
  <2>1. PICK h \in HostRow : h = d.hosts[id]
    BY <1>1, <1>5, TableParts
  <2>2. ImportRow(d, id, row) = [r EXCEPT !.vpn = h.vpn, !.tag = r.tag \/ h.tag]
    BY <1>2, <1>3, <1>5, <2>1 DEF ImportRow
  <2>3. ImportRow(d, id, row) \in HostRow
    BY <1>4, <2>1, <2>2 DEF HostRow
  <2> QED
    BY <2>3 DEF ImportTo
<1>6. CASE id \notin DOMAIN d.hosts
  BY <1>2, <1>3, <1>4, <1>6 DEF ImportRow, ImportTo
<1> QED
  BY <1>5, <1>6

LEMMA ImportKeeps ==
  ASSUME NEW d, InOrder(d), NEW id \in Nat, NEW row \in HostRow, Import(d, id, row) # Error,
         NEW e, e = Import(d, id, row)
  PROVE  InOrder(e) /\ e.next >= d.next
<1>1. PICK f, w, to : f = ImportGroup(d, row) /\ w = ImportRow(d, id, row) /\ to = ImportTo(d, id)
  OBVIOUS
<1>2. InOrder(f) /\ f.next >= d.next /\ w \in HostRow /\ to \in Nat
  BY <1>1, ImportGroupKeeps, ImportRowType
<1>3. e = PutHost(f, to, w)
  BY <1>1 DEF Import
<1>4. InOrder(e) /\ e.next >= f.next
  BY <1>2, <1>3, PutHostKeeps
<1>5. d.next \in Nat /\ f.next \in Nat /\ e.next \in Nat
  BY <1>2, <1>4 DEF InOrder, Database
<1> QED
  BY <1>2, <1>4, <1>5

LEMMA NewVpnKeeps ==
  ASSUME NEW d, InOrder(d), NEW e, e = [d EXCEPT !.vpns = d.vpns \cup {d.next}, !.next = d.next + 1]
  PROVE  InOrder(e) /\ e.next >= d.next /\ OnlyVpn(d, e)
<1>1. d \in Database /\ References(d) /\ Numbered(d) /\ d.next \in Nat \ {0} /\ d.vpns \in SUBSET Nat
  BY DEF InOrder, Database
<1>2. PICK v, n : v = d.vpns \cup {d.next} /\ n = d.next + 1
  OBVIOUS
<1>3. n \in Nat \ {0} /\ n >= d.next /\ v \in SUBSET Nat
  BY <1>1, <1>2
<1>4. e = [d EXCEPT !.vpns = v, !.next = n]
  BY <1>2
<1>5. e \in Database /\ e.vpns = v /\ e.next = n
  BY <1>1, <1>3, <1>4 DEF Database
<1>6. /\ e.groups = d.groups /\ e.hosts = d.hosts /\ e.identities = d.identities /\ e.keys = d.keys
      /\ e.fk = d.fk
  BY <1>1, <1>4 DEF Database
<1>7. References(e)
  BY <1>1, <1>2, <1>5, <1>6 DEF References, RefsOK, Exists
<1>8. Numbered(e)
  BY <1>1, <1>2, <1>5 DEF Numbered
<1>9. OnlyVpn(d, e)
  BY <1>2, <1>5, <1>6 DEF OnlyVpn, ShownAs
<1> QED
  BY <1>3, <1>5, <1>7, <1>8, <1>9 DEF InOrder

LEMMA NewKeyKeeps ==
  ASSUME NEW d, InOrder(d), NEW e, e = [d EXCEPT !.keys = d.keys \cup {d.next}, !.next = d.next + 1]
  PROVE  InOrder(e) /\ e.next >= d.next
<1>1. /\ d \in Database /\ References(d) /\ Numbered(d) /\ d.next \in Nat \ {0}
      /\ d.vpns \in SUBSET Nat /\ d.keys \in SUBSET Nat
  BY DEF InOrder, Database
<1>2. PICK k, n : k = d.keys \cup {d.next} /\ n = d.next + 1
  OBVIOUS
<1>3. n \in Nat \ {0} /\ n >= d.next /\ k \in SUBSET Nat
  BY <1>1, <1>2
<1>4. e = [d EXCEPT !.keys = k, !.next = n]
  BY <1>2
<1>5. e \in Database /\ e.keys = k /\ e.next = n
  BY <1>1, <1>3, <1>4 DEF Database
<1>6. /\ e.groups = d.groups /\ e.hosts = d.hosts /\ e.identities = d.identities /\ e.vpns = d.vpns
      /\ e.fk = d.fk
  BY <1>1, <1>4 DEF Database
<1>7. References(e)
  BY <1>1, <1>2, <1>5, <1>6 DEF References, RefsOK, Exists
<1>8. Numbered(e)
  BY <1>1, <1>3, <1>5, <1>6 DEF Numbered
<1> QED
  BY <1>3, <1>5, <1>7, <1>8 DEF InOrder

LEMMA FavoriteKeeps ==
  ASSUME NEW d, InOrder(d), NEW id \in DOMAIN d.hosts, NEW fav \in BOOLEAN,
         NEW e, e = [d EXCEPT !.hosts[id].fav = fav]
  PROVE  InOrder(e) /\ e.next = d.next /\ e.vpns = d.vpns
<1>1. d \in Database /\ References(d) /\ d.hosts \in Tables(HostRow)
  BY DEF InOrder, Database
<1>2. PICK r \in HostRow : r = d.hosts[id]
  BY <1>1, TableParts
<1>3. PICK w : w = [r EXCEPT !.fav = fav]
  OBVIOUS
<1>4. w \in HostRow /\ w.group = r.group /\ w.identity = r.identity /\ w.vpn = r.vpn
  BY <1>3 DEF HostRow
<1>5. PICK t : t = [d.hosts EXCEPT ![id] = w]
  OBVIOUS
<1>6. /\ t \in Tables(HostRow) /\ DOMAIN t = DOMAIN d.hosts
      /\ t[id] = w /\ \A h \in DOMAIN d.hosts \ {id} : t[h] = d.hosts[h]
  BY <1>1, <1>4, <1>5, SetTable
<1>7. e = [d EXCEPT !.hosts = t]
  BY <1>1, <1>2, <1>3, <1>5 DEF Database
<1>8. e \in Database /\ e.hosts = t /\ e.next = d.next
  BY <1>1, <1>6, <1>7 DEF Database
<1>9. /\ e.groups = d.groups /\ e.identities = d.identities /\ e.keys = d.keys /\ e.vpns = d.vpns
      /\ e.fk = d.fk
  BY <1>1, <1>7 DEF Database
<1>10. \A h \in DOMAIN e.hosts : RefsOK(d, e.hosts[h])
  BY <1>1, <1>2, <1>4, <1>6, <1>8 DEF References, RefsOK
<1>11. e.next >= d.next
  BY <1>1, <1>8 DEF Database
<1> QED
  BY <1>8, <1>9, <1>10, <1>11, HostsChanged

\* A command by its kind, with the row that goes with it.
LEMMA CommandParts ==
  ASSUME NEW c \in Commands
  PROVE  /\ c.id \in Nat
         /\ c.do \in {"host", "import", "group", "identity", "key", "vpn", "favorite", "delete"}
         /\ c.do \in {"host", "import"} => c.row \in HostRow
         /\ c.do = "group" => c.row \in GroupRow
         /\ c.do = "identity" => c.row.key \in Nat
         /\ c.do = "favorite" => c.row.fav \in BOOLEAN
         /\ c.do = "delete" => c.row.table \in Names
  BY DEF Commands, KeyRow

\* A host refers to what its form has made.
LEMMA ReferringType ==
  ASSUME NEW row \in HostRow, NEW made \in Makes
  PROVE  /\ Referring(row, made) \in HostRow
         /\ made.identity # 0 => Referring(row, made).identity # 0
<1>1. PICK i, v : /\ i = IF made.identity # 0 THEN made.identity ELSE row.identity
                  /\ v = IF made.vpn # 0 THEN made.vpn ELSE row.vpn
  OBVIOUS
<1>2. i \in Nat /\ v \in Nat /\ (made.identity # 0 => i # 0)
  BY <1>1 DEF HostRow, Makes
<1>3. Referring(row, made) = [row EXCEPT !.identity = i, !.vpn = v]
  BY <1>1 DEF Referring
<1> QED
  BY <1>2, <1>3 DEF HostRow

\* Every command leaves the tables in order; what it leaves alone.
LEMMA ExecuteKeeps ==
  ASSUME NEW d, InOrder(d), NEW c \in Commands, NEW made \in Makes, Execute(d, c, made) # Error,
         NEW e, e = Execute(d, c, made)
  PROVE  /\ InOrder(e) /\ e.next >= d.next
         /\ c.do = "group" => Rest(e) = Rest(d) /\ e.vpns = d.vpns
         /\ OfVpnStore(c) => OnlyVpn(d, e)
         /\ c.do = "host" /\ made.identity # 0 =>
              \A h \in DOMAIN e.hosts : \/ h \in DOMAIN d.hosts /\ e.hosts[h] = d.hosts[h]
                                        \/ e.hosts[h].identity # 0
<1>1. c.id \in Nat /\ made.key \in Nat /\ made.identity \in Nat /\ made.vpn \in Nat
  BY CommandParts DEF Makes
<1>2. d.next \in Nat
  BY DEF InOrder, Database
<1>3. CASE c.do = "host"
  <2>1. c.row \in HostRow
    BY <1>3, CommandParts
  <2>2. PICK w : w = Referring(c.row, made)
    OBVIOUS
  <2>3. w \in HostRow /\ (made.identity # 0 => w.identity # 0)
    BY <2>1, <2>2, ReferringType
  <2>4. e = PutHost(d, c.id, w)
    BY <1>3, <2>2 DEF Execute
  <2>5. /\ InOrder(e) /\ e.next >= d.next
        /\ \A h \in DOMAIN e.hosts : \/ h \in DOMAIN d.hosts /\ e.hosts[h] = d.hosts[h]
                                     \/ e.hosts[h].identity = w.identity
    BY <1>1, <2>3, <2>4, PutHostKeeps
  <2>6. ~OfVpnStore(c)
    BY <1>3 DEF OfVpnStore
  <2> QED
    BY <1>3, <2>3, <2>5, <2>6
<1>4. CASE c.do = "group"
  <2>1. c.row \in GroupRow
    BY <1>4, CommandParts
  <2>2. e = PutGroup(d, c.id, c.row)
    BY <1>4 DEF Execute
  <2>3. Exists(c.row.parent, DOMAIN d.groups) /\ (c.id = 0 \/ c.id \in DOMAIN d.groups)
    BY <2>2 DEF PutGroup
  <2>4. InOrder(e) /\ e.next >= d.next /\ Rest(e) = Rest(d) /\ e.vpns = d.vpns
    BY <1>1, <2>1, <2>2, <2>3, PutGroupKeeps
  <2> QED
    BY <1>4, <2>4 DEF OfVpnStore
<1>5. CASE c.do = "identity"
  <2>1. PICK k \in Nat : k = IF made.key # 0 THEN made.key ELSE c.row.key
    BY <1>1, <1>5, CommandParts
  <2>2. e = PutIdentity(d, c.id, k)
    BY <1>5, <2>1 DEF Execute
  <2>3. InOrder(e) /\ e.next >= d.next
    BY <1>1, <2>2, PutIdentityKeeps
  <2> QED
    BY <1>5, <2>3 DEF OfVpnStore
<1>6. CASE c.do = "key"
  <2>1. e = [d EXCEPT !.keys = d.keys \cup {d.next}, !.next = d.next + 1]
    BY <1>6 DEF Execute
  <2>2. InOrder(e) /\ e.next >= d.next
    BY <2>1, NewKeyKeeps
  <2> QED
    BY <1>6, <2>2 DEF OfVpnStore
<1>7. CASE c.do = "vpn"
  <2>1. e = IF c.id = 0 THEN [d EXCEPT !.vpns = d.vpns \cup {d.next}, !.next = d.next + 1]
            ELSE IF c.id \in d.vpns THEN d ELSE Error
    BY <1>7 DEF Execute
  <2>2. CASE c.id = 0
    <3>1. InOrder(e) /\ e.next >= d.next /\ OnlyVpn(d, e)
      BY <2>1, <2>2, NewVpnKeeps
    <3> QED
      BY <1>7, <3>1
  <2>3. CASE c.id # 0
    <3>1. e = d
      BY <2>1, <2>3
    <3>2. OnlyVpn(d, e)
      BY <3>1 DEF OnlyVpn, ShownAs
    <3>3. e.next >= d.next
      BY <1>2, <3>1
    <3> QED
      BY <1>7, <3>1, <3>2, <3>3
  <2> QED
    BY <2>2, <2>3
<1>8. CASE c.do = "favorite"
  <2>1. c.id \in DOMAIN d.hosts /\ e = [d EXCEPT !.hosts[c.id].fav = c.row.fav]
    BY <1>8 DEF Execute
  <2>2. c.row.fav \in BOOLEAN
    BY <1>8, CommandParts
  <2>3. InOrder(e) /\ e.next = d.next
    BY <2>1, <2>2, FavoriteKeeps
  <2> QED
    BY <1>2, <1>8, <2>3 DEF OfVpnStore
<1>9. CASE c.do = "import"
  <2>1. c.row \in HostRow /\ e = Import(d, c.id, c.row)
    BY <1>9, CommandParts DEF Execute
  <2>2. InOrder(e) /\ e.next >= d.next
    BY <1>1, <2>1, ImportKeeps
  <2> QED
    BY <1>9, <2>2 DEF OfVpnStore
<1>10. CASE c.do = "delete"
  <2>1. c.row.table \in Names /\ e = Delete(d, c.row.table, c.id)
    BY <1>10, CommandParts DEF Execute
  <2>2. InOrder(e) /\ e.next = d.next /\ (c.row.table = "vpn" => OnlyVpn(d, e))
    BY <1>1, <2>1, DeleteKeeps
  <2> QED
    BY <1>2, <1>10, <2>2 DEF OfVpnStore
<1> QED
  BY <1>3, <1>4, <1>5, <1>6, <1>7, <1>8, <1>9, <1>10, CommandParts

\* What the statements of a host leave, if they stop halfway.
LEMMA HostLeftKeeps ==
  ASSUME NEW d, InOrder(d), NEW id \in Nat, NEW row \in HostRow, NEW e \in HostLeft(d, id, row), e # Error
  PROVE  /\ InOrder(e) /\ e.next >= d.next /\ e.vpns = d.vpns
         /\ \A h \in DOMAIN e.hosts : \/ h \in DOMAIN d.hosts /\ e.hosts[h] = d.hosts[h]
                                      \/ e.hosts[h].identity = row.identity
<1>1. d.hosts \in Tables(HostRow)
  BY DEF InOrder, Database
<1>2. \A h \in DOMAIN d.hosts : d.hosts[h].tag \in BOOLEAN
  <2>1. \A h \in DOMAIN d.hosts : d.hosts[h] \in HostRow
    BY <1>1, TableParts
  <2> QED
    BY <2>1 DEF HostRow
<1>3. PICK t \in {FALSE, row.tag} \cup {d.hosts[h].tag : h \in {id} \cap DOMAIN d.hosts} :
        e = PutHost(d, id, [row EXCEPT !.tag = t])
  BY DEF HostLeft
<1>4. t \in BOOLEAN
  BY <1>2, <1>3 DEF HostRow
<1>5. PICK w : w = [row EXCEPT !.tag = t]
  OBVIOUS
<1>6. w \in HostRow /\ w.identity = row.identity
  BY <1>4, <1>5 DEF HostRow
<1>7. e = PutHost(d, id, w) /\ PutHost(d, id, w) # Error
  BY <1>3, <1>5
<1>8. /\ InOrder(e) /\ e.next >= d.next /\ e.vpns = d.vpns
      /\ \A h \in DOMAIN e.hosts : \/ h \in DOMAIN d.hosts /\ e.hosts[h] = d.hosts[h]
                                   \/ e.hosts[h].identity = w.identity
  BY <1>6, <1>7, PutHostKeeps
<1> QED
  BY <1>6, <1>8

\* A profile is taken from its hosts.
LEMMA UnsetProfileKeeps ==
  ASSUME NEW d, InOrder(d), NEW id \in Nat, NEW e, e = [d EXCEPT !.hosts = UnsetIn(d.hosts, "vpn", id)]
  PROVE  InOrder(e) /\ e.next = d.next /\ e.vpns = d.vpns
<1>1. d \in Database /\ References(d) /\ d.hosts \in Tables(HostRow)
  BY DEF InOrder, Database
<1>2. PICK u : u = UnsetIn(d.hosts, "vpn", id)
  OBVIOUS
<1>3. /\ u \in Tables(HostRow) /\ DOMAIN u = DOMAIN d.hosts
      /\ \A h \in DOMAIN d.hosts : u[h] = [d.hosts[h] EXCEPT !["vpn"] = Unset(d.hosts[h]["vpn"], id)]
  BY <1>1, <1>2, UnsetHosts
<1>4. \A h \in DOMAIN d.hosts : d.hosts[h] \in HostRow
  BY <1>1, TableParts
<1>5. \A h \in DOMAIN u : /\ u[h].group = d.hosts[h].group /\ u[h].identity = d.hosts[h].identity
                          /\ u[h].vpn = IF d.hosts[h].vpn = id THEN 0 ELSE d.hosts[h].vpn
  BY <1>3, <1>4 DEF HostRow, Unset
<1>6. e = [d EXCEPT !.hosts = u]
  BY <1>2
<1>7. e \in Database /\ e.next = d.next /\ e.next >= d.next
  BY <1>1, <1>3, <1>6 DEF Database
<1>8. /\ e.groups = d.groups /\ e.hosts = u /\ e.identities = d.identities /\ e.keys = d.keys
      /\ e.vpns = d.vpns /\ e.fk = d.fk
  BY <1>1, <1>6 DEF Database
<1>9. \A h \in DOMAIN e.hosts : RefsOK(d, e.hosts[h])
  BY <1>1, <1>3, <1>5, <1>8 DEF References, RefsOK, Exists
<1> QED
  BY <1>7, <1>8, <1>9, HostsChanged

\* A command that fails, too, leaves the tables in order, and no profile comes
\* or goes.
LEMMA LeftKeeps ==
  ASSUME NEW d, InOrder(d), NEW c \in Commands, NEW made \in Makes, NEW e \in LeftBy(d, c, made)
  PROVE  /\ InOrder(e) /\ e.next >= d.next /\ e.vpns = d.vpns
         /\ c.do = "group" => e = d
         /\ c.do = "host" /\ made.identity # 0 =>
              \A h \in DOMAIN e.hosts : \/ h \in DOMAIN d.hosts /\ e.hosts[h] = d.hosts[h]
                                        \/ e.hosts[h].identity # 0
<1>1. /\ c.id \in Nat /\ made.key \in Nat /\ made.identity \in Nat /\ made.vpn \in Nat
      /\ d.next \in Nat /\ e # Error
  BY CommandParts DEF Makes, InOrder, Database, LeftBy
<1>2. CASE e = d
  BY <1>1, <1>2
<1>3. ASSUME c.do = "host", e \in HostLeft(d, c.id, Referring(c.row, made))
      PROVE  /\ InOrder(e) /\ e.next >= d.next /\ e.vpns = d.vpns
             /\ made.identity # 0 =>
                  \A h \in DOMAIN e.hosts : \/ h \in DOMAIN d.hosts /\ e.hosts[h] = d.hosts[h]
                                            \/ e.hosts[h].identity # 0
  <2>1. c.row \in HostRow
    BY <1>3, CommandParts
  <2>2. PICK w \in HostRow : w = Referring(c.row, made) /\ (made.identity # 0 => w.identity # 0)
    BY <2>1, ReferringType
  <2> QED
    BY <1>1, <1>3, <2>2, HostLeftKeeps
<1>4. ASSUME c.do = "import",
             e \in {ImportGroup(d, c.row)}
                   \cup HostLeft(ImportGroup(d, c.row), ImportTo(d, c.id), ImportRow(d, c.id, c.row))
      PROVE  InOrder(e) /\ e.next >= d.next /\ e.vpns = d.vpns
  <2>1. c.row \in HostRow
    BY <1>4, CommandParts
  <2>2. PICK f, w, to : f = ImportGroup(d, c.row) /\ w = ImportRow(d, c.id, c.row) /\ to = ImportTo(d, c.id)
    OBVIOUS
  <2>3. InOrder(f) /\ f.next >= d.next /\ f.vpns = d.vpns /\ w \in HostRow /\ to \in Nat
    BY <1>1, <2>1, <2>2, ImportGroupKeeps, ImportRowType
  <2>4. CASE e = f
    BY <2>3, <2>4
  <2>5. CASE e \in HostLeft(f, to, w)
    <3>1. InOrder(e) /\ e.next >= f.next /\ e.vpns = f.vpns
      BY <1>1, <2>3, <2>5, HostLeftKeeps
    <3>2. f.next \in Nat /\ e.next \in Nat
      BY <2>3, <3>1 DEF InOrder, Database
    <3> QED
      BY <1>1, <2>3, <3>1, <3>2
  <2> QED
    BY <1>4, <2>2, <2>4, <2>5
<1>5. ASSUME c.do = "identity", e = Execute(d, c, made)
      PROVE  InOrder(e) /\ e.next >= d.next /\ e.vpns = d.vpns
  <2>1. PICK k \in Nat : k = IF made.key # 0 THEN made.key ELSE c.row.key
    BY <1>1, <1>5, CommandParts
  <2>2. e = PutIdentity(d, c.id, k)
    BY <1>5, <2>1 DEF Execute
  <2> QED
    BY <1>1, <2>2, PutIdentityKeeps
<1>6. ASSUME c.do = "favorite", e = Execute(d, c, made)
      PROVE  InOrder(e) /\ e.next >= d.next /\ e.vpns = d.vpns
  <2>1. c.id \in DOMAIN d.hosts /\ e = [d EXCEPT !.hosts[c.id].fav = c.row.fav]
    BY <1>1, <1>6 DEF Execute
  <2>2. c.row.fav \in BOOLEAN
    BY <1>6, CommandParts
  <2>3. InOrder(e) /\ e.next = d.next /\ e.vpns = d.vpns
    BY <2>1, <2>2, FavoriteKeeps
  <2> QED
    BY <1>1, <2>3
<1>7. ASSUME c.do = "delete", e = [d EXCEPT !.hosts = UnsetIn(d.hosts, "vpn", c.id)]
      PROVE  InOrder(e) /\ e.next >= d.next /\ e.vpns = d.vpns
  <2>1. InOrder(e) /\ e.next = d.next /\ e.vpns = d.vpns
    BY <1>1, <1>7, UnsetProfileKeeps
  <2> QED
    BY <1>1, <2>1
<1>8. \/ e = d
      \/ c.do = "host" /\ e \in HostLeft(d, c.id, Referring(c.row, made))
      \/ /\ c.do = "import"
         /\ e \in {ImportGroup(d, c.row)}
                  \cup HostLeft(ImportGroup(d, c.row), ImportTo(d, c.id), ImportRow(d, c.id, c.row))
      \/ c.do = "identity" /\ e = Execute(d, c, made)
      \/ c.do = "favorite" /\ e = Execute(d, c, made)
      \/ c.do = "delete" /\ e = [d EXCEPT !.hosts = UnsetIn(d.hosts, "vpn", c.id)]
  BY DEF LeftBy
<1> QED
  BY <1>2, <1>3, <1>4, <1>5, <1>6, <1>7, <1>8

-----------------------------------------------------------------------------
(* Operations                                                              *)

RestLists == [hosts : Tables(HostRow), identities : Tables(Nat), keys : SUBSET Nat]
StoreLists == [groups : Tables(GroupRow), rest : RestLists]
Operations == [pc : {"idle", "send", "load"}, todo : Seq(Commands), made : Makes, req : Nat,
               groups : Seq(Tables(GroupRow)), rest : Seq(RestLists), entered : BOOLEAN]

OpsType ==
    /\ ops \in [Slots -> Operations]
    /\ \A s \in Slots : ops[s].pc # "idle" => ops[s].todo # <<>>

\* What a form holds goes with its kind.
FormType ==
    /\ form.id \in Nat
    /\ form.kind = "host" => form.row \in HostRow
    /\ form.kind = "group" => form.row \in GroupRow
    /\ form.kind = "identity" => form.row \in KeyRow

LibraryType ==
    /\ InOrder(db) /\ store \in StoreLists /\ latest \in Nat
    /\ filter \in BOOLEAN /\ missed \in 0..latest /\ clicks \in 0..MaxClicks
    /\ OpsType /\ FormType

\* An operation of a list is one command, or the commands of a reorder.
ListTodo(todo) == Len(todo) = 1 \/ \A i \in 1..Len(todo) : todo[i].do = "group"
\* An identity is made before the host is saved.
Pledged(todo) ==
    \E i \in 1..Len(todo) :
        /\ todo[i].do = "identity" /\ todo[i].id = 0
        /\ \A j \in 1..i : todo[j].do # "host"

\* A slot's operation becomes o.
Becomes(s, o) ==
    /\ ops' \in [Slots -> Operations] /\ ops'[s] = o
    /\ \A r \in Slots \ {s} : ops'[r] = ops[r]

LEMMA OpBecomes ==
  ASSUME ops \in [Slots -> Operations], NEW s \in Slots, NEW o \in Operations, ops' = [ops EXCEPT ![s] = o]
  PROVE  Becomes(s, o)
  BY DEF Becomes

LEMMA NoOpType == NoOp \in Operations /\ NoOp.pc = "idle"
<1>1. NoOp.todo \in Seq(Commands) /\ NoOp.groups \in Seq(Tables(GroupRow)) /\ NoOp.rest \in Seq(RestLists)
  BY DEF NoOp
<1>2. NoOp.made \in Makes
  BY DEF NoOp, Makes
<1> QED
  BY <1>1, <1>2 DEF NoOp, Operations

LEMMA EndParts ==
  ASSUME OpsType, FormType, NEW s \in Slots, NEW ok \in BOOLEAN, EndOp(s, ok)
  PROVE  Becomes(s, NoOp) /\ OpsType' /\ FormType'
<1>1. Becomes(s, NoOp)
  BY NoOpType, OpBecomes DEF EndOp, OpsType
<1>2. OpsType'
  BY <1>1, NoOpType DEF OpsType, Becomes
<1>3. FormType'
  BY DEF EndOp, FormType, NoForm
<1> QED
  BY <1>1, <1>2, <1>3

LEMMA MadeType ==
  ASSUME OpsType, InOrder(db), NEW s \in Slots, ops[s].pc = "send"
  PROVE  /\ Made(s) \in Makes
         /\ Command(s).do = "identity" /\ Command(s).id = 0 => Made(s).identity # 0
         /\ ops[s].made.identity # 0 => Made(s).identity # 0
<1>1. ops[s].made \in Makes /\ db.next \in Nat \ {0}
  BY DEF OpsType, Operations, InOrder, Database
<1>2. CASE Command(s).do \in {"key", "identity", "vpn"} /\ Command(s).id = 0
  <2>1. Made(s) = [ops[s].made EXCEPT ![Command(s).do] = db.next]
    BY <1>2 DEF Made
  <2> QED
    BY <1>1, <1>2, <2>1 DEF Makes
<1>3. CASE ~(Command(s).do \in {"key", "identity", "vpn"} /\ Command(s).id = 0)
  BY <1>1, <1>3 DEF Made
<1> QED
  BY <1>2, <1>3

\* The first command and the others.
LEMMA TodoParts ==
  ASSUME OpsType, NEW s \in Slots, ops[s].pc # "idle"
  PROVE  /\ ops[s] \in Operations /\ ops[s].todo \in Seq(Commands) /\ ops[s].todo # <<>>
         /\ Len(ops[s].todo) \in Nat /\ Len(ops[s].todo) > 0
         /\ Command(s) \in Commands /\ Command(s) = ops[s].todo[1]
         /\ Tail(ops[s].todo) \in Seq(Commands)
         /\ Len(ops[s].todo) # 1 => Tail(ops[s].todo) # <<>>
         /\ Len(Tail(ops[s].todo)) = Len(ops[s].todo) - 1
         /\ \A i \in 1..(Len(ops[s].todo) - 1) : Tail(ops[s].todo)[i] = ops[s].todo[i + 1]
<1>1. PICK todo : todo = ops[s].todo
  OBVIOUS
<1>2. ops[s] \in Operations /\ todo \in Seq(Commands) /\ todo # <<>>
  BY <1>1 DEF OpsType, Operations
<1>3. Len(todo) \in Nat /\ Len(todo) > 0 /\ Head(todo) \in Commands /\ Head(todo) = todo[1]
  BY <1>2
<1>4. /\ Tail(todo) \in Seq(Commands) /\ Len(Tail(todo)) = Len(todo) - 1
      /\ \A i \in 1..(Len(todo) - 1) : Tail(todo)[i] = todo[i + 1]
  BY <1>2, <1>3
<1>5. ASSUME Len(todo) # 1 PROVE Tail(todo) # <<>>
  <2>1. Len(Tail(todo)) > 0
    BY <1>3, <1>4, <1>5
  <2>2. Len(<<>>) = 0
    OBVIOUS
  <2> QED
    BY <2>1, <2>2
<1> QED
  BY <1>1, <1>2, <1>3, <1>4, <1>5 DEF Command

\* On to the next command.
LEMMA NextParts ==
  ASSUME OpsType, NEW s \in Slots, ops[s].pc # "idle", Len(ops[s].todo) # 1,
         NEW o \in Operations, o.todo = Tail(ops[s].todo), ops' = [ops EXCEPT ![s] = o]
  PROVE  OpsType' /\ Becomes(s, o)
<1>1. o.todo # <<>>
  BY TodoParts
<1>2. Becomes(s, o)
  BY OpBecomes DEF OpsType
<1> QED
  BY <1>1, <1>2 DEF OpsType, Becomes

\* loadAll starts with a request of its own.
LEMMA LoadParts ==
  ASSUME OpsType, InOrder(db), latest \in Nat, NEW s \in Slots, ops[s].pc = "send", StartLoad(s)
  PROVE  /\ OpsType' /\ latest' = latest + 1
         /\ \E o \in Operations : /\ Becomes(s, o) /\ o.pc = "load" /\ o.todo = ops[s].todo /\ o.made = Made(s)
                                  /\ o.entered = ops[s].entered /\ o.req = latest + 1
                                  /\ o.groups = <<>> /\ o.rest = <<>>
<1>1. ops[s] \in Operations /\ ops[s].todo # <<>> /\ Made(s) \in Makes
  BY TodoParts, MadeType
<1>2. PICK o : o = [ops[s] EXCEPT !.pc = "load", !.made = Made(s), !.req = latest + 1,
                                  !.groups = <<>>, !.rest = <<>>]
  OBVIOUS
<1>3. PICK none : none = <<>>
  OBVIOUS
<1>4. none \in Seq(Tables(GroupRow)) /\ none \in Seq(RestLists) /\ latest + 1 \in Nat
  BY <1>3
<1>5. /\ o \in Operations /\ o.pc = "load" /\ o.todo = ops[s].todo /\ o.made = Made(s)
      /\ o.entered = ops[s].entered /\ o.req = latest + 1 /\ o.groups = none /\ o.rest = none
  BY <1>1, <1>2, <1>3, <1>4 DEF Operations
<1>6. Becomes(s, o)
  BY <1>2, <1>5, OpBecomes DEF OpsType, StartLoad
<1>7. OpsType'
  BY <1>1, <1>5, <1>6 DEF OpsType, Becomes
<1> QED
  BY <1>3, <1>5, <1>6, <1>7 DEF StartLoad

-----------------------------------------------------------------------------
(* Clicks                                                                  *)

\* What a click leaves behind: nothing new, or one more operation.
ListOp == \E o \in Operations : /\ ops["list"].pc = "idle" /\ Becomes("list", o)
                                /\ o.pc = "send" /\ ListTodo(o.todo)
FormOp == \E o \in Operations : /\ ops["form"].pc = "idle" /\ Becomes("form", o)
                                /\ o.pc = "send" /\ (o.entered => Pledged(o.todo))
Clicked ==
    /\ OpsType' /\ FormType' /\ filter' \in BOOLEAN
    /\ ops' = ops \/ ListOp \/ FormOp

LEMMA ListStarts ==
  ASSUME LibraryType, NEW todo \in Seq(Commands), todo # <<>>, ListTodo(todo),
         ops["list"].pc = "idle", Start("list", todo), UNCHANGED <<form, filter>>
  PROVE  Clicked
<1>1. PICK o : o = [NoOp EXCEPT !.pc = "send", !.todo = todo]
  OBVIOUS
<1>2. o \in Operations /\ o.pc = "send" /\ o.todo = todo
  BY <1>1, NoOpType DEF Operations
<1>3. "list" \in Slots /\ ops \in [Slots -> Operations]
  BY DEF Slots, LibraryType, OpsType
<1>4. Becomes("list", o)
  BY <1>1, <1>2, <1>3, OpBecomes DEF Start
<1>5. OpsType'
  BY <1>2, <1>4 DEF LibraryType, OpsType, Becomes
<1>6. FormType' /\ filter' \in BOOLEAN
  BY DEF LibraryType, FormType
<1>7. ListOp
  BY <1>2, <1>4 DEF ListOp
<1> QED
  BY <1>5, <1>6, <1>7 DEF Clicked

LEMMA QuickStarts ==
  ASSUME LibraryType, NEW c \in Commands, Quick(c)
  PROVE  Clicked
<1>1. PICK todo : todo = <<c>>
  OBVIOUS
<1>2. todo \in Seq(Commands) /\ todo # <<>> /\ Len(todo) = 1
  BY <1>1
<1> QED
  BY <1>1, <1>2, ListStarts DEF Quick, ListTodo

LEMMA SubmitStarts ==
  ASSUME LibraryType, NEW todo \in Seq(Commands), todo # <<>>, NEW entered \in BOOLEAN,
         entered => Pledged(todo), Submit(todo, entered)
  PROVE  Clicked
<1>1. "form" \in Slots /\ ops \in [Slots -> Operations]
  BY DEF Slots, LibraryType, OpsType
<1>2. PICK o : o = [NoOp EXCEPT !.pc = "send", !.todo = todo, !.entered = entered]
  OBVIOUS
<1>3. o \in Operations /\ o.pc = "send" /\ o.todo = todo /\ o.entered = entered
  BY <1>2, NoOpType DEF Operations
<1>4. Becomes("form", o)
  BY <1>1, <1>2, <1>3, OpBecomes DEF Submit
<1>5. OpsType'
  BY <1>3, <1>4 DEF LibraryType, OpsType, Becomes
<1>6. FormType' /\ filter' \in BOOLEAN
  BY DEF LibraryType, FormType, Submit
<1>7. FormOp
  BY <1>3, <1>4 DEF FormOp, Submit
<1> QED
  BY <1>5, <1>6, <1>7 DEF Clicked

\* The commands of the menus and forms.
LEMMA StepTypes ==
  ASSUME NEW id \in Nat
  PROVE  /\ \A row \in HostRow : Step("host", id, row) \in Commands /\ Step("import", id, row) \in Commands
         /\ \A row \in GroupRow : Step("group", id, row) \in Commands
         /\ \A row \in KeyRow : Step("identity", id, row) \in Commands
         /\ \A fav \in BOOLEAN : Step("favorite", id, [fav |-> fav]) \in Commands
         /\ \A table \in Names : Step("delete", id, [table |-> table]) \in Commands
         /\ Step("key", id, NoRow) \in Commands /\ Step("vpn", id, NoRow) \in Commands
<1>1. \A row \in HostRow : Step("host", id, row) \in Commands /\ Step("import", id, row) \in Commands
  BY DEF Step, Commands
<1>2. \A row \in GroupRow : Step("group", id, row) \in Commands
  BY DEF Step, Commands
<1>3. \A row \in KeyRow : Step("identity", id, row) \in Commands
  BY DEF Step, Commands
<1>4. \A fav \in BOOLEAN : Step("favorite", id, [fav |-> fav]) \in Commands
  BY DEF Step, Commands
<1>5. \A table \in Names : Step("delete", id, [table |-> table]) \in Commands
  BY DEF Step, Commands
<1>6. Step("key", id, NoRow) \in Commands /\ Step("vpn", id, NoRow) \in Commands
  BY DEF Step, Commands
<1> QED
  BY <1>1, <1>2, <1>3, <1>4, <1>5, <1>6

\* What the lists show.
LEMMA StoreParts ==
  ASSUME LibraryType
  PROVE  /\ store.groups \in Tables(GroupRow) /\ DOMAIN store.groups \in SUBSET Nat
         /\ \A g \in DOMAIN store.groups : store.groups[g] \in GroupRow
         /\ DOMAIN Hosts \in SUBSET Nat /\ \A h \in DOMAIN Hosts : Hosts[h] \in HostRow
         /\ DOMAIN store.rest.identities \in SUBSET Nat
         /\ \A i \in DOMAIN store.rest.identities : store.rest.identities[i] \in Nat
         /\ store.rest.keys \in SUBSET Nat
         /\ db.vpns \in SUBSET Nat /\ db.next \in Nat
<1>1. /\ store.groups \in Tables(GroupRow) /\ Hosts \in Tables(HostRow)
      /\ store.rest.identities \in Tables(Nat) /\ store.rest.keys \in SUBSET Nat
  BY DEF LibraryType, StoreLists, RestLists, Hosts
<1>2. db.vpns \in SUBSET Nat /\ db.next \in Nat
  BY DEF LibraryType, InOrder, Database
<1>3. /\ DOMAIN store.groups \in SUBSET Nat
      /\ \A g \in DOMAIN store.groups : store.groups[g] \in GroupRow
  BY <1>1, TableParts
<1>4. DOMAIN Hosts \in SUBSET Nat /\ \A h \in DOMAIN Hosts : Hosts[h] \in HostRow
  BY <1>1, TableParts
<1>5. /\ DOMAIN store.rest.identities \in SUBSET Nat
      /\ \A i \in DOMAIN store.rest.identities : store.rest.identities[i] \in Nat
  BY <1>1, TableParts
<1> QED
  BY <1>1, <1>2, <1>3, <1>4, <1>5

LEMMA MenuClicked ==
  ASSUME LibraryType,
         \/ DeleteHost \/ DeleteGroup \/ DeleteIdentity \/ DeleteKey \/ DeleteProfile
         \/ \E h \in DOMAIN Hosts : Duplicate(h) \/ ToggleFavorite(h)
         \/ ImportCsv
  PROVE  Clicked
<1>1. ASSUME NEW id \in Nat, NEW table \in Names, DeleteRow(table, id) PROVE Clicked
  BY <1>1, StepTypes, QuickStarts DEF DeleteRow
<1>2. {"host", "group", "identity", "key", "vpn"} = Names
  BY DEF Names
<1>3. CASE DeleteHost \/ DeleteGroup \/ DeleteIdentity \/ DeleteKey \/ DeleteProfile
  BY <1>1, <1>2, <1>3, StoreParts DEF DeleteHost, DeleteGroup, DeleteIdentity, DeleteKey, DeleteProfile
<1>4. ASSUME NEW h \in DOMAIN Hosts, Duplicate(h) PROVE Clicked
  <2>1. Step("host", 0, Hosts[h]) \in Commands
    BY StoreParts, StepTypes
  <2> QED
    BY <1>4, <2>1, QuickStarts DEF Duplicate
<1>5. ASSUME NEW h \in DOMAIN Hosts, ToggleFavorite(h) PROVE Clicked
  <2>1. PICK fav \in BOOLEAN : fav = ~Hosts[h].fav
    OBVIOUS
  <2>2. h \in Nat
    BY StoreParts
  <2>3. Step("favorite", h, [fav |-> fav]) \in Commands
    BY <2>2, StepTypes
  <2> QED
    BY <1>5, <2>1, <2>3, QuickStarts DEF ToggleFavorite
<1>6. ASSUME NEW h \in {1, db.next}, NEW g \in {2, db.next}, Quick(Step("import", h, Host(g, 1, 0, TRUE)))
      PROVE  Clicked
  <2>1. h \in Nat /\ g \in Nat
    BY StoreParts
  <2>2. Host(g, 1, 0, TRUE) \in HostRow
    BY <2>1 DEF Host, HostRow
  <2>3. Step("import", h, Host(g, 1, 0, TRUE)) \in Commands
    BY <2>1, <2>2, StepTypes
  <2> QED
    BY <1>6, <2>3, QuickStarts
<1> QED
  BY <1>3, <1>4, <1>5, <1>6 DEF ImportCsv

\* A reorder writes every sibling.
LEMMA DropClicked ==
  ASSUME LibraryType, NEW g \in DOMAIN store.groups, NEW target \in DOMAIN store.groups,
         NEW after \in BOOLEAN, DropGroup(g, target, after)
  PROVE  Clicked
<1> DEFINE siblings == ChildGroups(store.groups, store.groups[g].parent)
<1>1. PICK n : n = Cardinality(siblings)
  OBVIOUS
<1>2. siblings \subseteq DOMAIN store.groups /\ g \in siblings
  BY DEF ChildGroups
<1>3. /\ IsFiniteSet(DOMAIN store.groups) /\ DOMAIN store.groups \in SUBSET Nat
      /\ \A i \in DOMAIN store.groups : store.groups[i] \in GroupRow
  <2>1. store.groups \in Tables(GroupRow)
    BY StoreParts
  <2> QED
    BY <2>1, TableParts
<1>4. n \in Nat /\ n # 0
  <2>1. IsFiniteSet(siblings)
    BY <1>2, <1>3, FS_Subset
  <2> QED
    BY <1>1, <1>2, <2>1, FS_CardinalityType, FS_EmptySet
<1>5. PICK order \in [1..n -> siblings] :
        Start("list", [i \in 1..n |-> Step("group", order[i], Group(store.groups[order[i]].parent, i - 1))])
  BY <1>1 DEF DropGroup
<1>6. PICK todo : todo = [i \in 1..n |-> Step("group", order[i], Group(store.groups[order[i]].parent, i - 1))]
  OBVIOUS
<1>7. ASSUME NEW i \in 1..n PROVE todo[i] \in Commands /\ todo[i].do = "group"
  <2>1. order[i] \in Nat /\ store.groups[order[i]] \in GroupRow
    BY <1>2, <1>3, <1>5
  <2>2. i - 1 \in Nat
    BY <1>4
  <2>3. Group(store.groups[order[i]].parent, i - 1) \in GroupRow
    BY <2>1, <2>2 DEF Group, GroupRow
  <2>4. Step("group", order[i], Group(store.groups[order[i]].parent, i - 1)) \in Commands
    BY <2>1, <2>3, StepTypes
  <2> QED
    BY <1>6, <2>4 DEF Step
<1>8. todo \in [1..n -> Commands]
  BY <1>6, <1>7
<1>9. todo \in Seq(Commands) /\ Len(todo) = n
  BY <1>4, <1>8
<1>10. todo # <<>>
  BY <1>4, <1>9
<1>11. ListTodo(todo)
  BY <1>7, <1>9 DEF ListTodo
<1>12. ops["list"].pc = "idle" /\ UNCHANGED <<form, filter>>
  BY DEF DropGroup
<1> HIDE DEF siblings
<1> QED
  BY <1>5, <1>6, <1>9, <1>10, <1>11, <1>12, ListStarts

\* A form is opened with a row of its kind.
LEMMA OpenClicked ==
  ASSUME LibraryType, OpenForm
  PROVE  Clicked
<1>1. FormType /\ OpsType /\ filter \in BOOLEAN
  BY DEF LibraryType
<1>2. ASSUME NEW kind, NEW id \in Nat, NEW row, Open(kind, id, row),
             /\ kind = "host" => row \in HostRow
             /\ kind = "group" => row \in GroupRow
             /\ kind = "identity" => row \in KeyRow
      PROVE  Clicked
  <2>1. form' = [kind |-> kind, id |-> id, row |-> IF form.kind = kind THEN form.row ELSE row]
    BY <1>2 DEF Open
  <2>2. FormType'
    BY <1>1, <1>2, <2>1 DEF FormType
  <2>3. ops' = ops /\ filter' = filter
    BY <1>2 DEF Open
  <2>4. OpsType'
    BY <1>1, <2>3 DEF OpsType
  <2> QED
    BY <1>1, <2>2, <2>3, <2>4 DEF Clicked
<1>3. CASE EditHost
  BY <1>2, <1>3, StoreParts DEF EditHost
<1>4. ASSUME NewHost PROVE Clicked
  <2>1. PICK g \in DOMAIN store.groups \cup {0} : Open("host", 0, Host(g, 0, 0, FALSE))
    BY <1>4 DEF NewHost
  <2>2. Host(g, 0, 0, FALSE) \in HostRow
    BY StoreParts DEF Host, HostRow
  <2> QED
    BY <1>2, <2>1, <2>2
<1>5. CASE EditGroup
  BY <1>2, <1>5, StoreParts DEF EditGroup
<1>6. ASSUME NewGroup PROVE Clicked
  <2>1. PICK p \in DOMAIN store.groups \cup {0} : Open("group", 0, Group(p, 0))
    BY <1>6 DEF NewGroup
  <2>2. Group(p, 0) \in GroupRow
    BY StoreParts DEF Group, GroupRow
  <2> QED
    BY <1>2, <2>1, <2>2
<1>7. ASSUME EditIdentity PROVE Clicked
  <2>1. PICK i \in DOMAIN store.rest.identities : Open("identity", i, [key |-> store.rest.identities[i]])
    BY <1>7 DEF EditIdentity
  <2>2. i \in Nat /\ [key |-> store.rest.identities[i]] \in KeyRow
    BY StoreParts DEF KeyRow
  <2> QED
    BY <1>2, <2>1, <2>2
<1>8. ASSUME Open("identity", 0, [key |-> 0]) PROVE Clicked
  <2>1. [key |-> 0] \in KeyRow
    BY DEF KeyRow
  <2> QED
    BY <1>2, <1>8, <2>1
<1>9. CASE Open("key", 0, NoRow)
  BY <1>2, <1>9
<1>10. CASE \E v \in db.vpns \cup {0} : Open("vpn", v, NoRow)
  BY <1>2, <1>10, StoreParts
<1> QED
  BY <1>3, <1>4, <1>5, <1>6, <1>7, <1>8, <1>9, <1>10 DEF OpenForm

\* What the credentials section sends makes an identity, if anything.
LEMMA IdentityStepsParts ==
  ASSUME NEW cred \in Credentials, NEW username \in BOOLEAN, NEW key \in Nat,
         NEW steps, steps = IdentitySteps(cred, username, key)
  PROVE  /\ steps \in Seq(Commands)
         /\ Entered(cred) /\ username => Pledged(steps)
<1>1. PICK zero : zero = [key |-> 0]
  OBVIOUS
<1>2. PICK chosen : chosen = [key |-> key]
  OBVIOUS
<1>3. zero \in KeyRow /\ chosen \in KeyRow
  BY <1>1, <1>2 DEF KeyRow
<1>4. PICK k : k = Step("key", 0, NoRow)
  OBVIOUS
<1>5. PICK i : i = Step("identity", 0, zero)
  OBVIOUS
<1>6. PICK j : j = Step("identity", 0, chosen)
  OBVIOUS
<1>7. k \in Commands /\ i \in Commands /\ j \in Commands
  BY <1>3, <1>4, <1>5, <1>6, StepTypes
<1>8. /\ k.do = "key" /\ i.do = "identity" /\ j.do = "identity"
      /\ i.id = 0 /\ j.id = 0
  BY <1>4, <1>5, <1>6 DEF Step
<1>9. CASE cred = "saved" \/ ~username
  <2>1. steps = <<>>
    BY <1>9 DEF IdentitySteps
  <2> QED
    BY <1>9, <2>1 DEF Entered
<1>10. CASE username /\ cred = "newKey"
  <2>1. steps = <<k, i>>
    BY <1>1, <1>4, <1>5, <1>10 DEF IdentitySteps
  <2>2. steps \in Seq(Commands) /\ Len(steps) = 2 /\ steps[1] = k /\ steps[2] = i
    BY <1>7, <2>1
  <2>3. \A n \in 1..2 : steps[n].do # "host"
    BY <1>8, <2>2
  <2>4. Pledged(steps)
    BY <1>8, <2>2, <2>3 DEF Pledged
  <2> QED
    BY <2>2, <2>4
<1>11. CASE username /\ cred = "savedKey"
  <2>1. steps = <<j>>
    BY <1>2, <1>6, <1>11 DEF IdentitySteps
  <2>2. steps \in Seq(Commands) /\ Len(steps) = 1 /\ steps[1] = j
    BY <1>7, <2>1
  <2>3. Pledged(steps)
    BY <1>8, <2>2 DEF Pledged
  <2> QED
    BY <2>2, <2>3
<1>12. CASE username /\ cred \in {"blank", "password"}
  <2>1. steps = <<i>>
    BY <1>1, <1>5, <1>12 DEF IdentitySteps
  <2>2. steps \in Seq(Commands) /\ Len(steps) = 1 /\ steps[1] = i
    BY <1>7, <2>1
  <2>3. Pledged(steps)
    BY <1>8, <2>2 DEF Pledged
  <2> QED
    BY <2>2, <2>3
<1> QED
  BY <1>9, <1>10, <1>11, <1>12 DEF Credentials

\* What is promised by the first commands is promised by all.
LEMMA PledgedFirst ==
  ASSUME NEW a \in Seq(Commands), NEW b \in Seq(Commands), Pledged(a)
  PROVE  Pledged(a \o b)
<1>1. PICK c : c = a \o b
  OBVIOUS
<1>2. Len(c) >= Len(a) /\ \A n \in 1..Len(a) : c[n] = a[n]
  BY <1>1
<1>3. PICK i \in 1..Len(a) : a[i].do = "identity" /\ a[i].id = 0 /\ \A j \in 1..i : a[j].do # "host"
  BY DEF Pledged
<1>4. i \in 1..Len(c) /\ c[i].do = "identity" /\ c[i].id = 0 /\ \A j \in 1..i : c[j].do # "host"
  BY <1>1, <1>2, <1>3
<1>5. Pledged(c)
  BY <1>4 DEF Pledged
<1> QED
  BY <1>1, <1>5

LEMMA HostSubmitted ==
  ASSUME LibraryType, NEW cred \in Credentials, NEW username \in BOOLEAN, SubmitHost(cred, username)
  PROVE  Clicked
<1>1. form.kind = "host" /\ form.row \in HostRow /\ form.id \in Nat
  BY DEF LibraryType, FormType, SubmitHost
<1>2. PICK row \in (IF cred = "saved" THEN Edited(form.row) ELSE {form.row}), upload \in BOOLEAN,
           i \in IdentityChoices(cred), key \in KeyChoices(cred) :
        Submit(IdentitySteps(cred, username, key) \o NewProfile(upload)
               \o <<Step("host", form.id, [row EXCEPT !.identity = i])>>, Entered(cred))
  BY DEF SubmitHost
<1>3. row \in HostRow
  <2>1. GroupChoices \subseteq Nat /\ VpnChoices \subseteq Nat
    BY <1>1, StoreParts DEF GroupChoices, VpnChoices, HostRow
  <2>2. ASSUME NEW w \in Edited(form.row) PROVE w \in HostRow
    <3>1. PICK old \in HostRow : old = form.row
      BY <1>1
    <3>2. w \in {[old EXCEPT !.group = g] : g \in GroupChoices} \cup {[old EXCEPT !.vpn = v] : v \in VpnChoices}
                \cup {[old EXCEPT !.tag = ~old.tag]}
      BY <2>2, <3>1 DEF Edited
    <3>3. CASE \E g \in Nat : w = [old EXCEPT !.group = g]
      BY <3>3 DEF HostRow
    <3>4. CASE \E v \in Nat : w = [old EXCEPT !.vpn = v]
      BY <3>4 DEF HostRow
    <3>5. CASE w = [old EXCEPT !.tag = ~old.tag]
      BY <3>5 DEF HostRow
    <3> QED
      BY <2>1, <3>2, <3>3, <3>4, <3>5
  <2> QED
    BY <1>1, <1>2, <2>2
<1>4. i \in Nat /\ key \in Nat
  <2>1. form.row.identity \in Nat
    BY <1>1 DEF HostRow
  <2>2. i \in Nat
    BY <1>2, <2>1, StoreParts DEF IdentityChoices
  <2>3. key \in Nat
    BY <1>2, StoreParts DEF KeyChoices
  <2> QED
    BY <2>2, <2>3
<1>5. PICK steps : steps = IdentitySteps(cred, username, key)
  OBVIOUS
<1>6. PICK profile : profile = NewProfile(upload)
  OBVIOUS
<1>7. PICK last : last = Step("host", form.id, [row EXCEPT !.identity = i])
  OBVIOUS
<1>8. steps \in Seq(Commands) /\ (Entered(cred) /\ username => Pledged(steps))
  BY <1>4, <1>5, IdentityStepsParts
<1>9. profile \in Seq(Commands)
  <2>1. Step("vpn", 0, NoRow) \in Commands
    BY StepTypes
  <2> QED
    BY <1>6, <2>1 DEF NewProfile
<1>10. last \in Commands
  <2>1. [row EXCEPT !.identity = i] \in HostRow
    BY <1>3, <1>4 DEF HostRow
  <2> QED
    BY <1>1, <1>7, <2>1, StepTypes
<1>11. PICK others : others = profile \o <<last>>
  OBVIOUS
<1>12. others \in Seq(Commands) /\ Len(others) > 0
  BY <1>9, <1>10, <1>11
<1>13. PICK todo : todo = steps \o others
  OBVIOUS
<1>14. todo \in Seq(Commands) /\ Len(todo) > 0
  BY <1>8, <1>12, <1>13
<1>15. todo = steps \o profile \o <<last>>
  BY <1>8, <1>9, <1>10, <1>11, <1>13
<1>16. todo # <<>>
  BY <1>14
<1>17. Entered(cred) => Pledged(todo)
  <2>1. Entered(cred) => username
    BY DEF SubmitHost, CredentialsComplete
  <2> QED
    BY <1>8, <1>12, <1>13, <2>1, PledgedFirst
<1>18. Entered(cred) \in BOOLEAN
  BY DEF Entered
<1>19. Submit(todo, Entered(cred))
  BY <1>2, <1>5, <1>6, <1>7, <1>15
<1> QED
  BY <1>14, <1>16, <1>17, <1>18, <1>19, SubmitStarts

\* The other forms send one command.
LEMMA FormSubmitted ==
  ASSUME LibraryType, SubmitGroup \/ SubmitIdentity \/ SubmitKey \/ SubmitProfile
  PROVE  Clicked
<1>1. form.id \in Nat
  BY DEF LibraryType, FormType
<1>2. ASSUME NEW c \in Commands, Submit(<<c>>, FALSE) PROVE Clicked
  <2>1. PICK todo : todo = <<c>>
    OBVIOUS
  <2>2. todo \in Seq(Commands) /\ todo # <<>>
    BY <2>1
  <2> QED
    BY <1>2, <2>1, <2>2, SubmitStarts
<1>3. ASSUME SubmitGroup PROVE Clicked
  <2>1. form.row \in GroupRow
    BY <1>3 DEF LibraryType, FormType, SubmitGroup
  <2>2. PICK p \in (DOMAIN store.groups \ {form.id}) \cup {0, form.row.parent} :
          Submit(<<Step("group", form.id, [form.row EXCEPT !.parent = p])>>, FALSE)
    BY <1>3 DEF SubmitGroup
  <2>3. [form.row EXCEPT !.parent = p] \in GroupRow
    BY <2>1, StoreParts DEF GroupRow
  <2>4. Step("group", form.id, [form.row EXCEPT !.parent = p]) \in Commands
    BY <1>1, <2>3, StepTypes
  <2> QED
    BY <1>2, <2>2, <2>4
<1>4. ASSUME SubmitIdentity PROVE Clicked
  <2>1. form.row \in KeyRow
    BY <1>4 DEF LibraryType, FormType, SubmitIdentity
  <2>2. PICK key \in store.rest.keys \cup {0, form.row.key} :
          Submit(<<Step("identity", form.id, [key |-> key])>>, FALSE)
    BY <1>4 DEF SubmitIdentity
  <2>3. [key |-> key] \in KeyRow
    BY <2>1, StoreParts DEF KeyRow
  <2>4. Step("identity", form.id, [key |-> key]) \in Commands
    BY <1>1, <2>3, StepTypes
  <2> QED
    BY <1>2, <2>2, <2>4
<1>5. Step("key", 0, NoRow) \in Commands /\ Step("vpn", form.id, NoRow) \in Commands
  BY <1>1, StepTypes
<1> QED
  BY <1>2, <1>3, <1>4, <1>5 DEF SubmitKey, SubmitProfile

LEMMA ClickParts ==
  ASSUME LibraryType, Click
  PROVE  /\ Clicked /\ clicks' \in 0..MaxClicks
         /\ UNCHANGED <<db, store, latest, missed>>
<1>1. UNCHANGED <<db, store, latest, missed>>
  BY DEF Click
<1>2. clicks' \in 0..MaxClicks
  BY LibraryAssumption DEF Click, LibraryType
<1>3. CASE ToggleFilter \/ CancelForm
  <2>1. ops' = ops /\ filter' \in BOOLEAN /\ (form' = form \/ form' = NoForm)
    BY <1>3 DEF ToggleFilter, CancelForm, LibraryType
  <2>2. OpsType'
    BY <2>1 DEF LibraryType, OpsType
  <2>3. FormType'
    BY <2>1 DEF LibraryType, FormType, NoForm
  <2>4. Clicked
    BY <2>1, <2>2, <2>3 DEF Clicked
  <2> QED
    BY <1>1, <1>2, <2>4
<1> QED
  BY <1>1, <1>2, <1>3, MenuClicked, DropClicked, OpenClicked, HostSubmitted, FormSubmitted DEF Click

-----------------------------------------------------------------------------
(* Answers                                                                 *)

Executed(s) ==
    /\ Execute(db, Command(s), ops[s].made) # Error
    /\ db' = Execute(db, Command(s), ops[s].made)
Loading(s) ==
    /\ latest' = latest + 1
    /\ \E o \in Operations : /\ Becomes(s, o) /\ o.pc = "load" /\ o.todo = ops[s].todo /\ o.made = Made(s)
                             /\ o.entered = ops[s].entered /\ o.req = latest + 1
                             /\ o.groups = <<>> /\ o.rest = <<>>
Advanced(s) ==
    /\ latest' = latest /\ Len(ops[s].todo) # 1
    /\ \E o \in Operations : /\ Becomes(s, o) /\ o.pc = "send" /\ o.todo = Tail(ops[s].todo)
                             /\ o.made = Made(s) /\ o.entered = ops[s].entered
Ended(s) == latest' = latest /\ Becomes(s, NoOp)

\* What the answer to a command leaves behind: it was executed, or it failed.
Succeeds(s) ==
    /\ Executed(s) /\ missed' = missed
    /\ \/ Loading(s)
       \/ /\ Ended(s) /\ OfVpnStore(Command(s))
          /\ s = "list" => Command(s).do # "group"
       \/ Advanced(s) /\ (s = "list" \/ OfVpnStore(Command(s)))
Fails(s) ==
    /\ db' \in LeftBy(db, Command(s), ops[s].made)
    /\ missed' = IF Lists(db') = Lists(db) THEN missed ELSE latest
    /\ \/ Loading(s) /\ Command(s).do = "group"
       \/ Ended(s) /\ (s = "list" => Command(s).do # "group")
LEMMA SendParts ==
  ASSUME LibraryType, NEW s \in Slots, Send(s)
  PROVE  /\ LibraryType' /\ UNCHANGED store
         /\ Loading(s) \/ Ended(s) \/ Advanced(s)
         /\ Succeeds(s) \/ Fails(s)
<1>1. OpsType /\ FormType /\ InOrder(db) /\ latest \in Nat
  BY DEF LibraryType
<1>2. ops[s].pc = "send"
  BY DEF Send
<1>3. Command(s) \in Commands /\ ops[s] \in Operations /\ ops[s].made \in Makes
  BY <1>1, <1>2, TodoParts DEF Operations
<1>4. Made(s) \in Makes
  BY <1>1, <1>2, MadeType
<1>5. UNCHANGED <<store, filter, clicks>> /\ missed \in 0..latest
  BY DEF Send, LibraryType
<1>6. store' \in StoreLists /\ filter' \in BOOLEAN /\ clicks' \in 0..MaxClicks
  BY <1>5 DEF LibraryType
<1>7. ASSUME StartLoad(s), form' = form
      PROVE  Loading(s) /\ OpsType' /\ FormType' /\ latest' \in Nat /\ latest <= latest'
  <2>1. OpsType' /\ Loading(s)
    BY <1>1, <1>2, <1>7, LoadParts DEF Loading
  <2>2. FormType'
    BY <1>1, <1>7 DEF FormType
  <2>3. latest' \in Nat /\ latest <= latest'
    BY <1>1, <2>1 DEF Loading
  <2> QED
    BY <2>1, <2>2, <2>3
<1>8. ASSUME NEW ok \in BOOLEAN, EndOp(s, ok), latest' = latest
      PROVE  Ended(s) /\ OpsType' /\ FormType' /\ latest' \in Nat /\ latest <= latest'
  <2>1. Becomes(s, NoOp) /\ OpsType' /\ FormType'
    BY <1>1, <1>8, EndParts
  <2> QED
    BY <1>1, <1>8, <2>1 DEF Ended
<1>9. CASE /\ Executed(s) /\ missed' = missed
           /\ IF Reloads(s) THEN StartLoad(s) /\ UNCHANGED form ELSE NextCommand(s) /\ UNCHANGED latest
  <2>1. PICK d : d = Execute(db, Command(s), ops[s].made)
    OBVIOUS
  <2>2. d # Error /\ db' = d
    BY <1>9, <2>1 DEF Executed
  <2>3. InOrder(d)
    BY <1>1, <1>3, <2>1, <2>2, ExecuteKeeps
  <2>4. InOrder(db)'
    BY <2>2, <2>3
  <2>5. CASE Reloads(s)
    <3>1. Loading(s) /\ OpsType' /\ FormType' /\ latest' \in Nat /\ latest <= latest'
      BY <1>7, <1>9, <2>5
    <3>2. missed' \in 0..latest'
      BY <1>1, <1>5, <1>9, <3>1
    <3> QED
      BY <1>5, <1>6, <1>9, <2>4, <3>1, <3>2 DEF LibraryType, Succeeds
  <2>6. CASE ~Reloads(s) /\ Len(ops[s].todo) = 1
    <3>1. OfVpnStore(Command(s)) /\ Command(s).do # "group"
      BY <2>6 DEF Reloads, Slots, OfVpnStore
    <3>2. EndOp(s, TRUE) /\ latest' = latest
      BY <1>9, <2>6 DEF NextCommand
    <3>3. Ended(s) /\ OpsType' /\ FormType' /\ latest' \in Nat
      BY <1>8, <3>2
    <3>4. missed' \in 0..latest'
      BY <1>5, <1>9, <3>2
    <3> QED
      BY <1>5, <1>6, <1>9, <2>4, <3>1, <3>3, <3>4 DEF LibraryType, Succeeds
  <2>7. CASE ~Reloads(s) /\ Len(ops[s].todo) # 1
    <3>1. s = "list" \/ OfVpnStore(Command(s))
      BY <2>7 DEF Reloads, Slots
    <3>2. /\ ops' = [ops EXCEPT ![s] = [ops[s] EXCEPT !.pc = "send", !.todo = Tail(ops[s].todo), !.made = Made(s)]]
          /\ form' = form /\ latest' = latest
      BY <1>9, <2>7 DEF NextCommand
    <3>3. Advanced(s) /\ OpsType'
      <4>1. PICK o : o = [ops[s] EXCEPT !.pc = "send", !.todo = Tail(ops[s].todo), !.made = Made(s)]
        OBVIOUS
      <4>2. Tail(ops[s].todo) \in Seq(Commands)
        BY <1>1, <1>2, TodoParts
      <4>3. /\ o \in Operations /\ o.pc = "send" /\ o.todo = Tail(ops[s].todo)
            /\ o.made = Made(s) /\ o.entered = ops[s].entered
        BY <1>3, <1>4, <4>1, <4>2 DEF Operations
      <4>4. OpsType' /\ Becomes(s, o)
        BY <1>1, <1>2, <2>7, <3>2, <4>1, <4>3, NextParts
      <4> QED
        BY <2>7, <3>2, <4>3, <4>4 DEF Advanced
    <3>4. FormType' /\ latest' \in Nat
      BY <1>1, <3>2 DEF FormType
    <3>5. missed' \in 0..latest'
      BY <1>5, <1>9, <3>2
    <3> QED
      BY <1>5, <1>6, <1>9, <2>4, <3>1, <3>3, <3>4, <3>5 DEF LibraryType, Succeeds
  <2> QED
    BY <2>5, <2>6, <2>7
<1>10. CASE /\ db' \in LeftBy(db, Command(s), ops[s].made)
            /\ missed' = IF Lists(db') = Lists(db) THEN missed ELSE latest
            /\ IF s = "list" /\ Command(s).do = "group" THEN StartLoad(s) /\ UNCHANGED form
               ELSE EndOp(s, FALSE) /\ UNCHANGED latest
  <2>1. InOrder(db)'
    <3>1. PICK d \in LeftBy(db, Command(s), ops[s].made) : d = db'
      BY <1>10
    <3>2. InOrder(d)
      BY <1>1, <1>3, LeftKeeps
    <3> QED
      BY <3>1, <3>2
  <2>2. /\ (Loading(s) /\ Command(s).do = "group") \/ (Ended(s) /\ (s = "list" => Command(s).do # "group"))
        /\ OpsType' /\ FormType' /\ latest' \in Nat /\ latest <= latest'
    BY <1>7, <1>8, <1>10
  <2>3. missed' \in 0..latest'
    BY <1>1, <1>5, <1>10, <2>2
  <2> QED
    BY <1>5, <1>6, <1>10, <2>1, <2>2, <2>3 DEF LibraryType, Fails
<1>11. PICK d : d = Execute(db, Command(s), ops[s].made)
  OBVIOUS
<1>12. \/ /\ Executed(s) /\ missed' = missed
          /\ IF Reloads(s) THEN StartLoad(s) /\ UNCHANGED form ELSE NextCommand(s) /\ UNCHANGED latest
       \/ /\ db' \in LeftBy(db, Command(s), ops[s].made)
          /\ missed' = IF Lists(db') = Lists(db) THEN missed ELSE latest
          /\ IF s = "list" /\ Command(s).do = "group" THEN StartLoad(s) /\ UNCHANGED form
             ELSE EndOp(s, FALSE) /\ UNCHANGED latest
  BY <1>11 DEF Send, Executed
<1> QED
  BY <1>9, <1>10, <1>12

\* What a list of loadAll is answered with.
LEMMA ReadParts ==
  ASSUME LibraryType, NEW s \in Slots, ReadGroups(s) \/ ReadRest(s)
  PROVE  /\ LibraryType' /\ UNCHANGED <<db, store, latest, missed>>
         /\ \E o \in Operations :
              /\ Becomes(s, o) /\ o.pc = "load" /\ o.req = ops[s].req /\ o.todo = ops[s].todo
              /\ o.made = ops[s].made /\ o.entered = ops[s].entered
              /\ o.groups = ops[s].groups \/ o.groups = <<db.groups>>
              /\ o.rest = ops[s].rest \/ o.rest = <<Rest(db)>>
<1>1. OpsType /\ FormType /\ InOrder(db)
  BY DEF LibraryType
<1>2. ops[s].pc = "load" /\ ops[s].todo # <<>> /\ ops[s] \in Operations
  BY <1>1, TodoParts DEF ReadGroups, ReadRest
<1>3. UNCHANGED <<db, store, latest, form, filter, missed, clicks>>
  BY DEF ReadGroups, ReadRest
<1>4. PICK gs : gs = <<db.groups>>
  OBVIOUS
<1>5. PICK r : r = <<Rest(db)>>
  OBVIOUS
<1>6. gs \in Seq(Tables(GroupRow)) /\ r \in Seq(RestLists)
  <2>1. db.groups \in Tables(GroupRow) /\ Rest(db) \in RestLists
    BY <1>1 DEF InOrder, Database, Rest, RestLists
  <2> QED
    BY <1>4, <1>5, <2>1
<1>7. \E o \in Operations :
        /\ ops' = [ops EXCEPT ![s] = o] /\ o.pc = "load" /\ o.req = ops[s].req /\ o.todo = ops[s].todo
        /\ o.made = ops[s].made /\ o.entered = ops[s].entered
        /\ o.groups = ops[s].groups \/ o.groups = gs
        /\ o.rest = ops[s].rest \/ o.rest = r
  <2>1. CASE ReadGroups(s)
    <3>1. PICK o : o = [ops[s] EXCEPT !.groups = gs]
      OBVIOUS
    <3>2. ops' = [ops EXCEPT ![s] = o]
      BY <1>1, <1>4, <2>1, <3>1 DEF ReadGroups, OpsType
    <3>3. /\ o \in Operations /\ o.pc = ops[s].pc /\ o.req = ops[s].req /\ o.todo = ops[s].todo
          /\ o.made = ops[s].made /\ o.entered = ops[s].entered /\ o.groups = gs /\ o.rest = ops[s].rest
      BY <1>2, <1>6, <3>1 DEF Operations
    <3> QED
      BY <1>2, <3>2, <3>3
  <2>2. CASE ReadRest(s)
    <3>1. PICK o : o = [ops[s] EXCEPT !.rest = r]
      OBVIOUS
    <3>2. ops' = [ops EXCEPT ![s] = o]
      BY <1>1, <1>5, <2>2, <3>1 DEF ReadRest, OpsType
    <3>3. /\ o \in Operations /\ o.pc = ops[s].pc /\ o.req = ops[s].req /\ o.todo = ops[s].todo
          /\ o.made = ops[s].made /\ o.entered = ops[s].entered /\ o.groups = ops[s].groups /\ o.rest = r
      BY <1>2, <1>6, <3>1 DEF Operations
    <3> QED
      BY <1>2, <3>2, <3>3
  <2> QED
    BY <2>1, <2>2
<1>8. PICK o \in Operations :
        /\ ops' = [ops EXCEPT ![s] = o] /\ o.pc = "load" /\ o.req = ops[s].req /\ o.todo = ops[s].todo
        /\ o.made = ops[s].made /\ o.entered = ops[s].entered
        /\ o.groups = ops[s].groups \/ o.groups = gs
        /\ o.rest = ops[s].rest \/ o.rest = r
  BY <1>7
<1>9. Becomes(s, o)
  BY <1>1, <1>8, OpBecomes DEF OpsType
<1>10. OpsType'
  BY <1>1, <1>2, <1>8, <1>9 DEF OpsType, Becomes
<1>11. LibraryType'
  BY <1>3, <1>10 DEF LibraryType, FormType
<1> QED
  BY <1>3, <1>4, <1>5, <1>8, <1>9, <1>11

\* What the end of loadAll leaves behind, good or bad.
Counted(s) ==
    IF ops[s].req = latest
    THEN store' = [groups |-> Head(ops[s].groups), rest |-> Head(ops[s].rest)]
    ELSE UNCHANGED store
LEMMA LoadedParts ==
  ASSUME LibraryType, NEW s \in Slots, Loaded(s)
  PROVE  /\ LibraryType' /\ UNCHANGED <<db, latest, missed>> /\ Counted(s)
         /\ \/ Ended(s)
            \/ /\ s = "form" /\ Len(ops[s].todo) # 1
               /\ \E o \in Operations : /\ Becomes(s, o) /\ o.pc = "send" /\ o.todo = Tail(ops[s].todo)
                                        /\ o.made = ops[s].made /\ o.entered = ops[s].entered
<1>1. OpsType /\ FormType /\ InOrder(db) /\ latest \in Nat /\ store \in StoreLists
  BY DEF LibraryType
<1>2. ops[s].pc = "load" /\ ops[s].todo # <<>> /\ ops[s] \in Operations
  BY <1>1, TodoParts DEF Loaded
<1>3. UNCHANGED <<db, latest, missed, clicks>>
  BY DEF Loaded
<1>4. Head(ops[s].groups) \in Tables(GroupRow) /\ Head(ops[s].rest) \in RestLists
  <2>1. PICK gs \in Seq(Tables(GroupRow)) : gs = ops[s].groups
    BY <1>2 DEF Operations
  <2>2. PICK r \in Seq(RestLists) : r = ops[s].rest
    BY <1>2 DEF Operations
  <2>3. gs # <<>> /\ r # <<>>
    BY <2>1, <2>2 DEF Loaded
  <2>4. Head(gs) \in Tables(GroupRow) /\ Head(r) \in RestLists
    BY <2>3
  <2> QED
    BY <2>1, <2>2, <2>4
<1>5. Counted(s)
  BY DEF Loaded, LatestCounts, Counted
<1>6. store' \in StoreLists
  BY <1>1, <1>4, <1>5 DEF Counted, StoreLists
<1>7. filter' \in BOOLEAN /\ missed' \in 0..latest'
  BY <1>3 DEF Loaded, FilterUsed, UsedTag, LibraryType
<1>8. CASE Len(ops[s].todo) = 1 \/ s = "list"
  <2>1. EndOp(s, TRUE)
    BY <1>8 DEF Loaded
  <2>2. Becomes(s, NoOp) /\ OpsType' /\ FormType'
    BY <1>1, <2>1, EndParts
  <2>3. LibraryType'
    BY <1>3, <1>6, <1>7, <2>2 DEF LibraryType
  <2> QED
    BY <1>3, <1>5, <2>2, <2>3 DEF Ended
<1>9. CASE Len(ops[s].todo) # 1 /\ s = "form"
  <2>1. /\ ops' = [ops EXCEPT ![s] = [ops[s] EXCEPT !.pc = "send", !.todo = Tail(ops[s].todo)]]
        /\ form' = form
    BY <1>9 DEF Loaded
  <2>2. PICK o : o = [ops[s] EXCEPT !.pc = "send", !.todo = Tail(ops[s].todo)]
    OBVIOUS
  <2>3. Tail(ops[s].todo) \in Seq(Commands)
    BY <1>1, <1>2, TodoParts
  <2>4. /\ o \in Operations /\ o.pc = "send" /\ o.todo = Tail(ops[s].todo)
        /\ o.made = ops[s].made /\ o.entered = ops[s].entered
    BY <1>2, <2>2, <2>3 DEF Operations
  <2>5. OpsType' /\ Becomes(s, o)
    BY <1>1, <1>2, <1>9, <2>1, <2>2, <2>4, NextParts
  <2>6. FormType'
    BY <1>1, <2>1 DEF FormType
  <2>7. LibraryType'
    BY <1>3, <1>6, <1>7, <2>5, <2>6 DEF LibraryType
  <2> QED
    BY <1>3, <1>5, <1>9, <2>4, <2>5, <2>7
<1> QED
  BY <1>8, <1>9 DEF Slots

LEMMA FailsParts ==
  ASSUME LibraryType, NEW s \in Slots, LoadFails(s)
  PROVE  /\ LibraryType' /\ UNCHANGED <<db, store>> /\ Ended(s)
         /\ missed' = IF ops[s].req = latest THEN latest ELSE missed
<1>1. OpsType /\ FormType
  BY DEF LibraryType
<1>2. /\ EndOp(s, FALSE) /\ UNCHANGED <<db, store, latest, filter, clicks>>
      /\ missed' = IF ops[s].req = latest THEN latest ELSE missed
  BY DEF LoadFails
<1>3. Becomes(s, NoOp) /\ OpsType' /\ FormType'
  BY <1>1, <1>2, EndParts
<1>4. missed' \in 0..latest'
  BY <1>2 DEF LibraryType
<1>5. LibraryType'
  BY <1>2, <1>3, <1>4 DEF LibraryType
<1> QED
  BY <1>2, <1>3, <1>5 DEF Ended

-----------------------------------------------------------------------------
(* The types and the references                                            *)

LEMMA LibraryTypeInit == Init => LibraryType
<1> SUFFICES ASSUME Init PROVE LibraryType
  OBVIOUS
<1>1. PICK gs : gs = <<Group(0, 0), Group(1, 0)>>
  OBVIOUS
<1>2. PICK hs : hs = <<Host(2, 1, 1, TRUE), Host(0, 0, 0, FALSE)>>
  OBVIOUS
<1>3. PICK is : is = <<1>>
  OBVIOUS
<1>4. Group(0, 0) \in GroupRow /\ Group(1, 0) \in GroupRow
  BY DEF Group, GroupRow
<1>5. Host(2, 1, 1, TRUE) \in HostRow /\ Host(0, 0, 0, FALSE) \in HostRow
  BY DEF Host, HostRow
<1>6. gs \in [1..2 -> GroupRow] /\ hs \in [1..2 -> HostRow] /\ is \in [1..1 -> Nat]
  <2>1. gs \in [1..2 -> GroupRow]
    BY <1>1, <1>4
  <2>2. hs \in [1..2 -> HostRow]
    <3>1. PICK a, b : a = Host(2, 1, 1, TRUE) /\ b = Host(0, 0, 0, FALSE)
      OBVIOUS
    <3>2. hs = <<a, b>> /\ a \in HostRow /\ b \in HostRow
      BY <1>2, <1>5, <3>1
    <3> QED
      BY <3>2
  <2>3. is \in [1..1 -> Nat]
    BY <1>3
  <2> QED
    BY <2>1, <2>2, <2>3
<1>7. IsFiniteSet(1..2) /\ IsFiniteSet(1..1) /\ 1..2 \in SUBSET Nat /\ 1..1 \in SUBSET Nat
  <2>1. \A a, b \in Int : IsFiniteSet(a..b)
    BY FS_Interval
  <2>2. 1 \in Int /\ 2 \in Int
    OBVIOUS
  <2>3. IsFiniteSet(1..2) /\ IsFiniteSet(1..1)
    BY <2>1, <2>2
  <2>4. 1..2 \in SUBSET Nat /\ 1..1 \in SUBSET Nat
    OBVIOUS
  <2> QED
    BY <2>3, <2>4
<1>8. gs \in Tables(GroupRow) /\ hs \in Tables(HostRow) /\ is \in Tables(Nat)
  BY <1>6, <1>7, IsTable
<1>9. /\ db.groups = gs /\ db.hosts = hs /\ db.identities = is /\ db.keys = {1} /\ db.vpns = {1} /\ db.next = 3
      /\ db \in Database
  <2>1. PICK fk \in BOOLEAN :
          db = [fk |-> fk, groups |-> gs, hosts |-> hs, identities |-> is, keys |-> {1}, vpns |-> {1}, next |-> 3]
    BY <1>1, <1>2, <1>3 DEF Init
  <2>2. {1} \in SUBSET Nat /\ 3 \in Nat \ {0}
    OBVIOUS
  <2> QED
    BY <1>8, <2>1, <2>2 DEF Database
<1>10. References(db)
  <2>1. \A g \in DOMAIN db.groups : Exists(db.groups[g].parent, DOMAIN db.groups)
    BY <1>1, <1>6, <1>9 DEF Exists, Group
  <2>2. \A h \in DOMAIN db.hosts : RefsOK(db, db.hosts[h])
    BY <1>2, <1>6, <1>9 DEF RefsOK, Exists, Host
  <2>3. \A i \in DOMAIN db.identities : Exists(db.identities[i], db.keys)
    BY <1>3, <1>6, <1>9 DEF Exists
  <2> QED
    BY <2>1, <2>2, <2>3 DEF References
<1>11. InOrder(db)
  BY <1>9, <1>10 DEF InOrder, Numbered
<1>12. store \in StoreLists
  <2>1. store = [groups |-> db.groups, rest |-> Rest(db)]
    BY DEF Init, Lists
  <2>2. Rest(db) \in RestLists /\ db.groups \in Tables(GroupRow)
    BY <1>9 DEF Rest, RestLists, Database
  <2> QED
    BY <2>1, <2>2 DEF StoreLists
<1>13. OpsType
  <2>1. ops = [s \in Slots |-> NoOp]
    BY DEF Init
  <2> QED
    BY <2>1, NoOpType DEF OpsType
<1>14. FormType
  BY DEF Init, FormType, NoForm
<1>15. latest \in Nat /\ filter \in BOOLEAN /\ missed \in 0..latest /\ clicks \in 0..MaxClicks
  <2>1. latest = 1 /\ filter = FALSE /\ missed = 0 /\ clicks = 0
    BY DEF Init
  <2>2. filter \in BOOLEAN
    BY <2>1
  <2>3. latest \in Nat /\ missed \in 0..latest /\ clicks \in 0..MaxClicks
    BY <2>1, LibraryAssumption
  <2> QED
    BY <2>2, <2>3
<1> QED
  BY <1>11, <1>12, <1>13, <1>14, <1>15 DEF LibraryType

LEMMA LibraryTypeStep == LibraryType /\ [Next]_vars => LibraryType'
<1> SUFFICES ASSUME LibraryType, [Next]_vars PROVE LibraryType'
  OBVIOUS
<1>1. CASE Click
  BY <1>1, ClickParts DEF Clicked, LibraryType
<1>2. ASSUME NEW s \in Slots, Answer(s) PROVE LibraryType'
  BY <1>2, SendParts, ReadParts, LoadedParts, FailsParts DEF Answer
<1>3. CASE UNCHANGED vars
  BY <1>3 DEF vars, LibraryType, OpsType, FormType
<1> QED
  BY <1>1, <1>2, <1>3 DEF Next

THEOREM LibraryTypes == Spec => []LibraryType
<1> QED
  BY LibraryTypeInit, LibraryTypeStep, PTL DEF Spec

\* Every reference in the tables is to a row that is there, after any commands
\* in any order, also where one stops halfway: the foreign keys, what a delete
\* unsets, and the checks of the commands suffice, however old the row a form or
\* a file brings back.  To profiles so only where the table has that foreign key.
THEOREM ReferencesHold == Spec => []ReferencesKept
<1>1. LibraryType => ReferencesKept
  <2> SUFFICES ASSUME LibraryType PROVE ReferencesKept
    OBVIOUS
  <2>1. db \in Database /\ References(db)
    BY DEF LibraryType, InOrder
  <2>2. \A h \in DOMAIN db.hosts : db.hosts[h] \in HostRow
    <3>1. db.hosts \in Tables(HostRow)
      BY <2>1 DEF Database
    <3> QED
      BY <3>1, TableParts
  <2>3. TypeOK
    <3>1. \A h \in DOMAIN db.hosts : {db.hosts[h].fav, db.hosts[h].tag} \subseteq BOOLEAN
      BY <2>2 DEF HostRow
    <3>2. \A s \in Slots : ops[s].pc \in {"idle", "send", "load"}
      BY DEF LibraryType, OpsType, Operations
    <3> QED
      BY <3>1, <3>2 DEF LibraryType, TypeOK
  <2> QED
    BY <2>1, <2>3 DEF References, RefsOK, ReferencesKept
<1> QED
  BY <1>1, LibraryTypes, PTL

-----------------------------------------------------------------------------
(* What hostsStore shows                                                   *)

\* Lists that show the tables, but for profiles that are gone.
Shows(d, r) ==
    /\ r.identities = d.identities /\ r.keys = d.keys /\ DOMAIN r.hosts = DOMAIN d.hosts
    /\ \A h \in DOMAIN d.hosts : ShownAs(d, r.hosts[h], d.hosts[h])

LEMMA ShowsItself == \A d : Shows(d, Rest(d))
  BY DEF Shows, Rest, ShownAs

\* The commands of vpnStore, which hostsStore is not reloaded after.
LEMMA ShowsAfterVpn ==
  ASSUME NEW d, InOrder(d), NEW e, InOrder(e), e.next >= d.next, OnlyVpn(d, e),
         NEW r \in RestLists, Shows(d, r)
  PROVE  Shows(e, r)
<1>1. d.next \in Nat /\ e.next \in Nat /\ d.hosts \in Tables(HostRow) /\ r.hosts \in Tables(HostRow)
  BY DEF InOrder, Database, RestLists
<1>2. ASSUME NEW h \in DOMAIN d.hosts PROVE ShownAs(e, r.hosts[h], e.hosts[h])
  <2>1. PICK a : a = r.hosts[h]
    OBVIOUS
  <2>2. PICK b : b = d.hosts[h]
    OBVIOUS
  <2>3. PICK c : c = e.hosts[h]
    OBVIOUS
  <2>4. a.vpn \in Nat
    <3>1. h \in DOMAIN r.hosts
      BY DEF Shows
    <3>2. a \in HostRow
      BY <1>1, <2>1, <3>1, TableParts
    <3> QED
      BY <3>2 DEF HostRow
  <2>5. /\ [a EXCEPT !.vpn = 0] = [b EXCEPT !.vpn = 0]
        /\ a.vpn = b.vpn \/ (a.vpn \notin d.vpns /\ a.vpn < d.next)
    BY <2>1, <2>2 DEF Shows, ShownAs
  <2>6. /\ [b EXCEPT !.vpn = 0] = [c EXCEPT !.vpn = 0]
        /\ b.vpn = c.vpn \/ (b.vpn \notin e.vpns /\ b.vpn < e.next)
        /\ e.vpns \subseteq d.vpns \cup {d.next}
    BY <2>2, <2>3 DEF OnlyVpn, ShownAs
  <2>7. a.vpn = c.vpn \/ (a.vpn \notin e.vpns /\ a.vpn < e.next)
    <3>1. CASE a.vpn = b.vpn
      BY <2>6, <3>1
    <3>2. CASE a.vpn \notin d.vpns /\ a.vpn < d.next
      BY <1>1, <2>4, <2>6, <3>2
    <3> QED
      BY <2>5, <3>1, <3>2
  <2>8. [a EXCEPT !.vpn = 0] = [c EXCEPT !.vpn = 0]
    BY <2>5, <2>6
  <2> QED
    BY <2>1, <2>3, <2>7, <2>8 DEF ShownAs
<1> QED
  BY <1>2 DEF Shows, OnlyVpn

\* A group is written, or nothing.
LEMMA ShowsAfterGroup ==
  ASSUME NEW d, InOrder(d), NEW e, InOrder(e), e.next >= d.next, Rest(e) = Rest(d), e.vpns = d.vpns,
         NEW r \in RestLists, Shows(d, r)
  PROVE  Shows(e, r)
<1>1. e.hosts = d.hosts /\ e.identities = d.identities /\ e.keys = d.keys
  BY DEF Rest
<1>2. d.next \in Nat /\ e.next \in Nat /\ r.hosts \in Tables(HostRow)
  BY DEF InOrder, Database, RestLists
<1>3. \A h \in DOMAIN d.hosts : r.hosts[h].vpn \in Nat
  <2>1. \A h \in DOMAIN r.hosts : r.hosts[h] \in HostRow
    BY <1>2, TableParts
  <2> QED
    BY <2>1 DEF Shows, HostRow
<1> QED
  BY <1>1, <1>2, <1>3 DEF Shows, ShownAs

\* While a reorder is under way nothing need show its groups; its end reloads.
Reordering == ops["list"].pc = "send" /\ Command("list").do = "group"
Latest(s) == ops[s].pc = "load" /\ ops[s].req = latest

\* An operation of a list is one command or a reorder; what the latest loadAll
\* has read is still so; and when it is over it is what hostsStore shows, if it
\* is enough.
ListInv == ops["list"].pc = "send" => ListTodo(ops["list"].todo)
LoadInv == \A s \in Slots : ops[s].pc = "load" => ops[s].req <= latest
ReadInv ==
    \A s \in Slots :
        Latest(s) /\ missed < latest =>
                     /\ ops[s].groups # <<>> => Reordering \/ Head(ops[s].groups) = db.groups
                     /\ ops[s].rest # <<>> => Shows(db, Head(ops[s].rest))
ShownInv ==
    missed < latest /\ (\A s \in Slots : ~Latest(s)) =>
        /\ Reordering \/ store.groups = db.groups
        /\ Shows(db, store.rest)
FreshInv == LibraryType /\ ListInv /\ LoadInv /\ ReadInv /\ ShownInv

LEMMA FreshInit == Init => FreshInv
<1> SUFFICES ASSUME Init PROVE FreshInv
  OBVIOUS
<1>1. LibraryType
  BY LibraryTypeInit
<1>2. \A s \in Slots : ops[s].pc = "idle"
  BY NoOpType DEF Init
<1>3. ListInv /\ LoadInv /\ ReadInv
  BY <1>2 DEF ListInv, LoadInv, ReadInv, Latest, Slots
<1>4. store.groups = db.groups /\ store.rest = Rest(db)
  BY DEF Init, Lists
<1>5. Shows(db, store.rest)
  BY <1>4, ShowsItself
<1> QED
  BY <1>1, <1>3, <1>4, <1>5 DEF FreshInv, ShownInv

\* A step of one operation that starts no loadAll.
LEMMA ListsFrame ==
  ASSUME FreshInv, NEW s \in Slots, NEW o \in Operations, Becomes(s, o), latest' = latest,
         o.pc = "load" => ops[s].pc = "load" /\ o.req = ops[s].req,
         s = "list" /\ o.pc = "send" => ListTodo(o.todo)
  PROVE  ListInv' /\ LoadInv'
<1>1. ops'[s] = o /\ \A r \in Slots \ {s} : ops'[r] = ops[r]
  BY DEF Becomes
<1>2. ListInv'
  BY <1>1 DEF FreshInv, ListInv, Slots
<1>3. LoadInv'
  BY <1>1 DEF FreshInv, LoadInv
<1> QED
  BY <1>2, <1>3

\* One that loses no group the others have read.
LEMMA FreshFrame ==
  ASSUME FreshInv, LibraryType', NEW s \in Slots, NEW o \in Operations, Becomes(s, o), latest' = latest,
         missed' < latest => missed < latest,
         \A r \in RestLists : Shows(db, r) => Shows(db', r),
         Reordering => Reordering', Reordering' \/ db'.groups = db.groups,
         o.pc = "load" => /\ ops[s].pc = "load" /\ o.req = ops[s].req /\ db' = db
                          /\ o.groups = ops[s].groups \/ o.groups = <<db.groups>>
                          /\ o.rest = ops[s].rest \/ o.rest = <<Rest(db)>>,
         s = "list" /\ o.pc = "send" => ListTodo(o.todo)
  PROVE  /\ ListInv' /\ LoadInv' /\ ReadInv'
         /\ store' = store /\ (Latest(s) => o.pc = "load") => ShownInv'
<1>1. /\ ops' \in [Slots -> Operations] /\ ops'[s] = o /\ \A r \in Slots \ {s} : ops'[r] = ops[r]
      /\ ops \in [Slots -> Operations] /\ latest \in Nat /\ InOrder(db) /\ store \in StoreLists
  BY DEF Becomes, FreshInv, LibraryType, OpsType
<1>2. ListInv' /\ LoadInv'
  BY ListsFrame
<1>4. \A r \in Slots \ {s} : Latest(r)' <=> Latest(r)
  BY <1>1 DEF Latest
<1>5. ASSUME Latest(s)' PROVE Latest(s) /\ o.pc = "load"
  BY <1>1, <1>5 DEF Latest
<1>6. ASSUME NEW r \in Slots, Latest(r)', missed' < latest', ops'[r].groups # <<>>
      PROVE  Reordering' \/ Head(ops'[r].groups) = db'.groups
  <2>1. Latest(r)
    BY <1>4, <1>5, <1>6
  <2>2. CASE ops'[r].groups = ops[r].groups
    <3>1. Reordering \/ Head(ops[r].groups) = db.groups
      BY <1>6, <2>1, <2>2 DEF FreshInv, ReadInv
    <3> QED
      BY <2>2, <3>1
  <2>3. CASE r = s /\ o.groups = <<db.groups>>
    <3>1. Head(o.groups) = db.groups
      BY <2>3
    <3> QED
      BY <1>1, <2>3, <3>1
  <2> QED
    BY <1>1, <1>5, <1>6, <2>2, <2>3
<1>7. ASSUME NEW r \in Slots, Latest(r)', missed' < latest', ops'[r].rest # <<>>
      PROVE  Shows(db', Head(ops'[r].rest))
  <2>1. Latest(r)
    BY <1>4, <1>5, <1>7
  <2>2. CASE ops'[r].rest = ops[r].rest
    <3>1. Shows(db, Head(ops[r].rest))
      BY <1>7, <2>1, <2>2 DEF FreshInv, ReadInv
    <3>2. PICK read \in Seq(RestLists) : read = ops[r].rest /\ read # <<>>
      BY <1>1, <1>7, <2>2 DEF Operations
    <3>3. Head(read) \in RestLists
      BY <3>2
    <3> QED
      BY <2>2, <3>1, <3>2, <3>3
  <2>3. CASE r = s /\ o.rest = <<Rest(db)>>
    <3>1. Head(o.rest) = Rest(db) /\ db' = db
      BY <1>5, <1>7, <2>3
    <3>2. Shows(db, Rest(db))
      BY <1>1, ShowsItself
    <3> QED
      BY <1>1, <2>3, <3>1, <3>2
  <2> QED
    BY <1>1, <1>5, <1>7, <2>2, <2>3
<1>8. ReadInv'
  BY <1>6, <1>7 DEF ReadInv
<1>9. ASSUME store' = store, Latest(s) => o.pc = "load" PROVE ShownInv'
  <2> SUFFICES ASSUME missed' < latest', \A r \in Slots : ~Latest(r)'
               PROVE  (Reordering' \/ store'.groups = db'.groups) /\ Shows(db', store'.rest)
    BY <1>9 DEF ShownInv
  <2>1. Latest(s) => Latest(s)'
    BY <1>1, <1>9 DEF Latest
  <2>2. \A r \in Slots : ~Latest(r)
    BY <1>4, <2>1
  <2>3. (Reordering \/ store.groups = db.groups) /\ Shows(db, store.rest)
    BY <2>2 DEF FreshInv, ShownInv
  <2>4. store.rest \in RestLists
    BY <1>1 DEF StoreLists
  <2> QED
    BY <1>9, <2>3, <2>4
<1> QED
  BY <1>2, <1>8, <1>9

\* Whether a reorder is under way is up to the operation of the lists.
LEMMA ReorderingKept ==
  ASSUME NEW o, Becomes("form", o)
  PROVE  Reordering' <=> Reordering
  BY DEF Becomes, Reordering, Command, Slots
LEMMA ReorderingIdle ==
  ASSUME NEW s \in Slots, NEW o, Becomes(s, o), s = "list" => ops[s].pc # "send" /\ o.pc # "send"
  PROVE  Reordering' <=> Reordering
<1>1. CASE s = "form"
  BY <1>1, ReorderingKept
<1>2. CASE s = "list"
  BY <1>2 DEF Becomes, Reordering
<1> QED
  BY <1>1, <1>2 DEF Slots

LEMMA FreshClick ==
  ASSUME FreshInv, Click
  PROVE  FreshInv'
<1>1. LibraryType
  BY DEF FreshInv
<1>2. LibraryType'
  BY <1>1, LibraryTypeStep DEF Next
<1>3. Clicked /\ UNCHANGED <<db, store, latest, missed>>
  BY <1>1, ClickParts
<1>4. CASE ops' = ops
  <2>1. ListInv' /\ LoadInv' /\ ReadInv' /\ ShownInv'
    BY <1>3, <1>4 DEF FreshInv, ListInv, LoadInv, ReadInv, ShownInv, Latest, Reordering, Command
  <2> QED
    BY <1>2, <2>1 DEF FreshInv
<1>5. ASSUME NEW s \in Slots, NEW o \in Operations, ops[s].pc = "idle", Becomes(s, o), o.pc = "send",
             s = "list" => ListTodo(o.todo)
      PROVE  FreshInv'
  <2>1. Reordering => Reordering'
    BY <1>5, ReorderingKept DEF Reordering, Slots
  <2>2. ~Latest(s)
    BY <1>5 DEF Latest
  <2>3. ListInv' /\ LoadInv' /\ ReadInv' /\ ShownInv'
    BY <1>2, <1>3, <1>5, <2>1, <2>2, FreshFrame
  <2> QED
    BY <1>2, <2>3 DEF FreshInv
<1>6. CASE ListOp
  BY <1>5, <1>6 DEF ListOp, Slots
<1>7. CASE FormOp
  BY <1>5, <1>7 DEF FormOp, Slots
<1> QED
  BY <1>3, <1>4, <1>6, <1>7 DEF Clicked

LEMMA FreshSend ==
  ASSUME FreshInv, NEW s \in Slots, Send(s)
  PROVE  FreshInv'
<1>1. LibraryType /\ InOrder(db) /\ OpsType /\ latest \in Nat
  BY DEF FreshInv, LibraryType
<1>2. /\ LibraryType' /\ UNCHANGED store
      /\ Loading(s) \/ Ended(s) \/ Advanced(s)
      /\ Succeeds(s) \/ Fails(s)
  BY <1>1, SendParts
<1>3. ops[s].pc = "send" /\ ~Latest(s)
  BY DEF Send, Latest
<1>4. Command(s) \in Commands /\ ops[s] \in Operations /\ ops[s].made \in Makes
  BY <1>1, <1>3, TodoParts DEF Operations
<1>5. ASSUME Executed(s)
      PROVE  /\ InOrder(db') /\ db'.next >= db.next
             /\ Command(s).do = "group" => Rest(db') = Rest(db) /\ db'.vpns = db.vpns
             /\ OfVpnStore(Command(s)) => OnlyVpn(db, db')
  <2>1. PICK d : d = Execute(db, Command(s), ops[s].made)
    OBVIOUS
  <2>2. d # Error /\ db' = d
    BY <1>5, <2>1 DEF Executed
  <2> QED
    BY <1>1, <1>4, <2>1, <2>2, ExecuteKeeps
<1>6. ASSUME Executed(s), OfVpnStore(Command(s))
      PROVE  db'.groups = db.groups /\ \A r \in RestLists : Shows(db, r) => Shows(db', r)
  <2>1. PICK e : e = db'
    OBVIOUS
  <2>2. InOrder(e) /\ e.next >= db.next /\ OnlyVpn(db, e)
    BY <1>5, <1>6, <2>1
  <2>3. \A r \in RestLists : Shows(db, r) => Shows(e, r)
    BY <1>1, <2>2, ShowsAfterVpn
  <2> QED
    BY <2>1, <2>2, <2>3 DEF OnlyVpn
<1>7. CASE Loading(s)
  <2>1. PICK o \in Operations : /\ Becomes(s, o) /\ o.pc = "load" /\ o.req = latest + 1
                                /\ o.groups = <<>> /\ o.rest = <<>>
    BY <1>7 DEF Loading
  <2>2. latest' = latest + 1 /\ ops'[s] = o /\ \A r \in Slots \ {s} : ops'[r] = ops[r]
    BY <1>7, <2>1 DEF Loading, Becomes
  <2>3. ASSUME NEW r \in Slots, ops'[r].pc = "load", r # s PROVE ops'[r].req \in Nat /\ ops'[r].req <= latest
    <3>1. ops[r].req \in Nat
      BY <1>1 DEF OpsType, Operations
    <3> QED
      BY <2>2, <2>3, <3>1 DEF FreshInv, LoadInv
  <2>4. ASSUME NEW r \in Slots, Latest(r)' PROVE r = s
    BY <1>1, <2>2, <2>3, <2>4 DEF Latest
  <2>5. Latest(s)'
    BY <2>1, <2>2 DEF Latest
  <2>6. ReadInv' /\ ShownInv'
    BY <2>1, <2>2, <2>4, <2>5 DEF ReadInv, ShownInv
  <2>7. LoadInv'
    <3>1. ASSUME NEW r \in Slots, ops'[r].pc = "load" PROVE ops'[r].req <= latest'
      BY <1>1, <2>1, <2>2, <2>3, <3>1
    <3> QED
      BY <3>1 DEF LoadInv
  <2>8. ListInv'
    BY <2>1, <2>2 DEF FreshInv, ListInv, Slots
  <2> QED
    BY <1>2, <2>6, <2>7, <2>8 DEF FreshInv
<1>8. ASSUME Ended(s), s = "list" => Command(s).do # "group"
      PROVE  /\ NoOp \in Operations /\ NoOp.pc = "idle" /\ Becomes(s, NoOp) /\ latest' = latest
             /\ Reordering => Reordering'
  <2>1. NoOp \in Operations /\ NoOp.pc = "idle" /\ Becomes(s, NoOp) /\ latest' = latest
    BY <1>8, NoOpType DEF Ended
  <2>2. Reordering => Reordering'
    BY <1>8, <2>1, ReorderingKept DEF Reordering, Slots
  <2> QED
    BY <2>1, <2>2
<1>9. CASE Succeeds(s) /\ Ended(s) /\ OfVpnStore(Command(s)) /\ (s = "list" => Command(s).do # "group")
  <2>1. Executed(s) /\ missed' = missed
    BY <1>9 DEF Succeeds
  <2>2. db'.groups = db.groups /\ \A r \in RestLists : Shows(db, r) => Shows(db', r)
    BY <1>6, <1>9, <2>1
  <2>3. /\ NoOp \in Operations /\ NoOp.pc = "idle" /\ Becomes(s, NoOp) /\ latest' = latest
        /\ Reordering => Reordering'
    BY <1>8, <1>9
  <2>4. ListInv' /\ LoadInv' /\ ReadInv' /\ ShownInv'
    BY <1>2, <1>3, <2>1, <2>2, <2>3, FreshFrame
  <2> QED
    BY <1>2, <2>4 DEF FreshInv
<1>10. CASE Fails(s) /\ Ended(s) /\ (s = "list" => Command(s).do # "group")
  <2>1. /\ NoOp \in Operations /\ NoOp.pc = "idle" /\ Becomes(s, NoOp) /\ latest' = latest
        /\ Reordering => Reordering'
    BY <1>8, <1>10
  <2>2. PICK e \in LeftBy(db, Command(s), ops[s].made) : e = db'
    BY <1>10 DEF Fails
  <2>3. InOrder(e) /\ e.next >= db.next /\ e.vpns = db.vpns
    BY <1>1, <1>4, LeftKeeps
  <2>4. CASE Lists(e) = Lists(db)
    <3>1. e.groups = db.groups /\ Rest(e) = Rest(db)
      BY <2>4 DEF Lists
    <3>2. \A r \in RestLists : Shows(db, r) => Shows(e, r)
      BY <1>1, <2>3, <3>1, ShowsAfterGroup
    <3>3. missed' = missed
      BY <1>10, <2>2, <2>4 DEF Fails
    <3>4. ListInv' /\ LoadInv' /\ ReadInv' /\ ShownInv'
      BY <1>2, <1>3, <2>1, <2>2, <3>1, <3>2, <3>3, FreshFrame
    <3> QED
      BY <1>2, <3>4 DEF FreshInv
  <2>5. CASE Lists(e) # Lists(db)
    <3>1. ~(missed' < latest')
      BY <1>1, <1>10, <2>1, <2>2, <2>5 DEF Fails
    <3>2. ReadInv' /\ ShownInv'
      BY <3>1 DEF ReadInv, ShownInv
    <3>3. ListInv' /\ LoadInv'
      BY <2>1, ListsFrame
    <3> QED
      BY <1>2, <3>2, <3>3 DEF FreshInv
  <2> QED
    BY <2>4, <2>5
<1>11. CASE Advanced(s) /\ Executed(s) /\ missed' = missed /\ s = "form" /\ OfVpnStore(Command(s))
  <2>1. PICK o \in Operations : Becomes(s, o) /\ o.pc = "send"
    BY <1>11 DEF Advanced
  <2>2. Reordering => Reordering'
    BY <1>11, <2>1, ReorderingKept
  <2>3. db'.groups = db.groups /\ \A r \in RestLists : Shows(db, r) => Shows(db', r)
    BY <1>6, <1>11
  <2>4. latest' = latest
    BY <1>11 DEF Advanced
  <2>5. ListInv' /\ LoadInv' /\ ReadInv' /\ ShownInv'
    BY <1>2, <1>3, <1>11, <2>1, <2>2, <2>3, <2>4, FreshFrame
  <2> QED
    BY <1>2, <2>5 DEF FreshInv
<1>12. CASE Advanced(s) /\ Executed(s) /\ missed' = missed /\ s = "list"
  <2>1. PICK o \in Operations : Becomes(s, o) /\ o.pc = "send" /\ o.todo = Tail(ops[s].todo)
    BY <1>12 DEF Advanced
  <2>2. /\ ops[s].todo \in Seq(Commands) /\ Len(ops[s].todo) \in Nat /\ Len(ops[s].todo) > 1
        /\ Command(s) = ops[s].todo[1] /\ Len(o.todo) = Len(ops[s].todo) - 1 /\ o.todo \in Seq(Commands)
        /\ \A i \in 1..(Len(ops[s].todo) - 1) : o.todo[i] = ops[s].todo[i + 1]
    BY <1>1, <1>3, <1>12, <2>1, TodoParts DEF Advanced
  <2>3. \A i \in 1..Len(ops[s].todo) : ops[s].todo[i].do = "group"
    BY <1>3, <1>12, <2>2 DEF FreshInv, ListInv, ListTodo
  <2>4. Command(s).do = "group"
    BY <2>2, <2>3
  <2>5. \A i \in 1..Len(o.todo) : o.todo[i].do = "group"
    BY <2>2, <2>3
  <2>6. Reordering'
    <3>1. Len(o.todo) > 0
      BY <2>2
    <3>2. Head(o.todo) = o.todo[1] /\ o.todo[1].do = "group"
      BY <2>2, <2>5, <3>1
    <3> QED
      BY <1>12, <2>1, <3>2 DEF Reordering, Command, Becomes
  <2>7. \A r \in RestLists : Shows(db, r) => Shows(db', r)
    <3>1. PICK e : e = db'
      OBVIOUS
    <3>2. InOrder(e) /\ e.next >= db.next /\ Rest(e) = Rest(db) /\ e.vpns = db.vpns
      BY <1>5, <1>12, <2>4, <3>1
    <3>3. \A r \in RestLists : Shows(db, r) => Shows(e, r)
      BY <1>1, <3>2, ShowsAfterGroup
    <3> QED
      BY <3>1, <3>3
  <2>8. ListTodo(o.todo) /\ latest' = latest
    BY <1>12, <2>5 DEF ListTodo, Advanced
  <2>9. ListInv' /\ LoadInv' /\ ReadInv' /\ ShownInv'
    BY <1>2, <1>3, <1>12, <2>1, <2>6, <2>7, <2>8, FreshFrame
  <2> QED
    BY <1>2, <2>9 DEF FreshInv
<1> QED
  BY <1>2, <1>7, <1>11, <1>12, <1>9, <1>10 DEF Succeeds, Fails, Slots

LEMMA FreshLoad ==
  ASSUME FreshInv, NEW s \in Slots, ReadGroups(s) \/ ReadRest(s) \/ Loaded(s) \/ LoadFails(s)
  PROVE  FreshInv'
<1>1. LibraryType
  BY DEF FreshInv
<1>2. ops[s].pc = "load"
  BY DEF ReadGroups, ReadRest, Loaded, LoadFails
<1>3. CASE ReadGroups(s) \/ ReadRest(s)
  <2>1. LibraryType' /\ UNCHANGED <<db, store, latest, missed>>
    BY <1>1, <1>3, ReadParts
  <2>2. PICK o \in Operations :
          /\ Becomes(s, o) /\ o.pc = "load" /\ o.req = ops[s].req
          /\ o.groups = ops[s].groups \/ o.groups = <<db.groups>>
          /\ o.rest = ops[s].rest \/ o.rest = <<Rest(db)>>
    BY <1>1, <1>3, ReadParts
  <2>3. Reordering' <=> Reordering
    BY <1>2, <2>2, ReorderingIdle
  <2>4. ListInv' /\ LoadInv' /\ ReadInv' /\ ShownInv'
    BY <1>2, <2>1, <2>2, <2>3, FreshFrame
  <2> QED
    BY <2>1, <2>4 DEF FreshInv
<1>4. ASSUME NEW o \in Operations, Becomes(s, o), o.pc = "idle" \/ (s = "form" /\ o.pc = "send"),
             LibraryType', UNCHANGED <<db, latest>>, missed' < latest => missed < latest
      PROVE  /\ Reordering' <=> Reordering
             /\ ListInv' /\ LoadInv' /\ ReadInv'
             /\ store' = store /\ ~Latest(s) => ShownInv'
  <2>1. Reordering' <=> Reordering
    BY <1>2, <1>4, ReorderingIdle
  <2> QED
    BY <1>4, <2>1, FreshFrame
<1>5. CASE Loaded(s)
  <2>1. LibraryType' /\ UNCHANGED <<db, latest, missed>> /\ Counted(s)
    BY <1>1, <1>5, LoadedParts
  <2>2. PICK o \in Operations : Becomes(s, o) /\ (o.pc = "idle" \/ (s = "form" /\ o.pc = "send"))
    BY <1>1, <1>5, LoadedParts, NoOpType DEF Ended
  <2>3. /\ Reordering' <=> Reordering
        /\ ListInv' /\ LoadInv' /\ ReadInv'
        /\ store' = store /\ ~Latest(s) => ShownInv'
    BY <1>4, <2>1, <2>2
  <2>4. CASE ops[s].req = latest
    <3>1. Latest(s) /\ ops[s].groups # <<>> /\ ops[s].rest # <<>>
      BY <1>2, <1>5, <2>4 DEF Latest, Loaded
    <3>2. missed < latest => (Reordering \/ Head(ops[s].groups) = db.groups) /\ Shows(db, Head(ops[s].rest))
      BY <3>1 DEF FreshInv, ReadInv
    <3>3. store'.groups = Head(ops[s].groups) /\ store'.rest = Head(ops[s].rest)
      BY <2>1, <2>4 DEF Counted
    <3>4. ShownInv'
      BY <2>1, <2>3, <3>2, <3>3 DEF ShownInv
    <3> QED
      BY <2>1, <2>3, <3>4 DEF FreshInv
  <2>5. CASE ops[s].req # latest
    <3>1. ShownInv'
      BY <2>1, <2>3, <2>5 DEF Counted, Latest
    <3> QED
      BY <2>1, <2>3, <3>1 DEF FreshInv
  <2> QED
    BY <2>4, <2>5
<1>6. CASE LoadFails(s)
  <2>1. /\ LibraryType' /\ UNCHANGED <<db, store>> /\ Ended(s) /\ latest \in Nat
        /\ missed' = IF ops[s].req = latest THEN latest ELSE missed
    BY <1>1, <1>6, FailsParts DEF LibraryType
  <2>2. Becomes(s, NoOp) /\ latest' = latest
    BY <2>1 DEF Ended
  <2>3. /\ ListInv' /\ LoadInv' /\ ReadInv'
        /\ store' = store /\ ~Latest(s) => ShownInv'
    BY <1>4, <2>1, <2>2, NoOpType
  <2>4. ShownInv'
    <3>1. CASE ops[s].req = latest
      BY <2>1, <2>2, <3>1 DEF ShownInv
    <3>2. CASE ops[s].req # latest
      <4>1. ~Latest(s)
        BY <3>2 DEF Latest
      <4> QED
        BY <2>1, <2>3, <4>1
    <3> QED
      BY <3>1, <3>2
  <2> QED
    BY <2>1, <2>3, <2>4 DEF FreshInv
<1> QED
  BY <1>3, <1>5, <1>6

\* However the lists of overlapping loadAlls are read and answered, and
\* whatever other commands run, fail or stop halfway in between: once nothing is
\* under way, hostsStore shows the tables, unless the latest loadAll failed or
\* came before a command that stopped halfway.
THEOREM StoreIsFresh == Spec => []StoreFresh
<1>1. FreshInv /\ [Next]_vars => FreshInv'
  <2> SUFFICES ASSUME FreshInv, [Next]_vars PROVE FreshInv'
    OBVIOUS
  <2>1. ASSUME NEW s \in Slots, Answer(s) PROVE FreshInv'
    BY <2>1, FreshSend, FreshLoad DEF Answer
  <2>2. CASE UNCHANGED vars
    <3>1. LibraryType'
      BY LibraryTypeStep DEF FreshInv
    <3>2. ListInv' /\ LoadInv' /\ ReadInv' /\ ShownInv'
      BY <2>2 DEF vars, FreshInv, ListInv, LoadInv, ReadInv, ShownInv, Latest, Reordering, Command
    <3> QED
      BY <3>1, <3>2 DEF FreshInv
  <2> QED
    BY <2>1, <2>2, FreshClick DEF Next
<1>2. FreshInv => StoreFresh
  <2> SUFFICES ASSUME FreshInv, Idle, missed < latest PROVE StoreFresh
    BY DEF StoreFresh
  <2>1. ~Reordering /\ \A s \in Slots : ~Latest(s)
    BY DEF Idle, Reordering, Latest, Slots
  <2>2. store.groups = db.groups /\ Shows(db, store.rest)
    BY <2>1 DEF FreshInv, ShownInv
  <2> QED
    BY <2>2 DEF StoreFresh, Shows, ShownAs, SameHost, Hosts
<1> QED
  BY <1>1, <1>2, FreshInit, PTL DEF Spec

-----------------------------------------------------------------------------
(* What the sidebar and the grid draw                                      *)

MatchClosed(found, S) ==
    /\ {Hosts[h].group : h \in found} \cap Places \subseteq S
    /\ {store.groups[g].parent : g \in S \ {0}} \cap Places \subseteq S
DrawClosed(shown, S) ==
    /\ 0 \in S
    /\ \A g \in shown \ {0} : store.groups[g].parent \in S => g \in S

\* What is in a smallest set is in every closed one.
LEMMA MatchLeast ==
  ASSUME NEW found
  PROVE  GroupHasMatch(found) =
           {g \in Places : \A S \in SUBSET Places : MatchClosed(found, S) => g \in S}
  BY DEF GroupHasMatch, Least, MatchClosed

LEMMA DrawLeast ==
  ASSUME NEW found
  PROVE  /\ Drawn(FALSE, found) =
              {g \in Places : \A S \in SUBSET Places : DrawClosed(Places, S) => g \in S}
         /\ Drawn(TRUE, found) =
              {g \in Places : \A S \in SUBSET Places :
                                DrawClosed(GroupHasMatch(found), S) => g \in S}
  BY DEF Drawn, Least, DrawClosed

\* The groups with a match are themselves closed under parents.
LEMMA MatchesClosed ==
  ASSUME NEW found
  PROVE  MatchClosed(found, GroupHasMatch(found))
<1> DEFINE M == GroupHasMatch(found)
<1>1. ASSUME NEW h \in found, Hosts[h].group \in Places
      PROVE  Hosts[h].group \in M
  BY <1>1, MatchLeast DEF MatchClosed
<1>2. ASSUME NEW g \in M \ {0}, store.groups[g].parent \in Places
      PROVE  store.groups[g].parent \in M
  <2> SUFFICES ASSUME NEW S \in SUBSET Places, MatchClosed(found, S)
               PROVE  store.groups[g].parent \in S
    BY <1>2, MatchLeast
  <2>1. g \in S
    BY <1>2, MatchLeast
  <2> QED
    BY <1>2, <2>1 DEF MatchClosed
<1> QED
  BY <1>1, <1>2 DEF MatchClosed

\* A group at the root is drawn.
LEMMA RootsDrawn ==
  ASSUME NEW g \in DOMAIN store.groups, store.groups[g].parent = 0
  PROVE  g \in Drawn(FALSE, {})
<1>1. g \in Places
  BY DEF Places
<1>2. ASSUME NEW S \in SUBSET Places, DrawClosed(Places, S) PROVE g \in S
  BY <1>1, <1>2 DEF DrawClosed
<1> QED
  BY <1>1, <1>2, DrawLeast

\* A filter that finds a host hides no group on the way to it: the groups it
\* hides, added to what it draws, are not left by the tree without a filter.
LEMMA FilterShows ==
  ASSUME NEW found, NEW h \in found, Hosts[h].group \in Drawn(FALSE, {}),
         \A g \in DOMAIN store.groups : store.groups[g].parent \in Places
  PROVE  Hosts[h].group \in Drawn(TRUE, found)
<1> DEFINE M == GroupHasMatch(found)
<1>1. Hosts[h].group \in Places /\ M \subseteq Places
  BY DrawLeast, MatchLeast
<1>2. Hosts[h].group \in M
  BY <1>1, MatchesClosed DEF MatchClosed
<1> SUFFICES ASSUME NEW S \in SUBSET Places, DrawClosed(M, S)
             PROVE  Hosts[h].group \in S
  BY <1>1, DrawLeast
<1> DEFINE T == S \cup (Places \ M)
<1>3. DrawClosed(Places, T)
  <2>1. 0 \in T
    BY DEF DrawClosed
  <2>2. ASSUME NEW g \in Places \ {0}, store.groups[g].parent \in T, g \in M
        PROVE  g \in S
    <3>1. store.groups[g].parent \in Places
      BY <2>2 DEF Places
    <3>2. store.groups[g].parent \in M
      BY <2>2, <3>1, MatchesClosed DEF MatchClosed
    <3>3. store.groups[g].parent \in S
      BY <2>2, <3>2
    <3> QED
      BY <2>2, <3>3 DEF DrawClosed
  <2> QED
    BY <2>1, <2>2 DEF DrawClosed
<1>4. Hosts[h].group \in T
  BY <1>3, DrawLeast
<1> QED
  BY <1>2, <1>4

\* Every host of the tables is drawn in the grid and, unless the filter excludes
\* it, in the tree, but below a group that is its own ancestor: however groups
\* were deleted, moved and edited, nothing else hides a host.
THEOREM HostsShown == Spec => []AllShown
<1>1. LibraryType /\ ReferencesKept /\ StoreFresh => AllShown
  <2> SUFFICES ASSUME LibraryType, ReferencesKept, StoreFresh, Idle, missed < latest, NEW h \in DOMAIN db.hosts
               PROVE  /\ h \in DOMAIN Hosts
                      /\ Looped(Hosts[h].group) \/ (InGrid(h) /\ (HostMatches(h) => InTree(h)))
    BY DEF AllShown
  <2>1. h \in DOMAIN Hosts /\ store.groups = db.groups /\ SameHost(Hosts[h], db.hosts[h])
    BY DEF StoreFresh
  <2>2. Hosts[h].group \in Places
    <3>1. db.hosts \in Tables(HostRow)
      BY DEF LibraryType, InOrder, Database
    <3>2. db.hosts[h] \in HostRow /\ Hosts[h] \in HostRow
      BY <2>1, <3>1, StoreParts, TableParts
    <3>3. Hosts[h].group = [Hosts[h] EXCEPT !.vpn = 0].group
      BY <3>2 DEF HostRow
    <3>4. db.hosts[h].group = [db.hosts[h] EXCEPT !.vpn = 0].group
      BY <3>2 DEF HostRow
    <3> QED
      BY <2>1, <3>3, <3>4 DEF ReferencesKept, SameHost, Exists, Places
  <2>3. \A g \in DOMAIN store.groups : store.groups[g].parent \in Places
    BY <2>1 DEF ReferencesKept, Exists, Places
  <2>4. CASE Hosts[h].group \notin Drawn(FALSE, {})
    <3>1. 0 \in Drawn(FALSE, {})
      BY DrawLeast DEF DrawClosed, Places
    <3>2. Hosts[h].group \in DOMAIN store.groups \ Drawn(FALSE, {})
      BY <2>2, <2>4, <3>1 DEF Places
    <3>3. \A a \in DOMAIN store.groups \ Drawn(FALSE, {}) :
             store.groups[a].parent \in DOMAIN store.groups
      BY <2>3, RootsDrawn DEF Places
    <3> QED
      BY <2>1, <3>2, <3>3 DEF Looped
  <2>5. CASE Hosts[h].group \in Drawn(FALSE, {})
    <3>1. InGrid(h)
      BY <2>3, <2>5, FilterShows DEF InGrid
    <3>2. ASSUME HostMatches(h) PROVE InTree(h)
      <4> DEFINE found == {k \in DOMAIN Hosts : HostMatches(k)}
      <4>1. h \in found
        BY <2>1, <3>2
      <4> HIDE DEF found
      <4>2. Hosts[h].group \in Drawn(TRUE, found) /\ Hosts[h].group \in Drawn(FALSE, found)
        BY <2>3, <2>5, <4>1, FilterShows, DrawLeast
      <4>3. filter \in BOOLEAN
        BY DEF ReferencesKept, TypeOK
      <4>4. Hosts[h].group \in Drawn(filter, found)
        BY <4>2, <4>3
      <4> QED
        BY <4>4 DEF InTree, found
    <3> QED
      BY <2>1, <3>1, <3>2
  <2> QED
    BY <2>4, <2>5
<1> QED
  BY <1>1, LibraryTypes, ReferencesHold, StoreIsFresh, PTL

-----------------------------------------------------------------------------
(* What HostForm was given                                                 *)

\* While the identity for what the user entered is not there yet, a command to
\* come makes it, before the host is saved.
PledgeInv ==
    ops["form"].entered /\ ops["form"].made.identity = 0 =>
        /\ ops["form"].pc = "send" => Pledged(ops["form"].todo)
        /\ ops["form"].pc = "load" => Pledged(Tail(ops["form"].todo))
CredInv == LibraryType /\ PledgeInv

LEMMA PledgedRest ==
  ASSUME NEW todo \in Seq(Commands), Len(todo) > 0, Pledged(todo),
         ~(todo[1].do = "identity" /\ todo[1].id = 0)
  PROVE  Pledged(Tail(todo))
<1>1. PICK i \in 1..Len(todo) : todo[i].do = "identity" /\ todo[i].id = 0 /\ \A j \in 1..i : todo[j].do # "host"
  BY DEF Pledged
<1>2. i # 1
  BY <1>1
<1>3. PICK t : t = Tail(todo)
  OBVIOUS
<1>4. Len(t) = Len(todo) - 1 /\ \A j \in 1..(Len(todo) - 1) : t[j] = todo[j + 1]
  BY <1>3
<1>5. i - 1 \in 1..Len(t) /\ t[i - 1] = todo[i]
  BY <1>1, <1>2, <1>4
<1>6. \A j \in 1..(i - 1) : t[j].do # "host"
  BY <1>1, <1>4
<1>7. Pledged(t)
  BY <1>1, <1>5, <1>6 DEF Pledged
<1> QED
  BY <1>3, <1>7

LEMMA CredStep == CredInv /\ [Next]_vars => CredInv'
<1> SUFFICES ASSUME CredInv, [Next]_vars PROVE PledgeInv'
  BY LibraryTypeStep DEF CredInv
<1>1. LibraryType /\ OpsType /\ InOrder(db) /\ PledgeInv
  BY DEF CredInv, LibraryType
<1>2. ASSUME ops'["form"] = ops["form"] PROVE PledgeInv'
  BY <1>1, <1>2 DEF PledgeInv
<1>3. ASSUME NEW o, Becomes("form", o), o.pc = "idle" PROVE PledgeInv'
  BY <1>3 DEF PledgeInv, Becomes
<1>4. CASE Click
  <2>1. ops' = ops \/ ListOp \/ FormOp
    BY <1>1, <1>4, ClickParts DEF Clicked
  <2>2. ASSUME FormOp PROVE PledgeInv'
    BY <2>2 DEF FormOp, PledgeInv, Becomes
  <2> QED
    BY <1>2, <2>1, <2>2 DEF ListOp, Becomes, Slots
<1>5. ASSUME NEW o, Becomes("list", o) PROVE PledgeInv'
  BY <1>2, <1>5 DEF Becomes, Slots
<1>6. ASSUME Answer("list") PROVE PledgeInv'
  <2>1. "list" \in Slots
    BY DEF Slots
  <2>2. \E o : Becomes("list", o)
    BY <1>1, <1>6, <2>1, SendParts, ReadParts, LoadedParts, FailsParts
    DEF Answer, Loading, Ended, Advanced
  <2> QED
    BY <1>5, <2>2
<1>7. "form" \in Slots
  BY DEF Slots
<1>8. CASE Send("form")
  <2>1. ops["form"].pc = "send"
    BY <1>8 DEF Send
  <2>2. /\ ops["form"].todo \in Seq(Commands) /\ Len(ops["form"].todo) > 0
        /\ Command("form") = ops["form"].todo[1]
    BY <1>1, <1>7, <2>1, TodoParts
  <2>3. /\ Command("form").do = "identity" /\ Command("form").id = 0 => Made("form").identity # 0
        /\ ops["form"].made.identity # 0 => Made("form").identity # 0
    BY <1>1, <1>7, <2>1, MadeType
  <2>4. ASSUME ops["form"].entered, Made("form").identity = 0 PROVE Pledged(Tail(ops["form"].todo))
    <3>1. Pledged(ops["form"].todo)
      BY <1>1, <2>1, <2>3, <2>4 DEF PledgeInv
    <3> QED
      BY <2>2, <2>3, <2>4, <3>1, PledgedRest
  <2>5. Loading("form") \/ Ended("form") \/ Advanced("form")
    BY <1>1, <1>7, <1>8, SendParts
  <2>6. CASE Loading("form")
    <3>1. PICK o \in Operations : /\ Becomes("form", o) /\ o.pc = "load" /\ o.todo = ops["form"].todo
                                  /\ o.made = Made("form") /\ o.entered = ops["form"].entered
      BY <2>6 DEF Loading
    <3> QED
      BY <2>4, <3>1 DEF PledgeInv, Becomes
  <2>7. CASE Advanced("form")
    <3>1. PICK o \in Operations : /\ Becomes("form", o) /\ o.pc = "send" /\ o.todo = Tail(ops["form"].todo)
                                  /\ o.made = Made("form") /\ o.entered = ops["form"].entered
      BY <2>7 DEF Advanced
    <3> QED
      BY <2>4, <3>1 DEF PledgeInv, Becomes
  <2> QED
    BY <1>3, <2>5, <2>6, <2>7, NoOpType DEF Ended
<1>9. CASE ReadGroups("form") \/ ReadRest("form")
  <2>1. ops["form"].pc = "load"
    BY <1>9 DEF ReadGroups, ReadRest
  <2>2. PICK o \in Operations : /\ Becomes("form", o) /\ o.pc = "load" /\ o.todo = ops["form"].todo
                                /\ o.made = ops["form"].made /\ o.entered = ops["form"].entered
    BY <1>1, <1>7, <1>9, ReadParts
  <2> QED
    BY <1>1, <2>1, <2>2 DEF PledgeInv, Becomes
<1>10. CASE Loaded("form")
  <2>1. ops["form"].pc = "load"
    BY <1>10 DEF Loaded
  <2>2. \/ Ended("form")
        \/ \E o \in Operations : /\ Becomes("form", o) /\ o.pc = "send" /\ o.todo = Tail(ops["form"].todo)
                                 /\ o.made = ops["form"].made /\ o.entered = ops["form"].entered
    BY <1>1, <1>7, <1>10, LoadedParts
  <2>3. ASSUME NEW o \in Operations, Becomes("form", o), o.pc = "send", o.todo = Tail(ops["form"].todo),
               o.made = ops["form"].made, o.entered = ops["form"].entered
        PROVE  PledgeInv'
    BY <1>1, <2>1, <2>3 DEF PledgeInv, Becomes
  <2> QED
    BY <1>3, <2>2, <2>3, NoOpType DEF Ended
<1>11. CASE LoadFails("form")
  BY <1>1, <1>3, <1>7, <1>11, FailsParts, NoOpType DEF Ended
<1>12. CASE UNCHANGED vars
  BY <1>2, <1>12 DEF vars
<1> QED
  BY <1>4, <1>6, <1>8, <1>9, <1>10, <1>11, <1>12 DEF Next, Answer, Slots

\* A password or a key given to HostForm is never dropped: whatever commands
\* fail or are answered late, the host it saves has an identity.
THEOREM CredentialsSaved == Spec => CredentialsKept
<1> DEFINE Saved ==
      ops["form"].pc = "send" /\ ops["form"].entered /\ Command("form").do = "host" /\ ops["form"]' # ops["form"]
      => \A h \in DOMAIN db'.hosts :
           (h \in DOMAIN db.hosts /\ db'.hosts[h] = db.hosts[h]) \/ db'.hosts[h].identity # 0
<1>1. Init => CredInv
  <2>1. Init => ~ops["form"].entered
    BY DEF Init, Slots, NoOp
  <2> QED
    BY <2>1, LibraryTypeInit DEF CredInv, PledgeInv
<1>2. CredInv /\ [Next]_vars => [Saved]_vars
  <2> SUFFICES ASSUME CredInv, [Next]_vars, ops["form"].pc = "send", ops["form"].entered,
                      Command("form").do = "host", ops'["form"] # ops["form"],
                      NEW h \in DOMAIN db'.hosts
               PROVE  (h \in DOMAIN db.hosts /\ db'.hosts[h] = db.hosts[h]) \/ db'.hosts[h].identity # 0
    OBVIOUS
  <2>1. LibraryType /\ OpsType /\ InOrder(db) /\ PledgeInv /\ "form" \in Slots
    BY DEF CredInv, LibraryType, Slots
  <2>2. /\ ops["form"].todo \in Seq(Commands) /\ Len(ops["form"].todo) > 0
        /\ Command("form") = ops["form"].todo[1] /\ Command("form") \in Commands
        /\ ops["form"].made \in Makes
    BY <2>1, TodoParts DEF Operations
  <2>3. ops["form"].made.identity # 0
    <3>1. ~Pledged(ops["form"].todo)
      BY <2>2 DEF Pledged
    <3> QED
      BY <2>1, <3>1 DEF PledgeInv
  <2>4. ~Click
    BY <2>1, ClickParts DEF Clicked, ListOp, FormOp, Becomes, Slots
  <2>5. ~Answer("list")
    <3>1. SUFFICES ASSUME Answer("list") PROVE FALSE
      OBVIOUS
    <3>2. "list" \in Slots
      BY DEF Slots
    <3>3. \E o : Becomes("list", o)
      BY <2>1, <3>1, <3>2, SendParts, ReadParts, LoadedParts, FailsParts
      DEF Answer, Loading, Ended, Advanced
    <3> QED
      BY <3>3 DEF Becomes, Slots
  <2>6. Send("form")
    BY <2>4, <2>5 DEF Next, vars, Answer, Slots, ReadGroups, ReadRest, Loaded, LoadFails
  <2>7. Executed("form") \/ db' \in LeftBy(db, Command("form"), ops["form"].made)
    BY <2>1, <2>6, SendParts DEF Succeeds, Fails
  <2>8. CASE Executed("form")
    <3>1. PICK e : e = Execute(db, Command("form"), ops["form"].made)
      OBVIOUS
    <3>2. e # Error /\ db' = e
      BY <2>8, <3>1 DEF Executed
    <3>3. \A k \in DOMAIN e.hosts : \/ k \in DOMAIN db.hosts /\ e.hosts[k] = db.hosts[k]
                                    \/ e.hosts[k].identity # 0
      BY <2>1, <2>2, <2>3, <3>1, <3>2, ExecuteKeeps
    <3> QED
      BY <3>2, <3>3
  <2>9. CASE db' \in LeftBy(db, Command("form"), ops["form"].made)
    <3>1. PICK e \in LeftBy(db, Command("form"), ops["form"].made) : e = db'
      BY <2>9
    <3>2. \A k \in DOMAIN e.hosts : \/ k \in DOMAIN db.hosts /\ e.hosts[k] = db.hosts[k]
                                    \/ e.hosts[k].identity # 0
      BY <2>1, <2>2, <2>3, LeftKeeps
    <3> QED
      BY <3>1, <3>2
  <2> QED
    BY <2>7, <2>8, <2>9
<1> QED
  BY <1>1, <1>2, CredStep, PTL DEF Spec, CredentialsKept
=============================================================================
