------------------------ MODULE VpnConnectionsProofs ------------------------
(***************************************************************************)
(* Proofs about VpnConnections for any number of profiles, hosts, callers, *)
(* attempts and devices, and about the gate of the frontend in front of it. *)
(***************************************************************************)
EXTENDS VpnConnections, TLAPS

-----------------------------------------------------------------------------
(* The type invariant                                                      *)

\* A management line is appended to a socket's queue: the queues keep their type.
LEMMA EmitType ==
  ASSUME NEW c \in Conns, NEW line \in {"CONNECTED", "ERROR"}, Emit(c, line),
         lines \in [Conns -> Seq({"CONNECTED", "ERROR"})]
  PROVE  lines' \in [Conns -> Seq({"CONNECTED", "ERROR"})]
<1>1. Append(lines[c], line) \in Seq({"CONNECTED", "ERROR"})
  OBVIOUS
<1>2. CASE lines' = [lines EXCEPT ![c] = Append(@, line)]
  BY <1>1, <1>2
<1>3. CASE UNCHANGED lines
  BY <1>3
<1> QED
  BY <1>2, <1>3 DEF Emit

\* Every state of the table, the tasks, the processes and the kernel routes has
\* its type: the first fact every other proof about vpn/mod.rs rests on.
THEOREM TypeCorrect == Spec => []TypeOK
<1>1. Init => TypeOK
  BY ConstantsAssumption DEF Init, TypeOK, Phases, VpnState, NoRoute, Route
<1>2. TypeOK /\ [Next]_vars => TypeOK'
  <2> SUFFICES ASSUME TypeOK, [Next]_vars PROVE TypeOK'
    OBVIOUS
  <2> USE ConstantsAssumption
  <2>1. ASSUME NEW k \in Callers, NEW p \in Profiles, ConnectCheck(k, p)
        PROVE  TypeOK'
    BY <2>1 DEF ConnectCheck, TypeOK, taskVars, procVars, fileVars
  <2>2. ASSUME NEW k \in Callers, TryClaimOccupied(k) PROVE TypeOK'
    BY <2>2 DEF TryClaimOccupied, TypeOK, taskVars, procVars, fileVars
  <2>3. ASSUME NEW k \in Callers, NEW c \in Conns, TryClaimVacant(k, c)
        PROVE  TypeOK'
    BY <2>3 DEF TryClaimVacant, TypeOK, procVars, fileVars, VpnState, Phases,
                Starting
  <2>4. ASSUME NEW k \in Callers, ConnectReturns(k) PROVE TypeOK'
    BY <2>4 DEF ConnectReturns, TypeOK, taskVars, procVars, fileVars
  <2>5. ASSUME NEW c \in Conns, StartConfig(c) PROVE TypeOK'
    BY <2>5 DEF StartConfig, TypeOK, callVars, procVars, Phases, Starting
  <2>6. ASSUME NEW c \in Conns, StartAuth(c) PROVE TypeOK'
    BY <2>6 DEF StartAuth, TypeOK, callVars, procVars, Phases, Starting
  <2>7. ASSUME NEW c \in Conns, StartSpawn(c) PROVE TypeOK'
    BY <2>7 DEF StartSpawn, TypeOK, callVars, fileVars, Phases, Running, Alive
  <2>8. ASSUME NEW c \in Conns, StartFails(c) PROVE TypeOK'
    BY <2>8 DEF StartFails, Unmap, TypeOK, procVars, fileVars, Phases, Starting,
                Finished
  <2>9. ASSUME NEW c \in Conns, RunVpn(c) PROVE TypeOK'
    <3>1. CASE MgmtConnect(c)
      BY <3>1 DEF MgmtConnect, TypeOK, callVars, procVars, fileVars, Phases, Running
    <3>2. CASE MgmtNeverUp(c)
      BY <3>2 DEF MgmtNeverUp, Answer, TypeOK, callVars, procVars, fileVars,
                  Phases, Running, VpnState
    <3>3. CASE ReadLine(c)
      <4>1. adders' \subseteq Adder
        BY <3>3 DEF ReadLine, TypeOK, Adder
      <4>2. lines' \in [Conns -> Seq({"CONNECTED", "ERROR"})]
        BY <3>3 DEF ReadLine, TypeOK
      <4> QED
        BY <3>3, <4>1, <4>2 DEF ReadLine, Answer, Parsed, TypeOK, callVars, fileVars,
                  VpnState
    <3>4. CASE TakeControl(c)
      BY <3>4 DEF TakeControl, Receives, SendSigterm, TypeOK, callVars, fileVars,
                  VpnState
    <3>5. CASE MgmtClosed(c)
      BY <3>5 DEF MgmtClosed, Answer, TypeOK, callVars, fileVars, Phases, Running,
                  VpnState
    <3> QED
      BY <2>9, <3>1, <3>2, <3>3, <3>4, <3>5 DEF RunVpn
  <2>10. ASSUME NEW c \in Conns, Cleanup(c) PROVE TypeOK'
    <3>1. CASE CleanupUnmap(c)
      BY <3>1 DEF CleanupUnmap, Unmap, TypeOK, callVars, procVars, fileVars, Phases,
                  Cleaning
    <3>2. CASE CleanupTakeRoutes(c)
      BY <3>2 DEF CleanupTakeRoutes, TypeOK, callVars, procVars, fileVars, Phases,
                  Cleaning
    <3>3. CASE CleanupDelRoute(c)
      BY <3>3 DEF CleanupDelRoute, TypeOK, callVars, procVars, fileVars, Route,
                  NoRoute
    <3>4. CASE CleanupConfig(c)
      BY <3>4 DEF CleanupConfig, TypeOK, callVars, procVars, Phases, Cleaning
    <3>5. CASE CleanupAuth(c)
      BY <3>5 DEF CleanupAuth, AuthRemoved, TypeOK, callVars, procVars, Phases, Finished
    <3> QED
      BY <2>10, <3>1, <3>2, <3>3, <3>4, <3>5 DEF Cleanup
  <2>11. ASSUME NEW a \in adders, AddRoutes(a) PROVE TypeOK'
    <3> a \in Adder
      BY <2>11 DEF TypeOK
    <3>1. CASE FindInterface(a)
      <4>1. pub' \in [Conns -> Ifaces \cup {NoIface}]
        BY <3>1 DEF FindInterface, TypeOK
      <4> DEFINE b == [a EXCEPT !.dev = iface[a.conn]]
      <4>2. adders' \subseteq adders \cup (IF iface[a.conn] # NoIface THEN {b} ELSE {})
        BY <3>1 DEF FindInterface
      <4>3. b \in Adder /\ b.dev = iface[a.conn]
        BY DEF Adder, TypeOK
      <4>4. adders' \subseteq Adder /\ \A x \in adders' : x.cur # NoHost => x.dev # NoIface
        BY <4>2, <4>3 DEF TypeOK
      <4> QED
        BY <3>1, <4>1, <4>4 DEF FindInterface, TypeOK, callVars, procVars, fileVars
    <3>2. CASE RouteNotAdded(a)
      <4>1. PICK h \in a.todo : Continue(a, [a EXCEPT !.todo = @ \ {h}])
        BY <3>2 DEF RouteNotAdded
      <4>2. [a EXCEPT !.todo = @ \ {h}] \in Adder
        BY DEF Adder
      <4>3. adders' \subseteq Adder /\ \A b \in adders' : b.cur # NoHost => b.dev # NoIface
        BY <3>2, <4>1, <4>2 DEF RouteNotAdded, Continue, TypeOK, Adder
      <4> QED
        BY <3>2, <4>3 DEF RouteNotAdded, TypeOK, callVars, taskVars, procVars, fileVars
    <3>3. CASE RouteAdded(a)
      <4>1. PICK h \in a.todo :
              /\ route' = [route EXCEPT ![h] = [dev |-> a.dev, owner |-> a.conn]]
              /\ adders' = (adders \ {a}) \cup {[a EXCEPT !.todo = @ \ {h}, !.cur = h]}
        BY <3>3 DEF RouteAdded
      <4>2. /\ [a EXCEPT !.todo = @ \ {h}, !.cur = h] \in Adder
            /\ [a EXCEPT !.todo = @ \ {h}, !.cur = h].dev = a.dev
        BY DEF Adder
      <4>3. adders' \subseteq Adder /\ \A b \in adders' : b.cur # NoHost => b.dev # NoIface
        BY <3>3, <4>1, <4>2 DEF RouteAdded, TypeOK
      <4>4. route' \in [Hosts -> Route]
        BY <4>1 DEF TypeOK, Route, Adder
      <4> QED
        BY <3>3, <4>3, <4>4 DEF RouteAdded, TypeOK, callVars, taskVars, procVars, fileVars
    <3>4. CASE RouteRecorded(a)
      <4>1. a.dev \in Ifaces /\ a.cur \in Hosts
        BY <2>11, <3>4 DEF RouteRecorded, TypeOK, Adder
      <4>2. added' \in [Conns -> SUBSET (Ifaces \X Hosts)]
        BY <3>4, <4>1 DEF RouteRecorded, Remember, TypeOK, Adder
      <4>3. [a EXCEPT !.cur = NoHost] \in Adder /\ [a EXCEPT !.cur = NoHost].cur = NoHost
        BY DEF Adder
      <4>4. adders' \subseteq Adder /\ \A b \in adders' : b.cur # NoHost => b.dev # NoIface
        BY <3>4, <4>3 DEF RouteRecorded, Continue, TypeOK
      <4> QED
        BY <3>4, <4>2, <4>4 DEF RouteRecorded, TypeOK, callVars, procVars, fileVars
    <3> QED
      BY <2>11, <3>1, <3>2, <3>3, <3>4 DEF AddRoutes
  <2>12. ASSUME NEW c \in Conns, OpenVpn(c) PROVE TypeOK'
    <3>1. CASE HelperExec(c)
      BY <3>1 DEF HelperExec, TypeOK, callVars, taskVars, fileVars, Alive
    <3>2. CASE TunnelUp(c)
      <4>1. lines' \in [Conns -> Seq({"CONNECTED", "ERROR"})]
        BY <3>2, EmitType DEF TunnelUp, TypeOK
      <4>2. iface' \in [Conns -> Ifaces \cup {NoIface}]
        BY <3>2 DEF TunnelUp, TypeOK
      <4>3. proc' \in [Conns -> {"none", "gone"} \cup Alive]
        BY <3>2 DEF TunnelUp, TypeOK, Alive
      <4> QED
        BY <3>2, <4>1, <4>2, <4>3 DEF TunnelUp, TypeOK, callVars, taskVars, fileVars
    <3>3. CASE ReportError(c)
      <4>1. lines' \in [Conns -> Seq({"CONNECTED", "ERROR"})]
        BY <3>3, EmitType DEF ReportError, TypeOK
      <4> QED
        BY <3>3, <4>1 DEF ReportError, TypeOK, callVars, taskVars, fileVars
    <3>4. CASE ProcExit(c)
      BY <3>4 DEF ProcExit, TypeOK, callVars, taskVars, fileVars, Route, NoRoute
    <3> QED
      BY <2>12, <3>1, <3>2, <3>3, <3>4 DEF OpenVpn
  <2>13. ASSUME NEW p \in Profiles, Disconnect(p) PROVE TypeOK'
    BY <2>13 DEF Disconnect, TypeOK, callVars, procVars, fileVars
  <2>14. CASE DisconnectAll
    BY <2>14 DEF DisconnectAll, SignalAll, TypeOK, callVars, procVars, fileVars
  <2>15. ASSUME NEW h \in Hosts, EnsureHostRoute(h) PROVE TypeOK'
    BY <2>15 DEF EnsureHostRoute, TypeOK, callVars, taskVars, procVars, fileVars,
                 Adder
  <2>16. ASSUME NEW h \in Hosts, NEW p \in Profiles \cup {NoProfile},
                AssignHost(h, p)
         PROVE  TypeOK'
    BY <2>16 DEF AssignHost, TypeOK, callVars, taskVars, procVars, fileVars
  <2>17. CASE SetupInstall
    BY <2>17 DEF SetupInstall, TypeOK, callVars, taskVars, procVars, fileVars
  <2>18. CASE ExitRequested
    BY <2>18 DEF ExitRequested, SignalAll, TypeOK, callVars, procVars, fileVars
  <2>19. CASE ProcessGone
    BY <2>19 DEF ProcessGone, TypeOK, fileVars, Phases, Finished, VpnState, Starting,
                 Running, Cleaning
  <2>20. CASE Restart
    BY <2>20 DEF Restart, TypeOK, callVars, taskVars, procVars
  <2>21. CASE UNCHANGED vars
    BY <2>21 DEF vars, TypeOK, callVars, taskVars, procVars, fileVars
  <2> QED
    BY <2>1, <2>2, <2>3, <2>4, <2>5, <2>6, <2>7, <2>8, <2>9, <2>10, <2>11, <2>12,
       <2>13, <2>14, <2>15, <2>16, <2>17, <2>18, <2>19, <2>20, <2>21
       DEF Next, StartConnection
<1> QED
  BY <1>1, <1>2, PTL DEF Spec

-----------------------------------------------------------------------------
(* The table of connections                                                *)

\* EntryHasOwner and OpenvpnTracked are not inductive alone: the converse of
\* the first is needed (an attempt that has not unmapped itself holds its
\* profile's entry), and that a process lives only under a run_vpn task.
AttemptHoldsEntry ==
    \A c \in Conns : phase[c] \in Starting \cup Running => vpnMap[prof[c]] = c

ProcessHasTask ==
    \A c \in Conns : proc[c] \in Alive => phase[c] \in Running \cup {"dead"}

TableInv == EntryHasOwner /\ AttemptHoldsEntry /\ ProcessHasTask

\* No step of connect(), run_vpn, cleanup() or of the process breaks the table.
LEMMA TableStep == TypeOK /\ TableInv /\ [Next]_vars => TableInv'
<1> SUFFICES ASSUME TypeOK, TableInv, [Next]_vars PROVE TableInv'
  OBVIOUS
<1> USE ConstantsAssumption
    DEF TableInv, EntryHasOwner, AttemptHoldsEntry, ProcessHasTask
<1>1. ASSUME UNCHANGED <<vpnMap, phase, prof, proc>> PROVE TableInv'
  BY <1>1
<1>2. ASSUME NEW k \in Callers, NEW c \in Conns, TryClaimVacant(k, c)
      PROVE  TableInv'
  <2>1. callFor[k] \in Profiles /\ vpnMap[callFor[k]] = NoConn
    BY <1>2 DEF TryClaimVacant, Vacant, TypeOK
  <2>2. ASSUME NEW p \in Profiles, vpnMap[p] = c PROVE FALSE
    <3>1. phase[c] = "free" /\ c # NoConn
      BY <1>2 DEF TryClaimVacant
    <3>2. phase[c] \in Starting \cup Running
      BY <2>2, <3>1
    <3> QED
      BY <3>1, <3>2 DEF Starting, Running
  <2> QED
    BY <1>2, <2>1, <2>2 DEF TryClaimVacant, TypeOK, procVars, Starting, Running,
                            Phases, Cleaning, Finished
<1>3. ASSUME NEW c \in Conns, StartConnection(c) PROVE TableInv'
  <2>1. CASE StartConfig(c)
    BY <2>1 DEF StartConfig, TypeOK, Starting, Running, procVars
  <2>2. CASE StartAuth(c)
    BY <2>2 DEF StartAuth, TypeOK, Starting, Running, procVars
  <2>3. CASE StartSpawn(c)
    BY <2>3 DEF StartSpawn, TypeOK, Starting, Running
  <2>4. CASE StartFails(c)
    <3>1. prof[c] \in Profiles /\ proc[c] \notin Alive
      BY <2>4 DEF StartFails, TypeOK, Starting, Running
    <3> QED
      BY <2>4, <3>1 DEF StartFails, Unmap, TypeOK, procVars, Starting, Running
  <2> QED
    BY <1>3, <2>1, <2>2, <2>3, <2>4 DEF StartConnection
<1>4. ASSUME NEW c \in Conns, RunVpn(c) PROVE TableInv'
  <2>1. CASE MgmtConnect(c)
    BY <2>1 DEF MgmtConnect, TypeOK, procVars, Starting, Running
  <2>2. CASE MgmtNeverUp(c)
    BY <2>2 DEF MgmtNeverUp, TypeOK, procVars, Starting, Running
  <2>3. CASE ReadLine(c)
    BY <2>3, <1>1 DEF ReadLine
  <2>4. CASE TakeControl(c)
    BY <2>4, <1>1 DEF TakeControl
  <2>5. CASE MgmtClosed(c)
    BY <2>5 DEF MgmtClosed, TypeOK, Starting, Running
  <2> QED
    BY <1>4, <2>1, <2>2, <2>3, <2>4, <2>5 DEF RunVpn
<1>5. ASSUME NEW c \in Conns, Cleanup(c) PROVE TableInv'
  <2>1. CASE CleanupUnmap(c)
    <3>1. prof[c] \in Profiles /\ proc[c] \notin Alive
      BY <2>1 DEF CleanupUnmap, ChildWaited, TypeOK, Alive
    <3> QED
      BY <2>1, <3>1 DEF CleanupUnmap, Unmap, TypeOK, procVars, Starting, Running
  <2>2. CASE CleanupTakeRoutes(c)
    BY <2>2 DEF CleanupTakeRoutes, TypeOK, procVars, Starting, Running
  <2>3. CASE CleanupDelRoute(c)
    BY <2>3, <1>1 DEF CleanupDelRoute, procVars
  <2>4. CASE CleanupConfig(c)
    BY <2>4 DEF CleanupConfig, TypeOK, procVars, Starting, Running
  <2>5. CASE CleanupAuth(c)
    BY <2>5 DEF CleanupAuth, AuthRemoved, TypeOK, procVars, Starting, Running
  <2> QED
    BY <1>5, <2>1, <2>2, <2>3, <2>4, <2>5 DEF Cleanup
<1>6. ASSUME NEW c \in Conns, OpenVpn(c) PROVE TableInv'
  <2>1. CASE HelperExec(c)
    BY <2>1 DEF HelperExec, TypeOK, taskVars, Alive
  <2>2. CASE TunnelUp(c)
    BY <2>2 DEF TunnelUp, TypeOK, taskVars, Alive
  <2>3. CASE ReportError(c)
    BY <2>3, <1>1 DEF ReportError, taskVars
  <2>4. CASE ProcExit(c)
    BY <2>4 DEF ProcExit, TypeOK, taskVars, Alive
  <2> QED
    BY <1>6, <2>1, <2>2, <2>3, <2>4 DEF OpenVpn
<1>7. CASE ProcessGone
  BY <1>7 DEF ProcessGone, TypeOK, Starting, Running, Cleaning
<1>8. ASSUME NEW a \in adders, AddRoutes(a) PROVE TableInv'
  BY <1>8, <1>1 DEF AddRoutes, FindInterface, RouteNotAdded, RouteAdded,
                    RouteRecorded, taskVars, procVars
<1>9. ASSUME NEW k \in Callers,
             \/ \E p \in Profiles : ConnectCheck(k, p)
             \/ TryClaimOccupied(k) \/ ConnectReturns(k)
      PROVE  TableInv'
  BY <1>9, <1>1 DEF ConnectCheck, TryClaimOccupied, ConnectReturns, taskVars, procVars
<1>10. ASSUME \/ \E p \in Profiles : Disconnect(p)
              \/ \E h \in Hosts : EnsureHostRoute(h)
              \/ \E h \in Hosts, p \in Profiles \cup {NoProfile} : AssignHost(h, p)
              \/ DisconnectAll \/ SetupInstall \/ ExitRequested \/ Restart
       PROVE  TableInv'
  BY <1>10, <1>1 DEF Disconnect, EnsureHostRoute, AssignHost, DisconnectAll,
                     SetupInstall, ExitRequested, Restart, taskVars, procVars
<1>11. CASE UNCHANGED vars
  BY <1>11, <1>1 DEF vars, taskVars, procVars
<1> QED
  BY <1>2, <1>3, <1>4, <1>5, <1>6, <1>7, <1>8, <1>9, <1>10, <1>11 DEF Next

\* TableInv holds in every reachable state.
LEMMA TableInvariant == Spec => []TableInv
<1>1. Init => TableInv
  BY ConstantsAssumption DEF Init, TableInv, EntryHasOwner, AttemptHoldsEntry,
     ProcessHasTask, Starting, Running, Alive
<1> QED
  BY <1>1, TableStep, TypeCorrect, PTL DEF Spec

\* Every entry of the VpnMap belongs to a start_connection or run_vpn of its
\* profile that will remove it: connect() never finds a phantom entry.
THEOREM EntriesOwned == Spec => []EntryHasOwner
<1>1. TableInv => EntryHasOwner
  BY DEF TableInv
<1> QED
  BY <1>1, TableInvariant, PTL

\* The entry of a profile is the attempt whose openvpn process runs: while the
\* application lives no process escapes disconnect(), and two attempts never
\* run openvpn for one profile.
THEOREM ProcessesTracked == Spec => []OpenvpnTracked
<1>1. TableInv => OpenvpnTracked
  BY DEF TableInv, AttemptHoldsEntry, ProcessHasTask, OpenvpnTracked
<1> QED
  BY <1>1, TableInvariant, PTL

\* try_claim never overwrites an entry, and cleanup() of an attempt never
\* removes another attempt's entry to make room for it in the same step.
THEOREM ClaimsExclusive == Spec => EntryNeverReplaced
<1> DEFINE Kept == \A p \in Profiles :
                     vpnMap[p] # NoConn => vpnMap'[p] \in {vpnMap[p], NoConn}
<1>1. TypeOK /\ [Next]_vars => [Kept]_vars
  <2> SUFFICES ASSUME TypeOK, Next PROVE Kept
    OBVIOUS
  <2>1. ASSUME vpnMap' = vpnMap PROVE Kept
    BY <2>1
  <2>2. ASSUME NEW k \in Callers, NEW c \in Conns, TryClaimVacant(k, c) PROVE Kept
    BY <2>2 DEF TryClaimVacant, Vacant, TypeOK
  <2>3. ASSUME NEW c \in Conns, StartConnection(c) PROVE Kept
    BY <2>3 DEF StartConnection, StartConfig, StartAuth, StartSpawn, StartFails,
                Unmap, TypeOK
  <2>4. ASSUME NEW c \in Conns, RunVpn(c) \/ OpenVpn(c) PROVE Kept
    BY <2>4, <2>1 DEF RunVpn, MgmtConnect, MgmtNeverUp, ReadLine, TakeControl,
                      MgmtClosed, OpenVpn, HelperExec, TunnelUp, ReportError, ProcExit
  <2>5. ASSUME NEW c \in Conns, Cleanup(c) PROVE Kept
    BY <2>5 DEF Cleanup, CleanupUnmap, CleanupTakeRoutes, CleanupDelRoute,
                CleanupConfig, CleanupAuth, AuthRemoved, Unmap, TypeOK
  <2>6. ASSUME NEW a \in adders, AddRoutes(a) PROVE Kept
    BY <2>6, <2>1 DEF AddRoutes, FindInterface, RouteNotAdded, RouteAdded, RouteRecorded
  <2>7. CASE ProcessGone
    BY <2>7 DEF ProcessGone
  <2>8. ASSUME NEW k \in Callers,
               \/ \E p \in Profiles : ConnectCheck(k, p)
               \/ TryClaimOccupied(k) \/ ConnectReturns(k)
        PROVE  Kept
    BY <2>8, <2>1 DEF ConnectCheck, TryClaimOccupied, ConnectReturns
  <2>9. ASSUME \/ \E p \in Profiles : Disconnect(p)
               \/ \E h \in Hosts : EnsureHostRoute(h)
               \/ \E h \in Hosts, p \in Profiles \cup {NoProfile} : AssignHost(h, p)
               \/ DisconnectAll \/ SetupInstall \/ ExitRequested \/ Restart
        PROVE  Kept
    BY <2>9, <2>1 DEF Disconnect, EnsureHostRoute, AssignHost, DisconnectAll,
                      SetupInstall, ExitRequested, Restart
  <2> QED
    BY <2>2, <2>3, <2>4, <2>5, <2>6, <2>7, <2>8, <2>9 DEF Next
<1> QED
  BY <1>1, TypeCorrect, PTL DEF Spec, EntryNeverReplaced

-----------------------------------------------------------------------------
(* The answer to the waiting connect()                                     *)

\* However run_vpn leaves its loop, the caller of connect() has been answered
\* before the child is awaited and the entry removed.
THEOREM CallersAnswered == Spec => []EndedAttemptAnswered
<1>1. Init => EndedAttemptAnswered
  BY DEF Init, EndedAttemptAnswered, Cleaning
<1>2. TypeOK /\ EndedAttemptAnswered /\ [Next]_vars => EndedAttemptAnswered'
  <2> SUFFICES ASSUME TypeOK, EndedAttemptAnswered, [Next]_vars
               PROVE  EndedAttemptAnswered'
    OBVIOUS
  <2> USE ConstantsAssumption DEF EndedAttemptAnswered, Cleaning
  <2>1. ASSUME UNCHANGED <<phase, ready>> PROVE EndedAttemptAnswered'
    BY <2>1
  <2>2. ASSUME NEW k \in Callers, NEW c \in Conns, TryClaimVacant(k, c)
        PROVE  EndedAttemptAnswered'
    BY <2>2 DEF TryClaimVacant, TypeOK
  <2>3. ASSUME NEW c \in Conns, StartConnection(c) PROVE EndedAttemptAnswered'
    BY <2>3 DEF StartConnection, StartConfig, StartAuth, StartSpawn, StartFails, TypeOK
  <2>4. ASSUME NEW c \in Conns, RunVpn(c) PROVE EndedAttemptAnswered'
    <3>1. CASE MgmtConnect(c)
      BY <3>1 DEF MgmtConnect, TypeOK
    <3>2. CASE MgmtNeverUp(c)
      BY <3>2 DEF MgmtNeverUp, Answer, TypeOK, VpnState
    <3>3. CASE ReadLine(c)
      BY <3>3 DEF ReadLine, Answer, Parsed, TypeOK, VpnState
    <3>4. CASE TakeControl(c)
      BY <3>4, <2>1 DEF TakeControl
    <3>5. CASE MgmtClosed(c)
      BY <3>5 DEF MgmtClosed, Answer, TypeOK, VpnState
    <3> QED
      BY <2>4, <3>1, <3>2, <3>3, <3>4, <3>5 DEF RunVpn
  <2>5. ASSUME NEW c \in Conns, Cleanup(c) PROVE EndedAttemptAnswered'
    BY <2>5 DEF Cleanup, CleanupUnmap, CleanupTakeRoutes, CleanupDelRoute,
                CleanupConfig, CleanupAuth, AuthRemoved, TypeOK
  <2>6. ASSUME NEW c \in Conns, OpenVpn(c) PROVE EndedAttemptAnswered'
    BY <2>6, <2>1 DEF OpenVpn, HelperExec, TunnelUp, ReportError, ProcExit, taskVars
  <2>7. CASE ProcessGone
    BY <2>7 DEF ProcessGone, TypeOK
  <2>8. ASSUME NEW a \in adders, AddRoutes(a) PROVE EndedAttemptAnswered'
    BY <2>8, <2>1 DEF AddRoutes, FindInterface, RouteNotAdded, RouteAdded,
                      RouteRecorded, taskVars
  <2>9. ASSUME NEW k \in Callers,
               \/ \E p \in Profiles : ConnectCheck(k, p)
               \/ TryClaimOccupied(k) \/ ConnectReturns(k)
        PROVE  EndedAttemptAnswered'
    BY <2>9, <2>1 DEF ConnectCheck, TryClaimOccupied, ConnectReturns, taskVars
  <2>10. ASSUME \/ \E p \in Profiles : Disconnect(p)
                \/ \E h \in Hosts : EnsureHostRoute(h)
                \/ \E h \in Hosts, p \in Profiles \cup {NoProfile} : AssignHost(h, p)
                \/ DisconnectAll \/ SetupInstall \/ ExitRequested \/ Restart
         PROVE  EndedAttemptAnswered'
    BY <2>10, <2>1 DEF Disconnect, EnsureHostRoute, AssignHost, DisconnectAll,
                       SetupInstall, ExitRequested, Restart, taskVars
  <2>11. CASE UNCHANGED vars
    BY <2>11, <2>1 DEF vars, taskVars
  <2> QED
    BY <2>2, <2>3, <2>4, <2>5, <2>6, <2>7, <2>8, <2>9, <2>10, <2>11 DEF Next
<1> QED
  BY <1>1, <1>2, TypeCorrect, PTL DEF Spec

-----------------------------------------------------------------------------
(* Host routes                                                             *)

\* run_vpn of the attempt was started, now or earlier.
Launched(c) == phase[c] \in Running \cup Cleaning \cup {"ended", "dead"}

\* RouteRetractable needs to know that nothing adds routes for an attempt
\* before its run_vpn exists: neither a task, nor a published device, nor a
\* route that is already there.
RouteInv ==
    /\ \A a \in adders : Launched(a.conn)
    /\ \A c \in Conns : pub[c] # NoIface => Launched(c)
    /\ \A h \in Hosts, c \in Conns : route[h].owner = c => Launched(c)
    /\ RouteRetractable

Stays(c) == Launched(c)' /\ (phase'[c] \in Running => phase[c] \in Running)

\* A launched attempt stays launched, and does not run again once it ended.
LEMMA LaunchedStays ==
  ASSUME TypeOK, [Next]_vars, NEW c \in Conns, Launched(c)
  PROVE  Stays(c)
<1> USE DEF Launched, Stays
<1>1. ASSUME phase' = phase PROVE Stays(c)
  BY <1>1
<1>2. ASSUME NEW k \in Callers, NEW d \in Conns, TryClaimVacant(k, d)
      PROVE  Stays(c)
  BY <1>2 DEF TryClaimVacant, TypeOK, Running, Cleaning
<1>3. ASSUME NEW d \in Conns, StartConnection(d) PROVE Stays(c)
  BY <1>3 DEF StartConnection, StartConfig, StartAuth, StartSpawn, StartFails, TypeOK,
              Running, Cleaning, Starting
<1>4. ASSUME NEW d \in Conns, RunVpn(d) PROVE Stays(c)
  BY <1>4 DEF RunVpn, MgmtConnect, MgmtNeverUp, ReadLine, TakeControl, MgmtClosed,
              TypeOK, Running
<1>5. ASSUME NEW d \in Conns, Cleanup(d) PROVE Stays(c)
  BY <1>5 DEF Cleanup, CleanupUnmap, CleanupTakeRoutes, CleanupDelRoute,
              CleanupConfig, CleanupAuth, AuthRemoved, TypeOK, Running, Cleaning
<1>6. ASSUME NEW d \in Conns, OpenVpn(d) PROVE Stays(c)
  BY <1>6, <1>1 DEF OpenVpn, HelperExec, TunnelUp, ReportError, ProcExit, taskVars
<1>7. CASE ProcessGone
  BY <1>7 DEF ProcessGone, TypeOK, Running, Cleaning, Starting
<1>8. ASSUME NEW a \in adders, AddRoutes(a) PROVE Stays(c)
  BY <1>8, <1>1 DEF AddRoutes, FindInterface, RouteNotAdded, RouteAdded,
                    RouteRecorded, taskVars
<1>9. ASSUME NEW k \in Callers,
             \/ \E p \in Profiles : ConnectCheck(k, p)
             \/ TryClaimOccupied(k) \/ ConnectReturns(k)
      PROVE  Stays(c)
  BY <1>9, <1>1 DEF ConnectCheck, TryClaimOccupied, ConnectReturns, taskVars
<1>10. ASSUME \/ \E p \in Profiles : Disconnect(p)
              \/ \E h \in Hosts : EnsureHostRoute(h)
              \/ \E h \in Hosts, p \in Profiles \cup {NoProfile} : AssignHost(h, p)
              \/ DisconnectAll \/ SetupInstall \/ ExitRequested \/ Restart
       PROVE  Stays(c)
  BY <1>10, <1>1 DEF Disconnect, EnsureHostRoute, AssignHost, DisconnectAll,
                     SetupInstall, ExitRequested, Restart, taskVars
<1>11. CASE UNCHANGED vars
  BY <1>11, <1>1 DEF vars, taskVars
<1> QED
  BY <1>2, <1>3, <1>4, <1>5, <1>6, <1>7, <1>8, <1>9, <1>10, <1>11 DEF Next

\* No step loses a route that cleanup() has to retract.
LEMMA RouteStep == TypeOK /\ RouteInv /\ [Next]_vars => RouteInv'
<1> SUFFICES ASSUME TypeOK, RouteInv, [Next]_vars PROVE RouteInv'
  OBVIOUS
<1> USE ConstantsAssumption
<1>L. \A c \in Conns : Launched(c) => Stays(c)
  BY LaunchedStays
<1>T. /\ \A a \in adders : a \in Adder
      /\ \A a \in adders : a.cur # NoHost => a.dev # NoIface
      /\ \A h \in Hosts : route[h] \in Route
      /\ added \in [Conns -> SUBSET (Ifaces \X Hosts)]
      /\ pub \in [Conns -> Ifaces \cup {NoIface}]
  BY DEF TypeOK
<1> USE DEF RouteInv, RouteRetractable, Stays
<1>1. ASSUME UNCHANGED <<adders, pub, route, added>> PROVE RouteInv'
  <2>1. \A a \in adders : Launched(a.conn)'
    BY <1>L, <1>T DEF Adder
  <2>2. \A c \in Conns : pub[c] # NoIface => Launched(c)'
    BY <1>L
  <2>3. \A h \in Hosts, c \in Conns : route[h].owner = c => Launched(c)'
    BY <1>L, <1>T DEF Route
  <2> QED
    BY <1>1, <1>L, <1>T, <2>1, <2>2, <2>3 DEF Launched
<1>2. ASSUME NEW c \in Conns, ReadLine(c) PROVE RouteInv'
  <2>1. UNCHANGED <<phase, pub, route, added>> /\ adders \subseteq adders'
    BY <1>2 DEF ReadLine
  <2>2. \A a \in adders' : a \in adders \/ a.conn = c
    BY <1>2 DEF ReadLine
  <2>3. Launched(c)
    BY <1>2 DEF ReadLine, Launched, Running
  <2> QED
    BY <1>T, <2>1, <2>2, <2>3 DEF Launched
<1>3. ASSUME NEW c \in Conns, CleanupTakeRoutes(c) PROVE RouteInv'
  <2>1. UNCHANGED <<adders, pub, route>> /\ phase'[c] \notin Running
    BY <1>3 DEF CleanupTakeRoutes, TypeOK, Running
  <2>2. \A d \in Conns : d # c => added'[d] = added[d]
    BY <1>3, <1>T DEF CleanupTakeRoutes
  <2>3. \A a \in adders : Launched(a.conn)'
    BY <1>L, <1>T DEF Adder
  <2>4. \A h \in Hosts, d \in Conns : route[h].owner = d => Launched(d)'
    BY <1>L, <1>T DEF Route
  <2>5. RouteRetractable'
    BY <1>L, <1>T, <2>1, <2>2, <2>4 DEF Launched
  <2> QED
    BY <1>L, <1>T, <2>1, <2>3, <2>4, <2>5 DEF Launched
<1>4. ASSUME UNCHANGED <<phase, adders, pub, added>>,
             \A h \in Hosts : route'[h] \in {route[h], NoRoute}
      PROVE  RouteInv'
  BY <1>4, <1>T DEF NoRoute, Launched
<1>5. ASSUME NEW c \in Conns, CleanupDelRoute(c) PROVE RouteInv'
  BY <1>5, <1>4 DEF CleanupDelRoute, TypeOK, NoRoute
<1>6. ASSUME NEW c \in Conns, ProcExit(c) PROVE RouteInv'
  BY <1>6, <1>4 DEF ProcExit, TypeOK, taskVars
<1>7. ASSUME NEW a \in adders, FindInterface(a) PROVE RouteInv'
  <2>1. UNCHANGED <<phase, route, added>> /\ a.cur = NoHost /\ a.conn \in Conns
    BY <1>7, <1>T DEF FindInterface, Adder
  <2>2. \A b \in adders' : b.conn = a.conn \/ b \in adders
    BY <1>7, <1>T DEF FindInterface, Adder
  <2>3. \A b \in adders : b.cur # NoHost => b \in adders'
    BY <1>7, <2>1 DEF FindInterface
  <2>4. \A c \in Conns : pub'[c] # pub[c] => c = a.conn
    BY <1>7, <1>T DEF FindInterface
  <2> QED
    BY <1>T, <2>1, <2>2, <2>3, <2>4 DEF Launched
<1>8. ASSUME NEW a \in adders, RouteNotAdded(a) PROVE RouteInv'
  <2>1. UNCHANGED <<phase, pub, route, added>> /\ a.cur = NoHost
    BY <1>8 DEF RouteNotAdded, taskVars
  <2>2. \A b \in adders' : b.conn = a.conn \/ b \in adders
    BY <1>8, <1>T DEF RouteNotAdded, Continue, Adder
  <2>3. \A b \in adders : b.cur # NoHost => b \in adders'
    BY <1>8, <2>1 DEF RouteNotAdded, Continue
  <2> QED
    BY <1>T, <2>1, <2>2, <2>3 DEF Launched
<1>9. ASSUME NEW a \in adders, RouteAdded(a) PROVE RouteInv'
  <2>1. PICK h \in a.todo :
          /\ route' = [route EXCEPT ![h] = [dev |-> a.dev, owner |-> a.conn]]
          /\ adders' = (adders \ {a}) \cup {[a EXCEPT !.todo = @ \ {h}, !.cur = h]}
    BY <1>9 DEF RouteAdded
  <2> DEFINE b == [a EXCEPT !.todo = @ \ {h}, !.cur = h]
  <2>2. UNCHANGED <<phase, pub, added>> /\ a.cur = NoHost /\ h \in Hosts
    BY <1>9, <1>T DEF RouteAdded, taskVars, Adder
  <2>3. b.conn = a.conn /\ b.cur = h /\ b.dev = a.dev /\ a.conn \in Conns
    BY <1>T DEF Adder
  <2>4. b \in adders' /\ \A x \in adders' : x.conn = a.conn \/ x \in adders
    BY <2>1, <2>3
  <2>5. \A x \in adders : x.cur # NoHost => x \in adders'
    BY <2>1, <2>2
  <2>6. /\ route'[h] = [dev |-> a.dev, owner |-> a.conn]
        /\ \A g \in Hosts : g # h => route'[g] = route[g]
    BY <2>1, <2>2 DEF TypeOK
  <2> HIDE DEF b
  <2> QED
    BY <1>T, <2>2, <2>3, <2>4, <2>5, <2>6 DEF Launched
<1>10. ASSUME NEW a \in adders, RouteRecorded(a) PROVE RouteInv'
  <2>1. UNCHANGED <<phase, pub, route>> /\ a.conn \in Conns
    BY <1>10, <1>T DEF RouteRecorded, Adder
  <2>2. \A b \in adders' : b.conn = a.conn \/ b \in adders
    BY <1>10, <1>T DEF RouteRecorded, Continue, Adder
  <2>3. \A b \in adders : b # a => b \in adders'
    BY <1>10 DEF RouteRecorded, Continue
  <2>4. /\ <<a.dev, a.cur>> \in added'[a.conn]
        /\ \A c \in Conns : added[c] \subseteq added'[c]
    BY <1>10, <1>T, <2>1 DEF RouteRecorded, Remember
  <2> QED
    BY <1>T, <2>1, <2>2, <2>3, <2>4 DEF Launched
<1>11. ASSUME NEW h \in Hosts, EnsureHostRoute(h) PROVE RouteInv'
  <2> DEFINE c == IF hostVpn[h] = NoProfile THEN NoConn ELSE vpnMap[hostVpn[h]]
  <2>1. /\ c \in Conns /\ pub[c] # NoIface
        /\ adders' = adders \cup
               {[conn |-> c, dev |-> pub[c], todo |-> {h}, cur |-> NoHost]}
    BY <1>11 DEF EnsureHostRoute, TypeOK
  <2>2. UNCHANGED <<phase, pub, route, added>>
    BY <1>11 DEF EnsureHostRoute, taskVars
  <2> HIDE DEF c
  <2> QED
    BY <1>T, <2>1, <2>2 DEF Launched
<1>12. CASE ProcessGone
  <2>1. \A h \in Hosts, c \in Conns : route[h].owner = c => Launched(c)'
    BY <1>L, <1>T DEF Route
  <2>2. \A c \in Conns : phase'[c] \notin Running
    BY <1>12 DEF ProcessGone, TypeOK, Running, Starting, Cleaning
  <2> QED
    BY <1>12, <2>1, <2>2 DEF ProcessGone
<1>13. ASSUME NEW k \in Callers,
              \/ \E p \in Profiles : ConnectCheck(k, p)
              \/ TryClaimOccupied(k) \/ ConnectReturns(k)
              \/ \E c \in Conns : TryClaimVacant(k, c)
       PROVE  RouteInv'
  BY <1>13, <1>1 DEF ConnectCheck, TryClaimOccupied, ConnectReturns,
                     TryClaimVacant, taskVars
<1>14. ASSUME NEW c \in Conns,
              \/ StartConnection(c) \/ MgmtConnect(c) \/ MgmtNeverUp(c)
              \/ TakeControl(c) \/ MgmtClosed(c)
       PROVE  RouteInv'
  BY <1>14, <1>1 DEF StartConnection, StartConfig, StartAuth, StartSpawn, StartFails,
                     MgmtConnect, MgmtNeverUp, TakeControl, MgmtClosed
<1>15. ASSUME NEW c \in Conns,
              \/ CleanupUnmap(c) \/ CleanupConfig(c) \/ CleanupAuth(c)
              \/ HelperExec(c) \/ TunnelUp(c) \/ ReportError(c)
       PROVE  RouteInv'
  BY <1>15, <1>1 DEF CleanupUnmap, CleanupConfig, CleanupAuth, AuthRemoved, HelperExec, TunnelUp,
                     ReportError, taskVars
<1>16. ASSUME \/ \E p \in Profiles : Disconnect(p)
              \/ \E h \in Hosts, p \in Profiles \cup {NoProfile} : AssignHost(h, p)
              \/ DisconnectAll \/ SetupInstall \/ ExitRequested \/ Restart
       PROVE  RouteInv'
  BY <1>16, <1>1 DEF Disconnect, AssignHost, DisconnectAll, SetupInstall,
                     ExitRequested, Restart, taskVars
<1>17. CASE UNCHANGED vars
  BY <1>17, <1>1 DEF vars, taskVars
<1> QED
  BY <1>2, <1>3, <1>5, <1>6, <1>7, <1>8, <1>9, <1>10, <1>11, <1>12, <1>13, <1>14,
     <1>15, <1>16, <1>17 DEF Next, RunVpn, Cleanup, OpenVpn, AddRoutes

\* While a connection is tracked, each host route installed for it is on its
\* added_routes list or about to be put there, with any number of concurrent
\* add_host_routes and ensure_host_route tasks: cleanup() can retract it.
THEOREM RoutesRetractable == Spec => []RouteRetractable
<1>1. Init => RouteInv
  BY ConstantsAssumption DEF Init, RouteInv, RouteRetractable, NoRoute
<1>2. RouteInv => RouteRetractable
  BY DEF RouteInv
<1> QED
  BY <1>1, <1>2, RouteStep, TypeCorrect, PTL DEF Spec

-----------------------------------------------------------------------------
(* The files of a profile                                                  *)

\* FilesRemoved says nothing about how far cleanup() is: the .ovpn file an
\* attempt wrote is gone once it is past remove_file(config_path), and an .auth
\* file is only ever written by an attempt that will remove it.
ConfigWritten(c) == phase[c] \notin {"free", "claimed", "rmauth", "ended"}
AuthWritten(c) == phase[c] \notin {"free", "claimed", "configured", "ended"}

FileInv ==
    /\ \A p \in Profiles : cfgFile[p] # NoConn =>
          prof[cfgFile[p]] = p /\ ConfigWritten(cfgFile[p])
    /\ \A p \in Profiles : authFile[p] # NoConn =>
          prof[authFile[p]] = p /\ p \in AuthProfiles /\ AuthWritten(authFile[p])

\* No step of an attempt leaves a file behind that is not its own to remove.
LEMMA FileStep == TypeOK /\ FileInv /\ [Next]_vars => FileInv'
<1> SUFFICES ASSUME TypeOK, FileInv, [Next]_vars PROVE FileInv'
  OBVIOUS
<1> USE ConstantsAssumption DEF FileInv, ConfigWritten, AuthWritten
<1>T. /\ phase \in [Conns -> Phases] /\ prof \in [Conns -> Profiles \cup {NoProfile}]
      /\ \A c \in Conns : phase[c] # "free" => prof[c] \in Profiles
      /\ cfgFile \in [Profiles -> Conns \cup {NoConn}]
      /\ authFile \in [Profiles -> Conns \cup {NoConn}]
  BY DEF TypeOK
<1>1. ASSUME UNCHANGED <<phase, prof, cfgFile, authFile>> PROVE FileInv'
  BY <1>1
<1>2. ASSUME NEW k \in Callers, NEW c \in Conns, TryClaimVacant(k, c)
      PROVE  FileInv'
  BY <1>2, <1>T DEF TryClaimVacant, fileVars
<1>3. ASSUME NEW c \in Conns, StartConfig(c) PROVE FileInv'
  BY <1>3, <1>T DEF StartConfig
<1>4. ASSUME NEW c \in Conns, StartAuth(c) PROVE FileInv'
  <2>1. CASE prof[c] \in AuthProfiles
    BY <1>4, <2>1, <1>T DEF StartAuth
  <2>2. CASE prof[c] \notin AuthProfiles
    BY <1>4, <2>2, <1>T DEF StartAuth
  <2> QED
    BY <2>1, <2>2
\* The attempt goes on, or fails, with the files it has written.
<1>5. ASSUME NEW c \in Conns, UNCHANGED <<prof, cfgFile, authFile>>,
             \E to \in {"launching", "failed", "managed", "draining", "unmapped",
                        "derouting"} : phase' = [phase EXCEPT ![c] = to]
      PROVE  FileInv'
  BY <1>5, <1>T
<1>6. ASSUME NEW c \in Conns, StartSpawn(c) \/ StartFails(c) PROVE FileInv'
  BY <1>6, <1>5 DEF StartSpawn, StartFails, fileVars
<1>7. ASSUME NEW c \in Conns, RunVpn(c) PROVE FileInv'
  <2>1. CASE MgmtConnect(c) \/ MgmtNeverUp(c) \/ MgmtClosed(c)
    BY <2>1, <1>5 DEF MgmtConnect, MgmtNeverUp, MgmtClosed, fileVars
  <2>2. CASE ReadLine(c) \/ TakeControl(c)
    BY <2>2, <1>1 DEF ReadLine, TakeControl, fileVars
  <2> QED
    BY <1>7, <2>1, <2>2 DEF RunVpn
<1>8. ASSUME NEW c \in Conns, Cleanup(c) PROVE FileInv'
  <2>1. CASE CleanupUnmap(c) \/ CleanupTakeRoutes(c)
    BY <2>1, <1>5 DEF CleanupUnmap, CleanupTakeRoutes, fileVars
  <2>2. CASE CleanupDelRoute(c)
    BY <2>2, <1>1 DEF CleanupDelRoute, fileVars
  <2>3. CASE CleanupConfig(c)
    BY <2>3, <1>T DEF CleanupConfig
  <2>4. CASE CleanupAuth(c)
    BY <2>4, <1>T DEF CleanupAuth, AuthRemoved
  <2> QED
    BY <1>8, <2>1, <2>2, <2>3, <2>4 DEF Cleanup
<1>9. ASSUME NEW c \in Conns, OpenVpn(c) PROVE FileInv'
  BY <1>9, <1>1 DEF OpenVpn, HelperExec, TunnelUp, ReportError, ProcExit, taskVars,
                    fileVars
<1>10. CASE ProcessGone
  BY <1>10, <1>T DEF ProcessGone, fileVars, Starting, Running, Cleaning
<1>11. CASE Restart
  BY <1>11 DEF Restart
<1>12. ASSUME NEW a \in adders, AddRoutes(a) PROVE FileInv'
  BY <1>12, <1>1 DEF AddRoutes, FindInterface, RouteNotAdded, RouteAdded,
                     RouteRecorded, taskVars, fileVars
<1>13. ASSUME NEW k \in Callers,
              \/ \E p \in Profiles : ConnectCheck(k, p)
              \/ TryClaimOccupied(k) \/ ConnectReturns(k)
       PROVE  FileInv'
  BY <1>13, <1>1 DEF ConnectCheck, TryClaimOccupied, ConnectReturns, taskVars, fileVars
<1>14. ASSUME \/ \E p \in Profiles : Disconnect(p)
              \/ \E h \in Hosts : EnsureHostRoute(h)
              \/ \E h \in Hosts, p \in Profiles \cup {NoProfile} : AssignHost(h, p)
              \/ DisconnectAll \/ SetupInstall \/ ExitRequested
       PROVE  FileInv'
  BY <1>14, <1>1 DEF Disconnect, EnsureHostRoute, AssignHost, DisconnectAll,
                     SetupInstall, ExitRequested, taskVars, fileVars
<1>15. CASE UNCHANGED vars
  BY <1>15, <1>1 DEF vars, taskVars, fileVars
<1> QED
  BY <1>2, <1>3, <1>4, <1>6, <1>7, <1>8, <1>9, <1>10, <1>11, <1>12, <1>13, <1>14,
     <1>15 DEF Next, StartConnection

\* When cleanup() of an attempt is over, neither its configuration nor its
\* password is on disk, however many attempts of however many profiles overlap.
THEOREM FilesGone == Spec => []FilesRemoved
<1>1. Init => FileInv
  BY DEF Init, FileInv
<1>2. TypeOK /\ FileInv => FilesRemoved
  BY DEF FileInv, FilesRemoved, ConfigWritten, AuthWritten, TypeOK
<1> QED
  BY <1>1, <1>2, FileStep, TypeCorrect, PTL DEF Spec

-----------------------------------------------------------------------------
(* The gate of the frontend: its types for any number of hosts, handlers    *)
(* and polls; among others, no handler ever polls past its deadline         *)

CONSTANTS ProfileOf, Flows, Tabs, MaxPolls
VARIABLES vpn, signalled, cache, tabs, flow, closing, all, snapshot

Front == INSTANCE VpnGate

\* A handler that waits has an operation, a host and a count of its own.
LEMMA FlowTypes ==
    ASSUME Front!GateAssumption, Front!TypeOK, NEW f \in Flows, flow[f].pc # "idle"
    PROVE  flow[f] \in Front!Flow /\ Front!Profile(f) \in Profiles
<1>1. flow[f] \in Front!Flow \cup {Front!Idle}
  BY DEF Front!TypeOK
<1>2. Front!Idle.pc = "idle"
  BY DEF Front!Idle
<1>3. flow[f] \in Front!Flow
  BY <1>1, <1>2
<1> QED
  BY <1>3 DEF Front!GateAssumption, Front!Flow, Front!Profile

\* What a handler may become.
LEMMA FlowUpdates ==
    ASSUME Front!GateAssumption, NEW r \in Front!Flow
    PROVE  /\ \A v \in Front!Cached \cup {"thrown"} :
                [r EXCEPT !.pc = "answered", !.reply = v] \in Front!Flow
           /\ [r EXCEPT !.pc = "waiting"] \in Front!Flow
           /\ [r EXCEPT !.pc = "sleep", !.reply = "absent"] \in Front!Flow
           /\ r.polls < MaxPolls => [r EXCEPT !.pc = "asked", !.polls = r.polls + 1] \in Front!Flow
<1>1. \A v \in Front!Cached \cup {"thrown"} : [r EXCEPT !.pc = "answered", !.reply = v] \in Front!Flow
  BY DEF Front!Flow
<1>2. [r EXCEPT !.pc = "waiting"] \in Front!Flow
  BY DEF Front!Flow
<1>3. [r EXCEPT !.pc = "sleep", !.reply = "absent"] \in Front!Flow
  <2>1. "absent" \in Front!Cached \cup {"thrown"}
    BY DEF Front!Cached, Front!States
  <2> QED
    BY <2>1 DEF Front!Flow
<1>4. r.polls < MaxPolls => [r EXCEPT !.pc = "asked", !.polls = r.polls + 1] \in Front!Flow
  <2>1. r.polls \in 0..MaxPolls /\ MaxPolls \in Nat
    BY DEF Front!GateAssumption, Front!Flow
  <2>2. r.polls < MaxPolls => r.polls + 1 \in 0..MaxPolls
    BY <2>1
  <2> QED
    BY <2>2 DEF Front!Flow
<1> QED
  BY <1>1, <1>2, <1>3, <1>4

\* What a click makes of an idle one.
LEMMA FlowStart ==
    ASSUME Front!GateAssumption, NEW o \in Front!Ops, NEW h \in Hosts
    PROVE  [pc |-> "asked", op |-> o, host |-> h, reply |-> "absent", polls |-> 0] \in Front!Flow
<1>1. "absent" \in Front!Cached \cup {"thrown"} /\ 0 \in 0..MaxPolls
  BY DEF Front!GateAssumption, Front!Cached, Front!States
<1> QED
  BY <1>1 DEF Front!Flow

\* A sleeping handler has a poll left.
PollsLeft == \A f \in Flows : flow[f].pc = "sleep" => flow[f].polls < MaxPolls

GateInv == Front!TypeOK /\ PollsLeft

\* Nothing is open when the application starts.
LEMMA GateInvInit == Front!Init => GateInv
BY DEF Front!Init, GateInv, Front!TypeOK, PollsLeft, Front!States, Front!Cached, Front!Idle

\* Every step keeps the types and the deadline.
LEMMA GateInvNext ==
    ASSUME Front!GateAssumption
    PROVE  GateInv /\ [Front!Next]_(Front!vars) => GateInv'
<1> SUFFICES ASSUME GateInv, [Front!Next]_(Front!vars) PROVE GateInv'
  OBVIOUS
<1> USE DEF Front!GateAssumption
<1>t. Front!TypeOK /\ PollsLeft
  BY DEF GateInv
<1>i. Front!Idle.pc = "idle"
  BY DEF Front!Idle
<1>f. ASSUME NEW f \in Flows, NEW r \in Front!Flow \cup {Front!Idle}, flow' = [flow EXCEPT ![f] = r],
             r.pc = "sleep" => r.polls < MaxPolls
      PROVE  flow' \in [Flows -> Front!Flow \cup {Front!Idle}] /\ PollsLeft'
  BY <1>t, <1>f DEF Front!TypeOK, PollsLeft
<1>1. ASSUME NEW h \in Hosts, Front!GateOpen(h) PROVE GateInv'
  BY <1>t, <1>1
     DEF Front!GateOpen, Front!Proceed, Front!OnlyUse, Front!OpenTab, GateInv, Front!TypeOK,
         PollsLeft
<1>2. ASSUME NEW f \in Flows, NEW o \in Front!Ops, NEW h \in Hosts, Front!GateAsks(f, o, h) PROVE GateInv'
  <2> DEFINE r == [pc |-> "asked", op |-> o, host |-> h, reply |-> "absent", polls |-> 0]
  <2>1. r \in Front!Flow /\ r.pc = "asked"
    BY FlowStart
  <2>2. flow' = [flow EXCEPT ![f] = r]
    BY <1>2 DEF Front!GateAsks
  <2> HIDE DEF r
  <2>3. flow' \in [Flows -> Front!Flow \cup {Front!Idle}] /\ PollsLeft'
    BY <1>f, <2>1, <2>2
  <2> QED
    BY <1>t, <1>2, <2>3 DEF Front!GateAsks, GateInv, Front!TypeOK, Front!Cached, Front!States
<1>3. ASSUME NEW f \in Flows, Front!Answered(f) PROVE GateInv'
  <2>1. flow[f] \in Front!Flow /\ Front!Profile(f) \in Profiles
    BY <1>t, <1>3, FlowTypes DEF Front!Answered
  <2>2. /\ flow[f].host \in Hosts /\ flow[f].reply \in Front!Cached \cup {"thrown"}
        /\ flow[f].polls \in 0..MaxPolls
    BY <2>1 DEF Front!Flow
  <2>3. cache' \in [Profiles -> Front!Cached]
    BY <1>t, <1>3, <2>1, <2>2 DEF Front!Answered, Front!TypeOK
  <2>4. tabs' \in [Tabs -> Hosts \cup {NoHost}]
    BY <1>t, <1>3, <2>2 DEF Front!Answered, Front!Proceed, Front!OnlyUse, Front!OpenTab, Front!TypeOK
  <2>5. flow' \in [Flows -> Front!Flow \cup {Front!Idle}] /\ PollsLeft'
    <3>1. CASE flow' = [flow EXCEPT ![f] = Front!Idle]
      BY <1>f, <1>i, <3>1
    <3>2. CASE flow' = [flow EXCEPT ![f].pc = "sleep", ![f].reply = "absent"] /\ Front!BeforeDeadline(f)
      <4> DEFINE r == [flow[f] EXCEPT !.pc = "sleep", !.reply = "absent"]
      <4>1. r \in Front!Flow /\ r.polls = flow[f].polls
        BY <2>1, FlowUpdates DEF Front!Flow
      <4>2. flow' = [flow EXCEPT ![f] = r] /\ flow[f].polls < MaxPolls
        BY <1>t, <3>2 DEF Front!TypeOK, Front!BeforeDeadline
      <4> HIDE DEF r
      <4> QED
        BY <1>f, <4>1, <4>2
    <3> QED
      BY <1>3, <3>1, <3>2 DEF Front!Answered
  <2> QED
    BY <1>t, <1>3, <2>3, <2>4, <2>5 DEF Front!Answered, GateInv, Front!TypeOK
<1>4. ASSUME NEW f \in Flows, Front!Poll(f) PROVE GateInv'
  <2>1. flow[f] \in Front!Flow /\ Front!Profile(f) \in Profiles
    BY <1>t, <1>4, FlowTypes DEF Front!Poll
  <2> DEFINE r == [flow[f] EXCEPT !.pc = "asked", !.polls = flow[f].polls + 1]
  <2>2. r \in Front!Flow /\ r.pc = "asked"
    BY <1>t, <1>4, <2>1, FlowUpdates DEF Front!Poll, PollsLeft, Front!Flow
  <2>3. flow' = [flow EXCEPT ![f] = r]
    BY <1>t, <1>4 DEF Front!Poll, Front!TypeOK
  <2> HIDE DEF r
  <2>4. flow' \in [Flows -> Front!Flow \cup {Front!Idle}] /\ PollsLeft'
    BY <1>f, <2>2, <2>3
  <2> QED
    BY <1>t, <1>4, <2>1, <2>4 DEF Front!Poll, GateInv, Front!TypeOK, Front!Cached, Front!States
<1>5. ASSUME NEW f \in Flows, Front!BackendConnect(f) \/ Front!ConnectTimeout(f) PROVE GateInv'
  <2>1. flow[f] \in Front!Flow /\ Front!Profile(f) \in Profiles
    BY <1>t, <1>5, FlowTypes DEF Front!BackendConnect, Front!ConnectTimeout, Front!GivesUp
  <2>2. vpn[Front!Profile(f)] \in Front!Cached \cup {"thrown"}
    BY <1>t, <2>1 DEF Front!TypeOK, Front!Cached, Front!States
  <2>3. \E r \in Front!Flow : r.pc # "sleep" /\ flow' = [flow EXCEPT ![f] = r]
    <3>1. CASE flow' = [flow EXCEPT ![f].pc = "waiting"]
      <4> DEFINE r == [flow[f] EXCEPT !.pc = "waiting"]
      <4>1. r \in Front!Flow
        BY <2>1, FlowUpdates
      <4>2. flow' = [flow EXCEPT ![f] = r] /\ r.pc # "sleep"
        BY <1>t, <2>1, <3>1 DEF Front!TypeOK, Front!Flow
      <4> QED
        BY <4>1, <4>2
    <3>2. ASSUME NEW v \in Front!Cached \cup {"thrown"},
                 flow' = [flow EXCEPT ![f].pc = "answered", ![f].reply = v]
          PROVE  \E r \in Front!Flow : r.pc # "sleep" /\ flow' = [flow EXCEPT ![f] = r]
      <4> DEFINE r == [flow[f] EXCEPT !.pc = "answered", !.reply = v]
      <4>1. r \in Front!Flow
        BY <2>1, FlowUpdates
      <4>2. flow' = [flow EXCEPT ![f] = r] /\ r.pc # "sleep"
        BY <1>t, <2>1, <3>2 DEF Front!TypeOK, Front!Flow
      <4> QED
        BY <4>1, <4>2
    <3> QED
      BY <1>5, <2>2, <3>1, <3>2 DEF Front!BackendConnect, Front!ConnectTimeout
  <2>4. flow' \in [Flows -> Front!Flow \cup {Front!Idle}] /\ PollsLeft'
    BY <1>f, <2>3
  <2> QED
    BY <1>t, <1>5, <2>1, <2>4
       DEF Front!BackendConnect, Front!ConnectTimeout, GateInv, Front!TypeOK, Front!States
<1>6. ASSUME NEW p \in Profiles, NEW s \in Front!States, NEW r \in Front!Cached, Front!Becomes(p, s, r),
             UNCHANGED closing
      PROVE  GateInv'
  <2>1. \A f \in Flows : flow'[f] \in Front!Flow \cup {Front!Idle}
    <3> SUFFICES ASSUME NEW f \in Flows PROVE flow'[f] \in Front!Flow \cup {Front!Idle}
      OBVIOUS
    <3>1. CASE flow[f].pc = "waiting"
      <4>1. flow[f] \in Front!Flow
        BY <1>t, <3>1, FlowTypes
      <4>2. [flow[f] EXCEPT !.pc = "answered", !.reply = r] \in Front!Flow
        BY <4>1, FlowUpdates
      <4> QED
        BY <1>6, <4>1, <4>2 DEF Front!Becomes
    <3>2. CASE flow[f].pc # "waiting"
      BY <1>t, <1>6, <3>2 DEF Front!Becomes, Front!TypeOK
    <3> QED
      BY <3>1, <3>2
  <2>2. PollsLeft'
    <3> SUFFICES ASSUME NEW f \in Flows, flow'[f].pc = "sleep" PROVE flow'[f].polls < MaxPolls
      BY DEF PollsLeft
    <3>1. CASE flow[f].pc = "waiting" /\ Front!Profile(f) = p
      <4>1. flow[f] \in Front!Flow
        BY <1>t, <3>1, FlowTypes
      <4>2. flow'[f].pc = "answered"
        BY <1>6, <3>1, <4>1 DEF Front!Becomes, Front!Flow
      <4> QED
        BY <4>2
    <3>2. CASE ~(flow[f].pc = "waiting" /\ Front!Profile(f) = p)
      BY <1>t, <1>6, <3>2 DEF Front!Becomes, PollsLeft
    <3> QED
      BY <3>1, <3>2
  <2> QED
    BY <1>t, <1>6, <2>1, <2>2 DEF Front!Becomes, GateInv, Front!TypeOK
<1>7. ASSUME NEW p \in Profiles, Front!VpnUp(p) \/ Front!VpnFails(p) \/ Front!VpnDown(p) \/ Front!VpnDrops(p)
      PROVE  GateInv'
  BY <1>6, <1>7
     DEF Front!VpnUp, Front!VpnFails, Front!VpnDown, Front!VpnDrops, Front!States, Front!Cached
<1>8. ASSUME UNCHANGED flow PROVE PollsLeft'
  BY <1>t, <1>8 DEF PollsLeft
<1>9. ASSUME NEW t \in Tabs, Front!CloseTab(t) PROVE GateInv'
  BY <1>t, <1>8, <1>9 DEF Front!CloseTab, Front!Release, GateInv, Front!TypeOK
<1>10. ASSUME NEW p \in Profiles,
              \/ Front!ToggleOff(p) \/ Front!DisconnectDone(p) \/ Front!BackendDisconnect(p) \/ Front!VpnStops(p)
       PROVE  GateInv'
  BY <1>t, <1>8, <1>10
     DEF Front!ToggleOff, Front!DisconnectDone, Front!BackendDisconnect, Front!VpnStops, GateInv,
         Front!TypeOK,
                           Front!Cached, Front!States
<1>11. CASE Front!DisconnectAll \/ Front!DisconnectAllDone \/ Front!BackendDisconnectAll
  BY <1>t, <1>8, <1>11
     DEF Front!DisconnectAll, Front!DisconnectAllDone, Front!BackendDisconnectAll, GateInv,
         Front!TypeOK,
                           Front!Cached, Front!States
<1>12. CASE Front!RefreshActive \/ Front!LoadAll \/ Front!RefreshDone
  BY <1>t, <1>8, <1>12
     DEF Front!RefreshActive, Front!LoadAll, Front!List, Front!RefreshDone, GateInv, Front!TypeOK,
         Front!Cached
<1>13. CASE UNCHANGED Front!vars
  BY <1>t, <1>8, <1>13 DEF Front!vars, GateInv, Front!TypeOK
<1> QED
  BY <1>1, <1>2, <1>3, <1>4, <1>5, <1>7, <1>9, <1>10, <1>11, <1>12, <1>13
     DEF Front!Next, Front!Click, Front!Gate, Front!Disconnect, Front!Stop, Front!DisconnectEverything

\* Types, with the number of polls of every gate below its deadline, whatever
\* answers ensureVpnUp gets and however many gates, clicks and tabs there are.
THEOREM GateTypes ==
    ASSUME Front!GateAssumption
    PROVE  Front!Spec => []Front!TypeOK
<1>1. GateInv => Front!TypeOK
  BY DEF GateInv
<1> QED
  BY <1>1, GateInvInit, GateInvNext, PTL DEF Front!Spec
=============================================================================
