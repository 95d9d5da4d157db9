--------------------------- MODULE VpnConnections ---------------------------
(***************************************************************************)
(* The backend's table of live OpenVPN connections (src-tauri/src/vpn/     *)
(* mod.rs): connect / disconnect commands, the run_vpn task of every       *)
(* attempt, the tasks that install host routes, the openvpn processes and  *)
(* the kernel state they share, and the exit of the application.           *)
(*                                                                         *)
(* Several commands run at once on the threads of the Tauri runtime, so    *)
(* every step between two points where another thread can get in is an     *)
(* action of its own.  One element of Conns stands for everything that one *)
(* successful claim creates: the ActiveVpn entry with its Arcs, the        *)
(* run_vpn task and the pkexec/openvpn child.                              *)
(***************************************************************************)
EXTENDS Naturals, Sequences, FiniteSets

CONSTANTS
    Profiles,      \* ids of VPN profiles
    AuthProfiles,  \* those with a stored username and password
    Hosts,         \* hosts; one IPv4 address each
    Callers,       \* threads that call connect()
    Conns,         \* ids of connection attempts (bounds their number)
    Ifaces,        \* names the kernel gives to tun devices
    MaxLines,      \* bound: unread lines on a management socket
    MaxCtl,        \* bound: unread Disconnect messages of an attempt
    MgmtMayDrop,   \* may the management socket close under a live openvpn?
    MayStop,       \* may the application exit or be killed?
    NoConn, NoHost, NoIface, NoProfile, NoStatus

VpnState == {"connecting", "connected", "disconnecting", "disconnected", "error"}

ASSUME ConstantsAssumption ==
    /\ AuthProfiles \subseteq Profiles
    /\ MaxLines \in Nat /\ MaxCtl \in Nat
    /\ MgmtMayDrop \in BOOLEAN /\ MayStop \in BOOLEAN
    /\ NoConn \notin Conns /\ NoHost \notin Hosts
    /\ NoIface \notin Ifaces /\ NoProfile \notin Profiles
    /\ NoStatus \notin VpnState

VARIABLES
    app,        \* "running", "exiting" (ExitRequested seen) or "down"
    installed,  \* setup::is_installed()
    hostVpn,    \* hosts.vpn_profile_id in the database
    vpnMap,     \* the VpnMap: profile -> attempt that holds its entry
    callPc, callFor,              \* connect() calls
    phase, prof,                  \* an attempt: where its code is, its profile
    status, ctl, ready, targets,  \* its Arc<status>, control and ready channels
    pub, added, dels,             \* its tun_iface, added_routes, taken routes
    proc, lines, sigterm, iface,  \* its openvpn process, socket and tun device
    adders,                       \* add_host_routes / ensure_host_route tasks
    route,                        \* kernel /32 routes
    cfgFile, authFile             \* whose .ovpn / .auth file is on disk

callVars == <<callPc, callFor>>
taskVars == <<phase, prof, status, ctl, ready, targets, pub, added, dels>>
procVars == <<proc, lines, sigterm, iface>>
fileVars == <<cfgFile, authFile>>
vars == <<app, installed, hostVpn, vpnMap, callVars, taskVars, procVars,
          adders, route, fileVars>>

\* A line openvpn writes to its management socket, while someone reads it.
Emit(c, line) ==
    IF phase[c] \in {"launching", "managed"}
    THEN /\ Len(lines[c]) < MaxLines
         /\ lines' = [lines EXCEPT ![c] = Append(@, line)]
    ELSE UNCHANGED lines

\* Where the code of an attempt is.  Starting: start_connection, between its
\* fallible steps.  Running: the run_vpn task up to child.wait().  Cleaning:
\* cleanup().  "dead": the application went away under the attempt.
Starting == {"claimed", "configured", "authed"}
Running  == {"launching", "managed", "draining"}
Cleaning == {"unmapped", "derouting", "rmauth"}
Finished == {"failed", "ended", "dead"}
Phases   == {"free"} \cup Starting \cup Running \cup Cleaning \cup Finished

Alive == {"pkexec", "up", "tunnel"}   \* pkexec, openvpn, openvpn with a tunnel

Adder == [conn : Conns, dev : Ifaces \cup {NoIface}, todo : SUBSET Hosts,
          cur : Hosts \cup {NoHost}]
Route == [dev : Ifaces \cup {NoIface}, owner : Conns \cup {NoConn}]
NoRoute == [dev |-> NoIface, owner |-> NoConn]

TypeOK ==
    /\ app \in {"running", "exiting", "down"}
    /\ installed \in BOOLEAN
    /\ hostVpn \in [Hosts -> Profiles \cup {NoProfile}]
    /\ vpnMap \in [Profiles -> Conns \cup {NoConn}]
    /\ callPc \in [Callers -> {"idle", "checked", "waiting"}]
    /\ callFor \in [Callers -> Profiles \cup Conns \cup {NoConn}]
    /\ \A k \in Callers : /\ callPc[k] = "checked" => callFor[k] \in Profiles
                          /\ callPc[k] = "waiting" => callFor[k] \in Conns
    /\ phase \in [Conns -> Phases]
    /\ prof \in [Conns -> Profiles \cup {NoProfile}]
    /\ \A c \in Conns : phase[c] # "free" => prof[c] \in Profiles
    /\ status \in [Conns -> VpnState]
    /\ ctl \in [Conns -> Nat]
    /\ ready \in [Conns -> VpnState \cup {NoStatus}]
    /\ targets \in [Conns -> SUBSET Hosts]
    /\ pub \in [Conns -> Ifaces \cup {NoIface}]
    /\ added \in [Conns -> SUBSET (Ifaces \X Hosts)]
    /\ dels \in [Conns -> SUBSET (Ifaces \X Hosts)]
    /\ proc \in [Conns -> {"none", "gone"} \cup Alive]
    /\ lines \in [Conns -> Seq({"CONNECTED", "ERROR"})]
    /\ sigterm \in [Conns -> BOOLEAN]
    /\ iface \in [Conns -> Ifaces \cup {NoIface}]
    /\ adders \subseteq Adder
    /\ \A a \in adders : a.cur # NoHost => a.dev # NoIface
    /\ route \in [Hosts -> Route]
    /\ cfgFile \in [Profiles -> Conns \cup {NoConn}]
    /\ authFile \in [Profiles -> Conns \cup {NoConn}]

Init ==
    /\ app = "running"
    /\ installed \in BOOLEAN
    /\ hostVpn \in [Hosts -> Profiles \cup {NoProfile}]
    /\ vpnMap = [p \in Profiles |-> NoConn]
    /\ callPc = [k \in Callers |-> "idle"]
    /\ callFor = [k \in Callers |-> NoConn]
    /\ phase = [c \in Conns |-> "free"]
    /\ prof = [c \in Conns |-> NoProfile]
    /\ status = [c \in Conns |-> "disconnected"]
    /\ ctl = [c \in Conns |-> 0]
    /\ ready = [c \in Conns |-> NoStatus]
    /\ targets = [c \in Conns |-> {}]
    /\ pub = [c \in Conns |-> NoIface]
    /\ added = [c \in Conns |-> {}]
    /\ dels = [c \in Conns |-> {}]
    /\ proc = [c \in Conns |-> "none"]
    /\ lines = [c \in Conns |-> <<>>]
    /\ sigterm = [c \in Conns |-> FALSE]
    /\ iface = [c \in Conns |-> NoIface]
    /\ adders = {}
    /\ route = [h \in Hosts |-> NoRoute]
    /\ cfgFile = [p \in Profiles |-> NoConn]
    /\ authFile = [p \in Profiles |-> NoConn]

-----------------------------------------------------------------------------
(* connect(), disconnect(), disconnect_all()                               *)

\* connect() up to the claim.  An entry that is coming up, up or going down is
\* answered with its status, and without the polkit setup the call fails:
\* either way it returns and changes nothing.
ConnectCheck(k, p) ==
    /\ app = "running" /\ callPc[k] = "idle"
    /\ ~(vpnMap[p] # NoConn /\
         status[vpnMap[p]] \in {"connecting", "connected", "disconnecting"})
    /\ installed
    /\ callPc' = [callPc EXCEPT ![k] = "checked"]
    /\ callFor' = [callFor EXCEPT ![k] = p]
    /\ UNCHANGED <<app, installed, hostVpn, vpnMap, taskVars, procVars, adders,
                   route, fileVars>>

\* try_claim found the slot Occupied: the call returns the entry's status.
TryClaimOccupied(k) ==
    /\ callPc[k] = "checked" /\ vpnMap[callFor[k]] # NoConn
    /\ callPc' = [callPc EXCEPT ![k] = "idle"]
    /\ callFor' = [callFor EXCEPT ![k] = NoConn]
    /\ UNCHANGED <<app, installed, hostVpn, vpnMap, taskVars, procVars, adders,
                   route, fileVars>>

\* Entry::Vacant; the claim of a racy get-then-insert instead.
VacantRacy(p) == TRUE
Vacant(p) == vpnMap[p] = NoConn

\* try_claim found the slot Vacant: the test and the insert are one DashMap
\* entry operation, so they are one step here.
TryClaimVacant(k, c) ==
    LET p == callFor[k]
    IN  /\ callPc[k] = "checked" /\ phase[c] = "free"
        /\ Vacant(p)
        /\ vpnMap' = [vpnMap EXCEPT ![p] = c]
        /\ phase' = [phase EXCEPT ![c] = "claimed"]
        /\ prof' = [prof EXCEPT ![c] = p]
        /\ status' = [status EXCEPT ![c] = "connecting"]
        /\ callPc' = [callPc EXCEPT ![k] = "waiting"]
        /\ callFor' = [callFor EXCEPT ![k] = c]
        /\ UNCHANGED <<app, installed, hostVpn, ctl, ready, targets, pub,
                       added, dels, procVars, adders, route, fileVars>>

\* vpn_map.remove(&profile_id), and the same forgotten.
UnmapForgotten(c) == UNCHANGED vpnMap
Unmap(c) == vpnMap' = [vpnMap EXCEPT ![prof[c]] = NoConn]

\* start_connection: profile and credentials are read from the database, the
\* hosts to route are snapshotted, and <profile>.ovpn is written.
StartConfig(c) ==
    /\ phase[c] = "claimed"
    /\ targets' = [targets EXCEPT ![c] = {h \in Hosts : hostVpn[h] = prof[c]}]
    /\ cfgFile' = [cfgFile EXCEPT ![prof[c]] = c]
    /\ phase' = [phase EXCEPT ![c] = "configured"]
    /\ UNCHANGED <<app, installed, hostVpn, vpnMap, callVars, prof, status, ctl,
                   ready, pub, added, dels, procVars, adders, route, authFile>>

\* start_connection: <profile>.auth is written if the profile has credentials.
StartAuth(c) ==
    /\ phase[c] = "configured"
    /\ authFile' = IF prof[c] \in AuthProfiles
                   THEN [authFile EXCEPT ![prof[c]] = c] ELSE authFile
    /\ phase' = [phase EXCEPT ![c] = "authed"]
    /\ UNCHANGED <<app, installed, hostVpn, vpnMap, callVars, prof, status, ctl,
                   ready, targets, pub, added, dels, procVars, adders, route,
                   cfgFile>>

\* start_connection: pkexec is spawned and run_vpn takes over.
StartSpawn(c) ==
    /\ phase[c] = "authed"
    /\ phase' = [phase EXCEPT ![c] = "launching"]
    /\ proc' = [proc EXCEPT ![c] = "pkexec"]
    /\ UNCHANGED <<app, installed, hostVpn, vpnMap, callVars, prof, status, ctl,
                   ready, targets, pub, added, dels, lines, sigterm, iface,
                   adders, route, fileVars>>

\* Any step of start_connection before the spawn may fail (locked vault,
\* deleted profile, full disk, no pkexec): connect() drops its claim and
\* reports the error.  Files already written stay.
StartFails(c) ==
    /\ phase[c] \in Starting
    /\ phase' = [phase EXCEPT ![c] = "failed"]
    /\ Unmap(c)
    /\ \E k \in Callers :
        /\ callPc[k] = "waiting" /\ callFor[k] = c
        /\ callPc' = [callPc EXCEPT ![k] = "idle"]
        /\ callFor' = [callFor EXCEPT ![k] = NoConn]
    /\ UNCHANGED <<app, installed, hostVpn, prof, status, ctl, ready, targets,
                   pub, added, dels, procVars, adders, route, fileVars>>

\* start_connection waits for the first Connected/Error, at most 25 seconds,
\* and returns that status or, after the timeout, the current one.
ConnectReturns(k) ==
    /\ callPc[k] = "waiting" /\ phase[callFor[k]] \notin Starting
    /\ callPc' = [callPc EXCEPT ![k] = "idle"]
    /\ callFor' = [callFor EXCEPT ![k] = NoConn]
    /\ UNCHANGED <<app, installed, hostVpn, vpnMap, taskVars, procVars, adders,
                   route, fileVars>>

\* disconnect(): one message on the entry's control channel, or nothing.
Disconnect(p) ==
    /\ app = "running" /\ vpnMap[p] # NoConn /\ ctl[vpnMap[p]] < MaxCtl
    /\ ctl' = [ctl EXCEPT ![vpnMap[p]] = @ + 1]
    /\ UNCHANGED <<app, installed, hostVpn, vpnMap, callVars, phase, prof, status,
                   ready, targets, pub, added, dels, procVars, adders, route,
                   fileVars>>

\* disconnect_all(): the same message to every entry of the table.
SignalAll(f) ==
    [c \in Conns |-> IF \E p \in Profiles : vpnMap[p] = c
                     THEN f[c] + 1 ELSE f[c]]

DisconnectAll ==
    /\ app = "running"
    /\ \A p \in Profiles : vpnMap[p] # NoConn => ctl[vpnMap[p]] < MaxCtl
    /\ \E p \in Profiles : vpnMap[p] # NoConn
    /\ ctl' = SignalAll(ctl)
    /\ UNCHANGED <<app, installed, hostVpn, vpnMap, callVars, phase, prof, status,
                   ready, targets, pub, added, dels, procVars, adders, route,
                   fileVars>>

-----------------------------------------------------------------------------
(* The run_vpn task                                                        *)

\* The retry loop around TcpStream::connect reaches the management port.
MgmtConnect(c) ==
    /\ phase[c] = "launching" /\ proc[c] \in {"up", "tunnel"}
    /\ phase' = [phase EXCEPT ![c] = "managed"]
    /\ UNCHANGED <<app, installed, hostVpn, vpnMap, callVars, prof, status, ctl,
                   ready, targets, pub, added, dels, procVars, adders, route,
                   fileVars>>

\* ready_tx.take() and send, and the same forgotten.
AnswerForgotten(c, s) == UNCHANGED ready
Answer(c, s) == ready' = [ready EXCEPT ![c] = IF @ = NoStatus THEN s ELSE @]

\* The same loop sees that the child is gone (child.try_wait()).
MgmtNeverUp(c) ==
    /\ phase[c] = "launching" /\ proc[c] = "gone"
    /\ phase' = [phase EXCEPT ![c] = "draining"]
    /\ status' = [status EXCEPT ![c] = "error"]
    /\ Answer(c, "error")
    /\ UNCHANGED <<app, installed, hostVpn, vpnMap, callVars, prof, ctl, targets,
                   pub, added, dels, procVars, adders, route, fileVars>>

\* parse_management_line on the lines that change anything.
Parsed(line) == IF line = "CONNECTED" THEN "connected" ELSE "error"

\* select!, line branch: the status follows the line; CONNECTED also spawns
\* add_host_routes for the hosts snapshotted by start_connection.
ReadLine(c) ==
    LET s == Parsed(Head(lines[c]))
        pass == [conn |-> c, dev |-> NoIface, todo |-> targets[c], cur |-> NoHost]
    IN  /\ phase[c] = "managed" /\ lines[c] # <<>>
        /\ lines' = [lines EXCEPT ![c] = Tail(@)]
        /\ status' = [status EXCEPT ![c] = s]
        /\ Answer(c, s)
        /\ adders' = IF s = "connected" THEN adders \cup {pass} ELSE adders
        /\ UNCHANGED <<app, installed, hostVpn, vpnMap, callVars, phase, prof, ctl,
                       targets, pub, added, dels, proc, sigterm, iface, route,
                       fileVars>>

\* control_rx.recv() yields a message.
Receives(c) == ctl[c] > 0

\* "signal SIGTERM" on the management socket, and the same forgotten.
SendSigtermForgotten(c) == UNCHANGED sigterm
SendSigterm(c) == sigterm' = [sigterm EXCEPT ![c] = TRUE]

\* select!, control branch: Disconnect becomes SIGTERM over the socket.
TakeControl(c) ==
    /\ phase[c] = "managed" /\ Receives(c)
    /\ ctl' = [ctl EXCEPT ![c] = @ - 1]
    /\ status' = [status EXCEPT ![c] = "disconnecting"]
    /\ SendSigterm(c)
    /\ UNCHANGED <<app, installed, hostVpn, vpnMap, callVars, phase, prof, ready,
                   targets, pub, added, dels, proc, lines, iface, adders, route,
                   fileVars>>

\* select!, end of the socket: an error stays, anything else is Disconnected;
\* lines not read yet never will be.
MgmtClosed(c) ==
    LET s == IF status[c] = "error" THEN "error" ELSE "disconnected"
    IN  /\ phase[c] = "managed"
        /\ (proc[c] = "gone" /\ lines[c] = <<>>) \/ MgmtMayDrop
        /\ phase' = [phase EXCEPT ![c] = "draining"]
        /\ status' = [status EXCEPT ![c] = s]
        /\ Answer(c, s)
        /\ lines' = [lines EXCEPT ![c] = <<>>]
        /\ UNCHANGED <<app, installed, hostVpn, vpnMap, callVars, prof, ctl,
                       targets, pub, added, dels, proc, sigterm, iface, adders,
                       route, fileVars>>

\* child.wait() returns; or is not awaited at all.
NotWaited(c) == TRUE
ChildWaited(c) == proc[c] = "gone"

\* child.wait() is over; cleanup() first removes the profile's table entry.
CleanupUnmap(c) ==
    /\ phase[c] = "draining" /\ ChildWaited(c)
    /\ Unmap(c)
    /\ phase' = [phase EXCEPT ![c] = "unmapped"]
    /\ UNCHANGED <<app, installed, hostVpn, callVars, prof, status, ctl, ready,
                   targets, pub, added, dels, procVars, adders, route, fileVars>>

\* remove_host_routes: the list is taken; without the helper nothing follows.
CleanupTakeRoutes(c) ==
    /\ phase[c] = "unmapped"
    /\ dels' = [dels EXCEPT ![c] = IF installed THEN added[c] ELSE {}]
    /\ added' = [added EXCEPT ![c] = {}]
    /\ phase' = [phase EXCEPT ![c] = "derouting"]
    /\ UNCHANGED <<app, installed, hostVpn, vpnMap, callVars, prof, status, ctl,
                   ready, targets, pub, procVars, adders, route, fileVars>>

\* remove_host_routes: one `ip route del <ip>/32 dev <iface>`.
CleanupDelRoute(c) ==
    /\ phase[c] = "derouting"
    /\ \E r \in dels[c] :
        /\ dels' = [dels EXCEPT ![c] = @ \ {r}]
        /\ route' = IF route[r[2]].dev = r[1]
                    THEN [route EXCEPT ![r[2]] = NoRoute] ELSE route
    /\ UNCHANGED <<app, installed, hostVpn, vpnMap, callVars, phase, prof, status,
                   ctl, ready, targets, pub, added, procVars, adders, fileVars>>

\* cleanup(): the .ovpn file, whoever wrote it, is removed ...
CleanupConfig(c) ==
    /\ phase[c] = "derouting" /\ dels[c] = {}
    /\ cfgFile' = [cfgFile EXCEPT ![prof[c]] = NoConn]
    /\ phase' = [phase EXCEPT ![c] = "rmauth"]
    /\ UNCHANGED <<app, installed, hostVpn, vpnMap, callVars, prof, status, ctl,
                   ready, targets, pub, added, dels, procVars, adders, route,
                   authFile>>

\* remove_file(auth_path), and the same forgotten.
AuthLeft(c) == authFile
AuthRemoved(c) == IF prof[c] \in AuthProfiles
                  THEN [authFile EXCEPT ![prof[c]] = NoConn] ELSE authFile

\* ... and then the .auth file, if this attempt wrote one.  The task returns;
\* its end of the control channel goes with it.
CleanupAuth(c) ==
    /\ phase[c] = "rmauth"
    /\ authFile' = AuthRemoved(c)
    /\ phase' = [phase EXCEPT ![c] = "ended"]
    /\ ctl' = [ctl EXCEPT ![c] = 0]
    /\ UNCHANGED <<app, installed, hostVpn, vpnMap, callVars, prof, status,
                   ready, targets, pub, added, dels, procVars, adders, route,
                   cfgFile>>

-----------------------------------------------------------------------------
(* Host routes                                                             *)

\* Task a goes on as b, or returns when nothing is left to do.
Continue(a, b) ==
    adders' = (adders \ {a}) \cup
              (IF b.todo = {} /\ b.cur = NoHost THEN {} ELSE {b})

\* add_host_routes: returns at once without hosts; otherwise looks for the
\* tun device of the tunnel address and publishes it.
FindInterface(a) ==
    LET d == iface[a.conn]
        found == a.todo # {} /\ d # NoIface
    IN  /\ a.dev = NoIface
        /\ adders' = (adders \ {a}) \cup (IF found THEN {[a EXCEPT !.dev = d]} ELSE {})
        /\ pub' = IF found THEN [pub EXCEPT ![a.conn] = d] ELSE pub
        /\ UNCHANGED <<app, installed, hostVpn, vpnMap, callVars, phase, prof,
                       status, ctl, ready, targets, added, dels, procVars, route,
                       fileVars>>

\* add_routes_for_hostname: the name does not resolve, the helper is missing,
\* or `ip route replace` fails.
RouteNotAdded(a) ==
    /\ a.dev # NoIface /\ a.cur = NoHost
    /\ \E h \in a.todo : Continue(a, [a EXCEPT !.todo = @ \ {h}])
    /\ UNCHANGED <<app, installed, hostVpn, vpnMap, callVars, taskVars, procVars,
                   route, fileVars>>

\* add_routes_for_hostname: `ip route replace` succeeds, on a device of that
\* name that exists now.
RouteAdded(a) ==
    /\ a.dev # NoIface /\ a.cur = NoHost /\ installed
    /\ \E c \in Conns : iface[c] = a.dev
    /\ \E h \in a.todo :
        /\ route' = [route EXCEPT ![h] = [dev |-> a.dev, owner |-> a.conn]]
        /\ adders' = (adders \ {a}) \cup
                     {[a EXCEPT !.todo = @ \ {h}, !.cur = h]}
    /\ UNCHANGED <<app, installed, hostVpn, vpnMap, callVars, taskVars, procVars,
                   fileVars>>

\* added_routes.push, and the same forgotten.
RememberForgotten(a) == UNCHANGED added
Remember(a) == added' = [added EXCEPT ![a.conn] = @ \cup {<<a.dev, a.cur>>}]

\* add_routes_for_hostname: only then is the route remembered for removal.
RouteRecorded(a) ==
    /\ a.cur # NoHost
    /\ Remember(a)
    /\ Continue(a, [a EXCEPT !.cur = NoHost])
    /\ UNCHANGED <<app, installed, hostVpn, vpnMap, callVars, phase, prof, status,
                   ctl, ready, targets, pub, dels, procVars, route, fileVars>>

\* ensure_host_route: a no-op unless the host's profile is connected and its
\* device is known; otherwise the route is added on demand.
EnsureHostRoute(h) ==
    LET p == hostVpn[h]
        c == IF p = NoProfile THEN NoConn ELSE vpnMap[p]
    IN  /\ app = "running" /\ c # NoConn
        /\ status[c] = "connected" /\ pub[c] # NoIface
        /\ adders' = adders \cup
             {[conn |-> c, dev |-> pub[c], todo |-> {h}, cur |-> NoHost]}
        /\ UNCHANGED <<app, installed, hostVpn, vpnMap, callVars, taskVars,
                       procVars, route, fileVars>>

-----------------------------------------------------------------------------
(* Database, setup, application exit                                       *)

\* host_update / host_create with a VPN profile (data/hosts.rs).
AssignHost(h, p) ==
    /\ app = "running" /\ hostVpn[h] # p
    /\ hostVpn' = [hostVpn EXCEPT ![h] = p]
    /\ UNCHANGED <<app, installed, vpnMap, callVars, taskVars, procVars, adders,
                   route, fileVars>>

\* setup::install(): one pkexec run installs every helper and policy.
SetupInstall ==
    /\ app = "running" /\ ~installed
    /\ installed' = TRUE
    /\ UNCHANGED <<app, hostVpn, vpnMap, callVars, taskVars, procVars, adders,
                   route, fileVars>>

\* RunEvent::ExitRequested: disconnect_all, then the event loop winds down.
ExitRequested ==
    /\ MayStop /\ app = "running"
    /\ \A p \in Profiles : vpnMap[p] # NoConn => ctl[vpnMap[p]] < MaxCtl
    /\ app' = "exiting"
    /\ ctl' = SignalAll(ctl)
    /\ UNCHANGED <<installed, hostVpn, vpnMap, callVars, phase, prof, status,
                   ready, targets, pub, added, dels, procVars, adders, route,
                   fileVars>>

\* The process goes away, after ExitRequested or because it was killed: every
\* task, the table and its Arcs are gone, openvpn and the files are not.
ProcessGone ==
    LET gone == {c \in Conns : phase[c] \in Starting \cup Running \cup Cleaning}
    IN  /\ MayStop /\ app \in {"running", "exiting"}
        /\ app' = "down"
        /\ vpnMap' = [p \in Profiles |-> NoConn]
        /\ callPc' = [k \in Callers |-> "idle"]
        /\ callFor' = [k \in Callers |-> NoConn]
        /\ phase' = [c \in Conns |-> IF c \in gone THEN "dead" ELSE phase[c]]
        /\ status' = [c \in Conns |-> "disconnected"]
        /\ ctl' = [c \in Conns |-> 0]
        /\ targets' = [c \in Conns |-> {}]
        /\ pub' = [c \in Conns |-> NoIface]
        /\ added' = [c \in Conns |-> {}]
        /\ dels' = [c \in Conns |-> {}]
        /\ lines' = [c \in Conns |-> <<>>]
        /\ adders' = {}
        /\ UNCHANGED <<installed, hostVpn, prof, ready, proc, sigterm, iface,
                       route, fileVars>>

\* AppState::new: an empty table, and cleanup_stale_profile_files.
Restart ==
    /\ app = "down"
    /\ app' = "running"
    /\ cfgFile' = [p \in Profiles |-> NoConn]
    /\ authFile' = [p \in Profiles |-> NoConn]
    /\ UNCHANGED <<installed, hostVpn, vpnMap, callVars, taskVars, procVars,
                   adders, route>>

-----------------------------------------------------------------------------
(* The openvpn process and the kernel (external)                           *)

\* The helper execs openvpn, which reads its configuration, or not: polkit
\* refuses, or the file is not there.
HelperExec(c) ==
    /\ proc[c] = "pkexec"
    /\ proc' = [proc EXCEPT ![c] = IF cfgFile[prof[c]] = NoConn THEN "gone" ELSE "up"]
    /\ UNCHANGED <<app, installed, hostVpn, vpnMap, callVars, taskVars, lines,
                   sigterm, iface, adders, route, fileVars>>

\* The tunnel comes up on a free device, or comes up again after a restart.
TunnelUp(c) ==
    /\ proc[c] \in {"up", "tunnel"}
    /\ \E d \in Ifaces :
        /\ \/ proc[c] = "tunnel" /\ d = iface[c]
           \/ proc[c] = "up" /\ \A e \in Conns : iface[e] # d
        /\ iface' = [iface EXCEPT ![c] = d]
    /\ proc' = [proc EXCEPT ![c] = "tunnel"]
    /\ Emit(c, "CONNECTED")
    /\ UNCHANGED <<app, installed, hostVpn, vpnMap, callVars, taskVars, sigterm,
                   adders, route, fileVars>>

\* A >FATAL or AUTH_FAILED line; openvpn has not exited yet.
ReportError(c) ==
    /\ proc[c] \in {"up", "tunnel"}
    /\ Emit(c, "ERROR")
    /\ UNCHANGED <<app, installed, hostVpn, vpnMap, callVars, taskVars, proc,
                   sigterm, iface, adders, route, fileVars>>

\* The process ends (SIGTERM, an error, polkit refused); the kernel drops its
\* tun device and the routes through it.
ProcExit(c) ==
    /\ proc[c] \in Alive
    /\ proc' = [proc EXCEPT ![c] = "gone"]
    /\ iface' = [iface EXCEPT ![c] = NoIface]
    /\ route' = [h \in Hosts |->
                   IF iface[c] # NoIface /\ route[h].dev = iface[c]
                   THEN NoRoute ELSE route[h]]
    /\ UNCHANGED <<app, installed, hostVpn, vpnMap, callVars, taskVars, lines,
                   sigterm, adders, fileVars>>

-----------------------------------------------------------------------------
StartConnection(c) == StartConfig(c) \/ StartAuth(c) \/ StartSpawn(c) \/ StartFails(c)

RunVpn(c) == \/ MgmtConnect(c) \/ MgmtNeverUp(c) \/ ReadLine(c) \/ TakeControl(c)
             \/ MgmtClosed(c)

Cleanup(c) == \/ CleanupUnmap(c) \/ CleanupTakeRoutes(c) \/ CleanupDelRoute(c)
              \/ CleanupConfig(c) \/ CleanupAuth(c)

AddRoutes(a) == FindInterface(a) \/ RouteNotAdded(a) \/ RouteAdded(a) \/ RouteRecorded(a)

OpenVpn(c) == HelperExec(c) \/ TunnelUp(c) \/ ReportError(c) \/ ProcExit(c)

Next ==
    \/ \E k \in Callers :
        \/ \E p \in Profiles : ConnectCheck(k, p)
        \/ TryClaimOccupied(k)
        \/ \E c \in Conns : TryClaimVacant(k, c)
        \/ ConnectReturns(k)
    \/ \E c \in Conns : StartConnection(c) \/ RunVpn(c) \/ Cleanup(c) \/ OpenVpn(c)
    \/ \E a \in adders : AddRoutes(a)
    \/ \E p \in Profiles : Disconnect(p)
    \/ \E h \in Hosts : EnsureHostRoute(h)
    \/ \E h \in Hosts, p \in Profiles \cup {NoProfile} : AssignHost(h, p)
    \/ DisconnectAll \/ SetupInstall \/ ExitRequested \/ ProcessGone \/ Restart

Spec == Init /\ [][Next]_vars

\* What the liveness property assumes: the runtime keeps polling its tasks
\* (select! polls its branches in random order, so a waiting Disconnect is
\* taken), polkit lets the helper run or refuses it without a prompt, and
\* openvpn exits on SIGTERM.  User commands get no fairness.
Fairness ==
    \A c \in Conns :
        /\ WF_vars(StartConnection(c))
        /\ WF_vars(MgmtConnect(c) \/ MgmtNeverUp(c))
        /\ WF_vars(ReadLine(c)) /\ WF_vars(TakeControl(c)) /\ WF_vars(MgmtClosed(c))
        /\ WF_vars(Cleanup(c))
        /\ WF_vars(HelperExec(c)) /\ WF_vars(sigterm[c] /\ ProcExit(c))

FairSpec == Spec /\ Fairness

-----------------------------------------------------------------------------
(* Properties                                                              *)

\* An entry of the table always has code that will remove it: a pending
\* start_connection or a run_vpn task of that very profile.  (A phantom entry
\* would answer every later connect() of the profile with a stale status.)
EntryHasOwner ==
    \A p \in Profiles : vpnMap[p] # NoConn =>
        /\ prof[vpnMap[p]] = p
        /\ phase[vpnMap[p]] \in Starting \cup Running

\* No openvpn process is lost: as long as the application that launched it
\* runs, the table entry of its profile is the one that controls it, so
\* disconnect() reaches it and no second one runs for the same profile.
OpenvpnTracked ==
    \A c \in Conns : proc[c] \in Alive /\ phase[c] # "dead" => vpnMap[prof[c]] = c

\* A claim never overwrites another attempt's entry ("every insert after the
\* first would silently overwrite the previous ActiveVpn entry").
EntryNeverReplaced ==
    [][\A p \in Profiles : vpnMap[p] # NoConn => vpnMap'[p] \in {vpnMap[p], NoConn}]_vars

\* run_vpn never ends an attempt without answering the connect() call that
\* waits for it, whichever way it leaves its loop.
EndedAttemptAnswered ==
    \A c \in Conns :
        phase[c] \in {"draining", "ended"} \cup Cleaning => ready[c] # NoStatus

\* While a connection is tracked, every route installed for it is on the list
\* that cleanup() will take, or a task is just about to put it there: also
\* when a second task added the same host, or openvpn restarted its tunnel.
RouteRetractable ==
    \A h \in Hosts, c \in Conns :
        route[h].owner = c /\ phase[c] \in Running =>
            \/ <<route[h].dev, h>> \in added[c]
            \/ \E a \in adders : a.conn = c /\ a.cur = h /\ a.dev = route[h].dev

\* A Disconnect sent to an attempt, at whatever point of its life, is
\* eventually followed by the removal of its entry.
DisconnectCompletes ==
    \A c \in Conns :
        (ctl[c] > 0 /\ phase[c] \in Starting \cup Running)
            ~> (\A p \in Profiles : vpnMap[p] # c)

\* An attempt that has ended leaves neither its configuration nor its password
\* on disk: what is there belongs to an attempt under way, to one whose start
\* failed, or to an application that went away.
FilesRemoved ==
    \A p \in Profiles : \A c \in {cfgFile[p], authFile[p]} \ {NoConn} :
        phase[c] # "ended"
=============================================================================
