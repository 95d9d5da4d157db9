------------------------------ MODULE VpnGate ------------------------------
(***************************************************************************)
(* The frontend's VPN gate: ensureVpnUp and releaseIfUnused of             *)
(* state/vpnStore.ts, the tabs that releaseIfUnused counts, the handlers    *)
(* that pass the gate and the buttons of the VPN panel.  What the handlers  *)
(* do with panes and workspaces is in Workspaces.                          *)
(*                                                                         *)
(* JavaScript runs a handler up to its next await of a backend call or a   *)
(* timer; that is one step here.  The backend's answers come in any order. *)
(* Of the backend (modelled in VpnConnections) only the status of each     *)
(* profile is kept: "absent" means no entry in the connection table.       *)
(***************************************************************************)
EXTENDS Naturals

CONSTANTS
    Hosts, Profiles,
    ProfileOf,          \* host -> its vpn_profile_id
    Flows,              \* concurrent activations of gated handlers
    Tabs,               \* identifiers (random UUIDs in the code)
    MaxPolls,           \* bound: polls before VPN_GATE_POLL_TIMEOUT_MS
    NoHost

ASSUME GateAssumption ==
    /\ ProfileOf \in [Hosts -> Profiles]
    /\ MaxPolls \in Nat
    /\ NoHost \notin Hosts

VARIABLES
    vpn,      \* backend: profile -> state
    signalled, \* backend: profiles whose task has a Disconnect in its channel
    cache,    \* vpnStore.statuses
    tabs,     \* sessionsStore.openSessions: tab -> its host, or NoHost
    flow,     \* the handlers under way: see Flow
    closing,  \* vpn_disconnect calls: profile -> none, sent or done
    all,      \* a vpn_disconnect_all call: none, sent or done
    snapshot  \* the answer on its way to the latest loadAll or refreshActive

vars == <<vpn, signalled, cache, tabs, flow, closing, all, snapshot>>

States == {"absent", "connecting", "connected", "disconnecting"}
Cached == States \cup {"error"}

\* A handler that passes the gate, or the Connect button of the VPN panel (for the
\* profile of some host), which calls connect() without it.
Ops == {"gate", "toggle"}

\* A handler waiting in its gate: its operation and host, the backend's answer
\* on its way and the polls so far.
Flow == [pc : {"asked", "waiting", "answered", "sleep"}, op : Ops, host : Hosts,
         reply : Cached \cup {"thrown"}, polls : 0..MaxPolls]
Idle == [pc |-> "idle", op |-> "none", host |-> NoHost, reply |-> "absent", polls |-> 0]

NoAnswer == [p \in {} |-> "absent"]

TypeOK ==
    /\ vpn \in [Profiles -> States]
    /\ signalled \subseteq Profiles
    /\ cache \in [Profiles -> Cached]
    /\ tabs \in [Tabs -> Hosts \cup {NoHost}]
    /\ flow \in [Flows -> Flow \cup {Idle}]
    /\ closing \in [Profiles -> {"none", "sent", "done"}]
    /\ all \in {"none", "sent", "done"}
    /\ snapshot \in [Profiles -> States] \cup {NoAnswer}

Init ==
    /\ vpn = [p \in Profiles |-> "absent"] /\ signalled = {}
    /\ cache = [p \in Profiles |-> "absent"]
    /\ tabs = [t \in Tabs |-> NoHost]
    /\ flow = [f \in Flows |-> Idle]
    /\ closing = [p \in Profiles |-> "none"]
    /\ all = "none"
    /\ snapshot = NoAnswer

Profile(f) == ProfileOf[flow[f].host]
Busy(f) == flow[f] # Idle

-----------------------------------------------------------------------------
(* What a handler does after the gate said ok.                             *)

\* handleConnect and handleOpenSftp open a tab (which of them may is in Workspaces).
OpenTab(h) == \E t \in Tabs : tabs[t] = NoHost /\ tabs' = [tabs EXCEPT ![t] = h]

\* A split, whose pane is not counted, a snippet run on hosts and a quick command
\* only use the VPN.
OnlyUse == UNCHANGED tabs

\* Bound: with every tab open no more are opened.
Proceed(o, h) == OnlyUse \/ (o = "gate" /\ OpenTab(h))

-----------------------------------------------------------------------------
(* ensureVpnUp                                                             *)

\* The cached status is "connected": ok at once.
GateOpen(h) ==
    /\ cache[ProfileOf[h]] = "connected"
    /\ Proceed("gate", h)
    /\ UNCHANGED <<vpn, signalled, cache, flow, closing, all, snapshot>>

\* connect(): the status is set to "connecting" and the backend asked.
GateAsks(f, o, h) ==
    /\ ~Busy(f)
    /\ cache[ProfileOf[h]] # "connected"
    /\ cache' = [cache EXCEPT ![ProfileOf[h]] = "connecting"]
    /\ flow' = [flow EXCEPT ![f] =
                  [pc |-> "asked", op |-> o, host |-> h, reply |-> "absent", polls |-> 0]]
    /\ UNCHANGED <<vpn, signalled, tabs, closing, all, snapshot>>

\* Is there still time to poll?
BeforeDeadline(f) == flow[f].polls < MaxPolls

\* The answer: still connecting means another poll, connected means ok, and
\* everything else, or the deadline, an error message.  A call that throws leaves
\* the "connecting" that connect() had set.
Answered(f) ==
    LET r == flow[f].reply
    IN  /\ flow[f].pc = "answered"
        /\ cache' = IF r = "thrown" THEN cache ELSE [cache EXCEPT ![Profile(f)] = r]
        /\ IF r = "connecting" /\ flow[f].op # "toggle" /\ BeforeDeadline(f)
           THEN /\ flow' = [flow EXCEPT ![f].pc = "sleep", ![f].reply = "absent"]
                /\ UNCHANGED tabs
           ELSE /\ flow' = [flow EXCEPT ![f] = Idle]
                /\ IF r = "connected"
                   THEN Proceed(flow[f].op, flow[f].host)
                   ELSE UNCHANGED tabs
        /\ UNCHANGED <<vpn, signalled, closing, all, snapshot>>

Poll(f) ==
    /\ flow[f].pc = "sleep"
    /\ cache' = [cache EXCEPT ![Profile(f)] = "connecting"]
    /\ flow' = [flow EXCEPT ![f].pc = "asked", ![f].polls = @ + 1]
    /\ UNCHANGED <<vpn, signalled, tabs, closing, all, snapshot>>

-----------------------------------------------------------------------------
(* Closing                                                                 *)

\* releaseIfUnused: only tabs count, by their own host.
StillUsed(p, T) == \E t \in Tabs : T[t] # NoHost /\ ProfileOf[T[t]] = p

Release(p, T) ==
    closing' = IF cache[p] \in {"connected", "connecting"} /\ ~StillUsed(p, T)
               THEN [closing EXCEPT ![p] = "sent"] ELSE closing

\* Bound: one disconnect call at a time.
NoneUnderWay == all = "none" /\ \A p \in Profiles : closing[p] = "none"

\* handleCloseTab, then releaseIfUnused.
CloseTab(t) ==
    /\ NoneUnderWay
    /\ tabs[t] # NoHost
    /\ tabs' = [tabs EXCEPT ![t] = NoHost]
    /\ Release(ProfileOf[tabs[t]], tabs')
    /\ UNCHANGED <<vpn, signalled, cache, flow, all, snapshot>>

\* The answer to vpn_disconnect.
DisconnectDone(p) ==
    /\ closing[p] = "done"
    /\ closing' = [closing EXCEPT ![p] = "none"]
    /\ cache' = [cache EXCEPT ![p] = "disconnecting"]
    /\ UNCHANGED <<vpn, signalled, tabs, flow, all, snapshot>>

\* handleToggle of a profile shown as connected.
ToggleOff(p) ==
    /\ NoneUnderWay
    /\ cache[p] = "connected"
    /\ closing' = [closing EXCEPT ![p] = "sent"]
    /\ UNCHANGED <<vpn, signalled, cache, tabs, flow, all, snapshot>>

\* handleDisconnectAll: offered while some profile is active; the button is
\* disabled until the answer is in.
DisconnectAll ==
    /\ NoneUnderWay
    /\ \E p \in Profiles : cache[p] \in {"connected", "connecting"}
    /\ all' = "sent"
    /\ UNCHANGED <<vpn, signalled, cache, tabs, flow, closing, snapshot>>

DisconnectAllDone ==
    /\ all = "done"
    /\ all' = "none"
    /\ cache' = [p \in Profiles |->
         IF cache[p] \in {"connected", "connecting"} THEN "disconnecting" ELSE cache[p]]
    /\ UNCHANGED <<vpn, signalled, tabs, flow, closing, snapshot>>

\* vpn_active_statuses reads the table; its answer takes its time.  requestId: the
\* answer to an earlier call is discarded.
List ==
    /\ snapshot' = vpn
    /\ UNCHANGED <<vpn, signalled, cache, tabs, flow, closing, all>>

\* The panels poll while some status is in between.
AnyBusy == \E p \in Profiles : cache[p] \in {"connecting", "disconnecting"}
RefreshActive == AnyBusy /\ List

\* loadAll: at the start and after every change of a profile.
LoadAll == List

RefreshDone ==
    /\ snapshot # NoAnswer
    /\ cache' = snapshot /\ snapshot' = NoAnswer
    /\ UNCHANGED <<vpn, signalled, tabs, flow, closing, all>>

-----------------------------------------------------------------------------
(* The backend                                                             *)

\* vpn_connect: the status there is, or a new attempt; or it throws (no setup, or
\* the attempt could not be started).
BackendConnect(f) ==
    /\ flow[f].pc = "asked"
    /\ \/ /\ vpn[Profile(f)] # "absent"
          /\ flow' = [flow EXCEPT ![f].pc = "answered", ![f].reply = vpn[Profile(f)]]
          /\ UNCHANGED vpn
       \/ /\ vpn[Profile(f)] = "absent"
          /\ vpn' = [vpn EXCEPT ![Profile(f)] = "connecting"]
          /\ flow' = [flow EXCEPT ![f].pc = "waiting"]
       \/ /\ vpn[Profile(f)] = "absent"
          /\ flow' = [flow EXCEPT ![f].pc = "answered", ![f].reply = "thrown"]
          /\ UNCHANGED vpn
    /\ UNCHANGED <<signalled, cache, tabs, closing, all, snapshot>>

\* The connect() that started the attempt stops waiting for it, and answers with
\* the status there is then; or does not.
WaitsForEver(f) == FALSE
GivesUp(f) == flow[f].pc = "waiting"

ConnectTimeout(f) ==
    /\ GivesUp(f)
    /\ flow' = [flow EXCEPT ![f].pc = "answered", ![f].reply = vpn[Profile(f)]]
    /\ UNCHANGED <<vpn, signalled, cache, tabs, closing, all, snapshot>>

\* A profile changes its state; a connect() waiting for it gets the answer.
Becomes(p, s, r) ==
    /\ vpn' = [vpn EXCEPT ![p] = s]
    /\ signalled' = IF s = "absent" THEN signalled \ {p} ELSE signalled
    /\ flow' = [f \in Flows |->
         IF flow[f].pc = "waiting" /\ Profile(f) = p
         THEN [flow[f] EXCEPT !.pc = "answered", !.reply = r] ELSE flow[f]]
    /\ UNCHANGED <<cache, tabs, all, snapshot>>

VpnUp(p) ==
    /\ vpn[p] = "connecting" /\ Becomes(p, "connected", "connected")
    /\ UNCHANGED closing
VpnFails(p) ==
    /\ vpn[p] = "connecting" /\ Becomes(p, "absent", "error")
    /\ UNCHANGED closing
VpnDown(p) ==
    /\ vpn[p] = "disconnecting" /\ Becomes(p, "absent", "absent")
    /\ UNCHANGED closing
VpnDrops(p) ==
    /\ vpn[p] = "connected" /\ Becomes(p, "absent", "error")
    /\ UNCHANGED closing

\* vpn_disconnect only sends to the profile's task, if there is one; a version
\* that looks for a connected one.
TaskOfConnected(p) == vpn[p] = "connected"
HasTask(p) == vpn[p] # "absent"

BackendDisconnect(p) ==
    /\ closing[p] = "sent"
    /\ closing' = [closing EXCEPT ![p] = "done"]
    /\ signalled' = IF HasTask(p) THEN signalled \cup {p} ELSE signalled
    /\ UNCHANGED <<vpn, cache, tabs, flow, all, snapshot>>

\* vpn_disconnect_all: to every task.
BackendDisconnectAll ==
    /\ all = "sent"
    /\ all' = "done"
    /\ signalled' = signalled \cup {p \in Profiles : HasTask(p)}
    /\ UNCHANGED <<vpn, cache, tabs, flow, closing, snapshot>>

\* The task takes the message and stops openvpn.
VpnStops(p) ==
    /\ p \in signalled /\ vpn[p] \in {"connecting", "connected"}
    /\ vpn' = [vpn EXCEPT ![p] = "disconnecting"]
    /\ signalled' = signalled \ {p}
    /\ UNCHANGED <<cache, tabs, flow, closing, all, snapshot>>

-----------------------------------------------------------------------------
Click ==
    \/ \E h \in Hosts : GateOpen(h)
    \/ \E f \in Flows, o \in Ops, h \in Hosts : GateAsks(f, o, h)
    \/ \E t \in Tabs : CloseTab(t)
    \/ \E p \in Profiles : ToggleOff(p)
    \/ DisconnectAll

Gate(f) == BackendConnect(f) \/ ConnectTimeout(f) \/ Answered(f) \/ Poll(f)
Disconnect(p) == BackendDisconnect(p) \/ DisconnectDone(p)
DisconnectEverything == BackendDisconnectAll \/ DisconnectAllDone
Stop(p) == VpnStops(p) \/ VpnDown(p)

Next ==
    \/ Click
    \/ \E f \in Flows : Gate(f)
    \/ \E p \in Profiles : Disconnect(p) \/ Stop(p) \/ VpnUp(p) \/ VpnFails(p) \/ VpnDrops(p)
    \/ DisconnectEverything
    \/ RefreshActive \/ LoadAll \/ RefreshDone

\* Timers fire, the backend answers (after 25 s at the latest) and an openvpn
\* that got SIGTERM ends; that it ever connects or fails is not assumed.
Fairness ==
    /\ \A f \in Flows : WF_vars(Gate(f))
    /\ \A p \in Profiles : WF_vars(Disconnect(p)) /\ WF_vars(Stop(p))
    /\ WF_vars(DisconnectEverything)

Spec == Init /\ [][Next]_vars /\ Fairness

-----------------------------------------------------------------------------
\* A gate always returns, even if openvpn hangs and others keep the profile
\* connecting: no handler waits for ever.
GateReturns == \A f \in Flows : Busy(f) ~> ~Busy(f)

\* What releaseIfUnused, the panel's Disconnect or its Disconnect all sent takes the
\* VPN down, also one that was still connecting, that others asked for meanwhile or
\* that was never answered.
ReleaseEnds ==
    \A p \in Profiles : (closing[p] = "sent" \/ all = "sent") ~> vpn[p] = "absent"
=============================================================================
