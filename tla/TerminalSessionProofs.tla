----------------------- MODULE TerminalSessionProofs -----------------------
(***************************************************************************)
(* For any number of panes, connect calls and retries: no session runs that *)
(* its pane cannot close, no spinner waits for nothing, no secret is kept.  *)
(***************************************************************************)
EXTENDS TerminalSession, KnownHosts, TLAPS

\* The assumptions about the constants.
USE TerminalAssumption

\* Types of one attempt, used for the step of any action.
LEMMA AttemptTypes ==
    ASSUME TypeOK, NEW a \in Attempts
    PROVE  /\ att[a].pane \in Panes \cup {None}
           /\ att[a].phase \in {"unused", "connecting", "live", "ended"}
           /\ att[a].reply \in {"none", "ok", "fail", "taken"}
           /\ att[a].chan \in Seq({"prompt", "error", "closed"})
           /\ att[a].broken \in BOOLEAN /\ att[a].wrote \in BOOLEAN
           /\ att[a].stop \in BOOLEAN
BY DEF TypeOK, Attempt

-----------------------------------------------------------------------------
(* Secrets: where the screen asks for one, the next line is suppressed.     *)

SecretInv ==
    \A p \in Panes : /\ p \in prompted => suppress[p]
                     /\ line[p] = "secret" => suppress[p]

\* The input variables have their types on their own.
InputTypes ==
    /\ line \in [Panes -> {"empty", "plain", "secret"}]
    /\ suppress \in [Panes -> BOOLEAN]
    /\ prompted \subseteq Panes

InputInv == InputTypes /\ SecretInv

\* Nothing was typed and nothing asked for when the application starts.
LEMMA InputInvInit == Init => InputInv
BY DEF Init, InputInv, InputTypes, SecretInv

\* Keystrokes, output and the disposal of a pane keep it; nothing else touches
\* the line or the flag.
LEMMA InputInvNext == InputInv /\ [Next]_vars => InputInv'
<1> SUFFICES ASSUME InputInv, [Next]_vars PROVE InputInv'
  OBVIOUS
<1> USE DEF InputInv, InputTypes, SecretInv
<1>1. CASE UNCHANGED inputVars
  BY <1>1 DEF inputVars
<1>2. ASSUME NEW p \in Panes, Dispose(p) PROVE InputInv'
  BY <1>2 DEF Dispose
<1>3. ASSUME NEW p \in Panes, Type(p) PROVE InputInv'
  BY <1>3 DEF Type
<1>4. ASSUME NEW p \in Panes, Enter(p) PROVE InputInv'
  BY <1>4 DEF Enter
<1>5. ASSUME NEW p \in Panes, Abort(p) PROVE InputInv'
  BY <1>5 DEF Abort, SuppressAfterAbort
<1>6. ASSUME NEW a \in Attempts, TakeEvent(a) PROVE InputInv'
  BY <1>6 DEF TakeEvent, Mounted
<1>7. ASSUME NEW p \in Panes,
             Mount(p) \/ Reconnect(p) \/ Resize(p) \/ TimerFires(p)
      PROVE  UNCHANGED inputVars
  BY <1>7 DEF Mount, Reconnect, Resize, TimerFires, ConnectSession, inputVars
<1>8. ASSUME NEW a \in Attempts,
             \/ BackendConnects(a) \/ RemoteAsks(a) \/ ConnectionLost(a)
             \/ ChannelEnds(a) \/ TaskCommand(a) \/ TakeReply(a)
      PROVE  UNCHANGED inputVars
  BY <1>8 DEF BackendConnects, RemoteAsks, ConnectionLost, ChannelEnds, TaskCommand,
              TakeReply, frontend, inputVars
<1>9. CASE UNCHANGED vars
  BY <1>9 DEF vars, inputVars
<1> QED
  BY <1>1, <1>2, <1>3, <1>4, <1>5, <1>6, <1>7, <1>8, <1>9 DEF Next, User

\* No secret enters the command history: the filter of TerminalView's onData
\* holds over cleared lines, reconnects and late output.
THEOREM SecretsKept == Spec => []NoSecretRecorded
<1>1. InputInv => NoSecretRecorded
  BY DEF InputInv, InputTypes, SecretInv, NoSecretRecorded, RecordedLine
<1> QED
  BY <1>1, InputInvInit, InputInvNext, PTL DEF Spec
-----------------------------------------------------------------------------
(* Types                                                                   *)

\* The initial state has its types.
LEMMA TypesInit == Init => TypeOK
BY DEF Init, TypeOK, Attempt, Unused, Status, Attempts

\* What an effect leaves in its own variables after an attempt has ended.
LEMMA DisconnectTypes ==
    ASSUME TypeOK, NEW p \in Panes, NEW s \in {"error", "closed"}, HandleDisconnect(p, s)
    PROVE  /\ held' \in [Panes -> Attempts \cup {None}]
           /\ status' \in [Panes -> Status]
           /\ retries' \in [Panes -> 0..MaxRetries]
           /\ timer' \in [Panes -> BOOLEAN]
BY DEF TypeOK, HandleDisconnect, StatusSettled, RetryLeft, Status

\* Sequences of events stay sequences of events.
LEMMA EventTypes ==
    ASSUME NEW s \in Seq({"prompt", "error", "closed"})
    PROVE  /\ s \o <<"closed">> \in Seq({"prompt", "error", "closed"})
           /\ s \o <<"error", "closed">> \in Seq({"prompt", "error", "closed"})
           /\ <<"prompt">> \in Seq({"prompt", "error", "closed"})
           /\ s # <<>> => /\ Head(s) \in {"prompt", "error", "closed"}
                         /\ Tail(s) \in Seq({"prompt", "error", "closed"})
OBVIOUS

\* Every step keeps the types.
LEMMA TypesNext == TypeOK /\ InputInv' /\ [Next]_vars => TypeOK'
<1> SUFFICES ASSUME TypeOK, InputInv', [Next]_vars PROVE TypeOK'
  OBVIOUS
<1> DEFINE AttOK == att' \in [Attempts -> Attempt]
           PaneOK == /\ view' \in [Panes -> {"new", "mounted", "disposed"}]
                     /\ held' \in [Panes -> Attempts \cup {None}]
                     /\ status' \in [Panes -> Status]
                     /\ retries' \in [Panes -> 0..MaxRetries]
                     /\ timer' \in [Panes -> BOOLEAN]
                     /\ sessionIds' \in [Panes -> Attempts \cup {None}]
<1>a. SUFFICES AttOK /\ PaneOK
  BY DEF TypeOK, InputInv, InputTypes
<1>b. ASSUME UNCHANGED paneVars PROVE PaneOK
  BY <1>b DEF paneVars, TypeOK
<1>c. \A a \in Attempts : att[a] \in Attempt
  BY DEF TypeOK
<1>d. \A a \in Attempts : \A v \in BOOLEAN :
        /\ [att EXCEPT ![a].stop = v] \in [Attempts -> Attempt]
        /\ [att EXCEPT ![a].wrote = v] \in [Attempts -> Attempt]
        /\ [att EXCEPT ![a].broken = v] \in [Attempts -> Attempt]
  <2> SUFFICES ASSUME NEW a \in Attempts, NEW v \in BOOLEAN
               PROVE  /\ [att EXCEPT ![a].stop = v] \in [Attempts -> Attempt]
                      /\ [att EXCEPT ![a].wrote = v] \in [Attempts -> Attempt]
                      /\ [att EXCEPT ![a].broken = v] \in [Attempts -> Attempt]
    OBVIOUS
  <2>1. /\ [att[a] EXCEPT !.stop = v] \in Attempt
        /\ [att[a] EXCEPT !.wrote = v] \in Attempt
        /\ [att[a] EXCEPT !.broken = v] \in Attempt
    BY <1>c DEF Attempt
  <2> QED
    BY <2>1 DEF TypeOK
<1>1. ASSUME NEW p \in Panes, NEW n \in 0..MaxRetries, ConnectSession(p, n),
             view' \in [Panes -> {"new", "mounted", "disposed"}]
      PROVE  AttOK /\ PaneOK
  <2>1. PICK a \in Attempts :
            att' = [att EXCEPT ![a].pane = p, ![a].phase = "connecting"]
    BY <1>1 DEF ConnectSession
  <2>2. AttOK
    <3>1. [att[a] EXCEPT !.pane = p, !.phase = "connecting"] \in Attempt
      BY <1>c DEF Attempt
    <3> QED
      BY <2>1, <3>1 DEF TypeOK
  <2>3. PaneOK
    BY <1>1 DEF ConnectSession, TypeOK, Status
  <2> QED
    BY <2>2, <2>3
<1>2. ASSUME NEW p \in Panes, Mount(p) PROVE AttOK /\ PaneOK
  BY <1>1, <1>2 DEF Mount, TypeOK
<1>3. ASSUME NEW p \in Panes, TimerFires(p) PROVE AttOK /\ PaneOK
  BY <1>1, <1>3 DEF TimerFires, TypeOK
<1>4. ASSUME NEW p \in Panes, Reconnect(p) PROVE AttOK /\ PaneOK
  BY <1>1, <1>4 DEF Reconnect, TypeOK
<1>5. ASSUME NEW p \in Panes, Dispose(p) PROVE AttOK /\ PaneOK
  <2>1. AttOK
    BY <1>5, <1>d DEF Dispose, TypeOK, Running
  <2>2. PaneOK
    BY <1>5 DEF Dispose, TypeOK, Status
  <2> QED
    BY <2>1, <2>2
<1>6. ASSUME NEW p \in Panes, Write(p) PROVE AttOK
  <2>1. \A a \in Attempts : [att[a] EXCEPT !.wrote = TRUE] \in Attempt
    BY <1>c DEF Attempt
  <2> QED
    BY <1>6, <1>c, <2>1 DEF Write
<1>7. ASSUME NEW p \in Panes, Type(p) \/ Enter(p) \/ Abort(p) PROVE AttOK /\ PaneOK
  BY <1>6, <1>7, <1>b DEF Type, Enter, Abort
<1>8. ASSUME NEW p \in Panes, Resize(p) PROVE AttOK /\ PaneOK
  <2>1. AttOK
    BY <1>8, <1>d DEF Resize, TypeOK, Running
  <2> QED
    BY <2>1, <1>8, <1>b DEF Resize
<1>9. ASSUME NEW a \in Attempts, NEW ev \in {<<"closed">>, <<"error", "closed">>}, att' = Ends(a, ev)
      PROVE  AttOK
  <2>1. att[a].chan \o ev \in Seq({"prompt", "error", "closed"})
    BY <1>9, AttemptTypes, EventTypes
  <2> DEFINE r == [att[a] EXCEPT !.phase = "ended", !.chan = att[a].chan \o ev,
                                 !.broken = FALSE, !.wrote = FALSE, !.stop = FALSE]
  <2>2. r \in Attempt
    BY <1>c, <2>1 DEF Attempt
  <2>3. att' = [att EXCEPT ![a] = r]
    BY <1>9 DEF Ends, TypeOK
  <2> QED
    BY <2>2, <2>3 DEF TypeOK
<1>10. ASSUME NEW a \in Attempts,
              \/ BackendConnects(a) \/ RemoteAsks(a) \/ ConnectionLost(a)
       PROVE  AttOK /\ PaneOK
  <2>1. /\ [att[a] EXCEPT !.phase = "live", !.reply = "ok"] \in Attempt
        /\ [att[a] EXCEPT !.phase = "ended", !.reply = "fail"] \in Attempt
        /\ [att[a] EXCEPT !.chan = <<"prompt">>] \in Attempt
    BY <1>c, EventTypes DEF Attempt
  <2>2. AttOK
    BY <1>10, <1>d, <2>1 DEF BackendConnects, RemoteAsks, ConnectionLost, TypeOK
  <2> QED
    BY <2>2, <1>10, <1>b DEF BackendConnects, RemoteAsks, ConnectionLost, frontend
<1>11. ASSUME NEW a \in Attempts, ChannelEnds(a) \/ TaskCommand(a) PROVE AttOK /\ PaneOK
  <2>1. CASE \E ev \in {<<"closed">>, <<"error", "closed">>} : att' = Ends(a, ev)
    BY <2>1, <1>9, <1>11, <1>b DEF ChannelEnds, TaskCommand, frontend
  <2>2. CASE att' = [att EXCEPT ![a].wrote = FALSE]
    BY <2>2, <1>11, <1>b, <1>d DEF ChannelEnds, TaskCommand, frontend
  <2> QED
    BY <2>1, <2>2, <1>11 DEF ChannelEnds, TaskCommand
<1>12. ASSUME NEW a \in Attempts, TakeReply(a) PROVE AttOK /\ PaneOK
  <2>0. \A v \in BOOLEAN : /\ [att[a] EXCEPT !.reply = "taken", !.stop = v] \in Attempt
                            /\ [att[a] EXCEPT !.reply = "taken", !.wrote = v] \in Attempt
                            /\ [att[a] EXCEPT !.reply = "taken"] \in Attempt
    BY <1>c DEF Attempt
  <2>1. AttOK
    <3>1. \/ att' = [att EXCEPT ![a] = [att[a] EXCEPT !.reply = "taken", !.stop = Running(a)]]
          \/ att' = [att EXCEPT ![a] = [att[a] EXCEPT !.reply = "taken", !.wrote = Running(a)]]
          \/ att' = [att EXCEPT ![a] = [att[a] EXCEPT !.reply = "taken"]]
      BY <1>12 DEF TakeReply, CloseLate, TypeOK
    <3>2. Running(a) \in BOOLEAN
      BY DEF Running
    <3> QED
      BY <2>0, <3>1, <3>2 DEF TypeOK
  <2>2. PaneOK
    BY <1>12, DisconnectTypes DEF TakeReply, TypeOK, Status, paneVars, Mounted
  <2> QED
    BY <2>1, <2>2
<1>13. ASSUME NEW a \in Attempts, TakeEvent(a) PROVE AttOK /\ PaneOK
  <2>1. /\ Tail(att[a].chan) \in Seq({"prompt", "error", "closed"})
        /\ Head(att[a].chan) \in {"prompt", "error", "closed"}
    BY <1>13, AttemptTypes, EventTypes DEF TakeEvent
  <2>2. AttOK
    <3>1. [att[a] EXCEPT !.chan = Tail(att[a].chan)] \in Attempt
      BY <1>c, <2>1 DEF Attempt
    <3>2. att' = [att EXCEPT ![a] = [att[a] EXCEPT !.chan = Tail(att[a].chan)]]
      BY <1>13 DEF TakeEvent, TypeOK
    <3> QED
      BY <3>1, <3>2 DEF TypeOK
  <2>3. PaneOK
    BY <1>13, <2>1, DisconnectTypes DEF TakeEvent, TypeOK, Mounted
  <2> QED
    BY <2>2, <2>3
<1>14. CASE UNCHANGED vars
  BY <1>14 DEF vars, paneVars, TypeOK
<1> QED
  BY <1>2, <1>3, <1>4, <1>5, <1>7, <1>8, <1>10, <1>11, <1>12, <1>13, <1>14 DEF Next, User

\* The types hold in every state, with any bounds.
THEOREM TerminalTypes == Spec => []TypeOK
BY TypesInit, TypesNext, InputInvInit, InputInvNext, PTL DEF Spec
-----------------------------------------------------------------------------
(* Sessions                                                                *)

\* An attempt that has ended, and whose answer and events were delivered.
Over(b) == att[b].phase = "ended" /\ att[b].reply \notin {"ok", "fail"} /\ att[b].chan = <<>>
AllEnded(p) == \A a \in Attempts : att[a].pane = p => att[a].phase = "ended"

\* Only used attempts have a pane, and a pane that is not there has none.
PanesFit ==
    \A a \in Attempts : /\ att[a].pane \in Panes <=> att[a].phase # "unused"
                        /\ att[a].pane \in Panes => view[att[a].pane] # "new"
\* Until an attempt ends nothing but a prompt is in its channel, and no refusal.
NewsFit ==
    \A a \in Attempts :
        /\ att[a].phase # "ended" => att[a].chan \in {<<>>, <<"prompt">>}
        /\ att[a].reply = "fail" => att[a].phase = "ended"
        /\ att[a].phase = "connecting" => att[a].reply = "none"
\* A pane has one attempt at a time.
OneAttempt ==
    \A a, b \in Attempts :
        a # b /\ att[a].phase \in {"connecting", "live"} /\ att[b].pane = att[a].pane => Over(b)
\* A pane that waits for its timer or shows Reconnect has no attempt under way.
NothingUnderWay ==
    \A p \in Mounted : timer[p] \/ status[p] \in {"error", "closed"} => AllEnded(p)

SessionInv == PanesFit /\ NewsFit /\ OneAttempt /\ NothingUnderWay /\ SessionsReachable
\* No attempt, no invariant to break.
LEMMA SessionInvInit == Init => SessionInv
BY DEF Init, Unused, SessionInv, PanesFit, NewsFit, OneAttempt, NothingUnderWay, SessionsReachable,
       Mounted

\* Keystrokes and the network change only what is in the command channel.
LEMMA CommandsKeep ==
    ASSUME TypeOK, SessionInv, UNCHANGED paneVars,
           \A a \in Attempts :
               /\ att'[a].pane = att[a].pane /\ att'[a].phase = att[a].phase
               /\ att'[a].reply = att[a].reply /\ att'[a].chan = att[a].chan
               /\ att'[a].stop = att[a].stop
    PROVE  SessionInv'
BY DEF SessionInv, PanesFit, NewsFit, OneAttempt, NothingUnderWay, SessionsReachable, Mounted, Over,
       AllEnded, paneVars

\* The end of a session task.
LEMMA EndKeeps ==
    ASSUME TypeOK, SessionInv, UNCHANGED paneVars, NEW a \in Attempts,
           att[a].phase = "live", att'[a].phase = "ended",
           att'[a].pane = att[a].pane, att'[a].reply = att[a].reply,
           \A b \in Attempts \ {a} : att'[b] = att[b]
    PROVE  SessionInv'
BY DEF SessionInv, PanesFit, NewsFit, OneAttempt, NothingUnderWay, SessionsReachable, Mounted, Over,
       AllEnded, paneVars

\* connectSession, when the pane's earlier attempts are over.
LEMMA ConnectKeeps ==
    ASSUME TypeOK, SessionInv, NEW p \in Panes, NEW n, ConnectSession(p, n),
           \A b \in Attempts : att[b].pane = p => Over(b),
           view' = [view EXCEPT ![p] = "mounted"]
    PROVE  SessionInv'
<1>1. PICK a \in Attempts : /\ att[a] = Unused
                            /\ att' = [att EXCEPT ![a].pane = p, ![a].phase = "connecting"]
  BY DEF ConnectSession
<1>2. /\ att'[a].pane = p /\ att'[a].phase = "connecting"
      /\ att'[a].reply = "none" /\ att'[a].chan = <<>>
      /\ \A b \in Attempts \ {a} : att'[b] = att[b]
  BY <1>1 DEF TypeOK, Attempt, Unused
<1>3. PanesFit'
  BY <1>2 DEF SessionInv, PanesFit, TypeOK
<1>4. NewsFit'
  BY <1>2 DEF SessionInv, NewsFit
<1>5. OneAttempt'
  BY <1>2 DEF SessionInv, OneAttempt, Over
<1>6. NothingUnderWay'
  BY <1>2 DEF SessionInv, NothingUnderWay, AllEnded, Mounted, ConnectSession, TypeOK
<1>7. SessionsReachable'
  BY <1>2 DEF SessionInv, SessionsReachable, Mounted, ConnectSession, TypeOK
<1> QED
  BY <1>3, <1>4, <1>5, <1>6, <1>7 DEF SessionInv

\* handleDisconnect, for an attempt whose end is being delivered.
LEMMA DisconnectKeeps ==
    ASSUME TypeOK, SessionInv, NEW a \in Attempts, NEW s \in {"error", "closed"},
           att[a].pane \in Mounted, HandleDisconnect(att[a].pane, s),
           att[a].phase = "ended", ~Over(a),
           att'[a].phase = "ended", att'[a].pane = att[a].pane,
           att'[a].reply = att[a].reply \/ att'[a].reply = "taken",
           \A b \in Attempts \ {a} : att'[b] = att[b],
           UNCHANGED view
    PROVE  SessionInv'
<1> DEFINE p == att[a].pane
<1>0. p \in Panes
  BY DEF Mounted
<1>1. AllEnded(p)
  BY AttemptTypes, <1>0 DEF AllEnded, SessionInv, OneAttempt, PanesFit
<1>2. \A q \in Panes \ {p} : held'[q] = held[q] /\ timer'[q] = timer[q] /\ status'[q] = status[q]
  BY DEF HandleDisconnect, TypeOK
<1>3. PanesFit'
  BY DEF SessionInv, PanesFit
<1>4. NewsFit'
  BY DEF SessionInv, NewsFit
<1>5. OneAttempt'
  BY DEF SessionInv, OneAttempt, Over
<1>6. NothingUnderWay'
  BY <1>1, <1>2 DEF SessionInv, NothingUnderWay, AllEnded, Mounted
<1>7. SessionsReachable'
  BY <1>1, <1>2 DEF SessionInv, SessionsReachable, AllEnded, PanesFit, Mounted
<1> QED
  BY <1>3, <1>4, <1>5, <1>6, <1>7 DEF SessionInv
\* Every step keeps it.
LEMMA SessionInvNext == TypeOK /\ SessionInv /\ [Next]_vars => SessionInv'
<1> SUFFICES ASSUME TypeOK, SessionInv, [Next]_vars PROVE SessionInv'
  OBVIOUS
<1>1. ASSUME NEW p \in Panes, Mount(p) PROVE SessionInv'
  <2>1. \A b \in Attempts : att[b].pane # p
    BY <1>1 DEF Mount, SessionInv, PanesFit
  <2> QED
    BY <1>1, <2>1, ConnectKeeps DEF Mount
<1>2. ASSUME NEW p \in Panes, TimerFires(p) \/ Reconnect(p) PROVE SessionInv'
  <2>1. p \in Mounted /\ (timer[p] \/ status[p] \in {"error", "closed"}) /\ Settled(p)
    BY <1>2 DEF TimerFires, Reconnect, ReconnectShown
  <2>2. \A b \in Attempts : att[b].pane = p => Over(b)
    BY <2>1 DEF SessionInv, NothingUnderWay, AllEnded, Settled, AttemptsOf, Over
  <2>3. view' = [view EXCEPT ![p] = "mounted"]
    BY <1>2, <2>1 DEF TimerFires, Reconnect, Mounted, TypeOK
  <2> QED
    BY <1>2, <2>2, <2>3, ConnectKeeps DEF TimerFires, Reconnect
<1>3. ASSUME NEW p \in Panes, Dispose(p) PROVE SessionInv'
  <2>1. \A a \in Attempts :
            /\ att'[a].pane = att[a].pane /\ att'[a].phase = att[a].phase
            /\ att'[a].reply = att[a].reply /\ att'[a].chan = att[a].chan
            /\ att[a].phase = "live" /\ (att[a].stop \/ held[p] = a) => att'[a].stop
    <3>1. CASE held[p] = None
      BY <1>3, <3>1 DEF Dispose, Attempts
    <3>2. CASE held[p] # None
      <4>1. held[p] \in Attempts
        BY <3>2 DEF TypeOK
      <4>2. /\ att' = [att EXCEPT ![held[p]].stop = Running(held[p])]
            /\ Running(held[p]) <=> att[held[p]].phase = "live"
        BY <1>3, <3>2 DEF Dispose, Running
      <4> QED
        BY <4>1, <4>2 DEF TypeOK, Attempt
    <3> QED
      BY <3>1, <3>2
  <2>2. PanesFit' /\ NewsFit' /\ OneAttempt'
    BY <1>3, <2>1 DEF Dispose, SessionInv, PanesFit, NewsFit, OneAttempt, Over, TypeOK
  <2>3. NothingUnderWay'
    BY <1>3, <2>1 DEF Dispose, SessionInv, NothingUnderWay, AllEnded, Mounted, TypeOK
  <2>4. SessionsReachable'
    BY <1>3, <2>1 DEF Dispose, SessionInv, SessionsReachable, Mounted, TypeOK
  <2> QED
    BY <2>2, <2>3, <2>4 DEF SessionInv
<1>4. ASSUME NEW p \in Panes, Type(p) \/ Enter(p) \/ Abort(p) PROVE SessionInv'
  <2>1. Write(p) /\ UNCHANGED paneVars
    BY <1>4 DEF Type, Enter, Abort
  <2>2. \A a \in Attempts :
            /\ att'[a].pane = att[a].pane /\ att'[a].phase = att[a].phase
            /\ att'[a].reply = att[a].reply /\ att'[a].chan = att[a].chan
            /\ att'[a].stop = att[a].stop
    BY <2>1 DEF Write, TypeOK, Attempt
  <2> QED
    BY <2>1, <2>2, CommandsKeep
<1>5. ASSUME NEW p \in Panes, Resize(p) PROVE SessionInv'
  <2>1. \A a \in Attempts :
            /\ att'[a].pane = att[a].pane /\ att'[a].phase = att[a].phase
            /\ att'[a].reply = att[a].reply /\ att'[a].chan = att[a].chan
            /\ att'[a].stop = att[a].stop
    BY <1>5 DEF Resize, TypeOK, Attempt
  <2> QED
    BY <1>5, <2>1, CommandsKeep DEF Resize
<1>6. ASSUME NEW a \in Attempts, BackendConnects(a) PROVE SessionInv'
  <2>1. /\ att'[a].pane = att[a].pane /\ att'[a].chan = att[a].chan
        /\ \/ att'[a].phase = "live" /\ att'[a].reply = "ok"
           \/ att'[a].phase = "ended" /\ att'[a].reply = "fail"
        /\ \A b \in Attempts \ {a} : att'[b] = att[b]
    BY <1>6 DEF BackendConnects, TypeOK, Attempt
  <2>2. att[a].phase = "connecting" /\ UNCHANGED paneVars
    BY <1>6 DEF BackendConnects, frontend
  <2> QED
    BY <2>1, <2>2 DEF SessionInv, PanesFit, NewsFit, OneAttempt, NothingUnderWay,
                      SessionsReachable, Mounted, Over, AllEnded, paneVars
<1>7. ASSUME NEW a \in Attempts, RemoteAsks(a) PROVE SessionInv'
  <2>1. /\ att'[a].pane = att[a].pane /\ att'[a].chan = <<"prompt">>
        /\ att'[a].phase = "live" /\ att'[a].reply = att[a].reply /\ att'[a].stop = att[a].stop
        /\ \A b \in Attempts \ {a} : att'[b] = att[b]
    BY <1>7 DEF RemoteAsks, TypeOK, Attempt
  <2>2. att[a].phase = "live" /\ UNCHANGED paneVars
    BY <1>7 DEF RemoteAsks, frontend
  <2>3. PanesFit'
    BY <2>1, <2>2 DEF SessionInv, PanesFit, paneVars
  <2>4. NewsFit'
    BY <2>1, <2>2 DEF SessionInv, NewsFit
  <2>5. OneAttempt'
    BY <2>1, <2>2 DEF SessionInv, OneAttempt, Over
  <2>6. NothingUnderWay' /\ SessionsReachable'
    BY <2>1, <2>2 DEF SessionInv, NothingUnderWay, SessionsReachable, AllEnded, Mounted, paneVars
  <2> QED
    BY <2>3, <2>4, <2>5, <2>6 DEF SessionInv
<1>8. ASSUME NEW a \in Attempts, ConnectionLost(a) PROVE SessionInv'
  <2>1. \A b \in Attempts :
            /\ att'[b].pane = att[b].pane /\ att'[b].phase = att[b].phase
            /\ att'[b].reply = att[b].reply /\ att'[b].chan = att[b].chan
            /\ att'[b].stop = att[b].stop
    BY <1>8 DEF ConnectionLost, TypeOK, Attempt
  <2> QED
    BY <1>8, <2>1, CommandsKeep DEF ConnectionLost, frontend
<1>9. ASSUME NEW a \in Attempts, ChannelEnds(a) \/ TaskCommand(a) PROVE SessionInv'
  <2>1. att[a].phase = "live" /\ UNCHANGED paneVars
    BY <1>9 DEF ChannelEnds, TaskCommand, frontend
  <2>2. ASSUME NEW ev, att' = Ends(a, ev) PROVE SessionInv'
    <3>1. /\ att'[a].phase = "ended" /\ att'[a].pane = att[a].pane
          /\ att'[a].reply = att[a].reply /\ \A b \in Attempts \ {a} : att'[b] = att[b]
      BY <2>2 DEF Ends, TypeOK, Attempt
    <3> QED
      BY <2>1, <3>1, EndKeeps
  <2>3. ASSUME att' = [att EXCEPT ![a].wrote = FALSE] PROVE SessionInv'
    <3>1. \A b \in Attempts :
              /\ att'[b].pane = att[b].pane /\ att'[b].phase = att[b].phase
              /\ att'[b].reply = att[b].reply /\ att'[b].chan = att[b].chan
              /\ att'[b].stop = att[b].stop
      BY <2>3 DEF TypeOK, Attempt
    <3> QED
      BY <2>1, <3>1, CommandsKeep
  <2> QED
    BY <1>9, <2>2, <2>3 DEF ChannelEnds, TaskCommand
<1>10. ASSUME NEW a \in Attempts, TakeReply(a) PROVE SessionInv'
  <2> DEFINE p == att[a].pane
  <2>1. /\ att'[a].pane = p /\ att'[a].phase = att[a].phase /\ att'[a].chan = att[a].chan
        /\ att'[a].reply = "taken" /\ \A b \in Attempts \ {a} : att'[b] = att[b]
    BY <1>10 DEF TakeReply, CloseLate, TypeOK, Attempt
  <2>2. CASE att[a].reply = "ok" /\ p \notin Mounted
    <3>0. att' = CloseLate(a) /\ UNCHANGED paneVars
      BY <2>2, <1>10 DEF TakeReply
    <3>1. UNCHANGED paneVars /\ (att[a].phase = "live" => att'[a].stop)
      BY <3>0 DEF CloseLate, TypeOK, Attempt, Running
    <3> QED
      BY <2>1, <2>2, <3>1 DEF SessionInv, PanesFit, NewsFit, OneAttempt, NothingUnderWay,
                              SessionsReachable, Mounted, Over, AllEnded, paneVars
  <2>3. CASE att[a].reply = "ok" /\ p \in Mounted
    <3>1. /\ held' = [held EXCEPT ![p] = a] /\ status' = [status EXCEPT ![p] = "connected"]
          /\ UNCHANGED <<view, timer>>
      BY <2>3, <1>10 DEF TakeReply
    <3>2. \A b \in Attempts \ {a} : att[b].pane = p => att[b].phase \notin {"connecting", "live"}
      BY <2>3 DEF SessionInv, OneAttempt, Over
    <3>3. PanesFit' /\ NewsFit'
      BY <2>1, <2>3, <3>1 DEF SessionInv, PanesFit, NewsFit
    <3>4. OneAttempt'
      BY <2>1 DEF SessionInv, OneAttempt, Over
    <3>5. NothingUnderWay'
      BY <2>1, <3>1 DEF SessionInv, NothingUnderWay, AllEnded, Mounted, TypeOK
    <3>6. SessionsReachable'
      BY <2>1, <2>3, <3>1, <3>2 DEF SessionInv, SessionsReachable, Mounted, TypeOK
    <3> QED
      BY <3>3, <3>4, <3>5, <3>6 DEF SessionInv
  <2>4. CASE att[a].reply = "fail" /\ p \in Mounted
    <3>1. HandleDisconnect(p, "error") /\ UNCHANGED view
      BY <2>4, <1>10 DEF TakeReply
    <3>2. att[a].phase = "ended" /\ ~Over(a)
      BY <2>4 DEF SessionInv, NewsFit, Over
    <3> QED
      BY <2>1, <2>4, <3>1, <3>2, DisconnectKeeps
  <2>5. CASE att[a].reply = "fail" /\ p \notin Mounted
    <3>1. UNCHANGED <<held, timer, status, view>> /\ att[a].phase = "ended"
      BY <2>5, <1>10 DEF TakeReply, SessionInv, NewsFit
    <3> QED
      BY <2>1, <2>5, <3>1 DEF SessionInv, PanesFit, NewsFit, OneAttempt, NothingUnderWay,
                              SessionsReachable, Mounted, Over, AllEnded
  <2> QED
    BY <1>10, <2>2, <2>3, <2>4, <2>5 DEF TakeReply
<1>11. ASSUME NEW a \in Attempts, TakeEvent(a) PROVE SessionInv'
  <2> DEFINE p == att[a].pane
             e == Head(att[a].chan)
  <2>1. /\ att'[a].pane = p /\ att'[a].phase = att[a].phase /\ att'[a].reply = att[a].reply
        /\ att'[a].stop = att[a].stop /\ att'[a].chan = Tail(att[a].chan)
        /\ \A b \in Attempts \ {a} : att'[b] = att[b]
    BY <1>11 DEF TakeEvent, TypeOK, Attempt
  <2>2. att[a].chan # <<>> /\ UNCHANGED view
    BY <1>11 DEF TakeEvent
  <2>3. e \in {"prompt", "error", "closed"}
    BY <2>2, AttemptTypes, EventTypes
  <2>4. att[a].phase # "ended" => e = "prompt" /\ Tail(att[a].chan) = <<>>
    <3>1. \A c : c = <<"prompt">> => Head(c) = "prompt" /\ Tail(c) = <<>>
      OBVIOUS
    <3>2. att[a].phase # "ended" => att[a].chan = <<"prompt">>
      BY <2>2 DEF SessionInv, NewsFit
    <3> QED
      BY <3>1, <3>2
  <2>5. CASE p \in Mounted /\ e # "prompt"
    <3>1. HandleDisconnect(p, e) /\ e \in {"error", "closed"}
      BY <2>3, <2>5, <1>11 DEF TakeEvent
    <3>2. att[a].phase = "ended" /\ ~Over(a)
      BY <2>2, <2>4, <2>5 DEF Over
    <3> QED
      BY <2>1, <2>2, <2>5, <3>1, <3>2, DisconnectKeeps
  <2>6. CASE ~(p \in Mounted /\ e # "prompt")
    <3>1. UNCHANGED <<held, timer, status>>
      BY <2>6, <1>11 DEF TakeEvent
    <3>2. PanesFit' /\ NewsFit'
      <4>1. att[a].phase # "ended" => att'[a].chan = <<>>
        BY <2>1, <2>4
      <4>2. PanesFit'
        BY <2>1, <2>2 DEF SessionInv, PanesFit
      <4>3. NewsFit'
        BY <2>1, <4>1 DEF SessionInv, NewsFit
      <4> QED
        BY <4>2, <4>3
    <3>3. OneAttempt'
      BY <2>1, <2>2 DEF SessionInv, OneAttempt, Over
    <3>4. NothingUnderWay' /\ SessionsReachable'
      BY <2>1, <2>2, <3>1 DEF SessionInv, NothingUnderWay, SessionsReachable, AllEnded, Mounted
    <3> QED
      BY <3>2, <3>3, <3>4 DEF SessionInv
  <2> QED
    BY <2>5, <2>6
<1>12. CASE UNCHANGED vars
  BY <1>12, CommandsKeep DEF vars
<1> QED
  BY <1>1, <1>2, <1>3, <1>4, <1>5, <1>6, <1>7, <1>8, <1>9, <1>10, <1>11, <1>12 DEF Next, User

\* Whatever connects, retries and closes interleave, a session that runs can be
\* closed by its pane: the timers and late answers of TerminalView lose none.
THEOREM SessionsKept == Spec => []SessionsReachable
<1>1. SessionInv => SessionsReachable
  BY DEF SessionInv
<1> QED
  BY <1>1, TerminalTypes, SessionInvInit, SessionInvNext, PTL DEF Spec

-----------------------------------------------------------------------------
(* The spinner                                                             *)

\* A spinner is shown with the call or the timer that will end it, and goes
\* when they do.
LEMMA SpinnerNext == TypeOK /\ PanesFit /\ SpinnerMeansWork /\ [Next]_vars => SpinnerMeansWork'
<1> SUFFICES ASSUME TypeOK, PanesFit, SpinnerMeansWork, [Next]_vars,
                    NEW p \in Panes, Spinning(p)', ~timer'[p]
             PROVE  \E a \in Attempts : att'[a].pane = p /\ Pending(a)'
  BY DEF SpinnerMeansWork, AttemptsOf
<1> USE DEF Pending
<1>0. Spinning(p) => timer[p] \/ \E a \in Attempts : att[a].pane = p /\ Pending(a)
  BY DEF SpinnerMeansWork, AttemptsOf
<1>1. ASSUME NEW q \in Panes, NEW n, ConnectSession(q, n), \A x \in Panes \ {q} : view'[x] = view[x]
      PROVE  \E a \in Attempts : att'[a].pane = p /\ Pending(a)'
  <2>1. PICK a \in Attempts : /\ att[a] = Unused
                              /\ att' = [att EXCEPT ![a].pane = q, ![a].phase = "connecting"]
    BY <1>1 DEF ConnectSession
  <2>2. /\ att'[a].pane = q /\ att'[a].phase = "connecting" /\ att[a].pane = None
        /\ \A b \in Attempts \ {a} : att'[b] = att[b]
    BY <2>1 DEF TypeOK, Attempt, Unused
  <2>3. CASE q = p
    BY <2>2, <2>3
  <2>4. CASE q # p
    <3>1. timer'[p] = timer[p] /\ status'[p] = status[p] /\ view'[p] = view[p]
      BY <1>1, <2>4 DEF ConnectSession, TypeOK
    <3> QED
      BY <1>0, <2>2, <3>1 DEF Spinning, Mounted
  <2> QED
    BY <2>3, <2>4
<1>2. ASSUME \A a \in Attempts : Pending(a) /\ att[a].pane = p => Pending(a)' /\ att'[a].pane = p,
             timer'[p] = timer[p], Spinning(p)
      PROVE  \E a \in Attempts : att'[a].pane = p /\ Pending(a)'
  BY <1>0, <1>2
<1>3. ASSUME NEW q \in Panes, Mount(q) \/ TimerFires(q) \/ Reconnect(q)
      PROVE  \E a \in Attempts : att'[a].pane = p /\ Pending(a)'
  BY <1>1, <1>3 DEF Mount, TimerFires, Reconnect, TypeOK
<1>4. ASSUME NEW q \in Panes, Dispose(q)
      PROVE  \E a \in Attempts : att'[a].pane = p /\ Pending(a)'
  <2>1. p # q /\ timer'[p] = timer[p] /\ Spinning(p)
    BY <1>4 DEF Dispose, Spinning, Mounted, TypeOK
  <2>2. \A a \in Attempts : /\ att'[a].pane = att[a].pane /\ att'[a].phase = att[a].phase
                            /\ att'[a].reply = att[a].reply
    BY <1>4 DEF Dispose, TypeOK, Attempt
  <2> QED
    BY <1>2, <2>1, <2>2
<1>5. ASSUME UNCHANGED paneVars,
             \A a \in Attempts : Pending(a) /\ att[a].pane = p => Pending(a)' /\ att'[a].pane = p
      PROVE  \E a \in Attempts : att'[a].pane = p /\ Pending(a)'
  BY <1>2, <1>5 DEF paneVars, Spinning, Mounted
<1>6. ASSUME NEW q \in Panes, Type(q) \/ Enter(q) \/ Abort(q) \/ Resize(q)
      PROVE  \E a \in Attempts : att'[a].pane = p /\ Pending(a)'
  <2>1. \A a \in Attempts : /\ att'[a].pane = att[a].pane /\ att'[a].phase = att[a].phase
                            /\ att'[a].reply = att[a].reply
    <3>1. CASE Write(q)
      BY <3>1 DEF Write, TypeOK, Attempt
    <3>2. CASE Resize(q)
      BY <3>2 DEF Resize, TypeOK, Attempt
    <3> QED
      BY <1>6, <3>1, <3>2 DEF Type, Enter, Abort
  <2> QED
    BY <1>5, <1>6, <2>1 DEF Type, Enter, Abort, Resize
<1>7. ASSUME NEW a \in Attempts,
             \/ BackendConnects(a) \/ RemoteAsks(a) \/ ConnectionLost(a)
             \/ ChannelEnds(a) \/ TaskCommand(a)
      PROVE  \E b \in Attempts : att'[b].pane = p /\ Pending(b)'
  <2>1. \A b \in Attempts : Pending(b) => Pending(b)' /\ att'[b].pane = att[b].pane
    <3>1. CASE BackendConnects(a)
      <4>1. /\ att'[a].pane = att[a].pane /\ att'[a].reply \in {"ok", "fail"}
            /\ \A b \in Attempts \ {a} : att'[b] = att[b]
        BY <3>1 DEF BackendConnects, TypeOK, Attempt
      <4> QED
        BY <4>1
    <3>2. CASE RemoteAsks(a)
      BY <3>2 DEF RemoteAsks, TypeOK, Attempt
    <3>3. CASE ConnectionLost(a)
      BY <3>3 DEF ConnectionLost, TypeOK, Attempt
    <3>4. CASE \E ev : att[a].phase = "live" /\ att' = Ends(a, ev)
      BY <3>4 DEF Ends, TypeOK, Attempt
    <3>5. CASE att' = [att EXCEPT ![a].wrote = FALSE]
      BY <3>5 DEF TypeOK, Attempt
    <3> QED
      BY <1>7, <3>1, <3>2, <3>3, <3>4, <3>5 DEF ChannelEnds, TaskCommand
  <2>2. UNCHANGED paneVars
    BY <1>7 DEF BackendConnects, RemoteAsks, ConnectionLost, ChannelEnds, TaskCommand, frontend
  <2> QED
    BY <1>5, <2>1, <2>2
<1>8. ASSUME NEW q \in Panes, NEW s \in {"error", "closed"}, HandleDisconnect(q, s), UNCHANGED view
      PROVE  p # q /\ timer'[p] = timer[p] /\ Spinning(p)
  BY <1>8 DEF HandleDisconnect, StatusSettled, Spinning, Mounted, TypeOK
<1>9. ASSUME NEW a \in Attempts, TakeReply(a)
      PROVE  \E b \in Attempts : att'[b].pane = p /\ Pending(b)'
  <2>1. \A b \in Attempts : /\ att'[b].pane = att[b].pane
                            /\ b # a => att'[b] = att[b]
    BY <1>9 DEF TakeReply, CloseLate, TypeOK, Attempt
  <2>2. att[a].pane # p /\ timer'[p] = timer[p] /\ Spinning(p)
    BY <1>8, <1>9 DEF TakeReply, Spinning, Mounted, TypeOK, paneVars
  <2> QED
    BY <1>2, <2>1, <2>2
<1>10. ASSUME NEW a \in Attempts, TakeEvent(a)
       PROVE  \E b \in Attempts : att'[b].pane = p /\ Pending(b)'
  <2>1. \A b \in Attempts : /\ att'[b].pane = att[b].pane /\ att'[b].phase = att[b].phase
                            /\ att'[b].reply = att[b].reply
    BY <1>10 DEF TakeEvent, TypeOK, Attempt
  <2>2. Head(att[a].chan) \in {"prompt", "error", "closed"}
    BY <1>10, AttemptTypes, EventTypes DEF TakeEvent
  <2>3. timer'[p] = timer[p] /\ Spinning(p)
    BY <1>8, <1>10, <2>2 DEF TakeEvent, Spinning, Mounted, TypeOK
  <2> QED
    BY <1>2, <2>1, <2>3
<1>11. CASE UNCHANGED vars
  BY <1>5, <1>11 DEF vars
<1> QED
  BY <1>3, <1>4, <1>6, <1>7, <1>9, <1>10, <1>11 DEF Next, User

\* No pane spins for ever by itself: a spinner means a connect call that is
\* unanswered or a retry timer that runs.
THEOREM SpinnersWork == Spec => []SpinnerMeansWork
<1>1. Init => SpinnerMeansWork
  BY DEF Init, SpinnerMeansWork, Spinning, Mounted
<1>2. SessionInv => PanesFit
  BY DEF SessionInv
<1> QED
  BY <1>1, <1>2, SpinnerNext, TerminalTypes, SessionInvInit, SessionInvNext, PTL DEF Spec

-----------------------------------------------------------------------------
(***************************************************************************)
(* Host keys: the concurrent transactions of KnownHosts implement          *)
(* trust-on-first-use, for any number of endpoints, keys and attempts.     *)
(***************************************************************************)

\* Inside a transaction the check holds the write lock, so what it selected is
\* still what the table holds; a check has an outcome exactly when it is over.
InTransaction == {"select", "decide", "commit"}

LockInv ==
    \A c \in Checks :
        /\ pc[c] \in InTransaction => writer = c
        /\ pc[c] \in {"decide", "commit"} => seen[c] = table[endpoint[c]]
        /\ pc[c] = "commit" => insert[c] = (seen[c] = NoKey)
        /\ pc[c] # "done" => verdict[c] = "pending"

\* An acceptance that no deletion followed is still the pinned key.
PinInv ==
    \A c \in Checks : verdict[c] = "accepted" =>
        /\ pc[c] = "done"
        /\ deletesAt[c] <= deletes[endpoint[c]]
        /\ deletesAt[c] = deletes[endpoint[c]] => table[endpoint[c]] = key[c]

TrustInv == TrustTypeOK /\ LockInv /\ PinInv /\ OneKeyPerEndpoint

\* The inductive invariant holds initially.
LEMMA TrustInvInit == TrustInit => TrustInv
  BY KnownHostsAssumption
  DEF TrustInit, TrustInv, TrustTypeOK, LockInv, PinInv, OneKeyPerEndpoint, InTransaction

\* Types are preserved by every step of a check, a deletion or the process end.
LEMMA TrustTypeStep == TrustTypeOK /\ [TrustNext]_trustVars => TrustTypeOK'
<1> SUFFICES ASSUME TrustTypeOK, [TrustNext]_trustVars PROVE TrustTypeOK'
  OBVIOUS
<1> USE KnownHostsAssumption DEF TrustTypeOK
<1>1. ASSUME NEW c \in Checks, NEW e \in Endpoints, NEW k \in Keys,
             CheckServerKey(c, e, k)
      PROVE  TrustTypeOK'
  BY <1>1 DEF CheckServerKey
<1>2. ASSUME NEW c \in Checks, Begin(c) \/ Busy(c) \/ Select(c) \/ Decide(c) PROVE TrustTypeOK'
  BY <1>2 DEF Begin, Busy, Select, Found, Decide, Inserts
<1>3. ASSUME NEW c \in Checks, Commit(c) \/ Rollback(c) PROVE TrustTypeOK'
  BY <1>3 DEF Commit, Rollback
<1>4. ASSUME NEW e \in Endpoints, Delete(e) PROVE TrustTypeOK'
  BY <1>4 DEF Delete
<1>5. CASE Killed
  BY <1>5 DEF Killed
<1>6. CASE UNCHANGED trustVars
  BY <1>6 DEF trustVars
<1> QED
  BY <1>1, <1>2, <1>3, <1>4, <1>5, <1>6 DEF TrustNext

\* The lock discipline of BEGIN IMMEDIATE is preserved.
LEMMA TrustLockStep == TrustTypeOK /\ LockInv /\ [TrustNext]_trustVars => LockInv'
<1> SUFFICES ASSUME TrustTypeOK, LockInv, [TrustNext]_trustVars PROVE LockInv'
  OBVIOUS
<1> USE KnownHostsAssumption DEF TrustTypeOK, LockInv, InTransaction
<1>1. ASSUME NEW c \in Checks, NEW e \in Endpoints, NEW k \in Keys,
             CheckServerKey(c, e, k)
      PROVE  LockInv'
  BY <1>1 DEF CheckServerKey
<1>2. ASSUME NEW c \in Checks, Begin(c) PROVE LockInv'
  BY <1>2 DEF Begin, LockFree
<1>3. ASSUME NEW c \in Checks, Busy(c) PROVE LockInv'
  BY <1>3 DEF Busy
<1>4. ASSUME NEW c \in Checks, Select(c) PROVE LockInv'
  BY <1>4 DEF Select, Found
<1>5. ASSUME NEW c \in Checks, Decide(c) PROVE LockInv'
  BY <1>5 DEF Decide, Inserts
<1>6. ASSUME NEW c \in Checks, Commit(c) PROVE LockInv'
  BY <1>6 DEF Commit
<1>7. ASSUME NEW c \in Checks, Rollback(c) PROVE LockInv'
  BY <1>7 DEF Rollback
<1>8. ASSUME NEW e \in Endpoints, Delete(e) PROVE LockInv'
  BY <1>8 DEF Delete
<1>9. CASE Killed
  BY <1>9 DEF Killed
<1>10. CASE UNCHANGED trustVars
  BY <1>10 DEF trustVars
<1> QED
  BY <1>1, <1>2, <1>3, <1>4, <1>5, <1>6, <1>7, <1>8, <1>9, <1>10 DEF TrustNext

\* Only Commit and Delete change the table, Commit only where there was no pin.
LEMMA TrustPinStep ==
  TrustTypeOK /\ LockInv /\ PinInv /\ OneKeyPerEndpoint /\ [TrustNext]_trustVars
    => PinInv' /\ OneKeyPerEndpoint'
<1> SUFFICES ASSUME TrustTypeOK, LockInv, PinInv, OneKeyPerEndpoint, [TrustNext]_trustVars
             PROVE  PinInv' /\ OneKeyPerEndpoint'
  OBVIOUS
<1> USE KnownHostsAssumption DEF TrustTypeOK, PinInv, OneKeyPerEndpoint
<1>1. ASSUME NEW c \in Checks, NEW e \in Endpoints, NEW k \in Keys,
             CheckServerKey(c, e, k)
      PROVE  PinInv' /\ OneKeyPerEndpoint'
  BY <1>1 DEF CheckServerKey
<1>2. ASSUME NEW c \in Checks, Begin(c) \/ Select(c) \/ Decide(c)
      PROVE  PinInv' /\ OneKeyPerEndpoint'
  BY <1>2 DEF Begin, Select, Found, Decide
<1>3. ASSUME NEW c \in Checks, Busy(c) \/ Rollback(c)
      PROVE  PinInv' /\ OneKeyPerEndpoint'
  BY <1>3 DEF Busy, Rollback
<1>4. ASSUME NEW c \in Checks, Commit(c) PROVE PinInv' /\ OneKeyPerEndpoint'
  <2> DEFINE e == endpoint[c]
  <2>1. e \in Endpoints /\ key[c] \in Keys /\ verdict[c] = "pending"
    BY <1>4 DEF Commit, LockInv
  <2>2. seen[c] = table[e] /\ insert[c] = (table[e] = NoKey)
    BY <1>4 DEF Commit, LockInv
  <2>3. /\ UNCHANGED <<endpoint, key, deletes>>
        /\ \A d \in Checks \ {c} : UNCHANGED <<verdict[d], deletesAt[d], pc[d]>>
        /\ pc'[c] = "done" /\ deletesAt'[c] = deletes[e]
    BY <1>4 DEF Commit
  <2>4. verdict'[c] = "accepted" => table'[e] = key[c]
    BY <1>4, <2>1, <2>2 DEF Commit
  <2>5. \A g \in Endpoints : table[g] # NoKey => table'[g] = table[g]
    BY <1>4, <2>1, <2>2 DEF Commit
  <2>6. \A d \in Checks \ {c} :
          verdict[d] = "accepted" => endpoint[d] \in Endpoints /\ key[d] \in Keys
    OBVIOUS
  <2>7. PinInv'
    BY <2>1, <2>3, <2>4, <2>5, <2>6
  <2>8. OneKeyPerEndpoint'
    BY <2>1, <2>3, <2>4, <2>5, <2>6
  <2> QED
    BY <2>7, <2>8
<1>5. ASSUME NEW e \in Endpoints, Delete(e) PROVE PinInv' /\ OneKeyPerEndpoint'
  BY <1>5 DEF Delete
<1>6. CASE Killed
  BY <1>6 DEF Killed
<1>7. CASE UNCHANGED trustVars
  BY <1>7 DEF trustVars
<1> QED
  BY <1>1, <1>2, <1>3, <1>4, <1>5, <1>6, <1>7 DEF TrustNext

\* The inductive invariant holds in every reachable state.
LEMMA TrustInvariant == TrustSpec => []TrustInv
<1>1. TrustInv /\ [TrustNext]_trustVars => TrustInv'
  BY TrustTypeStep, TrustLockStep, TrustPinStep DEF TrustInv
<1> QED
  BY TrustInvInit, <1>1, PTL DEF TrustSpec

\* Types of the pin table and the checks.
THEOREM KnownHostsTypes == TrustSpec => []TrustTypeOK
<1>1. TrustInv => TrustTypeOK
  BY DEF TrustInv
<1> QED
  BY <1>1, TrustInvariant, PTL

\* Two accepted checks of one endpoint saw the same key unless its pin was
\* deleted in between: verify_or_trust never trusts two keys.
THEOREM NeverTwoKeys == TrustSpec => []OneKeyPerEndpoint
<1>1. TrustInv => OneKeyPerEndpoint
  BY DEF TrustInv
<1> QED
  BY <1>1, TrustInvariant, PTL

\* The interleaved transactions of verify_or_trust, with failures, deletions
\* and kills, implement the one-at-a-time specification of trust on first use.
THEOREM Refinement == TrustSpec => ImplementsTOFU
<1> USE KnownHostsAssumption
<1>1. TrustInit => TOFU!Init
  BY DEF TrustInit, TOFU!Init
<1>2. TrustInv /\ [TrustNext]_trustVars => [TOFU!Next]_(TOFU!vars)
  <2> SUFFICES ASSUME TrustInv, [TrustNext]_trustVars PROVE TOFU!Next \/ UNCHANGED <<table, verdict>>
    BY DEF TOFU!vars
  <2> USE DEF TrustInv, TrustTypeOK
  <2>1. ASSUME NEW c \in Checks, Busy(c) \/ Rollback(c) PROVE TOFU!Fail({c})
    BY <2>1 DEF Busy, Rollback, TOFU!Fail, LockInv
  <2>2. ASSUME NEW c \in Checks, Commit(c)
        PROVE  TOFU!VerifyOrTrust(c, endpoint[c], key[c])
    <3>1. /\ endpoint[c] \in Endpoints /\ verdict[c] = "pending"
          /\ seen[c] = table[endpoint[c]]
          /\ insert[c] = (table[endpoint[c]] = NoKey)
      BY <2>2 DEF Commit, LockInv
    <3> QED
      BY <2>2, <3>1 DEF Commit, TOFU!VerifyOrTrust, TOFU!Deserved
  <2>3. ASSUME NEW e \in Endpoints, Delete(e) PROVE TOFU!Delete(e)
    BY <2>3 DEF Delete, Listed, TOFU!Delete
  <2>4. ASSUME Killed PROVE TOFU!Fail({c \in Checks : pc[c] \notin {"idle", "done"}})
    BY <2>4 DEF Killed, TOFU!Fail, LockInv
  <2>5. ASSUME NEW c \in Checks,
               \/ \E e \in Endpoints, k \in Keys : CheckServerKey(c, e, k)
               \/ Begin(c) \/ Select(c) \/ Decide(c)
        PROVE  UNCHANGED <<table, verdict>>
    BY <2>5 DEF CheckServerKey, Begin, Select, Found, Decide
  <2>6. CASE UNCHANGED trustVars
    BY <2>6 DEF trustVars
  <2>7. \A c \in Checks : Commit(c) => endpoint[c] \in Endpoints /\ key[c] \in Keys
    BY DEF Commit
  <2>8. \A C \in SUBSET Checks : TOFU!Fail(C) => TOFU!Next
    BY DEF TOFU!Next
  <2>9. ASSUME NEW c \in Checks, Commit(c) PROVE TOFU!Next
    BY <2>9, <2>2, <2>7 DEF TOFU!Next
  <2>10. ASSUME NEW c \in Checks, Busy(c) \/ Rollback(c) PROVE TOFU!Next
    <3>1. TOFU!Fail({c}) /\ {c} \in SUBSET Checks
      BY <2>10, <2>1
    <3> QED
      BY <3>1, <2>8
  <2>11. ASSUME Killed PROVE TOFU!Next
    <3>1. {c \in Checks : pc[c] \notin {"idle", "done"}} \in SUBSET Checks
      OBVIOUS
    <3> QED
      BY <2>11, <2>4, <2>8, <3>1
  <2>12. ASSUME NEW e \in Endpoints, Delete(e) PROVE TOFU!Next
    BY <2>12, <2>3 DEF TOFU!Next
  <2> QED
    BY <2>5, <2>6, <2>9, <2>10, <2>11, <2>12 DEF TrustNext
<1> QED
  BY <1>1, <1>2, TrustInvariant, PTL DEF TrustSpec, ImplementsTOFU, TOFU!Spec

\* No check replaces a pin, also when it fails half-way or is killed: the row of
\* an endpoint changes only through known_hosts::delete.
THEOREM PinsStay == TrustSpec => PinsOnlyDeleted
<1> DEFINE Kept == \A e \in Endpoints :
                     table[e] # NoKey => \/ table'[e] = table[e]
                                         \/ table'[e] = NoKey /\ deletes'[e] > deletes[e]
<1>1. TrustInv /\ [TrustNext]_trustVars => [Kept]_trustVars
  <2> SUFFICES ASSUME TrustInv, TrustNext PROVE Kept
    OBVIOUS
  <2> USE KnownHostsAssumption DEF TrustInv, TrustTypeOK
  <2>1. ASSUME NEW c \in Checks, Commit(c) PROVE Kept
    <3>1. insert[c] => table[endpoint[c]] = NoKey
      BY <2>1 DEF Commit, LockInv
    <3> QED
      BY <2>1, <3>1 DEF Commit
  <2>2. ASSUME NEW e \in Endpoints, Delete(e) PROVE Kept
    BY <2>2 DEF Delete
  <2>3. ASSUME table' = table PROVE Kept
    BY <2>3
  <2>4. ASSUME NEW c \in Checks,
               \/ \E e \in Endpoints, k \in Keys : CheckServerKey(c, e, k)
               \/ Begin(c) \/ Busy(c) \/ Select(c) \/ Decide(c) \/ Rollback(c)
        PROVE  table' = table
    BY <2>4 DEF CheckServerKey, Begin, Busy, Select, Found, Decide, Rollback
  <2>5. Killed => table' = table
    BY DEF Killed
  <2> QED
    BY <2>1, <2>2, <2>3, <2>4, <2>5 DEF TrustNext
<1> QED
  BY <1>1, TrustInvariant, PTL DEF TrustSpec, PinsOnlyDeleted
=============================================================================
