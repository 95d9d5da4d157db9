-------------------------- MODULE TerminalSession --------------------------
(***************************************************************************)
(* Terminal panes and their SSH sessions: the connect effect of            *)
(* components/terminal/TerminalView.tsx, what it keeps in sessionsStore and *)
(* commandHistoryStore, and the session task of ssh/session.rs behind it.   *)
(*                                                                          *)
(* Every sessionConnect is an attempt with an identifier of its own, which  *)
(* is also the session's.  Its reply and the events of its channel reach    *)
(* the pane independently of each other; events of one channel in order.    *)
(***************************************************************************)
EXTENDS Naturals, Sequences, FiniteSets

CONSTANTS
    Panes,
    NumAttempts,    \* bound: calls of sessionConnect
    MaxRetries,     \* RECONNECT_BACKOFF_MS.length
    None

ASSUME TerminalAssumption ==
    /\ MaxRetries \in Nat /\ NumAttempts \in Nat \ {0}
    /\ None \notin 1..NumAttempts /\ None \notin Panes

VARIABLES
    att,        \* the attempts: see Attempt
    view,       \* pane -> "new", "mounted" or "disposed"
    held,       \* pane -> sessionIdRef
    status, retries, timer,  \* of the pane's connect effect
    sessionIds, \* sessionsStore.sessionIds
    line,       \* pane -> what lineBuffer holds
    suppress,   \* pane -> suppressNextLine
    prompted    \* history: panes whose last output asks for a secret

paneVars == <<view, held, status, retries, timer, sessionIds>>
inputVars == <<line, suppress, prompted>>
vars == <<att, paneVars, inputVars>>

Attempts == 1..NumAttempts

\* The backend's side of an attempt: its phase, the answer to the call, the
\* events sent, a connection that was lost, and the commands in its channel.
Attempt == [pane : Panes \cup {None},
            phase : {"unused", "connecting", "live", "ended"},
            reply : {"none", "ok", "fail", "taken"},
            chan : Seq({"prompt", "error", "closed"}),
            broken : BOOLEAN, wrote : BOOLEAN, stop : BOOLEAN]
Unused == [pane |-> None, phase |-> "unused", reply |-> "none", chan |-> <<>>,
           broken |-> FALSE, wrote |-> FALSE, stop |-> FALSE]

Status == {"connecting", "connected", "reconnecting", "closed", "error"}

TypeOK ==
    /\ att \in [Attempts -> Attempt]
    /\ view \in [Panes -> {"new", "mounted", "disposed"}]
    /\ held \in [Panes -> Attempts \cup {None}]
    /\ status \in [Panes -> Status]
    /\ retries \in [Panes -> 0..MaxRetries]
    /\ timer \in [Panes -> BOOLEAN]
    /\ sessionIds \in [Panes -> Attempts \cup {None}]
    /\ line \in [Panes -> {"empty", "plain", "secret"}]
    /\ suppress \in [Panes -> BOOLEAN]
    /\ prompted \subseteq Panes

Init ==
    /\ att = [a \in Attempts |-> Unused]
    /\ view = [p \in Panes |-> "new"]
    /\ held = [p \in Panes |-> None]
    /\ status = [p \in Panes |-> "connecting"]
    /\ retries = [p \in Panes |-> 0]
    /\ timer = [p \in Panes |-> FALSE]
    /\ sessionIds = [p \in Panes |-> None]
    /\ line = [p \in Panes |-> "empty"]
    /\ suppress = [p \in Panes |-> FALSE]
    /\ prompted = {}

Mounted == {p \in Panes : view[p] = "mounted"}
AttemptsOf(p) == {a \in Attempts : att[a].pane = p}
\* Commands to a session that is not in the table are refused, and ignored.
Running(a) == att[a].phase = "live"
Pending(a) == att[a].phase = "connecting" \/ att[a].reply \in {"ok", "fail"}

\* Everything the backend has sent to the pane was delivered.  The backoff
\* (2 s and more) and a user who reads the status before clicking are slower
\* than messages already on their way: assumed where a pane connects again.
Settled(p) == \A a \in AttemptsOf(p) : att[a].reply \notin {"ok", "fail"} /\ att[a].chan = <<>>

-----------------------------------------------------------------------------
(* Connecting                                                              *)

\* connectSession, with the count of automatic attempts so far.
ConnectSession(p, n) ==
    /\ \E a \in Attempts :
         /\ att[a] = Unused /\ \A b \in 1..(a - 1) : att[b] # Unused
         /\ att' = [att EXCEPT ![a].pane = p, ![a].phase = "connecting"]
    /\ retries' = [retries EXCEPT ![p] = n]
    /\ timer' = [timer EXCEPT ![p] = FALSE]
    /\ status' = [status EXCEPT ![p] = IF n > 0 THEN "reconnecting" ELSE "connecting"]
    /\ UNCHANGED <<held, sessionIds, inputVars>>

Mount(p) ==
    /\ view[p] = "new"
    /\ view' = [view EXCEPT ![p] = "mounted"]
    /\ ConnectSession(p, 0)

TimerFires(p) ==
    /\ p \in Mounted /\ timer[p] /\ Settled(p)
    /\ ConnectSession(p, retries[p])
    /\ UNCHANGED view

\* The Reconnect button is there while the pane shows "error" or "closed";
\* a version that is there at all times.
AlwaysShown(p) == p \in Mounted
ReconnectShown(p) == p \in Mounted /\ status[p] \in {"error", "closed"}

\* The spinner that covers the terminal.
Spinning(p) == p \in Mounted /\ status[p] \in {"connecting", "reconnecting"}

Reconnect(p) ==
    /\ ReconnectShown(p) /\ Settled(p)
    /\ ConnectSession(p, 0)
    /\ UNCHANGED view

RetryLeft(p) == retries[p] < MaxRetries

\* The status that is left; a version that does not set it.
StatusKept(p, settled) == status[p]
StatusSettled(p, settled) == settled

\* handleDisconnect: an automatic retry is scheduled, or the status settles.
\* The setting autoReconnectEnabled is read now, and may be either.
HandleDisconnect(p, settled) ==
    \E auto \in BOOLEAN :
      LET retry == settled = "error" /\ auto /\ RetryLeft(p)
      IN
        /\ held' = [held EXCEPT ![p] = None]
        /\ retries' = IF retry THEN [retries EXCEPT ![p] = @ + 1] ELSE retries
        /\ timer' = IF retry THEN [timer EXCEPT ![p] = TRUE] ELSE timer
        /\ status' = [status EXCEPT ![p] =
                         IF retry THEN "reconnecting" ELSE StatusSettled(p, settled)]

\* A session that arrives after the pane is gone is closed at once; a version
\* that forgets it.
ForgetLate(a) == [att EXCEPT ![a].reply = "taken"]
CloseLate(a) == [att EXCEPT ![a].reply = "taken", ![a].stop = Running(a)]

\* The promise of sessionConnect is resolved or rejected.
TakeReply(a) ==
    LET p == att[a].pane
    IN  /\ att[a].reply \in {"ok", "fail"}
        /\ \/ /\ att[a].reply = "ok" /\ p \notin Mounted
              /\ att' = CloseLate(a)
              /\ UNCHANGED paneVars
           \/ /\ att[a].reply = "ok" /\ p \in Mounted
              /\ att' = [att EXCEPT ![a].reply = "taken", ![a].wrote = Running(a)]
              /\ held' = [held EXCEPT ![p] = a]
              /\ retries' = [retries EXCEPT ![p] = 0]
              /\ status' = [status EXCEPT ![p] = "connected"]
              /\ sessionIds' = [sessionIds EXCEPT ![p] = a]
              /\ UNCHANGED <<view, timer>>
           \/ /\ att[a].reply = "fail"
              /\ att' = [att EXCEPT ![a].reply = "taken"]
              /\ IF p \in Mounted THEN HandleDisconnect(p, "error")
                 ELSE UNCHANGED <<held, retries, timer, status>>
              /\ UNCHANGED <<view, sessionIds>>
        /\ UNCHANGED <<inputVars>>

\* The channel's callback: output that asks for a secret, or the end.
TakeEvent(a) ==
    LET p == att[a].pane
        e == Head(att[a].chan)
    IN  /\ att[a].chan # <<>>
        /\ att' = [att EXCEPT ![a].chan = Tail(@)]
        /\ IF p \in Mounted /\ e = "prompt"
           THEN /\ suppress' = [suppress EXCEPT ![p] = TRUE]
                /\ prompted' = prompted \cup {p}
           ELSE UNCHANGED <<suppress, prompted>>
        /\ IF p \in Mounted /\ e # "prompt" THEN HandleDisconnect(p, e)
           ELSE UNCHANGED <<held, retries, timer, status>>
        /\ UNCHANGED <<view, sessionIds, line>>

\* The effect's cleanup, when the pane is closed: closePane and closeSession
\* drop its status and session, and the effect's own variables are gone.
Dispose(p) ==
    /\ p \in Mounted
    /\ view' = [view EXCEPT ![p] = "disposed"]
    /\ timer' = [timer EXCEPT ![p] = FALSE]
    /\ held' = [held EXCEPT ![p] = None]
    /\ sessionIds' = [sessionIds EXCEPT ![p] = None]
    /\ att' = IF held[p] = None THEN att ELSE [att EXCEPT ![held[p]].stop = Running(held[p])]
    /\ status' = [status EXCEPT ![p] = "connecting"]
    /\ retries' = [retries EXCEPT ![p] = 0]
    /\ line' = [line EXCEPT ![p] = "empty"]
    /\ suppress' = [suppress EXCEPT ![p] = FALSE]
    /\ prompted' = prompted \ {p}

-----------------------------------------------------------------------------
(* Typing                                                                  *)

\* The sessions a keystroke is written to: the pane's own and, with broadcast,
\* what the store has for the tab's other panes.
Targets(p, broadcast) ==
    ({held[p]} \cup (IF broadcast THEN {sessionIds[q] : q \in Mounted \ {p}} ELSE {}))
        \ {None}

\* The Broadcast button, which a tab with several panes has, may be clicked
\* between any two keystrokes.
BroadcastChoices == IF Cardinality(Mounted) > 1 THEN BOOLEAN ELSE {FALSE}
Write(p) ==
  \E broadcast \in BroadcastChoices :
    att' = [a \in Attempts |-> IF a \in Targets(p, broadcast) /\ Running(a)
                               THEN [att[a] EXCEPT !.wrote = TRUE] ELSE att[a]]

\* Characters: the user answers the prompt on the screen, if there is one.
Type(p) ==
    /\ p \in Mounted /\ \A q \in Panes : line[q] = "empty"
    /\ line' = [line EXCEPT ![p] = IF p \in prompted THEN "secret" ELSE "plain"]
    /\ Write(p)
    /\ UNCHANGED <<paneVars, suppress, prompted>>

\* Enter: commandHistoryStore records the line unless it may be a secret.
RecordedLine(p) == IF suppress[p] THEN {} ELSE {line[p]} \ {"empty"}
Enter(p) ==
    /\ p \in Mounted
    /\ line' = [line EXCEPT ![p] = "empty"]
    /\ suppress' = [suppress EXCEPT ![p] = FALSE]
    /\ prompted' = prompted \ {p}
    /\ Write(p)
    /\ UNCHANGED paneVars

\* Ctrl+U clears the line and the remote program goes on asking, Ctrl+C also
\* ends that program.  A version in which they count as the end of the line.
SuppressAfterClear(p) == [suppress EXCEPT ![p] = FALSE]
SuppressAfterAbort(p) == suppress
Abort(p) ==
    /\ p \in Mounted /\ line[p] # "empty"
    /\ line' = [line EXCEPT ![p] = "empty"]
    /\ suppress' = SuppressAfterAbort(p)
    /\ prompted' \in {prompted, prompted \ {p}}
    /\ Write(p)
    /\ UNCHANGED paneVars

\* The ResizeObserver and the settings effect write to the session as well.
Resize(p) ==
    /\ p \in Mounted /\ held[p] # None
    /\ att' = [att EXCEPT ![held[p]].wrote = Running(held[p])]
    /\ UNCHANGED <<paneVars, inputVars>>

-----------------------------------------------------------------------------
(* The backend                                                             *)

frontend == <<paneVars, inputVars>>

\* connect: authenticated, with a shell and a task; or refused.
BackendConnects(a) ==
    /\ att[a].phase = "connecting"
    /\ \/ att' = [att EXCEPT ![a].phase = "live", ![a].reply = "ok"]
       \/ att' = [att EXCEPT ![a].phase = "ended", ![a].reply = "fail"]
    /\ UNCHANGED frontend

\* The end of the task: out of the table with its commands, then Closed, after
\* Error if a write failed.
Ends(a, events) ==
    [att EXCEPT ![a].phase = "ended", ![a].chan = @ \o events,
                ![a].broken = FALSE, ![a].wrote = FALSE, ![a].stop = FALSE]

\* Bound: one prompt and (in Type) one line at a time.
RemoteAsks(a) ==
    /\ att[a].phase = "live" /\ ~att[a].broken
    /\ prompted = {} /\ \A b \in Attempts : att[b].chan = <<>>
    /\ att' = [att EXCEPT ![a].chan = <<"prompt">>]
    /\ UNCHANGED frontend

\* The connection is lost; nobody is told.
ConnectionLost(a) ==
    /\ att[a].phase = "live" /\ ~att[a].broken
    /\ att' = [att EXCEPT ![a].broken = TRUE]
    /\ UNCHANGED frontend

\* channel.wait() returns Close or Eof after `exit`, None for a lost connection.
ChannelEnds(a) ==
    /\ att[a].phase = "live"
    /\ att' = Ends(a, <<"closed">>)
    /\ UNCHANGED frontend

\* A command from the channel: Write and Resize fail if the connection is lost.
TaskCommand(a) ==
    /\ att[a].phase = "live"
    /\ \/ /\ att[a].wrote
          /\ att' = IF att[a].broken THEN Ends(a, <<"error", "closed">>)
                    ELSE [att EXCEPT ![a].wrote = FALSE]
       \/ /\ ~att[a].wrote /\ att[a].stop
          /\ att' = Ends(a, <<"closed">>)
    /\ UNCHANGED frontend

-----------------------------------------------------------------------------
User(p) ==
    \/ Mount(p) \/ Reconnect(p) \/ Dispose(p)
    \/ Type(p) \/ Enter(p) \/ Abort(p) \/ Resize(p)

Next ==
    \/ \E p \in Panes : User(p) \/ TimerFires(p)
    \/ \E a \in Attempts :
         \/ BackendConnects(a) \/ RemoteAsks(a) \/ ConnectionLost(a)
         \/ ChannelEnds(a) \/ TaskCommand(a) \/ TakeReply(a) \/ TakeEvent(a)

\* Messages are delivered and the task takes its commands.  That a server
\* answers, or that a lost connection is noticed, is not assumed.
Fairness ==
    \A a \in Attempts : WF_vars(TakeReply(a)) /\ WF_vars(TaskCommand(a))

Spec == Init /\ [][Next]_vars /\ Fairness

-----------------------------------------------------------------------------
\* A session that runs is one its pane can still close: the pane holds it, or
\* its answer is on the way, or it has been told to close.
SessionsReachable ==
    \A a \in Attempts :
        att[a].phase = "live" =>
            \/ att[a].reply = "ok" \/ att[a].stop
            \/ held[att[a].pane] = a /\ att[a].pane \in Mounted

\* A pane that shows its spinner has something to wait for: a connect call or
\* the retry timer.
SpinnerMeansWork ==
    \A p \in Panes : Spinning(p) =>
        timer[p] \/ \E a \in AttemptsOf(p) : Pending(a)

\* What is typed at a prompt for a secret does not enter the command history,
\* also when the line was cleared and typed again, or the pane reconnected.
NoSecretRecorded == \A p \in Panes : "secret" \notin RecordedLine(p)

\* After a pane is closed its session ends, whenever its connect call answers.
DisposedEnds ==
    \A a \in Attempts : (Running(a) /\ att[a].pane \notin Mounted) ~> ~Running(a)
=============================================================================
