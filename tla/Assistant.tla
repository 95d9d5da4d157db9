----------------------------- MODULE Assistant ------------------------------
(***************************************************************************)
(* The AI assistant's conversation about one host: state/aiStore.ts, the    *)
(* buttons of components/ai and AiAssistantDrawer, the denylist of          *)
(* commands/ai_commands.rs, and beside it the settings (AiSettings).        *)
(*                                                                          *)
(* A flow is one chain of awaits: a turn asked of the provider, a command   *)
(* on its way to the server, or the one after the other.  It keeps what it  *)
(* read before each await.  Texts are left out, and so is `error`, which is *)
(* only shown.                                                              *)
(***************************************************************************)
EXTENDS AiSettings, Sequences, SequencesExt, FiniteSetsExt

CONSTANTS
    Flows,                      \* bound: flows on their way at one time
    MAX_AUTONOMOUS_ITERATIONS,
    MaxClicks                   \* bound: what the user does; a click in the settings counts twice

ASSUME AssistantAssumption ==
    /\ Flows # {}
    /\ {MAX_AUTONOMOUS_ITERATIONS, MaxClicks} \subseteq Nat

VARIABLES
    convo,      \* the conversation: AiConversation
    flow,       \* flow[f]: where it is, and what it carries
    ran,        \* history: the commands that reached the server
    cleared,    \* history: the conversation was cleared under a flow
    clicks

vars == <<convo, flow, ran, cleared, clicks, settings>>

\* danger: the denylist matches the command.  auto: proposed in autonomous mode.
Message(id, role, danger, auto) ==
    [id |-> id, role |-> role, danger |-> danger, auto |-> auto, confirm |-> FALSE]
EmptyConversation ==
    [messages |-> <<>>, mode |-> "ask", provider |-> None, running |-> FALSE,
     stop |-> FALSE, iter |-> 0]
NoFlow == [pc |-> "idle", msg |-> 0, danger |-> FALSE, over |-> FALSE, provider |-> None]

Idle == {f \in Flows : flow[f].pc = "idle"}
Messages == convo.messages
Pending(ms) == ms # <<>> /\ Last(ms).role = "call"          \* hasPendingToolCall
toMessageInputs(ms) == [i \in DOMAIN ms |-> ms[i].role]      \* what a provider is sent
\* A new identifier (random in the code): larger than all that are in use.
NewId == 1 + Max({0} \cup {m.id : m \in ToSet(Messages)} \cup {flow[f].msg : f \in Flows})

Init ==
    /\ convo = EmptyConversation /\ flow = [f \in Flows |-> NoFlow]
    /\ ran = {} /\ cleared = FALSE /\ clicks = 0
    /\ SettingsInit

-----------------------------------------------------------------------------
(* runCommand                                                              *)

\* The guard against two runs at a time.
MayRun(c) == ~c.running /\ c.provider # None

\* With a live terminal session the command is typed there, once the denylist
\* was asked; without, it is executed apart.  A version that types at once.
TypedAtOnce(live, over) == IF live THEN "write" ELSE "gate"
FirstStep(live, over) == IF live THEN IF over THEN "write" ELSE "check" ELSE "gate"

\* The call of runCommand in conversation c for message m, by flow f.
RunCommand(f, c, m, over) ==
    \E live \in BOOLEAN :
      IF MayRun(c)
      THEN /\ convo' = [c EXCEPT !.running = TRUE]
           /\ flow' = [flow EXCEPT ![f] = [pc |-> FirstStep(live, over), msg |-> m.id, over |-> over,
                                           danger |-> m.danger, provider |-> c.provider]]
      ELSE convo' = c /\ flow' = [flow EXCEPT ![f] = NoFlow]

\* The flow ends and the conversation becomes c; `running` is reset by
\* whichever flow ends.
End(f, c) ==
    /\ convo' = [c EXCEPT !.running = FALSE]
    /\ flow' = [flow EXCEPT ![f] = NoFlow]

Add(c, m) == [c EXCEPT !.messages = Append(@, m)]
Result(f) == Message(NewId, "result", flow[f].danger, FALSE)
NeedsConfirmation(f) ==
    [convo EXCEPT !.messages = [i \in DOMAIN Messages |->
        IF Messages[i].id = flow[f].msg THEN [Messages[i] EXCEPT !.confirm = TRUE] ELSE Messages[i]]]

\* ai_command_check: a match stops the flow until the user confirms.
Check(f) ==
    /\ flow[f].pc = "check"
    /\ \/ End(f, convo)
       \/ flow[f].danger /\ End(f, NeedsConfirmation(f))
       \/ ~flow[f].danger /\ flow' = [flow EXCEPT ![f].pc = "write"] /\ UNCHANGED convo
    /\ UNCHANGED ran

Ran(f) == [danger |-> flow[f].danger, over |-> flow[f].over, pasted |-> FALSE]

\* session_write of the command and a return: there is no output, and an
\* autonomous run pauses.
WriteToTerminal(f) ==
    /\ flow[f].pc = "write"
    /\ \/ End(f, convo) /\ UNCHANGED ran
       \/ End(f, Add(convo, Result(f))) /\ ran' = ran \cup {Ran(f)}

Gate(f) ==
    /\ flow[f].pc = "gate"
    /\ End(f, convo) \/ (flow' = [flow EXCEPT ![f].pc = "exec"] /\ UNCHANGED convo)
    /\ UNCHANGED ran

\* The cap on what an autonomous run does on its own.
BelowCap(c) == c.iter < MAX_AUTONOMOUS_ITERATIONS

\* ai_command_exec: the denylist again, unless overridden; a failure may come
\* before or after the command ran.  The result is added, and in autonomous
\* mode the provider is asked for the next turn.
Exec(f) ==
    /\ flow[f].pc = "exec"
    /\ LET c == Add(convo, Result(f))
           blocked == flow[f].danger /\ ~flow[f].over
       IN  \/ End(f, convo) /\ UNCHANGED ran
           \/ blocked /\ End(f, NeedsConfirmation(f)) /\ UNCHANGED ran
           \/ /\ ~blocked /\ ran' = ran \cup {Ran(f)}
              /\ \/ End(f, convo)
                 \/ IF c.mode = "autonomous" /\ ~c.stop /\ BelowCap(c)
                    THEN /\ convo' = [c EXCEPT !.iter = @ + 1]
                         /\ flow' = [flow EXCEPT ![f].pc = "chat"]
                    ELSE End(f, c)

-----------------------------------------------------------------------------
(* requestNextTurn                                                         *)

\* A failed request ends the turn; a version that asks again.
AskAgain(f) == UNCHANGED <<convo, flow>>
ChatFails(f) == End(f, convo)

\* A call is run at once in autonomous mode, by runCommand, which finds the
\* conversation still running.
Chat(f) ==
    /\ flow[f].pc = "chat" /\ UNCHANGED ran
    /\ \/ ChatFails(f)
       \/ /\ flow[f].provider \in keys
          /\ \/ End(f, Add(convo, Message(NewId, "text", FALSE, FALSE)))
             \/ \E danger \in BOOLEAN :
                  LET auto == convo.mode = "autonomous" /\ ~convo.stop
                      m == Message(NewId, "call", danger, auto)
                      c == Add(convo, m)
                  IN  IF auto THEN RunCommand(f, c, m, FALSE) ELSE End(f, c)

-----------------------------------------------------------------------------
(* The user's clicks                                                       *)

\* What the drawer shows: the conversation, once there is a provider; the
\* buttons of a proposal, on the last message only; the code blocks of answers.
PanelShown == active # None
RunOffered == PanelShown /\ Pending(Messages)
SkipOffered == RunOffered /\ ~convo.running /\ Last(Messages).confirm
CodeShown == PanelShown /\ \E m \in ToSet(Messages) : m.role = "text"
StopOffered == PanelShown /\ convo.running
ClearOffered == Messages # <<>>

\* The input is enabled with a provider, while nothing runs or waits; a version
\* that does not see the proposal that waits.
NotRunning == ~convo.running
MaySend == ~convo.running /\ ~Pending(Messages)
SendUserMessage ==
    /\ PanelShown /\ MaySend
    /\ \E f \in Idle :
         /\ convo' = [Add(convo, Message(NewId, "user", FALSE, FALSE)) EXCEPT
                        !.provider = active, !.running = TRUE, !.stop = FALSE]
         /\ flow' = [flow EXCEPT ![f] = [NoFlow EXCEPT !.pc = "chat", !.provider = active]]
    /\ UNCHANGED <<ran, cleared>>

\* "Run", or "Run anyway" once the denylist has matched, on the last message;
\* a double click may reach the store twice.
Run ==
    /\ RunOffered
    /\ \E f \in Idle : RunCommand(f, convo, Last(Messages), Last(Messages).confirm)
    /\ UNCHANGED <<ran, cleared>>

\* skipCommand: the providers need a result also for a call that was not run.
Skip ==
    /\ SkipOffered
    /\ convo' = Add([convo EXCEPT !.messages[Len(Messages)].confirm = FALSE],
                    Message(NewId, "result", Last(Messages).danger, FALSE))
    /\ UNCHANGED <<flow, ran, cleared>>

\* proposeAndRun: "Run" on a code block of an answer.
ProposeAndRun(danger) ==
    /\ CodeShown /\ MaySend /\ convo.provider # None
    /\ LET m == Message(NewId, "call", danger, FALSE)
       IN  \E f \in Idle : RunCommand(f, Add(convo, m), m, FALSE)
    /\ UNCHANGED <<ran, cleared>>

SetMode ==
    /\ PanelShown
    /\ convo' = [convo EXCEPT !.mode = IF @ = "ask" THEN "autonomous" ELSE "ask"]
    /\ UNCHANGED <<flow, ran, cleared>>

Stop ==
    /\ StopOffered
    /\ convo' = [convo EXCEPT !.stop = TRUE]
    /\ UNCHANGED <<flow, ran, cleared>>

\* "Clear" is there also while the conversation runs.
ClearConversation ==
    /\ ClearOffered
    /\ convo' = EmptyConversation
    /\ cleared' = (Idle # Flows)
    /\ UNCHANGED <<flow, ran>>

\* "Paste in server" writes the text as it is: of several lines all but the
\* last are run, here one that the denylist would have matched.
PasteCommand ==
    /\ PanelShown /\ \E m \in ToSet(Messages) : m.role \in {"text", "call"}
    /\ ran' = ran \cup {[danger |-> TRUE, over |-> FALSE, pasted |-> TRUE]}
    /\ UNCHANGED <<convo, flow, cleared>>

Talk ==
    \/ SendUserMessage \/ Run \/ Skip \/ SetMode \/ Stop \/ ClearConversation \/ PasteCommand
    \/ \E danger \in BOOLEAN : ProposeAndRun(danger)

Click ==
    \/ /\ clicks < MaxClicks /\ clicks' = clicks + 1
       /\ Talk /\ UNCHANGED settings
    \/ /\ clicks + 1 < MaxClicks /\ clicks' = clicks + 2
       /\ SettingsClick /\ UNCHANGED <<convo, flow, ran, cleared>>

FlowStep(f) ==
    /\ Chat(f) \/ Check(f) \/ WriteToTerminal(f) \/ Gate(f) \/ Exec(f)
    /\ UNCHANGED <<settings, cleared, clicks>>

Next ==
    \/ Click
    \/ SettingsStep /\ UNCHANGED <<convo, flow, ran, cleared, clicks>>
    \/ \E f \in Flows : FlowStep(f)

\* The provider and the backend answer, with a result or with an error.
Fairness == \A f \in Flows : WF_vars(FlowStep(f))
Spec == Init /\ [][Next]_vars /\ Fairness

-----------------------------------------------------------------------------
TypeOK ==
    /\ convo.mode \in {"ask", "autonomous"} /\ convo.provider \in Providers \cup {None}
    /\ {convo.running, convo.stop, cleared} \subseteq BOOLEAN
    /\ convo.iter \in 0..MAX_AUTONOMOUS_ITERATIONS
    /\ \A i \in 1..Len(Messages) : Messages[i].role \in {"user", "text", "call", "result"}
    /\ \A f \in Flows : flow[f].pc \in {"idle", "chat", "check", "write", "gate", "exec"}
    /\ SettingsOK

\* No command that the denylist matches reaches the server, through the exec
\* channel or through a terminal, in any mode, unless the match was shown and
\* the user clicked "Run anyway"; but for what "Paste in server" types, which is
\* not asked of the denylist.
DangerConfirmed == \A r \in ran : r.danger => r.over \/ r.pasted

CallsAnswered ==
    LET sent == toMessageInputs(Messages)
    IN  \A i \in 1..Len(sent) :
          /\ sent[i] = "call" /\ i < Len(sent) => sent[i + 1] = "result"
          /\ sent[i] = "result" => i > 1 /\ sent[i - 1] = "call"

OneFlow ==
    /\ Cardinality(Flows \ Idle) <= 1
    /\ Idle # Flows => convo.running
    /\ convo.running /\ Idle = Flows => Pending(Messages) /\ Last(Messages).auto

\* In what is sent to the provider every proposed command but the last is followed
\* by exactly one result, and every result follows its command, as the providers
\* demand; one flow works on the conversation at a time, and while the conversation
\* shows itself as running one does (or, in autonomous mode, its last message is a
\* proposal that runCommand refused because the conversation was running).  Not so
\* after the conversation was cleared under a flow, whose result then comes alone.
HistoryWellFormed == TypeOK /\ (~cleared => CallsAnswered /\ OneFlow)

\* Every flow comes to an end, whatever the answers are.
FlowsEnd == \A f \in Flows : []<>(flow[f].pc = "idle")
=============================================================================
