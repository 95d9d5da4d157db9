--------------------------- MODULE AssistantProofs ---------------------------
(***************************************************************************)
(* What reaches the server, what is sent to the provider and which provider *)
(* is active, for any providers, any number of flows and clicks and any     *)
(* limit on an autonomous run.                                              *)
(***************************************************************************)
EXTENDS Assistant, NaturalsInduction, WellFoundedInduction, FiniteSetTheorems, TLAPS

Roles == {"user", "text", "call", "result"}
Points == {"idle", "chat", "check", "write", "gate", "exec"}
AnyProvider == Providers \cup {None}

\* Messages, conversations and flows whose identifiers are at most n.
MessageTo(n) == [id : 0..n, role : Roles, danger : BOOLEAN, auto : BOOLEAN, confirm : BOOLEAN]
ConvoTo(n) == [messages : Seq(MessageTo(n)), mode : {"ask", "autonomous"}, provider : AnyProvider,
               running : BOOLEAN, stop : BOOLEAN, iter : 0..MAX_AUTONOMOUS_ITERATIONS]
FlowTo(n) == [pc : Points, msg : 0..n, danger : BOOLEAN, over : BOOLEAN, provider : AnyProvider]

Typed(n) == convo \in ConvoTo(n) /\ flow \in [Flows -> FlowTo(n)]
TalkType == cleared \in BOOLEAN /\ \E n \in Nat : Typed(n)

\* What is typed without asking: the denylist has not matched, or the user has
\* confirmed the command.
WriteAllowed == \A f \in Flows : flow[f].pc = "write" /\ flow[f].danger => flow[f].over

Answered(ms) ==
    \A i \in 1..Len(ms) :
        /\ ms[i].role = "call" /\ i < Len(ms) => ms[i + 1].role = "result"
        /\ ms[i].role = "result" => i > 1 /\ ms[i - 1].role = "call"

\* One flow works on a conversation that is not cleared under it: it waits for
\* the provider when nothing is proposed, and for the server when something is.
Orderly ==
    /\ Answered(Messages)
    /\ \A f, g \in Flows : flow[f].pc # "idle" /\ flow[g].pc # "idle" => f = g
    /\ \A f \in Flows :
         /\ flow[f].pc # "idle" => convo.running
         /\ flow[f].pc = "chat" => ~Pending(Messages)
         /\ flow[f].pc \in {"check", "write", "gate", "exec"} => Pending(Messages)
    /\ convo.running /\ (\A f \in Flows : flow[f].pc = "idle") =>
         Pending(Messages) /\ Last(Messages).auto

ConvoInv == ~cleared => Orderly

RequestType ==
    [n : Nat, op : {"save", "clear", "load"}, provider : AnyProvider, was : AnyProvider,
     pc : {"sent", "done", "load", "read"}, got : SUBSET Providers, shown : BOOLEAN]
SettingsType ==
    /\ SettingsOK /\ requests \subseteq RequestType
    /\ \A r \in requests : r.pc \in {"sent", "done"} => r.op # "load" /\ r.provider \in Providers

\* Of a provider that is not muddled: it is not saved and cleared at one time; a
\* save that was performed is not undone before its answer; the key of an active
\* provider can be gone only while the answer that will deactivate it is under
\* way, and every such request has seen the provider active.
Steady(p) ==
    /\ ~(UnderWay("save", p) /\ UnderWay("clear", p))
    /\ \A r \in requests : r.op = "save" /\ r.provider = p /\ r.pc = "done" => p \in keys
    /\ active = p /\ p \notin keys =>
         \E r \in requests : r.op = "clear" /\ r.provider = p /\ r.pc = "done"
    /\ active = p =>
         \A r \in requests :
            r.op = "clear" /\ r.provider = p /\ r.pc \in {"sent", "done"} => r.was = p

KeyInv == SettingsType /\ \A p \in Providers : p \notin muddled => Steady(p)

-----------------------------------------------------------------------------
(* New identifiers                                                         *)

\* Every set of naturals has a least element: the library's well-foundedness,
\* for a set instead of a predicate.
LEMMA LeastNat ==
  ASSUME NEW T \in SUBSET Nat, T # {}
  PROVE  \E x \in T : \A y \in T : x <= y
<1> DEFINE R == OpToRel(<, Nat)
<1>1. PICK x \in T : \A y \in T : ~(<<y, x>> \in R)
  BY NatLessThanWellFounded, WFMin
<1>2. \A y, z \in Nat : y < z => <<y, z>> \in R
  BY DEF OpToRel
<1> HIDE DEF R
<1>3. \A y \in T : ~(y < x)
  BY <1>1, <1>2
<1>4. \A y \in T : x <= y
  BY <1>3
<1> QED
  BY <1>4

\* Max of a bounded set of naturals is what its name says.
LEMMA MaxNat ==
  ASSUME NEW S \in SUBSET Nat, S # {}, NEW n \in Nat, \A x \in S : x <= n
  PROVE  Max(S) \in S /\ \A x \in S : x <= Max(S)
<1> DEFINE U == {k \in Nat : \A x \in S : x <= k}
<1>1. PICK m \in U : \A k \in U : m <= k
  BY LeastNat
<1>2. m \in S
  <2> SUFFICES ASSUME m \notin S PROVE FALSE
    OBVIOUS
  <2>1. PICK z \in S : TRUE
    OBVIOUS
  <2>2. m - 1 \in Nat
    BY <2>1
  <2>3. m - 1 \in U
    BY <2>2
  <2> QED
    BY <1>1, <2>2, <2>3
<1> QED
  BY <1>1, <1>2 DEF Max

\* NewId is larger than every identifier in use.
LEMMA Fresh ==
  ASSUME TalkType
  PROVE  NewId \in Nat /\ Typed(NewId)
<1>1. PICK n \in Nat : Typed(n)
  BY DEF TalkType
<1> DEFINE Ids == {m.id : m \in ToSet(Messages)}
<1> DEFINE Flying == {flow[f].msg : f \in Flows}
<1> DEFINE S == {0} \cup Ids \cup Flying
<1>2. Messages \in Seq(MessageTo(n))
  BY <1>1 DEF Typed, ConvoTo, Messages
<1>3. \A m \in ToSet(Messages) : m \in MessageTo(n)
  BY <1>2 DEF ToSet
<1>4. Ids \subseteq 0..n
  BY <1>3 DEF MessageTo
<1>5. Flying \subseteq 0..n
  BY <1>1 DEF Typed, FlowTo
<1>6. \A i \in 1..Len(Messages) : Messages[i].id \in Ids
  BY <1>2 DEF ToSet
<1>7. \A f \in Flows : flow[f].msg \in Flying
  OBVIOUS
<1>8. NewId = 1 + Max(S)
  BY DEF NewId
<1> HIDE DEF Ids, Flying
<1>9. S \in SUBSET Nat /\ S # {} /\ \A x \in S : x <= n
  BY <1>4, <1>5
<1> HIDE DEF S
<1>10. Max(S) \in S /\ \A x \in S : x <= Max(S)
  BY <1>9, MaxNat
<1>11. PICK k : k = NewId
  OBVIOUS
<1>12. k \in Nat /\ \A x \in S : x \in 0..k
  <2>1. PICK h \in Nat : h = Max(S)
    BY <1>9, <1>10
  <2>2. k = 1 + h
    BY <1>8, <1>11, <2>1
  <2>3. \A x \in S : x \in Nat /\ x <= h
    BY <1>9, <1>10, <2>1
  <2> HIDE DEF S
  <2> QED
    BY <2>2, <2>3
<1>13. \A x \in Ids \cup Flying : x \in 0..k
  BY <1>12 DEF S
<1>14. Messages \in Seq(MessageTo(k))
  <2>1. \A i \in 1..Len(Messages) : Messages[i] \in MessageTo(n) /\ Messages[i].id \in 0..k
    BY <1>2, <1>6, <1>13
  <2>2. \A i \in 1..Len(Messages) : Messages[i] \in MessageTo(k)
    BY <1>12, <2>1 DEF MessageTo
  <2> QED
    BY <1>2, <2>2
<1>15. convo \in ConvoTo(k)
  BY <1>1, <1>14 DEF Typed, ConvoTo, Messages
<1>16. flow \in [Flows -> FlowTo(k)]
  <2>1. ASSUME NEW f \in Flows PROVE flow[f] \in FlowTo(k)
    BY <1>1, <1>7, <1>12, <1>13 DEF Typed, FlowTo
  <2> QED
    BY <1>1, <2>1 DEF Typed
<1> QED
  BY <1>11, <1>12, <1>15, <1>16 DEF Typed

-----------------------------------------------------------------------------
(* Messages and conversations                                              *)

LEMMA MessageType ==
  ASSUME NEW n \in Nat, NEW role \in Roles, NEW danger \in BOOLEAN, NEW auto \in BOOLEAN
  PROVE  /\ Message(n, role, danger, auto) \in MessageTo(n)
         /\ Message(n, role, danger, auto).role = role
         /\ Message(n, role, danger, auto).auto = auto
  BY DEF Message, MessageTo

LEMMA AddType ==
  ASSUME NEW n \in Nat, NEW c \in ConvoTo(n), NEW m \in MessageTo(n)
  PROVE  /\ Add(c, m) \in ConvoTo(n)
         /\ Add(c, m).messages = Append(c.messages, m)
         /\ Add(c, m).running = c.running /\ Add(c, m).mode = c.mode
         /\ Add(c, m).stop = c.stop /\ Add(c, m).iter = c.iter
         /\ Add(c, m).provider = c.provider
  BY DEF Add, ConvoTo

\* The last message decides whether a proposal waits.
LEMMA PendingAppend ==
  ASSUME NEW n \in Nat, NEW ms \in Seq(MessageTo(n)), NEW m \in MessageTo(n)
  PROVE  /\ Pending(Append(ms, m)) <=> m.role = "call"
         /\ Last(Append(ms, m)) = m
<1>1. Append(ms, m) \in Seq(MessageTo(n)) /\ Len(Append(ms, m)) = Len(ms) + 1
  OBVIOUS
<1>2. Append(ms, m)[Len(ms) + 1] = m /\ Append(ms, m) # <<>>
  BY <1>1
<1> QED
  BY <1>1, <1>2 DEF Pending, Last

\* A result is added where a proposal waits, and anything else where none does.
LEMMA AppendAnswered ==
  ASSUME NEW n \in Nat, NEW ms \in Seq(MessageTo(n)), NEW m \in MessageTo(n),
         Answered(ms), m.role = "result" <=> Pending(ms)
  PROVE  Answered(Append(ms, m))
<1> DEFINE ns == Append(ms, m)
<1>1. ns \in Seq(MessageTo(n)) /\ Len(ns) = Len(ms) + 1 /\ Len(ms) \in Nat
  OBVIOUS
<1>2. ns[Len(ms) + 1] = m /\ \A i \in 1..Len(ms) : ns[i] = ms[i]
  OBVIOUS
<1>3. Pending(ms) <=> Len(ms) > 0 /\ ms[Len(ms)].role = "call"
  BY DEF Pending, Last
<1> HIDE DEF ns
<1>4. ASSUME NEW i \in 1..Len(ns)
      PROVE  /\ ns[i].role = "call" /\ i < Len(ns) => ns[i + 1].role = "result"
             /\ ns[i].role = "result" => i > 1 /\ ns[i - 1].role = "call"
  <2>1. CASE i = Len(ns)
    <3>1. ns[i].role = "result" => i > 1 /\ ns[i - 1].role = "call"
      BY <1>1, <1>2, <1>3, <2>1
    <3> QED
      BY <1>1, <2>1, <3>1
  <2>2. CASE i < Len(ms)
    <3>1. i \in 1..Len(ms) /\ i + 1 \in 1..Len(ms) /\ (i > 1 => i - 1 \in 1..Len(ms))
      BY <1>1, <2>2
    <3> QED
      BY <1>1, <1>2, <2>2, <3>1 DEF Answered
  <2>3. CASE i = Len(ms)
    <3>1. i \in 1..Len(ms) /\ (i > 1 => i - 1 \in 1..Len(ms))
      BY <1>1, <2>3
    <3>2. ns[i].role = "call" => ns[i + 1].role = "result"
      BY <1>2, <1>3, <2>3, <3>1
    <3>3. ns[i].role = "result" => i > 1 /\ ns[i - 1].role = "call"
      BY <1>2, <2>3, <3>1 DEF Answered
    <3> QED
      BY <3>2, <3>3
  <2> QED
    BY <1>1, <2>1, <2>2, <2>3
<1>5. Answered(ns)
  BY <1>4 DEF Answered
<1> QED
  BY <1>5 DEF ns

\* Only the roles count.
LEMMA RolesKept ==
  ASSUME NEW n \in Nat, NEW ms \in Seq(MessageTo(n)), NEW ns \in Seq(MessageTo(n)),
         Len(ns) = Len(ms), \A i \in 1..Len(ms) : ns[i].role = ms[i].role
  PROVE  (Answered(ms) => Answered(ns)) /\ (Pending(ns) <=> Pending(ms))
<1>1. Pending(ns) <=> Pending(ms)
  BY DEF Pending, Last
<1>2. ASSUME Answered(ms), NEW i \in 1..Len(ns)
      PROVE  /\ ns[i].role = "call" /\ i < Len(ns) => ns[i + 1].role = "result"
             /\ ns[i].role = "result" => i > 1 /\ ns[i - 1].role = "call"
  <2>1. /\ i \in 1..Len(ms) /\ (i < Len(ms) => i + 1 \in 1..Len(ms))
        /\ (i > 1 => i - 1 \in 1..Len(ms))
    OBVIOUS
  <2> QED
    BY <1>2, <2>1 DEF Answered
<1>3. Answered(ms) => Answered(ns)
  BY <1>2 DEF Answered
<1> QED
  BY <1>1, <1>3

\* The denylist's mark on a proposal.
LEMMA MarkType ==
  ASSUME NEW n \in Nat, Typed(n), NEW f \in Flows
  PROVE  /\ NeedsConfirmation(f) \in ConvoTo(n)
         /\ Len(NeedsConfirmation(f).messages) = Len(Messages)
         /\ \A i \in 1..Len(Messages) : NeedsConfirmation(f).messages[i].role = Messages[i].role
<1> DEFINE marked == [i \in DOMAIN Messages |->
        IF Messages[i].id = flow[f].msg THEN [Messages[i] EXCEPT !.confirm = TRUE] ELSE Messages[i]]
<1>1. convo \in ConvoTo(n) /\ Messages \in Seq(MessageTo(n))
  BY DEF Typed, ConvoTo, Messages
<1>2. DOMAIN Messages = 1..Len(Messages) /\ Len(Messages) \in Nat
  BY <1>1
<1>3. ASSUME NEW i \in 1..Len(Messages)
      PROVE  marked[i] \in MessageTo(n) /\ marked[i].role = Messages[i].role
  <2>1. Messages[i] \in MessageTo(n)
    BY <1>1
  <2> QED
    BY <1>2, <2>1 DEF MessageTo
<1>4. marked \in [1..Len(Messages) -> MessageTo(n)]
  BY <1>2, <1>3
<1>5. marked \in Seq(MessageTo(n)) /\ Len(marked) = Len(Messages)
  <2> HIDE DEF marked
  <2> QED
    BY <1>2, <1>4
<1>6. NeedsConfirmation(f) = [convo EXCEPT !.messages = marked]
  BY DEF NeedsConfirmation
<1> HIDE DEF marked
<1>7. NeedsConfirmation(f) \in ConvoTo(n) /\ NeedsConfirmation(f).messages = marked
  BY <1>1, <1>5, <1>6 DEF ConvoTo
<1> QED
  BY <1>3, <1>5, <1>7

-----------------------------------------------------------------------------
(* The types                                                               *)

LEMMA EndType ==
  ASSUME NEW n \in Nat, flow \in [Flows -> FlowTo(n)], NEW f \in Flows, NEW c \in ConvoTo(n), End(f, c)
  PROVE  /\ convo' \in ConvoTo(n) /\ flow' \in [Flows -> FlowTo(n)]
         /\ convo'.messages = c.messages /\ convo'.running = FALSE
         /\ flow'[f].pc = "idle" /\ \A g \in Flows \ {f} : flow'[g] = flow[g]
<1>1. convo' \in ConvoTo(n) /\ convo'.messages = c.messages /\ convo'.running = FALSE
  BY DEF End, ConvoTo
<1>2. NoFlow \in FlowTo(n) /\ NoFlow.pc = "idle"
  BY DEF NoFlow, FlowTo, Points, AnyProvider
<1> QED
  BY <1>1, <1>2 DEF End

LEMMA RunCommandType ==
  ASSUME NEW n \in Nat, flow \in [Flows -> FlowTo(n)], NEW f \in Flows, NEW c \in ConvoTo(n),
         NEW m \in MessageTo(n), NEW over \in BOOLEAN, RunCommand(f, c, m, over)
  PROVE  /\ convo' \in ConvoTo(n) /\ flow' \in [Flows -> FlowTo(n)]
         /\ convo'.messages = c.messages
         /\ \A g \in Flows \ {f} : flow'[g] = flow[g]
         /\ \/ /\ MayRun(c) /\ convo'.running = TRUE
               /\ flow'[f].pc \in {"check", "write", "gate"} /\ flow'[f].over = over
               /\ flow'[f].pc = "write" => over
            \/ ~MayRun(c) /\ convo' = c /\ flow'[f].pc = "idle"
<1>1. PICK live \in BOOLEAN :
        IF MayRun(c)
        THEN /\ convo' = [c EXCEPT !.running = TRUE]
             /\ flow' = [flow EXCEPT ![f] = [pc |-> FirstStep(live, over), msg |-> m.id, over |-> over,
                                             danger |-> m.danger, provider |-> c.provider]]
        ELSE convo' = c /\ flow' = [flow EXCEPT ![f] = NoFlow]
  BY DEF RunCommand
<1>2. CASE MayRun(c)
  <2>1. convo' \in ConvoTo(n) /\ convo'.messages = c.messages /\ convo'.running = TRUE
    BY <1>1, <1>2 DEF ConvoTo
  <2>2. PICK w : w = [pc |-> FirstStep(live, over), msg |-> m.id, over |-> over,
                      danger |-> m.danger, provider |-> c.provider]
    OBVIOUS
  <2>3. FirstStep(live, over) \in {"check", "write", "gate"} /\ (FirstStep(live, over) = "write" => over)
    BY DEF FirstStep
  <2>4. m.id \in 0..n /\ m.danger \in BOOLEAN /\ c.provider \in AnyProvider
    BY DEF MessageTo, ConvoTo
  <2>5. w \in FlowTo(n) /\ w.pc = FirstStep(live, over) /\ w.over = over
    BY <2>2, <2>3, <2>4 DEF FlowTo, Points
  <2>6. flow' = [flow EXCEPT ![f] = w]
    BY <1>1, <1>2, <2>2
  <2>7. flow' \in [Flows -> FlowTo(n)] /\ flow'[f] = w /\ \A g \in Flows \ {f} : flow'[g] = flow[g]
    BY <2>5, <2>6
  <2> QED
    BY <1>2, <2>1, <2>3, <2>5, <2>7
<1>3. CASE ~MayRun(c)
  <2>1. NoFlow \in FlowTo(n) /\ NoFlow.pc = "idle"
    BY DEF NoFlow, FlowTo, Points, AnyProvider
  <2> QED
    BY <1>1, <1>3, <2>1
<1> QED
  BY <1>2, <1>3

\* A flow moves on to point pc.
LEMMA MoveType ==
  ASSUME NEW n \in Nat, flow \in [Flows -> FlowTo(n)], NEW f \in Flows, NEW pc \in Points,
         flow' = [flow EXCEPT ![f].pc = pc]
  PROVE  /\ flow' \in [Flows -> FlowTo(n)]
         /\ flow'[f].pc = pc /\ flow'[f].danger = flow[f].danger /\ flow'[f].over = flow[f].over
         /\ \A g \in Flows \ {f} : flow'[g] = flow[g]
  BY DEF FlowTo

\* The parts of a typed state, with k the identifier that is used next.
LEMMA Parts ==
  ASSUME NEW k \in Nat, Typed(k), k = NewId
  PROVE  /\ convo \in ConvoTo(k) /\ flow \in [Flows -> FlowTo(k)]
         /\ Messages \in Seq(MessageTo(k)) /\ Messages = convo.messages
         /\ \A f \in Flows : flow[f].danger \in BOOLEAN
         /\ \A f \in Flows : Result(f) \in MessageTo(k) /\ Result(f).role = "result"
         /\ Messages # <<>> => Last(Messages) \in MessageTo(k)
<1>1. /\ convo \in ConvoTo(k) /\ flow \in [Flows -> FlowTo(k)]
      /\ Messages \in Seq(MessageTo(k)) /\ Messages = convo.messages
  BY DEF Typed, ConvoTo, Messages
<1>2. \A f \in Flows : flow[f].danger \in BOOLEAN
  BY <1>1 DEF FlowTo
<1>3. ASSUME NEW f \in Flows PROVE Result(f) \in MessageTo(k) /\ Result(f).role = "result"
  BY <1>2, MessageType DEF Result, Roles
<1>4. Messages # <<>> => Last(Messages) \in MessageTo(k)
  BY <1>1 DEF Last
<1> QED
  BY <1>1, <1>2, <1>3, <1>4

-----------------------------------------------------------------------------
(* The steps of a flow                                                     *)

\* What a step keeps, with k the identifier that is used next.
Kept(k) ==
    /\ convo' \in ConvoTo(k) /\ flow' \in [Flows -> FlowTo(k)]
    /\ WriteAllowed => WriteAllowed'
    /\ Orderly => Orderly'

LEMMA EndKeeps ==
  ASSUME NEW k \in Nat, Typed(k), k = NewId, NEW f \in Flows, flow[f].pc # "idle",
         NEW c \in ConvoTo(k), Orderly => Answered(c.messages), End(f, c)
  PROVE  Kept(k)
<1>1. flow \in [Flows -> FlowTo(k)]
  BY Parts
<1>2. /\ convo' \in ConvoTo(k) /\ flow' \in [Flows -> FlowTo(k)]
      /\ convo'.messages = c.messages /\ convo'.running = FALSE
      /\ flow'[f].pc = "idle" /\ \A g \in Flows \ {f} : flow'[g] = flow[g]
  BY <1>1, EndType
<1>3. WriteAllowed => WriteAllowed'
  BY <1>2 DEF WriteAllowed
<1>4. ASSUME Orderly PROVE Orderly'
  <2>1. \A g \in Flows : flow'[g].pc = "idle"
    BY <1>2, <1>4 DEF Orderly
  <2>2. Answered(Messages)'
    BY <1>2, <1>4 DEF Messages
  <2> QED
    BY <1>2, <2>1, <2>2 DEF Orderly
<1> QED
  BY <1>2, <1>3, <1>4 DEF Kept

\* A flow moves on without a change of the conversation.
LEMMA MoveKeeps ==
  ASSUME NEW k \in Nat, Typed(k), k = NewId, NEW f \in Flows,
         flow[f].pc \in {"check", "gate"}, NEW pc \in {"write", "exec"},
         pc = "write" => ~flow[f].danger,
         flow' = [flow EXCEPT ![f].pc = pc], UNCHANGED convo
  PROVE  Kept(k)
<1>1. convo \in ConvoTo(k) /\ flow \in [Flows -> FlowTo(k)]
  BY Parts
<1>2. pc \in Points
  BY DEF Points
<1>3. /\ flow' \in [Flows -> FlowTo(k)]
      /\ flow'[f].pc = pc /\ flow'[f].danger = flow[f].danger /\ flow'[f].over = flow[f].over
      /\ \A g \in Flows \ {f} : flow'[g] = flow[g]
  BY <1>1, <1>2, MoveType
<1>4. WriteAllowed => WriteAllowed'
  BY <1>3 DEF WriteAllowed
<1>5. ASSUME Orderly PROVE Orderly'
  <2>1. Messages' = Messages /\ convo' = convo
    BY DEF Messages
  <2>2. \A g \in Flows : (flow'[g].pc = "idle") <=> (flow[g].pc = "idle")
    BY <1>3
  <2>3. \A g \in Flows : flow'[g].pc = "chat" => flow[g].pc = "chat"
    BY <1>3
  <2>4. \A g \in Flows : flow'[g].pc \in {"check", "write", "gate", "exec"} =>
                         flow[g].pc \in {"check", "write", "gate", "exec"}
    BY <1>3
  <2> QED
    BY <1>5, <2>1, <2>2, <2>3, <2>4 DEF Orderly
<1> QED
  BY <1>1, <1>3, <1>4, <1>5 DEF Kept

\* runCommand, where no other flow is at work and the proposal is the last
\* message of the conversation.
LEMMA RunKeeps ==
  ASSUME NEW k \in Nat, Typed(k), k = NewId, NEW f \in Flows, NEW c \in ConvoTo(k),
         NEW m \in MessageTo(k), NEW over \in BOOLEAN, RunCommand(f, c, m, over),
         Orderly => /\ Answered(c.messages) /\ Pending(c.messages)
                    /\ c.running => Last(c.messages).auto
                    /\ \A g \in Flows \ {f} : flow[g].pc = "idle"
  PROVE  Kept(k)
<1>1. flow \in [Flows -> FlowTo(k)]
  BY Parts
<1>2. /\ convo' \in ConvoTo(k) /\ flow' \in [Flows -> FlowTo(k)]
      /\ convo'.messages = c.messages
      /\ \A g \in Flows \ {f} : flow'[g] = flow[g]
      /\ \/ /\ MayRun(c) /\ convo'.running = TRUE
            /\ flow'[f].pc \in {"check", "write", "gate"} /\ flow'[f].over = over
            /\ flow'[f].pc = "write" => over
         \/ ~MayRun(c) /\ convo' = c /\ flow'[f].pc = "idle"
  BY ONLY <1>1, RunCommandType, k \in Nat, f \in Flows, c \in ConvoTo(k), m \in MessageTo(k),
          over \in BOOLEAN, RunCommand(f, c, m, over)
<1>3. WriteAllowed => WriteAllowed'
  BY <1>2 DEF WriteAllowed
<1>4. ASSUME Orderly PROVE Orderly'
  <2>1. Messages' = c.messages
    BY <1>2 DEF Messages
  <2>2. CASE convo'.running = TRUE /\ flow'[f].pc \in {"check", "write", "gate"}
    BY <1>2, <1>4, <2>1, <2>2 DEF Orderly
  <2>3. CASE convo' = c /\ flow'[f].pc = "idle"
    BY <1>2, <1>4, <2>1, <2>3 DEF Orderly
  <2> QED
    BY <1>2, <2>2, <2>3
<1> QED
  BY <1>2, <1>3, <1>4 DEF Kept

\* The conversation with the flow's result is typed, and in order where the
\* flow was working on a proposal.
LEMMA ResultAdded ==
  ASSUME NEW k \in Nat, Typed(k), k = NewId, NEW f \in Flows, flow[f].pc \in {"write", "exec"}
  PROVE  /\ Add(convo, Result(f)) \in ConvoTo(k)
         /\ Add(convo, Result(f)).messages = Append(Messages, Result(f))
         /\ Add(convo, Result(f)).running = convo.running
         /\ Orderly => Answered(Append(Messages, Result(f))) /\ ~Pending(Append(Messages, Result(f)))
<1>1. convo \in ConvoTo(k) /\ Result(f) \in MessageTo(k) /\ Result(f).role = "result"
  BY Parts
<1>2. Messages \in Seq(MessageTo(k)) /\ Messages = convo.messages
  BY Parts
<1>3. ASSUME Orderly PROVE Answered(Messages) /\ Pending(Messages)
  BY <1>3 DEF Orderly
<1>4. ~Pending(Append(Messages, Result(f)))
  BY <1>1, <1>2, PendingAppend
<1> QED
  BY <1>1, <1>2, <1>3, <1>4, AddType, AppendAnswered

\* The denylist's match ends the flow.
LEMMA MarkKeeps ==
  ASSUME NEW k \in Nat, Typed(k), k = NewId, NEW f \in Flows, flow[f].pc # "idle",
         End(f, NeedsConfirmation(f))
  PROVE  Kept(k)
<1>1. Messages \in Seq(MessageTo(k))
  BY Parts
<1>2. /\ NeedsConfirmation(f) \in ConvoTo(k)
      /\ Len(NeedsConfirmation(f).messages) = Len(Messages)
      /\ \A i \in 1..Len(Messages) : NeedsConfirmation(f).messages[i].role = Messages[i].role
  BY MarkType
<1>3. NeedsConfirmation(f).messages \in Seq(MessageTo(k))
  BY <1>2 DEF ConvoTo
<1>4. Orderly => Answered(NeedsConfirmation(f).messages)
  BY <1>1, <1>2, <1>3, RolesKept DEF Orderly
<1> QED
  BY <1>2, <1>4, EndKeeps

LEMMA CheckKeeps ==
  ASSUME NEW k \in Nat, Typed(k), k = NewId, NEW f \in Flows, Check(f)
  PROVE  Kept(k)
<1>1. convo \in ConvoTo(k) /\ Messages = convo.messages /\ Messages \in Seq(MessageTo(k))
  BY Parts
<1>2. Orderly => Answered(convo.messages)
  BY <1>1 DEF Orderly
<1>3. flow[f].pc = "check"
  BY DEF Check
<1>4. CASE End(f, convo)
  BY <1>1, <1>2, <1>3, <1>4, EndKeeps
<1>5. CASE End(f, NeedsConfirmation(f))
  BY <1>3, <1>5, MarkKeeps
<1>6. CASE ~flow[f].danger /\ flow' = [flow EXCEPT ![f].pc = "write"] /\ UNCHANGED convo
  BY <1>3, <1>6, MoveKeeps
<1> QED
  BY <1>4, <1>5, <1>6 DEF Check

LEMMA WriteKeeps ==
  ASSUME NEW k \in Nat, Typed(k), k = NewId, NEW f \in Flows, WriteToTerminal(f)
  PROVE  Kept(k)
<1>1. convo \in ConvoTo(k) /\ Messages = convo.messages
  BY Parts
<1>2. Orderly => Answered(convo.messages)
  BY <1>1 DEF Orderly
<1>3. flow[f].pc = "write"
  BY DEF WriteToTerminal
<1>4. CASE End(f, convo)
  BY <1>1, <1>2, <1>3, <1>4, EndKeeps
<1>5. CASE End(f, Add(convo, Result(f)))
  BY <1>3, <1>5, ResultAdded, EndKeeps
<1> QED
  BY <1>4, <1>5 DEF WriteToTerminal

LEMMA GateKeeps ==
  ASSUME NEW k \in Nat, Typed(k), k = NewId, NEW f \in Flows, Gate(f)
  PROVE  Kept(k)
<1>1. convo \in ConvoTo(k) /\ Messages = convo.messages
  BY Parts
<1>2. Orderly => Answered(convo.messages)
  BY <1>1 DEF Orderly
<1>3. flow[f].pc = "gate"
  BY DEF Gate
<1>4. CASE End(f, convo)
  BY <1>1, <1>2, <1>3, <1>4, EndKeeps
<1>5. CASE flow' = [flow EXCEPT ![f].pc = "exec"] /\ UNCHANGED convo
  BY <1>3, <1>5, MoveKeeps
<1> QED
  BY <1>4, <1>5 DEF Gate

\* The next turn of an autonomous run, which is below the cap.
LEMMA NextTurnKeeps ==
  ASSUME NEW k \in Nat, Typed(k), k = NewId, NEW f \in Flows, flow[f].pc = "exec",
         NEW c, c = Add(convo, Result(f)), BelowCap(c),
         convo' = [c EXCEPT !.iter = @ + 1], flow' = [flow EXCEPT ![f].pc = "chat"]
  PROVE  Kept(k)
<1>1. /\ c \in ConvoTo(k) /\ c.messages = Append(Messages, Result(f)) /\ c.running = convo.running
      /\ Orderly => Answered(c.messages) /\ ~Pending(c.messages)
  BY ResultAdded
<1>2. c.iter + 1 \in 0..MAX_AUTONOMOUS_ITERATIONS
  BY <1>1, AssistantAssumption DEF BelowCap, ConvoTo
<1>3. convo' \in ConvoTo(k) /\ convo'.messages = c.messages /\ convo'.running = c.running
  BY <1>1, <1>2 DEF ConvoTo
<1>4. flow \in [Flows -> FlowTo(k)] /\ "chat" \in Points
  BY Parts DEF Points
<1>5. /\ flow' \in [Flows -> FlowTo(k)] /\ flow'[f].pc = "chat"
      /\ \A g \in Flows \ {f} : flow'[g] = flow[g]
  BY <1>4, MoveType
<1>6. WriteAllowed => WriteAllowed'
  BY <1>5 DEF WriteAllowed
<1>7. ASSUME Orderly PROVE Orderly'
  <2>1. Messages' = c.messages
    BY <1>3 DEF Messages
  <2>2. convo.running /\ \A g \in Flows \ {f} : flow[g].pc = "idle"
    BY <1>7 DEF Orderly
  <2> QED
    BY <1>1, <1>3, <1>5, <1>7, <2>1, <2>2 DEF Orderly
<1> QED
  BY <1>3, <1>5, <1>6, <1>7 DEF Kept

LEMMA ExecKeeps ==
  ASSUME NEW k \in Nat, Typed(k), k = NewId, NEW f \in Flows, Exec(f)
  PROVE  Kept(k)
<1>1. convo \in ConvoTo(k) /\ Messages = convo.messages /\ Messages \in Seq(MessageTo(k))
  BY Parts
<1>2. Orderly => Answered(convo.messages)
  BY <1>1 DEF Orderly
<1>3. flow[f].pc = "exec"
  BY DEF Exec
<1>4. CASE End(f, convo)
  BY <1>1, <1>2, <1>3, <1>4, EndKeeps
<1>5. CASE End(f, NeedsConfirmation(f))
  BY <1>3, <1>5, MarkKeeps
<1>6. PICK c : c = Add(convo, Result(f))
  OBVIOUS
<1>7. CASE End(f, c)
  BY <1>3, <1>6, <1>7, ResultAdded, EndKeeps
<1>8. CASE BelowCap(c) /\ convo' = [c EXCEPT !.iter = @ + 1] /\ flow' = [flow EXCEPT ![f].pc = "chat"]
  BY <1>3, <1>6, <1>8, NextTurnKeeps
<1> QED
  BY <1>4, <1>5, <1>6, <1>7, <1>8 DEF Exec

LEMMA ChatKeeps ==
  ASSUME NEW k \in Nat, Typed(k), k = NewId, NEW f \in Flows, Chat(f)
  PROVE  Kept(k)
<1>1. convo \in ConvoTo(k) /\ Messages = convo.messages /\ Messages \in Seq(MessageTo(k))
  BY Parts
<1>2. flow[f].pc = "chat"
  BY DEF Chat
<1>3. Orderly => Answered(Messages) /\ ~Pending(Messages) /\ \A g \in Flows \ {f} : flow[g].pc = "idle"
  BY <1>2 DEF Orderly
<1>4. CASE ChatFails(f)
  BY <1>1, <1>2, <1>3, <1>4, EndKeeps DEF ChatFails
<1>5. CASE End(f, Add(convo, Message(NewId, "text", FALSE, FALSE)))
  <2>1. PICK m \in MessageTo(k) : m = Message(NewId, "text", FALSE, FALSE) /\ m.role = "text"
    BY MessageType DEF Roles
  <2>2. Add(convo, m) \in ConvoTo(k) /\ Add(convo, m).messages = Append(Messages, m)
    BY <1>1, AddType
  <2>3. Orderly => Answered(Append(Messages, m))
    BY <1>1, <1>3, <2>1, AppendAnswered
  <2> QED
    BY <1>2, <1>5, <2>1, <2>2, <2>3, EndKeeps
<1>6. ASSUME NEW danger \in BOOLEAN, NEW auto \in BOOLEAN, NEW m, NEW c,
             m = Message(NewId, "call", danger, auto), c = Add(convo, m),
             IF auto THEN RunCommand(f, c, m, FALSE) ELSE End(f, c)
      PROVE  Kept(k)
  <2>1. m \in MessageTo(k) /\ m.role = "call" /\ m.auto = auto
    BY <1>6, MessageType DEF Roles
  <2>2. c \in ConvoTo(k) /\ c.messages = Append(Messages, m)
    BY <1>1, <1>6, <2>1, AddType
  <2>3. Orderly => Answered(c.messages)
    BY <1>1, <1>3, <2>1, <2>2, AppendAnswered
  <2>4. Pending(c.messages) /\ Last(c.messages).auto = auto
    BY <1>1, <2>1, <2>2, PendingAppend
  <2>5. CASE auto
    BY <1>3, <1>6, <2>1, <2>2, <2>3, <2>4, <2>5, RunKeeps
  <2>6. CASE ~auto
    BY <1>2, <1>6, <2>2, <2>3, <2>6, EndKeeps
  <2> QED
    BY <2>5, <2>6
<1> QED
  BY <1>4, <1>5, <1>6 DEF Chat

LEMMA FlowKeeps ==
  ASSUME NEW k \in Nat, Typed(k), k = NewId, NEW f \in Flows, FlowStep(f)
  PROVE  Kept(k)
  BY CheckKeeps, WriteKeeps, GateKeeps, ExecKeeps, ChatKeeps DEF FlowStep

-----------------------------------------------------------------------------
(* The user's clicks                                                       *)

\* While the conversation does not show itself as running, no flow is at work.
LEMMA Still ==
  ASSUME Orderly, NEW k \in Nat, Typed(k), ~convo.running
  PROVE  \A f \in Flows : flow[f].pc = "idle"
  BY DEF Orderly

\* A click that leaves the flows where they are.
LEMMA SameFlows ==
  ASSUME NEW k \in Nat, Typed(k), k = NewId, convo' \in ConvoTo(k), flow' \in [Flows -> FlowTo(k)],
         \A f \in Flows : /\ flow'[f].pc = flow[f].pc
                          /\ flow'[f].pc = "write" => flow'[f] = flow[f],
         Messages' = Messages, convo'.running = convo.running
  PROVE  Kept(k)
<1>1. WriteAllowed => WriteAllowed'
  BY DEF WriteAllowed
<1>2. ASSUME Orderly PROVE Orderly'
  BY <1>2 DEF Orderly
<1> QED
  BY <1>1, <1>2 DEF Kept

LEMMA SendKeeps ==
  ASSUME NEW k \in Nat, Typed(k), k = NewId, SendUserMessage, active \in AnyProvider
  PROVE  Kept(k)
<1>1. convo \in ConvoTo(k) /\ Messages = convo.messages /\ Messages \in Seq(MessageTo(k))
  BY Parts
<1>2. PICK m \in MessageTo(k) : m = Message(NewId, "user", FALSE, FALSE) /\ m.role = "user"
  BY MessageType DEF Roles
<1>3. PICK c \in ConvoTo(k) : /\ c = Add(convo, m) /\ c.messages = Append(Messages, m)
  BY <1>1, AddType
<1>4. ~convo.running /\ ~Pending(Messages)
  BY DEF SendUserMessage, MaySend
<1>5. PICK f \in Idle :
        /\ convo' = [c EXCEPT !.provider = active, !.running = TRUE, !.stop = FALSE]
        /\ flow' = [flow EXCEPT ![f] = [NoFlow EXCEPT !.pc = "chat", !.provider = active]]
  BY <1>2, <1>3 DEF SendUserMessage
<1>6. convo' \in ConvoTo(k) /\ convo'.messages = c.messages /\ convo'.running = TRUE
  BY <1>3, <1>5 DEF ConvoTo
<1>7. PICK w : w = [NoFlow EXCEPT !.pc = "chat", !.provider = active]
  OBVIOUS
<1>8. w \in FlowTo(k) /\ w.pc = "chat"
  <2>1. NoFlow \in FlowTo(k)
    BY DEF NoFlow, FlowTo, Points, AnyProvider
  <2> QED
    BY <1>7, <2>1 DEF FlowTo, Points
<1>9. /\ f \in Flows /\ flow' \in [Flows -> FlowTo(k)] /\ flow'[f].pc = "chat"
      /\ \A g \in Flows \ {f} : flow'[g] = flow[g]
  BY <1>5, <1>7, <1>8, Parts DEF Idle
<1>10. WriteAllowed => WriteAllowed'
  BY <1>9 DEF WriteAllowed
<1>11. ASSUME Orderly PROVE Orderly'
  <2>1. Answered(c.messages) /\ ~Pending(c.messages)
    BY <1>1, <1>2, <1>3, <1>4, <1>11, AppendAnswered, PendingAppend DEF Orderly
  <2>2. Messages' = c.messages
    BY <1>6 DEF Messages
  <2>3. \A g \in Flows \ {f} : flow'[g].pc = "idle"
    BY <1>4, <1>9, <1>11, Still
  <2> QED
    BY <1>6, <1>9, <2>1, <2>2, <2>3 DEF Orderly
<1> QED
  BY <1>6, <1>9, <1>10, <1>11 DEF Kept

LEMMA RunClickKeeps ==
  ASSUME NEW k \in Nat, Typed(k), k = NewId, Run
  PROVE  Kept(k)
<1>1. /\ convo \in ConvoTo(k) /\ Messages = convo.messages /\ Messages \in Seq(MessageTo(k))
      /\ flow \in [Flows -> FlowTo(k)]
  BY Parts
<1>2. Pending(Messages) /\ Messages # <<>>
  BY DEF Run, RunOffered, Pending
<1>3. PICK m \in MessageTo(k) : m = Last(Messages)
  BY <1>2, Parts
<1>4. m.confirm \in BOOLEAN
  BY <1>3 DEF MessageTo
<1>5. PICK f \in Idle : RunCommand(f, convo, m, m.confirm)
  BY <1>3 DEF Run
<1>6. f \in Flows /\ flow[f].pc = "idle"
  BY <1>5 DEF Idle
<1>7. CASE convo.running
  <2>1. ~MayRun(convo)
    BY <1>7 DEF MayRun
  <2>2. convo' = convo /\ flow' = [flow EXCEPT ![f] = NoFlow]
    BY <1>5, <2>1 DEF RunCommand
  <2>3. NoFlow \in FlowTo(k) /\ NoFlow.pc = "idle"
    BY DEF NoFlow, FlowTo, Points, AnyProvider
  <2>4. flow' \in [Flows -> FlowTo(k)] /\ flow'[f].pc = "idle" /\ \A g \in Flows \ {f} : flow'[g] = flow[g]
    BY <1>1, <1>6, <2>2, <2>3
  <2>5. \A g \in Flows : flow'[g].pc = flow[g].pc /\ (flow'[g].pc = "write" => flow'[g] = flow[g])
    BY <1>6, <2>4
  <2>6. Messages' = Messages
    BY <2>2 DEF Messages
  <2> QED
    BY <1>1, <2>2, <2>4, <2>5, <2>6, SameFlows
<1>8. CASE ~convo.running
  <2>1. Orderly => Answered(convo.messages) /\ \A g \in Flows \ {f} : flow[g].pc = "idle"
    BY <1>1, <1>8, Still DEF Orderly
  <2> QED
    BY <1>1, <1>2, <1>4, <1>5, <1>6, <1>8, <2>1, RunKeeps
<1> QED
  BY <1>7, <1>8

LEMMA SkipKeeps ==
  ASSUME NEW k \in Nat, Typed(k), k = NewId, Skip
  PROVE  Kept(k)
<1>1. /\ convo \in ConvoTo(k) /\ Messages = convo.messages /\ Messages \in Seq(MessageTo(k))
      /\ flow \in [Flows -> FlowTo(k)]
  BY Parts
<1>2. Pending(Messages) /\ Messages # <<>> /\ ~convo.running
  BY DEF Skip, SkipOffered, RunOffered, Pending
<1>3. Last(Messages).danger \in BOOLEAN
  BY <1>2, Parts DEF MessageTo
<1>4. PICK m \in MessageTo(k) : m = Message(NewId, "result", Last(Messages).danger, FALSE) /\ m.role = "result"
  BY <1>3, MessageType DEF Roles
<1>5. PICK ms : ms = [Messages EXCEPT ![Len(Messages)].confirm = FALSE]
  OBVIOUS
<1>6. ms \in Seq(MessageTo(k)) /\ Len(ms) = Len(Messages) /\ \A i \in 1..Len(Messages) : ms[i].role = Messages[i].role
  <2>1. Len(Messages) \in 1..Len(Messages) /\ DOMAIN Messages = 1..Len(Messages) /\ Len(Messages) \in Nat
    BY <1>1, <1>2
  <2>2. \A i \in 1..Len(Messages) : Messages[i] \in MessageTo(k)
    BY <1>1
  <2>3. \A i \in 1..Len(Messages) : ms[i] \in MessageTo(k) /\ ms[i].role = Messages[i].role
    BY <1>5, <2>1, <2>2 DEF MessageTo
  <2>4. ms \in [1..Len(Messages) -> MessageTo(k)]
    BY <1>1, <1>5, <2>1, <2>3
  <2> QED
    BY <2>1, <2>3, <2>4
<1>7. PICK d : d = [convo EXCEPT !.messages[Len(Messages)].confirm = FALSE]
  OBVIOUS
<1>8. d \in ConvoTo(k) /\ d.messages = ms /\ d.running = convo.running
  BY <1>1, <1>5, <1>6, <1>7 DEF ConvoTo
<1>9. /\ convo' = Add(d, m) /\ convo' \in ConvoTo(k) /\ convo'.messages = Append(ms, m)
      /\ convo'.running = convo.running
  BY <1>4, <1>7, <1>8, AddType DEF Skip
<1>10. flow' = flow
  BY DEF Skip
<1>11. WriteAllowed => WriteAllowed'
  BY <1>10 DEF WriteAllowed
<1>12. ASSUME Orderly PROVE Orderly'
  <2>1. Answered(ms) /\ Pending(ms)
    BY <1>1, <1>2, <1>6, <1>12, RolesKept DEF Orderly
  <2>2. Answered(Append(ms, m))
    BY <1>4, <1>6, <2>1, AppendAnswered
  <2>3. Messages' = Append(ms, m)
    BY <1>9 DEF Messages
  <2>4. \A f \in Flows : flow'[f].pc = "idle"
    BY <1>2, <1>10, <1>12, Still
  <2> QED
    BY <1>2, <1>9, <2>2, <2>3, <2>4 DEF Orderly
<1> QED
  BY <1>1, <1>9, <1>10, <1>11, <1>12 DEF Kept

LEMMA ProposeKeeps ==
  ASSUME NEW k \in Nat, Typed(k), k = NewId, NEW danger \in BOOLEAN, ProposeAndRun(danger)
  PROVE  Kept(k)
<1>1. convo \in ConvoTo(k) /\ Messages = convo.messages /\ Messages \in Seq(MessageTo(k))
  BY Parts
<1>2. ~convo.running /\ ~Pending(Messages)
  BY DEF ProposeAndRun, MaySend
<1>3. PICK m \in MessageTo(k) : m = Message(NewId, "call", danger, FALSE) /\ m.role = "call"
  BY MessageType DEF Roles
<1>4. PICK c \in ConvoTo(k) : /\ c = Add(convo, m) /\ c.messages = Append(Messages, m)
                              /\ c.running = convo.running
  BY <1>1, AddType
<1>5. PICK f \in Idle : RunCommand(f, c, m, FALSE)
  BY <1>3, <1>4 DEF ProposeAndRun
<1>6. f \in Flows
  BY <1>5 DEF Idle
<1>7. Pending(c.messages) /\ (Orderly => Answered(c.messages))
  BY <1>1, <1>2, <1>3, <1>4, PendingAppend, AppendAnswered DEF Orderly
<1>8. Orderly => \A g \in Flows \ {f} : flow[g].pc = "idle"
  BY <1>2, Still
<1> QED
  BY <1>2, <1>3, <1>4, <1>5, <1>6, <1>7, <1>8, RunKeeps

LEMMA SettingKeeps ==
  ASSUME NEW k \in Nat, Typed(k), k = NewId, SetMode \/ Stop
  PROVE  Kept(k)
<1>1. convo \in ConvoTo(k) /\ Messages = convo.messages /\ flow \in [Flows -> FlowTo(k)]
  BY Parts
<1>2. convo' \in ConvoTo(k) /\ convo'.messages = convo.messages /\ convo'.running = convo.running
  BY <1>1 DEF SetMode, Stop, ConvoTo
<1>3. flow' = flow
  BY DEF SetMode, Stop
<1>4. Messages' = Messages
  BY <1>1, <1>2 DEF Messages
<1> QED
  BY <1>1, <1>2, <1>3, <1>4, SameFlows

\* A conversation that is cleared while no flow is at work is in order again.
LEMMA ClearKeeps ==
  ASSUME NEW k \in Nat, Typed(k), k = NewId, ClearConversation
  PROVE  /\ convo' \in ConvoTo(k) /\ flow' \in [Flows -> FlowTo(k)] /\ cleared' \in BOOLEAN
         /\ WriteAllowed => WriteAllowed'
         /\ ConvoInv'
<1>1. flow' = flow /\ flow' \in [Flows -> FlowTo(k)]
  BY Parts DEF ClearConversation
<1>2. convo' = EmptyConversation /\ cleared' = (Idle # Flows)
  BY DEF ClearConversation
<1>3. convo' \in ConvoTo(k) /\ convo'.running = FALSE /\ convo'.messages = <<>>
  BY <1>2, AssistantAssumption DEF EmptyConversation, ConvoTo, AnyProvider
<1>4. WriteAllowed => WriteAllowed'
  BY <1>1 DEF WriteAllowed
<1>5. ASSUME ~cleared' PROVE Orderly'
  <2>1. \A f \in Flows : flow'[f].pc = "idle"
    BY <1>1, <1>2, <1>5 DEF Idle
  <2>2. Answered(Messages)'
    BY <1>3 DEF Messages, Answered
  <2> QED
    BY <1>3, <2>1, <2>2 DEF Orderly
<1>6. cleared' \in BOOLEAN
  BY <1>2
<1> QED
  BY <1>1, <1>3, <1>4, <1>5, <1>6 DEF ConvoInv

-----------------------------------------------------------------------------
(* The active provider                                                     *)

LEMMA KeyType ==
  ASSUME KeyInv
  PROVE  keys \subseteq Providers /\ active \in AnyProvider
BY DEF KeyInv, SettingsType, SettingsOK, AnyProvider

\* A new request, with what was under way before.
LEMMA AskType ==
  ASSUME SettingsType, NEW op \in {"save", "clear", "load"}, NEW p \in AnyProvider,
         NEW pc \in {"sent", "load"}
  PROVE  /\ Request(asked + 1, op, p, pc) \in RequestType
         /\ Request(asked + 1, op, p, pc).op = op /\ Request(asked + 1, op, p, pc).provider = p
         /\ Request(asked + 1, op, p, pc).pc = pc /\ Request(asked + 1, op, p, pc).was = active
BY SettingsAssumption DEF SettingsType, SettingsOK, Request, RequestType, AnyProvider

LEMMA SaveKeeps ==
  ASSUME KeyInv, NEW q \in Providers, Save(q)
  PROVE  KeyInv'
<1> DEFINE s == Request(asked + 1, "save", q, "sent")
<1>1. /\ s \in RequestType /\ s.op = "save" /\ s.provider = q /\ s.pc = "sent"
      /\ requests' = requests \cup {s} /\ asked' \in 0..MaxAsked
  BY AskType, SettingsAssumption DEF KeyInv, Save, Ask, AnyProvider, SettingsType, SettingsOK
<1> HIDE DEF s
<1>2. SettingsType'
  BY <1>1 DEF KeyInv, SettingsType, SettingsOK, Save, Muddle
<1>3. ASSUME NEW p \in Providers, p \notin muddled' PROVE Steady(p)'
  <2>1. p \notin muddled /\ Steady(p) /\ (p = q => ~UnderWay("clear", p))
    BY <1>3 DEF KeyInv, Save, Muddle
  <2> QED
    BY <1>1, <2>1 DEF Steady, UnderWay, Save
<1> QED
  BY <1>2, <1>3 DEF KeyInv

LEMMA ClearKeyKeeps ==
  ASSUME KeyInv, NEW q \in Providers, Clear(q)
  PROVE  KeyInv'
<1> DEFINE s == Request(asked + 1, "clear", q, "sent")
<1>1. /\ s \in RequestType /\ s.op = "clear" /\ s.provider = q /\ s.pc = "sent" /\ s.was = active
      /\ requests' = requests \cup {s} /\ asked' \in 0..MaxAsked
  BY AskType, SettingsAssumption DEF KeyInv, Clear, Ask, AnyProvider, SettingsType, SettingsOK
<1> HIDE DEF s
<1>2. SettingsType'
  BY <1>1 DEF KeyInv, SettingsType, SettingsOK, Clear, Muddle
<1>3. ASSUME NEW p \in Providers, p \notin muddled' PROVE Steady(p)'
  <2>1. p \notin muddled /\ Steady(p) /\ (p = q => ~UnderWay("save", p))
    BY <1>3 DEF KeyInv, Clear, Muddle
  <2> QED
    BY <1>1, <2>1 DEF Steady, UnderWay, Clear
<1> QED
  BY <1>2, <1>3 DEF KeyInv

LEMMA SelectKeeps ==
  ASSUME KeyInv, NEW q \in AnyProvider, SelectActive(q)
  PROVE  KeyInv'
<1>1. SettingsType'
  BY SettingsAssumption DEF KeyInv, SettingsType, SettingsOK, SelectActive, Muddle, AnyProvider
<1>2. ASSUME NEW p \in Providers, p \notin muddled' PROVE Steady(p)'
  <2>1. p \notin muddled /\ Steady(p) /\ p # None
    BY <1>2, SettingsAssumption DEF KeyInv, SelectActive, Muddle
  <2>2. p = q => p \in keys /\ ~UnderWay("clear", p)
    BY <1>2, <2>1 DEF SelectActive, Muddle
  <2> QED
    BY <2>1, <2>2 DEF Steady, UnderWay, SelectActive
<1> QED
  BY <1>1, <1>2 DEF KeyInv

LEMMA OpenKeeps ==
  ASSUME KeyInv, OpenSettings
  PROVE  KeyInv'
<1> DEFINE s == Request(asked + 1, "load", None, "load")
           old == {r \in requests : r.pc \in {"sent", "done"}}
           kept == {[r EXCEPT !.shown = FALSE] : r \in old}
<1>1. /\ s \in RequestType /\ s.op = "load" /\ s.pc = "load"
      /\ requests' = kept \cup {s} /\ asked' \in 0..MaxAsked
  BY AskType, SettingsAssumption DEF KeyInv, OpenSettings, Ask, AnyProvider, SettingsType, SettingsOK
<1> HIDE DEF s
<1>2. ASSUME NEW r \in requests
      PROVE  /\ r \in RequestType /\ [r EXCEPT !.shown = FALSE] \in RequestType
             /\ [r EXCEPT !.shown = FALSE].op = r.op /\ [r EXCEPT !.shown = FALSE].provider = r.provider
             /\ [r EXCEPT !.shown = FALSE].pc = r.pc /\ [r EXCEPT !.shown = FALSE].was = r.was
  BY DEF KeyInv, SettingsType, RequestType
<1>3. ASSUME NEW x \in kept
      PROVE  \E r \in requests : /\ x.op = r.op /\ x.provider = r.provider /\ x.pc = r.pc
                                 /\ x.was = r.was /\ r.pc \in {"sent", "done"} /\ x \in RequestType
  BY <1>2
<1>4. ASSUME NEW r \in requests, r.pc \in {"sent", "done"}
      PROVE  \E x \in kept : x.op = r.op /\ x.provider = r.provider /\ x.pc = r.pc /\ x.was = r.was
  <2>1. [r EXCEPT !.shown = FALSE] \in kept
    BY <1>4
  <2> QED
    BY <1>2, <2>1
<1> HIDE DEF kept
<1>5. SettingsType'
  <2>1. SettingsOK'
    BY <1>1 DEF KeyInv, SettingsType, SettingsOK, OpenSettings
  <2>2. requests' \subseteq RequestType
    BY <1>1, <1>3
  <2>3. \A r \in requests' : r.pc \in {"sent", "done"} => r.op # "load" /\ r.provider \in Providers
    BY <1>1, <1>3 DEF KeyInv, SettingsType
  <2> QED
    BY <2>1, <2>2, <2>3 DEF SettingsType
<1>6. ASSUME NEW p \in Providers, p \notin muddled' PROVE Steady(p)'
  <2>1. Steady(p) /\ UNCHANGED <<keys, active, muddled>>
    BY <1>6 DEF KeyInv, OpenSettings
  <2>2. /\ UnderWay("save", p)' => UnderWay("save", p)
        /\ UnderWay("clear", p)' => UnderWay("clear", p)
    BY <1>1, <1>3 DEF UnderWay
  <2>3. \A r \in requests' : r.op = "save" /\ r.provider = p /\ r.pc = "done" => p \in keys
    BY <1>1, <1>3, <2>1 DEF Steady
  <2>4. active = p /\ p \notin keys =>
          \E r \in requests' : r.op = "clear" /\ r.provider = p /\ r.pc = "done"
    BY <1>1, <1>4, <2>1 DEF Steady
  <2>5. active = p =>
          \A r \in requests' :
             r.op = "clear" /\ r.provider = p /\ r.pc \in {"sent", "done"} => r.was = p
    BY <1>1, <1>3, <2>1 DEF Steady
  <2> QED
    BY <2>1, <2>2, <2>3, <2>4, <2>5 DEF Steady
<1> QED
  BY <1>5, <1>6 DEF KeyInv

\* A step of one request r, which goes on as s or is gone.
LEMMA PerformKeeps ==
  ASSUME KeyInv, NEW r \in requests, Perform(r)
  PROVE  KeyInv'
<1> DEFINE s == [r EXCEPT !.pc = "done"]
<1>1. /\ r \in RequestType /\ r.op \in {"save", "clear"} /\ r.provider \in Providers /\ r.pc = "sent"
      /\ s \in RequestType /\ s.op = r.op /\ s.provider = r.provider /\ s.was = r.was /\ s.pc = "done"
      /\ requests' = (requests \ {r}) \cup {s}
  BY DEF Perform, Goes, KeyInv, SettingsType, RequestType
<1> HIDE DEF s
<1>2. SettingsType'
  BY <1>1 DEF KeyInv, SettingsType, SettingsOK, Perform
<1>3. ASSUME NEW p \in Providers, p \notin muddled' PROVE Steady(p)'
  <2>0. \A op : UnderWay(op, p)' <=> UnderWay(op, p)
    BY <1>1 DEF UnderWay
  <2>1. CASE p = r.provider /\ r.op = "save" /\ ~UnderWay("clear", p)
    <3>1. p \in keys' /\ ~UnderWay("clear", p)'
      BY <2>0, <2>1 DEF Perform
    <3> QED
      BY <3>1 DEF Steady, UnderWay
  <2>2. CASE p # r.provider
    <3>1. Steady(p) /\ (p \in keys' <=> p \in keys) /\ active' = active
      BY <1>3, <2>2 DEF KeyInv, Perform
    <3> QED
      BY <1>1, <2>0, <2>2, <3>1 DEF Steady
  <2>3. CASE p = r.provider /\ r.op = "clear"
    <3>1. Steady(p) /\ p \notin keys' /\ active' = active /\ UnderWay("clear", p)
      BY <1>1, <1>3, <2>3 DEF KeyInv, Perform, UnderWay
    <3>2. ~UnderWay("save", p) /\ ~UnderWay("save", p)'
      BY <2>0, <3>1 DEF Steady
    <3> QED
      BY <1>1, <2>0, <2>3, <3>1, <3>2 DEF Steady, UnderWay
  <2>4. CASE p = r.provider /\ r.op = "save" /\ UnderWay("clear", p)
    <3>1. UnderWay("save", p) /\ p \notin muddled
      BY <1>1, <1>3, <2>4 DEF UnderWay, Perform
    <3> QED
      BY <2>4, <3>1 DEF KeyInv, Steady
  <2> QED
    BY <1>1, <2>1, <2>2, <2>3, <2>4
<1> QED
  BY <1>2, <1>3 DEF KeyInv

LEMMA RepliedKeeps ==
  ASSUME KeyInv, NEW r \in requests, Replied(r)
  PROVE  KeyInv'
<1> DEFINE s == [r EXCEPT !.pc = "load"]
<1>1. /\ r \in RequestType /\ r.op \in {"save", "clear"} /\ r.provider \in Providers /\ r.pc = "done"
      /\ s \in RequestType /\ s.pc = "load"
      /\ requests' \subseteq (requests \ {r}) \cup {s} /\ requests \ {r} \subseteq requests'
  BY DEF Replied, Goes, KeyInv, SettingsType, RequestType
<1> HIDE DEF s
<1>2. SettingsType'
  <2>1. active' \in AnyProvider /\ saving' \in AnyProvider
    BY <1>1 DEF Replied, ActiveAfter, Saved, KeyInv, SettingsType, SettingsOK, AnyProvider
  <2> QED
    BY <1>1, <2>1 DEF KeyInv, SettingsType, SettingsOK, Replied, AnyProvider
<1>3. ASSUME NEW p \in Providers, p \notin muddled' PROVE Steady(p)'
  <2>0. Steady(p) /\ keys' = keys /\ p # None
    BY <1>3, SettingsAssumption DEF KeyInv, Replied
  <2>1. /\ UnderWay("save", p)' => UnderWay("save", p)
        /\ UnderWay("clear", p)' => UnderWay("clear", p)
    BY <1>1 DEF UnderWay
  <2>2. \A x \in requests' : x.op = "save" /\ x.provider = p /\ x.pc = "done" => p \in keys
    BY <1>1, <2>0 DEF Steady
  <2>3. CASE active' = p /\ active = p
    <3>1. ~(r.op = "clear" /\ r.provider = p)
      <4>1. ASSUME r.op = "clear", r.provider = p PROVE FALSE
        <5>1. r.was = p
          BY <1>1, <2>0, <2>3, <4>1 DEF Steady
        <5> QED
          BY <2>0, <2>3, <4>1, <5>1 DEF Replied, ActiveAfter
      <4> QED
        BY <4>1
    <3> QED
      BY <1>1, <2>0, <2>1, <2>2, <2>3, <3>1 DEF Steady
  <2>4. CASE active' = p /\ active # p
    <3>1. r.op = "save" /\ r.provider = p
      BY <2>0, <2>4 DEF Replied, ActiveAfter
    <3>2. p \in keys /\ UnderWay("save", p)
      BY <1>1, <2>0, <3>1 DEF Steady, UnderWay
    <3>3. ~UnderWay("clear", p)'
      BY <2>0, <2>1, <3>2 DEF Steady
    <3> QED
      BY <2>0, <2>2, <3>2, <3>3 DEF Steady, UnderWay
  <2>5. CASE active' # p
    BY <2>0, <2>1, <2>2, <2>5 DEF Steady
  <2> QED
    BY <2>3, <2>4, <2>5
<1> QED
  BY <1>2, <1>3 DEF KeyInv

LEMMA LoadKeeps ==
  ASSUME KeyInv, NEW r \in requests, Fails(r) \/ Load(r) \/ Loaded(r)
  PROVE  KeyInv'
<1> DEFINE s == [r EXCEPT !.pc = "read", !.got = keys]
<1>1. /\ r \in RequestType /\ r.pc # "done" /\ s \in RequestType /\ s.pc = "read"
      /\ requests' \subseteq (requests \ {r}) \cup {s} /\ requests \ {r} \subseteq requests'
      /\ UNCHANGED <<keys, active, muddled, asked>>
  BY DEF Fails, Load, Loaded, Goes, KeyInv, SettingsType, SettingsOK, RequestType
<1> HIDE DEF s
<1>2. SettingsType'
  <2>1. status' \subseteq Providers /\ saving' \in AnyProvider
    BY <1>1 DEF Fails, Load, Loaded, Saved, KeyInv, SettingsType, SettingsOK, RequestType, AnyProvider
  <2> QED
    BY <1>1, <2>1 DEF KeyInv, SettingsType, SettingsOK, AnyProvider
<1>3. ASSUME NEW p \in Providers, p \notin muddled' PROVE Steady(p)'
  <2>1. Steady(p)
    BY <1>1, <1>3 DEF KeyInv
  <2> QED
    BY <1>1, <2>1 DEF Steady, UnderWay
<1> QED
  BY <1>2, <1>3 DEF KeyInv

LEMMA KeyStep ==
  ASSUME KeyInv, [Next]_vars
  PROVE  KeyInv'
<1>1. ASSUME UNCHANGED settings PROVE KeyInv'
  <2>1. SettingsType'
    BY <1>1 DEF settings, KeyInv, SettingsType, SettingsOK
  <2>2. \A p : Steady(p)' <=> Steady(p)
    BY <1>1 DEF settings, Steady, UnderWay
  <2> QED
    BY <1>1, <2>1, <2>2 DEF settings, KeyInv
<1>2. CASE SettingsClick
  BY <1>2, OpenKeeps, SaveKeeps, ClearKeyKeeps, SelectKeeps DEF SettingsClick, AnyProvider
<1>3. CASE SettingsStep
  BY <1>3, PerformKeeps, RepliedKeeps, LoadKeeps DEF SettingsStep
<1>4. ASSUME NEW f \in Flows, FlowStep(f) PROVE UNCHANGED settings
  BY <1>4 DEF FlowStep, settings
<1>5. CASE UNCHANGED vars
  BY <1>1, <1>5 DEF vars
<1> QED
  BY <1>1, <1>2, <1>3, <1>4, <1>5 DEF Next, Click

LEMMA KeyInit ==
  ASSUME Init
  PROVE  KeyInv
BY SettingsAssumption DEF Init, SettingsInit, KeyInv, SettingsType, SettingsOK, Steady, UnderWay

\* The active provider has a key unless a request to clear it is under way, or it
\* was muddled (ActiveHasKey): requests of the two providers, loads that are late
\* or fail, and panels opened anew do not disturb each other.
THEOREM ActiveKeyed == Spec => []ActiveHasKey
<1>1. KeyInv => ActiveHasKey
  <2> SUFFICES ASSUME KeyInv, active # None, active \notin muddled, ~UnderWay("clear", active)
               PROVE  active \in keys
    BY DEF ActiveHasKey
  <2>1. active \in Providers /\ Steady(active)
    BY KeyType DEF KeyInv, AnyProvider
  <2> QED
    BY <2>1 DEF Steady, UnderWay
<1>2. KeyInv /\ [Next]_vars => KeyInv'
  BY KeyStep
<1> QED
  BY <1>1, <1>2, KeyInit, PTL DEF Spec

-----------------------------------------------------------------------------
(* The conversation                                                        *)

\* A step that leaves conversation and flows alone.
LEMMA StutterKeeps ==
  ASSUME NEW k \in Nat, Typed(k), k = NewId, UNCHANGED <<convo, flow>>
  PROVE  Kept(k)
<1>1. convo \in ConvoTo(k) /\ flow \in [Flows -> FlowTo(k)]
  BY Parts
<1>2. Messages' = Messages
  BY DEF Messages
<1> QED
  BY <1>1, <1>2, SameFlows

\* Every step keeps the types, what is typed without asking, and the order.
LEMMA TalkStep ==
  ASSUME TalkType, WriteAllowed, ConvoInv, active \in AnyProvider, [Next]_vars
  PROVE  TalkType' /\ WriteAllowed' /\ ConvoInv'
<1>1. PICK k \in Nat : k = NewId /\ Typed(k)
  BY Fresh
<1>2. ASSUME Kept(k), cleared' = cleared PROVE TalkType' /\ WriteAllowed' /\ ConvoInv'
  <2>1. Typed(k)'
    BY <1>2 DEF Kept, Typed
  <2>2. TalkType'
    BY <1>2, <2>1 DEF TalkType
  <2>3. WriteAllowed'
    BY <1>2 DEF Kept
  <2>4. ConvoInv'
    BY <1>2 DEF Kept, ConvoInv
  <2> QED
    BY <2>2, <2>3, <2>4
<1>3. CASE ClearConversation
  <2>1. /\ convo' \in ConvoTo(k) /\ flow' \in [Flows -> FlowTo(k)] /\ cleared' \in BOOLEAN
        /\ WriteAllowed' /\ ConvoInv'
    BY <1>1, <1>3, ClearKeeps
  <2>2. Typed(k)'
    BY <2>1 DEF Typed
  <2>3. TalkType'
    BY <2>1, <2>2 DEF TalkType
  <2> QED
    BY <2>1, <2>3
<1>4. CASE SendUserMessage
  BY <1>1, <1>2, <1>4, SendKeeps DEF SendUserMessage
<1>5. CASE Run
  BY <1>1, <1>2, <1>5, RunClickKeeps DEF Run
<1>6. CASE Skip
  BY <1>1, <1>2, <1>6, SkipKeeps DEF Skip
<1>14. CASE PasteCommand
  BY <1>1, <1>2, <1>14, StutterKeeps DEF PasteCommand
<1>7. CASE SetMode \/ Stop
  BY <1>1, <1>2, <1>7, SettingKeeps DEF SetMode, Stop
<1>8. ASSUME NEW danger \in BOOLEAN, ProposeAndRun(danger) PROVE TalkType' /\ WriteAllowed' /\ ConvoInv'
  BY <1>1, <1>2, <1>8, ProposeKeeps DEF ProposeAndRun
<1>9. ASSUME UNCHANGED <<convo, flow, cleared>> PROVE TalkType' /\ WriteAllowed' /\ ConvoInv'
  BY <1>1, <1>2, <1>9, StutterKeeps
<1>10. CASE Click
  BY <1>3, <1>4, <1>5, <1>6, <1>7, <1>8, <1>9, <1>10, <1>14 DEF Click, Talk
<1>12. ASSUME NEW f \in Flows, FlowStep(f) PROVE TalkType' /\ WriteAllowed' /\ ConvoInv'
  BY <1>1, <1>2, <1>12, FlowKeeps DEF FlowStep
<1>13. CASE UNCHANGED vars
  BY <1>9, <1>13 DEF vars
<1> QED
  BY <1>9, <1>10, <1>12, <1>13 DEF Next

AssistantInv == KeyInv /\ TalkType /\ WriteAllowed /\ ConvoInv

THEOREM AssistantInvariant == Spec => []AssistantInv
<1>1. Init => AssistantInv
  <2> SUFFICES ASSUME Init PROVE AssistantInv
    OBVIOUS
  <2>1. KeyInv
    BY KeyInit
  <2>2. convo \in ConvoTo(0) /\ convo.running = FALSE /\ convo.messages = <<>>
    BY AssistantAssumption DEF Init, EmptyConversation, ConvoTo, AnyProvider
  <2>3. NoFlow \in FlowTo(0) /\ NoFlow.pc = "idle"
    BY DEF NoFlow, FlowTo, Points, AnyProvider
  <2>4. flow \in [Flows -> FlowTo(0)] /\ \A f \in Flows : flow[f].pc = "idle"
    BY <2>3 DEF Init
  <2>5. TalkType
    <3>1. 0 \in Nat /\ Typed(0) /\ cleared \in BOOLEAN
      BY <2>2, <2>4 DEF Typed, Init
    <3> QED
      BY <3>1 DEF TalkType
  <2>6. WriteAllowed
    BY <2>4 DEF WriteAllowed
  <2>7. Orderly
    BY <2>2, <2>4 DEF Orderly, Messages, Answered
  <2> QED
    BY <2>1, <2>5, <2>6, <2>7 DEF AssistantInv, ConvoInv
<1>2. AssistantInv /\ [Next]_vars => AssistantInv'
  <2> SUFFICES ASSUME AssistantInv, [Next]_vars PROVE AssistantInv'
    OBVIOUS
  <2>1. KeyInv'
    BY KeyStep DEF AssistantInv
  <2>2. active \in AnyProvider
    BY KeyType DEF AssistantInv
  <2>3. TalkType' /\ WriteAllowed' /\ ConvoInv'
    BY <2>2, TalkStep DEF AssistantInv
  <2> QED
    BY <2>1, <2>3 DEF AssistantInv
<1> QED
  BY <1>1, <1>2, PTL DEF Spec

LEMMA DangerStep ==
  ASSUME DangerConfirmed, WriteAllowed, [Next]_vars
  PROVE  DangerConfirmed'
<1>1. ASSUME ran' = ran PROVE DangerConfirmed'
  BY <1>1 DEF DangerConfirmed
<1>2. ASSUME NEW f \in Flows, flow[f].danger => flow[f].over, ran' = ran \cup {Ran(f)}
      PROVE  DangerConfirmed'
  <2>1. Ran(f).danger => Ran(f).over
    BY <1>2 DEF Ran
  <2>2. \A r \in ran \cup {Ran(f)} : r.danger => r.over \/ r.pasted
    BY <2>1 DEF DangerConfirmed
  <2> QED
    BY <1>2, <2>2 DEF DangerConfirmed
<1>3. ASSUME NEW f \in Flows, WriteToTerminal(f) PROVE DangerConfirmed'
  <2>1. flow[f].danger => flow[f].over
    BY <1>3 DEF WriteToTerminal, WriteAllowed
  <2>2. ran' = ran \/ ran' = ran \cup {Ran(f)}
    BY <1>3 DEF WriteToTerminal
  <2> QED
    BY <1>1, <1>2, <2>1, <2>2
<1>4. ASSUME NEW f \in Flows, Exec(f) PROVE DangerConfirmed'
  <2>1. ran' = ran \/ (~(flow[f].danger /\ ~flow[f].over) /\ ran' = ran \cup {Ran(f)})
    BY <1>4 DEF Exec
  <2> QED
    BY <1>1, <1>2, <2>1
<1>5. ASSUME NEW f \in Flows, FlowStep(f) PROVE DangerConfirmed'
  BY <1>1, <1>3, <1>4, <1>5 DEF FlowStep, Chat, Check, Gate
<1>6. CASE Click
  <2>1. ASSUME ~PasteCommand PROVE ran' = ran
    BY <1>6, <2>1 DEF Click, Talk, SendUserMessage, Run, Skip, ProposeAndRun, SetMode, Stop, ClearConversation
  <2>2. CASE PasteCommand
    BY <2>2 DEF PasteCommand, DangerConfirmed
  <2> QED
    BY <1>1, <2>1, <2>2
<1>8. CASE UNCHANGED vars
  BY <1>1, <1>8 DEF vars
<1> QED
  BY <1>1, <1>5, <1>6, <1>8 DEF Next

\* No command that the denylist matches reaches the server, through a terminal
\* or the exec channel, in any mode, without the user's "Run anyway", but for what
\* is pasted (DangerConfirmed): a command is typed unasked only after ai_command_check
\* has let it pass, and ai_command_exec asks the denylist again.
THEOREM DangersConfirmed == Spec => []DangerConfirmed
<1>1. Init => DangerConfirmed
  BY DEF Init, DangerConfirmed
<1>2. AssistantInv /\ DangerConfirmed /\ [Next]_vars => DangerConfirmed'
  BY DangerStep DEF AssistantInv
<1> QED
  BY <1>1, <1>2, AssistantInvariant, PTL DEF Spec

\* At most one flow is at work.
LEMMA AtMostOne ==
  ASSUME \A f, g \in Flows : flow[f].pc # "idle" /\ flow[g].pc # "idle" => f = g
  PROVE  Cardinality(Flows \ Idle) <= 1
<1>1. CASE Flows \ Idle = {}
  BY <1>1, FS_EmptySet
<1>2. CASE Flows \ Idle # {}
  <2>1. PICK f \in Flows : flow[f].pc # "idle"
    BY <1>2 DEF Idle
  <2>2. Flows \ Idle = {f}
    BY <2>1 DEF Idle
  <2>3. Cardinality({f}) = 1
    BY FS_Singleton
  <2> QED
    BY <2>2, <2>3
<1> QED
  BY <1>1, <1>2

\* In what is sent to the provider every proposed command but the last is
\* followed by exactly one result, and one flow works on the conversation at a
\* time, unless it was cleared under a flow (HistoryWellFormed), for any number
\* of flows, clicks and turns: requestNextTurn and runCommand add the message
\* that fits the last one, and `running` keeps every other click out.
THEOREM HistoriesWellFormed == Spec => []HistoryWellFormed
<1>1. AssistantInv => HistoryWellFormed
  <2> SUFFICES ASSUME AssistantInv PROVE HistoryWellFormed
    OBVIOUS
  <2>1. PICK n \in Nat : convo \in ConvoTo(n) /\ flow \in [Flows -> FlowTo(n)] /\ cleared \in BOOLEAN
    BY DEF AssistantInv, TalkType, Typed
  <2>2. Messages \in Seq(MessageTo(n)) /\ Messages = convo.messages
    BY <2>1 DEF Messages, ConvoTo
  <2>3. TypeOK
    <3>1. /\ convo.mode \in {"ask", "autonomous"} /\ convo.provider \in Providers \cup {None}
          /\ convo.running \in BOOLEAN /\ convo.stop \in BOOLEAN
          /\ convo.iter \in 0..MAX_AUTONOMOUS_ITERATIONS
      BY <2>1 DEF ConvoTo, AnyProvider
    <3>2. {convo.running, convo.stop, cleared} \subseteq BOOLEAN
      BY <2>1, <3>1
    <3>3. \A i \in 1..Len(Messages) : Messages[i] \in MessageTo(n)
      BY <2>2
    <3>4. \A i \in 1..Len(Messages) : Messages[i].role \in {"user", "text", "call", "result"}
      BY <3>3 DEF MessageTo, Roles
    <3>5. \A f \in Flows : flow[f].pc \in {"idle", "chat", "check", "write", "gate", "exec"}
      BY <2>1 DEF FlowTo, Points
    <3>6. SettingsOK
      BY DEF AssistantInv, KeyInv, SettingsType
    <3> QED
      BY <3>1, <3>2, <3>4, <3>5, <3>6 DEF TypeOK
  <2>4. ASSUME Orderly PROVE CallsAnswered
    <3>1. DOMAIN Messages = 1..Len(Messages) /\ Len(Messages) \in Nat
      BY <2>2
    <3>2. PICK sent : sent = toMessageInputs(Messages)
      OBVIOUS
    <3>3. sent = [i \in 1..Len(Messages) |-> Messages[i].role]
      BY <3>1, <3>2 DEF toMessageInputs
    <3>4. sent \in Seq(Roles) /\ Len(sent) = Len(Messages)
      <4>1. \A i \in 1..Len(Messages) : Messages[i].role \in Roles
        BY <2>3 DEF TypeOK, Roles
      <4>2. sent \in [1..Len(Messages) -> Roles]
        BY <3>3, <4>1
      <4> QED
        BY <3>1, <4>2
    <3>5. ASSUME NEW i \in 1..Len(sent)
          PROVE  /\ sent[i] = "call" /\ i < Len(sent) => sent[i + 1] = "result"
                 /\ sent[i] = "result" => i > 1 /\ sent[i - 1] = "call"
      <4>1. /\ i \in 1..Len(Messages) /\ (i < Len(Messages) => i + 1 \in 1..Len(Messages))
            /\ (i > 1 => i - 1 \in 1..Len(Messages))
        BY <3>1, <3>4
      <4>2. /\ sent[i] = Messages[i].role
            /\ i < Len(Messages) => sent[i + 1] = Messages[i + 1].role
            /\ i > 1 => sent[i - 1] = Messages[i - 1].role
        <5>1. \A j \in 1..Len(Messages) : sent[j] = Messages[j].role
          BY <3>3
        <5> QED
          BY <4>1, <5>1
      <4>3. /\ Messages[i].role = "call" /\ i < Len(Messages) => Messages[i + 1].role = "result"
            /\ Messages[i].role = "result" => i > 1 /\ Messages[i - 1].role = "call"
        BY <2>4, <4>1 DEF Orderly, Answered
      <4> QED
        BY <3>4, <4>2, <4>3
    <3> QED
      BY <3>2, <3>5 DEF CallsAnswered
  <2>5. ASSUME Orderly PROVE OneFlow
    <3>1. Cardinality(Flows \ Idle) <= 1
      BY <2>5, AtMostOne DEF Orderly
    <3>2. Idle # Flows => convo.running
      BY <2>5 DEF Orderly, Idle
    <3>3. convo.running /\ Idle = Flows => Pending(Messages) /\ Last(Messages).auto
      BY <2>5 DEF Orderly, Idle
    <3> QED
      BY <3>1, <3>2, <3>3 DEF OneFlow
  <2> QED
    BY <2>3, <2>4, <2>5 DEF HistoryWellFormed, AssistantInv, ConvoInv
<1> QED
  BY <1>1, AssistantInvariant, PTL
=============================================================================
