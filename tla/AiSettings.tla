----------------------------- MODULE AiSettings -----------------------------
(***************************************************************************)
(* The providers' keys: AiAssistantSection of SettingsPanel.tsx, the        *)
(* settings commands of commands/ai_commands.rs and the provider that is    *)
(* active (state/settingsStore.ts).                                         *)
(*                                                                          *)
(* A request is one call of a handler: the command, its answer and the      *)
(* load() that follows.  Requests overlap as the user clicks and are        *)
(* answered in any order.  What the panel offers is its copy of the keys,   *)
(* `status`, which the last load() that was answered has set.               *)
(***************************************************************************)
EXTENDS Naturals

CONSTANTS
    Providers,
    MaxAsked,   \* bound: the requests made altogether
    None

ASSUME SettingsAssumption == MaxAsked \in Nat /\ None \notin Providers

VARIABLES
    keys,       \* the providers with a key in the vault
    active,     \* settingsStore.aiActiveProvider
    status,     \* the providers the panel takes for configured
    saving,     \* the provider whose "Save" is disabled
    requests,   \* under way
    asked,
    muddled     \* history: providers of which ActiveHasKey says nothing

settings == <<keys, active, status, saving, requests, asked, muddled>>

\* was: the active provider, as the handler that was clicked saw it.
\* shown: is the panel that made it still there?
Request(n, op, p, pc) ==
    [n |-> n, op |-> op, provider |-> p, was |-> active, pc |-> pc, got |-> {}, shown |-> TRUE]

\* The panel is open and has loaded.
SettingsInit ==
    /\ keys \in SUBSET Providers /\ active \in keys \cup {None}
    /\ status = keys /\ saving = None /\ requests = {}
    /\ asked = 0 /\ muddled = {}

UnderWay(op, p) == \E r \in requests : r.op = op /\ r.provider = p /\ r.pc \in {"sent", "done"}
Muddle(p, why) == muddled' = IF why THEN muddled \cup {p} ELSE muddled

-----------------------------------------------------------------------------
(* The user                                                                *)

Ask(op, p, pc, others) ==
    /\ asked < MaxAsked /\ asked' = asked + 1
    /\ requests' = others \cup {Request(asked + 1, op, p, pc)}

\* handleSave: the button is disabled for the provider in `saving` only.
Save(p) ==
    /\ saving # p
    /\ Ask("save", p, "sent", requests)
    /\ saving' = p /\ Muddle(p, UnderWay("clear", p))
    /\ UNCHANGED <<keys, active, status>>

\* handleClear: offered for what is configured by the panel's copy, and never
\* disabled.
Clear(p) ==
    /\ p \in status
    /\ Ask("clear", p, "sent", requests)
    /\ Muddle(p, UnderWay("save", p))
    /\ UNCHANGED <<keys, active, status, saving>>

SelectActive(p) ==
    /\ status # {} /\ p \in status \cup {None} /\ p # active
    /\ active' = p /\ Muddle(p, p # None /\ (p \notin keys \/ UnderWay("clear", p)))
    /\ UNCHANGED <<keys, status, saving, requests, asked>>

\* The panel is left and opened again: a new one, which loads.  What the old
\* one asked for goes on, and its answers still set the active provider.
OpenSettings ==
    /\ Ask("load", None, "load",
           {[r EXCEPT !.shown = FALSE] : r \in {q \in requests : q.pc \in {"sent", "done"}}})
    /\ status' = {} /\ saving' = None
    /\ UNCHANGED <<keys, active, muddled>>

SettingsClick == OpenSettings \/ SelectActive(None)
                 \/ \E p \in Providers : Save(p) \/ Clear(p) \/ SelectActive(p)

-----------------------------------------------------------------------------
(* The requests                                                            *)

Goes(r, s) == requests' = (requests \ {r}) \cup {s}
Saved(r) == saving' = IF r.op = "save" /\ r.shown THEN None ELSE saving

\* ai_settings_set or ai_settings_clear.
Perform(r) ==
    /\ r.pc = "sent" /\ Goes(r, [r EXCEPT !.pc = "done"])
    /\ keys' = IF r.op = "save" THEN keys \cup {r.provider} ELSE keys \ {r.provider}
    /\ muddled' = IF r.op = "save" /\ ~UnderWay("clear", r.provider) THEN muddled \ {r.provider} ELSE muddled
    /\ UNCHANGED <<active, status, saving, asked>>

\* What the answer does to the active provider, by the one that was active at
\* the click; a version that leaves a cleared one active.
ActiveKept(r) == IF r.op = "save" /\ r.was = None THEN r.provider ELSE active
ActiveAfter(r) ==
    IF r.op = "save" /\ r.was = None THEN r.provider
    ELSE IF r.op = "clear" /\ r.was = r.provider THEN None
    ELSE active

\* The rest of the handler, up to its load().
Replied(r) ==
    /\ r.pc = "done"
    /\ active' = ActiveAfter(r) /\ Saved(r)
    /\ IF r.shown THEN Goes(r, [r EXCEPT !.pc = "load"]) ELSE requests' = requests \ {r}
    /\ UNCHANGED <<keys, status, asked, muddled>>

Fails(r) ==
    /\ r.pc \in {"sent", "load"} /\ requests' = requests \ {r}
    /\ IF r.pc = "sent" THEN Saved(r) ELSE UNCHANGED saving
    /\ UNCHANGED <<keys, active, status, asked, muddled>>

\* load(): ai_settings_status reads the keys, and the panel takes them over.
Load(r) ==
    /\ r.pc = "load" /\ Goes(r, [r EXCEPT !.pc = "read", !.got = keys])
    /\ UNCHANGED <<keys, active, status, saving, asked, muddled>>
Loaded(r) ==
    /\ r.pc = "read" /\ status' = r.got /\ requests' = requests \ {r}
    /\ UNCHANGED <<keys, active, saving, asked, muddled>>

SettingsStep ==
    \E r \in requests : Perform(r) \/ Replied(r) \/ Fails(r) \/ Load(r) \/ Loaded(r)

-----------------------------------------------------------------------------
SettingsOK ==
    /\ keys \subseteq Providers /\ status \subseteq Providers /\ muddled \subseteq Providers
    /\ {active, saving} \subseteq Providers \cup {None} /\ asked \in 0..MaxAsked

\* The active provider has a key, but while a request to clear it is under way,
\* whatever saves, clears, choices and answers overlap.  Two exceptions, until
\* its key is saved again: the user saved and cleared it at one time, when the
\* handlers' order decides; or chose it while its key was going or gone, which
\* the panel offers as long as its copy is old, for good if load() failed.
ActiveHasKey ==
    active # None /\ active \notin muddled /\ ~UnderWay("clear", active) => active \in keys
=============================================================================
