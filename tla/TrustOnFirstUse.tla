-------------------------- MODULE TrustOnFirstUse --------------------------
(***************************************************************************)
(* What ssh/known_hosts.rs promises: checks of server keys happen one at a *)
(* time.  The first key seen for an endpoint is pinned, the pinned key is  *)
(* accepted, every other one is refused until the pin is deleted.          *)
(***************************************************************************)
CONSTANTS
    Endpoints,  \* (hostname, port) pairs
    Keys,       \* server key fingerprints
    Checks,     \* check_server_key calls
    NoKey       \* not a key

VARIABLES
    pins,     \* known_hosts: endpoint -> key, or NoKey
    verdict   \* of each check: pending, accepted, rejected or failed

vars == <<pins, verdict>>

Init ==
    /\ pins = [e \in Endpoints |-> NoKey]
    /\ verdict = [c \in Checks |-> "pending"]

\* The answer a check of key k for endpoint e deserves, given the pins.
Deserved(e, k) == IF pins[e] \in {NoKey, k} THEN "accepted" ELSE "rejected"

VerifyOrTrust(c, e, k) ==
    /\ verdict[c] = "pending"
    /\ verdict' = [verdict EXCEPT ![c] = Deserved(e, k)]
    /\ pins' = [pins EXCEPT ![e] = IF @ = NoKey THEN k ELSE @]

\* A check may fail for reasons of its own; it then pins nothing.
Fail(C) ==
    /\ verdict' = [c \in Checks |->
                     IF c \in C /\ verdict[c] = "pending" THEN "failed" ELSE verdict[c]]
    /\ UNCHANGED pins

Delete(e) ==
    /\ pins' = [pins EXCEPT ![e] = NoKey]
    /\ UNCHANGED verdict

Next ==
    \/ \E c \in Checks, e \in Endpoints, k \in Keys : VerifyOrTrust(c, e, k)
    \/ \E C \in SUBSET Checks : Fail(C)
    \/ \E e \in Endpoints : Delete(e)

Spec == Init /\ [][Next]_vars
=============================================================================
