----------------------------- MODULE MCVpnGate -----------------------------
(* Instances of VpnGate for TLC: all hosts use one profile.                *)
EXTENDS VpnGate

OneProfile == [h \in Hosts |-> CHOOSE p \in Profiles : TRUE]
=============================================================================
