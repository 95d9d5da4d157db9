------------------------------- MODULE MCVpn -------------------------------
(* Instances of VpnConnections for TLC.                                    *)
EXTENDS VpnConnections, TLC

\* Attempts and callers are interchangeable (not used for liveness).
Symmetry == Permutations(Conns) \cup Permutations(Callers)
=============================================================================
