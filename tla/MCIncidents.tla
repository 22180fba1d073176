----------------------------- MODULE MCIncidents -----------------------------
(* Model-checking instances of Incidents: one-shot requests, interchangeable, *)
(* against one or two incidents.                                            *)
EXTENDS Incidents, TLC

MCClientVersions == {1, 2}
MCSymmetry == Permutations(Requests)
=============================================================================
