---------------------------- MODULE MCRemediation ----------------------------
(* Model-checking instances of Remediation. *)
EXTENDS Remediation, TLC

(* Server environments: everything configured, or every combination. *)
Configured == {[secure |-> TRUE, sandbox |-> TRUE]}
AnyDeployment == [secure : BOOLEAN, sandbox : BOOLEAN]

SelectorSymmetry == Permutations(Selectors)
RaceSymmetry == Permutations(Requests) \cup Permutations(Execs)
=============================================================================
