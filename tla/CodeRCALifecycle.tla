-------------------------- MODULE CodeRCALifecycle --------------------------
(***************************************************************************)
(* What the code-RCA queue promises of a run, without leases, tokens,      *)
(* workers or clocks: a run is claimed at most Limit times, every claim    *)
(* pays for at most one analysis and every analysis for at most one        *)
(* hand-off, a run is only given back while claims are left, it ends in    *)
(* one verdict, and "done" was handed off. A worker that lost its run may  *)
(* still analyse and hand off, which is why Start and HandOff do not ask   *)
(* for the run's state.                                                    *)
(***************************************************************************)
EXTENDS Naturals

CONSTANTS Runs, Limit

VARIABLES state, claims, spent, handed

qvars == <<state, claims, spent, handed>>

Init ==
    /\ state = [r \in Runs |-> "absent"]
    /\ claims = [r \in Runs |-> 0]
    /\ spent = [r \in Runs |-> 0]
    /\ handed = [r \in Runs |-> 0]

Admit(r) ==
    /\ state[r] = "absent"
    /\ state' = [state EXCEPT ![r] = "queued"]
    /\ UNCHANGED <<claims, spent, handed>>

Claim(r) ==
    /\ state[r] = "queued" /\ claims[r] < Limit
    /\ state' = [state EXCEPT ![r] = "running"]
    /\ claims' = [claims EXCEPT ![r] = @ + 1]
    /\ UNCHANGED <<spent, handed>>

Start(r) ==
    /\ spent[r] < claims[r]
    /\ spent' = [spent EXCEPT ![r] = @ + 1]
    /\ UNCHANGED <<state, claims, handed>>

HandOff(r) ==
    /\ handed[r] < spent[r]
    /\ handed' = [handed EXCEPT ![r] = @ + 1]
    /\ UNCHANGED <<state, claims, spent>>

End(r, v) ==
    /\ state[r] = "running"
    /\ v = "done" => handed[r] > 0
    /\ state' = [state EXCEPT ![r] = v]
    /\ UNCHANGED <<claims, spent, handed>>

(* The runs of S are taken away from whoever had them, in one step. *)
GiveUp(S) ==
    /\ S # {}
    /\ \A r \in S : state[r] = "running"
    /\ state' = [r \in Runs |-> IF r \notin S THEN state[r]
                                ELSE IF claims[r] < Limit THEN "queued" ELSE "failed"]
    /\ UNCHANGED <<claims, spent, handed>>

Next ==
    \/ \E r \in Runs :
          \/ Admit(r) \/ Claim(r) \/ Start(r) \/ HandOff(r)
          \/ \E v \in {"done", "failed", "timeout", "unparseable"} : End(r, v)
    \/ \E S \in SUBSET Runs : GiveUp(S)

Spec == Init /\ [][Next]_qvars
=============================================================================
