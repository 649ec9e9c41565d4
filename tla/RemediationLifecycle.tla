------------------------ MODULE RemediationLifecycle ------------------------
(***************************************************************************)
(* What the remediation feature promises of its executions, without        *)
(* requests, goroutines, clocks or failures: a script runs at most once,   *)
(* only after its row was started, rows end in one verdict, and no more    *)
(* rows execute at a time than the largest limit the org ever set.         *)
(***************************************************************************)
EXTENDS Integers, FiniteSets

CONSTANT Execs

VARIABLES state, ran, limit

lvars == <<state, ran, limit>>

Init ==
    /\ state \in [Execs -> {"absent", "proposed"}]
    /\ ran = [e \in Execs |-> 0]
    /\ limit \in Nat

Move(e, from, to) ==
    /\ state[e] = from
    /\ state' = [state EXCEPT ![e] = to]

Propose(e) == Move(e, "absent", "proposed") /\ UNCHANGED <<ran, limit>>

Close(e, v) == v \in {"rejected", "expired"} /\ Move(e, "proposed", v) /\ UNCHANGED <<ran, limit>>

Start(e) ==
    /\ Cardinality({x \in Execs : state[x] = "executing"}) < limit
    /\ Move(e, "proposed", "executing")
    /\ UNCHANGED <<ran, limit>>

RunScript(e) ==
    /\ state[e] = "executing" /\ ran[e] = 0
    /\ ran' = [ran EXCEPT ![e] = 1]
    /\ UNCHANGED <<state, limit>>

Finish(e, v) ==
    /\ \/ v = "succeeded" /\ ran[e] = 1
       \/ v = "failed"
    /\ Move(e, "executing", v)
    /\ UNCHANGED <<ran, limit>>

Judge(e, v) ==
    v \in {"verified", "unresolved"} /\ Move(e, "succeeded", v) /\ UNCHANGED <<ran, limit>>

RaiseLimit == limit' \in Nat /\ limit' > limit /\ UNCHANGED <<state, ran>>

Next ==
    \/ RaiseLimit
    \/ \E e \in Execs :
          \/ Propose(e) \/ Start(e) \/ RunScript(e)
          \/ \E v \in {"rejected", "expired", "succeeded", "failed", "verified", "unresolved"} :
                Close(e, v) \/ Finish(e, v) \/ Judge(e, v)

Spec == Init /\ [][Next]_lvars
=============================================================================
