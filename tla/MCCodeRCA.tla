----------------------------- MODULE MCCodeRCA -----------------------------
(* Model-checking instance of CodeRCAQueue. *)
EXTENDS CodeRCAQueue, TLC

Config(e, cool, day, deep) == [enabled |-> e, cooldown |-> cool, perDay |-> day, depth |-> deep]

SwitchedOff == Config(FALSE, 2, 1, 2)
Tight == {Config(TRUE, 1, 2, 2), Config(TRUE, 2, 1, 1)}

(* The midnight between the first and the second tick. *)
Midnight == [t \in 0..MaxTime |-> IF t = 0 THEN "d1" ELSE "d2"]

(* Rows are numbered in the order of their insertion. Admissions only write *)
(* the admission tables and workers only the leases. The workers act in the *)
(* behaviours in which one manual run was admitted, in the first tick and   *)
(* under the default configuration; in the others the admitters race, in    *)
(* the first three ticks and up to the first skip.                          *)
InOrder == \A r \in Runs, q \in Admitted : r < q => r \in Admitted

WorkersAct == wk # [w \in Workers |-> Resting] \/ \E r \in Runs : attempts[r] > 0

OneSideAtATime ==
    /\ InOrder
    /\ IF WorkersAct
       THEN /\ Cardinality(Admitted) <= 1 /\ \A r \in Admitted : created[r] = 0
            /\ maxPerDay = DefaultConfig.perDay /\ minCooldown = DefaultConfig.cooldown
            /\ cfg = DefaultConfig /\ adm = [a \in Admitters |-> Off] /\ skips = {}
       ELSE clock <= 2 /\ Cardinality(skips) <= 1
=============================================================================
