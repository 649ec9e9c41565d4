--------------------------- MODULE CodeRCAProofs ---------------------------
(***************************************************************************)
(* Proofs about CodeRCAQueue, for every number of runs, admitters, workers  *)
(* and faults: QueueInv is inductive, and the safety properties follow.     *)
(***************************************************************************)
EXTENDS CodeRCAQueue, FiniteSetTheorems, TLAPS

-----------------------------------------------------------------------------
(* Only four transactions write rows, the capacity, the budget or the       *)
(* admission table.                                                         *)
Quiet == UNCHANGED <<runVars, running, admission, used>>

LEMMA StepKinds ==
    ASSUME [Next]_vars
    PROVE  \/ \E a \in Admitters, now \in Nows, r \in Runs : AdmitRun(a, now, r)
           \/ \E w \in Workers, now \in Nows, r \in Runs : ClaimNext(w, now, r)
           \/ \E w \in Workers : Finalize(w)
           \/ \E w \in Workers, now \in Nows : Reap(w, now)
           \/ Quiet
<1>1. CASE UNCHANGED vars
  BY <1>1 DEF vars, dbVars, Quiet
<1>2. CASE Admission
  BY <1>2 DEF Admission, MaybeGates, MaybeMapped, MaybeUnmapped, EnqueueCodeRCARun,
              AdmitDeduped, AdmitSkips, AdmitFails, UpdateConfig, dbVars, Quiet
<1>3. ASSUME NEW w \in Workers, WorkerStep(w) \/ WorkerFails(w)
      PROVE  \/ \E now \in Nows, r \in Runs : ClaimNext(w, now, r)
             \/ Finalize(w)
             \/ \E now \in Nows : Reap(w, now)
             \/ Quiet
  BY <1>3 DEF WorkerStep, Poll, ClaimNothing, StartCLI, PrepareFails, EndCLI, Deliver,
              WorkerFails, dbVars, Quiet
<1>4. CASE ClockTick
  BY <1>4 DEF ClockTick, dbVars, Quiet
<1>5. QED
  BY <1>1, <1>2, <1>3, <1>4 DEF Next

LEMMA NowsAreTimes ==
    ASSUME TypeOK, NEW now \in Nows
    PROVE  now \in 0..MaxTime /\ now \in Nat /\ DayOf[now] \in Days
BY QueueAssumption DEF TypeOK, Nows

LEMMA OffType ==
    Off \in [pc : {"idle", "map", "admit"}, key : Keys \cup {Manual, NoKey}, cfg : Configs]
BY QueueAssumption DEF Off

LEMMA RestingType == Resting \in Positions /\ [Resting EXCEPT !.pc = "drain"] \in Positions
BY DEF Resting, Positions

LEMMA PositionType ==
    ASSUME NEW x \in Positions
    PROVE  /\ [x EXCEPT !.pc = "drain"] \in Positions
           /\ [x EXCEPT !.pc = "cli"] \in Positions
           /\ [x EXCEPT !.pc = "deliver"] \in Positions
           /\ \A out \in Outcomes : [x EXCEPT !.pc = "finalize", !.out = out] \in Positions
BY DEF Positions, Busy

LEMMA FiniteParts ==
    /\ \A S \in SUBSET Runs : IsFiniteSet(S) /\ Cardinality(S) \in Nat
    /\ \A S \in SUBSET Workers : IsFiniteSet(S) /\ Cardinality(S) \in Nat
BY QueueAssumption, FS_Subset, FS_CardinalityType

-----------------------------------------------------------------------------
(* Types. *)

LEMMA TypeAdmission ==
    ASSUME TypeOK, AdmittersInv, Admission
    PROVE  TypeOK'
<1> USE DEF TypeOK, vars, dbVars, runVars, envVars, histVars
<1>1. ASSUME NEW a \in Admitters, NEW k \in Keys, MaybeGates(a, k)
      PROVE  TypeOK'
  BY <1>1 DEF MaybeGates
<1>2. ASSUME NEW a \in Admitters, MaybeMapped(a) \/ AdmitFails(a) \/ EnqueueCodeRCARun(a)
      PROVE  TypeOK'
  BY <1>2, OffType DEF MaybeMapped, AdmitFails, EnqueueCodeRCARun
<1>3. ASSUME NEW a \in Admitters, NEW now \in Nows,
             MaybeUnmapped(a, now) \/ AdmitDeduped(a, now) \/ AdmitSkips(a, now)
      PROVE  TypeOK'
  <2>1. DayOf[now] \in Days
    BY NowsAreTimes
  <2>2. skips' \subseteq {"no_repo_mapping", "queue_full", "budget_exhausted"} \X Days
    <3>1. CASE MaybeUnmapped(a, now)
      BY <2>1, <3>1 DEF MaybeUnmapped
    <3>2. CASE AdmitDeduped(a, now)
      BY <3>2 DEF AdmitDeduped
    <3>3. CASE AdmitSkips(a, now)
      <4>1. PICK reason \in {"queue_full", "budget_exhausted"} :
               skips' = skips \cup {<<reason, DayOf[now]>>}
        BY <3>3 DEF AdmitSkips
      <4>2. QED
        BY <2>1, <4>1
    <3>4. QED
      BY <1>3, <3>1, <3>2, <3>3
  <2>3. adm' \in [Admitters -> [pc : {"idle", "map", "admit"}, key : Keys \cup {Manual, NoKey},
                               cfg : Configs]]
    BY <1>3, OffType DEF MaybeUnmapped, AdmitDeduped, AdmitSkips
  <2>4. UNCHANGED <<runVars, running, admission, used, cfg, wk, envVars, histVars>>
    BY <1>3 DEF MaybeUnmapped, AdmitDeduped, AdmitSkips
  <2>5. QED
    BY <2>2, <2>3, <2>4
<1>4. ASSUME NEW a \in Admitters, NEW now \in Nows, NEW r \in Runs, AdmitRun(a, now, r)
      PROVE  TypeOK'
  BY <1>4, OffType, NowsAreTimes DEF AdmitRun, PinAdmission
<1>5. ASSUME NEW c \in ConfigInputs, UpdateConfig(c)
      PROVE  TypeOK'
  BY <1>5, QueueAssumption DEF UpdateConfig, Configs
<1>6. QED
  BY <1>1, <1>2, <1>3, <1>4, <1>5 DEF Admission

LEMMA TypeWorker ==
    ASSUME TypeOK, OwnersInv, NEW w \in Workers, WorkerStep(w) \/ WorkerFails(w)
    PROVE  TypeOK'
<1> USE DEF vars, dbVars, runVars, envVars, histVars
<1>0. wk \in [Workers -> Positions] /\ wk[w] \in Positions
  BY DEF TypeOK
<1>1. CASE Poll(w) \/ (\E now \in Nows : ClaimNothing(w, now)) \/ WorkerFails(w)
  <2>1. wk' \in [Workers -> Positions]
    BY <1>0, <1>1, RestingType, PositionType DEF Poll, ClaimNothing, WorkerFails
  <2>2. UNCHANGED <<dbVars, adm, clock, histVars>> /\ faults' \in Nat
    BY <1>1 DEF Poll, ClaimNothing, WorkerFails, TypeOK
  <2>3. QED
    BY <2>1, <2>2 DEF TypeOK
<1>2. ASSUME NEW now \in Nows, NEW r \in Runs, ClaimNext(w, now, r)
      PROVE  TypeOK'
  <2>1. FreshToken(r) \in Nat /\ now + LeaseTTL \in Nat
    <3>1. now \in Nat
      BY NowsAreTimes
    <3>2. QED
      BY <3>1, QueueAssumption DEF FreshToken, TypeOK
  <2>2. wk' \in [Workers -> Positions]
    BY <1>0, <1>2, <2>1 DEF ClaimNext, Positions, Busy
  <2>3. QED
    BY <1>2, <2>1, <2>2 DEF ClaimNext, TypeOK
<1>3. CASE StartCLI(w)
  <2>1. wk' \in [Workers -> Positions]
    BY <1>0, <1>3, PositionType DEF StartCLI, Busy
  <2>2. analyses' \in [Runs -> Nat]
    <3>1. wk[w].run \in Runs /\ analyses \in [Runs -> Nat]
      BY <1>3 DEF StartCLI, OwnersInv, Busy, TypeOK
    <3>2. QED
      BY <1>3, <3>1 DEF StartCLI
  <2>3. QED
    BY <1>3, <2>1, <2>2 DEF StartCLI, TypeOK
<1>4. CASE PrepareFails(w)
  <2>1. wk' \in [Workers -> Positions]
    BY <1>0, <1>4, PositionType DEF PrepareFails, Outcomes
  <2>2. QED
    BY <1>4, <2>1 DEF PrepareFails, TypeOK
<1>5. ASSUME NEW out \in Outcomes, EndCLI(w, out)
      PROVE  TypeOK'
  <2>1. wk' \in [Workers -> Positions]
    BY <1>0, <1>5, PositionType DEF EndCLI, Busy
  <2>2. QED
    BY <1>5, <2>1 DEF EndCLI, TypeOK
<1>6. ASSUME NEW ok \in BOOLEAN, Deliver(w, ok)
      PROVE  TypeOK'
  <2>1. wk' \in [Workers -> Positions]
    <3>1. OutcomeOfDelivery(ok) \in Outcomes
      BY DEF OutcomeOfDelivery, Outcomes
    <3>2. QED
      BY <1>0, <1>6, <3>1, PositionType DEF Deliver
  <2>2. delivered' \in [Runs -> Nat]
    <3>1. wk[w].run \in Runs /\ delivered \in [Runs -> Nat]
      BY <1>6 DEF Deliver, OwnersInv, Busy, TypeOK
    <3>2. QED
      BY <1>6, <3>1 DEF Deliver
  <2>3. QED
    BY <1>6, <2>1, <2>2 DEF Deliver, TypeOK
<1>7. CASE Finalize(w)
  <2>1. wk' \in [Workers -> Positions]
    BY <1>0, <1>7, RestingType DEF Finalize
  <2>2. wk[w].run \in Runs /\ wk[w].out \in Outcomes
    BY <1>7 DEF Finalize, OwnersInv, Busy
  <2>3. QED
    BY <1>7, <2>1, <2>2 DEF Finalize, TypeOK
<1>8. ASSUME NEW now \in Nows, Reap(w, now)
      PROVE  TypeOK'
  <2>1. Reconciled(now) \in Nat
    BY FiniteParts DEF Reconciled, LiveLeases, InStatus
  <2>2. QED
    BY <1>8, <2>1 DEF Reap, TypeOK, Outcomes
<1>9. QED
  BY <1>1, <1>2, <1>3, <1>4, <1>5, <1>6, <1>7, <1>8 DEF WorkerStep

LEMMA TypeStep ==
    ASSUME TypeOK, AdmittersInv, OwnersInv, [Next]_vars
    PROVE  TypeOK'
<1>1. CASE UNCHANGED vars
  BY <1>1 DEF TypeOK, vars, dbVars, runVars, envVars, histVars
<1>2. CASE ClockTick
  BY <1>2, QueueAssumption DEF ClockTick, TypeOK, dbVars, runVars, histVars
<1>3. QED
  BY <1>1, <1>2, TypeAdmission, TypeWorker DEF Next

-----------------------------------------------------------------------------
(* Admitters, and the configurations they carry. *)

LEMMA AdmittersStep ==
    ASSUME TypeOK, AdmittersInv, [Next]_vars
    PROVE  AdmittersInv'
<1> USE DEF AdmittersInv, Known
<1>1. CASE UNCHANGED <<adm, cfg, maxPerDay, minCooldown>>
  BY <1>1
<1>2. ASSUME NEW a \in Admitters, UNCHANGED <<cfg, maxPerDay, minCooldown>>,
             adm' = [adm EXCEPT ![a] = Off]
      PROVE  AdmittersInv'
  BY <1>2 DEF TypeOK, Off
<1>3. ASSUME NEW a \in Admitters, NEW k \in Keys, MaybeGates(a, k)
      PROVE  AdmittersInv'
  BY <1>3 DEF MaybeGates, TypeOK, dbVars, histVars
<1>4. ASSUME NEW a \in Admitters, MaybeMapped(a)
      PROVE  AdmittersInv'
  BY <1>4 DEF MaybeMapped, TypeOK, dbVars, histVars
<1>5. ASSUME NEW a \in Admitters, EnqueueCodeRCARun(a)
      PROVE  AdmittersInv'
  BY <1>5 DEF EnqueueCodeRCARun, TypeOK, dbVars, histVars
<1>6. ASSUME NEW c \in ConfigInputs, UpdateConfig(c)
      PROVE  AdmittersInv'
  <2>1. /\ maxPerDay' >= maxPerDay /\ c.perDay <= maxPerDay' /\ maxPerDay' \in Nat
        /\ minCooldown' <= minCooldown /\ c.cooldown >= minCooldown' /\ minCooldown' \in Nat
    BY <1>6, QueueAssumption DEF UpdateConfig, TypeOK, Configs
  <2>2. cfg' = c /\ adm' = adm
    BY <1>6 DEF UpdateConfig
  <2>3. \A d \in Configs : Known(d) => Known(d)'
    BY <2>1 DEF TypeOK, Configs
  <2>4. Known(c)' /\ DefaultConfig \in Configs /\ \A a \in Admitters : adm[a].cfg \in Configs
    BY <2>1, QueueAssumption DEF TypeOK
  <2>5. QED
    BY <2>2, <2>3, <2>4
<1>7. CASE Admission
  BY <1>2, <1>3, <1>4, <1>5, <1>6, <1>7
     DEF Admission, MaybeUnmapped, AdmitDeduped, AdmitSkips, AdmitRun, AdmitFails, dbVars, histVars
<1>8. ASSUME NEW w \in Workers, WorkerStep(w) \/ WorkerFails(w)
      PROVE  UNCHANGED <<adm, cfg, maxPerDay, minCooldown>>
  BY <1>8 DEF WorkerStep, Poll, ClaimNext, ClaimNothing, StartCLI, PrepareFails, EndCLI, Deliver,
              Finalize, Reap, WorkerFails, dbVars, histVars
<1>9. QED
  BY <1>1, <1>7, <1>8 DEF Next, vars, ClockTick, dbVars, histVars

-----------------------------------------------------------------------------
(* Attempts: a claim is one attempt, and starts the CLI at most once. *)

(* The fields of a position after each kind of move. *)
LEMMA PositionFields ==
    ASSUME NEW x \in Positions, NEW p, NEW o
    PROVE  LET y == [x EXCEPT !.pc = p]
               z == [x EXCEPT !.pc = p, !.out = o] IN
           /\ y.pc = p /\ y.run = x.run /\ y.tok = x.tok /\ y.out = x.out
           /\ z.pc = p /\ z.run = x.run /\ z.tok = x.tok /\ z.out = o
BY DEF Positions

(* A worker's step moves no other worker. *)
OnlyMoves(w) == \A v \in Workers \ {w} : wk'[v] = wk[v]

LEMMA Rests ==
    ASSUME TypeOK, NEW w \in Workers,
           Poll(w) \/ WorkerFails(w) \/ (\E now \in Nows : ClaimNothing(w, now)) \/ Finalize(w)
    PROVE  OnlyMoves(w) /\ wk'[w].pc \in {"idle", "drain"}
<1>0. wk \in [Workers -> Positions] /\ wk[w] \in Positions
  BY DEF TypeOK
<1>1. CASE Poll(w)
  <2>1. wk' = [wk EXCEPT ![w] = [wk[w] EXCEPT !.pc = "drain"]]
    BY <1>1 DEF Poll
  <2>2. QED
    BY <1>0, <2>1, PositionFields DEF OnlyMoves
<1>2. CASE WorkerFails(w) \/ (\E now \in Nows : ClaimNothing(w, now))
  BY <1>0, <1>2 DEF WorkerFails, ClaimNothing, OnlyMoves, Resting
<1>3. CASE Finalize(w)
  BY <1>0, <1>3 DEF Finalize, OnlyMoves, Resting
<1>4. QED
  BY <1>1, <1>2, <1>3

(* Between the claim and Finalize a worker keeps its run and its token. *)
LEMMA Advances ==
    ASSUME TypeOK, NEW w \in Workers,
           \/ StartCLI(w) \/ PrepareFails(w)
           \/ (\E out \in Outcomes : EndCLI(w, out)) \/ (\E ok \in BOOLEAN : Deliver(w, ok))
    PROVE  /\ OnlyMoves(w)
           /\ wk[w].pc \in {"prepare", "cli", "deliver"}
           /\ wk'[w].pc \in {"cli", "deliver", "finalize"}
           /\ wk'[w].run = wk[w].run /\ wk'[w].tok = wk[w].tok
           /\ \/ wk'[w].pc # "finalize" /\ wk'[w].out = wk[w].out
              \/ wk'[w].out \in Outcomes /\ (wk'[w].out = "done" => Deliver(w, TRUE))
<1>0. wk \in [Workers -> Positions] /\ wk[w] \in Positions
  BY DEF TypeOK
<1>1. CASE StartCLI(w)
  <2>1. wk' = [wk EXCEPT ![w] = [wk[w] EXCEPT !.pc = "cli"]] /\ wk[w].pc = "prepare"
    BY <1>1 DEF StartCLI
  <2>2. QED
    BY <1>0, <1>1, <2>1, PositionFields DEF OnlyMoves
<1>2. CASE PrepareFails(w)
  <2>1. wk' = [wk EXCEPT ![w] = [wk[w] EXCEPT !.pc = "finalize", !.out = "failed"]] /\ wk[w].pc = "prepare"
    BY <1>2 DEF PrepareFails
  <2>2. wk'[w].pc = "finalize" /\ wk'[w].run = wk[w].run /\ wk'[w].tok = wk[w].tok /\ wk'[w].out = "failed"
    BY <1>0, <2>1, PositionFields
  <2>3. QED
    BY <1>0, <2>1, <2>2 DEF OnlyMoves, Outcomes
<1>3. ASSUME NEW out \in Outcomes, EndCLI(w, out)
      PROVE  /\ OnlyMoves(w) /\ wk[w].pc = "cli"
             /\ wk'[w].run = wk[w].run /\ wk'[w].tok = wk[w].tok
             /\ \/ wk'[w].pc = "deliver" /\ wk'[w].out = wk[w].out
                \/ wk'[w].pc = "finalize" /\ wk'[w].out \in Outcomes \ {"done"}
  <2>1. /\ wk[w].pc = "cli"
        /\ \/ wk' = [wk EXCEPT ![w] = [wk[w] EXCEPT !.pc = "deliver"]]
           \/ out # "done" /\ wk' = [wk EXCEPT ![w] = [wk[w] EXCEPT !.pc = "finalize", !.out = out]]
    BY <1>3 DEF EndCLI
  <2>2. CASE wk' = [wk EXCEPT ![w] = [wk[w] EXCEPT !.pc = "deliver"]]
    BY <1>0, <2>1, <2>2, PositionFields DEF OnlyMoves
  <2>3. CASE out # "done" /\ wk' = [wk EXCEPT ![w] = [wk[w] EXCEPT !.pc = "finalize", !.out = out]]
    <3>1. wk'[w].pc = "finalize" /\ wk'[w].run = wk[w].run /\ wk'[w].tok = wk[w].tok /\ wk'[w].out = out
      BY <1>0, <2>3, PositionFields
    <3>2. QED
      BY <1>0, <1>3, <2>1, <2>3, <3>1 DEF OnlyMoves
  <2>4. QED
    BY <2>1, <2>2, <2>3
<1>4. ASSUME NEW ok \in BOOLEAN, Deliver(w, ok)
      PROVE  /\ OnlyMoves(w) /\ wk[w].pc = "deliver" /\ wk'[w].pc = "finalize"
             /\ wk'[w].run = wk[w].run /\ wk'[w].tok = wk[w].tok
             /\ wk'[w].out \in {"done", "failed"} /\ (wk'[w].out = "done" => ok)
  <2>1. /\ wk[w].pc = "deliver"
        /\ wk' = [wk EXCEPT ![w] = [wk[w] EXCEPT !.pc = "finalize", !.out = OutcomeOfDelivery(ok)]]
    BY <1>4 DEF Deliver
  <2>2. /\ OnlyMoves(w) /\ wk'[w].pc = "finalize" /\ wk'[w].run = wk[w].run
        /\ wk'[w].tok = wk[w].tok /\ wk'[w].out = OutcomeOfDelivery(ok)
    BY <1>0, <2>1, PositionFields DEF OnlyMoves
  <2>3. QED
    BY <2>1, <2>2 DEF OutcomeOfDelivery
<1>5. QED
  BY <1>1, <1>2, <1>3, <1>4 DEF Outcomes

LEMMA PreparingStep ==
    ASSUME TypeOK, NEW w \in Workers, NEW r \in Runs, OnlyMoves(w)
    PROVE  /\ wk'[w].pc # "prepare" => Cardinality(Preparing(r)') <= Cardinality(Preparing(r))
           /\ wk[w].pc = "prepare" /\ wk[w].run = r /\ wk'[w].pc # "prepare" =>
                 Cardinality(Preparing(r)') = Cardinality(Preparing(r)) - 1
           /\ wk[w].pc # "prepare" /\ wk'[w].pc = "prepare" /\ wk'[w].run = r =>
                 Cardinality(Preparing(r)') = Cardinality(Preparing(r)) + 1
           /\ wk[w].pc # "prepare" /\ wk'[w].run # r => Preparing(r)' = Preparing(r)
<1> USE DEF OnlyMoves
<1>1. IsFiniteSet(Preparing(r)) /\ Cardinality(Preparing(r)) \in Nat
  BY FiniteParts DEF Preparing
<1>2. ASSUME wk[w].pc = "prepare", wk[w].run = r, wk'[w].pc # "prepare"
      PROVE  Cardinality(Preparing(r)') = Cardinality(Preparing(r)) - 1
  <2>1. w \in Preparing(r) /\ Preparing(r)' = Preparing(r) \ {w}
    BY <1>2 DEF Preparing
  <2>2. QED
    BY <1>1, <2>1, FS_RemoveElement
<1>3. ASSUME wk[w].pc # "prepare", wk'[w].pc = "prepare", wk'[w].run = r
      PROVE  Cardinality(Preparing(r)') = Cardinality(Preparing(r)) + 1
  <2>1. w \notin Preparing(r) /\ Preparing(r)' = Preparing(r) \cup {w}
    BY <1>3 DEF Preparing
  <2>2. QED
    BY <1>1, <2>1, FS_AddElement
<1>4. wk[w].pc # "prepare" /\ (wk'[w].pc # "prepare" \/ wk'[w].run # r) => Preparing(r)' = Preparing(r)
  BY DEF Preparing
<1>5. wk[w].pc = "prepare" /\ wk[w].run # r /\ wk'[w].pc # "prepare" => Preparing(r)' = Preparing(r)
  BY DEF Preparing
<1>6. wk'[w].pc # "prepare" => Cardinality(Preparing(r)') <= Cardinality(Preparing(r))
  BY <1>1, <1>2, <1>4, <1>5
<1>7. QED
  BY <1>2, <1>3, <1>4, <1>6

LEMMA AttemptsStep ==
    ASSUME QueueInv, [Next]_vars
    PROVE  AttemptsInv'
<1> USE DEF QueueInv
<1>0. \A r \in Runs : /\ attempts[r] \in Nat /\ analyses[r] \in Nat
                      /\ Cardinality(Preparing(r)) \in Nat /\ Cardinality(Preparing(r)') \in Nat
  BY FiniteParts DEF TypeOK, Preparing
<1>1. CASE UNCHANGED <<status, attempts, analyses, wk>>
  BY <1>1 DEF AttemptsInv, Preparing
<1>2. ASSUME NEW w \in Workers, OnlyMoves(w), wk'[w].pc # "prepare",
             UNCHANGED <<attempts, analyses>>,
             \A r \in Runs : status'[r] = status[r] \/ status'[r] \in Outcomes
      PROVE  AttemptsInv'
  <2>1. \A r \in Runs : Cardinality(Preparing(r)') <= Cardinality(Preparing(r))
    BY <1>2, PreparingStep
  <2>2. QED
    BY <1>0, <1>2, <2>1 DEF AttemptsInv, Outcomes
<1>3. ASSUME NEW a \in Admitters, NEW now \in Nows, NEW r \in Runs, AdmitRun(a, now, r)
      PROVE  AttemptsInv'
  <2>1. \A q \in Runs : Preparing(q)' = Preparing(q)
    BY <1>3 DEF AdmitRun, Preparing
  <2>2. QED
    BY <1>0, <1>3, <2>1, QueueAssumption DEF AdmitRun, AttemptsInv, TypeOK, histVars
<1>4. ASSUME NEW w \in Workers, NEW now \in Nows, NEW r \in Runs, ClaimNext(w, now, r)
      PROVE  AttemptsInv'
  <2>1. /\ wk[w].pc # "prepare" /\ status[r] = "queued" /\ status' = [status EXCEPT ![r] = "running"]
        /\ attempts' = [attempts EXCEPT ![r] = @ + 1] /\ analyses' = analyses
    BY <1>4 DEF ClaimNext, Oldest, Claimable, InStatus, histVars
  <2>2. OnlyMoves(w) /\ wk'[w].pc = "prepare" /\ wk'[w].run = r
    BY <1>4 DEF ClaimNext, TypeOK, OnlyMoves
  <2>3. Cardinality(Preparing(r)') = Cardinality(Preparing(r)) + 1
    BY <2>1, <2>2, PreparingStep
  <2>4. \A q \in Runs \ {r} : Preparing(q)' = Preparing(q)
    BY <2>1, <2>2, PreparingStep
  <2>5. \A q \in Runs \ {r} : UNCHANGED <<status[q], attempts[q], analyses[q]>>
    BY <2>1 DEF TypeOK
  <2>6. attempts'[r] = attempts[r] + 1 /\ status'[r] = "running" /\ analyses'[r] = analyses[r]
    BY <2>1 DEF TypeOK
  <2>7. QED
    BY <1>0, <2>1, <2>3, <2>4, <2>5, <2>6, QueueAssumption DEF AttemptsInv
<1>5. ASSUME NEW w \in Workers, StartCLI(w)
      PROVE  AttemptsInv'
  <2>1. PICK r \in Runs : r = wk[w].run
    BY <1>5 DEF StartCLI, OwnersInv, Busy
  <2>0. wk'[w].pc = "cli"
    <3>1. wk' = [wk EXCEPT ![w] = [wk[w] EXCEPT !.pc = "cli"]] /\ wk[w] \in Positions
      BY <1>5 DEF StartCLI, TypeOK
    <3>2. QED
      BY <3>1, PositionFields DEF TypeOK
  <2>2. /\ OnlyMoves(w) /\ wk[w].pc = "prepare" /\ wk'[w].pc = "cli"
        /\ UNCHANGED <<status, attempts>>
        /\ analyses'[r] = analyses[r] + 1
        /\ \A q \in Runs \ {r} : analyses'[q] = analyses[q]
    BY <1>5, <2>0, <2>1, Advances DEF StartCLI, TypeOK, dbVars, runVars
  <2>3. Cardinality(Preparing(r)') = Cardinality(Preparing(r)) - 1
    BY <2>1, <2>2, PreparingStep
  <2>4. \A q \in Runs : Cardinality(Preparing(q)') <= Cardinality(Preparing(q))
    BY <2>2, PreparingStep
  <2>5. QED
    BY <1>0, <2>2, <2>3, <2>4 DEF AttemptsInv
<1>6. ASSUME NEW w \in Workers, NEW now \in Nows, Reap(w, now)
      PROVE  AttemptsInv'
  <2>1. \A q \in Runs : Preparing(q)' = Preparing(q)
    BY <1>6 DEF Reap, Preparing
  <2>2. \A r \in Runs : \/ status'[r] = status[r]
                        \/ status'[r] = "failed"
                        \/ status'[r] = "queued" /\ attempts[r] < MaxAttempts
    BY <1>6 DEF Reap, Requeue
  <2>3. UNCHANGED <<attempts, analyses>>
    BY <1>6 DEF Reap, histVars
  <2>4. QED
    BY <1>0, <2>1, <2>2, <2>3 DEF AttemptsInv
<1>7. ASSUME NEW w \in Workers, Poll(w) \/ WorkerFails(w) \/ (\E now \in Nows : ClaimNothing(w, now))
                                 \/ Finalize(w)
      PROVE  AttemptsInv'
  <2>1. OnlyMoves(w) /\ wk'[w].pc # "prepare"
    BY <1>7, Rests
  <2>2. UNCHANGED <<attempts, analyses>>
    BY <1>7 DEF Poll, WorkerFails, ClaimNothing, Finalize, dbVars, runVars, histVars
  <2>3. \A r \in Runs : status'[r] = status[r] \/ status'[r] \in Outcomes
    BY <1>7 DEF Poll, WorkerFails, ClaimNothing, Finalize, OwnersInv, Busy, TypeOK, dbVars, runVars
  <2>4. QED
    BY <1>2, <2>1, <2>2, <2>3
<1>8. ASSUME NEW w \in Workers, PrepareFails(w) \/ (\E out \in Outcomes : EndCLI(w, out))
                                 \/ (\E ok \in BOOLEAN : Deliver(w, ok))
      PROVE  AttemptsInv'
  <2>1. OnlyMoves(w) /\ wk'[w].pc # "prepare"
    BY <1>8, Advances
  <2>2. UNCHANGED <<status, attempts, analyses>>
    BY <1>8 DEF PrepareFails, EndCLI, Deliver, dbVars, runVars, histVars
  <2>3. QED
    BY <1>2, <2>1, <2>2
<1>9. CASE Admission
  BY <1>1, <1>3, <1>9 DEF Admission, MaybeGates, MaybeMapped, MaybeUnmapped, EnqueueCodeRCARun,
     AdmitDeduped, AdmitSkips, AdmitFails, UpdateConfig, dbVars, runVars, histVars
<1>10. QED
  BY <1>1, <1>4, <1>5, <1>6, <1>7, <1>8, <1>9
     DEF Next, WorkerStep, ClockTick, vars, dbVars, runVars, histVars
-----------------------------------------------------------------------------
(* Hand-offs: a start of the CLI leads to at most one of them. *)

InHand == {"cli", "deliver"}

LEMMA AnalysingStep ==
    ASSUME TypeOK, NEW w \in Workers, NEW r \in Runs, OnlyMoves(w)
    PROVE  /\ wk'[w].pc \notin InHand => Cardinality(Analysing(r)') <= Cardinality(Analysing(r))
           /\ wk[w].pc \in InHand /\ wk'[w].run = wk[w].run =>
                 Cardinality(Analysing(r)') <= Cardinality(Analysing(r))
           /\ wk[w].pc \in InHand /\ wk[w].run = r /\ wk'[w].pc \notin InHand =>
                 Cardinality(Analysing(r)') = Cardinality(Analysing(r)) - 1
           /\ wk[w].pc \notin InHand /\ wk'[w].pc \in InHand /\ wk'[w].run = r =>
                 Cardinality(Analysing(r)') = Cardinality(Analysing(r)) + 1
           /\ wk[w].pc \notin InHand /\ wk'[w].run # r => Analysing(r)' = Analysing(r)
<1> USE DEF OnlyMoves, InHand
<1>1. IsFiniteSet(Analysing(r)) /\ Cardinality(Analysing(r)) \in Nat
  BY FiniteParts DEF Analysing
<1>2. ASSUME wk[w].pc \in InHand, wk[w].run = r, wk'[w].pc \notin InHand
      PROVE  Cardinality(Analysing(r)') = Cardinality(Analysing(r)) - 1
  <2>1. w \in Analysing(r) /\ Analysing(r)' = Analysing(r) \ {w}
    BY <1>2 DEF Analysing
  <2>2. QED
    BY <1>1, <2>1, FS_RemoveElement
<1>3. ASSUME wk[w].pc \notin InHand, wk'[w].pc \in InHand, wk'[w].run = r
      PROVE  Cardinality(Analysing(r)') = Cardinality(Analysing(r)) + 1
  <2>1. w \notin Analysing(r) /\ Analysing(r)' = Analysing(r) \cup {w}
    BY <1>3 DEF Analysing
  <2>2. QED
    BY <1>1, <2>1, FS_AddElement
<1>4. wk[w].pc \notin InHand /\ (wk'[w].pc \notin InHand \/ wk'[w].run # r) => Analysing(r)' = Analysing(r)
  BY DEF Analysing
<1>5. wk[w].pc \in InHand /\ wk[w].run # r /\ (wk'[w].pc \notin InHand \/ wk'[w].run = wk[w].run) =>
          Analysing(r)' = Analysing(r)
  BY DEF Analysing
<1>6. wk[w].pc \in InHand /\ wk'[w].pc \in InHand /\ wk'[w].run = wk[w].run => Analysing(r)' = Analysing(r)
  BY DEF Analysing
<1>7. wk'[w].pc \notin InHand => Cardinality(Analysing(r)') <= Cardinality(Analysing(r))
  BY <1>1, <1>2, <1>4, <1>5
<1>8. wk[w].pc \in InHand /\ wk'[w].run = wk[w].run => Cardinality(Analysing(r)') <= Cardinality(Analysing(r))
  BY <1>1, <1>5, <1>6, <1>7
<1>9. QED
  BY <1>2, <1>3, <1>4, <1>7, <1>8

LEMMA HandOffsStep ==
    ASSUME QueueInv, [Next]_vars
    PROVE  HandOffsInv'
<1> USE DEF QueueInv
<1>0. \A r \in Runs : /\ delivered[r] \in Nat /\ analyses[r] \in Nat
                      /\ Cardinality(Analysing(r)) \in Nat /\ Cardinality(Analysing(r)') \in Nat
  BY FiniteParts DEF TypeOK, Analysing
<1>1. CASE UNCHANGED <<delivered, analyses, wk>>
  BY <1>1 DEF HandOffsInv, Analysing
<1>2. ASSUME NEW w \in Workers, UNCHANGED <<delivered, analyses>>, OnlyMoves(w),
             \/ wk'[w].pc \notin InHand
             \/ wk[w].pc \in InHand /\ wk'[w].run = wk[w].run
      PROVE  HandOffsInv'
  <2>1. \A r \in Runs : Cardinality(Analysing(r)') <= Cardinality(Analysing(r))
    BY <1>2, AnalysingStep
  <2>2. QED
    BY <1>0, <1>2, <2>1 DEF HandOffsInv
<1>3. ASSUME NEW w \in Workers, NEW now \in Nows, NEW r \in Runs, ClaimNext(w, now, r)
      PROVE  HandOffsInv'
  <2>1. OnlyMoves(w) /\ wk'[w].pc \notin InHand
    BY <1>3 DEF ClaimNext, TypeOK, OnlyMoves, InHand
  <2>2. UNCHANGED <<delivered, analyses>>
    BY <1>3 DEF ClaimNext, histVars
  <2>3. QED
    BY <1>2, <2>1, <2>2
<1>4. ASSUME NEW w \in Workers, StartCLI(w)
      PROVE  HandOffsInv'
  <2>1. PICK r \in Runs : r = wk[w].run
    BY <1>4 DEF StartCLI, OwnersInv, Busy
  <2>2. wk'[w].pc = "cli"
    <3>1. wk' = [wk EXCEPT ![w] = [wk[w] EXCEPT !.pc = "cli"]] /\ wk[w] \in Positions
      BY <1>4 DEF StartCLI, TypeOK
    <3>2. QED
      BY <3>1, PositionFields DEF TypeOK
  <2>3. OnlyMoves(w) /\ wk'[w].run = r /\ wk[w].pc \notin InHand /\ wk'[w].pc \in InHand
    BY <1>4, <2>1, <2>2, Advances DEF StartCLI, InHand
  <2>4. /\ delivered' = delivered /\ analyses'[r] = analyses[r] + 1
        /\ \A q \in Runs \ {r} : analyses'[q] = analyses[q]
    BY <1>4, <2>1 DEF StartCLI, TypeOK
  <2>5. Cardinality(Analysing(r)') = Cardinality(Analysing(r)) + 1
    BY <2>3, AnalysingStep
  <2>6. \A q \in Runs \ {r} : Analysing(q)' = Analysing(q)
    BY <2>3, AnalysingStep
  <2>7. QED
    BY <1>0, <2>4, <2>5, <2>6 DEF HandOffsInv
<1>5. ASSUME NEW w \in Workers, NEW ok \in BOOLEAN, Deliver(w, ok)
      PROVE  HandOffsInv'
  <2>1. PICK r \in Runs : r = wk[w].run
    BY <1>5 DEF Deliver, OwnersInv, Busy
  <2>2. wk'[w].pc = "finalize"
    <3>1. /\ wk' = [wk EXCEPT ![w] = [wk[w] EXCEPT !.pc = "finalize", !.out = OutcomeOfDelivery(ok)]]
          /\ wk[w] \in Positions
      BY <1>5 DEF Deliver, TypeOK
    <3>2. QED
      BY <3>1, PositionFields DEF TypeOK
  <2>3. OnlyMoves(w) /\ wk[w].pc \in InHand /\ wk'[w].pc \notin InHand
    BY <1>5, <2>2, Advances DEF Deliver, InHand
  <2>4. /\ analyses' = analyses /\ delivered'[r] <= delivered[r] + 1 /\ delivered'[r] \in Nat
        /\ \A q \in Runs \ {r} : delivered'[q] = delivered[q]
    BY <1>0, <1>5, <2>1 DEF Deliver, TypeOK
  <2>5. Cardinality(Analysing(r)') = Cardinality(Analysing(r)) - 1
    BY <2>1, <2>3, AnalysingStep
  <2>6. \A q \in Runs : Cardinality(Analysing(q)') <= Cardinality(Analysing(q))
    BY <2>3, AnalysingStep
  <2>7. QED
    BY <1>0, <2>4, <2>5, <2>6 DEF HandOffsInv
<1>6. ASSUME NEW w \in Workers, PrepareFails(w) \/ (\E out \in Outcomes : EndCLI(w, out))
      PROVE  HandOffsInv'
  <2>1. OnlyMoves(w) /\ wk'[w].run = wk[w].run
    BY <1>6, Advances
  <2>2. UNCHANGED <<delivered, analyses>>
    BY <1>6 DEF PrepareFails, EndCLI, histVars
  <2>3. wk[w].pc \in InHand \/ wk'[w].pc = "finalize"
    <3>1. CASE PrepareFails(w)
      <4>1. wk' = [wk EXCEPT ![w] = [wk[w] EXCEPT !.pc = "finalize", !.out = "failed"]] /\ wk[w] \in Positions
        BY <3>1 DEF PrepareFails, TypeOK
      <4>2. QED
        BY <4>1, PositionFields DEF TypeOK
    <3>2. QED
      BY <1>6, <3>1 DEF EndCLI, InHand
  <2>4. QED
    BY <1>2, <2>1, <2>2, <2>3 DEF InHand
<1>7. ASSUME NEW w \in Workers, Poll(w) \/ WorkerFails(w) \/ (\E now \in Nows : ClaimNothing(w, now))
                                 \/ Finalize(w)
      PROVE  HandOffsInv'
  <2>1. OnlyMoves(w) /\ wk'[w].pc \notin InHand
    BY <1>7, Rests DEF InHand
  <2>2. UNCHANGED <<delivered, analyses>>
    BY <1>7 DEF Poll, WorkerFails, ClaimNothing, Finalize, histVars
  <2>3. QED
    BY <1>2, <2>1, <2>2
<1>8. CASE Admission
  BY <1>1, <1>8 DEF Admission, MaybeGates, MaybeMapped, MaybeUnmapped, EnqueueCodeRCARun,
     AdmitDeduped, AdmitSkips, AdmitRun, AdmitFails, UpdateConfig, histVars
<1>9. ASSUME NEW w \in Workers, NEW now \in Nows, Reap(w, now)
      PROVE  HandOffsInv'
  BY <1>1, <1>9 DEF Reap, histVars
<1>10. QED
  BY <1>1, <1>3, <1>4, <1>5, <1>6, <1>7, <1>8, <1>9
     DEF Next, WorkerStep, ClockTick, vars, histVars

-----------------------------------------------------------------------------
(* What a step may do to the set of runs and to the history. *)

LEMMA HistoryGrows ==
    ASSUME QueueInv, [Next]_vars
    PROVE  /\ \A r \in Runs : delivered'[r] \in Nat /\ delivered'[r] >= delivered[r]
           /\ maxPerDay' >= maxPerDay /\ minCooldown' <= minCooldown
<1> USE DEF QueueInv
<1>1. CASE UNCHANGED <<delivered, maxPerDay, minCooldown>>
  BY <1>1 DEF TypeOK
<1>2. ASSUME NEW c \in ConfigInputs, UpdateConfig(c)
      PROVE  UNCHANGED delivered /\ maxPerDay' >= maxPerDay /\ minCooldown' <= minCooldown
  BY <1>2, QueueAssumption DEF UpdateConfig, Configs, TypeOK
<1>3. ASSUME NEW w \in Workers, NEW ok \in BOOLEAN, Deliver(w, ok)
      PROVE  /\ \A r \in Runs : delivered'[r] \in Nat /\ delivered'[r] >= delivered[r]
             /\ UNCHANGED <<maxPerDay, minCooldown>>
  BY <1>3 DEF Deliver, TypeOK, OwnersInv, Busy
<1>4. CASE Admission
  BY <1>1, <1>2, <1>4 DEF Admission, MaybeGates, MaybeMapped, MaybeUnmapped, EnqueueCodeRCARun,
     AdmitDeduped, AdmitSkips, AdmitFails, AdmitRun, histVars, TypeOK
<1>5. ASSUME NEW w \in Workers, WorkerStep(w) \/ WorkerFails(w)
      PROVE  \/ UNCHANGED <<delivered, maxPerDay, minCooldown>>
             \/ \E ok \in BOOLEAN : Deliver(w, ok)
  BY <1>5 DEF WorkerStep, Poll, ClaimNext, ClaimNothing, StartCLI, PrepareFails, EndCLI,
              Finalize, Reap, WorkerFails, histVars
<1>6. QED
  BY <1>1, <1>3, <1>4, <1>5 DEF Next, ClockTick, vars, histVars, TypeOK

(* Only AdmitRun adds a row, and no step removes one. *)
LEMMA RowsStay ==
    ASSUME QueueInv, [Next]_vars
    PROVE  \/ \E a \in Admitters, now \in Nows, r \in Runs : AdmitRun(a, now, r)
           \/ Admitted' = Admitted /\ UNCHANGED <<created, dedupKey, admission, used>>
<1> USE DEF QueueInv
<1>1. ASSUME NEW w \in Workers, NEW now \in Nows, NEW r \in Runs, ClaimNext(w, now, r)
      PROVE  Admitted' = Admitted /\ UNCHANGED <<created, dedupKey, admission, used>>
  BY <1>1 DEF ClaimNext, Oldest, Claimable, InStatus, Admitted, TypeOK
<1>2. ASSUME NEW w \in Workers, Finalize(w)
      PROVE  Admitted' = Admitted /\ UNCHANGED <<created, dedupKey, admission, used>>
  BY <1>2 DEF Finalize, OwnsLease, OwnersInv, Busy, Outcomes, Admitted, TypeOK
<1>3. ASSUME NEW w \in Workers, NEW now \in Nows, Reap(w, now)
      PROVE  Admitted' = Admitted /\ UNCHANGED <<created, dedupKey, admission, used>>
  BY <1>3 DEF Reap, Expired, InStatus, Admitted
<1>4. CASE Quiet
  BY <1>4 DEF Quiet, runVars, Admitted
<1>5. QED
  BY <1>1, <1>2, <1>3, <1>4, StepKinds

-----------------------------------------------------------------------------
(* Owners and their tokens. *)

LEMMA OwnersFacts ==
    ASSUME OwnersInv, NEW w \in Workers, wk[w].pc \in Busy
    PROVE  /\ wk[w].run \in Runs
           /\ status[wk[w].run] # "absent"
           /\ wk[w].tok \in 1..attempts[wk[w].run]
           /\ wk[w].pc = "finalize" => wk[w].out \in Outcomes
           /\ wk[w].out = "done" => delivered[wk[w].run] > 0
BY DEF OwnersInv

LEMMA OwnersApart ==
    ASSUME OwnersInv, NEW w \in Workers, NEW v \in Workers, wk[w].pc \in Busy, wk[v].pc \in Busy,
           wk[v].run = wk[w].run, wk[v].tok = wk[w].tok
    PROVE  v = w
BY DEF OwnersInv

LEMMA OwnersStep ==
    ASSUME QueueInv, [Next]_vars
    PROVE  OwnersInv'
<1> USE DEF QueueInv
<1>0. \A r \in Runs : attempts[r] \in Nat /\ delivered[r] \in Nat
  BY DEF TypeOK
<1>1. \A r \in Runs : /\ status[r] # "absent" => status'[r] # "absent"
                      /\ delivered[r] > 0 => delivered'[r] > 0
  <2>1. \A r \in Runs : status[r] # "absent" => status'[r] # "absent"
    <3>1. ASSUME NEW a \in Admitters, NEW now \in Nows, NEW q \in Runs, AdmitRun(a, now, q)
          PROVE  \A r \in Runs : status[r] # "absent" => status'[r] # "absent"
      BY <3>1 DEF AdmitRun, TypeOK
    <3>2. QED
      BY <3>1, RowsStay DEF Admitted
  <2>2. QED
    BY <1>0, <2>1, HistoryGrows
<1>2. ASSUME \A v \in Workers : wk'[v] = wk[v] \/ wk'[v].pc \notin Busy,
             UNCHANGED attempts
      PROVE  OwnersInv'
  <2>1. ASSUME NEW w \in Workers, wk'[w].pc \in Busy
        PROVE  /\ wk'[w].run \in Runs
               /\ status'[wk'[w].run] # "absent"
               /\ wk'[w].tok \in 1..attempts'[wk'[w].run]
               /\ wk'[w].pc = "finalize" => wk'[w].out \in Outcomes
               /\ wk'[w].out = "done" => delivered'[wk'[w].run] > 0
    <3>1. wk'[w] = wk[w]
      BY <1>2, <2>1
    <3>2. QED
      BY <1>1, <1>2, <2>1, <3>1, OwnersFacts
  <2>2. ASSUME NEW w \in Workers, NEW v \in Workers, wk'[w].pc \in Busy, wk'[v].pc \in Busy,
               wk'[v].run = wk'[w].run, wk'[v].tok = wk'[w].tok
        PROVE  v = w
    <3>1. wk'[w] = wk[w] /\ wk'[v] = wk[v]
      BY <1>2, <2>2
    <3>2. QED
      BY <2>2, <3>1, OwnersApart
  <2>3. QED
    BY <2>1, <2>2 DEF OwnersInv
<1>3. ASSUME NEW w \in Workers,
             \/ Poll(w) \/ WorkerFails(w) \/ (\E now \in Nows : ClaimNothing(w, now)) \/ Finalize(w)
      PROVE  OwnersInv'
  <2>1. UNCHANGED attempts
    BY <1>3 DEF Poll, WorkerFails, ClaimNothing, Finalize, dbVars, runVars
  <2>2. \A v \in Workers : wk'[v] = wk[v] \/ wk'[v].pc \notin Busy
    BY <1>3, Rests DEF OnlyMoves, Busy
  <2>3. QED
    BY <1>2, <2>1, <2>2
<1>4. ASSUME NEW w \in Workers,
             \/ StartCLI(w) \/ PrepareFails(w)
             \/ (\E out \in Outcomes : EndCLI(w, out)) \/ (\E ok \in BOOLEAN : Deliver(w, ok))
      PROVE  OwnersInv'
  <2>1. UNCHANGED attempts
    BY <1>4 DEF StartCLI, PrepareFails, EndCLI, Deliver, dbVars, runVars
  <2>2. /\ OnlyMoves(w) /\ wk[w].pc \in Busy /\ wk'[w].pc \in Busy
        /\ wk'[w].run = wk[w].run /\ wk'[w].tok = wk[w].tok
        /\ \/ wk'[w].pc # "finalize" /\ wk'[w].out = wk[w].out
           \/ wk'[w].out \in Outcomes /\ (wk'[w].out = "done" => Deliver(w, TRUE))
    BY <1>4, Advances DEF Busy
  <2>3. wk[w].run \in Runs
    BY <2>2 DEF OwnersInv
  <2>4. Deliver(w, TRUE) => delivered'[wk[w].run] > 0
    BY <1>0, <2>3 DEF Deliver, TypeOK
  <2>5. \A v \in Workers : /\ wk'[v].pc \in Busy <=> wk[v].pc \in Busy
                           /\ wk'[v].run = wk[v].run /\ wk'[v].tok = wk[v].tok
    BY <2>2 DEF OnlyMoves
  <2>6. ASSUME NEW v \in Workers, wk'[v].pc \in Busy
        PROVE  /\ wk'[v].run \in Runs
               /\ status'[wk'[v].run] # "absent"
               /\ wk'[v].tok \in 1..attempts'[wk'[v].run]
               /\ \A u \in Workers :
                    wk'[u].pc \in Busy /\ wk'[u].run = wk'[v].run /\ wk'[u].tok = wk'[v].tok => u = v
    <3>1. wk[v].pc \in Busy /\ wk'[v].run = wk[v].run /\ wk'[v].tok = wk[v].tok
      BY <2>5, <2>6
    <3>2. /\ wk[v].run \in Runs /\ status'[wk[v].run] # "absent"
          /\ wk[v].tok \in 1..attempts[wk[v].run]
      BY <1>1, <3>1, OwnersFacts
    <3>3. ASSUME NEW u \in Workers, wk'[u].pc \in Busy, wk'[u].run = wk'[v].run, wk'[u].tok = wk'[v].tok
          PROVE  u = v
      <4>1. wk[u].pc \in Busy /\ wk'[u].run = wk[u].run /\ wk'[u].tok = wk[u].tok
        BY <2>5, <3>3
      <4>2. QED
        BY <3>1, <3>3, <4>1, OwnersApart
    <3>4. QED
      BY <2>1, <3>1, <3>2, <3>3
  <2>7. ASSUME NEW v \in Workers, wk'[v].pc \in Busy
        PROVE  /\ wk'[v].pc = "finalize" => wk'[v].out \in Outcomes
               /\ wk'[v].out = "done" => delivered'[wk'[v].run] > 0
    <3>1. CASE v = w
      <4>1. wk[w].out = "done" => delivered'[wk[w].run] > 0
        BY <1>1, <2>2, OwnersFacts
      <4>2. QED
        BY <2>2, <2>3, <2>4, <3>1, <4>1
    <3>2. CASE v # w
      <4>1. wk'[v] = wk[v]
        BY <2>2, <3>2 DEF OnlyMoves
      <4>2. QED
        BY <1>1, <2>7, <4>1, OwnersFacts
    <3>3. QED
      BY <3>1, <3>2
  <2>8. QED
    BY <2>6, <2>7 DEF OwnersInv
<1>5. ASSUME NEW w \in Workers, NEW now \in Nows, NEW r \in Runs, ClaimNext(w, now, r)
      PROVE  OwnersInv'
  <2>1. /\ OnlyMoves(w) /\ wk'[w].pc = "prepare" /\ wk'[w].run = r
        /\ wk'[w].tok = attempts[r] + 1 /\ wk'[w].out = "none"
    BY <1>5 DEF ClaimNext, OnlyMoves, FreshToken, TypeOK
  <2>2. attempts'[r] = attempts[r] + 1 /\ \A q \in Runs : attempts'[q] \in Nat /\ attempts'[q] >= attempts[q]
    BY <1>0, <1>5 DEF ClaimNext, TypeOK
  <2>3. status[r] # "absent"
    BY <1>5 DEF ClaimNext, Oldest, Claimable, InStatus
  <2>4. ASSUME NEW v \in Workers \ {w}, wk[v].pc \in Busy
        PROVE  /\ wk[v].run \in Runs /\ wk[v].tok \in 1..attempts[wk[v].run]
               /\ wk[v].run = r => wk[v].tok # attempts[r] + 1
    BY <1>0, <2>4 DEF OwnersInv
  <2>5. ASSUME NEW v \in Workers, wk'[v].pc \in Busy
        PROVE  /\ wk'[v].run \in Runs
               /\ status'[wk'[v].run] # "absent"
               /\ wk'[v].tok \in 1..attempts'[wk'[v].run]
               /\ wk'[v].pc = "finalize" => wk'[v].out \in Outcomes
               /\ wk'[v].out = "done" => delivered'[wk'[v].run] > 0
    <3>1. CASE v = w
      <4>1. attempts[r] + 1 \in 1..attempts'[r]
        BY <1>0, <2>2
      <4>2. QED
        BY <1>1, <2>1, <2>3, <3>1, <4>1
    <3>2. CASE v # w
      <4>1. wk'[v] = wk[v]
        BY <2>1, <3>2 DEF OnlyMoves
      <4>2. wk[v].tok \in 1..attempts'[wk[v].run]
        <5>1. wk[v].run \in Runs /\ wk[v].tok \in 1..attempts[wk[v].run]
          BY <2>5, <4>1, OwnersFacts
        <5>2. attempts'[wk[v].run] \in Nat /\ attempts'[wk[v].run] >= attempts[wk[v].run]
          BY <2>2, <5>1
        <5>3. attempts[wk[v].run] \in Nat
          BY <1>0, <5>1
        <5>4. QED
          BY <5>1, <5>2, <5>3
      <4>3. QED
        BY <1>1, <2>5, <4>1, <4>2, OwnersFacts
    <3>3. QED
      BY <3>1, <3>2
  <2>6. ASSUME NEW v \in Workers, NEW u \in Workers, wk'[v].pc \in Busy, wk'[u].pc \in Busy,
               wk'[u].run = wk'[v].run, wk'[u].tok = wk'[v].tok
        PROVE  u = v
    <3>1. CASE v # w /\ u # w
      BY <2>1, <2>6, <3>1 DEF OnlyMoves, OwnersInv
    <3>2. CASE v = w /\ u # w
      BY <2>1, <2>4, <2>6, <3>2 DEF OnlyMoves
    <3>3. CASE v # w /\ u = w
      BY <2>1, <2>4, <2>6, <3>3 DEF OnlyMoves
    <3>4. QED
      BY <3>1, <3>2, <3>3
  <2>7. QED
    BY <2>5, <2>6 DEF OwnersInv
<1>6. ASSUME NEW w \in Workers, NEW now \in Nows, Reap(w, now)
      PROVE  UNCHANGED <<wk, attempts>>
  BY <1>6 DEF Reap
<1>7. CASE Admission
  BY <1>2, <1>7 DEF Admission, MaybeGates, MaybeMapped, MaybeUnmapped, EnqueueCodeRCARun,
     AdmitDeduped, AdmitSkips, AdmitRun, AdmitFails, UpdateConfig, dbVars, runVars
<1>8. QED
  BY <1>2, <1>3, <1>4, <1>5, <1>6, <1>7 DEF Next, WorkerStep, ClockTick, vars, dbVars, runVars
-----------------------------------------------------------------------------
(* The capacity row: a claim takes a place for a new running row, Finalize  *)
(* gives back the place of the row it ends, Reap recounts.                  *)

LEMMA SlotsStep ==
    ASSUME QueueInv, [Next]_vars
    PROVE  SlotsHaveRuns'
<1> USE DEF QueueInv
<1> DEFINE Rows == InStatus("running")
<1>0. /\ IsFiniteSet(Rows) /\ Cardinality(Rows) \in Nat /\ running \in Nat
      /\ running <= Cardinality(Rows)
  BY FiniteParts DEF InStatus, TypeOK, SlotsHaveRuns
<1>1. ASSUME NEW a \in Admitters, NEW now \in Nows, NEW r \in Runs, AdmitRun(a, now, r)
      PROVE  SlotsHaveRuns'
  <2>1. Rows' = Rows
    BY <1>1 DEF AdmitRun, InStatus, TypeOK
  <2>2. QED
    BY <1>0, <1>1, <2>1 DEF AdmitRun, SlotsHaveRuns
<1>2. ASSUME NEW w \in Workers, NEW now \in Nows, NEW r \in Runs, ClaimNext(w, now, r)
      PROVE  SlotsHaveRuns'
  <2>1. r \notin Rows /\ Rows' = Rows \cup {r}
    BY <1>2 DEF ClaimNext, Oldest, Claimable, InStatus, TypeOK
  <2>2. Cardinality(Rows') = Cardinality(Rows) + 1
    BY <1>0, <2>1, FS_AddElement
  <2>3. QED
    BY <1>0, <1>2, <2>2 DEF ClaimNext, SlotsHaveRuns
<1>3. ASSUME NEW w \in Workers, Finalize(w)
      PROVE  SlotsHaveRuns'
  <2>0. wk[w].run \in Runs /\ wk[w].out \in Outcomes
    BY <1>3, OwnersFacts DEF Finalize, Busy
  <2>1. CASE OwnsLease(wk[w].run, wk[w].tok)
    <3>1. status' = [status EXCEPT ![wk[w].run] = wk[w].out] /\ status[wk[w].run] = "running"
      BY <1>3, <2>1 DEF Finalize, OwnsLease
    <3>2. wk[w].run \in Rows /\ Rows' = Rows \ {wk[w].run}
      BY <2>0, <3>1 DEF InStatus, Outcomes, TypeOK
    <3>3. Cardinality(Rows') = Cardinality(Rows) - 1
      BY <1>0, <3>2, FS_RemoveElement
    <3>4. running' = IF running > 0 THEN running - 1 ELSE 0
      BY <1>3, <2>1 DEF Finalize
    <3>5. Cardinality(Rows') \in Nat
      BY FiniteParts DEF InStatus
    <3>6. QED
      BY <1>0, <3>3, <3>4, <3>5 DEF SlotsHaveRuns
  <2>2. CASE ~OwnsLease(wk[w].run, wk[w].tok)
    BY <1>3, <2>2 DEF Finalize, SlotsHaveRuns, InStatus
  <2>3. QED
    BY <2>1, <2>2
<1>4. ASSUME NEW w \in Workers, NEW now \in Nows, Reap(w, now)
      PROVE  SlotsHaveRuns'
  <2>1. now \in Nat
    BY NowsAreTimes
  <2>2. LiveLeases(now) \subseteq Rows'
    BY <1>4, <2>1 DEF Reap, LiveLeases, Expired, InStatus, TypeOK
  <2>3. IsFiniteSet(Rows')
    BY FiniteParts DEF InStatus
  <2>4. Cardinality(LiveLeases(now)) <= Cardinality(Rows')
    BY <2>2, <2>3, FS_Subset
  <2>5. QED
    BY <1>4, <2>4 DEF Reap, Reconciled, SlotsHaveRuns
<1>5. CASE Quiet
  BY <1>5 DEF Quiet, runVars, SlotsHaveRuns, InStatus
<1>6. QED
  BY <1>1, <1>2, <1>3, <1>4, <1>5, StepKinds

-----------------------------------------------------------------------------
(* The daily budget. *)

OfDay(d) == {r \in Admitted : DayOf[created[r]] = d}

LEMMA BudgetStep ==
    ASSUME QueueInv, [Next]_vars
    PROVE  BudgetInv'
<1> USE DEF QueueInv
<1>0. \A d \in Days : /\ used[d] \in Nat /\ used[d] = Cardinality(OfDay(d)) /\ used[d] <= maxPerDay
                      /\ IsFiniteSet(OfDay(d))
  BY FiniteParts DEF TypeOK, BudgetInv, OfDay, Admitted
<1>1. maxPerDay' >= maxPerDay /\ maxPerDay \in Nat /\ maxPerDay' \in Nat
  BY HistoryGrows, TypeStep DEF TypeOK
<1>2. CASE Admitted' = Admitted /\ UNCHANGED <<created, used>>
  <2>1. \A d \in Days : OfDay(d)' = OfDay(d) /\ used'[d] = used[d]
    BY <1>2 DEF OfDay
  <2>2. \A d \in Days : used'[d] = Cardinality(OfDay(d)') /\ used'[d] <= maxPerDay'
    BY <1>0, <1>1, <2>1
  <2>3. QED
    BY <2>2 DEF BudgetInv, OfDay
<1>3. ASSUME NEW a \in Admitters, NEW now \in Nows, NEW r \in Runs, AdmitRun(a, now, r)
      PROVE  BudgetInv'
  <2>1. /\ now \in 0..MaxTime /\ DayOf[now] \in Days /\ maxPerDay' = maxPerDay
        /\ status[r] = "absent" /\ status' = [status EXCEPT ![r] = "queued"]
        /\ created' = [created EXCEPT ![r] = now]
        /\ used' = [used EXCEPT ![DayOf[now]] = @ + 1]
    BY <1>3, NowsAreTimes DEF AdmitRun, histVars
  <2>2. Admitted' = Admitted \cup {r} /\ r \notin Admitted
    BY <2>1 DEF Admitted, TypeOK
  <2>3. \A q \in Admitted : created'[q] = created[q]
    BY <2>1, <2>2 DEF Admitted, TypeOK
  <2>4. created'[r] = now
    BY <2>1 DEF TypeOK
  <2>5. OfDay(DayOf[now])' = OfDay(DayOf[now]) \cup {r} /\ r \notin OfDay(DayOf[now])
    BY <2>2, <2>3, <2>4 DEF OfDay
  <2>6. \A d \in Days \ {DayOf[now]} : OfDay(d)' = OfDay(d) /\ used'[d] = used[d]
    BY <2>1, <2>2, <2>3, <2>4 DEF OfDay, TypeOK
  <2>7. Cardinality(OfDay(DayOf[now])') = Cardinality(OfDay(DayOf[now])) + 1
    BY <1>0, <2>1, <2>5, FS_AddElement
  <2>8. used'[DayOf[now]] = used[DayOf[now]] + 1
    BY <2>1 DEF TypeOK
  <2>9. used[DayOf[now]] < adm[a].cfg.perDay /\ adm[a].cfg.perDay <= maxPerDay /\ adm[a].cfg.perDay \in Nat
    BY <1>3 DEF AdmitRun, BudgetLeft, AdmittersInv, Known, TypeOK, Configs
  <2>10. used'[DayOf[now]] = Cardinality(OfDay(DayOf[now])') /\ used'[DayOf[now]] <= maxPerDay'
    BY <1>0, <1>1, <2>1, <2>7, <2>8, <2>9
  <2>11. \A d \in Days : used'[d] = Cardinality(OfDay(d)') /\ used'[d] <= maxPerDay'
    BY <1>0, <2>1, <2>6, <2>10
  <2>12. QED
    BY <2>11 DEF BudgetInv, OfDay
<1>4. QED
  BY <1>2, <1>3, RowsStay

-----------------------------------------------------------------------------
(* The cooldown: the admission row holds the time of the key's latest run,  *)
(* so that a new run is a cooldown after all of the earlier ones.           *)

LEMMA CooldownStep ==
    ASSUME QueueInv, [Next]_vars
    PROVE  AdmissionInv' /\ CooldownRespected'
<1> USE DEF QueueInv
<1>0. \A r \in Runs : created[r] \in Nat
  BY QueueAssumption DEF TypeOK
<1>1. minCooldown' <= minCooldown /\ minCooldown \in Nat /\ minCooldown' \in Nat
  BY HistoryGrows, TypeStep DEF TypeOK
<1>2. CASE Admitted' = Admitted /\ UNCHANGED <<created, dedupKey, admission>>
  <2>1. AdmissionInv'
    BY <1>2 DEF AdmissionInv
  <2>2. CooldownRespected'
    BY <1>0, <1>1, <1>2 DEF CooldownRespected, Admitted
  <2>3. QED
    BY <2>1, <2>2
<1>3. ASSUME NEW a \in Admitters, NEW now \in Nows, NEW r \in Runs, AdmitRun(a, now, r)
      PROVE  AdmissionInv' /\ CooldownRespected'
  <2> DEFINE k == adm[a].key
  <2>1. /\ now \in Nat /\ minCooldown' = minCooldown
        /\ status[r] = "absent" /\ status' = [status EXCEPT ![r] = "queued"]
        /\ created' = [created EXCEPT ![r] = now]
        /\ dedupKey' = [dedupKey EXCEPT ![r] = k]
        /\ PinAdmission(k, now) /\ ~Deduped(a, now)
    BY <1>3, NowsAreTimes DEF AdmitRun, histVars
  <2>2. Admitted' = Admitted \cup {r} /\ r \notin Admitted
    BY <2>1 DEF Admitted, TypeOK
  <2>3. \A q \in Admitted : created'[q] = created[q] /\ dedupKey'[q] = dedupKey[q]
    BY <2>1, <2>2 DEF Admitted, TypeOK
  <2>4. created'[r] = now /\ dedupKey'[r] = k
    BY <2>1 DEF TypeOK
  <2>5. \A q \in Admitted : dedupKey[q] \in Keys =>
           admission[dedupKey[q]] \in Nat /\ created[q] <= admission[dedupKey[q]]
    BY DEF AdmissionInv, TypeOK
  <2>6. ASSUME NEW q \in Admitted, dedupKey[q] = k, k \in Keys
        PROVE  created[q] + minCooldown <= now /\ created[q] <= now
    <3>1. admission[k] \in Nat /\ created[q] <= admission[k] /\ admission[k] # Never
      BY <2>5, <2>6, QueueAssumption
    <3>2. adm[a].cfg.cooldown \in Nat /\ minCooldown <= adm[a].cfg.cooldown
      BY DEF AdmittersInv, Known, TypeOK, Configs
    <3>3. ~(now - admission[k] < adm[a].cfg.cooldown)
      BY <2>1, <2>6, <3>1 DEF Deduped
    <3>4. created[q] \in Nat
      BY <1>0 DEF Admitted
    <3>5. QED
      BY <1>1, <2>1, <3>1, <3>2, <3>3, <3>4
  <2>7. k \in Keys => admission'[k] = now
    BY <2>1 DEF PinAdmission, TypeOK
  <2>8. \A j \in Keys : j # k => admission'[j] = admission[j]
    BY <2>1 DEF PinAdmission, TypeOK
  <2>9. AdmissionInv'
    <3>1. ASSUME NEW q \in Admitted', dedupKey'[q] \in Keys
          PROVE  admission'[dedupKey'[q]] # Never /\ created'[q] <= admission'[dedupKey'[q]]
      <4>1. CASE q = r
        BY <2>1, <2>4, <2>7, <3>1, <4>1, QueueAssumption
      <4>2. CASE q # r
        <5>1. q \in Admitted /\ created'[q] = created[q] /\ dedupKey'[q] = dedupKey[q]
          BY <2>2, <2>3, <3>1, <4>2
        <5>2. CASE dedupKey[q] = k
          BY <2>1, <2>6, <2>7, <3>1, <5>1, <5>2, QueueAssumption
        <5>3. CASE dedupKey[q] # k
          BY <2>5, <2>8, <3>1, <5>1, <5>3, QueueAssumption
        <5>4. QED
          BY <5>2, <5>3
      <4>3. QED
        BY <4>1, <4>2
    <3>2. QED
      BY <3>1 DEF AdmissionInv
  <2>10. CooldownRespected'
    <3>1. ASSUME NEW p \in Admitted', NEW q \in Admitted', p # q, dedupKey'[p] = dedupKey'[q],
                 dedupKey'[p] \in Keys
          PROVE  \/ created'[p] >= created'[q] + minCooldown'
                 \/ created'[q] >= created'[p] + minCooldown'
      <4>1. CASE p = r
        <5>1. q \in Admitted /\ created'[q] = created[q] /\ dedupKey'[q] = dedupKey[q]
          BY <2>2, <2>3, <3>1, <4>1
        <5>2. dedupKey[q] = k /\ k \in Keys
          BY <2>4, <3>1, <4>1, <5>1
        <5>3. created[q] + minCooldown <= now
          BY <2>6, <5>1, <5>2
        <5>4. QED
          BY <1>0, <1>1, <2>1, <2>4, <4>1, <5>1, <5>3 DEF Admitted
      <4>2. CASE q = r
        <5>1. p \in Admitted /\ created'[p] = created[p] /\ dedupKey'[p] = dedupKey[p]
          BY <2>2, <2>3, <3>1, <4>2
        <5>2. dedupKey[p] = k /\ k \in Keys
          BY <2>4, <3>1, <4>2, <5>1
        <5>3. created[p] + minCooldown <= now
          BY <2>6, <5>1, <5>2
        <5>4. QED
          BY <1>0, <1>1, <2>1, <2>4, <4>2, <5>1, <5>3 DEF Admitted
      <4>3. CASE p # r /\ q # r
        <5>1. p \in Admitted /\ q \in Admitted
          BY <2>2, <4>3
        <5>2. QED
          BY <2>1, <2>3, <3>1, <5>1 DEF CooldownRespected
      <4>4. QED
        BY <4>1, <4>2, <4>3
    <3>2. QED
      BY <3>1 DEF CooldownRespected
  <2>11. QED
    BY <2>9, <2>10
<1>4. QED
  BY <1>2, <1>3, RowsStay

-----------------------------------------------------------------------------
(* Verdicts. *)

LEMMA StatusMoves ==
    ASSUME QueueInv, [Next]_vars, NEW r \in Runs
    PROVE  /\ status[r] \in Terminal => status'[r] = status[r]
           /\ status'[r] = "done" /\ status[r] # "done" => delivered[r] > 0
<1> USE DEF QueueInv, Terminal
<1>1. ASSUME NEW a \in Admitters, NEW now \in Nows, NEW q \in Runs, AdmitRun(a, now, q)
      PROVE  /\ status[r] \in Terminal => status'[r] = status[r]
             /\ status'[r] = "done" => status[r] = "done"
  BY <1>1 DEF AdmitRun, Outcomes, TypeOK
<1>2. ASSUME NEW w \in Workers, NEW now \in Nows, NEW q \in Runs, ClaimNext(w, now, q)
      PROVE  /\ status[r] \in Terminal => status'[r] = status[r]
             /\ status'[r] = "done" => status[r] = "done"
  BY <1>2 DEF ClaimNext, Oldest, Claimable, InStatus, Outcomes, TypeOK
<1>3. ASSUME NEW w \in Workers, Finalize(w)
      PROVE  /\ status[r] \in Terminal => status'[r] = status[r]
             /\ status'[r] = "done" /\ status[r] # "done" => delivered[r] > 0
  <2>1. \/ status' = status
        \/ status[wk[w].run] = "running" /\ status' = [status EXCEPT ![wk[w].run] = wk[w].out]
    BY <1>3 DEF Finalize, OwnsLease
  <2>2. wk[w].run \in Runs /\ (wk[w].out = "done" => delivered[wk[w].run] > 0)
    BY <1>3, OwnersFacts DEF Finalize, Busy
  <2>3. QED
    BY <2>1, <2>2 DEF Outcomes, TypeOK
<1>4. ASSUME NEW w \in Workers, NEW now \in Nows, Reap(w, now)
      PROVE  /\ status[r] \in Terminal => status'[r] = status[r]
             /\ status'[r] = "done" => status[r] = "done"
  BY <1>4 DEF Reap, Expired, InStatus, Outcomes
<1>5. CASE Quiet
  BY <1>5 DEF Quiet, runVars
<1>6. QED
  BY <1>1, <1>2, <1>3, <1>4, <1>5, StepKinds

LEMMA DoneStep ==
    ASSUME QueueInv, [Next]_vars
    PROVE  DoneWasDelivered'
<1>1. \A r \in Runs : delivered[r] \in Nat /\ delivered'[r] \in Nat /\ delivered'[r] >= delivered[r]
  BY HistoryGrows DEF QueueInv, TypeOK
<1>2. \A r \in Runs : status'[r] = "done" => delivered[r] > 0
  BY StatusMoves DEF QueueInv, DoneWasDelivered
<1>3. QED
  BY <1>1, <1>2 DEF DoneWasDelivered

-----------------------------------------------------------------------------
(* The theorems. *)

LEMMA QueueInit == Init => QueueInv
<1> SUFFICES ASSUME Init PROVE QueueInv
  OBVIOUS
<1> USE QueueAssumption DEF Init
<1>0. Resting \in Positions /\ \A w \in Workers : wk[w].pc = "idle"
  BY RestingType DEF Resting
<1>1. TypeOK
  BY <1>0, OffType DEF TypeOK, Configs
<1>2. AdmittersInv
  BY DEF AdmittersInv, Known, Off, Configs
<1>3. AttemptsInv
  <2>1. \A r \in Runs : Preparing(r) = {}
    BY <1>0 DEF Preparing
  <2>2. Cardinality({}) = 0
    BY FS_EmptySet
  <2>3. \A r \in Runs : /\ Cardinality(Preparing(r)) = 0 /\ attempts[r] = 0 /\ analyses[r] = 0
                        /\ status[r] = "absent"
    BY <2>1, <2>2
  <2>4. QED
    BY <2>3 DEF AttemptsInv
<1>4. OwnersInv /\ HandOffsInv
  <2>1. \A r \in Runs : Analysing(r) = {}
    BY <1>0 DEF Analysing
  <2>2. \A r \in Runs : Cardinality(Analysing(r)) = 0 /\ delivered[r] = 0 /\ analyses[r] = 0
    BY <2>1, FS_EmptySet
  <2>3. QED
    BY <1>0, <2>2 DEF OwnersInv, Busy, HandOffsInv
<1>5. SlotsHaveRuns
  <2>1. Cardinality(InStatus("running")) \in Nat
    BY FiniteParts DEF InStatus
  <2>2. QED
    BY <2>1 DEF SlotsHaveRuns
<1>6. Admitted = {}
  BY DEF Admitted
<1>7. BudgetInv
  <2>1. \A d \in Days : OfDay(d) = {}
    BY <1>6 DEF OfDay
  <2>2. Cardinality({}) = 0
    BY FS_EmptySet
  <2>3. \A d \in Days : used[d] = 0 /\ Cardinality(OfDay(d)) = 0
    BY <2>1, <2>2
  <2>4. 0 <= maxPerDay
    BY <1>1 DEF TypeOK
  <2>5. QED
    BY <2>3, <2>4 DEF BudgetInv, OfDay
<1>8. AdmissionInv /\ CooldownRespected
  BY <1>6 DEF AdmissionInv, CooldownRespected
<1>9. DoneWasDelivered
  BY DEF DoneWasDelivered
<1>10. QED
  BY <1>1, <1>2, <1>3, <1>4, <1>5, <1>7, <1>8, <1>9 DEF QueueInv

LEMMA QueueStep == QueueInv /\ [Next]_vars => QueueInv'
BY TypeStep, AdmittersStep, AttemptsStep, HandOffsStep, OwnersStep, SlotsStep, BudgetStep,
   CooldownStep, DoneStep
   DEF QueueInv

(* QueueInv holds in every reachable state: the transactions of Store keep  *)
(* the rows, the capacity, the budget and the admission table in step with  *)
(* what the admitters and the workers hold.                                 *)
THEOREM QueueInvHolds == Spec => []QueueInv
BY QueueInit, QueueStep, PTL DEF Spec

(* The lease fence: at most one of the workers holding a run has a token    *)
(* Finalize accepts, however often leases expire under live workers.        *)
THEOREM OneLiveOwnerHolds == Spec => []OneLiveOwner
<1>1. QueueInv => OneLiveOwner
  <2>1. ASSUME OwnersInv, NEW w \in Workers, NEW v \in Workers, wk[w].pc \in Busy, wk[v].pc \in Busy,
               wk[w].run = wk[v].run,
               OwnsLease(wk[w].run, wk[w].tok), OwnsLease(wk[v].run, wk[v].tok)
        PROVE  w = v
    BY <2>1, OwnersApart DEF OwnsLease
  <2>2. QED
    BY <2>1 DEF QueueInv, OneLiveOwner
<1>2. QED
  BY <1>1, QueueInvHolds, PTL

(* A run that ended keeps its verdict: neither a stale worker's Finalize    *)
(* nor Reap touches it.                                                     *)
THEOREM VerdictsAreFinalHolds == Spec => VerdictsAreFinal
<1>1. QueueInv /\ [Next]_vars => [\A r \in Runs : status[r] \in Terminal => status'[r] = status[r]]_vars
  BY StatusMoves
<1>2. QED
  BY <1>1, QueueInvHolds, PTL DEF Spec, VerdictsAreFinal

(* The agent CLI is started at most MaxAttempts times for a run. *)
THEOREM AnalysesBoundedHolds == Spec => []AnalysesBounded
<1>1. QueueInv => AnalysesBounded
  <2>1. \A r \in Runs : Cardinality(Preparing(r)) \in Nat
    BY FiniteParts DEF Preparing
  <2>2. QED
    BY <2>1, QueueAssumption DEF QueueInv, TypeOK, AttemptsInv, AnalysesBounded
<1>2. QED
  BY <1>1, QueueInvHolds, PTL

(* No day has more runs than the largest daily cap configured so far,       *)
(* although Admit decides with a configuration the trigger read before.     *)
THEOREM BudgetRespectedHolds == Spec => []BudgetRespected
<1>1. QueueInv => BudgetRespected
  BY DEF QueueInv, BudgetInv, BudgetRespected
<1>2. QED
  BY <1>1, QueueInvHolds, PTL

(* Two runs of one dedup key are a cooldown apart, however many dispatches  *)
(* arrive at once and however old the Now their Admit uses is.              *)
THEOREM CooldownRespectedHolds == Spec => []CooldownRespected
<1>1. QueueInv => CooldownRespected
  BY DEF QueueInv
<1>2. QED
  BY <1>1, QueueInvHolds, PTL

(* The capacity row never counts more places than there are running rows:   *)
(* no crash leaks capacity for good.                                        *)
THEOREM SlotsHaveRunsHolds == Spec => []SlotsHaveRuns
<1>1. QueueInv => SlotsHaveRuns
  BY DEF QueueInv
<1>2. QED
  BY <1>1, QueueInvHolds, PTL

(* A run whose row says done was delivered at least once. *)
THEOREM DoneWasDeliveredHolds == Spec => []DoneWasDelivered
<1>1. QueueInv => DoneWasDelivered
  BY DEF QueueInv
<1>2. QED
  BY <1>1, QueueInvHolds, PTL

-----------------------------------------------------------------------------
(* Refinement: the status, the claims, the starts of the agent CLI and the  *)
(* hand-offs of every run behave as CodeRCALifecycle promises.              *)

LEMMA InitRefines == Init => Lifecycle!Init
BY DEF Init, Lifecycle!Init

(* Of the steps that write no row, only two count something of a run. *)
LEMMA QuietHistory ==
    ASSUME [Next]_vars
    PROVE  \/ \E w \in Workers : StartCLI(w)
           \/ \E w \in Workers, ok \in BOOLEAN : Deliver(w, ok)
           \/ UNCHANGED <<analyses, delivered>>
<1>1. CASE Admission
  BY <1>1 DEF Admission, MaybeGates, MaybeMapped, MaybeUnmapped, EnqueueCodeRCARun,
     AdmitDeduped, AdmitSkips, AdmitRun, AdmitFails, UpdateConfig, histVars
<1>2. ASSUME NEW w \in Workers, WorkerStep(w) \/ WorkerFails(w)
      PROVE  \/ StartCLI(w)
             \/ \E ok \in BOOLEAN : Deliver(w, ok)
             \/ UNCHANGED <<analyses, delivered>>
  BY <1>2 DEF WorkerStep, Poll, ClaimNext, ClaimNothing, PrepareFails, EndCLI, Finalize, Reap,
     WorkerFails, histVars
<1>3. QED
  BY <1>1, <1>2 DEF Next, ClockTick, vars, histVars

LEMMA StepRefines == QueueInv /\ [Next]_vars => [Lifecycle!Next]_(Lifecycle!qvars)
<1> SUFFICES ASSUME QueueInv, [Next]_vars,
                    UNCHANGED <<status, attempts, analyses, delivered>> => FALSE
             PROVE  Lifecycle!Next
  BY DEF Lifecycle!qvars
<1> USE DEF QueueInv
<1>0. \A r \in Runs : /\ attempts[r] \in Nat /\ analyses[r] \in Nat /\ delivered[r] \in Nat
                      /\ Cardinality(Preparing(r)) \in Nat /\ Cardinality(Analysing(r)) \in Nat
  BY FiniteParts DEF TypeOK, Preparing, Analysing
<1>1. ASSUME NEW a \in Admitters, NEW now \in Nows, NEW r \in Runs, AdmitRun(a, now, r)
      PROVE  Lifecycle!Next
  <2>1. Lifecycle!Admit(r)
    BY <1>1 DEF AdmitRun, histVars, Lifecycle!Admit
  <2>2. QED
    BY <2>1 DEF Lifecycle!Next
<1>2. ASSUME NEW w \in Workers, NEW now \in Nows, NEW r \in Runs, ClaimNext(w, now, r)
      PROVE  Lifecycle!Next
  <2>1. status[r] = "queued" /\ attempts[r] < MaxAttempts
    BY <1>2 DEF ClaimNext, Oldest, Claimable, InStatus, AttemptsInv
  <2>2. Lifecycle!Claim(r)
    BY <1>2, <2>1 DEF ClaimNext, histVars, Lifecycle!Claim
  <2>3. QED
    BY <2>2 DEF Lifecycle!Next
<1>3. ASSUME NEW w \in Workers, Finalize(w)
      PROVE  Lifecycle!Next
  <2>1. PICK r \in Runs : r = wk[w].run
    BY <1>3, OwnersFacts DEF Finalize, Busy
  <2>2. wk[w].out \in Outcomes /\ (wk[w].out = "done" => delivered[r] > 0)
    BY <1>3, <2>1, OwnersFacts DEF Finalize, Busy
  <2>3. UNCHANGED <<attempts, analyses, delivered>>
    BY <1>3 DEF Finalize, histVars
  <2>4. status[r] = "running" /\ status' = [status EXCEPT ![r] = wk[w].out]
    BY <1>3, <2>1, <2>3 DEF Finalize, OwnsLease
  <2>5. Lifecycle!End(r, wk[w].out)
    BY <2>2, <2>3, <2>4 DEF Lifecycle!End
  <2>6. QED
    BY <2>2, <2>5 DEF Lifecycle!Next, Outcomes
<1>4. ASSUME NEW w \in Workers, NEW now \in Nows, Reap(w, now)
      PROVE  Lifecycle!Next
  <2>1. /\ status' = [r \in Runs |-> IF r \notin Expired(now) THEN status[r]
                                     ELSE IF attempts[r] < MaxAttempts THEN "queued" ELSE "failed"]
        /\ UNCHANGED <<attempts, analyses, delivered>>
    BY <1>4 DEF Reap, Requeue, histVars
  <2>2. Expired(now) \in SUBSET Runs /\ \A r \in Expired(now) : status[r] = "running"
    BY DEF Expired, InStatus
  <2>3. Expired(now) # {}
    BY <2>1 DEF TypeOK
  <2>4. Lifecycle!GiveUp(Expired(now))
    BY <2>1, <2>2, <2>3 DEF Lifecycle!GiveUp
  <2>5. QED
    BY <2>2, <2>4 DEF Lifecycle!Next
<1>5. ASSUME NEW w \in Workers, StartCLI(w)
      PROVE  Lifecycle!Next
  <2>1. PICK r \in Runs : r = wk[w].run
    BY <1>5, OwnersFacts DEF StartCLI, Busy
  <2>2. w \in Preparing(r)
    BY <1>5, <2>1 DEF StartCLI, Preparing
  <2>3. Cardinality(Preparing(r)) # 0
    BY <2>2, FiniteParts, FS_EmptySet DEF Preparing
  <2>4. analyses[r] < attempts[r]
    BY <1>0, <2>3 DEF AttemptsInv
  <2>5. Lifecycle!Start(r)
    BY <1>5, <2>1, <2>4 DEF StartCLI, dbVars, runVars, Lifecycle!Start
  <2>6. QED
    BY <2>5 DEF Lifecycle!Next
<1>6. ASSUME NEW w \in Workers, NEW ok \in BOOLEAN, Deliver(w, ok)
      PROVE  Lifecycle!Next
  <2>1. PICK r \in Runs : r = wk[w].run
    BY <1>6, OwnersFacts DEF Deliver, Busy
  <2>2. w \in Analysing(r)
    BY <1>6, <2>1 DEF Deliver, Analysing
  <2>3. Cardinality(Analysing(r)) # 0
    BY <2>2, FiniteParts, FS_EmptySet DEF Analysing
  <2>4. delivered[r] < analyses[r]
    BY <1>0, <2>3 DEF HandOffsInv
  <2>5. delivered' = [delivered EXCEPT ![r] = @ + 1] /\ UNCHANGED <<status, attempts, analyses>>
    <3>1. UNCHANGED <<status, attempts, analyses>>
      BY <1>6 DEF Deliver, dbVars, runVars
    <3>2. delivered \in [Runs -> Nat] /\ delivered' # delivered
      BY <3>1 DEF TypeOK
    <3>3. delivered' = [delivered EXCEPT ![r] = @ + IF ok THEN 1 ELSE 0]
      BY <1>6, <2>1 DEF Deliver
    <3>4. CASE ~ok
      BY <3>2, <3>3, <3>4
    <3>5. QED
      BY <3>1, <3>3, <3>4
  <2>6. Lifecycle!HandOff(r)
    BY <2>4, <2>5 DEF Lifecycle!HandOff
  <2>7. QED
    BY <2>6 DEF Lifecycle!Next
<1>7. CASE Quiet
  <2>1. ~UNCHANGED <<analyses, delivered>>
    BY <1>7 DEF Quiet, runVars
  <2>2. QED
    BY <1>5, <1>6, <2>1, QuietHistory
<1>8. QED
  BY <1>1, <1>2, <1>3, <1>4, <1>7, StepKinds

(* The queue of leases, tokens, workers and reapers implements the abstract *)
(* life of a run: bounded claims, analyses within the claims, hand-offs     *)
(* within the analyses, one verdict, and "done" only after a hand-off.      *)
THEOREM Refinement == Spec => ImplementsQueue
<1>1. Spec => Lifecycle!Init /\ [][Lifecycle!Next]_(Lifecycle!qvars)
  BY InitRefines, StepRefines, QueueInvHolds, PTL DEF Spec
<1>2. QED
  BY <1>1 DEF ImplementsQueue, Lifecycle!Spec
=============================================================================
