-------------------------- MODULE RemediationProofs --------------------------
(***************************************************************************)
(* Proofs about Remediation, for every set of rows, requests, selectors,   *)
(* targets and hosts and every bound.                                      *)
(***************************************************************************)
EXTENDS Remediation, FiniteSetTheorems, TLAPS

(* Handler positions stay handler positions when a step sets pc, target     *)
(* status, or the status that was read.                                     *)
LEMMA IdlePosition == Idle \in Positions
  BY DEF Idle, Positions, Steps

LEMMA PositionPc ==
  ASSUME NEW x \in Positions, NEW c \in Steps
  PROVE  [x EXCEPT !.pc = c] \in Positions
  BY DEF Positions

LEMMA PositionPcTo ==
  ASSUME NEW x \in Positions, NEW c \in Steps, NEW to \in Statuses
  PROVE  [x EXCEPT !.pc = c, !.to = to] \in Positions
  BY DEF Positions

(* The transition table only leads to statuses. *)
LEMMA AllowedAreStatuses == \A from : AllowedTransitions(from) \subseteq Statuses
  BY DEF AllowedTransitions, Statuses

(* The backfilled config has a cap of at least one. *)
LEMMA WithDefaultsType ==
  ASSUME NEW c \in [enabled : BOOLEAN, max : CapInputs, window : WindowInputs]
  PROVE  WithDefaults(c) \in [enabled : BOOLEAN, max : Nat \ {0}, window : Nat]
<1>1. c.enabled \in BOOLEAN /\ c.max \in CapInputs /\ c.window \in WindowInputs
  OBVIOUS
<1>2. c.max \in Nat /\ c.window \in Nat
  BY <1>1, RemediationAssumption
<1>3. (IF c.max = 0 THEN DefaultMaxConcurrent ELSE c.max) \in Nat \ {0}
  BY <1>2 DEF DefaultMaxConcurrent
<1>4. (IF c.window = 0 THEN VerifyWindow ELSE c.window) \in Nat
  BY <1>2, RemediationAssumption
<1> QED
  BY <1>1, <1>3, <1>4 DEF WithDefaults

(* Every step of every actor keeps the types of the columns and locals.     *)
LEMMA TypeStep == TypeOK /\ PositionsInv /\ [Next]_vars => TypeOK'
<1> SUFFICES ASSUME TypeOK, PositionsInv, [Next]_vars PROVE TypeOK'
  OBVIOUS
<1> USE RemediationAssumption DEF TypeOK
<1>1. CASE Select
  <2>0. NoSnap \in Rows
    BY DEF NoSnap, Rows
  <2>1. ASSUME NEW s \in Selectors, NEW f \in Fingerprints, SelectConfig(s, f) PROVE TypeOK'
    <3>1. [NoSnap EXCEPT !.fp = f] \in Rows
      BY <2>0 DEF Rows
    <3> QED
      BY <2>1, <3>1 DEF SelectConfig, dbVars, envVars, histVars
  <2>2. ASSUME NEW s \in Selectors, SelectActive(s) PROVE TypeOK'
    <3>1. sel' \in [Selectors -> [pc : {"idle", "active", "llm", "create"}, row : Rows]]
      BY <2>0, <2>2 DEF SelectActive, NoSelection
    <3> QED
      BY <2>2, <3>1 DEF SelectActive, dbVars, histVars
  <2>3. ASSUME NEW s \in Selectors, SelectNothing(s) PROVE TypeOK'
    BY <2>0, <2>3 DEF SelectNothing, NoSelection, dbVars, envVars, histVars
  <2>4. ASSUME NEW s \in Selectors, NEW source \in Sources, NEW frozen \in FrozenTargets,
               SelectFreeze(s, source, frozen)
        PROVE TypeOK'
    <3>1. frozen.target \in Targets \cup {NoTarget} /\ frozen.host \in Hosts \cup {NoHost}
      BY DEF FrozenTargets
    <3>2. [fp |-> sel[s].row.fp, source |-> source, script |-> "clean",
           target |-> frozen.target, host |-> frozen.host, expiresAt |-> clock + TTL] \in Rows
      BY <3>1 DEF Rows
    <3> QED
      BY <2>4, <3>2 DEF SelectFreeze, dbVars, envVars, histVars
  <2>5. ASSUME NEW s \in Selectors, NEW e \in Execs, SelectCreate(s, e) PROVE TypeOK'
    BY <2>0, <2>5 DEF SelectCreate, NoSelection, envVars, histVars, Statuses
  <2> QED
    BY <1>1, <2>1, <2>2, <2>3, <2>4, <2>5 DEF Select
<1>2. CASE Approve
  <2> SUFFICES ASSUME NEW r \in Requests,
                      \/ \E e \in Execs : ApproveConfig(r, e)
                      \/ ApproveCount(r) \/ TransitionToExecuting(r)
                      \/ ApproveLoad(r) \/ ApproveFails(r)
               PROVE TypeOK'
    BY <1>2 DEF Approve
  <2> r \in Procs /\ op[r] \in Positions
    BY DEF Procs
  <2>1. ASSUME NEW e \in Execs, ApproveConfig(r, e) PROVE TypeOK'
    BY <2>1, IdlePosition DEF ApproveConfig, Idle, Positions, Steps, dbVars, envVars, histVars
  <2>2. CASE ApproveCount(r)
    BY <2>2, IdlePosition DEF ApproveCount, Positions, Steps, dbVars, envVars, histVars
  <2>3. CASE TransitionToExecuting(r)
    <3>1. [op EXCEPT ![r].pc = "load"] \in [Procs -> Positions]
      <4>1. [op[r] EXCEPT !.pc = "load"] \in Positions
        BY PositionPc DEF Steps
      <4> QED
        BY <4>1
    <3>2. [op EXCEPT ![r] = Idle] \in [Procs -> Positions]
      BY IdlePosition
    <3>3. op' \in [Procs -> Positions]
      BY <2>3, <3>1, <3>2 DEF TransitionToExecuting
    <3>4. status' \in [Execs -> Statuses \cup {"absent"}]
      BY <2>3 DEF TransitionToExecuting, Statuses
    <3>5. executedAt' \in [Execs -> Nat]
      BY <2>3 DEF TransitionToExecuting
    <3> QED
      BY <2>3, <3>3, <3>4, <3>5 DEF TransitionToExecuting, envVars, histVars
  <2>4. CASE ApproveLoad(r)
    BY <2>4 DEF ApproveLoad, Positions, Steps, dbVars, envVars, histVars
  <2>5. CASE ApproveFails(r)
    BY <2>5, IdlePosition DEF ApproveFails, dbVars, envVars, histVars
  <2> QED
    BY <2>1, <2>2, <2>3, <2>4, <2>5
<1>3. CASE Run
  <2> SUFFICES ASSUME NEW r \in Requests,
                      \/ RunGate(r) \/ RunLoadTarget(r) \/ RunStart(r)
                      \/ \E x \in {"ok", "bad"} : RunEnd(r, x)
               PROVE TypeOK'
    BY <1>3 DEF Run
  <2> r \in Procs /\ op[r] \in Positions
    BY DEF Procs
  <2>0. ASSUME NEW to \in {"succeeded", "failed"}, Record(r, to)
        PROVE  op' \in [Procs -> Positions]
    <3>1. [op[r] EXCEPT !.pc = "record", !.to = to] \in Positions
      BY PositionPcTo DEF Steps, Statuses
    <3> QED
      BY <2>0, <3>1 DEF Record
  <2>00. ASSUME NEW c \in Steps, op' = [op EXCEPT ![r].pc = c]
         PROVE  op' \in [Procs -> Positions]
    <3>1. [op[r] EXCEPT !.pc = c] \in Positions
      BY PositionPc
    <3> QED
      BY <2>00, <3>1
  <2>1. CASE RunGate(r)
    <3>1. op' \in [Procs -> Positions]
      BY <2>0, <2>00, <2>1 DEF RunGate, Steps
    <3> QED
      BY <2>1, <3>1 DEF RunGate, dbVars, envVars, histVars
  <2>2. CASE RunLoadTarget(r)
    <3>1. op' \in [Procs -> Positions]
      BY <2>0, <2>00, <2>2 DEF RunLoadTarget, Steps
    <3> QED
      BY <2>2, <3>1 DEF RunLoadTarget, dbVars, envVars, histVars
  <2>3. CASE RunStart(r)
    <3>1. op' \in [Procs -> Positions]
      BY <2>0, <2>00, <2>3 DEF RunStart, Steps
    <3>2. PlaceOf(op[r].id) \in Hosts \cup {NoHost, "local", "nowhere"} \/ op[r].id \notin Execs
      BY DEF PlaceOf, Rows
    <3>3. runs' \in [Execs -> Nat] /\ place' \in [Execs -> Hosts \cup {NoHost, "local", "nowhere"}]
      BY <2>3, <3>2 DEF RunStart
    <3> QED
      BY <2>3, <3>1, <3>3 DEF RunStart, dbVars, envVars
  <2>4. ASSUME NEW x \in {"ok", "bad"}, RunEnd(r, x) PROVE TypeOK'
    <3>1. op' \in [Procs -> Positions]
      BY <2>0, <2>4 DEF RunEnd, StatusOf
    <3> QED
      BY <2>4, <3>1 DEF RunEnd, dbVars, envVars
  <2> QED
    BY <2>1, <2>2, <2>3, <2>4
<1>4. CASE Transition
  <2> SUFFICES ASSUME NEW p \in Procs,
                      TransitionGet(p) \/ TransitionUpdate(p) \/ TransitionFails(p)
               PROVE TypeOK'
    BY <1>4 DEF Transition
  <2> op[p] \in Positions
    OBVIOUS
  <2>1. CASE TransitionGet(p)
    <3>1. op' \in [Procs -> Positions]
      BY <2>1, IdlePosition DEF TransitionGet, ValidateTransition, Positions, Steps
    <3> QED
      BY <2>1, <3>1 DEF TransitionGet, dbVars, envVars, histVars
  <2>2. CASE TransitionUpdate(p)
    <3>1. op' \in [Procs -> Positions]
      BY <2>2, IdlePosition DEF TransitionUpdate
    <3>2. op[p].to \in Statuses
      BY <2>2, AllowedAreStatuses DEF TransitionUpdate, PositionsInv
    <3> QED
      BY <2>2, <3>1, <3>2 DEF TransitionUpdate, envVars
  <2>3. CASE TransitionFails(p)
    BY <2>3, IdlePosition DEF TransitionFails, dbVars, histVars
  <2> QED
    BY <2>1, <2>2, <2>3
<1>5. CASE Reject
  <2> SUFFICES ASSUME NEW r \in Requests, NEW e \in Execs, RejectRemediation(r, e)
               PROVE TypeOK'
    BY <1>5 DEF Reject
  <2>1. op' \in [Procs -> Positions]
    BY DEF RejectRemediation, Procs, Positions, Steps, Idle, Statuses
  <2> QED
    BY <2>1 DEF RejectRemediation, dbVars, envVars, histVars
<1>6. CASE TickStep
  <2>0. ASSUME NEW e \in Execs, NEW to \in Statuses, VerifierMoves(e, to)
        PROVE  op' \in [Procs -> Positions]
    BY <2>0 DEF VerifierMoves, Procs, Positions, Steps, Idle
  <2>1. CASE TickBegin
    BY <2>1 DEF TickBegin, ListByStatus, dbVars, envVars, histVars
  <2>2. ASSUME NEW e \in Execs, TickExpire(e) PROVE TypeOK'
    <3>1. op' \in [Procs -> Positions]
      BY <2>0, <2>2 DEF TickExpire, Statuses
    <3> QED
      BY <2>2, <3>1 DEF TickExpire, dbVars, envVars, histVars
  <2>3. ASSUME NEW e \in Execs, TickVerify(e) PROVE TypeOK'
    <3>1. op' \in [Procs -> Positions]
      BY <2>0, <2>3 DEF TickVerify, Statuses
    <3> QED
      BY <2>3, <3>1 DEF TickVerify, dbVars, envVars, histVars
  <2>4. ASSUME NEW e \in Execs, TickLookupFails(e) PROVE TypeOK'
    BY <2>4 DEF TickLookupFails, dbVars, histVars
  <2>5. CASE TickListSucceeded
    BY <2>5 DEF TickListSucceeded, ListByStatus, dbVars, envVars, histVars
  <2>6. CASE TickEnd
    BY <2>6 DEF TickEnd, NoTick, dbVars, envVars, histVars
  <2>7. CASE TickAborts
    BY <2>7 DEF TickAborts, NoTick, dbVars, histVars
  <2> QED
    BY <1>6, <2>1, <2>2, <2>3, <2>4, <2>5, <2>6, <2>7 DEF TickStep
<1>7. CASE Admin
  <2>1. ASSUME NEW c \in [enabled : BOOLEAN, max : CapInputs, window : WindowInputs],
               UpdateRemediationConfig(c)
        PROVE  TypeOK'
    <3>1. WithDefaults(c) \in [enabled : BOOLEAN, max : Nat \ {0}, window : Nat]
      BY WithDefaultsType
    <3> QED
      BY <2>1, <3>1 DEF UpdateRemediationConfig, procVars, envVars
  <2>2. ASSUME NEW t \in Targets, DeleteRemediationTarget(t) PROVE TypeOK'
    BY <2>2 DEF DeleteRemediationTarget, procVars, envVars, histVars
  <2>3. ASSUME NEW t \in Targets, NEW h \in Hosts,
               CreateRemediationTarget(t, h) \/ UpdateRemediationTarget(t, h)
        PROVE  TypeOK'
    BY <2>3 DEF CreateRemediationTarget, UpdateRemediationTarget, procVars, envVars, histVars
  <2> QED
    BY <1>7, <2>1, <2>2, <2>3 DEF Admin
<1>8. CASE Environment
  <2>1. CASE ClockTick
    BY <2>1 DEF ClockTick, dbVars, procVars, histVars
  <2>2. ASSUME NEW f \in Fingerprints, AlertResolves(f) PROVE TypeOK'
    BY <2>2 DEF AlertResolves, QuietNow, dbVars, procVars
  <2>3. ASSUME NEW f \in Fingerprints, AlertFires(f) PROVE TypeOK'
    BY <2>3 DEF AlertFires, dbVars, procVars, histVars
  <2>4. ASSUME NEW f \in Fingerprints, AlertMuted(f) \/ AlertListed(f) PROVE TypeOK'
    <3>1. CASE AlertMuted(f)
      BY <3>1 DEF AlertMuted, QuietNow, dbVars, procVars
    <3>2. CASE AlertListed(f)
      BY <3>2 DEF AlertListed, dbVars, procVars, histVars
    <3> QED BY <2>4, <3>1, <3>2
  <2>5. CASE CrashRestart
    <3>1. NoSnap \in Rows
      BY DEF NoSnap, Rows
    <3>2. sel' \in [Selectors -> [pc : {"idle", "active", "llm", "create"}, row : Rows]]
      BY <2>5, <3>1 DEF CrashRestart, NoSelection
    <3> QED
      BY <2>5, <3>2, IdlePosition DEF CrashRestart, QuietNow, NoTick, dbVars
  <2> QED
    BY <1>8, <2>1, <2>2, <2>3, <2>4, <2>5 DEF Environment
<1>9. CASE UNCHANGED vars
  BY <1>9 DEF vars, dbVars, procVars, envVars, histVars
<1> QED
  BY <1>1, <1>2, <1>3, <1>4, <1>5, <1>6, <1>7, <1>8, <1>9 DEF Next
-----------------------------------------------------------------------------
CoreInv == PositionsInv /\ OwnershipInv /\ RunsInv /\ CapInv

LEMMA ExecutingIsFinite == IsFiniteSet(Executing) /\ Cardinality(Executing) \in Nat
<1>1. IsFiniteSet(Executing)
  BY RemediationAssumption, FS_Subset DEF Executing
<1> QED
  BY <1>1, FS_CardinalityType

(* A step that touches no status, position, run, result or cap.             *)
LEMMA QuietStep ==
  ASSUME CoreInv, UNCHANGED <<status, op, runs, exit, cfg, maxCap>>
  PROVE  CoreInv'
<1>1. \A r, e : Owns(r, e)' = Owns(r, e)
  BY DEF Owns
<1>2. PositionsInv'
  BY DEF CoreInv, PositionsInv
<1>3. OwnershipInv'
  BY <1>1 DEF CoreInv, OwnershipInv
<1>4. RunsInv'
  BY DEF CoreInv, RunsInv
<1>5. CapInv'
  BY DEF CoreInv, CapInv, Executing
<1> QED
  BY <1>2, <1>3, <1>4, <1>5 DEF CoreInv

(* What a request's new position x must satisfy when a step changes nothing *)
(* else: it names a row, writes what requests write, decides with a cap     *)
(* that was configured, and agrees with how often the row's script ran.     *)
RequestFits(x) ==
    /\ x.pc # "idle" => x.id \in Execs /\ status[x.id] # "absent"
    /\ x.pc \in {"record", "update"} => x.to \in {"rejected", "succeeded", "failed"}
    /\ x.pc = "update" => x.to \in AllowedTransitions(x.from)
    /\ x.cap <= maxCap
    /\ x.pc \in {"load", "gate", "target", "exec"} => runs[x.id] = 0
    /\ x.pc = "running" => runs[x.id] = 1
    /\ x.pc \in {"record", "update"} /\ x.to = "succeeded"
          => runs[x.id] = 1 /\ exit[x.id] = "ok"

(* A request moves and becomes responsible for no row it did not own.       *)
LEMMA RequestMoves ==
  ASSUME TypeOK, CoreInv, NEW r \in Requests, NEW x \in Positions,
         op' = [op EXCEPT ![r] = x],
         UNCHANGED <<status, runs, exit, cfg, maxCap>>,
         RequestFits(x),
         Responsible(x) => Owns(r, x.id)
  PROVE  CoreInv'
<1>1. op'[r] = x /\ \A q \in Procs \ {r} : op'[q] = op[q]
  BY DEF TypeOK, Procs
<1>2. r # Verifier /\ \A q \in Requests : q \in Procs
  BY RemediationAssumption DEF Procs
<1>3. PositionsInv'
  <2>1. \A q \in Requests :
          /\ op'[q].pc # "idle" => op'[q].id \in Execs /\ status[op'[q].id] # "absent"
          /\ op'[q].pc \in {"record", "update"} => op'[q].to \in {"rejected", "succeeded", "failed"}
    BY <1>1, <1>2 DEF CoreInv, PositionsInv, RequestFits
  <2>2. op'[Verifier] = op[Verifier]
    BY <1>1, <1>2 DEF Procs
  <2>3. \A p \in Procs : op'[p].pc = "update" => op'[p].to \in AllowedTransitions(op'[p].from)
    BY <1>1 DEF CoreInv, PositionsInv, RequestFits
  <2> QED
    BY <2>1, <2>2, <2>3 DEF CoreInv, PositionsInv
<1>4. \A q \in Requests, e \in Execs : Owns(q, e)' => Owns(q, e)
  BY <1>1, <1>2 DEF Owns
<1>5. OwnershipInv'
  BY <1>4 DEF CoreInv, OwnershipInv
<1>6. RunsInv'
  BY <1>1, <1>2 DEF CoreInv, RunsInv, RequestFits
<1>7. CapInv'
  BY <1>1, <1>2 DEF CoreInv, CapInv, RequestFits, Executing
<1> QED
  BY <1>3, <1>5, <1>6, <1>7 DEF CoreInv

(* The verifier moves: no request, row or cap is concerned.                 *)
LEMMA VerifierSteps ==
  ASSUME TypeOK, CoreInv, NEW x \in Positions,
         op' = [op EXCEPT ![Verifier] = x],
         UNCHANGED <<status, runs, exit, cfg, maxCap>>,
         x.pc \in {"idle", "record", "update"},
         x.pc # "idle" => /\ x.id \in Execs
                          /\ x.to \in {"expired", "verified", "unresolved"},
         x.pc = "update" => x.to \in AllowedTransitions(x.from)
  PROVE  CoreInv'
<1>1. op'[Verifier] = x /\ \A q \in Procs \ {Verifier} : op'[q] = op[q]
  BY DEF TypeOK, Procs
<1>2. \A q \in Requests : op'[q] = op[q]
  BY <1>1, RemediationAssumption DEF Procs
<1>3. PositionsInv'
  <2>1. \A p \in Procs : op'[p].pc = "update" => op'[p].to \in AllowedTransitions(op'[p].from)
    BY <1>1 DEF CoreInv, PositionsInv
  <2> QED
    BY <1>1, <1>2, <2>1 DEF CoreInv, PositionsInv
<1>4. \A q \in Requests, e \in Execs : Owns(q, e)' <=> Owns(q, e)
  BY <1>2 DEF Owns
<1>5. OwnershipInv'
  BY <1>4 DEF CoreInv, OwnershipInv
<1>6. RunsInv'
  BY <1>2 DEF CoreInv, RunsInv
<1>7. CapInv'
  BY <1>2 DEF CoreInv, CapInv, Executing
<1> QED
  BY <1>3, <1>5, <1>6, <1>7 DEF CoreInv
-----------------------------------------------------------------------------
(* The steps that change a status, a run count or a cap. *)

LEMMA SelectCreateStep ==
  ASSUME TypeOK, CoreInv, NEW s \in Selectors, NEW e \in Execs, SelectCreate(s, e)
  PROVE  CoreInv'
<1>1. /\ status[e] = "absent" /\ status' = [status EXCEPT ![e] = "proposed"]
      /\ UNCHANGED <<op, runs, exit, cfg, maxCap>>
  BY DEF SelectCreate, histVars
<1>2. status'[e] = "proposed" /\ \A d \in Execs \ {e} : status'[d] = status[d]
  BY <1>1 DEF TypeOK
<1>3. PositionsInv'
  BY <1>1, <1>2 DEF CoreInv, PositionsInv
<1>4. \A q \in Requests, d \in Execs : Owns(q, d)' <=> Owns(q, d)
  BY <1>1 DEF Owns
<1>5. OwnershipInv'
  BY <1>1, <1>2, <1>4 DEF CoreInv, OwnershipInv
<1>6. RunsInv'
  BY <1>1, <1>2 DEF CoreInv, RunsInv
<1>7. Executing' = Executing
  BY <1>1, <1>2 DEF Executing
<1>8. CapInv'
  BY <1>1, <1>7 DEF CoreInv, CapInv
<1> QED
  BY <1>3, <1>5, <1>6, <1>8 DEF CoreInv

(* The conditional UPDATE wins: the row was proposed, so nobody owned it,   *)
(* and the count it compared leaves room for one more.                      *)
LEMMA StartStep ==
  ASSUME TypeOK, CoreInv, NEW r \in Requests, op[r].pc = "transition",
         TransitionWins(op[r].id, op[r].cap),
         status' = [status EXCEPT ![op[r].id] = "executing"],
         op' = [op EXCEPT ![r].pc = "load"],
         UNCHANGED <<runs, exit, cfg, maxCap>>
  PROVE  CoreInv'
<1> DEFINE e == op[r].id
<1>1. e \in Execs /\ status[e] = "proposed"
  BY DEF CoreInv, PositionsInv, TransitionWins
<1>2. status'[e] = "executing" /\ \A d \in Execs \ {e} : status'[d] = status[d]
  BY <1>1 DEF TypeOK
<1>3. r \in Procs /\ r # Verifier /\ Requests \subseteq Procs
  BY RemediationAssumption DEF Procs
<1>4. op'[r] = [op[r] EXCEPT !.pc = "load"] /\ \A q \in Procs \ {r} : op'[q] = op[q]
  BY <1>3 DEF TypeOK
<1>5. op'[r].pc = "load" /\ op'[r].id = e /\ op'[r].cap = op[r].cap
  BY <1>3, <1>4 DEF TypeOK, Positions
<1> HIDE DEF e
<1>6. PositionsInv'
  <2>1. \A q \in Requests :
          /\ op'[q].pc # "idle" => op'[q].id \in Execs /\ status'[op'[q].id] # "absent"
          /\ op'[q].pc \in {"record", "update"} => op'[q].to \in {"rejected", "succeeded", "failed"}
    BY <1>1, <1>2, <1>3, <1>4, <1>5 DEF CoreInv, PositionsInv
  <2>2. op'[Verifier] = op[Verifier]
    BY <1>3, <1>4 DEF Procs
  <2>3. \A p \in Procs : op'[p].pc = "update" => op'[p].to \in AllowedTransitions(op'[p].from)
    BY <1>4, <1>5 DEF CoreInv, PositionsInv
  <2> QED
    BY <1>1, <1>2, <2>1, <2>2, <2>3 DEF CoreInv, PositionsInv
<1>7. \A q \in Requests \ {r}, d \in Execs : Owns(q, d)' <=> Owns(q, d)
  BY <1>3, <1>4 DEF Owns
<1>8. \A d \in Execs : Owns(r, d)' => d = e
  BY <1>5 DEF Owns
<1>9. \A q \in Requests : ~Owns(q, e)
  BY <1>1 DEF CoreInv, OwnershipInv
<1>10. OwnershipInv'
  BY <1>1, <1>2, <1>7, <1>8, <1>9 DEF CoreInv, OwnershipInv
<1>11. RunsInv'
  <2>1. runs[e] = 0
    BY <1>1 DEF CoreInv, RunsInv
  <2> QED
    BY <1>1, <1>2, <1>3, <1>4, <1>5, <2>1 DEF CoreInv, RunsInv
<1>12. CapInv'
  <2>1. Executing' = Executing \cup {e} /\ e \notin Executing
    BY <1>1, <1>2 DEF Executing
  <2>2. Cardinality(Executing') = Cardinality(Executing) + 1
    BY <2>1, ExecutingIsFinite, FS_AddElement
  <2>3. op[r].cap \in Nat /\ maxCap \in Nat /\ op[r].cap <= maxCap
    BY <1>3 DEF TypeOK, Positions, CoreInv, CapInv
  <2>4. Cardinality(Executing') <= maxCap
    BY <2>2, <2>3, ExecutingIsFinite DEF TransitionWins, CountActiveByOrg
  <2> QED
    BY <1>3, <1>4, <1>5, <2>3, <2>4 DEF CoreInv, CapInv
<1> QED
  BY <1>6, <1>10, <1>11, <1>12 DEF CoreInv

(* The owner starts its script: the first run of the row. *)
LEMMA RunStep ==
  ASSUME TypeOK, CoreInv, NEW r \in Requests, op[r].pc = "exec",
         op' = [op EXCEPT ![r].pc = "running"],
         runs' = [runs EXCEPT ![op[r].id] = @ + 1],
         UNCHANGED <<status, exit, cfg, maxCap>>
  PROVE  CoreInv'
<1> DEFINE e == op[r].id
<1>1. e \in Execs /\ Owns(r, e) /\ status[e] = "executing" /\ runs[e] = 0
  BY DEF CoreInv, PositionsInv, OwnershipInv, RunsInv, Owns, Responsible
<1>2. runs'[e] = 1 /\ \A d \in Execs \ {e} : runs'[d] = runs[d]
  BY <1>1 DEF TypeOK
<1>3. r \in Procs /\ r # Verifier /\ Requests \subseteq Procs
  BY RemediationAssumption DEF Procs
<1>4. op'[r] = [op[r] EXCEPT !.pc = "running"] /\ \A q \in Procs \ {r} : op'[q] = op[q]
  BY <1>3 DEF TypeOK
<1>5. op'[r].pc = "running" /\ op'[r].id = e /\ op'[r].cap = op[r].cap
  BY <1>3, <1>4 DEF TypeOK, Positions
<1> HIDE DEF e
<1>6. PositionsInv'
  <2>1. \A q \in Requests :
          /\ op'[q].pc # "idle" => op'[q].id \in Execs /\ status'[op'[q].id] # "absent"
          /\ op'[q].pc \in {"record", "update"} => op'[q].to \in {"rejected", "succeeded", "failed"}
    BY <1>1, <1>3, <1>4, <1>5 DEF CoreInv, PositionsInv
  <2>2. op'[Verifier] = op[Verifier]
    BY <1>3, <1>4 DEF Procs
  <2>3. \A p \in Procs : op'[p].pc = "update" => op'[p].to \in AllowedTransitions(op'[p].from)
    BY <1>4, <1>5 DEF CoreInv, PositionsInv
  <2> QED
    BY <2>1, <2>2, <2>3 DEF CoreInv, PositionsInv
<1>7. \A q \in Requests, d \in Execs : Owns(q, d)' => Owns(q, d)
  BY <1>1, <1>3, <1>4, <1>5 DEF Owns
<1>8. OwnershipInv'
  BY <1>7 DEF CoreInv, OwnershipInv
<1>9. RunsInv'
  <2>1. \A q \in Requests \ {r} : op[q].id = e => ~Responsible(op[q])
    BY <1>1 DEF CoreInv, OwnershipInv, Owns
  <2>2. \A d \in Execs :
          /\ runs'[d] \in {0, 1}
          /\ status'[d] \in {"absent", "proposed", "rejected", "expired"} => runs'[d] = 0
          /\ status'[d] \in {"succeeded", "verified", "unresolved"} => runs'[d] = 1 /\ exit'[d] = "ok"
    BY <1>1, <1>2 DEF CoreInv, RunsInv
  <2>3. ASSUME NEW q \in Requests
        PROVE  /\ op'[q].pc \in {"load", "gate", "target", "exec"} => runs'[op'[q].id] = 0
               /\ op'[q].pc = "running" => runs'[op'[q].id] = 1
               /\ op'[q].pc \in {"record", "update"} /\ op'[q].to = "succeeded"
                     => runs'[op'[q].id] = 1 /\ exit'[op'[q].id] = "ok"
    <3>1. CASE q = r
      BY <3>1, <1>2, <1>5
    <3>2. CASE q # r
      BY <3>2, <1>2, <1>3, <1>4, <2>1 DEF CoreInv, RunsInv, PositionsInv, Responsible
    <3> QED
      BY <3>1, <3>2
  <2> QED
    BY <2>2, <2>3 DEF RunsInv
<1>10. CapInv'
  BY <1>3, <1>4, <1>5 DEF CoreInv, CapInv, Executing
<1> QED
  BY <1>6, <1>8, <1>9, <1>10 DEF CoreInv

(* The script ends and its owner turns to recording the result. *)
LEMMA EndStep ==
  ASSUME TypeOK, CoreInv, NEW r \in Requests, NEW x \in {"ok", "bad"}, RunEnd(r, x)
  PROVE  CoreInv'
<1> DEFINE e == op[r].id
<1>1. /\ e \in Execs /\ Owns(r, e) /\ status[e] = "executing" /\ runs[e] = 1
  BY DEF RunEnd, CoreInv, PositionsInv, OwnershipInv, RunsInv, Owns, Responsible
<1>2. exit' = [exit EXCEPT ![e] = x] /\ UNCHANGED <<status, runs, cfg, maxCap>>
  BY DEF RunEnd, dbVars
<1>3. r \in Procs /\ r # Verifier /\ Requests \subseteq Procs
  BY RemediationAssumption DEF Procs
<1>4. /\ op'[r] = [op[r] EXCEPT !.pc = "record", !.to = StatusOf(x)]
      /\ \A q \in Procs \ {r} : op'[q] = op[q]
  BY <1>3 DEF RunEnd, Record, TypeOK
<1>5. /\ op'[r].pc = "record" /\ op'[r].id = e /\ op'[r].cap = op[r].cap
      /\ op'[r].to = StatusOf(x)
  BY <1>3, <1>4 DEF TypeOK, Positions
<1>6. exit'[e] = x /\ \A d \in Execs \ {e} : exit'[d] = exit[d]
  BY <1>1, <1>2 DEF TypeOK
<1>7. StatusOf(x) \in {"succeeded", "failed"} /\ (StatusOf(x) = "succeeded" => x = "ok")
  BY DEF StatusOf
<1> HIDE DEF e
<1>8. PositionsInv'
  <2>1. ASSUME NEW q \in Requests
        PROVE  /\ op'[q].pc # "idle" => op'[q].id \in Execs /\ status'[op'[q].id] # "absent"
               /\ op'[q].pc \in {"record", "update"}
                     => op'[q].to \in {"rejected", "succeeded", "failed"}
    <3>1. CASE q = r
      BY <3>1, <1>1, <1>2, <1>5, <1>7
    <3>2. CASE q # r
      BY <3>2, <1>2, <1>3, <1>4 DEF CoreInv, PositionsInv
    <3> QED
      BY <3>1, <3>2
  <2>2. op'[Verifier] = op[Verifier]
    BY <1>3, <1>4 DEF Procs
  <2>3. \A p \in Procs : op'[p].pc = "update" => op'[p].to \in AllowedTransitions(op'[p].from)
    BY <1>4, <1>5 DEF CoreInv, PositionsInv
  <2> QED
    BY <1>2, <2>1, <2>2, <2>3 DEF CoreInv, PositionsInv
<1>9. \A q \in Requests, d \in Execs : Owns(q, d)' => Owns(q, d)
  <2>1. ASSUME NEW q \in Requests, q # r PROVE op'[q] = op[q]
    BY <2>1, <1>3, <1>4
  <2>2. \A d \in Execs : Owns(r, d)' => d = e
    BY <1>5 DEF Owns
  <2> QED
    BY <1>1, <2>1, <2>2 DEF Owns
<1>10. OwnershipInv'
  BY <1>2, <1>9 DEF CoreInv, OwnershipInv
<1>11. RunsInv'
  <2>1. \A q \in Requests \ {r} : op[q].id = e => ~Responsible(op[q])
    BY <1>1 DEF CoreInv, OwnershipInv, Owns
  <2>2. \A d \in Execs :
          /\ runs'[d] \in {0, 1}
          /\ status'[d] \in {"absent", "proposed", "rejected", "expired"} => runs'[d] = 0
          /\ status'[d] \in {"succeeded", "verified", "unresolved"} => runs'[d] = 1 /\ exit'[d] = "ok"
    BY <1>1, <1>2, <1>6 DEF CoreInv, RunsInv
  <2>3. ASSUME NEW q \in Requests
        PROVE  /\ op'[q].pc \in {"load", "gate", "target", "exec"} => runs'[op'[q].id] = 0
               /\ op'[q].pc = "running" => runs'[op'[q].id] = 1
               /\ op'[q].pc \in {"record", "update"} /\ op'[q].to = "succeeded"
                     => runs'[op'[q].id] = 1 /\ exit'[op'[q].id] = "ok"
    <3>1. CASE q = r
      BY <3>1, <1>1, <1>2, <1>5, <1>6, <1>7
    <3>2. CASE q # r
      BY <3>2, <1>2, <1>3, <1>4, <1>6, <2>1 DEF CoreInv, RunsInv, PositionsInv, Responsible
    <3> QED
      BY <3>1, <3>2
  <2> QED
    BY <2>2, <2>3 DEF RunsInv
<1>12. CapInv'
  BY <1>2, <1>3, <1>4, <1>5 DEF CoreInv, CapInv, Executing
<1> QED
  BY <1>8, <1>10, <1>11, <1>12 DEF CoreInv

(* A Transition gives up or loses: its process is idle again. *)
LEMMA GoesIdle ==
  ASSUME TypeOK, CoreInv, NEW p \in Procs, op' = [op EXCEPT ![p] = Idle],
         UNCHANGED <<status, runs, exit, cfg, maxCap>>
  PROVE  CoreInv'
<1>1. CASE p \in Requests
  <2>1. RequestFits(Idle) /\ ~Responsible(Idle)
    BY DEF RequestFits, Responsible, Idle, TypeOK
  <2> QED
    BY <1>1, <2>1, RequestMoves, IdlePosition
<1>2. CASE p = Verifier
  BY <1>2, VerifierSteps, IdlePosition DEF Idle
<1> QED
  BY <1>1, <1>2 DEF Procs

(* The compare-and-set wins: the row still has the status it was validated  *)
(* from, so the request that owned it, if any, is the one that wrote.       *)
LEMMA RecordStep ==
  ASSUME TypeOK, CoreInv, NEW p \in Procs, op[p].pc = "update",
         status[op[p].id] = op[p].from,
         status' = [status EXCEPT ![op[p].id] = op[p].to],
         op' = [op EXCEPT ![p] = Idle],
         UNCHANGED <<runs, exit, cfg, maxCap>>
  PROVE  CoreInv'
<1> DEFINE e == op[p].id
           to == op[p].to
<1>1. e \in Execs /\ to \in AllowedTransitions(status[e])
  BY DEF CoreInv, PositionsInv, Procs
<1>2. \/ p \in Requests /\ to \in {"rejected", "succeeded", "failed"}
      \/ p = Verifier /\ to \in {"expired", "verified", "unresolved"}
  BY DEF CoreInv, PositionsInv, Procs
<1>3. /\ to \in {"rejected", "expired"} => status[e] = "proposed"
      /\ to \in {"succeeded", "failed"} => status[e] = "executing"
      /\ to \in {"verified", "unresolved"} => status[e] = "succeeded"
  BY <1>1 DEF AllowedTransitions
<1>4. status'[e] = to /\ \A d \in Execs \ {e} : status'[d] = status[d]
  BY <1>1 DEF TypeOK
<1>5. op'[p] = Idle /\ \A q \in Procs \ {p} : op'[q] = op[q]
  BY DEF TypeOK
<1>6. Requests \subseteq Procs /\ Verifier \in Procs /\ Verifier \notin Requests
  BY RemediationAssumption DEF Procs
<1>7. \A q \in Requests : q # p => ~Owns(q, e)
  <2>1. CASE status[e] # "executing"
    BY <1>1, <2>1 DEF CoreInv, OwnershipInv
  <2>2. CASE status[e] = "executing"
    <3>1. p \in Requests /\ Owns(p, e)
      BY <1>2, <1>3, <2>2 DEF Owns, Responsible
    <3> QED
      BY <1>1, <3>1 DEF CoreInv, OwnershipInv
  <2> QED
    BY <2>1, <2>2
<1>8. /\ to \in {"rejected", "expired"} => runs[e] = 0
      /\ to \in {"succeeded", "verified", "unresolved"} => runs[e] = 1 /\ exit[e] = "ok"
  BY <1>1, <1>2, <1>3 DEF CoreInv, RunsInv
<1> HIDE DEF e, to
<1>9. PositionsInv'
  <2>1. \A d \in Execs : status[d] # "absent" => status'[d] # "absent"
    BY <1>2, <1>4
  <2>2. \A q \in Procs : op'[q] = Idle \/ op'[q] = op[q]
    BY <1>5
  <2> QED
    BY <1>6, <2>1, <2>2 DEF CoreInv, PositionsInv, Idle
<1>10. \A q \in Requests, d \in Execs : Owns(q, d)' => Owns(q, d) /\ d # e
  <2>1. ASSUME NEW q \in Requests, NEW d \in Execs, Owns(q, d)' PROVE q # p
    BY <2>1, <1>5 DEF Owns, Responsible, Idle
  <2>2. ASSUME NEW q \in Requests, q # p PROVE op'[q] = op[q]
    BY <2>2, <1>5, <1>6
  <2> QED
    BY <1>7, <2>1, <2>2 DEF Owns
<1>11. OwnershipInv'
  BY <1>4, <1>10 DEF CoreInv, OwnershipInv
<1>12. RunsInv'
  <2>1. \A d \in Execs :
          /\ runs'[d] \in {0, 1}
          /\ status'[d] \in {"absent", "proposed", "rejected", "expired"} => runs'[d] = 0
          /\ status'[d] \in {"succeeded", "verified", "unresolved"} => runs'[d] = 1 /\ exit'[d] = "ok"
    BY <1>1, <1>2, <1>4, <1>8 DEF CoreInv, RunsInv
  <2>2. \A q \in Requests : op'[q] = Idle \/ op'[q] = op[q]
    BY <1>5, <1>6
  <2> QED
    BY <2>1, <2>2 DEF CoreInv, RunsInv, Idle
<1>13. CapInv'
  <2>1. Executing' \subseteq Executing
    BY <1>2, <1>4 DEF Executing
  <2>2. Cardinality(Executing') \in Nat /\ Cardinality(Executing') <= Cardinality(Executing)
    BY <2>1, ExecutingIsFinite, FS_Subset, FS_CardinalityType
  <2>3. \A q \in Requests : op'[q] = Idle \/ op'[q] = op[q]
    BY <1>5, <1>6
  <2>4. Idle.cap <= maxCap
    BY DEF Idle, TypeOK
  <2>5. Cardinality(Executing') <= maxCap
    BY <2>2, ExecutingIsFinite DEF TypeOK, CoreInv, CapInv
  <2> QED
    BY <2>3, <2>4, <2>5 DEF CoreInv, CapInv
<1> QED
  BY <1>9, <1>11, <1>12, <1>13 DEF CoreInv

(* The cap changes: a lowered cap stops no request that read the old one,   *)
(* which is why the bound is the largest cap so far.                        *)
LEMMA ConfigStep ==
  ASSUME TypeOK, CoreInv,
         NEW c \in [enabled : BOOLEAN, max : CapInputs, window : WindowInputs],
         UpdateRemediationConfig(c)
  PROVE  CoreInv'
<1>1. /\ UNCHANGED <<status, op, runs, exit>>
      /\ cfg' = WithDefaults(c)
      /\ maxCap' = IF cfg'.max > maxCap THEN cfg'.max ELSE maxCap
  BY DEF UpdateRemediationConfig, procVars
<1>2. cfg'.max \in Nat
  BY <1>1, WithDefaultsType
<1>3. maxCap' \in Nat /\ maxCap <= maxCap' /\ cfg'.max <= maxCap'
  BY <1>1, <1>2 DEF TypeOK
<1>4. PositionsInv'
  BY <1>1 DEF CoreInv, PositionsInv
<1>5. \A r, e : Owns(r, e)' = Owns(r, e)
  BY <1>1 DEF Owns
<1>6. OwnershipInv'
  BY <1>1, <1>5 DEF CoreInv, OwnershipInv
<1>7. RunsInv'
  BY <1>1 DEF CoreInv, RunsInv
<1>8. CapInv'
  <2>1. \A r \in Requests : op[r].cap \in Nat
    BY DEF TypeOK, Positions, Procs
  <2>2. Executing' = Executing
    BY <1>1 DEF Executing
  <2> QED
    BY <1>1, <1>3, <2>1, <2>2, ExecutingIsFinite DEF TypeOK, CoreInv, CapInv
<1> QED
  BY <1>4, <1>6, <1>7, <1>8 DEF CoreInv

(* A crash leaves the rows alone and nobody responsible for them. *)
LEMMA CrashStep ==
  ASSUME TypeOK, CoreInv, CrashRestart
  PROVE  CoreInv'
<1>1. UNCHANGED <<status, runs, exit, cfg, maxCap>> /\ op' = [p \in Procs |-> Idle]
  BY DEF CrashRestart, dbVars, histVars
<1>2. Verifier \in Procs /\ \A r \in Requests : r \in Procs
  BY DEF Procs
<1>3. PositionsInv'
  BY <1>1, <1>2 DEF PositionsInv, Idle
<1>4. OwnershipInv'
  BY <1>1, <1>2 DEF OwnershipInv, Owns, Responsible, Idle
<1>5. RunsInv'
  BY <1>1, <1>2 DEF CoreInv, RunsInv, Idle
<1>6. CapInv'
  BY <1>1, <1>2 DEF CoreInv, CapInv, Idle, Executing, TypeOK
<1> QED
  BY <1>3, <1>4, <1>5, <1>6 DEF CoreInv
-----------------------------------------------------------------------------
(* Every step of every actor preserves the core of the invariant. *)
LEMMA CoreStep == TypeOK /\ CoreInv /\ [Next]_vars => CoreInv'
<1> SUFFICES ASSUME TypeOK, CoreInv, [Next]_vars PROVE CoreInv'
  OBVIOUS
<1>0. \A p \in Procs : op[p] \in Positions
  BY DEF TypeOK
<1>1. CASE Select
  <2>1. ASSUME NEW s \in Selectors, NEW f \in Fingerprints, SelectConfig(s, f) PROVE CoreInv'
    BY <2>1, QuietStep DEF SelectConfig, dbVars, histVars
  <2>2. ASSUME NEW s \in Selectors, SelectActive(s) \/ SelectNothing(s) PROVE CoreInv'
    BY <2>2, QuietStep DEF SelectActive, SelectNothing, dbVars, histVars
  <2>3. ASSUME NEW s \in Selectors, NEW source \in Sources, NEW frozen \in FrozenTargets,
               SelectFreeze(s, source, frozen)
        PROVE  CoreInv'
    BY <2>3, QuietStep DEF SelectFreeze, dbVars, histVars
  <2> QED
    BY <1>1, <2>1, <2>2, <2>3, SelectCreateStep DEF Select
<1>2. CASE Approve
  <2> SUFFICES ASSUME NEW r \in Requests,
                      \/ \E e \in Execs : ApproveConfig(r, e)
                      \/ ApproveCount(r) \/ TransitionToExecuting(r)
                      \/ ApproveLoad(r) \/ ApproveFails(r)
               PROVE CoreInv'
    BY <1>2 DEF Approve
  <2>0. r \in Procs /\ op[r] \in Positions
    BY <1>0 DEF Procs
  <2>1. ASSUME NEW e \in Execs, ApproveConfig(r, e) PROVE CoreInv'
    <3> DEFINE x == [Idle EXCEPT !.pc = "count", !.id = e, !.cap = cfg.max]
    <3>1. x \in Positions
      BY DEF Idle, Positions, Steps, TypeOK
    <3>2. RequestFits(x) /\ ~Responsible(x)
      BY <2>1 DEF ApproveConfig, RequestFits, Responsible, Idle, CoreInv, CapInv
    <3>3. op' = [op EXCEPT ![r] = x] /\ UNCHANGED <<status, runs, exit, cfg, maxCap>>
      BY <2>1 DEF ApproveConfig, dbVars, histVars
    <3> QED
      BY <3>1, <3>2, <3>3, RequestMoves
  <2>2. CASE ApproveCount(r)
    <3>1. CASE op' = [op EXCEPT ![r] = Idle]
      BY <2>0, <2>2, <3>1, GoesIdle DEF ApproveCount, dbVars, histVars
    <3>2. CASE op' = [op EXCEPT ![r] = [op[r] EXCEPT !.pc = "transition"]]
      <4> DEFINE x == [op[r] EXCEPT !.pc = "transition"]
      <4>1. x \in Positions
        BY <2>0, PositionPc DEF Steps
      <4>2. x.pc = "transition" /\ x.id = op[r].id /\ x.cap = op[r].cap
        BY <2>0 DEF Positions
      <4>3. RequestFits(x) /\ ~Responsible(x)
        BY <2>2, <4>2 DEF ApproveCount, RequestFits, Responsible, CoreInv, PositionsInv, CapInv
      <4>4. UNCHANGED <<status, runs, exit, cfg, maxCap>>
        BY <2>2 DEF ApproveCount, dbVars, histVars
      <4> QED
        BY <3>2, <4>1, <4>3, <4>4, RequestMoves
    <3> QED
      BY <2>2, <3>1, <3>2 DEF ApproveCount
  <2>3. CASE TransitionToExecuting(r)
    <3>1. CASE TransitionWins(op[r].id, op[r].cap)
      BY <2>3, <3>1, StartStep DEF TransitionToExecuting, histVars
    <3>2. CASE ~TransitionWins(op[r].id, op[r].cap)
      BY <2>0, <2>3, <3>2, GoesIdle DEF TransitionToExecuting, histVars
    <3> QED
      BY <3>1, <3>2
  <2>4. CASE ApproveLoad(r)
    <3> DEFINE x == [op[r] EXCEPT !.pc = "gate"]
    <3>1. x \in Positions /\ x.pc = "gate" /\ x.id = op[r].id /\ x.cap = op[r].cap
      BY <2>0 DEF Positions, Steps
    <3>2. RequestFits(x)
      BY <2>4, <3>1 DEF ApproveLoad, RequestFits, CoreInv, PositionsInv, CapInv, RunsInv
    <3>3. Owns(r, x.id)
      BY <2>4, <3>1 DEF ApproveLoad, Owns, Responsible
    <3>4. op' = [op EXCEPT ![r] = x] /\ UNCHANGED <<status, runs, exit, cfg, maxCap>>
      BY <2>4 DEF ApproveLoad, dbVars, histVars
    <3> QED
      BY <3>1, <3>2, <3>3, <3>4, RequestMoves
  <2>5. CASE ApproveFails(r)
    BY <2>0, <2>5, GoesIdle DEF ApproveFails, dbVars, histVars
  <2> QED
    BY <2>1, <2>2, <2>3, <2>4, <2>5
<1>3. CASE Run
  <2> SUFFICES ASSUME NEW r \in Requests,
                      \/ RunGate(r) \/ RunLoadTarget(r) \/ RunStart(r)
                      \/ \E x \in {"ok", "bad"} : RunEnd(r, x)
               PROVE CoreInv'
    BY <1>3 DEF Run
  <2>0. r \in Procs /\ op[r] \in Positions
    BY <1>0 DEF Procs
  <2>1. ASSUME op[r].pc \in {"gate", "target", "exec"}, Record(r, "failed"),
               UNCHANGED <<status, runs, exit, cfg, maxCap>>
        PROVE  CoreInv'
    <3> DEFINE x == [op[r] EXCEPT !.pc = "record", !.to = "failed"]
    <3>1. x \in Positions
      BY <2>0, PositionPcTo DEF Steps, Statuses
    <3>2. x.pc = "record" /\ x.to = "failed" /\ x.id = op[r].id /\ x.cap = op[r].cap
      BY <2>0 DEF Positions
    <3>3. RequestFits(x)
      BY <2>1, <3>2 DEF RequestFits, CoreInv, PositionsInv, CapInv
    <3>4. Owns(r, x.id)
      BY <2>1, <3>2 DEF Owns, Responsible
    <3>5. op' = [op EXCEPT ![r] = x]
      BY <2>1 DEF Record
    <3> QED
      BY <2>1, <3>1, <3>3, <3>4, <3>5, RequestMoves
  <2>2. ASSUME op[r].pc \in {"gate", "target"}, NEW c \in {"target", "exec"},
               op' = [op EXCEPT ![r].pc = c], UNCHANGED <<status, runs, exit, cfg, maxCap>>
        PROVE  CoreInv'
    <3> DEFINE x == [op[r] EXCEPT !.pc = c]
    <3>1. x \in Positions /\ x.pc = c /\ x.id = op[r].id /\ x.cap = op[r].cap
      BY <2>0 DEF Positions, Steps
    <3>2. RequestFits(x)
      BY <2>2, <3>1 DEF RequestFits, CoreInv, PositionsInv, CapInv, RunsInv
    <3>3. Owns(r, x.id)
      BY <2>2, <3>1 DEF Owns, Responsible
    <3> QED
      BY <2>2, <3>1, <3>2, <3>3, RequestMoves
  <2>3. CASE RunGate(r)
    BY <2>1, <2>2, <2>3 DEF RunGate, dbVars, histVars
  <2>4. CASE RunLoadTarget(r)
    BY <2>1, <2>2, <2>4 DEF RunLoadTarget, dbVars, histVars
  <2>5. CASE RunStart(r)
    <3>1. CASE NeedsSandbox(op[r].id) /\ ~sandbox
      BY <2>1, <2>5, <3>1 DEF RunStart, dbVars
    <3>2. CASE ~(NeedsSandbox(op[r].id) /\ ~sandbox)
      BY <2>5, <3>2, RunStep DEF RunStart, dbVars
    <3> QED
      BY <3>1, <3>2
  <2> QED
    BY <2>3, <2>4, <2>5, EndStep
<1>4. CASE Transition
  <2> SUFFICES ASSUME NEW p \in Procs,
                      TransitionGet(p) \/ TransitionUpdate(p) \/ TransitionFails(p)
               PROVE CoreInv'
    BY <1>4 DEF Transition
  <2>1. CASE TransitionGet(p)
    <3>0. UNCHANGED <<status, runs, exit, cfg, maxCap>>
      BY <2>1 DEF TransitionGet, dbVars, histVars
    <3>1. CASE ~ValidateTransition(status[op[p].id], op[p].to)
      BY <2>1, <3>0, <3>1, GoesIdle DEF TransitionGet
    <3>2. CASE ValidateTransition(status[op[p].id], op[p].to)
      <4> DEFINE x == [op[p] EXCEPT !.pc = "update", !.from = status[op[p].id]]
      <4>1. /\ x \in Positions /\ x.pc = "update" /\ x.from = status[op[p].id]
            /\ x.id = op[p].id /\ x.to = op[p].to /\ x.cap = op[p].cap
        BY <1>0, <3>2 DEF Positions, Steps, ValidateTransition
      <4>2. x.to \in AllowedTransitions(x.from)
        BY <3>2, <4>1 DEF ValidateTransition
      <4>3. op' = [op EXCEPT ![p] = x] /\ op[p].pc = "record"
        BY <2>1, <3>2 DEF TransitionGet
      <4> HIDE DEF x
      <4>4. CASE p \in Requests
        <5>1. RequestFits(x)
          BY <4>1, <4>2, <4>3, <4>4 DEF RequestFits, CoreInv, PositionsInv, CapInv, RunsInv
        <5>2. Responsible(x) => Owns(p, x.id)
          BY <4>1, <4>3 DEF Owns, Responsible
        <5> QED
          BY <3>0, <4>1, <4>3, <4>4, <5>1, <5>2, RequestMoves
      <4>5. CASE p = Verifier
        BY <3>0, <4>1, <4>2, <4>3, <4>5, VerifierSteps DEF CoreInv, PositionsInv
      <4> QED
        BY <4>4, <4>5 DEF Procs
    <3> QED
      BY <3>1, <3>2
  <2>2. CASE TransitionUpdate(p)
    <3>1. CASE RowUnchanged(op[p].id, op[p].from)
      BY <2>2, <3>1, RecordStep DEF TransitionUpdate, RowUnchanged
    <3>2. CASE ~RowUnchanged(op[p].id, op[p].from)
      BY <2>2, <3>2, GoesIdle DEF TransitionUpdate
    <3> QED
      BY <3>1, <3>2
  <2>3. CASE TransitionFails(p)
    BY <2>3, GoesIdle DEF TransitionFails, dbVars, histVars
  <2> QED
    BY <2>1, <2>2, <2>3
<1>5. CASE Reject
  <2> SUFFICES ASSUME NEW r \in Requests, NEW e \in Execs, RejectRemediation(r, e)
               PROVE CoreInv'
    BY <1>5 DEF Reject
  <2> DEFINE x == [Idle EXCEPT !.pc = "record", !.id = e, !.to = "rejected"]
  <2>1. x \in Positions
    BY DEF Idle, Positions, Steps, Statuses
  <2>2. RequestFits(x) /\ ~Responsible(x)
    BY DEF RejectRemediation, RequestFits, Responsible, Idle, TypeOK
  <2>3. op' = [op EXCEPT ![r] = x] /\ UNCHANGED <<status, runs, exit, cfg, maxCap>>
    BY DEF RejectRemediation, dbVars, histVars
  <2> QED
    BY <2>1, <2>2, <2>3, RequestMoves
<1>6. CASE TickStep
  <2>1. ASSUME NEW e \in Execs, NEW to \in {"expired", "verified", "unresolved"},
               VerifierMoves(e, to), UNCHANGED <<status, runs, exit, cfg, maxCap>>
        PROVE  CoreInv'
    <3> DEFINE x == [Idle EXCEPT !.pc = "record", !.id = e, !.to = to]
    <3>1. x \in Positions /\ x.pc = "record" /\ x.id = e /\ x.to = to
      BY DEF Idle, Positions, Steps, Statuses
    <3> QED
      BY <2>1, <3>1, VerifierSteps DEF VerifierMoves
  <2>2. CASE TickBegin
    BY <2>2, QuietStep DEF TickBegin, dbVars, histVars
  <2>3. ASSUME NEW e \in Execs, TickExpire(e) PROVE CoreInv'
    BY <2>1, <2>3, QuietStep DEF TickExpire, dbVars, histVars
  <2>4. ASSUME NEW e \in Execs, TickVerify(e) PROVE CoreInv'
    BY <2>1, <2>4, QuietStep DEF TickVerify, dbVars, histVars
  <2>5. ASSUME NEW e \in Execs, TickLookupFails(e) PROVE CoreInv'
    BY <2>5, QuietStep DEF TickLookupFails, dbVars, histVars
  <2>6. CASE TickListSucceeded \/ TickEnd \/ TickAborts
    BY <2>6, QuietStep DEF TickListSucceeded, TickEnd, TickAborts, dbVars, histVars
  <2> QED
    BY <1>6, <2>2, <2>3, <2>4, <2>5, <2>6 DEF TickStep
<1>7. CASE Admin
  <2>1. ASSUME NEW t \in Targets, DeleteRemediationTarget(t) PROVE CoreInv'
    BY <2>1, QuietStep DEF DeleteRemediationTarget, procVars, histVars
  <2>2. ASSUME NEW t \in Targets, NEW h \in Hosts,
               CreateRemediationTarget(t, h) \/ UpdateRemediationTarget(t, h)
        PROVE  CoreInv'
    BY <2>2, QuietStep DEF CreateRemediationTarget, UpdateRemediationTarget, procVars, histVars
  <2> QED
    BY <1>7, <2>1, <2>2, ConfigStep DEF Admin
<1>8. CASE Environment
  <2>1. CASE ClockTick
    BY <2>1, QuietStep DEF ClockTick, dbVars, procVars, histVars
  <2>2. ASSUME NEW f \in Fingerprints, AlertResolves(f) PROVE CoreInv'
    BY <2>2, QuietStep DEF AlertResolves, dbVars, procVars
  <2>3. ASSUME NEW f \in Fingerprints, AlertFires(f) \/ AlertMuted(f) \/ AlertListed(f)
        PROVE  CoreInv'
    BY <2>3, QuietStep DEF AlertFires, AlertMuted, AlertListed, dbVars, procVars, histVars
  <2> QED
    BY <1>8, <2>1, <2>2, <2>3, CrashStep DEF Environment
<1>9. CASE UNCHANGED vars
  BY <1>9, QuietStep DEF vars, dbVars, procVars, histVars
<1> QED
  BY <1>1, <1>2, <1>3, <1>4, <1>5, <1>6, <1>7, <1>8, <1>9 DEF Next
-----------------------------------------------------------------------------
LEMMA InitInv == Init => IndInv
<1> SUFFICES ASSUME Init PROVE IndInv
  OBVIOUS
<1> USE RemediationAssumption DEF Init
<1>1. TypeOK
  <2>1. PICK fp \in [Legacy -> Fingerprints], source \in Sources,
             script \in {"clean", "denied"} :
          snap = [e \in Execs |-> IF e \in Legacy THEN LegacySnap(fp[e], source, script) ELSE NoSnap]
    OBVIOUS
  <2>2. NoSnap \in Rows /\ \A e \in Legacy : LegacySnap(fp[e], source, script) \in Rows
    BY DEF LegacySnap, NoSnap, Rows
  <2>3. snap \in [Execs -> Rows]
    BY <2>1, <2>2
  <2>4. op \in [Procs -> Positions]
    BY IdlePosition
  <2>5. sel \in [Selectors -> [pc : {"idle", "active", "llm", "create"}, row : Rows]]
    BY <2>2 DEF NoSelection
  <2>6. status \in [Execs -> Statuses \cup {"absent"}]
    BY DEF Statuses
  <2>7. secure \in BOOLEAN /\ sandbox \in BOOLEAN
    OBVIOUS
  <2>8. /\ cfg \in [enabled : BOOLEAN, max : Nat \ {0}, window : Nat]
        /\ ver \in [phase : {"idle", "expire", "verify"}, now : Nat, todo : SUBSET Execs]
    BY DEF DefaultMaxConcurrent, NoTick
  <2>9. inventory \in [Targets -> Hosts \cup {NoHost, Deleted}]
    OBVIOUS
  <2> QED
    BY <2>3, <2>4, <2>5, <2>6, <2>7, <2>8, <2>9 DEF TypeOK, DefaultMaxConcurrent
<1>2. \A p \in Procs : op[p] = Idle
  OBVIOUS
<1>3. Requests \subseteq Procs /\ Verifier \in Procs
  BY DEF Procs
<1>4. PositionsInv
  BY <1>2, <1>3 DEF PositionsInv, Idle
<1>5. OwnershipInv
  BY <1>2, <1>3 DEF OwnershipInv, Owns, Responsible, Idle
<1>6. RunsInv
  BY <1>2, <1>3 DEF RunsInv, Idle
<1>7. CapInv
  <2>1. Executing = {}
    BY DEF Executing
  <2>2. Cardinality(Executing) = 0
    BY <2>1, FS_EmptySet
  <2> QED
    BY <1>2, <1>3, <2>2 DEF CapInv, Idle, DefaultMaxConcurrent
<1> QED
  BY <1>1, <1>4, <1>5, <1>6, <1>7 DEF IndInv

(* The inductive invariant holds of every behaviour: positions, ownership,  *)
(* run counts and caps agree with the statuses in the database, through     *)
(* every interleaving, failed store call, crash and restart.                *)
THEOREM Invariance == Spec => []IndInv
<1>1. IndInv /\ [Next]_vars => IndInv'
  <2> SUFFICES ASSUME IndInv, [Next]_vars PROVE IndInv'
    OBVIOUS
  <2>1. TypeOK /\ CoreInv
    BY DEF IndInv, CoreInv
  <2>2. TypeOK'
    BY <2>1, TypeStep DEF CoreInv
  <2>3. CoreInv'
    BY <2>1, CoreStep
  <2> QED
    BY <2>2, <2>3 DEF IndInv, CoreInv
<1> QED
  BY <1>1, InitInv, PTL DEF Spec

(* Columns, handler locals and history keep their types. *)
THEOREM TypeCorrect == Spec => []TypeOK
<1>1. IndInv => TypeOK
  BY DEF IndInv
<1> QED
  BY <1>1, Invariance, PTL

(* No script is started twice (TransitionToExecuting). *)
THEOREM NoDoubleExecution == Spec => []AtMostOneRun
<1>1. IndInv => AtMostOneRun
  BY DEF IndInv, RunsInv, AtMostOneRun
<1> QED
  BY <1>1, Invariance, PTL

(* Rejected and expired rows never ran (Transition's compare-and-set). *)
THEOREM ClosedNeverRun == Spec => []ClosedRowsNeverRun
<1>1. IndInv => ClosedRowsNeverRun
  BY DEF IndInv, RunsInv, ClosedRowsNeverRun
<1> QED
  BY <1>1, Invariance, PTL

(* The executing rows stay within the largest cap configured. *)
THEOREM CapHolds == Spec => []CapRespected
<1>1. IndInv => CapRespected
  BY DEF IndInv, CapInv, CapRespected
<1> QED
  BY <1>1, Invariance, PTL

(* Running scripts and executing rows correspond one to one. *)
THEOREM ScriptsHaveRows == Spec => []RunningScriptsHaveRows
<1>1. IndInv => RunningScriptsHaveRows
  <2> SUFFICES ASSUME IndInv, NEW r \in Requests, op[r].pc = "running"
               PROVE  /\ status[op[r].id] = "executing"
                      /\ \A q \in Requests \ {r} : op[q].pc = "running" => op[q].id # op[r].id
    BY DEF RunningScriptsHaveRows
  <2>1. op[r].id \in Execs /\ Owns(r, op[r].id)
    BY DEF IndInv, PositionsInv, Owns, Responsible
  <2>2. \A q \in Requests : op[q].pc = "running" /\ op[q].id = op[r].id => Owns(q, op[r].id)
    BY DEF Owns, Responsible
  <2> QED
    BY <2>1, <2>2 DEF IndInv, OwnershipInv
<1> QED
  BY <1>1, Invariance, PTL

(* A success, and the verdicts built on it, is one run that exited 0. *)
THEOREM SuccessesAreReal == Spec => []SuccessIsReal
<1>1. IndInv => SuccessIsReal
  BY DEF IndInv, RunsInv, SuccessIsReal
<1> QED
  BY <1>1, Invariance, PTL
-----------------------------------------------------------------------------
(* Refinement: the database's statuses, the scripts started and the largest *)
(* cap behave as RemediationLifecycle promises.                             *)

LEMMA InitRefines == Init => Lifecycle!Init
  BY DEF Init, Lifecycle!Init, DefaultMaxConcurrent

LEMMA StepRefines == IndInv /\ [Next]_vars => [Lifecycle!Next]_(Lifecycle!lvars)
<1> SUFFICES ASSUME IndInv, [Next]_vars,
                    UNCHANGED <<status, runs, maxCap>> => FALSE
             PROVE  Lifecycle!Next
  BY DEF Lifecycle!lvars
<1>1. CASE Select
  <2>1. PICK s \in Selectors, e \in Execs : SelectCreate(s, e)
    BY <1>1 DEF Select, SelectConfig, SelectActive, SelectNothing, SelectFreeze, dbVars, histVars
  <2>2. Lifecycle!Propose(e)
    BY <2>1 DEF SelectCreate, histVars, Lifecycle!Propose, Lifecycle!Move
  <2> QED
    BY <2>2 DEF Lifecycle!Next
<1>2. CASE Approve
  <2>1. PICK r \in Requests : TransitionToExecuting(r) /\ TransitionWins(op[r].id, op[r].cap)
    BY <1>2 DEF Approve, ApproveConfig, ApproveCount, TransitionToExecuting, ApproveLoad,
                ApproveFails, dbVars, histVars
  <2>2. op[r].id \in Execs
    BY <2>1 DEF TransitionToExecuting, IndInv, PositionsInv
  <2>3. op[r].cap \in Nat /\ maxCap \in Nat /\ op[r].cap <= maxCap
    BY DEF IndInv, TypeOK, Positions, Procs, CapInv
  <2>4. Cardinality({x \in Execs : status[x] = "executing"}) < maxCap
    BY <2>1, <2>3, ExecutingIsFinite DEF TransitionWins, CountActiveByOrg, Executing
  <2>5. /\ status[op[r].id] = "proposed"
        /\ status' = [status EXCEPT ![op[r].id] = "executing"]
        /\ UNCHANGED <<runs, maxCap>>
    BY <2>1 DEF TransitionToExecuting, TransitionWins, histVars
  <2>6. Lifecycle!Start(op[r].id)  \* both Cardinality operators expand to one definition
    BY <2>4, <2>5 DEF Lifecycle!Start, Lifecycle!Move, Cardinality, Lifecycle!Cardinality
  <2> QED
    BY <2>2, <2>6 DEF Lifecycle!Next
<1>3. CASE Run
  <2>1. PICK r \in Requests : RunStart(r) /\ runs' # runs
    BY <1>3 DEF Run, RunGate, RunLoadTarget, RunStart, RunEnd, dbVars, histVars
  <2>2. op[r].id \in Execs /\ status[op[r].id] = "executing" /\ runs[op[r].id] = 0
    BY <2>1 DEF RunStart, IndInv, PositionsInv, OwnershipInv, RunsInv, Owns, Responsible
  <2>3. runs' = [runs EXCEPT ![op[r].id] = 1] /\ UNCHANGED <<status, maxCap>>
    BY <2>1, <2>2 DEF RunStart, dbVars, IndInv, TypeOK
  <2>4. Lifecycle!RunScript(op[r].id)
    BY <2>2, <2>3 DEF Lifecycle!RunScript
  <2> QED
    BY <2>2, <2>4 DEF Lifecycle!Next
<1>4. CASE Transition
  <2>1. PICK p \in Procs : TransitionUpdate(p) /\ RowUnchanged(op[p].id, op[p].from)
    BY <1>4 DEF Transition, TransitionGet, TransitionUpdate, TransitionFails, dbVars, histVars
  <2> DEFINE e == op[p].id
             to == op[p].to
  <2>2. e \in Execs /\ to \in AllowedTransitions(status[e])
    BY <2>1 DEF TransitionUpdate, RowUnchanged, IndInv, PositionsInv, Procs
  <2>3. \/ p \in Requests /\ to \in {"rejected", "succeeded", "failed"}
        \/ p = Verifier /\ to \in {"expired", "verified", "unresolved"}
    BY <2>1 DEF TransitionUpdate, IndInv, PositionsInv, Procs
  <2>4. to = "succeeded" => runs[e] = 1
    BY <2>1, <2>3 DEF TransitionUpdate, IndInv, RunsInv
  <2>5. status' = [status EXCEPT ![e] = to] /\ UNCHANGED <<runs, maxCap>>
    BY <2>1 DEF TransitionUpdate
  <2> HIDE DEF e, to
  <2>6. CASE to \in {"rejected", "expired"}
    <3>1. status[e] = "proposed"
      BY <2>2, <2>6 DEF AllowedTransitions
    <3>2. Lifecycle!Close(e, to)
      BY <2>5, <2>6, <3>1 DEF Lifecycle!Close, Lifecycle!Move
    <3> QED
      BY <2>2, <2>6, <3>2 DEF Lifecycle!Next
  <2>7. CASE to \in {"succeeded", "failed"}
    <3>1. status[e] = "executing"
      BY <2>2, <2>7 DEF AllowedTransitions
    <3>2. Lifecycle!Finish(e, to)
      BY <2>4, <2>5, <2>7, <3>1 DEF Lifecycle!Finish, Lifecycle!Move
    <3> QED
      BY <2>2, <2>7, <3>2 DEF Lifecycle!Next
  <2>8. CASE to \in {"verified", "unresolved"}
    <3>1. status[e] = "succeeded"
      BY <2>2, <2>8 DEF AllowedTransitions
    <3>2. Lifecycle!Judge(e, to)
      BY <2>5, <2>8, <3>1 DEF Lifecycle!Judge, Lifecycle!Move
    <3> QED
      BY <2>2, <2>8, <3>2 DEF Lifecycle!Next
  <2> QED
    BY <2>3, <2>6, <2>7, <2>8
<1>5. CASE Admin
  <2>1. PICK c \in [enabled : BOOLEAN, max : CapInputs, window : WindowInputs] :
          UpdateRemediationConfig(c)
    BY <1>5 DEF Admin, CreateRemediationTarget, UpdateRemediationTarget,
                DeleteRemediationTarget, histVars
  <2>2. cfg'.max \in Nat
    BY <2>1, WithDefaultsType DEF UpdateRemediationConfig
  <2>3. UNCHANGED <<status, runs>> /\ maxCap' = IF cfg'.max > maxCap THEN cfg'.max ELSE maxCap
    BY <2>1 DEF UpdateRemediationConfig
  <2>4. maxCap \in Nat /\ maxCap' # maxCap
    BY <2>3 DEF IndInv, TypeOK
  <2>5. maxCap' \in Nat /\ maxCap' > maxCap
    BY <2>2, <2>3, <2>4
  <2> QED
    BY <2>3, <2>5 DEF Lifecycle!Next, Lifecycle!RaiseLimit
<1>6. ~Reject /\ ~TickStep /\ ~Environment /\ ~UNCHANGED vars
  <2>1. ~Reject
    BY DEF Reject, RejectRemediation, dbVars, histVars
  <2>2. ~TickStep
    BY DEF TickStep, TickBegin, TickExpire, TickVerify, TickLookupFails, TickListSucceeded,
           TickEnd, TickAborts, dbVars, histVars
  <2>3. ~Environment
    BY DEF Environment, ClockTick, AlertResolves, AlertFires, AlertMuted, AlertListed,
           CrashRestart, dbVars, histVars
  <2>4. ~UNCHANGED vars
    BY DEF vars, dbVars, histVars
  <2> QED
    BY <2>1, <2>2, <2>3, <2>4
<1> QED
  BY <1>1, <1>2, <1>3, <1>4, <1>5, <1>6 DEF Next

(* The system of requests, goroutines and verifier implements the abstract  *)
(* lifecycle.                                                               *)
THEOREM Refinement == Spec => ImplementsLifecycle
<1>1. Spec => Lifecycle!Init /\ [][Lifecycle!Next]_(Lifecycle!lvars)
  BY InitRefines, StepRefines, Invariance, PTL DEF Spec
<1> QED
  BY <1>1 DEF ImplementsLifecycle, Lifecycle!Spec

-----------------------------------------------------------------------------
(* Every start of a script was authorised.                                  *)

(* A remote row has a host, and an LLM row a script the gate can judge.     *)
RowSound(x) ==
    /\ x.target # NoTarget => x.host \in Hosts
    /\ x.source = "llm-generated" => x.script # "none"

SnapsInv ==
    /\ \A e \in Execs : RowSound(snap[e])
    /\ \A s \in Selectors : RowSound(sel[s].row)

(* Who is past the gate carries a row the gate lets through.                *)
GateInv ==
    \A r \in Requests : op[r].pc \in {"target", "exec", "running"} => ~Denied(op[r].id)

(* Before the opt-in requests can only reject, and nothing is executed.     *)
Inert ==
    /\ ~cfg.enabled
    /\ \A r \in Requests :
          op[r].pc = "idle" \/ (op[r].pc \in {"record", "update"} /\ op[r].to = "rejected")
    /\ \A e \in Execs : runs[e] = 0 /\ status[e] \in {"absent", "proposed", "rejected", "expired"}

OptInInv == optedIn \/ Inert

(* Where the steps of a handler lead.                                       *)
LEMMA ApproveMoves ==
  ASSUME TypeOK, Approve, NEW r \in Requests
  PROVE  op'[r] = op[r] \/ op'[r].pc \in {"idle", "count", "transition", "load", "gate"}
<1>0. r \in Procs /\ op[r] \in Positions /\ DOMAIN op = Procs
  BY DEF Procs, TypeOK
<1> SUFFICES ASSUME NEW q \in Requests,
                    \/ \E e \in Execs : ApproveConfig(q, e)
                    \/ ApproveCount(q) \/ TransitionToExecuting(q)
                    \/ ApproveLoad(q) \/ ApproveFails(q),
                    q = r
             PROVE  op'[r].pc \in {"idle", "count", "transition", "load", "gate"}
  BY <1>0 DEF Approve, ApproveConfig, ApproveCount, TransitionToExecuting, ApproveLoad, ApproveFails
<1>1. CASE \E e \in Execs : ApproveConfig(q, e)
  <2>1. PICK e \in Execs : ApproveConfig(q, e)
    BY <1>1
  <2> QED
    BY <1>0, <2>1 DEF ApproveConfig, Idle
<1>2. CASE ApproveCount(q)
  <2>1. op'[r] = Idle \/ op'[r] = [op[r] EXCEPT !.pc = "transition"]
    BY <1>0, <1>2 DEF ApproveCount
  <2> QED
    BY <1>0, <2>1 DEF Idle, Positions
<1>3. CASE TransitionToExecuting(q)
  <2>1. op'[r] = Idle \/ op'[r] = [op[r] EXCEPT !.pc = "load"]
    BY <1>0, <1>3 DEF TransitionToExecuting
  <2> QED
    BY <1>0, <2>1 DEF Idle, Positions
<1>4. CASE ApproveLoad(q)
  BY <1>0, <1>4 DEF ApproveLoad, Positions
<1>5. CASE ApproveFails(q)
  BY <1>0, <1>5 DEF ApproveFails, Idle
<1> QED
  BY <1>1, <1>2, <1>3, <1>4, <1>5

LEMMA TransitionMoves ==
  ASSUME TypeOK, Transition, NEW r \in Procs
  PROVE  \/ op'[r] = op[r] \/ op'[r] = Idle
         \/ /\ op[r].pc = "record" /\ op'[r].pc = "update"
            /\ op'[r].id = op[r].id /\ op'[r].to = op[r].to
<1>0. op[r] \in Positions /\ DOMAIN op = Procs
  BY DEF TypeOK
<1> SUFFICES ASSUME TransitionGet(r)
             PROVE  \/ op'[r] = Idle
                    \/ /\ op[r].pc = "record" /\ op'[r].pc = "update"
                       /\ op'[r].id = op[r].id /\ op'[r].to = op[r].to
  BY <1>0 DEF Transition, TransitionGet, TransitionUpdate, TransitionFails
<1>1. op[r].pc = "record"
      /\ (op'[r] = Idle \/ op'[r] = [op[r] EXCEPT !.pc = "update", !.from = status[op[r].id]])
  BY <1>0 DEF TransitionGet
<1> QED
  BY <1>0, <1>1 DEF Positions

(* Only selectors and a crash touch what is proposed.                       *)
LEMMA SnapsStep == TypeOK /\ SnapsInv /\ [Next]_vars => SnapsInv'
<1> SUFFICES ASSUME TypeOK, SnapsInv, [Next]_vars PROVE SnapsInv'
  OBVIOUS
<1>0. RowSound(NoSnap) /\ \A f : RowSound([NoSnap EXCEPT !.fp = f])
  BY DEF RowSound, NoSnap
<1>1. CASE UNCHANGED <<snap, sel>>
  BY <1>1 DEF SnapsInv
<1>2. ASSUME NEW s \in Selectors, NEW f \in Fingerprints, SelectConfig(s, f) PROVE SnapsInv'
  BY <1>0, <1>2 DEF SelectConfig, SnapsInv, TypeOK, dbVars
<1>3. ASSUME NEW s \in Selectors, SelectActive(s) \/ SelectNothing(s) PROVE SnapsInv'
  BY <1>0, <1>3 DEF SelectActive, SelectNothing, NoSelection, SnapsInv, TypeOK, dbVars
<1>4. ASSUME NEW s \in Selectors, NEW source \in Sources, NEW frozen \in FrozenTargets,
             SelectFreeze(s, source, frozen)
      PROVE  SnapsInv'
  <2>1. frozen.target # NoTarget => frozen.host \in Hosts
    BY DEF FrozenTargets
  <2>2. RowSound(sel'[s].row)
    BY <1>4, <2>1 DEF SelectFreeze, RowSound, TypeOK
  <2> QED
    BY <1>4, <2>2 DEF SelectFreeze, SnapsInv, TypeOK, dbVars
<1>5. ASSUME NEW s \in Selectors, NEW e \in Execs, SelectCreate(s, e) PROVE SnapsInv'
  BY <1>0, <1>5 DEF SelectCreate, NoSelection, SnapsInv, TypeOK
<1>6. CASE CrashRestart
  BY <1>0, <1>6 DEF CrashRestart, NoSelection, SnapsInv, dbVars
<1>7. Approve \/ Run \/ Transition \/ Reject => UNCHANGED <<snap, sel>>
  BY DEF Approve, ApproveConfig, ApproveCount, TransitionToExecuting, ApproveLoad, ApproveFails,
         Run, RunGate, RunLoadTarget, RunStart, RunEnd,
         Transition, TransitionGet, TransitionUpdate, TransitionFails, Reject, RejectRemediation, dbVars
<1>8. TickStep \/ Admin => UNCHANGED <<snap, sel>>
  BY DEF TickStep, TickBegin, TickExpire, TickVerify, TickLookupFails, TickListSucceeded, TickEnd,
         TickAborts, Admin, UpdateRemediationConfig, CreateRemediationTarget,
         UpdateRemediationTarget, DeleteRemediationTarget, dbVars, procVars
<1>9. Environment => UNCHANGED <<snap, sel>> \/ CrashRestart
  BY DEF Environment, ClockTick, AlertResolves, AlertFires, AlertMuted, AlertListed, dbVars, procVars
<1> QED
  BY <1>1, <1>2, <1>3, <1>4, <1>5, <1>6, <1>7, <1>8, <1>9
  DEF Next, Select, vars, dbVars, procVars

(* What runs is what was frozen and checked.                                *)
StartsInv == GateInv /\ RanWhereFrozen /\ GatedScriptsNeverRun

LEMMA StartsStep ==
  TypeOK /\ PositionsInv /\ RunsInv /\ SnapsInv /\ StartsInv /\ [Next]_vars => StartsInv'
<1> SUFFICES ASSUME TypeOK, PositionsInv, RunsInv, SnapsInv, StartsInv, [Next]_vars PROVE StartsInv'
  OBVIOUS
<1>0. \A r \in Requests : r \in Procs /\ r # Verifier
  BY RemediationAssumption DEF Procs
<1>1. ASSUME UNCHANGED <<snap, runs, place, sandbox>>,
             \A r \in Requests : op'[r].pc \in {"target", "exec", "running"} => ~Denied(op'[r].id)
      PROVE  StartsInv'
  BY <1>1 DEF StartsInv, GateInv, Denied, RanWhereFrozen, GatedScriptsNeverRun
<1>2. ASSUME UNCHANGED <<snap, op, runs, place, sandbox>> PROVE StartsInv'
  BY <1>2 DEF StartsInv, GateInv, Denied, RanWhereFrozen, GatedScriptsNeverRun
<1>3. CASE Select
  <2>1. ASSUME NEW s \in Selectors, NEW e \in Execs, SelectCreate(s, e) PROVE StartsInv'
    <3>1. runs[e] = 0 /\ \A r \in Requests : op[r].pc # "idle" => op[r].id # e
      BY <2>1 DEF SelectCreate, RunsInv, PositionsInv
    <3>2. \A d \in Execs \ {e} : snap'[d] = snap[d]
      BY <2>1 DEF SelectCreate, TypeOK
    <3>3. UNCHANGED <<op, runs, place, sandbox>>
      BY <2>1 DEF SelectCreate, histVars
    <3>4. GateInv'
      BY <3>1, <3>2, <3>3 DEF StartsInv, GateInv, Denied, PositionsInv
    <3> QED
      BY <3>1, <3>2, <3>3, <3>4 DEF StartsInv, RanWhereFrozen, GatedScriptsNeverRun
  <2>2. UNCHANGED <<snap, op, runs, place, sandbox>> \/ \E s \in Selectors, e \in Execs : SelectCreate(s, e)
    BY <1>3 DEF Select, SelectConfig, SelectActive, SelectNothing, SelectFreeze, dbVars, histVars
  <2> QED
    BY <1>2, <2>1, <2>2
<1>4. CASE Approve
  <2>1. UNCHANGED <<snap, runs, place, sandbox>>
    BY <1>4 DEF Approve, ApproveConfig, ApproveCount, TransitionToExecuting, ApproveLoad, ApproveFails,
       dbVars, histVars
  <2>2. \A r \in Requests : op'[r] = op[r] \/ op'[r].pc \in {"idle", "count", "transition", "load", "gate"}
    BY <1>4, ApproveMoves
  <2> QED
    BY <1>1, <2>1, <2>2 DEF StartsInv, GateInv
<1>5. CASE Run
  <2> SUFFICES ASSUME NEW r \in Requests,
                      \/ RunGate(r) \/ RunLoadTarget(r) \/ RunStart(r)
                      \/ \E x \in {"ok", "bad"} : RunEnd(r, x)
               PROVE StartsInv'
    BY <1>5 DEF Run
  <2>1. CASE RunGate(r)
    BY <1>0, <1>1, <2>1 DEF RunGate, Record, StartsInv, GateInv, TypeOK, Positions, dbVars, histVars
  <2>2. CASE RunLoadTarget(r)
    BY <1>0, <1>1, <2>2 DEF RunLoadTarget, Record, StartsInv, GateInv, TypeOK, Positions, dbVars, histVars
  <2>3. CASE RunStart(r)
    <3>1. op[r].id \in Execs /\ ~Denied(op[r].id)
      BY <2>3 DEF RunStart, PositionsInv, StartsInv, GateInv
    <3>2. GateInv'
      BY <1>0, <2>3, <3>1 DEF RunStart, Record, StartsInv, GateInv, Denied, TypeOK, Positions, dbVars
    <3>3. CASE UNCHANGED <<runs, place>>
      BY <2>3, <3>2, <3>3 DEF RunStart, StartsInv, RanWhereFrozen, GatedScriptsNeverRun, dbVars
    <3>4. CASE /\ ~(NeedsSandbox(op[r].id) /\ ~sandbox)
               /\ runs' = [runs EXCEPT ![op[r].id] = @ + 1]
               /\ place' = [place EXCEPT ![op[r].id] = PlaceOf(op[r].id)]
      <4>1. UNCHANGED <<snap, sandbox>>
        BY <2>3 DEF RunStart, dbVars
      <4>2. RanWhereFrozen'
        BY <3>1, <3>4, <4>1 DEF StartsInv, RanWhereFrozen, PlaceOf, TypeOK
      <4>3. snap[op[r].id].source = "llm-generated" => snap[op[r].id].script = "clean"
        BY <3>1 DEF Denied, SnapsInv, RowSound, TypeOK, Rows
      <4>4. PlaceOf(op[r].id) = "local" => snap[op[r].id].target = NoTarget
        BY <3>1, RemediationAssumption DEF PlaceOf, SnapsInv, RowSound
      <4>5. GatedScriptsNeverRun'
        BY <3>1, <3>4, <4>1, <4>3, <4>4 DEF StartsInv, GatedScriptsNeverRun, NeedsSandbox, TypeOK
      <4> QED
        BY <3>2, <4>2, <4>5 DEF StartsInv
    <3> QED
      BY <2>3, <3>3, <3>4 DEF RunStart
  <2>4. ASSUME NEW x \in {"ok", "bad"}, RunEnd(r, x) PROVE StartsInv'
    BY <1>0, <1>1, <2>4 DEF RunEnd, Record, StartsInv, GateInv, TypeOK, Positions, dbVars
  <2> QED
    BY <2>1, <2>2, <2>3, <2>4
<1>6. CASE Transition
  <2>1. UNCHANGED <<snap, runs, place, sandbox>>
    BY <1>6 DEF Transition, TransitionGet, TransitionUpdate, TransitionFails, dbVars, histVars
  <2>2. \A r \in Requests : op'[r] = op[r] \/ op'[r].pc \in {"idle", "update"}
    BY <1>0, <1>6, TransitionMoves DEF Idle
  <2> QED
    BY <1>1, <2>1, <2>2 DEF StartsInv, GateInv
<1>7. CASE Reject
  BY <1>0, <1>1, <1>7
  DEF Reject, RejectRemediation, StartsInv, GateInv, TypeOK, Idle, dbVars, histVars
<1>8. CASE TickStep
  <2>1. \A r \in Requests : op'[r] = op[r]
    BY <1>0, <1>8 DEF TickStep, TickBegin, TickExpire, TickVerify, TickLookupFails, TickListSucceeded,
       TickEnd, TickAborts, VerifierMoves, TypeOK
  <2>2. UNCHANGED <<snap, runs, place, sandbox>>
    BY <1>8 DEF TickStep, TickBegin, TickExpire, TickVerify, TickLookupFails, TickListSucceeded,
       TickEnd, TickAborts, dbVars, histVars
  <2> QED
    BY <1>1, <2>1, <2>2 DEF StartsInv, GateInv
<1>9. CASE Admin
  BY <1>2, <1>9 DEF Admin, UpdateRemediationConfig, CreateRemediationTarget, UpdateRemediationTarget,
     DeleteRemediationTarget, procVars, histVars
<1>10. CASE Environment
  <2>1. CASE CrashRestart
    BY <1>0, <1>1, <2>1 DEF CrashRestart, Idle, dbVars
  <2> QED
    BY <1>2, <1>10, <2>1 DEF Environment, ClockTick, AlertResolves, AlertFires, AlertMuted, AlertListed,
       dbVars, procVars, histVars
<1>11. CASE UNCHANGED vars
  BY <1>2, <1>11 DEF vars, dbVars, procVars, histVars
<1> QED
  BY <1>3, <1>4, <1>5, <1>6, <1>7, <1>8, <1>9, <1>10, <1>11 DEF Next

(* Nothing is executed before the opt-in.                                   *)
LEMMA OptInStep ==
  TypeOK /\ PositionsInv /\ OptInInv /\ [Next]_vars => OptInInv'
<1> SUFFICES ASSUME TypeOK, PositionsInv, OptInInv, [Next]_vars PROVE OptInInv'
  OBVIOUS
<1>0. \A r \in Requests : r \in Procs /\ r # Verifier
  BY RemediationAssumption DEF Procs
<1>1. optedIn => optedIn'
  BY DEF Next, Select, SelectConfig, SelectActive, SelectNothing, SelectFreeze, SelectCreate,
         Approve, ApproveConfig, ApproveCount, TransitionToExecuting, ApproveLoad, ApproveFails,
         Run, RunGate, RunLoadTarget, RunStart, RunEnd,
         Transition, TransitionGet, TransitionUpdate, TransitionFails, Reject, RejectRemediation,
         TickStep, TickBegin, TickExpire, TickVerify, TickLookupFails, TickListSucceeded, TickEnd,
         TickAborts, Admin, UpdateRemediationConfig, CreateRemediationTarget,
         UpdateRemediationTarget, DeleteRemediationTarget,
         Environment, ClockTick, AlertResolves, AlertFires, AlertMuted, AlertListed, CrashRestart,
         vars, histVars
<1> SUFFICES ASSUME Inert PROVE Inert' \/ optedIn'
  BY <1>1 DEF OptInInv
<1>3. ASSUME UNCHANGED <<status, cfg, op, runs>> PROVE Inert'
  BY <1>3 DEF Inert
<1>4. ASSUME Select PROVE Inert'
  BY <1>4 DEF Select, SelectConfig, SelectActive, SelectNothing, SelectFreeze, SelectCreate,
     Inert, TypeOK, dbVars, histVars
<1>5. ASSUME Approve PROVE Inert'
  BY <1>0, <1>5
  DEF Approve, ApproveConfig, ApproveCount, TransitionToExecuting, ApproveLoad, ApproveFails, Inert
<1>6. ASSUME Run PROVE Inert'
  BY <1>0, <1>6 DEF Run, RunGate, RunLoadTarget, RunStart, RunEnd, Inert
<1>7. ASSUME Transition PROVE Inert'
  <2>0. Idle.pc = "idle"
    BY DEF Idle
  <2>1. \A r \in Requests :
          op'[r].pc = "idle" \/ (op'[r].pc \in {"record", "update"} /\ op'[r].to = "rejected")
    <3> SUFFICES ASSUME NEW r \in Requests
                 PROVE  op'[r].pc = "idle" \/ (op'[r].pc \in {"record", "update"} /\ op'[r].to = "rejected")
      OBVIOUS
    <3>1. op[r].pc = "idle" \/ (op[r].pc \in {"record", "update"} /\ op[r].to = "rejected")
      BY DEF Inert
    <3> QED
      BY <1>0, <1>7, <2>0, <3>1, TransitionMoves
  <2>2. UNCHANGED <<cfg, runs>>
    BY <1>7 DEF Transition, TransitionGet, TransitionUpdate, TransitionFails, dbVars, histVars
  <2>3. ASSUME NEW p \in Procs, TransitionUpdate(p)
        PROVE  \A e \in Execs : status'[e] \in {"absent", "proposed", "rejected", "expired"}
    <3>1. status[op[p].id] = op[p].from => op[p].id \notin Execs \/ op[p].to \in {"executing", "rejected", "expired"}
      BY <2>3 DEF TransitionUpdate, PositionsInv, AllowedTransitions, Inert
    <3>2. op[p].to # "executing"
      BY <2>3 DEF TransitionUpdate, PositionsInv, Procs
    <3> QED
      BY <2>3, <3>1, <3>2 DEF TransitionUpdate, RowUnchanged, TypeOK, Inert
  <2>4. \A e \in Execs : status'[e] \in {"absent", "proposed", "rejected", "expired"}
    BY <1>7, <2>3 DEF Transition, TransitionGet, TransitionFails, dbVars, Inert
  <2> QED
    BY <2>1, <2>2, <2>4 DEF Inert
<1>8. ASSUME Reject PROVE Inert'
  BY <1>0, <1>8
  DEF Reject, RejectRemediation, Inert, TypeOK, Idle, dbVars, histVars
<1>9. ASSUME TickStep PROVE Inert'
  <2>1. \A r \in Requests : op'[r] = op[r]
    BY <1>0, <1>9 DEF TickStep, TickBegin, TickExpire, TickVerify, TickLookupFails, TickListSucceeded,
       TickEnd, TickAborts, VerifierMoves, TypeOK
  <2>2. UNCHANGED <<status, cfg, runs>>
    BY <1>9 DEF TickStep, TickBegin, TickExpire, TickVerify, TickLookupFails, TickListSucceeded,
       TickEnd, TickAborts, dbVars, histVars
  <2> QED
    BY <2>1, <2>2 DEF Inert
<1>10. ASSUME Admin PROVE Inert' \/ optedIn'
  <2>1. ASSUME NEW c \in [enabled : BOOLEAN, max : CapInputs, window : WindowInputs],
               UpdateRemediationConfig(c), ~c.enabled
        PROVE  Inert'
    <3>1. ~cfg'.enabled
      BY <2>1 DEF UpdateRemediationConfig, WithDefaults
    <3> QED
      BY <2>1, <3>1 DEF UpdateRemediationConfig, Inert, procVars
  <2>2. ASSUME NEW c, UpdateRemediationConfig(c), c.enabled PROVE optedIn'
    BY <2>2 DEF UpdateRemediationConfig
  <2> QED
    BY <1>3, <1>10, <2>1, <2>2 DEF Admin, CreateRemediationTarget, UpdateRemediationTarget,
       DeleteRemediationTarget, procVars, histVars
<1>11. ASSUME Environment PROVE Inert'
  <2>1. CASE CrashRestart
    <3>1. UNCHANGED <<status, cfg, runs>> /\ \A r \in Requests : op'[r].pc = "idle"
      BY <1>0, <2>1 DEF CrashRestart, Idle, dbVars
    <3>2. ~cfg'.enabled
      BY <3>1 DEF Inert
    <3>3. \A e \in Execs : runs'[e] = 0 /\ status'[e] \in {"absent", "proposed", "rejected", "expired"}
      BY <3>1 DEF Inert
    <3> QED
      BY <3>1, <3>2, <3>3 DEF Inert
  <2> QED
    BY <1>3, <1>11, <2>1 DEF Environment, ClockTick, AlertResolves, AlertFires, AlertMuted, AlertListed,
       dbVars, procVars, histVars
<1>12. ASSUME UNCHANGED vars PROVE Inert'
  BY <1>3, <1>12 DEF vars, dbVars, procVars, histVars
<1> QED
  BY <1>4, <1>5, <1>6, <1>7, <1>8, <1>9, <1>10, <1>11, <1>12 DEF Next

AuthorisedInv == SnapsInv /\ StartsInv /\ OptInInv

LEMMA AuthorisedInit == Init => AuthorisedInv
<1> SUFFICES ASSUME Init PROVE AuthorisedInv
  OBVIOUS
<1>1. SnapsInv
  <2>1. \A e \in Execs : RowSound(snap[e])
    <3>1. \A f, source, script : script # "none" => RowSound(LegacySnap(f, source, script))
      BY DEF RowSound, LegacySnap, NoSnap
    <3>2. RowSound(NoSnap)
      BY DEF RowSound, NoSnap
    <3>3. PICK fp \in [Legacy -> Fingerprints], source \in Sources :
            \E script \in IF source = "runbook" THEN {"clean"} ELSE {"clean", "denied"} :
              snap = [e \in Execs |-> IF e \in Legacy THEN LegacySnap(fp[e], source, script) ELSE NoSnap]
      BY DEF Init
    <3> QED
      BY <3>1, <3>2, <3>3
  <2>2. \A s \in Selectors : RowSound(sel[s].row)
    BY DEF Init, RowSound, NoSelection, NoSnap
  <2> QED
    BY <2>1, <2>2 DEF SnapsInv
<1>2. \A r \in Requests : op[r].pc = "idle"
  BY DEF Init, Idle, Procs
<1>3. StartsInv
  BY <1>2 DEF Init, StartsInv, GateInv, RanWhereFrozen, GatedScriptsNeverRun
<1>4. OptInInv
  BY <1>2 DEF Init, OptInInv, Inert
<1> QED
  BY <1>1, <1>3, <1>4 DEF AuthorisedInv

(* Every start of a script was authorised: it ran where it was frozen to    *)
(* run, past the gate and the sandbox, and after the opt-in.                *)
THEOREM StartsAuthorised == Spec => []StartsAreAuthorised
<1>1. IndInv /\ AuthorisedInv /\ [Next]_vars => AuthorisedInv'
  BY SnapsStep, StartsStep, OptInStep DEF IndInv, AuthorisedInv
<1>2. AuthorisedInv => StartsAreAuthorised
  BY DEF AuthorisedInv, StartsInv, StartsAreAuthorised, OptInInv, Inert, InertUntilOptIn
<1> QED
  BY <1>1, <1>2, AuthorisedInit, Invariance, PTL DEF Spec
-----------------------------------------------------------------------------
(* Verdicts of the verifier.                                                *)

(* Who is judged has succeeded, and no verdict but the verifier's is to     *)
(* come; what it wants to write rests on the clock and on the listing.      *)
VerdictInv ==
    /\ ver.now <= clock
    /\ ver.phase = "idle" => op[Verifier].pc = "idle"
    /\ \A e \in ver.todo : status[e] # "absent"
    /\ ver.phase = "verify" => \A e \in ver.todo : status[e] = "succeeded"
    /\ op[Verifier].pc # "idle" =>
          LET e == op[Verifier].id IN
          /\ e \notin ver.todo
          /\ status[e] # "absent"
          /\ op[Verifier].to = "expired" => clock > snap[e].expiresAt
          /\ op[Verifier].to \in {"verified", "unresolved"} => status[e] = "succeeded"
          /\ op[Verifier].to = "unresolved" => clock > executedAt[e] + VerifyWindow
          /\ op[Verifier].to = "verified" => quiet[e]

(* A succeeded row whose alert is not listed was noticed to be quiet.       *)
QuietInv == \A e \in Execs : status[e] = "succeeded" /\ ~IsFiring(snap[e].fp) => quiet[e]

VerdictsInv == VerdictInv /\ QuietInv /\ NoEarlyVerdict /\ VerifiedWasQuiet

(* What the steps of others may do to the rows the verifier looks at.       *)
OthersKeep ==
    /\ ver' = ver /\ op'[Verifier] = op[Verifier] /\ clock <= clock'
    /\ \A e \in Execs :
          /\ status[e] # "absent" => status'[e] # "absent" /\ snap'[e] = snap[e]
          /\ status[e] # "proposed" => executedAt'[e] = executedAt[e]
          /\ status'[e] \in {"verified", "unresolved", "expired"} => status'[e] = status[e]
          /\ status[e] = "succeeded" => status'[e] = "succeeded"
          /\ status[e] \in {"succeeded", "verified"} /\ quiet[e] => quiet'[e]

LEMMA OthersStep ==
  ASSUME TypeOK, TypeOK', PositionsInv, VerdictsInv, OthersKeep, QuietInv' PROVE VerdictsInv'
<1>1. VerdictInv'
  <2>1. ver'.now <= clock' /\ (ver'.phase = "idle" => op'[Verifier].pc = "idle")
    BY DEF TypeOK, VerdictsInv, VerdictInv, OthersKeep
  <2>2. /\ \A e \in ver'.todo : status'[e] # "absent"
        /\ ver'.phase = "verify" => \A e \in ver'.todo : status'[e] = "succeeded"
    BY DEF TypeOK, VerdictsInv, VerdictInv, OthersKeep
  <2>3. ASSUME op[Verifier].pc # "idle", NEW e, e = op[Verifier].id
        PROVE  /\ e \notin ver'.todo
               /\ status'[e] # "absent"
               /\ op[Verifier].to = "expired" => clock' > snap'[e].expiresAt
               /\ op[Verifier].to \in {"verified", "unresolved"} => status'[e] = "succeeded"
               /\ op[Verifier].to = "unresolved" => clock' > executedAt'[e] + VerifyWindow
               /\ op[Verifier].to = "verified" => quiet'[e]
    <3>1. e \in Execs
      BY <2>3 DEF PositionsInv
    <3>2. snap[e].expiresAt \in Nat /\ executedAt[e] \in Nat /\ clock \in Nat /\ clock' \in Nat /\ VerifyWindow \in Nat
      BY <3>1, RemediationAssumption DEF TypeOK, Rows
    <3> QED
      BY <2>3, <3>1, <3>2 DEF VerdictsInv, VerdictInv, OthersKeep
  <2> QED
    BY <2>1, <2>2, <2>3 DEF VerdictInv, OthersKeep
<1>2. NoEarlyVerdict'
  <2> SUFFICES ASSUME NEW e \in Execs
               PROVE  /\ status'[e] = "unresolved" => clock' > executedAt'[e] + VerifyWindow
                      /\ status'[e] = "expired" => clock' > snap'[e].expiresAt
    BY DEF NoEarlyVerdict
  <2>1. snap[e].expiresAt \in Nat /\ executedAt[e] \in Nat /\ clock \in Nat /\ clock' \in Nat /\ VerifyWindow \in Nat
    BY RemediationAssumption DEF TypeOK, Rows
  <2> QED
    BY <2>1 DEF VerdictsInv, NoEarlyVerdict, OthersKeep
<1>3. VerifiedWasQuiet'
  BY DEF VerdictsInv, VerifiedWasQuiet, OthersKeep
<1> QED
  BY <1>1, <1>2, <1>3 DEF VerdictsInv

(* Whatever empties the listing is noticed.                                 *)
LEMMA QuietNoticed == TypeOK /\ PositionsInv /\ QuietInv /\ [Next]_vars => QuietInv'
<1> SUFFICES ASSUME TypeOK, PositionsInv, QuietInv, [Next]_vars PROVE QuietInv'
  OBVIOUS
<1>1. ASSUME UNCHANGED <<status, snap, firing, hidden, quiet>> PROVE QuietInv'
  BY <1>1 DEF QuietInv, IsFiring
<1>2. ASSUME UNCHANGED <<firing, hidden, quiet>>,
             \A e \in Execs : status'[e] = "succeeded" => status[e] = "succeeded" /\ snap'[e] = snap[e]
      PROVE  QuietInv'
  BY <1>2 DEF QuietInv, IsFiring
<1>3. CASE Select
  <2>1. UNCHANGED <<firing, hidden, quiet>>
    BY <1>3 DEF Select, SelectConfig, SelectActive, SelectNothing, SelectFreeze, SelectCreate,
       envVars, histVars
  <2>2. \A e \in Execs : status'[e] = "succeeded" => status[e] = "succeeded" /\ snap'[e] = snap[e]
    BY <1>3 DEF Select, SelectConfig, SelectActive, SelectNothing, SelectFreeze, SelectCreate,
       dbVars, TypeOK
  <2> QED
    BY <1>2, <2>1, <2>2
<1>4. CASE Approve
  <2>1. UNCHANGED <<firing, hidden, quiet>>
    BY <1>4 DEF Approve, ApproveConfig, ApproveCount, TransitionToExecuting, ApproveLoad, ApproveFails,
       envVars, histVars
  <2>2. \A e \in Execs : status'[e] = "succeeded" => status[e] = "succeeded" /\ snap'[e] = snap[e]
    BY <1>4 DEF Approve, ApproveConfig, ApproveCount, TransitionToExecuting, ApproveLoad, ApproveFails,
       dbVars, TypeOK
  <2> QED
    BY <1>2, <2>1, <2>2
<1>5. CASE Transition
  <2>1. ASSUME NEW p \in Procs, TransitionUpdate(p) PROVE QuietInv'
    <3>1. UNCHANGED <<snap, firing, hidden>>
      BY <2>1 DEF TransitionUpdate, envVars
    <3>2. ASSUME NEW e \in Execs, status'[e] = "succeeded", ~IsFiring(snap[e].fp) PROVE quiet'[e]
      <4>1. CASE e = op[p].id /\ RowUnchanged(e, op[p].from)
        BY <2>1, <3>2, <4>1 DEF TransitionUpdate, TypeOK
      <4>2. CASE ~(e = op[p].id /\ RowUnchanged(e, op[p].from))
        <5>1. status'[e] = status[e] /\ quiet'[e] = quiet[e]
          BY <2>1, <4>2 DEF TransitionUpdate, TypeOK
        <5> QED
          BY <3>2, <5>1 DEF QuietInv
      <4> QED
        BY <4>1, <4>2
    <3> QED
      BY <3>1, <3>2 DEF QuietInv, IsFiring
  <2> QED
    BY <1>1, <1>5, <2>1 DEF Transition, TransitionGet, TransitionFails, dbVars, envVars, histVars
<1>6. CASE Run \/ Reject
  BY <1>1, <1>6 DEF Run, RunGate, RunLoadTarget, RunStart, RunEnd, Reject, RejectRemediation,
     dbVars, envVars, histVars
<1>7. CASE TickStep \/ Admin
  BY <1>1, <1>7 DEF TickStep, TickBegin, TickExpire, TickVerify, TickLookupFails, TickListSucceeded,
     TickEnd, TickAborts, Admin, UpdateRemediationConfig, CreateRemediationTarget,
     UpdateRemediationTarget, DeleteRemediationTarget, dbVars, envVars, histVars
<1>8. CASE Environment
  <2>1. CASE ClockTick
    BY <1>1, <2>1 DEF ClockTick, dbVars, histVars
  <2>2. ASSUME NEW f \in Fingerprints, AlertResolves(f) \/ AlertMuted(f) PROVE QuietInv'
    BY <2>2 DEF AlertResolves, AlertMuted, QuietNow, QuietInv, IsFiring, dbVars, TypeOK
  <2>3. ASSUME NEW f \in Fingerprints, AlertFires(f) \/ AlertListed(f) PROVE QuietInv'
    BY <2>3 DEF AlertFires, AlertListed, QuietInv, IsFiring, dbVars, histVars
  <2>4. CASE CrashRestart
    <3>1. \A e \in Execs : snap[e].fp \notin Fingerprints => ~IsFiring(snap[e].fp)
      BY DEF IsFiring, TypeOK
    <3> QED
      BY <2>4, <3>1 DEF CrashRestart, QuietNow, QuietInv, dbVars
  <2> QED
    BY <1>8, <2>1, <2>2, <2>3, <2>4 DEF Environment
<1>9. CASE UNCHANGED vars
  BY <1>1, <1>9 DEF vars, dbVars, envVars, histVars
<1> QED
  BY <1>3, <1>4, <1>5, <1>6, <1>7, <1>8, <1>9 DEF Next

(* The verifier keeps its own promises: it decides at a time that is not    *)
(* over, of rows nobody else judges.                                        *)
LEMMA VerifierKeeps ==
  ASSUME TypeOK, TypeOK', PositionsInv, VerdictsInv, QuietInv',
         TickStep \/ TransitionGet(Verifier) \/ TransitionUpdate(Verifier) \/ TransitionFails(Verifier)
  PROVE  VerdictsInv'
<1>0. Verifier \in Procs /\ op[Verifier] \in Positions /\ Idle.pc = "idle"
  BY DEF Procs, TypeOK, Idle
<1>1. CASE TickStep
  <2>1. UNCHANGED <<status, snap, executedAt, clock, quiet>>
    BY <1>1 DEF TickStep, TickBegin, TickExpire, TickVerify, TickLookupFails, TickListSucceeded,
       TickEnd, TickAborts, dbVars, envVars, histVars
  <2>2. NoEarlyVerdict' /\ VerifiedWasQuiet'
    BY <2>1 DEF VerdictsInv, NoEarlyVerdict, VerifiedWasQuiet
  <2>3. VerdictInv'
    <3>0. ver.now \in Nat /\ clock \in Nat /\ VerifyWindow \in Nat
          /\ \A e \in Execs : snap[e].expiresAt \in Nat /\ executedAt[e] \in Nat
      BY RemediationAssumption DEF TypeOK, Rows
    <3>1. CASE TickBegin
      BY <2>1, <3>0, <3>1 DEF TickBegin, ListByStatus, VerdictsInv, VerdictInv
    <3>2. ASSUME NEW e \in Execs, TickExpire(e) \/ TickVerify(e)
          PROVE VerdictInv'
      <4>1. /\ ver'.now = ver.now /\ ver'.phase = ver.phase /\ ver'.todo = ver.todo \ {e} /\ e \in ver.todo
            /\ ver.phase # "idle" /\ op[Verifier].pc = "idle"
        BY <3>2 DEF TickExpire, TickVerify, TypeOK
      <4>2. CASE UNCHANGED op
        BY <2>1, <4>1, <4>2 DEF VerdictsInv, VerdictInv
      <4>3. ASSUME NEW to \in {"expired", "verified", "unresolved"}, VerifierMoves(e, to),
                   to = "expired" => clock > snap[e].expiresAt,
                   to # "expired" => status[e] = "succeeded",
                   to = "unresolved" => clock > executedAt[e] + VerifyWindow,
                   to = "verified" => quiet[e]
            PROVE  VerdictInv'
        <5>1. op'[Verifier].id = e /\ op'[Verifier].to = to
          BY <1>0, <4>3 DEF VerifierMoves, TypeOK, Idle
        <5>2. ver'.now <= clock' /\ ver'.phase # "idle"
          BY <2>1, <4>1 DEF VerdictsInv, VerdictInv
        <5>3. /\ \A d \in ver'.todo : status'[d] # "absent"
              /\ ver'.phase = "verify" => \A d \in ver'.todo : status'[d] = "succeeded"
              /\ status'[e] # "absent" /\ e \notin ver'.todo
          BY <2>1, <4>1 DEF VerdictsInv, VerdictInv
        <5> QED
          BY <2>1, <4>3, <5>1, <5>2, <5>3 DEF VerdictInv
      <4>4. CASE TickExpire(e)
        <5>1. Stale(e) => clock > snap[e].expiresAt
          BY <3>0 DEF Stale, VerdictsInv, VerdictInv
        <5> QED
          BY <4>2, <4>3, <4>4, <5>1 DEF TickExpire
      <4>5. CASE TickVerify(e)
        <5>1. WindowElapsed(e) => clock > executedAt[e] + VerifyWindow
          BY <3>0 DEF WindowElapsed, VerdictsInv, VerdictInv
        <5>2. status[e] = "succeeded"
          BY <4>1, <4>5 DEF TickVerify, VerdictsInv, VerdictInv
        <5>3. ~IsFiring(snap[e].fp) => quiet[e]
          BY <5>2 DEF VerdictsInv, QuietInv
        <5> QED
          BY <4>2, <4>3, <4>5, <5>1, <5>2, <5>3 DEF TickVerify
      <4> QED
        BY <3>2, <4>4, <4>5
    <3>3. ASSUME NEW e \in Execs, TickLookupFails(e) PROVE VerdictInv'
      <4>1. /\ ver'.now = ver.now /\ ver'.phase = ver.phase /\ ver'.todo = ver.todo \ {e}
            /\ op' = op /\ op[Verifier].pc = "idle"
        BY <3>3 DEF TickLookupFails, TypeOK
      <4> QED
        BY <2>1, <4>1 DEF VerdictsInv, VerdictInv
    <3>4. CASE TickListSucceeded
      <4>1. /\ ver'.now = ver.now /\ ver'.phase = "verify" /\ ver'.todo = ListByStatus("succeeded")
            /\ op' = op /\ op[Verifier].pc = "idle"
        BY <3>4 DEF TickListSucceeded, TypeOK
      <4> QED
        BY <2>1, <4>1 DEF VerdictsInv, VerdictInv, ListByStatus
    <3>5. CASE TickEnd \/ TickAborts
      <4>1. ver' = NoTick /\ op' = op /\ op[Verifier].pc = "idle"
        BY <3>5 DEF TickEnd, TickAborts
      <4> QED
        BY <2>1, <3>0, <4>1 DEF VerdictInv, NoTick
    <3> QED
      BY <1>1, <3>1, <3>2, <3>3, <3>4, <3>5 DEF TickStep
  <2> QED
    BY <2>2, <2>3 DEF VerdictsInv
<1>2. CASE TransitionGet(Verifier) \/ TransitionFails(Verifier)
  <2>1. UNCHANGED <<status, snap, executedAt, clock, quiet, ver>>
    BY <1>2 DEF TransitionGet, TransitionFails, dbVars, envVars, histVars
  <2>2. \/ op'[Verifier] = op[Verifier] \/ op'[Verifier] = Idle
        \/ /\ op[Verifier].pc = "record"
           /\ op'[Verifier].id = op[Verifier].id /\ op'[Verifier].to = op[Verifier].to
    BY <1>0, <1>2, TransitionMoves DEF Transition
  <2>3. VerdictInv'
    BY <1>0, <2>1, <2>2 DEF VerdictsInv, VerdictInv
  <2> QED
    BY <2>1, <2>3 DEF VerdictsInv, NoEarlyVerdict, VerifiedWasQuiet
<1>3. CASE TransitionUpdate(Verifier)
  <2> DEFINE e == op[Verifier].id
             to == op[Verifier].to
  <2>1. UNCHANGED <<snap, executedAt, clock, ver>> /\ op'[Verifier] = Idle
    BY <1>0, <1>3 DEF TransitionUpdate, TypeOK, envVars
  <2>2. /\ op[Verifier].pc = "update" /\ e \in Execs /\ to \in {"expired", "verified", "unresolved"}
    BY <1>3 DEF TransitionUpdate, PositionsInv
  <2>3. /\ UNCHANGED quiet
        /\ status' = status \/ status' = [status EXCEPT ![e] = to]
    BY <1>3, <2>2 DEF TransitionUpdate
  <2>4. /\ e \notin ver.todo
        /\ to = "expired" => clock > snap[e].expiresAt
        /\ to = "unresolved" => clock > executedAt[e] + VerifyWindow
        /\ to = "verified" => quiet[e]
    BY <2>2 DEF VerdictsInv, VerdictInv
  <2>5. VerdictInv'
    BY <1>0, <2>1, <2>2, <2>3, <2>4 DEF VerdictsInv, VerdictInv, TypeOK
  <2>6. NoEarlyVerdict'
    BY <2>1, <2>2, <2>3, <2>4 DEF VerdictsInv, NoEarlyVerdict, TypeOK
  <2>7. VerifiedWasQuiet'
    BY <2>2, <2>3, <2>4 DEF VerdictsInv, VerifiedWasQuiet, TypeOK
  <2> QED
    BY <2>5, <2>6, <2>7 DEF VerdictsInv
<1> QED
  BY <1>1, <1>2, <1>3

LEMMA VerdictsStep ==
  TypeOK /\ PositionsInv /\ TypeOK' /\ VerdictsInv /\ [Next]_vars => VerdictsInv'
<1> SUFFICES ASSUME TypeOK, PositionsInv, TypeOK', VerdictsInv, [Next]_vars PROVE VerdictsInv'
  OBVIOUS
<1>0. /\ QuietInv'
      /\ Verifier \in Procs /\ \A r \in Requests : r \in Procs /\ r # Verifier
  BY QuietNoticed, RemediationAssumption DEF VerdictsInv, Procs
<1>1. clock <= clock
  BY DEF TypeOK
<1>2. ASSUME UNCHANGED <<status, snap, executedAt, ver, quiet>>, op'[Verifier] = op[Verifier], clock <= clock'
      PROVE  VerdictsInv'
  <2>1. OthersKeep
    BY <1>2 DEF OthersKeep
  <2> QED
    BY <1>0, <2>1, OthersStep
<1>3. CASE Select
  <2>1. ASSUME NEW s \in Selectors, NEW e \in Execs, SelectCreate(s, e) PROVE VerdictsInv'
    <3>1. OthersKeep
      BY <1>1, <2>1 DEF SelectCreate, OthersKeep, TypeOK, envVars, histVars
    <3> QED
      BY <1>0, <3>1, OthersStep
  <2> QED
    BY <1>1, <1>2, <1>3, <2>1 DEF Select, SelectConfig, SelectActive, SelectNothing, SelectFreeze,
       dbVars, envVars, histVars
<1>4. CASE Approve
  <2> SUFFICES ASSUME op'[Verifier] = op[Verifier] PROVE VerdictsInv'
    <3>1. PICK q \in Requests : \/ \E e \in Execs : ApproveConfig(q, e)
                                \/ ApproveCount(q) \/ TransitionToExecuting(q)
                                \/ ApproveLoad(q) \/ ApproveFails(q)
      BY <1>4 DEF Approve
    <3>2. \E x : op' = [op EXCEPT ![q] = x]
      BY <3>1 DEF ApproveConfig, ApproveCount, TransitionToExecuting, ApproveLoad, ApproveFails
    <3> QED
      BY <1>0, <3>2 DEF TypeOK
  <2>1. op'[Verifier] = op[Verifier] /\ UNCHANGED <<snap, ver, clock, quiet>>
    BY <1>4 DEF Approve, ApproveConfig, ApproveCount, TransitionToExecuting, ApproveLoad,
       ApproveFails, dbVars, envVars, histVars
  <2>2. ASSUME NEW r \in Requests, TransitionToExecuting(r), TransitionWins(op[r].id, op[r].cap)
        PROVE  VerdictsInv'
    <3>1. status[op[r].id] = "proposed" /\ status' = [status EXCEPT ![op[r].id] = "executing"]
          /\ executedAt' = [executedAt EXCEPT ![op[r].id] = clock]
      BY <2>2 DEF TransitionToExecuting, TransitionWins
    <3>2. OthersKeep
      BY <1>1, <2>1, <3>1 DEF OthersKeep, TypeOK
    <3> QED
      BY <1>0, <3>2, OthersStep
  <2>3. UNCHANGED <<status, executedAt>>
        \/ \E r \in Requests : TransitionToExecuting(r) /\ TransitionWins(op[r].id, op[r].cap)
    BY <1>4 DEF Approve, ApproveConfig, ApproveCount, TransitionToExecuting, ApproveLoad,
       ApproveFails, dbVars
  <2> QED
    BY <1>1, <1>2, <2>1, <2>2, <2>3
<1>5. CASE Run
  <2>1. op'[Verifier] = op[Verifier]
    BY <1>0, <1>5 DEF Run, RunGate, RunLoadTarget, RunStart, RunEnd, Record, TypeOK
  <2>2. UNCHANGED <<status, snap, executedAt, ver, quiet, clock>>
    BY <1>5 DEF Run, RunGate, RunLoadTarget, RunStart, RunEnd, dbVars, envVars, histVars
  <2> QED
    BY <1>1, <1>2, <2>1, <2>2
<1>6. CASE Transition
  <2>1. ASSUME NEW r \in Requests, TransitionGet(r) \/ TransitionFails(r) PROVE VerdictsInv'
    <3>1. op'[Verifier] = op[Verifier] /\ UNCHANGED <<status, snap, executedAt, ver, quiet, clock>>
      BY <1>0, <2>1 DEF TransitionGet, TransitionFails, TypeOK, dbVars, envVars, histVars
    <3> QED
      BY <1>1, <1>2, <3>1
  <2>2. ASSUME NEW r \in Requests, TransitionUpdate(r) PROVE VerdictsInv'
    <3> DEFINE e == op[r].id
               to == op[r].to
    <3>1. op'[Verifier] = op[Verifier] /\ UNCHANGED <<snap, executedAt, ver, clock>>
      BY <1>0, <2>2 DEF TransitionUpdate, TypeOK, envVars
    <3>2. e \in Execs /\ to \in {"rejected", "succeeded", "failed"} /\ to \in AllowedTransitions(op[r].from)
      BY <1>0, <2>2 DEF TransitionUpdate, PositionsInv
    <3>3. op[r].from \in {"proposed", "executing"}
      BY <3>2 DEF AllowedTransitions
    <3>4. \/ UNCHANGED <<status, quiet>>
          \/ /\ status[e] \in {"proposed", "executing"} /\ status' = [status EXCEPT ![e] = to]
             /\ quiet' = quiet \/ quiet' = [quiet EXCEPT ![e] = ~IsFiring(snap[e].fp)]
      BY <2>2, <3>3 DEF TransitionUpdate, RowUnchanged
    <3>5. OthersKeep
      BY <1>1, <3>1, <3>2, <3>4 DEF OthersKeep, TypeOK
    <3> QED
      BY <1>0, <3>5, OthersStep
  <2> QED
    BY <1>0, <1>6, <2>1, <2>2, VerifierKeeps DEF Transition, Procs
<1>7. CASE Reject
  <2>1. op'[Verifier] = op[Verifier] /\ UNCHANGED <<status, snap, executedAt, ver, quiet, clock>>
    BY <1>0, <1>7 DEF Reject, RejectRemediation, TypeOK, dbVars, envVars, histVars
  <2> QED
    BY <1>1, <1>2, <2>1
<1>8. CASE TickStep
  BY <1>0, <1>8, VerifierKeeps
<1>9. CASE Admin
  BY <1>1, <1>2, <1>9 DEF Admin, UpdateRemediationConfig, CreateRemediationTarget,
     UpdateRemediationTarget, DeleteRemediationTarget, procVars, envVars, histVars
<1>10. CASE Environment
  <2>1. CASE ClockTick
    <3>1. clock <= clock'
      BY <2>1 DEF ClockTick, TypeOK
    <3> QED
      BY <1>2, <2>1, <3>1 DEF ClockTick, dbVars, procVars, histVars
  <2>2. ASSUME NEW f \in Fingerprints,
               AlertResolves(f) \/ AlertFires(f) \/ AlertMuted(f) \/ AlertListed(f)
        PROVE  VerdictsInv'
    <3>1. UNCHANGED <<status, snap, executedAt, ver, op, clock>>
      BY <2>2 DEF AlertResolves, AlertFires, AlertMuted, AlertListed, dbVars, procVars
    <3>2. \A e \in Execs : quiet[e] => quiet'[e]
      BY <2>2 DEF AlertResolves, AlertFires, AlertMuted, AlertListed, QuietNow, histVars
    <3>3. OthersKeep
      BY <1>1, <3>1, <3>2 DEF OthersKeep
    <3> QED
      BY <1>0, <3>3, OthersStep
  <2>3. CASE CrashRestart
    <3>1. UNCHANGED <<status, snap, executedAt, clock>> /\ ver' = NoTick /\ op'[Verifier].pc = "idle"
      BY <1>0, <2>3 DEF CrashRestart, Idle, dbVars
    <3>2. \A e \in Execs : quiet[e] => quiet'[e]
      BY <2>3 DEF CrashRestart, QuietNow
    <3>3. VerdictInv'
      BY <3>1 DEF VerdictInv, NoTick, TypeOK
    <3> QED
      BY <1>0, <3>1, <3>2, <3>3 DEF VerdictsInv, NoEarlyVerdict, VerifiedWasQuiet
  <2> QED
    BY <1>10, <2>1, <2>2, <2>3 DEF Environment
<1>11. CASE UNCHANGED vars
  BY <1>1, <1>2, <1>11 DEF vars, dbVars, procVars, envVars, histVars
<1> QED
  BY <1>3, <1>4, <1>5, <1>6, <1>7, <1>8, <1>9, <1>10, <1>11 DEF Next

LEMMA VerdictsHold == Spec => []VerdictsInv
<1>1. Init => VerdictsInv
  BY DEF Init, VerdictsInv, VerdictInv, QuietInv, NoEarlyVerdict, VerifiedWasQuiet, NoTick, Idle, Procs
<1>2. IndInv /\ IndInv' /\ VerdictsInv /\ [Next]_vars => VerdictsInv'
  BY VerdictsStep DEF IndInv
<1> QED
  BY <1>1, <1>2, Invariance, PTL DEF Spec

(* No row is unresolved before its window is over, and none expires before  *)
(* its deadline, although the verifier decides with an earlier time.        *)
THEOREM NoVerdictIsEarly == Spec => []NoEarlyVerdict
<1>1. VerdictsInv => NoEarlyVerdict
  BY DEF VerdictsInv
<1> QED
  BY <1>1, VerdictsHold, PTL

(* A verdict of verified rests on a listing without the alert, taken after  *)
(* the success.                                                             *)
THEOREM VerifiedMeansQuiet == Spec => []VerifiedWasQuiet
<1>1. VerdictsInv => VerifiedWasQuiet
  BY DEF VerdictsInv
<1> QED
  BY <1>1, VerdictsHold, PTL

-----------------------------------------------------------------------------
(***************************************************************************)
(* Open proposals per alert. A row is open from its creation to its         *)
(* terminal status and never opens again; the one place that opens a row    *)
(* has looked for open rows of the alert, so that the rows that are open    *)
(* and the selectors that may still open one only grow in number by a       *)
(* look-up that fails.                                                      *)
(***************************************************************************)
IsOpen(e) == status[e] \notin Terminal \cup {"absent"}

(* What every step but a selector's does to it: rows close, selections end. *)
RowsClose ==
  /\ UNCHANGED snap
  /\ faults' >= faults
  /\ \A s \in Selectors : sel'[s] = sel[s] \/ sel'[s].pc \notin {"llm", "create"}
  /\ \A e \in Execs : IsOpen(e)' => IsOpen(e)

LEMMA ProposalSets ==
  ASSUME NEW f
  PROVE  /\ IsFiniteSet(Open(f)) /\ IsFiniteSet(Committed(f)) /\ IsFiniteSet(Selectors) /\ IsFiniteSet(Legacy)
         /\ Cardinality(Open(f)) \in Nat /\ Cardinality(Committed(f)) \in Nat
         /\ Cardinality(Selectors) \in Nat /\ Cardinality(Legacy) \in Nat
         /\ Open(f) \subseteq Execs /\ Committed(f) \subseteq Selectors
         /\ Cardinality(Committed(f)) <= Cardinality(Selectors)
<1>1. Open(f) \subseteq Execs /\ Committed(f) \subseteq Selectors
  BY DEF Open, Committed
<1>2. IsFiniteSet(Execs) /\ IsFiniteSet(Selectors) /\ Legacy \subseteq Execs
  BY RemediationAssumption
<1>3. /\ IsFiniteSet(Open(f)) /\ IsFiniteSet(Committed(f)) /\ IsFiniteSet(Legacy)
      /\ Cardinality(Committed(f)) <= Cardinality(Selectors)
  BY <1>1, <1>2, FS_Subset
<1> QED
  BY <1>1, <1>2, <1>3, FS_CardinalityType

LEMMA OneMore ==
  ASSUME NEW S, NEW x, IsFiniteSet(S)
  PROVE  IsFiniteSet(S \cup {x}) /\ Cardinality(S \cup {x}) <= Cardinality(S) + 1
<1>1. Cardinality(S) \in Nat
  BY FS_CardinalityType
<1>2. /\ IsFiniteSet(S \cup {x})
      /\ Cardinality(S \cup {x}) = IF x \in S THEN Cardinality(S) ELSE Cardinality(S) + 1
  BY FS_AddElement
<1> QED
  BY <1>1, <1>2

(* Fewer open rows and fewer committed selectors keep the bound.            *)
LEMMA BoundShrinks ==
  ASSUME TypeOK, NEW f \in Fingerprints, faults' \in Nat, faults' >= faults, OpenProposalsBounded,
         Open(f)' \subseteq Open(f), Committed(f)' \subseteq Committed(f)
  PROVE  \E n \in {Cardinality(Selectors), Cardinality(Legacy)} :
            Cardinality(Open(f)') + Cardinality(Committed(f)') <= n + faults'
<1>1. /\ Cardinality(Open(f)') <= Cardinality(Open(f)) /\ Cardinality(Committed(f)') <= Cardinality(Committed(f))
      /\ Cardinality(Open(f)') \in Nat /\ Cardinality(Committed(f)') \in Nat
  BY ProposalSets, FS_Subset, FS_CardinalityType
<1>2. PICK n \in {Cardinality(Selectors), Cardinality(Legacy)} :
         Cardinality(Open(f)) + Cardinality(Committed(f)) <= n + faults
  BY DEF OpenProposalsBounded
<1>3. n \in Nat /\ Cardinality(Open(f)) \in Nat /\ Cardinality(Committed(f)) \in Nat /\ faults \in Nat
  BY ProposalSets DEF TypeOK
<1>4. Cardinality(Open(f)') + Cardinality(Committed(f)') <= n + faults'
  BY <1>1, <1>2, <1>3
<1> QED
  BY <1>4

LEMMA RowsCloseStep == TypeOK /\ TypeOK' /\ OpenProposalsBounded /\ RowsClose => OpenProposalsBounded'
<1> SUFFICES ASSUME TypeOK, TypeOK', OpenProposalsBounded, RowsClose, NEW f \in Fingerprints
             PROVE  \E n \in {Cardinality(Selectors), Cardinality(Legacy)} :
                       Cardinality(Open(f)') + Cardinality(Committed(f)') <= n + faults'
  BY DEF OpenProposalsBounded
<1>1. Open(f)' \subseteq Open(f)
  BY DEF RowsClose, Open, IsOpen
<1>2. Committed(f)' \subseteq Committed(f)
  BY DEF RowsClose, Committed
<1>3. faults' \in Nat /\ faults' >= faults
  BY DEF TypeOK, RowsClose
<1> QED
  BY <1>1, <1>2, <1>3, BoundShrinks

LEMMA OthersClose ==
  TypeOK /\ PositionsInv /\ [Next]_vars => Select \/ RowsClose
<1> SUFFICES ASSUME TypeOK, PositionsInv, [Next]_vars, ~Select PROVE RowsClose
  OBVIOUS
<1>0. faults \in Nat /\ faults + 1 >= faults /\ DOMAIN sel = Selectors
  BY DEF TypeOK
<1>1. UNCHANGED snap /\ (faults' = faults \/ faults' = faults + 1)
  BY DEF vars, Next, Approve, ApproveConfig, ApproveCount, TransitionToExecuting, ApproveLoad,
     ApproveFails, Run, RunGate, RunLoadTarget, RunStart, RunEnd, Transition, TransitionGet,
     TransitionUpdate, TransitionFails, Reject, RejectRemediation, TickStep, TickBegin, TickExpire,
     TickVerify, TickLookupFails, TickListSucceeded, TickEnd, TickAborts, Admin,
     UpdateRemediationConfig, CreateRemediationTarget, UpdateRemediationTarget,
     DeleteRemediationTarget, Environment, ClockTick, AlertResolves, AlertFires, AlertMuted,
     AlertListed, CrashRestart, dbVars, envVars
<1>2. sel' = sel \/ sel' = [s \in Selectors |-> NoSelection]
  BY DEF vars, Next, Approve, ApproveConfig, ApproveCount, TransitionToExecuting, ApproveLoad,
     ApproveFails, Run, RunGate, RunLoadTarget, RunStart, RunEnd, Transition, TransitionGet,
     TransitionUpdate, TransitionFails, Reject, RejectRemediation, TickStep, TickBegin, TickExpire,
     TickVerify, TickLookupFails, TickListSucceeded, TickEnd, TickAborts, Admin,
     UpdateRemediationConfig, CreateRemediationTarget, UpdateRemediationTarget,
     DeleteRemediationTarget, Environment, ClockTick, AlertResolves, AlertFires, AlertMuted,
     AlertListed, CrashRestart, procVars
<1>3. \/ UNCHANGED status
      \/ \E r \in Requests : TransitionToExecuting(r) /\ TransitionWins(op[r].id, op[r].cap)
      \/ \E p \in Procs : TransitionUpdate(p) /\ RowUnchanged(op[p].id, op[p].from)
  BY DEF vars, Next, Approve, ApproveConfig, ApproveCount, TransitionToExecuting, ApproveLoad,
     ApproveFails, Run, RunGate, RunLoadTarget, RunStart, RunEnd, Transition, TransitionGet,
     TransitionUpdate, TransitionFails, Reject, RejectRemediation, TickStep, TickBegin, TickExpire,
     TickVerify, TickLookupFails, TickListSucceeded, TickEnd, TickAborts, Admin,
     UpdateRemediationConfig, CreateRemediationTarget, UpdateRemediationTarget,
     DeleteRemediationTarget, Environment, ClockTick, AlertResolves, AlertFires, AlertMuted,
     AlertListed, CrashRestart, dbVars
<1>4. \A e \in Execs : IsOpen(e)' => IsOpen(e)
  <2>1. ASSUME NEW r \in Requests, TransitionToExecuting(r), TransitionWins(op[r].id, op[r].cap)
        PROVE  \A e \in Execs : IsOpen(e)' => IsOpen(e)
    <3>1. status[op[r].id] = "proposed" /\ status' = [status EXCEPT ![op[r].id] = "executing"]
      BY <2>1 DEF TransitionToExecuting, TransitionWins
    <3> QED
      BY <3>1 DEF IsOpen, Terminal, TypeOK
  <2>2. ASSUME NEW p \in Procs, TransitionUpdate(p), RowUnchanged(op[p].id, op[p].from)
        PROVE  \A e \in Execs : IsOpen(e)' => IsOpen(e)
    <3>1. /\ status' = [status EXCEPT ![op[p].id] = op[p].to]
          /\ status[op[p].id] = op[p].from /\ op[p].to \in AllowedTransitions(op[p].from)
      BY <2>2 DEF TransitionUpdate, RowUnchanged, PositionsInv
    <3>2. op[p].from \in {"proposed", "executing", "succeeded"}
      BY <3>1 DEF AllowedTransitions
    <3> QED
      BY <3>1, <3>2 DEF IsOpen, Terminal, TypeOK
  <2> QED
    BY <1>3, <2>1, <2>2 DEF IsOpen
<1> QED
  BY <1>0, <1>1, <1>2, <1>4 DEF RowsClose, NoSelection

LEMMA SelectorsKeepBound == TypeOK /\ OpenProposalsBounded /\ Select => OpenProposalsBounded'
<1> SUFFICES ASSUME TypeOK, OpenProposalsBounded, NEW f \in Fingerprints, NEW s \in Selectors,
                    \/ \E g \in Fingerprints : SelectConfig(s, g)
                    \/ SelectActive(s) \/ SelectNothing(s)
                    \/ \E source \in Sources, frozen \in FrozenTargets : SelectFreeze(s, source, frozen)
                    \/ \E e \in Execs : SelectCreate(s, e)
             PROVE  \E n \in {Cardinality(Selectors), Cardinality(Legacy)} :
                       Cardinality(Open(f)') + Cardinality(Committed(f)') <= n + faults'
  BY DEF Select, OpenProposalsBounded
<1>0. /\ faults \in Nat /\ faults + 1 \in Nat /\ faults + 1 >= faults /\ faults >= faults
      /\ DOMAIN sel = Selectors
      /\ sel[s] \in [pc : {"idle", "active", "llm", "create"}, row : Rows]
  BY DEF TypeOK
<1>1. ASSUME UNCHANGED <<status, snap, faults>>, sel' = [sel EXCEPT ![s] = sel'[s]],
             sel'[s].pc \in {"llm", "create"} => s \in Committed(sel'[s].row.fp)
      PROVE  \E n \in {Cardinality(Selectors), Cardinality(Legacy)} :
                Cardinality(Open(f)') + Cardinality(Committed(f)') <= n + faults'
  <2>1. Open(f)' \subseteq Open(f)
    BY <1>1 DEF Open
  <2>2. Committed(f)' \subseteq Committed(f)
    <3> SUFFICES ASSUME NEW t \in Selectors, sel'[t].pc \in {"llm", "create"}, sel'[t].row.fp = f
                 PROVE  t \in Committed(f)
      BY DEF Committed
    <3>1. CASE t = s
      BY <1>1, <3>1
    <3>2. CASE t # s
      BY <1>0, <1>1, <3>2 DEF Committed
    <3> QED
      BY <3>1, <3>2
  <2> QED
    BY <1>0, <1>1, <2>1, <2>2, BoundShrinks
<1>2. CASE \E g \in Fingerprints : SelectConfig(s, g)
  <2>1. UNCHANGED <<status, snap, faults>> /\ sel'[s].pc = "active" /\ sel' = [sel EXCEPT ![s] = sel'[s]]
    BY <1>0, <1>2 DEF SelectConfig, dbVars, envVars
  <2> QED
    BY <1>1, <2>1
<1>3. CASE SelectActive(s)
  <2>0. UNCHANGED <<status, snap>> /\ sel[s].pc = "active"
    BY <1>3 DEF SelectActive, dbVars
  <2>1. CASE UNCHANGED faults /\ sel' = [sel EXCEPT ![s] = NoSelection]
    <3>1. sel'[s].pc = "idle" /\ sel' = [sel EXCEPT ![s] = sel'[s]]
      BY <1>0, <2>1 DEF NoSelection
    <3> QED
      BY <1>1, <2>0, <2>1, <3>1
  <2>2. ASSUME sel' = [sel EXCEPT ![s].pc = "llm"]
        PROVE  Open(f)' = Open(f) /\ Committed(f)' \subseteq Committed(f) \cup {s}
               /\ (f # sel[s].row.fp => Committed(f)' \subseteq Committed(f))
    <3>1. sel'[s].row = sel[s].row /\ \A t \in Selectors \ {s} : sel'[t] = sel[t]
      BY <1>0, <2>2
    <3> QED
      BY <2>0, <3>1 DEF Open, Committed
  <2>3. CASE ListActiveByFingerprint(sel[s].row.fp) = {} /\ UNCHANGED faults /\ sel' = [sel EXCEPT ![s].pc = "llm"]
    <3>1. CASE f = sel[s].row.fp
      <4>1. Open(f) = {} /\ Open(f)' = {}
        BY <2>2, <2>3, <3>1 DEF Open, ListActiveByFingerprint
      <4>2. Cardinality(Open(f)') = 0
        BY <4>1, FS_EmptySet
      <4>3. Committed(f)' \subseteq Selectors
        BY DEF Committed
      <4>4. IsFiniteSet(Selectors)
        BY RemediationAssumption
      <4>5. IsFiniteSet(Committed(f)') /\ Cardinality(Committed(f)') <= Cardinality(Selectors)
        BY <4>3, <4>4, FS_Subset
      <4>6. Cardinality(Committed(f)') \in Nat
        BY <4>5, FS_CardinalityType
      <4> QED
        BY <1>0, <2>3, <4>2, <4>5, <4>6, ProposalSets
    <3>2. CASE f # sel[s].row.fp
      <4>1. Open(f)' \subseteq Open(f) /\ Committed(f)' \subseteq Committed(f) /\ faults' \in Nat /\ faults' >= faults
        BY <1>0, <2>2, <2>3, <3>2
      <4> QED
        BY <4>1, BoundShrinks
    <3> QED
      BY <3>1, <3>2
  <2>4. CASE faults' = faults + 1 /\ sel' = [sel EXCEPT ![s].pc = "llm"]
    <3>1. Cardinality(Committed(f)') <= Cardinality(Committed(f)) + 1 /\ Cardinality(Committed(f)') \in Nat
      <4>1. IsFiniteSet(Committed(f) \cup {s}) /\ Cardinality(Committed(f) \cup {s}) <= Cardinality(Committed(f)) + 1
        BY ProposalSets, OneMore
      <4>2. Committed(f)' \subseteq Committed(f) \cup {s}
        BY <2>2, <2>4
      <4>3. IsFiniteSet(Committed(f)') /\ Cardinality(Committed(f)') <= Cardinality(Committed(f) \cup {s})
        BY <4>1, <4>2, FS_Subset
      <4>4. Cardinality(Committed(f)') \in Nat /\ Cardinality(Committed(f) \cup {s}) \in Nat
        BY <4>1, <4>3, FS_CardinalityType
      <4> QED
        BY <4>1, <4>3, <4>4, ProposalSets
    <3>2. Open(f)' = Open(f)
      BY <2>2, <2>4
    <3>3. PICK n \in {Cardinality(Selectors), Cardinality(Legacy)} :
             Cardinality(Open(f)) + Cardinality(Committed(f)) <= n + faults
      BY DEF OpenProposalsBounded
    <3>4. n \in Nat /\ Cardinality(Open(f)) \in Nat /\ Cardinality(Committed(f)) \in Nat
      BY <3>3, ProposalSets
    <3>5. Cardinality(Open(f)') + Cardinality(Committed(f)') <= n + faults'
      BY <1>0, <2>4, <3>1, <3>2, <3>3, <3>4
    <3> QED
      BY <3>5
  <2> QED
    BY <1>3, <2>1, <2>3, <2>4 DEF SelectActive
<1>4. CASE SelectNothing(s)
  <2>1. UNCHANGED <<status, snap, faults>> /\ sel'[s].pc = "idle" /\ sel' = [sel EXCEPT ![s] = sel'[s]]
    BY <1>0, <1>4 DEF SelectNothing, dbVars, envVars, NoSelection
  <2> QED
    BY <1>1, <2>1
<1>5. CASE \E source \in Sources, frozen \in FrozenTargets : SelectFreeze(s, source, frozen)
  <2>1. /\ UNCHANGED <<status, snap, faults>> /\ sel' = [sel EXCEPT ![s] = sel'[s]]
        /\ sel[s].pc = "llm" /\ sel'[s].row.fp = sel[s].row.fp
    BY <1>0, <1>5 DEF SelectFreeze, dbVars, envVars
  <2>2. s \in Committed(sel'[s].row.fp)
    BY <2>1 DEF Committed
  <2> QED
    BY <1>1, <2>1, <2>2
<1>6. ASSUME NEW x \in Execs, SelectCreate(s, x)
      PROVE  \E n \in {Cardinality(Selectors), Cardinality(Legacy)} :
                Cardinality(Open(f)') + Cardinality(Committed(f)') <= n + faults'
  <2>1. UNCHANGED faults /\ sel[s].pc = "create" /\ sel'[s].pc = "idle" /\ status[x] = "absent"
    BY <1>0, <1>6 DEF SelectCreate, envVars, NoSelection
  <2>2. /\ snap'[x].fp = sel[s].row.fp
        /\ \A e \in Execs \ {x} : snap'[e] = snap[e] /\ status'[e] = status[e]
        /\ \A t \in Selectors \ {s} : sel'[t] = sel[t]
    BY <1>0, <1>6 DEF SelectCreate, TypeOK
  <2>3. Committed(f)' \subseteq Committed(f) \ {s}
    BY <2>1, <2>2 DEF Committed
  <2>4. CASE f # sel[s].row.fp
    <3>1. Open(f)' \subseteq Open(f)
      BY <2>2, <2>4 DEF Open
    <3> QED
      BY <1>0, <2>1, <2>3, <3>1, BoundShrinks
  <2>5. CASE f = sel[s].row.fp
    <3>1. Open(f)' \subseteq Open(f) \cup {x} /\ s \in Committed(f)
      BY <2>1, <2>2, <2>5 DEF Open, Committed
    <3>2. Cardinality(Committed(f)') <= Cardinality(Committed(f)) - 1 /\ Cardinality(Committed(f)') \in Nat
      <4>1. IsFiniteSet(Committed(f) \ {s}) /\ Cardinality(Committed(f) \ {s}) = Cardinality(Committed(f)) - 1
        BY <3>1, ProposalSets, FS_RemoveElement
      <4>2. IsFiniteSet(Committed(f)') /\ Cardinality(Committed(f)') <= Cardinality(Committed(f) \ {s})
        BY <2>3, <4>1, FS_Subset
      <4>3. Cardinality(Committed(f)') \in Nat
        BY <4>2, FS_CardinalityType
      <4> QED
        BY <4>1, <4>2, <4>3
    <3>3. Cardinality(Open(f)') <= Cardinality(Open(f)) + 1 /\ Cardinality(Open(f)') \in Nat
      <4>1. IsFiniteSet(Open(f) \cup {x}) /\ Cardinality(Open(f) \cup {x}) <= Cardinality(Open(f)) + 1
        BY ProposalSets, OneMore
      <4>2. IsFiniteSet(Open(f)') /\ Cardinality(Open(f)') <= Cardinality(Open(f) \cup {x})
        BY <3>1, <4>1, FS_Subset
      <4>3. Cardinality(Open(f)') \in Nat /\ Cardinality(Open(f) \cup {x}) \in Nat
        BY <4>1, <4>2, FS_CardinalityType
      <4> QED
        BY <4>1, <4>2, <4>3, ProposalSets
    <3>4. PICK n \in {Cardinality(Selectors), Cardinality(Legacy)} :
             Cardinality(Open(f)) + Cardinality(Committed(f)) <= n + faults
      BY DEF OpenProposalsBounded
    <3>5. n \in Nat /\ Cardinality(Open(f)) \in Nat /\ Cardinality(Committed(f)) \in Nat
      BY <3>4, ProposalSets
    <3>6. Cardinality(Open(f)') + Cardinality(Committed(f)') <= n + faults'
      BY <1>0, <2>1, <3>2, <3>3, <3>4, <3>5
    <3> QED
      BY <3>6
  <2> QED
    BY <2>4, <2>5
<1> QED
  BY <1>2, <1>3, <1>4, <1>5, <1>6

LEMMA BoundInit == Init => OpenProposalsBounded
<1> SUFFICES ASSUME Init, NEW f \in Fingerprints
             PROVE  Cardinality(Open(f)) + Cardinality(Committed(f)) <= Cardinality(Legacy) + faults
  BY DEF OpenProposalsBounded
<1>1. Open(f) \subseteq Legacy /\ Committed(f) = {} /\ faults = 0
  BY DEF Init, Open, Committed, NoSelection
<1>2. Cardinality(Committed(f)) = 0 /\ Cardinality(Open(f)) <= Cardinality(Legacy)
  BY <1>1, ProposalSets, FS_EmptySet, FS_Subset
<1> QED
  BY <1>1, <1>2, ProposalSets

(* However often an alert is dispatched, its open proposals are bounded by  *)
(* the dispatches that overlap: Select looks for an open one before it asks *)
(* the LLM, and only Create, at the end of the same Select, opens another.  *)
THEOREM OpenProposalsAreBounded == Spec => []OpenProposalsBounded
<1>1. IndInv /\ IndInv' /\ OpenProposalsBounded /\ [Next]_vars => OpenProposalsBounded'
  BY OthersClose, RowsCloseStep, SelectorsKeepBound DEF IndInv
<1> QED
  BY <1>1, BoundInit, Invariance, PTL DEF Spec
=============================================================================
