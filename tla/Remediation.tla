----------------------------- MODULE Remediation -----------------------------
(***************************************************************************)
(* The remediation lifecycle of one organisation: the dispatch hook's       *)
(* selector proposes a script for a firing alert, an operator approves or   *)
(* rejects it over HTTP, a goroutine of the approving request runs the      *)
(* frozen script, and the verifier's periodic tick expires stale proposals  *)
(* and judges the runs that succeeded.                                      *)
(*                                                                          *)
(* Processes: one per HTTP request (an approve request goes on as the       *)
(* goroutine it spawns), one per dispatch-hook selector, and the verifier.  *)
(* Every SQL statement is one step (SQLite serialises them); everything     *)
(* between two statements of a handler interleaves.                         *)
(***************************************************************************)
EXTENDS Integers, FiniteSets, RemediationStatus

CONSTANTS
    Execs,          \* ids of rows of ds_remediation_execution
    Legacy,         \* rows that exist when the server starts (see Init)
    Fingerprints,   \* alert fingerprints
    Targets,        \* ids of rows of the SSH target inventory
    Hosts,          \* connection parameters of a target
    Requests,       \* HTTP approve / reject requests
    Selectors,      \* dispatch-hook goroutines inside Selector.Select
    Verifier,       \* the verifier goroutine
    NoExec, NoHost, Deleted, NoTarget, NoFp,
    TTL,            \* ProposalTTLSeconds, in ticks
    VerifyWindow,   \* the verifier's hard-coded 10 minutes, in ticks
    CapInputs,      \* maxConcurrent values an admin may submit (0 = unset)
    WindowInputs,   \* verifyWindowSeconds values an admin may submit
    Deployments,    \* server environments: master key set, sandbox tools there
    Sources,        \* script sources the LLM's decisions lead to
    AlertEvents,    \* kinds of alert change the environment may make
    MaxTime, MaxCrashes, MaxFaults   \* bounds of the model

ASSUME RemediationAssumption ==
    /\ IsFiniteSet(Execs) /\ IsFiniteSet(Selectors)
    /\ NoExec \notin Execs
    /\ Legacy \subseteq Execs
    /\ Verifier \notin Requests
    /\ NoHost \notin Hosts /\ Deleted \notin Hosts /\ "local" \notin Hosts
    /\ NoTarget \notin Targets
    /\ NoFp \notin Fingerprints
    /\ TTL \in Nat /\ VerifyWindow \in Nat
    /\ CapInputs \subseteq Nat /\ WindowInputs \subseteq Nat
    /\ Deployments \subseteq [secure : BOOLEAN, sandbox : BOOLEAN]
    /\ Sources \subseteq {"runbook", "llm-generated"}
    /\ AlertEvents \subseteq {"resolve", "fire", "mute", "list"}
    /\ MaxTime \in Nat /\ MaxCrashes \in Nat /\ MaxFaults \in Nat

VARIABLES
    \* the database
    status,      \* status column of each row, "absent" when there is no row
    snap,        \* what Create froze: fingerprint, source, script, target, expiry
    executedAt,  \* executed_at column (set to the approval time)
    cfg,         \* the org's ds_remediation_config row
    inventory,   \* host of each target, NoHost before the row exists, Deleted after
    \* the server process
    op,          \* each request's (or the verifier's) handler position
    sel,         \* each selector's position
    ver,         \* the verifier's tick: phase, captured time, rows to visit
    secure,      \* an encryption master key is configured (not aiCipherInsecure)
    sandbox,     \* the local sandbox tools exist (or DS_APM_REMED_SANDBOX=off)
    \* the environment
    clock,
    firing,      \* fingerprints whose alert condition holds
    hidden,      \* fingerprints the active-alert listing leaves out
    crashes, faults,
    \* history, read by no action
    runs,        \* how many times the row's script was started
    place,       \* where it ran last: "local", a host, or "nowhere"
    exit,        \* how the last run ended: "none", "ok" or "bad"
    quiet,       \* the alert was not listed as active at some time since success
    maxCap,      \* largest concurrency cap configured so far
    optedIn      \* execution was enabled at some time

dbVars   == <<status, snap, executedAt, cfg, inventory>>
procVars == <<op, sel, ver, secure, sandbox>>
envVars  == <<clock, firing, hidden, crashes, faults>>
histVars == <<runs, place, exit, quiet, maxCap, optedIn>>
vars     == <<dbVars, procVars, envVars, histVars>>

Procs == Requests \cup {Verifier}

Idle == [pc |-> "idle", id |-> NoExec, cap |-> 0, from |-> "none", to |-> "none"]

NoTick == [phase |-> "idle", now |-> 0, todo |-> {}]

NoSnap == [fp |-> NoFp, source |-> "none", script |-> "none",
           target |-> NoTarget, host |-> NoHost, expiresAt |-> 0]

NoSelection == [pc |-> "idle", row |-> NoSnap]

(* A proposal an earlier life of the server left behind. An LLM script of a *)
(* release without the static gate may be one the gate would refuse today   *)
(* (runRemediation, comment above the re-check).                            *)
LegacySnap(f, source, script) ==
    [NoSnap EXCEPT !.fp = f, !.source = source, !.script = script, !.expiresAt = TTL]

-----------------------------------------------------------------------------
(* Rows, as the store's queries see them. *)

Executing == {e \in Execs : status[e] = "executing"}

ListByStatus(s) == {e \in Execs : status[e] = s}

CountActiveByOrg == Cardinality(Executing)

(* Mutant: only a proposal that waits for an answer is reused. *)
ListProposedByFingerprint(f) == {e \in Execs : snap[e].fp = f /\ status[e] = "proposed"}

ListActiveByFingerprint(f) ==
    {e \in Execs : snap[e].fp = f /\ status[e] \notin Terminal \cup {"absent"}}

(* Configuration: zero-valued knobs are backfilled before they are stored. *)
DefaultMaxConcurrent == 1

WithDefaults(c) ==
    [enabled |-> c.enabled,
     max     |-> IF c.max = 0 THEN DefaultMaxConcurrent ELSE c.max,
     window  |-> IF c.window = 0 THEN VerifyWindow ELSE c.window]

(* What GetAlerts (active, not silenced, not inhibited) answers. *)
IsFiring(f) == f \in firing /\ f \notin hidden

Denied(e) == snap[e].source = "llm-generated" /\ snap[e].script = "denied"

NeedsSandbox(e) == snap[e].source = "llm-generated" /\ snap[e].target = NoTarget

-----------------------------------------------------------------------------
Init ==
    /\ status = [e \in Execs |-> IF e \in Legacy THEN "proposed" ELSE "absent"]
    /\ \E fp \in [Legacy -> Fingerprints], source \in Sources :
       \E script \in IF source = "runbook" THEN {"clean"} ELSE {"clean", "denied"} :
         snap = [e \in Execs |-> IF e \in Legacy THEN LegacySnap(fp[e], source, script) ELSE NoSnap]
    /\ executedAt = [e \in Execs |-> 0]
    /\ cfg = [enabled |-> FALSE, max |-> DefaultMaxConcurrent, window |-> VerifyWindow]
    /\ inventory \in [Targets -> Hosts \cup {NoHost}]
    /\ op = [p \in Procs |-> Idle]
    /\ sel = [s \in Selectors |-> NoSelection]
    /\ ver = NoTick
    /\ \E d \in Deployments : secure = d.secure /\ sandbox = d.sandbox
    /\ clock = 0
    /\ firing = Fingerprints
    /\ hidden = {}
    /\ crashes = 0
    /\ faults = 0
    /\ runs = [e \in Execs |-> 0]
    /\ place = [e \in Execs |-> "nowhere"]
    /\ exit = [e \in Execs |-> "none"]
    /\ quiet = [e \in Execs |-> FALSE]
    /\ maxCap = DefaultMaxConcurrent
    /\ optedIn = FALSE

-----------------------------------------------------------------------------
(* Proposing: Selector.Select, called by the dispatch hook of a notified    *)
(* alert. The config and the active proposals are read before the LLM call, *)
(* the target is frozen and the row created after it.                       *)

SelectConfig(s, f) ==
    /\ sel[s].pc = "idle"
    /\ cfg.enabled
    /\ sel' = [sel EXCEPT ![s] = [pc |-> "active", row |-> [NoSnap EXCEPT !.fp = f]]]
    /\ UNCHANGED <<dbVars, op, ver, secure, sandbox, envVars, histVars>>

(* A failing ListActiveByFingerprint falls through to the LLM call. *)
SelectActive(s) ==
    /\ sel[s].pc = "active"
    /\ \/ /\ ListActiveByFingerprint(sel[s].row.fp) # {}
          /\ sel' = [sel EXCEPT ![s] = NoSelection]
          /\ UNCHANGED faults
       \/ /\ ListActiveByFingerprint(sel[s].row.fp) = {}
          /\ sel' = [sel EXCEPT ![s].pc = "llm"]
          /\ UNCHANGED faults
       \/ /\ faults < MaxFaults
          /\ faults' = faults + 1
          /\ sel' = [sel EXCEPT ![s].pc = "llm"]
    /\ UNCHANGED <<dbVars, op, ver, secure, sandbox, clock, firing, hidden, crashes, histVars>>

(* No provider, LLM error or timeout, unusable answer, a fallback script    *)
(* the static gate refuses, or a failing Create: no proposal.               *)
SelectNothing(s) ==
    /\ sel[s].pc \in {"llm", "create"}
    /\ sel' = [sel EXCEPT ![s] = NoSelection]
    /\ UNCHANGED <<dbVars, op, ver, secure, sandbox, envVars, histVars>>

(* freezeTargetSnapshot: the resolved target's connection parameters; any   *)
(* resolve failure leaves the row local.                                    *)
FrozenTargets ==
    {[target |-> NoTarget, host |-> NoHost]} \cup
    {[target |-> t, host |-> inventory[t]] : t \in {u \in Targets : inventory[u] \in Hosts}}

(* The LLM's answer is turned into a row: createExecution up to Create. *)
SelectFreeze(s, source, frozen) ==
    /\ sel[s].pc = "llm"
    /\ sel' = [sel EXCEPT ![s] =
                 [pc  |-> "create",
                  row |-> [fp |-> sel[s].row.fp, source |-> source, script |-> "clean",
                           target |-> frozen.target, host |-> frozen.host,
                           expiresAt |-> clock + TTL]]]
    /\ UNCHANGED <<dbVars, op, ver, secure, sandbox, envVars, histVars>>

SelectCreate(s, e) ==
    /\ sel[s].pc = "create"
    /\ status[e] = "absent"
    /\ status' = [status EXCEPT ![e] = "proposed"]
    /\ snap' = [snap EXCEPT ![e] = sel[s].row]
    /\ sel' = [sel EXCEPT ![s] = NoSelection]
    /\ UNCHANGED <<executedAt, cfg, inventory, op, ver, secure, sandbox, envVars, histVars>>

Select ==
    \E s \in Selectors :
        \/ \E f \in Fingerprints : SelectConfig(s, f)
        \/ SelectActive(s)
        \/ SelectNothing(s)
        \/ \E source \in Sources, frozen \in FrozenTargets : SelectFreeze(s, source, frozen)
        \/ \E e \in Execs : SelectCreate(s, e)

-----------------------------------------------------------------------------
(* ApproveRemediation: config, count, conditional UPDATE, reload, spawn.    *)

ApproveConfig(r, e) ==
    /\ op[r].pc = "idle"
    /\ status[e] # "absent"
    /\ cfg.enabled
    /\ op' = [op EXCEPT ![r] = [Idle EXCEPT !.pc = "count", !.id = e, !.cap = cfg.max]]
    /\ UNCHANGED <<dbVars, sel, ver, secure, sandbox, envVars, histVars>>

ApproveCount(r) ==
    /\ op[r].pc = "count"
    /\ op' = [op EXCEPT ![r] = IF CountActiveByOrg >= op[r].cap
                                THEN Idle ELSE [@ EXCEPT !.pc = "transition"]]
    /\ UNCHANGED <<dbVars, sel, ver, secure, sandbox, envVars, histVars>>

(* Mutants of the WHERE clause: the status or the count is not re-checked. *)
WinsWithoutStatus(e, cap) == status[e] # "absent" /\ CountActiveByOrg < cap
WinsWithoutCount(e, cap) == status[e] = "proposed"

TransitionWins(e, cap) ==
    /\ status[e] = "proposed"
    /\ CountActiveByOrg < cap

TransitionToExecuting(r) ==
    LET e == op[r].id IN
    /\ op[r].pc = "transition"
    /\ \/ /\ TransitionWins(e, op[r].cap)
          /\ status' = [status EXCEPT ![e] = "executing"]
          /\ executedAt' = [executedAt EXCEPT ![e] = clock]
          /\ op' = [op EXCEPT ![r].pc = "load"]
       \/ /\ ~TransitionWins(e, op[r].cap)
          /\ op' = [op EXCEPT ![r] = Idle]
          /\ UNCHANGED <<status, executedAt>>
    /\ UNCHANGED <<snap, cfg, inventory, sel, ver, secure, sandbox, envVars, histVars>>

(* Mutant: the handler answers 202 without spawning the goroutine. *)
ApproveLoadNoSpawn(r) ==
    /\ op[r].pc = "load"
    /\ op' = [op EXCEPT ![r] = Idle]
    /\ UNCHANGED <<dbVars, sel, ver, secure, sandbox, envVars, histVars>>

(* The reload succeeds and the goroutine is spawned. *)
ApproveLoad(r) ==
    /\ op[r].pc = "load"
    /\ op' = [op EXCEPT ![r].pc = "gate"]
    /\ UNCHANGED <<dbVars, sel, ver, secure, sandbox, envVars, histVars>>

(* A statement of the handler fails (store error, or the client hung up and *)
(* the request context is cancelled): a 500. When it is the reload, the row *)
(* is executing already and nobody runs it.                                 *)
ApproveFails(r) ==
    /\ op[r].pc \in {"count", "transition", "load"}
    /\ faults < MaxFaults
    /\ faults' = faults + 1
    /\ op' = [op EXCEPT ![r] = Idle]
    /\ UNCHANGED <<dbVars, sel, ver, secure, sandbox, clock, firing, hidden, crashes, histVars>>

Approve ==
    \E r \in Requests :
        \/ \E e \in Execs : ApproveConfig(r, e)
        \/ ApproveCount(r)
        \/ TransitionToExecuting(r)
        \/ ApproveLoad(r)
        \/ ApproveFails(r)

-----------------------------------------------------------------------------
(* runRemediation: the goroutine of an approved request. *)

Record(r, to) == op' = [op EXCEPT ![r].pc = "record", ![r].to = to]

(* Mutant: the script is not checked again before it runs. *)
RunGateSkipped(r) ==
    /\ op[r].pc = "gate"
    /\ op' = [op EXCEPT ![r].pc = IF snap[op[r].id].target = NoTarget THEN "exec" ELSE "target"]
    /\ UNCHANGED <<dbVars, sel, ver, secure, sandbox, envVars, histVars>>

RunGate(r) ==
    LET e == op[r].id IN
    /\ op[r].pc = "gate"
    /\ IF Denied(e) THEN Record(r, "failed")
       ELSE op' = [op EXCEPT ![r].pc = IF snap[e].target = NoTarget THEN "exec" ELSE "target"]
    /\ UNCHANGED <<dbVars, sel, ver, secure, sandbox, envVars, histVars>>

(* The live inventory contributes the credential only; it may be missing,   *)
(* unreadable or sealed under another key.                                  *)
RunLoadTarget(r) ==
    LET usable == secure /\ inventory[snap[op[r].id].target] \in Hosts IN
    /\ op[r].pc = "target"
    /\ \/ usable /\ op' = [op EXCEPT ![r].pc = "exec"]
       \/ Record(r, "failed")
    /\ UNCHANGED <<dbVars, sel, ver, secure, sandbox, envVars, histVars>>

PlaceOf(e) == IF snap[e].target = NoTarget THEN "local" ELSE snap[e].host

(* Executor.Run up to the transport's start; an LLM script without a local  *)
(* sandbox is refused before anything is started.                           *)
RunStart(r) ==
    LET e == op[r].id IN
    /\ op[r].pc = "exec"
    /\ IF NeedsSandbox(e) /\ ~sandbox
       THEN /\ Record(r, "failed")
            /\ UNCHANGED <<runs, place>>
       ELSE /\ op' = [op EXCEPT ![r].pc = "running"]
            /\ runs' = [runs EXCEPT ![e] = @ + 1]
            /\ place' = [place EXCEPT ![e] = PlaceOf(e)]
    /\ UNCHANGED <<dbVars, sel, ver, secure, sandbox, envVars, exit, quiet, maxCap, optedIn>>

StatusOf(x) == IF x = "ok" THEN "succeeded" ELSE "failed"

(* The script ends, fails or is killed at the hard timeout. *)
RunEnd(r, x) ==
    LET e == op[r].id IN
    /\ op[r].pc = "running"
    /\ exit' = [exit EXCEPT ![e] = x]
    /\ Record(r, StatusOf(x))
    /\ UNCHANGED <<dbVars, sel, ver, secure, sandbox, envVars, runs, place, quiet, maxCap, optedIn>>

Run ==
    \E r \in Requests :
        \/ RunGate(r)
        \/ RunLoadTarget(r)
        \/ RunStart(r)
        \/ \E x \in {"ok", "bad"} : RunEnd(r, x)

-----------------------------------------------------------------------------
(* Store.Transition, shared by the runner, the reject handler and the       *)
(* verifier: read and validate, then UPDATE ... WHERE status = <read>.      *)

TransitionGet(p) ==
    LET e == op[p].id IN
    /\ op[p].pc = "record"
    /\ op' = [op EXCEPT ![p] = IF ValidateTransition(status[e], @.to)
                                THEN [@ EXCEPT !.pc = "update", !.from = status[e]]
                                ELSE Idle]
    /\ UNCHANGED <<dbVars, sel, ver, secure, sandbox, envVars, histVars>>

(* Mutant: the UPDATE does not compare the status it read. *)
RowUnchangedIgnored(e, from) == status[e] # "absent"

RowUnchanged(e, from) == status[e] = from

(* Zero rows affected is an error every caller ignores or reports. *)
TransitionUpdate(p) ==
    LET e == op[p].id
        wins == RowUnchanged(e, op[p].from) IN
    /\ op[p].pc = "update"
    /\ status' = IF wins THEN [status EXCEPT ![e] = op[p].to] ELSE status
    /\ quiet' = IF wins /\ op[p].to = "succeeded"
                THEN [quiet EXCEPT ![e] = ~IsFiring(snap[e].fp)] ELSE quiet
    /\ op' = [op EXCEPT ![p] = Idle]
    /\ UNCHANGED <<snap, executedAt, cfg, inventory, sel, ver, secure, sandbox, envVars,
                   runs, place, exit, maxCap, optedIn>>

(* A store error, or the goroutine's context ran out: the change is lost.   *)
TransitionFails(p) ==
    /\ op[p].pc \in {"record", "update"}
    /\ faults < MaxFaults
    /\ faults' = faults + 1
    /\ op' = [op EXCEPT ![p] = Idle]
    /\ UNCHANGED <<dbVars, sel, ver, secure, sandbox, clock, firing, hidden, crashes, histVars>>

Transition == \E p \in Procs : TransitionGet(p) \/ TransitionUpdate(p) \/ TransitionFails(p)

RejectRemediation(r, e) ==
    /\ op[r].pc = "idle"
    /\ status[e] # "absent"
    /\ op' = [op EXCEPT ![r] = [Idle EXCEPT !.pc = "record", !.id = e, !.to = "rejected"]]
    /\ UNCHANGED <<dbVars, sel, ver, secure, sandbox, envVars, histVars>>

Reject == \E r \in Requests, e \in Execs : RejectRemediation(r, e)

-----------------------------------------------------------------------------
(* Verifier.Tick: the time is captured once, the two lists are snapshots.   *)

TickBegin ==
    /\ ver.phase = "idle"
    /\ ver' = [phase |-> "expire", now |-> clock, todo |-> ListByStatus("proposed")]
    /\ UNCHANGED <<dbVars, op, sel, secure, sandbox, envVars, histVars>>

(* Mutant: a proposal expires at its deadline and not after it. *)
StaleAtDeadline(e) == ver.now >= snap[e].expiresAt

Stale(e) == ver.now > snap[e].expiresAt

(* Start a Transition on behalf of the verifier. *)
VerifierMoves(e, to) ==
    op' = [op EXCEPT ![Verifier] = [Idle EXCEPT !.pc = "record", !.id = e, !.to = to]]

TickExpire(e) ==
    /\ ver.phase = "expire" /\ op[Verifier].pc = "idle" /\ e \in ver.todo
    /\ ver' = [ver EXCEPT !.todo = @ \ {e}]
    /\ IF Stale(e) THEN VerifierMoves(e, "expired") ELSE UNCHANGED op
    /\ UNCHANGED <<dbVars, sel, secure, sandbox, envVars, histVars>>

TickListSucceeded ==
    /\ ver.phase = "expire" /\ op[Verifier].pc = "idle" /\ ver.todo = {}
    /\ ver' = [ver EXCEPT !.phase = "verify", !.todo = ListByStatus("succeeded")]
    /\ UNCHANGED <<dbVars, op, sel, secure, sandbox, envVars, histVars>>

WindowElapsed(e) == ver.now > executedAt[e] + VerifyWindow

(* Mutant: the window's end is taken for the alert's. *)
TickVerifyOnTime(e) ==
    /\ ver.phase = "verify" /\ op[Verifier].pc = "idle" /\ e \in ver.todo
    /\ ver' = [ver EXCEPT !.todo = @ \ {e}]
    /\ IF ~IsFiring(snap[e].fp) \/ WindowElapsed(e) THEN VerifierMoves(e, "verified")
       ELSE UNCHANGED op
    /\ UNCHANGED <<dbVars, sel, secure, sandbox, envVars, histVars>>

TickVerify(e) ==
    /\ ver.phase = "verify" /\ op[Verifier].pc = "idle" /\ e \in ver.todo
    /\ ver' = [ver EXCEPT !.todo = @ \ {e}]
    /\ IF ~IsFiring(snap[e].fp) THEN VerifierMoves(e, "verified")
       ELSE IF WindowElapsed(e) THEN VerifierMoves(e, "unresolved")
       ELSE UNCHANGED op
    /\ UNCHANGED <<dbVars, sel, secure, sandbox, envVars, histVars>>

(* IsFiring fails: the row is skipped and met again on the next tick. *)
TickLookupFails(e) ==
    /\ ver.phase = "verify" /\ op[Verifier].pc = "idle" /\ e \in ver.todo
    /\ faults < MaxFaults
    /\ faults' = faults + 1
    /\ ver' = [ver EXCEPT !.todo = @ \ {e}]
    /\ UNCHANGED <<dbVars, op, sel, secure, sandbox, clock, firing, hidden, crashes, histVars>>

TickEnd ==
    /\ ver.phase = "verify" /\ op[Verifier].pc = "idle" /\ ver.todo = {}
    /\ ver' = NoTick
    /\ UNCHANGED <<dbVars, op, sel, secure, sandbox, envVars, histVars>>

(* The second ListByStatus fails and ends the pass. *)
TickAborts ==
    /\ ver.phase = "expire" /\ op[Verifier].pc = "idle" /\ ver.todo = {}
    /\ faults < MaxFaults
    /\ faults' = faults + 1
    /\ ver' = NoTick
    /\ UNCHANGED <<dbVars, op, sel, secure, sandbox, clock, firing, hidden, crashes, histVars>>

TickStep ==
    \/ TickBegin
    \/ \E e \in Execs : TickExpire(e) \/ TickVerify(e) \/ TickLookupFails(e)
    \/ TickListSucceeded
    \/ TickEnd
    \/ TickAborts

-----------------------------------------------------------------------------
(* Administration: the config row and the target inventory. *)

UpdateRemediationConfig(c) ==
    /\ cfg' = WithDefaults(c)
    /\ maxCap' = IF cfg'.max > maxCap THEN cfg'.max ELSE maxCap
    /\ optedIn' = (optedIn \/ c.enabled)
    /\ UNCHANGED <<status, snap, executedAt, inventory, procVars, envVars, runs, place, exit, quiet>>

(* A new target seals a key, which needs the master key; an edit that keeps *)
(* the stored key does not. A target's id is never used again.              *)
CreateRemediationTarget(t, h) ==
    /\ secure
    /\ inventory[t] = NoHost
    /\ inventory' = [inventory EXCEPT ![t] = h]
    /\ UNCHANGED <<status, snap, executedAt, cfg, procVars, envVars, histVars>>

UpdateRemediationTarget(t, h) ==
    /\ inventory[t] \in Hosts
    /\ inventory' = [inventory EXCEPT ![t] = h]
    /\ UNCHANGED <<status, snap, executedAt, cfg, procVars, envVars, histVars>>

DeleteRemediationTarget(t) ==
    /\ inventory[t] \in Hosts
    /\ inventory' = [inventory EXCEPT ![t] = Deleted]
    /\ UNCHANGED <<status, snap, executedAt, cfg, procVars, envVars, histVars>>

Admin ==
    \/ \E c \in [enabled : BOOLEAN, max : CapInputs, window : WindowInputs] :
          UpdateRemediationConfig(c)
    \/ \E t \in Targets :
          \/ \E h \in Hosts : CreateRemediationTarget(t, h) \/ UpdateRemediationTarget(t, h)
          \/ DeleteRemediationTarget(t)

-----------------------------------------------------------------------------
(* Environment: time, alerts, and a crash followed by a restart. *)

ClockTick ==
    /\ clock < MaxTime
    /\ clock' = clock + 1
    /\ UNCHANGED <<dbVars, procVars, firing, hidden, crashes, faults, histVars>>

(* History: the alerts of F leave the active listing. *)
QuietNow(F) ==
    [e \in Execs |-> quiet[e] \/ (status[e] = "succeeded" /\ snap[e].fp \in F)]

AlertResolves(f) ==
    /\ "resolve" \in AlertEvents
    /\ f \in firing
    /\ firing' = firing \ {f}
    /\ quiet' = QuietNow({f})
    /\ UNCHANGED <<dbVars, procVars, clock, hidden, crashes, faults,
                   runs, place, exit, maxCap, optedIn>>

AlertFires(f) ==
    /\ "fire" \in AlertEvents
    /\ f \notin firing
    /\ firing' = firing \cup {f}
    /\ UNCHANGED <<dbVars, procVars, clock, hidden, crashes, faults, histVars>>

(* A silence or an inhibition takes the alert out of the active listing. *)
AlertMuted(f) ==
    /\ "mute" \in AlertEvents
    /\ f \notin hidden
    /\ hidden' = hidden \cup {f}
    /\ quiet' = QuietNow({f})
    /\ UNCHANGED <<dbVars, procVars, clock, firing, crashes, faults,
                   runs, place, exit, maxCap, optedIn>>

(* The silence ends, or the rule evaluation re-posts a forgotten alert. *)
AlertListed(f) ==
    /\ "list" \in AlertEvents
    /\ f \in hidden
    /\ hidden' = hidden \ {f}
    /\ UNCHANGED <<dbVars, procVars, clock, firing, crashes, faults, histVars>>

(* Mutant: start-up takes interrupted rows for done. *)
CrashRestartSucceeds ==
    /\ crashes < MaxCrashes
    /\ crashes' = crashes + 1
    /\ status' = [e \in Execs |-> IF status[e] = "executing" THEN "succeeded" ELSE status[e]]
    /\ op' = [p \in Procs |-> Idle]
    /\ sel' = [s \in Selectors |-> NoSelection]
    /\ ver' = NoTick
    /\ hidden' = Fingerprints
    /\ UNCHANGED <<snap, executedAt, cfg, inventory, secure, sandbox, clock, firing, faults, histVars>>

(* Every goroutine is gone, the rows stay; the alert listing starts empty,  *)
(* and the master key may have been added or removed.                       *)
CrashRestart ==
    /\ crashes < MaxCrashes
    /\ crashes' = crashes + 1
    /\ op' = [p \in Procs |-> Idle]
    /\ sel' = [s \in Selectors |-> NoSelection]
    /\ ver' = NoTick
    /\ secure' \in {d.secure : d \in Deployments}
    /\ hidden' = Fingerprints
    /\ quiet' = QuietNow(Fingerprints)
    /\ UNCHANGED <<dbVars, sandbox, clock, firing, faults, runs, place, exit, maxCap, optedIn>>

Environment ==
    \/ ClockTick
    \/ \E f \in Fingerprints :
          AlertResolves(f) \/ AlertFires(f) \/ AlertMuted(f) \/ AlertListed(f)
    \/ CrashRestart

-----------------------------------------------------------------------------
Next == Select \/ Approve \/ Run \/ Transition \/ Reject \/ TickStep \/ Admin \/ Environment

Spec == Init /\ [][Next]_vars

(* Handlers and goroutines that have started keep running (the executor's   *)
(* hard timeout ends every script), the verifier's ticker fires every 30 s, *)
(* and time passes. Operators, admins, alerts, crashes and faults owe       *)
(* nothing.                                                                 *)
RequestStep(r) ==
    \/ ApproveCount(r) \/ TransitionToExecuting(r) \/ ApproveLoad(r)
    \/ RunGate(r) \/ RunLoadTarget(r) \/ RunStart(r) \/ \E x \in {"ok", "bad"} : RunEnd(r, x)
    \/ TransitionGet(r) \/ TransitionUpdate(r)

VerifierStep ==
    \/ TickBegin \/ TickListSucceeded \/ TickEnd
    \/ \E e \in Execs : TickExpire(e) \/ TickVerify(e)
    \/ TransitionGet(Verifier) \/ TransitionUpdate(Verifier)

FairSpec ==
    /\ Spec
    /\ \A r \in Requests : WF_vars(RequestStep(r))
    /\ WF_vars(VerifierStep)
    /\ WF_vars(ClockTick)

-----------------------------------------------------------------------------
(* A request, or the goroutine it spawned, that is responsible for row e. *)
Responsible(x) ==
    \/ x.pc \in {"load", "gate", "target", "exec", "running"}
    \/ x.pc \in {"record", "update"} /\ x.to \in {"succeeded", "failed"}

Owns(r, e) == op[r].id = e /\ Responsible(op[r])

-----------------------------------------------------------------------------
(* Properties *)

Rows == [fp : Fingerprints \cup {NoFp}, source : {"none", "runbook", "llm-generated"},
         script : {"none", "clean", "denied"}, target : Targets \cup {NoTarget},
         host : Hosts \cup {NoHost}, expiresAt : Nat]

Steps == {"idle", "count", "transition", "load", "gate", "target", "exec", "running",
          "record", "update"}

Positions == [pc : Steps, id : Execs \cup {NoExec}, cap : Nat,
              from : Statuses \cup {"none"}, to : Statuses \cup {"none"}]

(* Every variable keeps the type the code's columns and locals give it.     *)
TypeOK ==
    /\ status \in [Execs -> Statuses \cup {"absent"}]
    /\ snap \in [Execs -> Rows]
    /\ executedAt \in [Execs -> Nat]
    /\ cfg \in [enabled : BOOLEAN, max : Nat \ {0}, window : Nat]
    /\ inventory \in [Targets -> Hosts \cup {NoHost, Deleted}]
    /\ op \in [Procs -> Positions]
    /\ sel \in [Selectors -> [pc : {"idle", "active", "llm", "create"}, row : Rows]]
    /\ ver \in [phase : {"idle", "expire", "verify"}, now : Nat, todo : SUBSET Execs]
    /\ secure \in BOOLEAN /\ sandbox \in BOOLEAN
    /\ clock \in Nat
    /\ firing \in SUBSET Fingerprints /\ hidden \in SUBSET Fingerprints
    /\ crashes \in Nat /\ faults \in Nat
    /\ runs \in [Execs -> Nat]
    /\ place \in [Execs -> Hosts \cup {NoHost, "local", "nowhere"}]
    /\ exit \in [Execs -> {"none", "ok", "bad"}]
    /\ quiet \in [Execs -> BOOLEAN]
    /\ maxCap \in Nat /\ optedIn \in BOOLEAN

(* The inductive invariant behind the safety properties.                    *)

(* Positions a process of each kind can be in, and what it wants to write.  *)
PositionsInv ==
    /\ \A r \in Requests :
          /\ op[r].pc # "idle" => op[r].id \in Execs /\ status[op[r].id] # "absent"
          /\ op[r].pc \in {"record", "update"} => op[r].to \in {"rejected", "succeeded", "failed"}
    /\ op[Verifier].pc \in {"idle", "record", "update"}
    /\ op[Verifier].pc # "idle" =>
          /\ op[Verifier].id \in Execs
          /\ op[Verifier].to \in {"expired", "verified", "unresolved"}
    /\ \A p \in Procs : op[p].pc = "update" => op[p].to \in AllowedTransitions(op[p].from)

(* A row is owned by at most one request, and an owned row is executing.    *)
OwnershipInv ==
    \A r \in Requests : \A e \in Execs : Owns(r, e) =>
        /\ status[e] = "executing"
        /\ \A q \in Requests : Owns(q, e) => q = r

(* How often a row's script was started, by status and by owner's position. *)
RunsInv ==
    /\ \A e \in Execs :
          /\ runs[e] \in {0, 1}
          /\ status[e] \in {"absent", "proposed", "rejected", "expired"} => runs[e] = 0
          /\ status[e] \in {"succeeded", "verified", "unresolved"} => runs[e] = 1 /\ exit[e] = "ok"
    /\ \A r \in Requests :
          /\ op[r].pc \in {"load", "gate", "target", "exec"} => runs[op[r].id] = 0
          /\ op[r].pc = "running" => runs[op[r].id] = 1
          /\ op[r].pc \in {"record", "update"} /\ op[r].to = "succeeded"
                => runs[op[r].id] = 1 /\ exit[op[r].id] = "ok"

(* Caps in flight are caps that were configured. *)
CapInv ==
    /\ cfg.max <= maxCap
    /\ \A r \in Requests : op[r].cap <= maxCap
    /\ Cardinality(Executing) <= maxCap

IndInv == TypeOK /\ PositionsInv /\ OwnershipInv /\ RunsInv /\ CapInv

(* A script is started at most once per execution row, whatever approve     *)
(* requests race, and also when the server crashes and restarts between     *)
(* any two statements (TransitionToExecuting, "no double-execution").       *)
AtMostOneRun == \A e \in Execs : runs[e] <= 1

(* A row an operator rejected, or the verifier expired, was never run and   *)
(* will not be: approve, reject and expire race on the same proposed row    *)
(* and one of them wins (Transition's compare-and-set).                     *)
ClosedRowsNeverRun ==
    \A e \in Execs : status[e] \in {"proposed", "rejected", "expired"} => runs[e] = 0

(* The executing rows never outnumber the largest cap ever configured, even *)
(* though requests decide with a config read earlier (the count is part of  *)
(* TransitionToExecuting's UPDATE).                                         *)
CapRespected == Cardinality(Executing) <= maxCap

(* A goroutine is inside Executor.Run only while its row is "executing", and *)
(* no two of them for the same row, so the cap on rows bounds the runs.     *)
RunningScriptsHaveRows ==
    \A r \in Requests : op[r].pc = "running" =>
        /\ status[op[r].id] = "executing"
        /\ \A q \in Requests \ {r} : op[q].pc = "running" => op[q].id # op[r].id

(* Where a script ran is where it was frozen to run when it was proposed:   *)
(* a remote row never falls back to the local host, and later edits of the  *)
(* inventory do not move it (runRemediation's fail-closed gates).           *)
RanWhereFrozen ==
    \A e \in Execs : runs[e] > 0 =>
        place[e] = IF snap[e].target = NoTarget THEN "local" ELSE snap[e].host

(* An LLM script the static gate refuses is never started, legacy rows      *)
(* included, and an LLM script runs on the server only where the sandbox     *)
(* could be set up (or the operator switched it off).                       *)
GatedScriptsNeverRun ==
    \A e \in Execs : runs[e] > 0 /\ snap[e].source = "llm-generated" =>
        /\ snap[e].script = "clean"
        /\ place[e] = "local" => sandbox

(* Until an admin enables execution for the first time nothing is executed. *)
InertUntilOptIn ==
    optedIn \/ \A e \in Execs : runs[e] = 0 /\ status[e] \in {"absent", "proposed", "rejected", "expired"}

(* Every start of a script was authorised: for that place, that script and  *)
(* after the opt-in, whatever was edited, restarted or left by an older     *)
(* release between the proposal and the start.                              *)
StartsAreAuthorised == RanWhereFrozen /\ GatedScriptsNeverRun /\ InertUntilOptIn

(* A recorded success is the result of this row's one run, which exited 0;  *)
(* no crash, lost update or other writer fabricates one.                    *)
SuccessIsReal ==
    \A e \in Execs : status[e] \in {"succeeded", "verified", "unresolved"} =>
        runs[e] = 1 /\ exit[e] = "ok"

(* The detailed system implements the lifecycle it promises: no step of any *)
(* actor re-opens a finished row, starts one past the limit, runs a script  *)
(* twice or off a row that is not executing.                                *)
Lifecycle == INSTANCE RemediationLifecycle WITH state <- status, ran <- runs, limit <- maxCap

ImplementsLifecycle == Lifecycle!Spec

(* A row is not declared unresolved before the verifier's own window, ten   *)
(* minutes from its approval whatever verifyWindowSeconds the org stored,   *)
(* has passed, and does not expire before its deadline, although the        *)
(* verifier decides with a time it captured earlier.                        *)
NoEarlyVerdict ==
    \A e \in Execs :
        /\ status[e] = "unresolved" => clock > executedAt[e] + VerifyWindow
        /\ status[e] = "expired" => clock > snap[e].expiresAt

(* Proposals of an alert that are open, and dispatches of it that have      *)
(* looked for an open proposal and may still create one.                    *)
Open(f) == {e \in Execs : snap[e].fp = f /\ status[e] \notin Terminal \cup {"absent"}}
Committed(f) == {s \in Selectors : sel[s].pc \in {"llm", "create"} /\ sel[s].row.fp = f}

(* What the look-up before the LLM call achieves ("reuse a still-active      *)
(* proposal for the same failure signature", Selector.Select). Dispatches   *)
(* that overlap all find nothing and each propose, so it is not one open    *)
(* proposal per alert; but however often an alert is dispatched, its open   *)
(* proposals and those that may still be added never outnumber the          *)
(* dispatches that ran at once, or the rows an older release left, but for  *)
(* one for every look-up that failed.                                       *)
OpenProposalsBounded ==
    \A f \in Fingerprints : \E n \in {Cardinality(Selectors), Cardinality(Legacy)} :
        Cardinality(Open(f)) + Cardinality(Committed(f)) <= n + faults

(* A verdict of verified rests on a look at the alerts after the success:   *)
(* the alert was missing from the active listing at some time between the   *)
(* script's success and the verdict. Missing is not resolved: a silence, an *)
(* inhibition or a restart empties the listing too (Verifier.Tick).         *)
VerifiedWasQuiet == \A e \in Execs : status[e] = "verified" => quiet[e]

(* Liveness, under FairSpec. *)

(* A proposal nobody answers does not stay open: the verifier expires it.   *)
ProposalsClose ==
    \A e \in Execs : (status[e] = "proposed" /\ snap[e].expiresAt < MaxTime)
                        ~> status[e] # "proposed"

(* Without a crash or a failed store call, an execution that was started    *)
(* comes to an end and frees its place under the cap.                       *)
RunsFinish ==
    \A e \in Execs : status[e] = "executing"
                        ~> (status[e] # "executing" \/ crashes + faults > 0)

(* A success is judged once its window is over, crashes notwithstanding.    *)
SuccessesAreJudged ==
    \A e \in Execs : (status[e] = "succeeded" /\ executedAt[e] + VerifyWindow < MaxTime)
                        ~> status[e] \in {"verified", "unresolved"}

(* Nothing a server has taken on stays open for ever: proposals, runs and   *)
(* successes all come to their end, under FairSpec.                         *)
Progress == ProposalsClose /\ RunsFinish /\ SuccessesAreJudged
=============================================================================
