---------------------------- MODULE CodeRCAQueue ----------------------------
(***************************************************************************)
(* Code root-cause analysis (CF-11) of one organisation: the dispatch       *)
(* hook's trigger and the manual "test run" endpoint admit runs, the        *)
(* workers of one or more server instances claim them under a lease with a  *)
(* fencing token, analyse, deliver and finalize them, and reap runs whose   *)
(* lease ran out.                                                           *)
(*                                                                          *)
(* Admit, ClaimNext, Finalize and Reap are one transaction each, hence one  *)
(* step each; everything between two of them interleaves. A transaction's   *)
(* Now was read before it got the database's single writer.                 *)
(***************************************************************************)
EXTENDS Integers, FiniteSets

CONSTANTS
    Runs,           \* ids of rows of coderca_run
    Keys,           \* dedup keys of alerts (org, service, error signature)
    Manual,         \* stands for the unique key of a manual run
    Admitters,      \* dispatch-hook calls of Trigger.Maybe, enqueue requests
    Workers,        \* worker goroutines, one per server instance
    NoRun, NoKey, Never,
    Days, DayOf,    \* UTC days, and the day of each tick
    DefaultConfig,  \* DefaultCodebaseRCAConfig: switched off
    ConfigInputs,   \* configurations an admin may store
    MaxConcurrent,  \* the engine's concurrency cap
    MaxAttempts,    \* claims before an expired run is failed
    LeaseTTL,       \* lease, in ticks
    MaxLag,         \* age of a transaction's Now when it runs, in ticks
    MaxTime, MaxFaults, LastFault   \* bounds of the model

Configs == [enabled : BOOLEAN, cooldown : Nat \ {0}, perDay : Nat \ {0}, depth : Nat \ {0}]

ASSUME QueueAssumption ==
    /\ IsFiniteSet(Runs) /\ IsFiniteSet(Workers)
    /\ NoRun \notin Runs
    /\ Manual \notin Keys /\ NoKey \notin Keys /\ NoKey # Manual
    /\ MaxTime \in Nat /\ MaxFaults \in Nat /\ LastFault \in Nat /\ MaxLag \in Nat
    /\ DayOf \in [0..MaxTime -> Days]
    /\ Never \notin Nat
    /\ DefaultConfig \in Configs /\ ~DefaultConfig.enabled
    /\ ConfigInputs \subseteq Configs
    /\ MaxConcurrent \in Nat \ {0}
    /\ MaxAttempts \in Nat \ {0}
    /\ LeaseTTL \in Nat \ {0}

VARIABLES
    \* coderca_run
    status,      \* status column, "absent" when there is no row
    dedupKey, created, leaseUntil,
    token,       \* lease_token; 0 stands for the empty one
    attempts,
    \* the other tables
    running,     \* coderca_capacity.running
    admission,   \* coderca_admission.last_admitted_at of each key, or Never
    used,        \* coderca_budget.used of each day
    skips,       \* rows (reason, day) of coderca_skip_stat
    cfg,         \* the org's configuration
    \* the server processes
    adm,         \* each admitter's position, key and the config it read
    wk,          \* each worker's position, run, fencing token and outcome
    \* the environment
    clock, faults,
    \* history, read by no action
    analyses,    \* how many times the agent CLI was started for the run
    delivered,   \* how many times a result of the run was handed off
    maxPerDay, minCooldown   \* extremes of the configurations so far

runVars  == <<status, dedupKey, created, leaseUntil, token, attempts>>
dbVars   == <<runVars, running, admission, used, skips, cfg>>
envVars  == <<clock, faults>>
histVars == <<analyses, delivered, maxPerDay, minCooldown>>
vars     == <<dbVars, adm, wk, envVars, histVars>>

Outcomes == {"done", "failed", "timeout", "unparseable"}

Off == [pc |-> "idle", key |-> NoKey, cfg |-> DefaultConfig]

Resting == [pc |-> "idle", run |-> NoRun, tok |-> 0, out |-> "none"]

InStatus(s) == {r \in Runs : status[r] = s}

(* Now of a transaction: the clock, or what it was when it was read. *)
Nows == {t \in 0..clock : clock - t <= MaxLag}

Init ==
    /\ status = [r \in Runs |-> "absent"]
    /\ dedupKey = [r \in Runs |-> NoKey]
    /\ created = [r \in Runs |-> 0]
    /\ leaseUntil = [r \in Runs |-> 0]
    /\ token = [r \in Runs |-> 0]
    /\ attempts = [r \in Runs |-> 0]
    /\ running = 0
    /\ admission = [k \in Keys |-> Never]
    /\ used = [d \in Days |-> 0]
    /\ skips = {}
    /\ cfg = DefaultConfig
    /\ adm = [a \in Admitters |-> Off]
    /\ wk = [w \in Workers |-> Resting]
    /\ clock = 0
    /\ faults = 0
    /\ analyses = [r \in Runs |-> 0]
    /\ delivered = [r \in Runs |-> 0]
    /\ maxPerDay = DefaultConfig.perDay
    /\ minCooldown = DefaultConfig.cooldown

-----------------------------------------------------------------------------
(* Admission. *)

(* Trigger.Maybe reads the configuration; alerts without an anomaly signal, *)
(* below the severity or without a service stop here as well.               *)
MaybeGates(a, k) ==
    /\ adm[a].pc = "idle"
    /\ cfg.enabled
    /\ adm' = [adm EXCEPT ![a] = [pc |-> "map", key |-> k, cfg |-> cfg]]
    /\ UNCHANGED <<dbVars, wk, envVars, histVars>>

MaybeMapped(a) ==
    /\ adm[a].pc = "map"
    /\ adm' = [adm EXCEPT ![a].pc = "admit"]
    /\ UNCHANGED <<dbVars, wk, envVars, histVars>>

(* The service has no repository (or the lookup fails): counted, no run. *)
MaybeUnmapped(a, now) ==
    /\ adm[a].pc = "map"
    /\ adm' = [adm EXCEPT ![a] = Off]
    /\ skips' = skips \cup {<<"no_repo_mapping", DayOf[now]>>}
    /\ UNCHANGED <<runVars, running, admission, used, cfg, wk, envVars, histVars>>

(* EnqueueCodeRCARun: a manual run under a key nobody else has. *)
EnqueueCodeRCARun(a) ==
    /\ adm[a].pc = "idle"
    /\ adm' = [adm EXCEPT ![a] = [pc |-> "admit", key |-> Manual, cfg |-> cfg]]
    /\ UNCHANGED <<dbVars, wk, envVars, histVars>>

(* Mutant: the cooldown ends a tick early. *)
DedupedTooShort(a, now) ==
    LET k == adm[a].key IN
    /\ k \in Keys
    /\ admission[k] # Never
    /\ now - admission[k] + 1 < adm[a].cfg.cooldown

(* Store.Admit: cooldown, queue depth and budget, in this order. *)
Deduped(a, now) ==
    LET k == adm[a].key IN
    /\ k \in Keys
    /\ admission[k] # Never
    /\ now - admission[k] < adm[a].cfg.cooldown

QueueFull(a) == Cardinality(InStatus("queued")) >= adm[a].cfg.depth

(* Mutant: the conditional increment also passes at the cap. *)
BudgetLeftAtCap(a, d) == used[d] <= adm[a].cfg.perDay

BudgetLeft(a, d) == used[d] < adm[a].cfg.perDay

(* The duplicate's hit_count is a statistic and left out. *)
AdmitDeduped(a, now) ==
    /\ adm[a].pc = "admit"
    /\ Deduped(a, now)
    /\ adm' = [adm EXCEPT ![a] = Off]
    /\ UNCHANGED <<dbVars, wk, envVars, histVars>>

AdmitSkips(a, now) ==
    /\ adm[a].pc = "admit"
    /\ ~Deduped(a, now)
    /\ QueueFull(a) \/ ~BudgetLeft(a, DayOf[now])
    /\ adm' = [adm EXCEPT ![a] = Off]
    /\ skips' = skips \cup {<<IF QueueFull(a) THEN "queue_full" ELSE "budget_exhausted", DayOf[now]>>}
    /\ UNCHANGED <<runVars, running, admission, used, cfg, wk, envVars, histVars>>

PinAdmission(k, now) ==
    admission' = IF k \in Keys THEN [admission EXCEPT ![k] = now] ELSE admission

AdmitRun(a, now, r) ==
    /\ adm[a].pc = "admit"
    /\ ~Deduped(a, now) /\ ~QueueFull(a) /\ BudgetLeft(a, DayOf[now])
    /\ status[r] = "absent"
    /\ status' = [status EXCEPT ![r] = "queued"]
    /\ dedupKey' = [dedupKey EXCEPT ![r] = adm[a].key]
    /\ created' = [created EXCEPT ![r] = now]
    /\ used' = [used EXCEPT ![DayOf[now]] = @ + 1]
    /\ PinAdmission(adm[a].key, now)
    /\ adm' = [adm EXCEPT ![a] = Off]
    /\ UNCHANGED <<leaseUntil, token, attempts, running, skips, cfg, wk, envVars, histVars>>

(* The transaction fails or the trigger's one-second timeout ends it. *)
AdmitFails(a) ==
    /\ adm[a].pc = "admit"
    /\ adm' = [adm EXCEPT ![a] = Off]
    /\ UNCHANGED <<dbVars, wk, envVars, histVars>>

UpdateConfig(c) ==
    /\ cfg' = c
    /\ maxPerDay' = IF c.perDay > maxPerDay THEN c.perDay ELSE maxPerDay
    /\ minCooldown' = IF c.cooldown < minCooldown THEN c.cooldown ELSE minCooldown
    /\ UNCHANGED <<runVars, running, admission, used, skips, adm, wk, envVars, analyses, delivered>>

Admission ==
    \/ \E a \in Admitters :
          \/ \E k \in Keys : MaybeGates(a, k)
          \/ MaybeMapped(a)
          \/ EnqueueCodeRCARun(a)
          \/ AdmitFails(a)
          \/ \E now \in Nows :
                \/ MaybeUnmapped(a, now) \/ AdmitDeduped(a, now) \/ AdmitSkips(a, now)
                \/ \E r \in Runs : AdmitRun(a, now, r)
    \/ \E c \in ConfigInputs : UpdateConfig(c)

-----------------------------------------------------------------------------
(* The worker: Start's select between the poll and the reap tickers, the    *)
(* drain loop, and Engine.ProcessNext with runOne.                          *)

Poll(w) ==
    /\ wk[w].pc = "idle"
    /\ wk' = [wk EXCEPT ![w] = [@ EXCEPT !.pc = "drain"]]
    /\ UNCHANGED <<dbVars, adm, envVars, histVars>>

Claimable(now) == {r \in InStatus("queued") : leaseUntil[r] = 0 \/ leaseUntil[r] < now}

Oldest(S) == {r \in S : \A q \in S : created[r] <= created[q]}

(* Mutant: the token a run was first claimed with is used again. *)
OldToken(r) == 1

(* newRunID: a value no other claim of the run has. *)
FreshToken(r) == attempts[r] + 1

ClaimNext(w, now, r) ==
    /\ wk[w].pc = "drain"
    /\ r \in Oldest(Claimable(now))
    /\ running < MaxConcurrent
    /\ running' = running + 1
    /\ status' = [status EXCEPT ![r] = "running"]
    /\ token' = [token EXCEPT ![r] = FreshToken(r)]
    /\ leaseUntil' = [leaseUntil EXCEPT ![r] = now + LeaseTTL]
    /\ attempts' = [attempts EXCEPT ![r] = @ + 1]
    /\ wk' = [wk EXCEPT ![w] = [pc |-> "prepare", run |-> r, tok |-> FreshToken(r), out |-> "none"]]
    /\ UNCHANGED <<dedupKey, created, admission, used, skips, cfg, adm, envVars, histVars>>

(* Nothing is queued, or the cap is reached: the drain loop ends. *)
ClaimNothing(w, now) ==
    /\ wk[w].pc = "drain"
    /\ Claimable(now) = {} \/ running >= MaxConcurrent
    /\ wk' = [wk EXCEPT ![w] = Resting]
    /\ UNCHANGED <<dbVars, adm, envVars, histVars>>

(* ResolveRepo, Prepare and the prompt, then the agent CLI is started. *)
StartCLI(w) ==
    /\ wk[w].pc = "prepare"
    /\ wk' = [wk EXCEPT ![w] = [@ EXCEPT !.pc = "cli"]]
    /\ analyses' = [analyses EXCEPT ![wk[w].run] = @ + 1]
    /\ UNCHANGED <<dbVars, adm, envVars, delivered, maxPerDay, minCooldown>>

PrepareFails(w) ==
    /\ wk[w].pc = "prepare"
    /\ wk' = [wk EXCEPT ![w] = [@ EXCEPT !.pc = "finalize", !.out = "failed"]]
    /\ UNCHANGED <<dbVars, adm, envVars, histVars>>

(* Only a usable result goes on to delivery. *)
EndCLI(w, out) ==
    /\ wk[w].pc = "cli"
    /\ wk' = [wk EXCEPT ![w] = IF out = "done" THEN [@ EXCEPT !.pc = "deliver"]
                               ELSE [@ EXCEPT !.pc = "finalize", !.out = out]]
    /\ UNCHANGED <<dbVars, adm, envVars, histVars>>

(* Mutant: a failed hand-off is not noticed. *)
OutcomeOfAnyDelivery(ok) == "done"

OutcomeOfDelivery(ok) == IF ok THEN "done" ELSE "failed"

Deliver(w, ok) ==
    /\ wk[w].pc = "deliver"
    /\ wk' = [wk EXCEPT ![w] = [@ EXCEPT !.pc = "finalize", !.out = OutcomeOfDelivery(ok)]]
    /\ delivered' = [delivered EXCEPT ![wk[w].run] = @ + IF ok THEN 1 ELSE 0]
    /\ UNCHANGED <<dbVars, adm, envVars, analyses, maxPerDay, minCooldown>>

(* Mutant: any worker that worked on the run may end it. *)
AnyOwner(r, tok) == status[r] # "absent"

OwnsLease(r, tok) == status[r] = "running" /\ token[r] = tok

Finalize(w) ==
    LET r == wk[w].run IN
    /\ wk[w].pc = "finalize"
    /\ \/ /\ OwnsLease(r, wk[w].tok)
          /\ status' = [status EXCEPT ![r] = wk[w].out]
          /\ leaseUntil' = [leaseUntil EXCEPT ![r] = 0]
          /\ running' = IF running > 0 THEN running - 1 ELSE 0
       \/ /\ ~OwnsLease(r, wk[w].tok)
          /\ UNCHANGED <<status, leaseUntil, running>>
    /\ wk' = [wk EXCEPT ![w] = [Resting EXCEPT !.pc = "drain"]]
    /\ UNCHANGED <<dedupKey, created, token, attempts, admission, used, skips, cfg, adm,
                   envVars, histVars>>

(* Reap: expired leases are given up, then the capacity row is set to the   *)
(* number of running rows whose lease lies after now.                       *)
Expired(now) == {r \in InStatus("running") : leaseUntil[r] > 0 /\ leaseUntil[r] < now}

LiveLeases(now) == {r \in InStatus("running") : leaseUntil[r] > now}

(* Mutant: one attempt too many. *)
RequeueOnceMore(r) == attempts[r] <= MaxAttempts

Requeue(r) == attempts[r] < MaxAttempts

(* Mutant: the capacity row is not reconciled. *)
NotReconciled(now) == running

Reconciled(now) == Cardinality(LiveLeases(now))

Reap(w, now) ==
    /\ wk[w].pc = "idle"
    /\ status' = [r \in Runs |-> IF r \notin Expired(now) THEN status[r]
                                 ELSE IF Requeue(r) THEN "queued" ELSE "failed"]
    /\ token' = [r \in Runs |-> IF r \in Expired(now) THEN 0 ELSE token[r]]
    /\ leaseUntil' = [r \in Runs |-> IF r \in Expired(now) THEN 0 ELSE leaseUntil[r]]
    /\ running' = Reconciled(now)
    /\ UNCHANGED <<dedupKey, created, attempts, admission, used, skips, cfg, adm, wk,
                   envVars, histVars>>

WorkerStep(w) ==
    \/ Poll(w)
    \/ \E now \in Nows :
          \/ \E r \in Runs : ClaimNext(w, now, r)
          \/ ClaimNothing(w, now)
          \/ Reap(w, now)
    \/ StartCLI(w) \/ PrepareFails(w)
    \/ \E out \in Outcomes : EndCLI(w, out)
    \/ \E ok \in BOOLEAN : Deliver(w, ok)
    \/ Finalize(w)

-----------------------------------------------------------------------------
(* The worker's server dies, is shut down, or a store call fails: what it   *)
(* was doing is dropped, the row stays as it is.                            *)
WorkerFails(w) ==
    /\ faults < MaxFaults /\ clock <= LastFault
    /\ wk[w].pc # "idle"
    /\ faults' = faults + 1
    /\ wk' = [wk EXCEPT ![w] = Resting]
    /\ UNCHANGED <<dbVars, adm, clock, histVars>>

ClockTick ==
    /\ clock < MaxTime
    /\ clock' = clock + 1
    /\ UNCHANGED <<dbVars, adm, wk, faults, histVars>>

Next ==
    \/ Admission
    \/ \E w \in Workers : WorkerStep(w) \/ WorkerFails(w)
    \/ ClockTick

Spec == Init /\ [][Next]_vars

(* Workers are goroutines that run on, the agent CLI has a hard timeout,    *)
(* both tickers of Start keep firing and its select does not pass over the  *)
(* reap ticker for ever, and time passes. Alerts, admins and faults owe     *)
(* nothing.                                                                 *)
Working(w) ==
    \/ Poll(w)
    \/ \E now \in Nows : (\E r \in Runs : ClaimNext(w, now, r)) \/ ClaimNothing(w, now)
    \/ StartCLI(w) \/ PrepareFails(w)
    \/ \E out \in Outcomes : EndCLI(w, out)
    \/ \E ok \in BOOLEAN : Deliver(w, ok)
    \/ Finalize(w)

FairSpec ==
    /\ Spec
    /\ \A w \in Workers :
          /\ WF_vars(Working(w))
          /\ SF_vars(\E now \in Nows : Reap(w, now))
    /\ WF_vars(ClockTick)

-----------------------------------------------------------------------------
(* Properties *)

Terminal == Outcomes

Busy == {"prepare", "cli", "deliver", "finalize"}

Positions == [pc : {"idle", "drain"} \cup Busy, run : Runs \cup {NoRun},
              tok : Nat, out : Outcomes \cup {"none"}]

Admitted == {r \in Runs : status[r] # "absent"}

(* Every variable keeps the type the tables and locals give it. *)
TypeOK ==
    /\ status \in [Runs -> {"absent", "queued", "running"} \cup Outcomes]
    /\ dedupKey \in [Runs -> Keys \cup {Manual, NoKey}]
    /\ created \in [Runs -> 0..MaxTime]
    /\ leaseUntil \in [Runs -> Nat]
    /\ token \in [Runs -> Nat]
    /\ attempts \in [Runs -> Nat]
    /\ running \in Nat
    /\ admission \in [Keys -> Nat \cup {Never}]
    /\ used \in [Days -> Nat]
    /\ skips \subseteq {"no_repo_mapping", "queue_full", "budget_exhausted"} \X Days
    /\ cfg \in Configs
    /\ adm \in [Admitters -> [pc : {"idle", "map", "admit"}, key : Keys \cup {Manual, NoKey},
                              cfg : Configs]]
    /\ wk \in [Workers -> Positions]
    /\ clock \in 0..MaxTime
    /\ faults \in Nat
    /\ analyses \in [Runs -> Nat] /\ delivered \in [Runs -> Nat]
    /\ maxPerDay \in Nat /\ minCooldown \in Nat

(* The inductive invariant behind the safety properties. *)

(* Who is about to admit has a key and a configuration that was stored.     *)
Known(c) == c.perDay <= maxPerDay /\ c.cooldown >= minCooldown

AdmittersInv ==
    /\ \A a \in Admitters :
          /\ adm[a].pc = "map" => adm[a].key \in Keys
          /\ adm[a].pc = "admit" => adm[a].key \in Keys \cup {Manual}
          /\ Known(adm[a].cfg)
    /\ Known(cfg) /\ Known(DefaultConfig)

Preparing(r) == {w \in Workers : wk[w].pc = "prepare" /\ wk[w].run = r}

(* Claims are counted, and every claim starts the CLI at most once.         *)
AttemptsInv ==
    \A r \in Runs :
        /\ attempts[r] <= MaxAttempts
        /\ status[r] = "absent" => attempts[r] = 0
        /\ status[r] = "queued" => attempts[r] < MaxAttempts
        /\ analyses[r] + Cardinality(Preparing(r)) <= attempts[r]

Analysing(r) == {w \in Workers : wk[w].pc \in {"cli", "deliver"} /\ wk[w].run = r}

(* Every start of the CLI leads to at most one hand-off.                    *)
HandOffsInv ==
    \A r \in Runs : delivered[r] + Cardinality(Analysing(r)) <= analyses[r]

(* Tokens tell the claims of a run apart; who ends a run as done delivered. *)
OwnersInv ==
    \A w \in Workers : wk[w].pc \in Busy =>
        /\ wk[w].run \in Runs
        /\ status[wk[w].run] # "absent"
        /\ wk[w].tok \in 1..attempts[wk[w].run]
        /\ wk[w].pc = "finalize" => wk[w].out \in Outcomes
        /\ wk[w].out = "done" => delivered[wk[w].run] > 0
        /\ \A v \in Workers :
              wk[v].pc \in Busy /\ wk[v].run = wk[w].run /\ wk[v].tok = wk[w].tok => v = w

(* The budget row counts the day's runs. *)
BudgetInv ==
    \A d \in Days :
        /\ used[d] = Cardinality({r \in Admitted : DayOf[created[r]] = d})
        /\ used[d] <= maxPerDay

(* The admission row of a key has the time of its latest run. *)
AdmissionInv ==
    \A r \in Admitted : dedupKey[r] \in Keys =>
        admission[dedupKey[r]] # Never /\ created[r] <= admission[dedupKey[r]]

(* The fence: of all the workers that hold a run, alive or overtaken by the *)
(* reaper, at most one has a token Finalize accepts.                        *)
OneLiveOwner ==
    \A w, v \in Workers :
        /\ wk[w].pc \in Busy /\ wk[v].pc \in Busy
        /\ wk[w].run = wk[v].run
        /\ OwnsLease(wk[w].run, wk[w].tok) /\ OwnsLease(wk[v].run, wk[v].tok)
        => w = v

(* A run that ended keeps its verdict: no late worker and no reap changes   *)
(* it (Finalize: "a stale owner ... affects zero rows").                    *)
VerdictsAreFinal ==
    [][\A r \in Runs : status[r] \in Terminal => status'[r] = status[r]]_vars

(* The agent CLI is started at most MaxAttempts times for a run, whatever   *)
(* leases expire under live workers (worker.DefaultMaxAttempts).            *)
AnalysesBounded == \A r \in Runs : analyses[r] <= MaxAttempts

(* No day has more runs than the largest daily cap configured, although     *)
(* every admission decides with a configuration it read earlier.            *)
BudgetRespected ==
    \A d \in Days : Cardinality({r \in Admitted : DayOf[created[r]] = d}) <= maxPerDay

(* Two runs for the same failure are at least a cooldown apart, however     *)
(* many dispatches arrive at once (Admit: "exactly one run is created").    *)
CooldownRespected ==
    \A r, q \in Admitted :
        r # q /\ dedupKey[r] = dedupKey[q] /\ dedupKey[r] \in Keys =>
            \/ created[r] >= created[q] + minCooldown
            \/ created[q] >= created[r] + minCooldown

(* Every occupied place of the capacity row belongs to a running row, so    *)
(* that crashes do not use the capacity up for good (Reap's reconciliation).*)
SlotsHaveRuns == running <= Cardinality(InStatus("running"))

(* A run reported as done was handed off to the operators. *)
DoneWasDelivered == \A r \in Runs : status[r] = "done" => delivered[r] > 0

QueueInv ==
    /\ TypeOK /\ AdmittersInv /\ AttemptsInv /\ HandOffsInv /\ OwnersInv /\ SlotsHaveRuns
    /\ BudgetInv /\ AdmissionInv /\ CooldownRespected /\ DoneWasDelivered

(* The queue with its leases, tokens and late workers does to the runs only *)
(* what CodeRCALifecycle allows: Finalize and Reap agree on who may end or  *)
(* give back a run, and no analysis or hand-off goes beyond the claims.     *)
Lifecycle ==
    INSTANCE CodeRCALifecycle
        WITH Limit <- MaxAttempts, state <- status, claims <- attempts,
             spent <- analyses, handed <- delivered

ImplementsQueue == Lifecycle!Spec

(* Every admitted run comes to an end, under FairSpec. *)
RunsEnd == \A r \in Runs : status[r] \in {"queued", "running"} ~> status[r] \in Terminal
=============================================================================
