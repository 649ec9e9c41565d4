----------------------------- MODULE Dispatcher -----------------------------
(***************************************************************************)
(* The alert dispatcher and its life in the alertmanager server:           *)
(*   pkg/alertmanager/alertmanagerserver/dispatcher.go                     *)
(*   pkg/alertmanager/alertmanagerserver/server.go (SetConfig, Stop)       *)
(*                                                                         *)
(* A dispatcher reads the alerts of the provider, sorts them into          *)
(* aggregation groups, and every group has a goroutine that flushes it: it *)
(* copies the alerts, sends them without a lock, and deletes the resolved  *)
(* ones that have not changed meanwhile.  A new configuration stops the    *)
(* dispatcher and starts another one.                                      *)
(*                                                                         *)
(* A version of an alert stands for its UpdatedAt.  It is resolved when    *)
(* its EndsAt is over, whether it was sent like this or time has passed.   *)
(***************************************************************************)
EXTENDS Naturals, Sequences, FiniteSets, SequencesExt

CONSTANTS
    Alerts,
    Match,           \* the channels of an alert
    GroupOf,         \* its group labels
    MaxVersions,     \* bound: versions of an alert
    MaxDispatchers,  \* bound: dispatchers that are started
    MaxDrops,        \* bound: alerts that are not sorted into a group
    Prompt           \* a dispatcher runs before it is stopped

ASSUME DispatcherAssumption ==
    /\ DOMAIN Match = Alerts /\ DOMAIN GroupOf = Alerts
    /\ MaxVersions \in Nat /\ MaxDispatchers \in Nat \ {0} /\ MaxDrops \in Nat
    /\ Prompt \in BOOLEAN

Dispatchers == 1..MaxDispatchers
Versions == 0..MaxVersions

\* The keys of aggrGroupsPerRoute: a route (one per channel) and group labels.
Keys == UNION {{<<c, GroupOf[a]>> : c \in Match[a]} : a \in Alerts}
KeysOf(a) == {<<c, GroupOf[a]>> : c \in Match[a]}

VARIABLES
    version,    \* the version of every alert in the provider, 0 before the first
    provided,   \* the alerts the provider still has
    ended,      \* the versions that are resolved
    run,        \* how far the goroutine of a dispatcher is
    cancelled,  \* the dispatchers whose context is cancelled
    inbox,      \* the iterator of a dispatcher
    live,       \* the groups of a dispatcher
    held,       \* the alerts of a group
    flush,      \* what the goroutine of a group does
    told,       \* the versions that a channel took, and as what
    recorded,   \* the versions in the dead-letter store
    dropped,    \* the versions a dispatcher could not sort into a group
    sink,       \* the dead-letter sink
    server,     \* how far SetConfig or Stop is
    current     \* server.dispatcher

provider == <<version, provided, ended>>
groups == <<live, held, flush>>
record == <<told, recorded, sink>>
vars == <<version, provided, ended, run, cancelled, inbox, live, held, flush, told, recorded,
          dropped, sink, server, current>>

Empty == [a \in Alerts |-> 0]
Idle == [pc |-> "idle", alerts |-> Empty, resolved |-> {}]

------------------------------------------------------------------------------
(* The provider                                                              *)

\* Put hands a version to every subscriber, in order.
PutAlerts(a, resolved) ==
    /\ server # "down" /\ version[a] < MaxVersions
    /\ resolved => version[a] > 0
    /\ version' = [version EXCEPT ![a] = @ + 1]
    /\ provided' = provided \union {a}
    /\ ended' = IF resolved THEN ended \union {<<a, version[a] + 1>>} ELSE ended
    /\ inbox' = [i \in Dispatchers |-> IF run[i] = "running"
                                       THEN Append(inbox[i], <<a, version[a] + 1>>) ELSE inbox[i]]
    /\ UNCHANGED <<run, cancelled, groups, record, dropped, server, current>>

\* The EndsAt of a version passes.
Expire(a, v) ==
    /\ v \in 1..version[a] /\ <<a, v>> \notin ended
    /\ ended' = ended \union {<<a, v>>}
    /\ UNCHANGED <<version, provided, run, cancelled, inbox, groups, record, dropped, server,
                   current>>

\* The provider forgets resolved alerts.
CollectAlert(a) ==
    /\ a \in provided /\ <<a, version[a]>> \in ended
    /\ provided' = provided \ {a}
    /\ UNCHANGED <<version, ended, run, cancelled, inbox, groups, record, dropped, server,
                   current>>

------------------------------------------------------------------------------
(* Dispatcher                                                                *)

\* Run: the groups are empty, and the iterator starts with what the provider has.
Run(i) ==
    /\ run[i] = "spawned"
    /\ run' = [run EXCEPT ![i] = "running"]
    /\ inbox' = [inbox EXCEPT ![i] = SetToSeq({<<a, version[a]>> : a \in provided})]
    /\ UNCHANGED <<provider, cancelled, groups, record, dropped, server, current>>

\* processAlert for every channel that Match returns; a group is created with its first
\* alert.  A channel is passed over when its GetNotificationConfig fails, and all are
\* when Match does.
run_alert(i) ==
    /\ run[i] = "running" /\ inbox[i] # <<>>
    /\ LET a == Head(inbox[i])[1]
           v == Head(inbox[i])[2]
       IN  \E failed \in SUBSET KeysOf(a) :
              LET reached == KeysOf(a) \ failed
              IN  /\ live' = [live EXCEPT ![i] = @ \union reached]
                  /\ held' = [held EXCEPT ![i] = [k \in Keys |->
                        IF k \in reached THEN [@[k] EXCEPT ![a] = v] ELSE @[k]]]
                  /\ dropped' = dropped \union {<<i, k, a, v>> : k \in failed}
    /\ Cardinality(dropped') <= MaxDrops
    /\ inbox' = [inbox EXCEPT ![i] = Tail(@)]
    /\ UNCHANGED <<provider, run, cancelled, flush, record, server, current>>


\* Empty groups are stopped, whatever they do, and removed.
doMaintenance(i) ==
    /\ run[i] = "running"
    /\ LET empty == {k \in live[i] : held[i][k] = Empty}
       IN  /\ empty # {}
           /\ live' = [live EXCEPT ![i] = @ \ empty]
           /\ flush' = [flush EXCEPT ![i] = [k \in Keys |-> IF k \in empty THEN Idle ELSE @[k]]]
    /\ UNCHANGED <<provider, run, cancelled, inbox, held, record, dropped, server, current>>

\* The goroutine sees that the context is done; the groups are not waited for.
run_done(i) ==
    /\ run[i] = "running" /\ i \in cancelled
    /\ run' = [run EXCEPT ![i] = "done"]
    /\ inbox' = [inbox EXCEPT ![i] = <<>>]
    /\ UNCHANGED <<provider, cancelled, groups, record, dropped, server, current>>

------------------------------------------------------------------------------
(* aggrGroup                                                                 *)

Resolved(alerts) == {a \in Alerts : <<a, alerts[a]>> \in ended}

\* The timer of a group fires: the alerts are copied, and which of them are
\* resolved is settled.  With a context that is done nothing would be sent.
Flush(i, k) ==
    /\ k \in live[i] /\ i \notin cancelled /\ flush[i][k].pc = "idle" /\ held[i][k] # Empty
    /\ flush' = [flush EXCEPT ![i][k] =
          [pc |-> "exec", alerts |-> held[i][k], resolved |-> Resolved(held[i][k])]]
    /\ UNCHANGED <<provider, run, cancelled, inbox, live, held, record, dropped, server, current>>

\* What a flush is about: which version of which alert, and whether as resolved.
Content(k, f) == {<<k, a, f.alerts[a], a \in f.resolved>> : a \in {b \in Alerts : f.alerts[b] > 0}}

\* stage.Exec returns no error: sent, or not due by the notification log.
ExecOK(i, k) ==
    /\ flush[i][k].pc = "exec"
    /\ told' = told \union Content(k, flush[i][k])
    /\ flush' = [flush EXCEPT ![i][k].pc = "sent"]
    /\ UNCHANGED <<provider, run, cancelled, inbox, live, held, recorded, sink, dropped,
                   server, current>>

\* It returns an error, which is ignored when the context is cancelled.
ExecFails(i, k) ==
    /\ flush[i][k].pc = "exec"
    /\ flush' = [flush EXCEPT ![i][k] =
          IF i \in cancelled THEN Idle ELSE [@ EXCEPT !.pc = "record"]]
    /\ UNCHANGED <<provider, run, cancelled, inbox, live, held, record, dropped, server, current>>

recordTerminalFailure(i, k) ==
    /\ flush[i][k].pc = "record"
    /\ recorded' = IF sink = "open" THEN recorded \union Content(k, flush[i][k]) ELSE recorded
    /\ flush' = [flush EXCEPT ![i][k] = Idle]
    /\ UNCHANGED <<provider, run, cancelled, inbox, live, held, told, sink, dropped, server, current>>

\* Mutant: also when the alert has changed.
DeleteResolved(i, k) ==
    /\ flush[i][k].pc = "sent"
    /\ held' = [held EXCEPT ![i][k] = [a \in Alerts |->
          IF a \in flush[i][k].resolved THEN 0 ELSE @[a]]]
    /\ flush' = [flush EXCEPT ![i][k] = Idle]
    /\ UNCHANGED <<provider, run, cancelled, inbox, live, record, dropped, server, current>>

\* The resolved alerts that were sent are deleted unless they have changed.
DeleteIfNotModified(i, k) ==
    /\ flush[i][k].pc = "sent"
    /\ held' = [held EXCEPT ![i][k] = [a \in Alerts |->
          IF a \in flush[i][k].resolved /\ @[a] = flush[i][k].alerts[a] THEN 0 ELSE @[a]]]
    /\ flush' = [flush EXCEPT ![i][k] = Idle]
    /\ UNCHANGED <<provider, run, cancelled, inbox, live, record, dropped, server, current>>

------------------------------------------------------------------------------
(* Server                                                                    *)

\* Stop of a dispatcher; one that does not run yet has no cancel function.
StopDispatcher == cancelled' = IF run[current] = "spawned" THEN cancelled
                               ELSE cancelled \union {current}

Stopped == current \in cancelled => run[current] = "done"

SetConfig ==
    /\ server = "up" /\ current < MaxDispatchers
    /\ Prompt => run[current] = "running"
    /\ StopDispatcher
    /\ server' = "reload"
    /\ UNCHANGED <<provider, run, inbox, groups, record, dropped, current>>

\* go server.dispatcher.Run()
StartDispatcher ==
    /\ server = "reload" /\ Stopped
    /\ current' = current + 1
    /\ run' = [run EXCEPT ![current + 1] = "spawned"]
    /\ server' = "up"
    /\ UNCHANGED <<provider, cancelled, inbox, groups, record, dropped>>

Stop ==
    /\ server = "up"
    /\ Prompt => run[current] = "running"
    /\ StopDispatcher
    /\ server' = "stopping"
    /\ UNCHANGED <<provider, run, inbox, groups, record, dropped, current>>

\* After the dispatcher and the maintenance the sink is closed.
StopSink ==
    /\ server = "stopping" /\ Stopped
    /\ sink' = "closed"
    /\ server' = "down"
    /\ UNCHANGED <<provider, run, cancelled, inbox, groups, told, recorded, dropped, current>>

------------------------------------------------------------------------------
Init ==
    /\ version = Empty /\ provided = {} /\ ended = {}
    /\ run = [i \in Dispatchers |-> IF i = 1 THEN "spawned" ELSE "none"]
    /\ cancelled = {}
    /\ inbox = [i \in Dispatchers |-> <<>>]
    /\ live = [i \in Dispatchers |-> {}]
    /\ held = [i \in Dispatchers |-> [k \in Keys |-> Empty]]
    /\ flush = [i \in Dispatchers |-> [k \in Keys |-> Idle]]
    /\ told = {} /\ recorded = {} /\ dropped = {}
    /\ sink = "open"
    /\ server = "up" /\ current = 1

GroupStep(i, k) ==
    \/ Flush(i, k) \/ ExecOK(i, k) \/ ExecFails(i, k)
    \/ recordTerminalFailure(i, k) \/ DeleteIfNotModified(i, k)

Next ==
    \/ \E a \in Alerts : \/ \E b \in BOOLEAN : PutAlerts(a, b)
                         \/ \E v \in Versions : Expire(a, v)
                         \/ CollectAlert(a)
    \/ \E i \in Dispatchers : \/ Run(i) \/ run_alert(i) \/ doMaintenance(i) \/ run_done(i)
                              \/ \E k \in Keys : GroupStep(i, k)
    \/ SetConfig \/ StartDispatcher \/ Stop \/ StopSink

\* Goroutines that can run do, timers fire, and a notification ends: its context
\* has a deadline.
Fairness ==
    /\ \A i \in Dispatchers : WF_vars(Run(i)) /\ WF_vars(run_alert(i)) /\ WF_vars(run_done(i))
    /\ \A i \in Dispatchers, k \in Keys : WF_vars(GroupStep(i, k))
    /\ WF_vars(StartDispatcher)

Spec == Init /\ [][Next]_vars /\ Fairness

------------------------------------------------------------------------------
TypeOK ==
    /\ version \in [Alerts -> Versions] /\ provided \subseteq Alerts
    /\ ended \subseteq Alerts \X Versions
    /\ run \in [Dispatchers -> {"none", "spawned", "running", "done"}]
    /\ cancelled \subseteq Dispatchers /\ current \in Dispatchers
    /\ \A i \in Dispatchers : inbox[i] \in Seq(Alerts \X Versions)
    /\ live \in [Dispatchers -> SUBSET Keys]
    /\ held \in [Dispatchers -> [Keys -> [Alerts -> Versions]]]
    /\ flush \in [Dispatchers -> [Keys -> [pc : {"idle", "exec", "sent", "record"},
                                           alerts : [Alerts -> Versions],
                                           resolved : SUBSET Alerts]]]
    /\ told \subseteq Keys \X Alerts \X Versions \X BOOLEAN
    /\ recorded \subseteq Keys \X Alerts \X Versions \X BOOLEAN
    /\ dropped \subseteq Dispatchers \X Keys \X Alerts \X Versions
    /\ sink \in {"open", "closed"}
    /\ server \in {"up", "reload", "stopping", "down"}

\* The newest version of every alert the provider has is on its way to the
\* dispatcher, in its groups, or was taken by the channel as resolved.
Accounted ==
    run[current] = "running" =>
        \A a \in provided : \A k \in KeysOf(a) :
            \/ <<a, version[a]>> \in ToSet(inbox[current])
            \/ <<current, k, a, version[a]>> \in dropped
            \/ k \in live[current] /\ held[current][k][a] = version[a]
            \/ <<k, a, version[a], TRUE>> \in told

\* A dispatcher that was replaced does not run, provided that it has started to run
\* before it is stopped: Stop does nothing to one that has not.
OneDispatcher ==
    Prompt /\ server = "up" => \A i \in Dispatchers : i < current => run[i] = "done"

\* One dispatcher runs, and no alert is forgotten by it, whatever maintenance,
\* reloads and flushes do meanwhile.
DispatchInv == TypeOK /\ Accounted /\ OneDispatcher

=============================================================================
