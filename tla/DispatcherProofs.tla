-------------------------- MODULE DispatcherProofs --------------------------
(***************************************************************************)
(* Proofs about Dispatcher, for every set of alerts, every assignment of   *)
(* alerts to channels and groups, and every bound.                         *)
(*                                                                         *)
(* That the newest version of an alert is accounted for rests on two facts *)
(* about what is under way: the iterator of a dispatcher never holds an    *)
(* old version of an alert without the newest one behind it (NewestLast),  *)
(* and a flush that deletes resolved alerts has been taken by its channel  *)
(* (SentIsTold).                                                           *)
(***************************************************************************)
EXTENDS Dispatcher, FiniteSetTheorems, TLAPS

Entries == Alerts \X Versions
Flushes == [pc : {"idle", "exec", "sent", "record"}, alerts : [Alerts -> Versions],
            resolved : SUBSET Alerts]

ProviderInv ==
    /\ version \in [Alerts -> Versions] /\ provided \subseteq Alerts /\ IsFiniteSet(provided)
    /\ ended \subseteq Entries
    /\ \A a \in provided : version[a] > 0

\* Behind every version in an iterator is the newest one of its alert.
NewestLast(s, ver) ==
    \A p \in DOMAIN s : \E q \in DOMAIN s : q >= p /\ s[q] = <<s[p][1], ver[s[p][1]]>>

InboxInv ==
    /\ inbox \in [Dispatchers -> Seq(Entries)]
    /\ \A i \in Dispatchers : NewestLast(inbox[i], version) /\ (run[i] # "running" => inbox[i] = <<>>)

GroupsInv ==
    /\ live \in [Dispatchers -> SUBSET Keys]
    /\ held \in [Dispatchers -> [Keys -> [Alerts -> Versions]]]
    /\ flush \in [Dispatchers -> [Keys -> Flushes]]
    /\ dropped \subseteq Dispatchers \X Keys \X Alerts \X Versions

\* A channel took what a flush is about before the flush deletes.
SentIsTold ==
    \A i \in Dispatchers, k \in Keys : flush[i][k].pc = "sent" => Content(k, flush[i][k]) \subseteq told

RecordInv ==
    /\ told \subseteq Keys \X Alerts \X Versions \X BOOLEAN
    /\ recorded \subseteq Keys \X Alerts \X Versions \X BOOLEAN
    /\ sink \in {"open", "closed"}
    /\ SentIsTold

\* Dispatchers are started one after the other; one that is replaced was stopped.
ServerInv ==
    /\ run \in [Dispatchers -> {"none", "spawned", "running", "done"}]
    /\ cancelled \subseteq Dispatchers /\ current \in Dispatchers
    /\ server \in {"up", "reload", "stopping", "down"}
    /\ server = "reload" => current < MaxDispatchers
    /\ \A i \in Dispatchers : i > current => run[i] = "none"
    /\ Prompt /\ server = "reload" => current \in cancelled
    /\ Prompt => \A i \in Dispatchers : i < current => run[i] = "done"

DispatcherInv ==
    ProviderInv /\ InboxInv /\ GroupsInv /\ RecordInv /\ ServerInv /\ Accounted

-----------------------------------------------------------------------------
LEMMA Constants ==
    /\ MaxVersions \in Nat /\ MaxDispatchers \in Nat /\ 1 \in Dispatchers /\ 0 \in Versions
    /\ Empty \in [Alerts -> Versions] /\ Idle \in Flushes
<1>1. MaxVersions \in Nat /\ MaxDispatchers \in Nat /\ 1 \in Dispatchers /\ 0 \in Versions
  BY DispatcherAssumption DEF Dispatchers, Versions
<1> QED
  BY <1>1 DEF Empty, Idle, Flushes

(* SetToSeq lists a finite set.                                             *)
LEMMA ListedOnce ==
  ASSUME NEW S, IsFiniteSet(S)
  PROVE  /\ SetToSeq(S) \in Seq(S)
         /\ \A x \in S : \E p \in DOMAIN SetToSeq(S) : SetToSeq(S)[p] = x
<1> DEFINE n == Cardinality(S)
<1>1. n \in Nat /\ ExistsBijection(1..n, S)
  BY FS_CardinalityType
<1>2. \E f \in [1..n -> S] : IsInjective(f)
  BY <1>1 DEF ExistsBijection, Bijection, Injection
<1> DEFINE s == SetToSeq(S)
<1>3. s \in [1..n -> S] /\ IsInjective(s)
  BY <1>2 DEF SetToSeq
<1>4. IsFiniteSet(1..n) /\ Cardinality(1..n) = n
  BY <1>1, FS_Interval
<1>5. s \in Injection(1..n, S)
  BY <1>3 DEF Injection
<1>6. s \in Surjection(1..n, S)
  BY <1>4, <1>5, FS_Injection
<1> QED
  BY <1>1, <1>3, <1>6 DEF Surjection

LEMMA ElementOf == ASSUME NEW S, NEW s \in Seq(S), NEW p \in DOMAIN s PROVE s[p] \in S /\ p \in Nat
  OBVIOUS

LEMMA ToSetIsRange == ASSUME NEW s PROVE ToSet(s) = {s[p] : p \in DOMAIN s}
  BY DEF ToSet

LEMMA ToSetAppend ==
  ASSUME NEW S, NEW s \in Seq(S), NEW x
  PROVE  ToSet(Append(s, x)) = ToSet(s) \union {x}
<1>1. /\ Len(s) \in Nat /\ DOMAIN s = 1..Len(s) /\ DOMAIN Append(s, x) = 1..(Len(s) + 1)
      /\ \A p \in 1..Len(s) : Append(s, x)[p] = s[p]
      /\ Append(s, x)[Len(s) + 1] = x
  OBVIOUS
<1>2. 1..(Len(s) + 1) = 1..Len(s) \union {Len(s) + 1}
  BY <1>1
<1> QED
  BY <1>1, <1>2, ToSetIsRange

(* What the iterator of a new dispatcher starts with.                       *)
LEMMA FirstInbox ==
  ASSUME ProviderInv
  PROVE  /\ IsFiniteSet({<<a, version[a]>> : a \in provided})
         /\ {<<a, version[a]>> : a \in provided} \subseteq Entries
<1> DEFINE S == {<<a, version[a]>> : a \in provided}
           f == [a \in provided |-> <<a, version[a]>>]
<1>1. f \in Bijection(provided, S)
  <2>1. f \in [provided -> S] /\ \A a, b \in provided : f[a] = f[b] => a = b
    OBVIOUS
  <2>2. \A x \in S : \E a \in provided : f[a] = x
    OBVIOUS
  <2> QED
    BY <2>1, <2>2 DEF Bijection, Injection, Surjection, IsInjective
<1>2. IsFiniteSet(S)
  BY <1>1, FS_Bijection DEF ProviderInv, ExistsBijection
<1> QED
  BY <1>2 DEF ProviderInv, Entries

(* Iterators.                                                               *)
LEMMA NewestAppend ==
  ASSUME NEW s \in Seq(Entries), NEW ver \in [Alerts -> Versions], NEW a \in Alerts, NEW n,
         NewestLast(s, ver)
  PROVE  NewestLast(Append(s, <<a, n>>), [ver EXCEPT ![a] = n])
<1> DEFINE t == Append(s, <<a, n>>)
           w == [ver EXCEPT ![a] = n]
<1>1. /\ Len(s) \in Nat /\ DOMAIN s = 1..Len(s) /\ DOMAIN t = 1..(Len(s) + 1)
      /\ \A p \in 1..Len(s) : t[p] = s[p]
      /\ t[Len(s) + 1] = <<a, n>>
  OBVIOUS
<1>2. w[a] = n /\ \A b \in Alerts : b # a => w[b] = ver[b]
  OBVIOUS
<1>3. \A p \in 1..Len(s) : s[p] \in Entries
  OBVIOUS
<1> SUFFICES ASSUME NEW p \in 1..(Len(s) + 1)
             PROVE  \E q \in 1..(Len(s) + 1) : q >= p /\ t[q] = <<t[p][1], w[t[p][1]]>>
  BY <1>1 DEF NewestLast
<1>4. CASE t[p][1] = a
  <2>1. Len(s) + 1 \in 1..(Len(s) + 1) /\ Len(s) + 1 >= p
    BY <1>1
  <2> QED
    BY <1>1, <1>2, <1>4, <2>1
<1>5. CASE t[p][1] # a
  <2>1. p \in 1..Len(s)
    BY <1>1, <1>5
  <2>2. t[p] = s[p] /\ s[p][1] \in Alerts
    BY <1>1, <1>3, <2>1 DEF Entries
  <2>3. PICK q \in 1..Len(s) : q >= p /\ s[q] = <<s[p][1], ver[s[p][1]]>>
    BY <1>1, <2>1 DEF NewestLast
  <2>4. w[s[p][1]] = ver[s[p][1]]
    BY <1>2, <1>5, <2>2
  <2>5. t[q] = <<t[p][1], w[t[p][1]]>>
    BY <1>1, <2>2, <2>3, <2>4
  <2> QED
    BY <1>1, <2>3, <2>5
<1> QED
  BY <1>4, <1>5

LEMMA NewestTail ==
  ASSUME NEW s \in Seq(Entries), s # <<>>, NEW ver, NewestLast(s, ver)
  PROVE  /\ NewestLast(Tail(s), ver)
         /\ \A x \in ToSet(s) : x # Head(s) => x \in ToSet(Tail(s))
         /\ ToSet(Tail(s)) \subseteq ToSet(s)
<1>1. /\ Len(s) \in Nat \ {0} /\ DOMAIN s = 1..Len(s) /\ DOMAIN Tail(s) = 1..(Len(s) - 1)
      /\ \A p \in 1..(Len(s) - 1) : Tail(s)[p] = s[p + 1]
      /\ Head(s) = s[1]
  OBVIOUS
<1>2. NewestLast(Tail(s), ver)
  <2> SUFFICES ASSUME NEW p \in 1..(Len(s) - 1)
               PROVE  \E q \in 1..(Len(s) - 1) :
                         q >= p /\ Tail(s)[q] = <<Tail(s)[p][1], ver[Tail(s)[p][1]]>>
    BY <1>1 DEF NewestLast
  <2>1. p + 1 \in 1..Len(s)
    BY <1>1
  <2>2. PICK r \in 1..Len(s) : r >= p + 1 /\ s[r] = <<s[p + 1][1], ver[s[p + 1][1]]>>
    BY <1>1, <2>1 DEF NewestLast
  <2>3. r - 1 \in 1..(Len(s) - 1) /\ r - 1 >= p /\ (r - 1) + 1 = r
    BY <1>1, <2>2
  <2>4. Tail(s)[r - 1] = s[r] /\ Tail(s)[p] = s[p + 1]
    BY <1>1, <2>3
  <2> QED
    BY <2>2, <2>3, <2>4
<1>3. ASSUME NEW x \in ToSet(s), x # Head(s) PROVE x \in ToSet(Tail(s))
  <2>1. PICK p \in 1..Len(s) : s[p] = x
    BY <1>1, ToSetIsRange
  <2>2. p - 1 \in 1..(Len(s) - 1) /\ (p - 1) + 1 = p
    BY <1>1, <1>3, <2>1
  <2> QED
    BY <1>1, <2>1, <2>2, ToSetIsRange
<1>4. ASSUME NEW x \in ToSet(Tail(s)) PROVE x \in ToSet(s)
  <2>1. PICK p \in 1..(Len(s) - 1) : Tail(s)[p] = x
    BY <1>1, <1>4, ToSetIsRange
  <2>2. p + 1 \in 1..Len(s) /\ s[p + 1] = x
    BY <1>1, <2>1
  <2> QED
    BY <1>1, <2>2, ToSetIsRange
<1> QED
  BY <1>2, <1>3, <1>4

(* An old version of an alert is not the last one.                          *)
LEMMA OldHasNewer ==
  ASSUME NEW s \in Seq(Entries), s # <<>>, NEW ver, NewestLast(s, ver), Head(s)[2] # ver[Head(s)[1]]
  PROVE  <<Head(s)[1], ver[Head(s)[1]]>> \in ToSet(Tail(s))
<1>1. Len(s) \in Nat \ {0} /\ DOMAIN s = 1..Len(s) /\ Head(s) = s[1] /\ 1 \in 1..Len(s)
  OBVIOUS
<1>2. PICK q \in 1..Len(s) : s[q] = <<s[1][1], ver[s[1][1]]>>
  BY <1>1 DEF NewestLast
<1>3. s[q] \in ToSet(s)
  BY <1>1, ToSetIsRange
<1>4. s[q] # Head(s)
  BY <1>1, <1>2
<1> QED
  BY <1>1, <1>2, <1>3, <1>4, NewestTail

-----------------------------------------------------------------------------
(* The steps, by what they change.                                          *)
LEMMA GroupStepLeaves ==
  ASSUME NEW i \in Dispatchers, NEW k \in Keys, GroupStep(i, k)
  PROVE  UNCHANGED <<version, provided, ended, run, cancelled, inbox, live, server, current, sink, dropped>>
  BY DEF GroupStep, Flush, ExecOK, ExecFails, recordTerminalFailure, DeleteIfNotModified, provider, record

LEMMA ProviderMoves ==
  ASSUME [Next]_vars
  PROVE  \/ UNCHANGED provider
         \/ \E a \in Alerts : \/ \E b \in BOOLEAN : PutAlerts(a, b)
                              \/ \E v \in Versions : Expire(a, v)
                              \/ CollectAlert(a)
  BY GroupStepLeaves DEF Next, Run, run_alert, doMaintenance, run_done, SetConfig, StartDispatcher,
     Stop, StopSink, provider, vars

LEMMA InboxMoves ==
  ASSUME [Next]_vars
  PROVE  \/ UNCHANGED <<inbox, run>>
         \/ \E a \in Alerts, b \in BOOLEAN : PutAlerts(a, b)
         \/ \E i \in Dispatchers : Run(i) \/ run_alert(i) \/ run_done(i)
         \/ StartDispatcher
  BY GroupStepLeaves DEF Next, Expire, CollectAlert, doMaintenance, SetConfig, Stop, StopSink, vars

LEMMA GroupMoves ==
  ASSUME [Next]_vars
  PROVE  \/ UNCHANGED <<live, held, flush, told, recorded, dropped>>
         \/ \E i \in Dispatchers : \/ run_alert(i) \/ doMaintenance(i)
                                   \/ \E k \in Keys : GroupStep(i, k)
  BY DEF Next, PutAlerts, Expire, CollectAlert, Run, run_done, SetConfig, StartDispatcher, Stop, StopSink,
     groups, record, vars

LEMMA ServerMoves ==
  ASSUME [Next]_vars
  PROVE  \/ UNCHANGED <<run, cancelled, server, current>>
         \/ \E i \in Dispatchers : Run(i) \/ run_done(i)
         \/ SetConfig \/ StartDispatcher \/ Stop \/ StopSink
  BY GroupStepLeaves DEF Next, PutAlerts, Expire, CollectAlert, run_alert, doMaintenance, vars

-----------------------------------------------------------------------------
LEMMA ProviderStep == DispatcherInv /\ [Next]_vars => ProviderInv'
<1> SUFFICES ASSUME ProviderInv, [Next]_vars PROVE ProviderInv'
  BY DEF DispatcherInv
<1>1. CASE UNCHANGED provider
  BY <1>1 DEF provider, ProviderInv
<1>2. ASSUME NEW a \in Alerts, NEW b \in BOOLEAN, PutAlerts(a, b) PROVE ProviderInv'
  <2>1. /\ version[a] < MaxVersions /\ version' = [version EXCEPT ![a] = version[a] + 1]
        /\ provided' = provided \union {a}
        /\ ended' \subseteq ended \union {<<a, version[a] + 1>>}
    BY <1>2 DEF PutAlerts
  <2>2. version[a] + 1 \in Versions /\ version[a] + 1 > 0
    BY <2>1, Constants DEF ProviderInv, Versions
  <2>3. version' \in [Alerts -> Versions] /\ ended' \subseteq Entries
    BY <2>1, <2>2 DEF ProviderInv, Entries
  <2>4. IsFiniteSet(provided') /\ provided' \subseteq Alerts
    BY <2>1, FS_AddElement DEF ProviderInv
  <2>5. \A c \in provided' : version'[c] > 0
    BY <2>1, <2>2 DEF ProviderInv
  <2> QED
    BY <2>3, <2>4, <2>5 DEF ProviderInv
<1>3. ASSUME NEW a \in Alerts, NEW v \in Versions, Expire(a, v) PROVE ProviderInv'
  BY <1>3 DEF Expire, ProviderInv, Entries
<1>4. ASSUME NEW a \in Alerts, CollectAlert(a) PROVE ProviderInv'
  BY <1>4, FS_RemoveElement DEF CollectAlert, ProviderInv
<1> QED
  BY <1>1, <1>2, <1>3, <1>4, ProviderMoves

LEMMA InboxStep == DispatcherInv /\ [Next]_vars => InboxInv'
<1> SUFFICES ASSUME DispatcherInv, [Next]_vars PROVE InboxInv'
  OBVIOUS
<1>0. /\ version \in [Alerts -> Versions] /\ ProviderInv
      /\ inbox \in [Dispatchers -> Seq(Entries)]
      /\ run \in [Dispatchers -> {"none", "spawned", "running", "done"}]
      /\ \A i \in Dispatchers : NewestLast(inbox[i], version) /\ (run[i] # "running" => inbox[i] = <<>>)
  BY DEF DispatcherInv, ProviderInv, InboxInv, ServerInv
<1>1. ASSUME NEW a \in Alerts, NEW b \in BOOLEAN, PutAlerts(a, b) PROVE InboxInv'
  <2> DEFINE n == version[a] + 1
  <2>1. /\ version[a] < MaxVersions /\ version' = [version EXCEPT ![a] = n] /\ run' = run
        /\ inbox' = [i \in Dispatchers |-> IF run[i] = "running" THEN Append(inbox[i], <<a, n>>) ELSE inbox[i]]
    BY <1>1 DEF PutAlerts
  <2>2. <<a, n>> \in Entries
    BY <1>0, <2>1, Constants DEF Versions, Entries
  <2> HIDE DEF n
  <2>3. inbox' \in [Dispatchers -> Seq(Entries)]
    BY <1>0, <2>1, <2>2
  <2>4. ASSUME NEW i \in Dispatchers
        PROVE  NewestLast(inbox'[i], version') /\ (run'[i] # "running" => inbox'[i] = <<>>)
    <3>1. CASE run[i] = "running"
      BY <1>0, <2>1, <3>1, NewestAppend
    <3>2. CASE run[i] # "running"
      <4>1. inbox'[i] = <<>>
        BY <1>0, <2>1, <3>2
      <4> QED
        BY <4>1 DEF NewestLast
    <3> QED
      BY <3>1, <3>2
  <2> QED
    BY <2>3, <2>4 DEF InboxInv
<1>2. CASE UNCHANGED version
  <2>1. ASSUME NEW i \in Dispatchers, NEW s \in Seq(Entries), NEW r,
               inbox' = [inbox EXCEPT ![i] = s], run' = [run EXCEPT ![i] = r],
               NewestLast(s, version), r # "running" => s = <<>>
        PROVE  InboxInv'
    BY <1>0, <1>2, <2>1 DEF InboxInv
  <2>2. ASSUME NEW i \in Dispatchers, Run(i) PROVE InboxInv'
    <3> DEFINE S == {<<a, version[a]>> : a \in provided}
               s == SetToSeq(S)
    <3>1. s \in Seq(Entries) /\ s \in Seq(S)
      BY <1>0, FirstInbox, ListedOnce
    <3>2. NewestLast(s, version)
      <4> SUFFICES ASSUME NEW p \in DOMAIN s PROVE s[p] = <<s[p][1], version[s[p][1]]>> /\ p >= p
        BY DEF NewestLast
      <4>1. s[p] \in S /\ p \in Nat
        BY <3>1, ElementOf
      <4> QED
        BY <4>1
    <3> QED
      BY <2>1, <2>2, <3>1, <3>2 DEF Run
  <2>3. ASSUME NEW i \in Dispatchers, run_alert(i) PROVE InboxInv'
    <3>1. /\ inbox[i] # <<>> /\ inbox[i] \in Seq(Entries) /\ inbox' = [inbox EXCEPT ![i] = Tail(inbox[i])]
          /\ run' = run /\ run[i] = "running"
      BY <1>0, <2>3 DEF run_alert
    <3>2. NewestLast(Tail(inbox[i]), version) /\ Tail(inbox[i]) \in Seq(Entries)
      BY <1>0, <3>1, NewestTail
    <3>3. run' = [run EXCEPT ![i] = "running"]
      BY <1>0, <3>1
    <3> QED
      BY <2>1, <3>1, <3>2, <3>3
  <2>4. ASSUME NEW i \in Dispatchers, run_done(i) PROVE InboxInv'
    <3>1. NewestLast(<<>>, version) /\ <<>> \in Seq(Entries)
      BY DEF NewestLast
    <3> QED
      BY <2>1, <2>4, <3>1 DEF run_done
  <2>5. CASE StartDispatcher
    <3>1. /\ inbox' = inbox /\ current + 1 \in Dispatchers /\ run[current + 1] = "none"
          /\ run' = [run EXCEPT ![current + 1] = "spawned"]
      <4>1. server = "reload" /\ inbox' = inbox /\ run' = [run EXCEPT ![current + 1] = "spawned"]
        BY <2>5 DEF StartDispatcher
      <4>2. current + 1 \in Dispatchers /\ current + 1 > current
        BY <4>1, Constants DEF DispatcherInv, ServerInv, Dispatchers
      <4> QED
        BY <4>1, <4>2 DEF DispatcherInv, ServerInv
    <3> QED
      BY <1>0, <1>2, <3>1 DEF InboxInv
  <2>6. CASE UNCHANGED <<inbox, run>>
    BY <1>0, <1>2, <2>6 DEF InboxInv
  <2> QED
    BY <1>1, <2>2, <2>3, <2>4, <2>5, <2>6, InboxMoves
<1>3. UNCHANGED version \/ \E a \in Alerts, b \in BOOLEAN : PutAlerts(a, b)
  BY ProviderMoves DEF provider, Expire, CollectAlert
<1> QED
  BY <1>1, <1>2, <1>3

(* The groups and the record of what channels took.                         *)
LEMMA GroupsStep == DispatcherInv /\ [Next]_vars => GroupsInv' /\ RecordInv'
<1> SUFFICES ASSUME DispatcherInv, [Next]_vars PROVE GroupsInv' /\ RecordInv'
  OBVIOUS
<1>0. /\ live \in [Dispatchers -> SUBSET Keys] /\ held \in [Dispatchers -> [Keys -> [Alerts -> Versions]]]
      /\ flush \in [Dispatchers -> [Keys -> Flushes]]
      /\ dropped \subseteq Dispatchers \X Keys \X Alerts \X Versions
      /\ told \subseteq Keys \X Alerts \X Versions \X BOOLEAN
      /\ recorded \subseteq Keys \X Alerts \X Versions \X BOOLEAN
      /\ SentIsTold /\ inbox \in [Dispatchers -> Seq(Entries)]
  BY DEF DispatcherInv, GroupsInv, RecordInv, InboxInv
<1>1. sink' \in {"open", "closed"}
  <2>1. UNCHANGED sink \/ StopSink
    BY GroupStepLeaves DEF Next, PutAlerts, Expire, CollectAlert, Run, run_alert, doMaintenance, run_done,
       SetConfig, StartDispatcher, Stop, record, vars
  <2> QED
    BY <2>1 DEF StopSink, DispatcherInv, RecordInv
<1>2. ASSUME UNCHANGED <<live, held, flush, told, recorded, dropped>> PROVE GroupsInv' /\ RecordInv'
  <2>1. GroupsInv'
    BY <1>0, <1>2 DEF GroupsInv
  <2>2. SentIsTold'
    BY <1>0, <1>2 DEF SentIsTold, Content
  <2> QED
    BY <1>0, <1>1, <1>2, <2>1, <2>2 DEF RecordInv
<1>3. ASSUME NEW i \in Dispatchers, run_alert(i) PROVE GroupsInv' /\ RecordInv'
  <2> DEFINE a == Head(inbox[i])[1]
             v == Head(inbox[i])[2]
             h(R) == [k \in Keys |-> IF k \in R THEN [held[i][k] EXCEPT ![a] = v] ELSE held[i][k]]
  <2>1. Head(inbox[i]) \in Entries
    BY <1>0, <1>3 DEF run_alert
  <2>2. a \in Alerts /\ v \in Versions
    BY <2>1 DEF Entries
  <2>3. KeysOf(a) \subseteq Keys
    BY <2>2 DEF KeysOf, Keys
  <2>4. PICK F \in SUBSET KeysOf(a) :
             /\ live' = [live EXCEPT ![i] = live[i] \union (KeysOf(a) \ F)]
             /\ held' = [held EXCEPT ![i] = h(KeysOf(a) \ F)]
             /\ dropped' = dropped \union {<<i, k, a, v>> : k \in F}
             /\ flush' = flush /\ told' = told /\ recorded' = recorded
    BY <1>0, <1>3 DEF run_alert, record
  <2> HIDE DEF a, v
  <2>5. h(KeysOf(a) \ F) \in [Keys -> [Alerts -> Versions]]
    BY <1>0, <2>2
  <2>6. live[i] \union (KeysOf(a) \ F) \subseteq Keys /\ F \subseteq Keys
    BY <1>0, <2>3
  <2> HIDE DEF h
  <2>7. GroupsInv'
    <3>1. live' \in [Dispatchers -> SUBSET Keys] /\ held' \in [Dispatchers -> [Keys -> [Alerts -> Versions]]]
      BY <1>0, <2>4, <2>5, <2>6
    <3>2. dropped' \subseteq Dispatchers \X Keys \X Alerts \X Versions
      BY <1>0, <2>2, <2>4, <2>6
    <3> QED
      BY <1>0, <2>4, <3>1, <3>2 DEF GroupsInv
  <2>8. SentIsTold'
    BY <1>0, <2>4 DEF SentIsTold, Content
  <2> QED
    BY <1>0, <1>1, <2>4, <2>7, <2>8 DEF RecordInv
<1>4. ASSUME NEW i \in Dispatchers, doMaintenance(i) PROVE GroupsInv' /\ RecordInv'
  <2> DEFINE empty == {k \in live[i] : held[i][k] = Empty}
             f == [k \in Keys |-> IF k \in empty THEN Idle ELSE flush[i][k]]
  <2>1. /\ live' = [live EXCEPT ![i] = live[i] \ empty] /\ flush' = [flush EXCEPT ![i] = f]
        /\ UNCHANGED <<held, told, recorded, dropped>>
    BY <1>0, <1>4 DEF doMaintenance, record
  <2>2. f \in [Keys -> Flushes]
    BY <1>0, Constants
  <2>3. live[i] \ empty \in SUBSET Keys
    BY <1>0
  <2>4. \A k \in Keys : f[k] = flush[i][k] \/ f[k].pc = "idle"
    BY DEF Idle
  <2> HIDE DEF empty, f
  <2>5. GroupsInv'
    BY <1>0, <2>1, <2>2, <2>3 DEF GroupsInv
  <2>6. \A j \in Dispatchers, k \in Keys : flush'[j][k] = flush[j][k] \/ flush'[j][k].pc = "idle"
    BY <1>0, <2>1, <2>4
  <2>7. SentIsTold'
    <3> SUFFICES ASSUME NEW j \in Dispatchers, NEW k \in Keys, flush'[j][k].pc = "sent"
                 PROVE  Content(k, flush'[j][k]) \subseteq told'
      BY DEF SentIsTold, Content
    <3>1. flush'[j][k] = flush[j][k]
      BY <2>6
    <3> QED
      BY <1>0, <2>1, <3>1 DEF SentIsTold
  <2> QED
    BY <1>0, <1>1, <2>1, <2>5, <2>7 DEF RecordInv
<1>5. ASSUME NEW i \in Dispatchers, NEW k \in Keys, GroupStep(i, k) PROVE GroupsInv' /\ RecordInv'
  <2> DEFINE f == flush[i][k]
  <2>0. f \in Flushes /\ held[i][k] \in [Alerts -> Versions]
    BY <1>0
  <2>1. live' = live /\ dropped' = dropped
    BY <1>5, GroupStepLeaves
  <2>2. Content(k, f) \subseteq Keys \X Alerts \X Versions \X BOOLEAN
    <3> SUFFICES ASSUME NEW x \in Content(k, f) PROVE x \in Keys \X Alerts \X Versions \X BOOLEAN
      OBVIOUS
    <3>1. PICK a \in Alerts : x = <<k, a, f.alerts[a], a \in f.resolved>>
      BY DEF Content
    <3>2. f.alerts[a] \in Versions
      BY <2>0 DEF Flushes
    <3>3. (a \in f.resolved) \in BOOLEAN
      <4>1. CASE a \in f.resolved
        <5>1. (a \in f.resolved) = TRUE
          BY <4>1
        <5> QED
          BY <5>1
      <4>2. CASE a \notin f.resolved
        <5>1. (a \in f.resolved) = FALSE
          BY <4>2
        <5> QED
          BY <5>1
      <4> QED
        BY <4>1, <4>2
    <3> QED
      BY <3>1, <3>2, <3>3
  <2>3. told \subseteq told' /\ told' \subseteq told \union Content(k, f)
        /\ recorded' \subseteq recorded \union Content(k, f)
    BY <1>5 DEF GroupStep, Flush, ExecOK, ExecFails, recordTerminalFailure, DeleteIfNotModified, record
  <2>4. held' \in [Dispatchers -> [Keys -> [Alerts -> Versions]]]
    <3>1. CASE DeleteIfNotModified(i, k)
      <4> DEFINE h == [a \in Alerts |-> IF a \in f.resolved /\ held[i][k][a] = f.alerts[a] THEN 0 ELSE held[i][k][a]]
      <4>1. held' = [held EXCEPT ![i][k] = h]
        BY <1>0, <3>1 DEF DeleteIfNotModified
      <4>2. h \in [Alerts -> Versions]
        BY <2>0, Constants
      <4> HIDE DEF h
      <4> QED
        BY <1>0, <4>1, <4>2
    <3>2. CASE ~DeleteIfNotModified(i, k)
      BY <1>0, <1>5, <3>2 DEF GroupStep, Flush, ExecOK, ExecFails, recordTerminalFailure
    <3> QED
      BY <3>1, <3>2
  <2>5. \E g \in Flushes : /\ flush' = [flush EXCEPT ![i][k] = g]
                           /\ g.pc = "sent" => Content(k, g) \subseteq told'
    <3>1. CASE Flush(i, k)
      <4> DEFINE g == [pc |-> "exec", alerts |-> held[i][k], resolved |-> Resolved(held[i][k])]
      <4>1. g \in Flushes /\ g.pc # "sent"
        BY <2>0 DEF Flushes, Resolved
      <4> QED
        BY <3>1, <4>1 DEF Flush
    <3>2. CASE ExecOK(i, k)
      <4> DEFINE g == [f EXCEPT !.pc = "sent"]
      <4>1. g \in Flushes /\ g.alerts = f.alerts /\ g.resolved = f.resolved
        BY <2>0 DEF Flushes
      <4>2. flush' = [flush EXCEPT ![i][k] = g] /\ Content(k, f) \subseteq told'
        BY <1>0, <3>2 DEF ExecOK
      <4>3. Content(k, g) = Content(k, f)
        BY <4>1 DEF Content
      <4> QED
        BY <4>1, <4>2, <4>3
    <3>3. CASE ExecFails(i, k)
      <4> DEFINE g == IF i \in cancelled THEN Idle ELSE [f EXCEPT !.pc = "record"]
      <4>1. g \in Flushes /\ g.pc # "sent"
        BY <2>0, Constants DEF Flushes, Idle
      <4>2. flush' = [flush EXCEPT ![i][k] = g]
        BY <1>0, <3>3 DEF ExecFails
      <4> QED
        BY <4>1, <4>2
    <3>4. CASE recordTerminalFailure(i, k) \/ DeleteIfNotModified(i, k)
      <4>1. Idle \in Flushes /\ Idle.pc # "sent"
        BY Constants DEF Idle
      <4> QED
        BY <3>4, <4>1 DEF recordTerminalFailure, DeleteIfNotModified
    <3> QED
      BY <1>5, <3>1, <3>2, <3>3, <3>4 DEF GroupStep
  <2>6. PICK g \in Flushes : flush' = [flush EXCEPT ![i][k] = g] /\ (g.pc = "sent" => Content(k, g) \subseteq told')
    BY <2>5
  <2>7. flush' \in [Dispatchers -> [Keys -> Flushes]]
    BY <1>0, <2>6
  <2>8. SentIsTold'
    <3> SUFFICES ASSUME NEW j \in Dispatchers, NEW c \in Keys, flush'[j][c].pc = "sent"
                 PROVE  Content(c, flush'[j][c]) \subseteq told'
      BY DEF SentIsTold, Content
    <3>1. (j = i /\ c = k /\ flush'[j][c] = g) \/ flush'[j][c] = flush[j][c]
      BY <1>0, <2>6
    <3> QED
      BY <1>0, <2>3, <2>6, <3>1 DEF SentIsTold
  <2>9. told' \subseteq Keys \X Alerts \X Versions \X BOOLEAN /\ recorded' \subseteq Keys \X Alerts \X Versions \X BOOLEAN
    BY <1>0, <2>2, <2>3
  <2> QED
    BY <1>0, <1>1, <2>1, <2>4, <2>7, <2>8, <2>9 DEF GroupsInv, RecordInv
<1> QED
  BY <1>2, <1>3, <1>4, <1>5, GroupMoves

(* The server and the life of the dispatchers.                              *)
LEMMA ServerStep == DispatcherInv /\ [Next]_vars => ServerInv'
<1> SUFFICES ASSUME ServerInv, [Next]_vars PROVE ServerInv'
  BY DEF DispatcherInv
<1>0. /\ run \in [Dispatchers -> {"none", "spawned", "running", "done"}] /\ current \in 1..MaxDispatchers
      /\ MaxDispatchers \in Nat
  BY Constants DEF ServerInv, Dispatchers
<1>1. CASE UNCHANGED <<run, cancelled, server, current>>
  BY <1>1 DEF ServerInv
<1>2. ASSUME NEW i \in Dispatchers, Run(i) \/ run_done(i) PROVE ServerInv'
  <2>1. /\ run[i] \in {"spawned", "running"} /\ UNCHANGED <<cancelled, server, current>>
        /\ \E r \in {"running", "done"} : run' = [run EXCEPT ![i] = r]
    BY <1>2 DEF Run, run_done
  <2> QED
    BY <1>0, <2>1 DEF ServerInv
<1>3. CASE SetConfig
  <2>1. /\ server' = "reload" /\ UNCHANGED <<run, current>> /\ current < MaxDispatchers
        /\ cancelled' \subseteq cancelled \union {current}
        /\ Prompt => current \in cancelled'
    BY <1>3 DEF SetConfig, StopDispatcher
  <2> QED
    BY <2>1 DEF ServerInv
<1>4. CASE Stop
  <2>1. server' = "stopping" /\ UNCHANGED <<run, current>> /\ cancelled' \subseteq cancelled \union {current}
    BY <1>4 DEF Stop, StopDispatcher
  <2> QED
    BY <2>1 DEF ServerInv
<1>5. CASE StopSink
  BY <1>5 DEF StopSink, ServerInv
<1>6. CASE StartDispatcher
  <2>1. /\ server = "reload" /\ server' = "up" /\ current' = current + 1 /\ UNCHANGED cancelled
        /\ run' = [run EXCEPT ![current + 1] = "spawned"]
        /\ current \in cancelled => run[current] = "done"
    BY <1>6 DEF StartDispatcher, Stopped
  <2>2. current + 1 \in Dispatchers
    BY <1>0, <2>1 DEF ServerInv, Dispatchers
  <2>3. run' \in [Dispatchers -> {"none", "spawned", "running", "done"}]
    BY <1>0, <2>1
  <2>4. ASSUME NEW j \in Dispatchers, j > current' PROVE run'[j] = "none"
    <3>1. j > current /\ j # current + 1
      BY <1>0, <2>1, <2>4 DEF Dispatchers
    <3> QED
      BY <1>0, <2>1, <3>1 DEF ServerInv
  <2>5. ASSUME Prompt, NEW j \in Dispatchers, j < current' PROVE run'[j] = "done"
    <3>1. (j < current \/ j = current) /\ j # current + 1
      BY <1>0, <2>1, <2>5 DEF Dispatchers
    <3>2. run[j] = "done"
      BY <2>1, <2>5, <3>1 DEF ServerInv
    <3> QED
      BY <1>0, <2>1, <3>1, <3>2
  <2> QED
    BY <2>1, <2>2, <2>3, <2>4, <2>5 DEF ServerInv
<1> QED
  BY <1>1, <1>2, <1>3, <1>4, <1>5, <1>6, ServerMoves

(* No alert is forgotten by the dispatcher that runs.                       *)
LEMMA AccountedStep == DispatcherInv /\ [Next]_vars => Accounted'
<1> SUFFICES ASSUME DispatcherInv, [Next]_vars, run'[current'] = "running",
                    NEW a \in provided', NEW k \in KeysOf(a)
             PROVE  \/ <<a, version'[a]>> \in ToSet(inbox'[current'])
                    \/ <<current', k, a, version'[a]>> \in dropped'
                    \/ k \in live'[current'] /\ held'[current'][k][a] = version'[a]
                    \/ <<k, a, version'[a], TRUE>> \in told'
  BY DEF Accounted, KeysOf
<1> DEFINE Goal == \/ <<a, version'[a]>> \in ToSet(inbox'[current'])
                   \/ <<current', k, a, version'[a]>> \in dropped'
                   \/ k \in live'[current'] /\ held'[current'][k][a] = version'[a]
                   \/ <<k, a, version'[a], TRUE>> \in told'
<1>0. /\ version \in [Alerts -> Versions] /\ inbox \in [Dispatchers -> Seq(Entries)]
      /\ run \in [Dispatchers -> {"none", "spawned", "running", "done"}] /\ current \in Dispatchers
      /\ live \in [Dispatchers -> SUBSET Keys] /\ held \in [Dispatchers -> [Keys -> [Alerts -> Versions]]]
      /\ flush \in [Dispatchers -> [Keys -> Flushes]]
      /\ ProviderInv /\ SentIsTold /\ NewestLast(inbox[current], version)
  BY DEF DispatcherInv, ProviderInv, InboxInv, ServerInv, GroupsInv, RecordInv
<1>1. ~StartDispatcher
  <2>1. ASSUME StartDispatcher PROVE current' \in Dispatchers /\ run'[current'] = "spawned"
    <3>1. server = "reload" /\ current' = current + 1 /\ run' = [run EXCEPT ![current + 1] = "spawned"]
      BY <2>1 DEF StartDispatcher
    <3>2. current + 1 \in Dispatchers
      BY <3>1, Constants DEF DispatcherInv, ServerInv, Dispatchers
    <3> QED
      BY <1>0, <3>1, <3>2
  <2> QED
    BY <2>1
<1>2. current' = current
  BY <1>1, ServerMoves DEF Run, run_done, SetConfig, Stop, StopSink
<1>3. ASSUME run[current] = "running", a \in provided, version'[a] = version[a]
      PROVE  \/ <<a, version[a]>> \in ToSet(inbox[current])
             \/ <<current, k, a, version[a]>> \in dropped
             \/ k \in live[current] /\ held[current][k][a] = version[a]
             \/ <<k, a, version[a], TRUE>> \in told
  BY <1>3 DEF DispatcherInv, Accounted
<1>4. a \in Alerts /\ k \in Keys
  <2>1. a \in Alerts
    BY ProviderStep DEF ProviderInv
  <2> QED
    BY <2>1 DEF KeysOf, Keys
<1>5. ASSUME NEW c \in Alerts, NEW b \in BOOLEAN, PutAlerts(c, b) PROVE Goal
  <2>1. /\ version' = [version EXCEPT ![c] = version[c] + 1] /\ provided' = provided \union {c}
        /\ inbox' = [i \in Dispatchers |-> IF run[i] = "running"
                        THEN Append(inbox[i], <<c, version[c] + 1>>) ELSE inbox[i]]
        /\ UNCHANGED <<run, live, held, told, dropped>>
    BY <1>5 DEF PutAlerts, groups, record
  <2>2. run[current] = "running" /\ inbox'[current] = Append(inbox[current], <<c, version[c] + 1>>)
    BY <1>0, <1>2, <2>1
  <2>3. ToSet(inbox'[current]) = ToSet(inbox[current]) \union {<<c, version[c] + 1>>}
    BY <1>0, <2>2, ToSetAppend
  <2>4. CASE a = c
    BY <1>0, <1>2, <2>1, <2>3, <2>4
  <2>5. CASE a # c
    <3>1. a \in provided /\ version'[a] = version[a]
      BY <1>0, <1>4, <2>1, <2>5
    <3> QED
      <4>1. UNCHANGED <<live, held, told, dropped>> /\ ToSet(inbox[current]) \subseteq ToSet(inbox'[current])
        BY <2>1, <2>3
      <4> QED
        BY <1>2, <1>3, <2>2, <3>1, <4>1
  <2> QED
    BY <2>4, <2>5
<1>6. ASSUME UNCHANGED version, provided' \subseteq provided,
             UNCHANGED <<run, inbox, live, held, told, dropped>> PROVE Goal
  BY <1>2, <1>3, <1>6
<1>7. ASSUME UNCHANGED version, UNCHANGED provided, NEW i \in Dispatchers,
             Run(i) \/ run_alert(i) \/ doMaintenance(i) \/ run_done(i) PROVE Goal
  <2>1. CASE Run(i)
    <3>1. run' = [run EXCEPT ![i] = "running"]
          /\ inbox' = [inbox EXCEPT ![i] = SetToSeq({<<c, version[c]>> : c \in provided})]
          /\ UNCHANGED <<live, held, told, dropped>>
      BY <2>1 DEF Run, groups, record
    <3>2. CASE i = current
      <4> DEFINE S == {<<c, version[c]>> : c \in provided}
      <4>1. <<a, version[a]>> \in S
        BY <1>7
      <4>2. IsFiniteSet(S)
        BY <1>0, FirstInbox
      <4>3. inbox'[current] = SetToSeq(S)
        BY <1>0, <3>1, <3>2
      <4> HIDE DEF S
      <4>4. <<a, version[a]>> \in ToSet(SetToSeq(S))
        BY <4>1, <4>2, ListedOnce, ToSetIsRange
      <4> QED
        BY <1>2, <1>7, <4>3, <4>4
    <3>3. CASE i # current
      <4>1. run[current] = "running" /\ inbox'[current] = inbox[current]
        BY <1>0, <1>2, <3>1, <3>3
      <4> QED
        BY <1>2, <1>3, <1>7, <3>1, <4>1
    <3> QED
      BY <3>2, <3>3
  <2>2. CASE run_done(i)
    <3>1. run' = [run EXCEPT ![i] = "done"] /\ inbox' = [inbox EXCEPT ![i] = <<>>]
          /\ UNCHANGED <<live, held, told, dropped>>
      BY <2>2 DEF run_done, groups, record
    <3>2. i # current /\ run[current] = "running" /\ inbox'[current] = inbox[current]
      BY <1>0, <1>2, <3>1
    <3> QED
      BY <1>2, <1>3, <1>7, <3>1, <3>2
  <2>3. CASE run_alert(i)
    <3> DEFINE c == Head(inbox[i])[1]
               v == Head(inbox[i])[2]
    <3>1. PICK R \in SUBSET KeysOf(c) :
             /\ inbox[i] # <<>> /\ inbox' = [inbox EXCEPT ![i] = Tail(inbox[i])] /\ UNCHANGED <<run, told>>
             /\ live' = [live EXCEPT ![i] = live[i] \union R]
             /\ held' = [held EXCEPT ![i] =
                   [l \in Keys |-> IF l \in R THEN [held[i][l] EXCEPT ![c] = v] ELSE held[i][l]]]
             /\ dropped' = dropped \union {<<i, l, c, v>> : l \in KeysOf(c) \ R}
      <4>1. PICK F \in SUBSET KeysOf(c) :
               /\ inbox[i] # <<>> /\ inbox' = [inbox EXCEPT ![i] = Tail(inbox[i])] /\ UNCHANGED <<run, told>>
               /\ live' = [live EXCEPT ![i] = live[i] \union (KeysOf(c) \ F)]
               /\ held' = [held EXCEPT ![i] =
                     [l \in Keys |-> IF l \in KeysOf(c) \ F THEN [held[i][l] EXCEPT ![c] = v] ELSE held[i][l]]]
               /\ dropped' = dropped \union {<<i, l, c, v>> : l \in F}
        BY <1>0, <2>3 DEF run_alert, record
      <4>2. F = KeysOf(c) \ (KeysOf(c) \ F)
        OBVIOUS
      <4> QED
        BY <4>1, <4>2
    <3> DEFINE h == [l \in Keys |-> IF l \in R THEN [held[i][l] EXCEPT ![c] = v] ELSE held[i][l]]
    <3>2. Head(inbox[i]) = <<c, v>> /\ Head(inbox[i]) \in Entries
      <4>1. Head(inbox[i]) \in Entries
        BY <1>0, <3>1
      <4> QED
        BY <4>1 DEF Entries
    <3>3. run[current] = "running"
      BY <1>2, <3>1
    <3>4. CASE i # current
      <4>1. inbox'[current] = inbox[current] /\ live'[current] = live[current] /\ held'[current] = held[current]
            /\ dropped \subseteq dropped'
        BY <1>0, <3>1, <3>4
      <4> QED
        BY <1>2, <1>3, <1>7, <3>1, <3>3, <4>1
    <3>5. CASE i = current /\ a = c /\ v = version[a]
      <4>1. CASE k \in R
        <5>1. k \in live'[current]
          BY <1>0, <3>1, <3>5, <4>1
        <5>2. held'[current] = h /\ h[k] = [held[i][k] EXCEPT ![c] = v]
          BY <1>0, <1>4, <3>1, <3>5, <4>1
        <5>3. held'[current][k][a] = version[a]
          BY <1>0, <1>4, <3>5, <5>2
        <5> QED
          BY <1>2, <1>7, <5>1, <5>3
      <4>2. CASE k \notin R
        <5>1. <<current, k, a, version[a]>> \in dropped'
          BY <3>1, <3>5, <4>2
        <5> QED
          BY <1>2, <1>7, <5>1
      <4> QED
        BY <4>1, <4>2
    <3>6. CASE i = current /\ a = c /\ v # version[a]
      <4>1. <<a, version[a]>> \in ToSet(Tail(inbox[current]))
        BY <1>0, <3>1, <3>6, OldHasNewer
      <4>2. inbox'[current] = Tail(inbox[current])
        BY <1>0, <3>1, <3>6
      <4> QED
        BY <1>2, <1>7, <4>1, <4>2
    <3>7. CASE i = current /\ a # c
      <4>1. inbox'[current] = Tail(inbox[current]) /\ dropped \subseteq dropped' /\ live[current] \subseteq live'[current]
        BY <1>0, <3>1, <3>7
      <4>2. held'[current][k][a] = held[current][k][a]
        <5>1. held'[current] = h
          BY <1>0, <3>1, <3>7
        <5>2. h[k][a] = held[current][k][a]
          BY <1>0, <1>4, <3>7
        <5> HIDE DEF h
        <5> QED
          BY <5>1, <5>2
      <4>3. <<a, version[a]>> \in ToSet(inbox[current]) => <<a, version[a]>> \in ToSet(inbox'[current])
        <5>1. <<a, version[a]>> # Head(inbox[current])
          BY <3>2, <3>7
        <5> QED
          BY <1>0, <3>1, <3>7, <4>1, <5>1, NewestTail
      <4> QED
        BY <1>2, <1>3, <1>7, <3>1, <3>3, <4>1, <4>2, <4>3
    <3> QED
      BY <3>4, <3>5, <3>6, <3>7
  <2>4. CASE doMaintenance(i)
    <3> DEFINE empty == {l \in live[i] : held[i][l] = Empty}
    <3>1. live' = [live EXCEPT ![i] = live[i] \ empty] /\ UNCHANGED <<run, inbox, held, told, dropped>>
      BY <1>0, <2>4 DEF doMaintenance, record
    <3>2. version[a] > 0 /\ version[a] \in Versions
      BY <1>0, <1>4, <1>7 DEF ProviderInv
    <3>3. ASSUME k \in live[current], held[current][k][a] = version[a] PROVE k \in live'[current]
      <4>1. held[current][k] # Empty
        BY <1>4, <3>2, <3>3, Constants DEF Empty, Versions
      <4> QED
        BY <1>0, <3>1, <3>3, <4>1
    <3> QED
      BY <1>2, <1>3, <1>7, <3>1, <3>3
  <2> QED
    BY <1>7, <2>1, <2>2, <2>3, <2>4
<1>8. ASSUME NEW i \in Dispatchers, NEW l \in Keys, GroupStep(i, l) PROVE Goal
  <2>1. UNCHANGED <<version, provided, run, inbox, live, dropped>>
    BY <1>8, GroupStepLeaves
  <2>2. told \subseteq told'
    BY <1>8 DEF GroupStep, Flush, ExecOK, ExecFails, recordTerminalFailure, DeleteIfNotModified, record
  <2>3. CASE held' = held
    BY <1>2, <1>3, <2>1, <2>2, <2>3
  <2>4. CASE DeleteIfNotModified(i, l)
    <3> DEFINE f == flush[i][l]
               h == [b \in Alerts |-> IF b \in f.resolved /\ held[i][l][b] = f.alerts[b] THEN 0 ELSE held[i][l][b]]
    <3>1. f.pc = "sent" /\ held' = [held EXCEPT ![i][l] = h] /\ Content(l, f) \subseteq told
      BY <1>0, <2>4 DEF DeleteIfNotModified, SentIsTold
    <3>2. version[a] > 0
      BY <1>0, <2>1 DEF ProviderInv
    <3>3. ASSUME held[current][k][a] = version[a], held'[current][k][a] # version[a]
          PROVE  <<k, a, version[a], TRUE>> \in told
      <4>1. i = current /\ l = k
        BY <1>0, <1>4, <3>1, <3>3
      <4>2. held'[current][k] = h
        BY <1>0, <1>4, <3>1, <4>1
      <4>3. a \in f.resolved /\ f.alerts[a] = version[a]
        BY <1>4, <3>3, <4>1, <4>2
      <4>4. <<k, a, version[a], TRUE>> \in Content(l, f)
        <5>1. (a \in f.resolved) = TRUE
          BY <4>3
        <5>2. a \in {b \in Alerts : f.alerts[b] > 0}
          BY <1>4, <3>2, <4>3
        <5>3. <<l, a, f.alerts[a], a \in f.resolved>> \in Content(l, f)
          BY <5>2 DEF Content
        <5> QED
          BY <4>1, <4>3, <5>1, <5>3
      <4> QED
        BY <3>1, <4>4
    <3> QED
      BY <1>2, <1>3, <2>1, <2>2, <3>3
  <2> QED
    BY <1>8, <2>3, <2>4 DEF GroupStep, Flush, ExecOK, ExecFails, recordTerminalFailure
<1>9. \/ \E c \in Alerts, b \in BOOLEAN : PutAlerts(c, b)
      \/ /\ UNCHANGED version /\ provided' \subseteq provided
         /\ UNCHANGED <<run, inbox, live, held, told, dropped>>
      \/ /\ UNCHANGED version /\ UNCHANGED provided
         /\ \E i \in Dispatchers : Run(i) \/ run_alert(i) \/ doMaintenance(i) \/ run_done(i)
      \/ \E i \in Dispatchers, l \in Keys : GroupStep(i, l)
  BY <1>1 DEF Next, Expire, CollectAlert, Run, run_alert, doMaintenance, run_done, SetConfig, Stop, StopSink,
     provider, groups, record, vars
<1> QED
  BY <1>5, <1>6, <1>7, <1>8, <1>9

LEMMA DispatcherInit == Init => DispatcherInv
<1> SUFFICES ASSUME Init PROVE DispatcherInv
  OBVIOUS
<1>1. ProviderInv
  BY Constants, FS_EmptySet DEF Init, ProviderInv
<1>2. InboxInv
  BY DEF Init, InboxInv, NewestLast
<1>3. GroupsInv
  BY Constants DEF Init, GroupsInv
<1>4. RecordInv
  BY DEF Init, RecordInv, SentIsTold, Idle
<1>5. ServerInv
  BY Constants DEF Init, ServerInv, Dispatchers
<1>6. Accounted
  BY DEF Init, Accounted
<1> QED
  BY <1>1, <1>2, <1>3, <1>4, <1>5, <1>6 DEF DispatcherInv

(* The inductive invariant.                                                 *)
THEOREM DispatcherInvariance == Spec => []DispatcherInv
<1>1. DispatcherInv /\ [Next]_vars => DispatcherInv'
  BY ProviderStep, InboxStep, GroupsStep, ServerStep, AccountedStep DEF DispatcherInv
<1> QED
  BY <1>1, DispatcherInit, PTL DEF Spec

(* The newest version of every alert is under way to the dispatcher that    *)
(* runs, in its groups, or was taken as resolved, whatever maintenance,     *)
(* flushes, late versions and reloads do; and a dispatcher that was         *)
(* replaced has ended, if it ran before it was stopped (dispatcher.go,      *)
(* SetConfig).                                                              *)
THEOREM NoAlertIsForgotten == Spec => []DispatchInv
<1>1. DispatcherInv => DispatchInv
  <2> SUFFICES ASSUME DispatcherInv PROVE DispatchInv
    OBVIOUS
  <2>1. TypeOK
    BY DEF DispatcherInv, ProviderInv, InboxInv, GroupsInv, RecordInv, ServerInv, TypeOK, Entries, Flushes
  <2>2. OneDispatcher
    BY DEF DispatcherInv, ServerInv, OneDispatcher
  <2> QED
    BY <2>1, <2>2 DEF DispatcherInv, DispatchInv
<1> QED
  BY <1>1, DispatcherInvariance, PTL
=============================================================================
