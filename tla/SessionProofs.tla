--------------------------- MODULE SessionProofs ---------------------------
(***************************************************************************)
(* Proofs about SessionRotation, for every set of requests and streams and *)
(* every bound.                                                            *)
(*                                                                         *)
(* The pairs that are issued are counted against what can still ask for    *)
(* one (CountInv).  That a session is not lost rests on what is true as    *)
(* long as none of the accepted causes has occurred (HealthyInv): a pair   *)
(* on its way to the client or back has not aged, and with the opaque      *)
(* tokenizer the newest pair is stored or on its way.                      *)
(***************************************************************************)
EXTENDS SessionRotation, FiniteSetTheorems, TLAPS

Places == {None} \union Pairs
Fetches == [pc : {"none", "asked", "granted", "refused", "failed"}, res : Places, acc : Places,
            again : 0..2]
Positions == [pc : {"idle", "sent", "401", "waiting", "retried", "rejected"}, pair : Places]

ServerInv ==
    /\ provider \in Providers /\ alive \in BOOLEAN /\ grace \in BOOLEAN
    /\ cur \in Pairs /\ prev \in 0..(cur - 1)
    /\ aged \subseteq 1..cur /\ dead \subseteq Pairs

ClientInv ==
    /\ store \in 0..cur
    /\ actor \in [Actors -> Positions]
    /\ \A a \in Actors : actor[a].pair <= cur
    /\ bye \in [{"out", "back"} -> [Places -> Nat]]
    /\ quit \in BOOLEAN /\ failed \in BOOLEAN /\ stale \in BOOLEAN
    /\ sends \in 0..MaxSends /\ faults \in 0..MaxFaults

\* Only an answer that grants the rotation carries a pair; n is the newest one.
Sound(f, p, n) ==
    /\ f.res <= n
    /\ f.pc = "granted" <=> f.res # None
    /\ f.pc = "granted" => p # None
    /\ f.pc # "none" => p <= n
    /\ f.pc = "none" => f.again = 0

FetchInv ==
    /\ fetch \in [Clients -> [Places -> Fetches]]
    /\ \A c \in Clients, p \in Places : Sound(fetch[c][p], p, cur)

\* What can still lead to a rotation.
Asking ==
    {x \in Clients \X Places :
        \/ fetch[x[1]][x[2]].pc = "asked"
        \/ fetch[x[1]][x[2]].pc = "failed" /\ x[2] # None}
Unanswered == {r \in Requests : actor[r].pc \in {"sent", "401"}}

CountInv == cur + Cardinality(Asking) + Cardinality(Unanswered) <= 1 + sends + faults

\* Rotations under way and those who wait for them belong together.
WaitInv ==
    /\ WaitersAreServed
    /\ \A c \in Clients, p \in Places : fetch[c][p].pc # "none" => Waiting(c, p) # {}

Excused == dead # {} \/ quit \/ failed \/ (provider = "opaque" /\ (stale \/ faults > 0))

\* A pair that travels to the client or comes back with a second attempt is young.
Young ==
    /\ \A c \in Clients, p \in Pairs : fetch[c][p].res \notin aged
    /\ \A r \in Requests : actor[r].pc = "retried" => actor[r].pair # None /\ actor[r].pair \notin aged
    /\ provider = "opaque" => \A c \in Clients : fetch[c][prev].pc = "asked" => cur \notin aged

Healthy ==
    /\ ~Leaving /\ store # None /\ alive
    /\ \A c \in Clients, p \in Places :
          /\ fetch[c][p].pc # "refused" /\ (provider = "opaque" => fetch[c][p].pc # "failed")
          /\ fetch[c][p].pc = "asked" =>
                p # None /\ fetch[c][p].acc # None /\ (provider = "opaque" => fetch[c][p].acc = p)
    /\ \A r \in Requests : actor[r].pc # "rejected"
    /\ provider = "opaque" => store = cur \/ \E c \in Clients, p \in Pairs : fetch[c][p].res = cur
    /\ Young

HealthyInv == Excused \/ Healthy

RotationInv ==
    /\ ServerInv /\ ClientInv /\ FetchInv /\ CountInv /\ WaitInv
    /\ StoredIsCurrent /\ HealthyInv

-----------------------------------------------------------------------------
LEMMA Constants ==
    /\ MaxSends \in Nat /\ MaxFaults \in Nat /\ MaxSends + MaxFaults + 1 \in Nat
    /\ Pairs = 1..(MaxSends + MaxFaults + 1) /\ Places = 0..(MaxSends + MaxFaults + 1)
    /\ 1 \in Pairs /\ 0 \in Places /\ None \in Places /\ Pairs \subseteq Places /\ None = 0
    /\ \A p \in Places : p # None => p \in Pairs
    /\ Requests \subseteq Actors /\ Tails \subseteq Actors
<1>1. /\ MaxSends \in Nat /\ MaxFaults \in Nat /\ MaxSends + MaxFaults + 1 \in Nat
      /\ MaxSends + MaxFaults + 1 >= 1
  BY SessionAssumption
<1>2. Pairs = 1..(MaxSends + MaxFaults + 1) /\ None = 0
  BY DEF Pairs, None
<1> HIDE DEF Pairs, None
<1>3. Places = 0..(MaxSends + MaxFaults + 1)
  BY <1>1, <1>2 DEF Places
<1> QED
  BY <1>1, <1>2, <1>3 DEF Actors

LEMMA Finite ==
    /\ IsFiniteSet(Actors) /\ IsFiniteSet(Requests)
    /\ \A S : S \subseteq Requests => IsFiniteSet(S) /\ Cardinality(S) \in Nat
    /\ \A S : S \subseteq Actors => IsFiniteSet(S) /\ Cardinality(S) \in Nat
    /\ \A S : S \subseteq Clients \X Places => IsFiniteSet(S) /\ Cardinality(S) \in Nat
<1>1. IsFiniteSet(Actors) /\ IsFiniteSet(Requests)
  BY SessionAssumption, FS_Union DEF Actors
<1>2. IsFiniteSet(Clients)
  <2>1. IsFiniteSet({"api"}) /\ IsFiniteSet({"app"})
    BY FS_Singleton
  <2>2. Clients = {"api"} \union {"app"}
    BY DEF Clients
  <2> QED
    BY <2>1, <2>2, FS_Union
<1>3. IsFiniteSet(Places)
  BY Constants, FS_Interval
<1>4. IsFiniteSet(Clients \X Places)
  BY <1>2, <1>3, FS_Product
<1>5. ASSUME NEW T, IsFiniteSet(T), NEW S, S \subseteq T PROVE IsFiniteSet(S) /\ Cardinality(S) \in Nat
  <2>1. IsFiniteSet(S)
    BY <1>5, FS_Subset
  <2> QED
    BY <2>1, FS_CardinalityType
<1> QED
  BY <1>1, <1>4, <1>5

(* The steps, by what they change.                                          *)
LEMMA ServerMoves ==
  ASSUME [Next]_vars
  PROVE  /\ UNCHANGED provider
         /\ \/ UNCHANGED <<cur, prev, alive, grace, aged, dead>>
            \/ \E p \in Places : DeleteSession(p)
            \/ \E c \in Clients, p \in Places : Rotate(c, p)
            \/ GraceEnds
            \/ \E p \in Pairs : Age(p) \/ Expire(p)
<1>1. ASSUME NEW r \in Requests, Send(r) \/ RequestStep(r) PROVE UNCHANGED server
  BY <1>1 DEF Send, RequestStep, Serve, RejectExcluded, Reject, ServeRetry, RetryFails, server
<1>2. ASSUME NEW c \in Clients, NEW p \in Places,
             RotateAgain(c, p) \/ RotationArrives(c, p) \/ RotationFails(c, p) \/ RotateFault(c, p)
      PROVE  UNCHANGED server
  BY <1>2 DEF RotateAgain, RotationArrives, RotationFails, RotateFault
<1>3. ASSUME NEW p \in Places, LogoutEnds(p) PROVE UNCHANGED server
  BY <1>3 DEF LogoutEnds
<1>4. (UserLogout => UNCHANGED server) /\ \A t \in Tails : StreamError(t) => UNCHANGED server
  BY DEF UserLogout, StreamError
<1>5. \/ UNCHANGED server
      \/ \E p \in Places : DeleteSession(p)
      \/ \E c \in Clients, p \in Places : Rotate(c, p)
      \/ GraceEnds
      \/ \E p \in Pairs : Age(p) \/ Expire(p)
  BY <1>1, <1>2, <1>3, <1>4 DEF Next, RotationStep, LogoutStep, vars, server, Places
<1>6. UNCHANGED provider
  BY <1>5 DEF server, DeleteSession, Rotate, GraceEnds, Age, Expire
<1> QED
  BY <1>5, <1>6 DEF server

LEMMA ActorMoves ==
  ASSUME [Next]_vars
  PROVE  \/ UNCHANGED <<actor, sends>>
         \/ \E r \in Requests : Send(r) \/ Serve(r) \/ RejectExcluded(r) \/ Reject(r) \/ ServeRetry(r) \/ RetryFails(r)
         \/ \E t \in Tails : StreamError(t)
         \/ \E c \in Clients, p \in Places : RotationArrives(c, p) \/ RotationFails(c, p)
<1>1. ASSUME NEW c \in Clients, NEW p \in Places, Rotate(c, p) \/ RotateAgain(c, p) \/ RotateFault(c, p)
      PROVE  UNCHANGED <<actor, sends>>
  BY <1>1 DEF Rotate, RotateAgain, RotateFault
<1>2. ASSUME NEW p \in Places, LogoutStep(p) PROVE UNCHANGED <<actor, sends>>
  BY <1>2 DEF LogoutStep, DeleteSession, LogoutEnds
<1>3. UserLogout \/ GraceEnds \/ (\E p \in Pairs : Age(p) \/ Expire(p)) => UNCHANGED <<actor, sends>>
  BY DEF UserLogout, GraceEnds, Age, Expire
<1> QED
  BY <1>1, <1>2, <1>3 DEF Next, RotationStep, RequestStep, vars, Places

LEMMA FetchMoves ==
  ASSUME [Next]_vars
  PROVE  \/ UNCHANGED fetch
         \/ \E r \in Requests : Reject(r)
         \/ \E t \in Tails : StreamError(t)
         \/ \E c \in Clients, p \in Places : \/ Rotate(c, p) \/ RotateAgain(c, p) \/ RotateFault(c, p)
                                             \/ RotationArrives(c, p) \/ RotationFails(c, p)
<1>1. ASSUME NEW r \in Requests, Send(r) \/ Serve(r) \/ RejectExcluded(r) \/ ServeRetry(r) \/ RetryFails(r)
      PROVE  UNCHANGED fetch
  BY <1>1 DEF Send, Serve, RejectExcluded, ServeRetry, RetryFails
<1>2. ASSUME NEW p \in Places, LogoutStep(p) PROVE UNCHANGED fetch
  BY <1>2 DEF LogoutStep, DeleteSession, LogoutEnds
<1>3. UserLogout \/ GraceEnds \/ (\E p \in Pairs : Age(p) \/ Expire(p)) => UNCHANGED fetch
  BY DEF UserLogout, GraceEnds, Age, Expire
<1> QED
  BY <1>1, <1>2, <1>3 DEF Next, RotationStep, RequestStep, vars, Places

LEMMA StoreMoves ==
  ASSUME [Next]_vars
  PROVE  \/ UNCHANGED store
         \/ \E p \in Places : LogoutEnds(p)
         \/ \E c \in Clients, p \in Places : RotationArrives(c, p)
<1>1. ASSUME NEW r \in Requests, Send(r) \/ RequestStep(r) PROVE UNCHANGED store
  BY <1>1 DEF Send, RequestStep, Serve, RejectExcluded, Reject, ServeRetry, RetryFails
<1>2. ASSUME NEW c \in Clients, NEW p \in Places,
             Rotate(c, p) \/ RotateAgain(c, p) \/ RotationFails(c, p) \/ RotateFault(c, p)
      PROVE  UNCHANGED store
  BY <1>2 DEF Rotate, RotateAgain, RotationFails, RotateFault
<1>3. ASSUME NEW p \in Places, DeleteSession(p) PROVE UNCHANGED store
  BY <1>3 DEF DeleteSession
<1>4. ASSUME NEW t \in Tails, StreamError(t) PROVE UNCHANGED store
  BY <1>4 DEF StreamError
<1>5. UserLogout \/ GraceEnds \/ (\E p \in Pairs : Age(p) \/ Expire(p)) => UNCHANGED store
  BY DEF UserLogout, GraceEnds, Age, Expire
<1> QED
  BY <1>1, <1>2, <1>3, <1>4, <1>5 DEF Next, RotationStep, LogoutStep, vars, Places

LEMMA LogoutMoves ==
  ASSUME [Next]_vars
  PROVE  \/ UNCHANGED bye
         \/ UserLogout
         \/ \E r \in Requests : RetryFails(r)
         \/ \E c \in Clients, p \in Places : RotationFails(c, p)
         \/ \E p \in Places : DeleteSession(p) \/ LogoutEnds(p)
<1>1. ASSUME NEW r \in Requests, Send(r) \/ Serve(r) \/ RejectExcluded(r) \/ Reject(r) \/ ServeRetry(r)
      PROVE  UNCHANGED bye
  BY <1>1 DEF Send, Serve, RejectExcluded, Reject, ServeRetry
<1>2. ASSUME NEW c \in Clients, NEW p \in Places,
             Rotate(c, p) \/ RotateAgain(c, p) \/ RotationArrives(c, p) \/ RotateFault(c, p)
      PROVE  UNCHANGED bye
  BY <1>2 DEF Rotate, RotateAgain, RotationArrives, RotateFault
<1>3. ASSUME NEW t \in Tails, StreamError(t) PROVE UNCHANGED bye
  BY <1>3 DEF StreamError
<1>4. GraceEnds \/ (\E p \in Pairs : Age(p) \/ Expire(p)) => UNCHANGED bye
  BY DEF GraceEnds, Age, Expire
<1> QED
  BY <1>1, <1>2, <1>3, <1>4 DEF Next, RotationStep, RequestStep, LogoutStep, vars, Places

LEMMA FlagMoves ==
  ASSUME [Next]_vars
  PROVE  \/ UNCHANGED <<quit, failed, stale, faults>>
         \/ UserLogout
         \/ \E r \in Requests : ServeRetry(r)
         \/ \E c \in Clients, p \in Places : \/ Rotate(c, p) \/ RotateFault(c, p)
                                             \/ RotationArrives(c, p) \/ RotationFails(c, p)
<1>1. ASSUME NEW r \in Requests, Send(r) \/ Serve(r) \/ RejectExcluded(r) \/ Reject(r) \/ RetryFails(r)
      PROVE  UNCHANGED <<quit, failed, stale, faults>>
  BY <1>1 DEF Send, Serve, RejectExcluded, Reject, RetryFails
<1>2. ASSUME NEW c \in Clients, NEW p \in Places, RotateAgain(c, p) PROVE UNCHANGED <<quit, failed, stale, faults>>
  BY <1>2 DEF RotateAgain
<1>3. ASSUME NEW t \in Tails, StreamError(t) PROVE UNCHANGED <<quit, failed, stale, faults>>
  BY <1>3 DEF StreamError
<1>4. ASSUME NEW p \in Places, LogoutStep(p) PROVE UNCHANGED <<quit, failed, stale, faults>>
  BY <1>4 DEF LogoutStep, DeleteSession, LogoutEnds
<1>5. GraceEnds \/ (\E p \in Pairs : Age(p) \/ Expire(p)) => UNCHANGED <<quit, failed, stale, faults>>
  BY DEF GraceEnds, Age, Expire
<1> QED
  BY <1>1, <1>2, <1>3, <1>4, <1>5 DEF Next, RotationStep, RequestStep, vars, Places

-----------------------------------------------------------------------------
(* What a rotation does to its entry.                                       *)
LEMMA Granted ==
  ASSUME NEW f \in Fetches, NEW pc \in {"asked", "granted", "refused", "failed"}, NEW q \in Places
  PROVE  /\ Answered(f, pc, q) \in Fetches
         /\ Answered(f, pc, q).pc = pc /\ Answered(f, pc, q).res = q
         /\ Answered(f, pc, q).acc = f.acc /\ Answered(f, pc, q).again = f.again
  BY DEF Answered, Fetches

LEMMA Assign ==
  ASSUME fetch \in [Clients -> [Places -> Fetches]], NEW c \in Clients, NEW p \in Places, NEW g \in Fetches,
         fetch' = [fetch EXCEPT ![c][p] = g]
  PROVE  /\ fetch' \in [Clients -> [Places -> Fetches]] /\ fetch'[c][p] = g
         /\ \A d \in Clients, q \in Places : <<d, q>> # <<c, p>> => fetch'[d][q] = fetch[d][q]
  OBVIOUS

LEMMA CurBelow ==
  ASSUME RotationInv, NEW c \in Clients, NEW p \in Places, fetch[c][p].pc = "asked"
  PROVE  cur + 1 \in Pairs
<1>1. Asking \subseteq Clients \X Places /\ <<c, p>> \in Asking
  BY DEF Asking
<1>2. IsFiniteSet(Asking) /\ Cardinality(Asking) \in Nat
  BY <1>1, Finite
<1>3. Cardinality(Asking) # 0
  BY <1>1, <1>2, FS_EmptySet
<1>4. Unanswered \subseteq Requests
  BY DEF Unanswered
<1>5. Cardinality(Unanswered) \in Nat
  BY <1>4, Finite
<1>6. cur \in Nat /\ cur >= 1 /\ sends \in 0..MaxSends /\ faults \in 0..MaxFaults
  BY Constants DEF RotationInv, ServerInv, ClientInv
<1>7. cur + Cardinality(Asking) + Cardinality(Unanswered) <= 1 + sends + faults
  BY DEF RotationInv, CountInv
<1>8. cur + 1 <= MaxSends + MaxFaults + 1
  BY <1>2, <1>3, <1>5, <1>6, <1>7, Constants
<1> QED
  BY <1>6, <1>8, Constants

LEMMA RotateEffect ==
  ASSUME RotationInv, NEW c \in Clients, NEW p \in Places, Rotate(c, p)
  PROVE  LET f == fetch[c][p] IN
         /\ f.pc = "asked" /\ f \in Fetches
         /\ \/ /\ Accepts(p, f.acc) /\ ~IsPrevious(p) /\ p # None
               /\ cur' = cur + 1 /\ prev' = cur /\ grace' = TRUE
               /\ fetch' = [fetch EXCEPT ![c][p] = Answered(f, "granted", cur + 1)]
            \/ /\ Accepts(p, f.acc) /\ IsPrevious(p) /\ p # None /\ UNCHANGED <<cur, prev, grace>>
               /\ fetch' = [fetch EXCEPT ![c][p] = Answered(f, "granted", cur)]
            \/ /\ ~Accepts(p, f.acc) /\ p = None /\ UNCHANGED <<cur, prev, grace>>
               /\ fetch' = [fetch EXCEPT ![c][p] = Answered(f, "failed", None)]
            \/ /\ ~Accepts(p, f.acc) /\ p # None /\ UNCHANGED <<cur, prev, grace>>
               /\ fetch' = [fetch EXCEPT ![c][p] = Answered(f, "refused", None)]
<1> DEFINE f == fetch[c][p]
<1>1. fetch \in [Clients -> [Places -> Fetches]] /\ f \in Fetches
  BY DEF RotationInv, FetchInv
<1>2. /\ f.pc = "asked"
      /\ fetch' = [fetch EXCEPT ![c][p] = Answered(f, Verdict(p, f.acc), IF Accepts(p, f.acc) THEN Rotated(p) ELSE None)]
      /\ IF Accepts(p, f.acc) /\ ~IsPrevious(p)
         THEN cur' = cur + 1 /\ prev' = cur /\ grace' = TRUE
         ELSE UNCHANGED <<cur, prev, grace>>
  BY <1>1 DEF Rotate
<1>3. CASE Accepts(p, f.acc) /\ ~IsPrevious(p)
  <2>1. Verdict(p, f.acc) = "granted" /\ Rotated(p) = cur + 1
    BY <1>3 DEF Verdict, Rotated
  <2>2. p # None
    BY <1>3 DEF Accepts
  <2> QED
    BY <1>1, <1>2, <1>3, <2>1, <2>2
<1>4. CASE Accepts(p, f.acc) /\ IsPrevious(p)
  <2>1. Verdict(p, f.acc) = "granted" /\ Rotated(p) = cur
    BY <1>4 DEF Verdict, Rotated
  <2>2. p # None
    BY <1>4 DEF Accepts
  <2> QED
    BY <1>1, <1>2, <1>4, <2>1, <2>2
<1>5. CASE ~Accepts(p, f.acc)
  <2>1. Verdict(p, f.acc) = IF p = None THEN "failed" ELSE "refused"
    BY <1>5 DEF Verdict
  <2> QED
    BY <1>1, <1>2, <1>5, <2>1
<1> QED
  BY <1>3, <1>4, <1>5

LEMMA ServerStep == RotationInv /\ [Next]_vars => ServerInv' /\ cur' \in cur..(cur + 1)
<1> SUFFICES ASSUME RotationInv, [Next]_vars PROVE ServerInv' /\ cur' \in cur..(cur + 1)
  OBVIOUS
<1>0. /\ provider \in Providers /\ alive \in BOOLEAN /\ grace \in BOOLEAN
      /\ cur \in Pairs /\ cur \in Nat /\ cur >= 1 /\ prev \in 0..(cur - 1)
      /\ aged \subseteq 1..cur /\ dead \subseteq Pairs /\ 1..cur \subseteq Pairs
      /\ provider' = provider
  BY Constants, ServerMoves DEF RotationInv, ServerInv
<1>1. CASE UNCHANGED <<cur, prev, alive, grace, aged, dead>>
  BY <1>0, <1>1 DEF ServerInv
<1>2. ASSUME NEW p \in Places, DeleteSession(p) PROVE ServerInv' /\ cur' \in cur..(cur + 1)
  <2>1. UNCHANGED <<cur, prev, grace, aged, dead>> /\ alive' = (alive /\ ~(provider = "opaque" /\ p = cur))
    BY <1>2 DEF DeleteSession
  <2>2. alive' \in BOOLEAN
    BY <2>1, Zenon
  <2> QED
    BY <1>0, <2>1, <2>2 DEF ServerInv
<1>3. ASSUME NEW c \in Clients, NEW p \in Places, Rotate(c, p) PROVE ServerInv' /\ cur' \in cur..(cur + 1)
  <2>1. UNCHANGED <<alive, aged, dead>>
    BY <1>3 DEF Rotate
  <2>2. \/ cur' = cur + 1 /\ prev' = cur /\ grace' = TRUE
        \/ UNCHANGED <<cur, prev, grace>>
    BY <1>3, RotateEffect
  <2>3. cur + 1 \in Pairs
    BY <1>3, RotateEffect, CurBelow
  <2>4. CASE cur' = cur + 1 /\ prev' = cur /\ grace' = TRUE
    <3>1. prev' \in 0..(cur' - 1) /\ 1..cur \subseteq 1..cur' /\ cur' \in cur..(cur + 1)
      BY <1>0, <2>4
    <3> QED
      BY <1>0, <2>1, <2>3, <2>4, <3>1 DEF ServerInv
  <2>5. CASE UNCHANGED <<cur, prev, grace>>
    BY <1>0, <2>1, <2>5 DEF ServerInv
  <2> QED
    BY <2>2, <2>4, <2>5
<1>4. CASE GraceEnds
  <2>1. UNCHANGED <<cur, prev, alive, aged, dead>> /\ grace' = FALSE
    BY <1>4 DEF GraceEnds
  <2>2. grace' \in BOOLEAN
    BY <2>1
  <2> QED
    BY <1>0, <2>1, <2>2 DEF ServerInv
<1>5. ASSUME NEW p \in Pairs, Age(p) PROVE ServerInv' /\ cur' \in cur..(cur + 1)
  BY <1>0, <1>5 DEF Age, ServerInv
<1>6. ASSUME NEW p \in Pairs, Expire(p) PROVE ServerInv' /\ cur' \in cur..(cur + 1)
  BY <1>0, <1>6 DEF Expire, ServerInv
<1> QED
  BY <1>1, <1>2, <1>3, <1>4, <1>5, <1>6, ServerMoves

LEMMA FetchStep == RotationInv /\ [Next]_vars => FetchInv'
<1> SUFFICES ASSUME RotationInv, [Next]_vars PROVE FetchInv'
  OBVIOUS
<1>0. /\ fetch \in [Clients -> [Places -> Fetches]] /\ cur \in Pairs /\ cur \in Nat /\ store \in 0..cur
      /\ cur' \in Pairs /\ cur' \in Nat /\ cur' >= cur /\ store \in Places /\ Places \subseteq Nat
      /\ \A c \in Clients, p \in Places : Sound(fetch[c][p], p, cur)
  <2>1. cur \in Pairs /\ cur' \in Pairs /\ store \in 0..cur
    BY ServerStep DEF RotationInv, ServerInv, ClientInv
  <2>2. cur' \in cur..(cur + 1)
    BY ServerStep
  <2>3. fetch \in [Clients -> [Places -> Fetches]] /\ \A c \in Clients, p \in Places : Sound(fetch[c][p], p, cur)
    BY DEF RotationInv, FetchInv
  <2> QED
    BY <2>1, <2>2, <2>3, Constants
<1>1. ASSUME NEW f \in Fetches, NEW p \in Places, Sound(f, p, cur) PROVE Sound(f, p, cur')
  <2>1. f.res \in Nat /\ p \in Nat
    BY <1>0 DEF Fetches
  <2> QED
    BY <1>0, <1>1, <2>1 DEF Sound
<1>2. CASE UNCHANGED fetch
  BY <1>0, <1>1, <1>2 DEF FetchInv
<1>3. ASSUME NEW c \in Clients, NEW p \in Places, NEW g \in Fetches,
             fetch' = [fetch EXCEPT ![c][p] = g], Sound(g, p, cur')
      PROVE  FetchInv'
  <2>1. fetch' \in [Clients -> [Places -> Fetches]]
    BY <1>0, <1>3
  <2>2. \A d \in Clients, q \in Places : fetch'[d][q] = fetch[d][q] \/ (d = c /\ q = p /\ fetch'[d][q] = g)
    BY <1>0, <1>3
  <2> QED
    BY <1>0, <1>1, <1>3, <2>1, <2>2 DEF FetchInv
<1>4. ASSUME NEW n \in 0..2 PROVE Asked(n) \in Fetches /\ \A p \in Places : p <= cur => Sound(Asked(n), p, cur')
  BY <1>0, <1>4, Constants DEF Asked, Fetches, Sound, None
<1>5. NoFetch \in Fetches /\ \A p \in Places : Sound(NoFetch, p, cur')
  BY <1>0, Constants DEF NoFetch, Fetches, Sound, None
<1>6. ASSUME NEW c \in Clients, fetchQuery(c, store) PROVE FetchInv'
  <2>1. fetch' = fetch \/ fetch' = [fetch EXCEPT ![c][store] = Asked(0)]
    BY <1>6 DEF fetchQuery
  <2>2. Asked(0) \in Fetches /\ Sound(Asked(0), store, cur')
    BY <1>0, <1>4
  <2> QED
    BY <1>0, <1>2, <1>3, <2>1, <2>2
<1>7. ASSUME NEW r \in Requests, Reject(r) PROVE FetchInv'
  BY <1>6, <1>7 DEF Reject, Clients
<1>8. ASSUME NEW t \in Tails, StreamError(t) PROVE FetchInv'
  BY <1>6, <1>8 DEF StreamError, Clients
<1>9. ASSUME NEW c \in Clients, NEW p \in Places, Rotate(c, p) PROVE FetchInv'
  <2> DEFINE f == fetch[c][p]
  <2>1. f \in Fetches /\ f.pc = "asked" /\ Sound(f, p, cur)
    BY <1>0, <1>9, RotateEffect
  <2>2. p <= cur /\ p <= cur'
    BY <1>0, <2>1 DEF Sound
  <2>3. \/ /\ p # None /\ cur' = cur + 1 /\ fetch' = [fetch EXCEPT ![c][p] = Answered(f, "granted", cur + 1)]
        \/ /\ p # None /\ cur' = cur /\ fetch' = [fetch EXCEPT ![c][p] = Answered(f, "granted", cur)]
        \/ fetch' = [fetch EXCEPT ![c][p] = Answered(f, "failed", None)]
        \/ fetch' = [fetch EXCEPT ![c][p] = Answered(f, "refused", None)]
    BY <1>9, RotateEffect
  <2> HIDE DEF f
  <2>4. ASSUME NEW q \in Places, q = cur', p # None, fetch' = [fetch EXCEPT ![c][p] = Answered(f, "granted", q)]
        PROVE  FetchInv'
    <3>1. Answered(f, "granted", q) \in Fetches /\ Answered(f, "granted", q).pc = "granted" /\ Answered(f, "granted", q).res = q
      BY <2>1, <2>4, Granted, Constants
    <3>2. Sound(Answered(f, "granted", q), p, cur')
      BY <1>0, <2>2, <2>4, <3>1, Constants DEF Sound
    <3> QED
      BY <1>3, <2>4, <3>1, <3>2
  <2>5. ASSUME NEW pc \in {"failed", "refused"}, fetch' = [fetch EXCEPT ![c][p] = Answered(f, pc, None)]
        PROVE  FetchInv'
    <3>1. Answered(f, pc, None) \in Fetches /\ Answered(f, pc, None).pc = pc /\ Answered(f, pc, None).res = None
      <4>1. None \in Places
        BY Constants
      <4>2. CASE pc = "failed"
        BY <2>1, <4>1, <4>2, Granted
      <4>3. CASE pc = "refused"
        BY <2>1, <4>1, <4>3, Granted
      <4> QED
        BY <2>5, <4>2, <4>3
    <3>2. Sound(Answered(f, pc, None), p, cur')
      BY <1>0, <2>2, <2>5, <3>1, Constants DEF Sound
    <3> QED
      BY <1>3, <2>5, <3>1, <3>2
  <2>6. cur' \in Places
    BY <1>0, Constants
  <2> QED
    BY <2>3, <2>4, <2>5, <2>6
<1>10. ASSUME NEW c \in Clients, NEW p \in Places, RotateFault(c, p) PROVE FetchInv'
  <2> DEFINE f == fetch[c][p]
  <2>1. f \in Fetches /\ f.pc # "none" /\ Sound(f, p, cur) /\ fetch' = [fetch EXCEPT ![c][p] = Answered(f, "failed", None)]
    BY <1>0, <1>10 DEF RotateFault
  <2> HIDE DEF f
  <2>2. Answered(f, "failed", None) \in Fetches /\ Answered(f, "failed", None).pc = "failed" /\ Answered(f, "failed", None).res = None
    <3>1. None \in Places
      BY Constants
    <3> QED
      BY <2>1, <3>1, Granted
  <2>3. p <= cur /\ p \in Nat
    BY <1>0, <2>1 DEF Sound
  <2>4. Sound(Answered(f, "failed", None), p, cur')
    BY <1>0, <2>2, <2>3, Constants DEF Sound
  <2> QED
    BY <1>3, <2>1, <2>2, <2>4
<1>11. ASSUME NEW c \in Clients, NEW p \in Places, RotateAgain(c, p) PROVE FetchInv'
  <2>1. /\ fetch' = [fetch EXCEPT ![c][p] = Asked(fetch[c][p].again + 1)] /\ fetch[c][p].again < 2
        /\ fetch[c][p].again \in 0..2 /\ fetch[c][p].pc # "none" /\ Sound(fetch[c][p], p, cur)
    BY <1>0, <1>11 DEF RotateAgain, Again, Fetches
  <2>2. fetch[c][p].again + 1 \in 0..2 /\ p <= cur
    BY <2>1 DEF Sound
  <2> QED
    BY <1>3, <1>4, <2>1, <2>2
<1>12. ASSUME NEW c \in Clients, NEW p \in Places, RotationArrives(c, p) \/ RotationFails(c, p) PROVE FetchInv'
  <2>1. fetch' = [fetch EXCEPT ![c][p] = NoFetch]
    BY <1>12 DEF RotationArrives, RotationFails
  <2> QED
    BY <1>3, <1>5, <2>1
<1> QED
  BY <1>2, <1>7, <1>8, <1>9, <1>10, <1>11, <1>12, FetchMoves

(* The requests and streams.                                                *)
LEMMA GoType ==
  ASSUME actor \in [Actors -> Positions], NEW a \in Actors, NEW q \in Places,
         NEW pc \in {"idle", "sent", "401", "waiting", "retried", "rejected"}, Go(a, pc, q)
  PROVE  /\ actor' \in [Actors -> Positions] /\ actor'[a] = [pc |-> pc, pair |-> q]
         /\ \A b \in Actors : b # a => actor'[b] = actor[b]
<1>1. [pc |-> pc, pair |-> q] \in Positions
  BY DEF Positions
<1> QED
  BY <1>1 DEF Go

LEMMA ActorStep == RotationInv /\ [Next]_vars => actor' \in [Actors -> Positions] /\ \A a \in Actors : actor'[a].pair <= cur'
<1> SUFFICES ASSUME RotationInv, [Next]_vars
             PROVE  actor' \in [Actors -> Positions] /\ \A a \in Actors : actor'[a].pair <= cur'
  OBVIOUS
<1>0. /\ actor \in [Actors -> Positions] /\ \A a \in Actors : actor[a].pair <= cur /\ actor[a].pair \in Places
      /\ fetch \in [Clients -> [Places -> Fetches]] /\ \A c \in Clients, p \in Places : Sound(fetch[c][p], p, cur)
      /\ store \in Places /\ store <= cur
  <2>1. actor \in [Actors -> Positions] /\ \A a \in Actors : actor[a].pair <= cur
    BY DEF RotationInv, ClientInv
  <2>2. \A a \in Actors : actor[a].pair \in Places
    BY <2>1 DEF Positions
  <2>3. fetch \in [Clients -> [Places -> Fetches]] /\ \A c \in Clients, p \in Places : Sound(fetch[c][p], p, cur)
    BY DEF RotationInv, FetchInv
  <2>4. store \in 0..cur /\ cur \in Pairs
    BY DEF RotationInv, ClientInv, ServerInv
  <2>5. store \in Places /\ store <= cur
    BY <2>4, Constants
  <2> QED
    BY <2>1, <2>2, <2>3, <2>5
<1>1. cur \in Nat /\ cur' \in Nat /\ cur <= cur' /\ Places \subseteq Nat /\ None \in Places /\ None <= cur
  BY ServerStep, Constants DEF RotationInv, ServerInv
<1>9. \A a \in Actors : actor[a].pair \in Nat
  BY <1>0, <1>1
<1>2. CASE UNCHANGED actor
  BY <1>0, <1>1, <1>2, <1>9
<1>3. ASSUME NEW a \in Actors, NEW q \in Places, q <= cur,
             NEW pc \in {"idle", "sent", "401", "waiting", "retried", "rejected"}, Go(a, pc, q)
      PROVE  actor' \in [Actors -> Positions] /\ \A b \in Actors : actor'[b].pair <= cur'
  <2>1. /\ actor' \in [Actors -> Positions] /\ actor'[a] = [pc |-> pc, pair |-> q]
        /\ \A b \in Actors : b # a => actor'[b] = actor[b]
    <3>1. actor \in [Actors -> Positions]
      BY <1>0
    <3> QED
      BY <1>3, <3>1, GoType
  <2>2. q \in Nat /\ actor'[a].pair = q
    <3>1. q \in Nat
      BY <1>1
    <3>2. actor'[a].pair = q
      <4>1. actor'[a] = [pc |-> pc, pair |-> q]
        BY <2>1
      <4> QED
        BY <4>1
    <3> QED
      BY <3>1, <3>2
  <2>3. ASSUME NEW b \in Actors PROVE actor'[b].pair <= cur
    BY <1>0, <1>3, <2>1, <2>2
  <2>4. \A b \in Actors : actor'[b].pair \in Nat
    BY <1>9, <2>1, <2>2
  <2>5. ASSUME NEW b \in Actors PROVE actor'[b].pair <= cur'
    <3>1. actor'[b].pair \in Nat /\ actor'[b].pair <= cur
      BY <2>3, <2>4
    <3> QED
      BY <1>1, <3>1
  <2> QED
    BY <2>1, <2>5
<1>4. ASSUME NEW r \in Requests, Send(r) \/ Serve(r) \/ RejectExcluded(r) \/ Reject(r) \/ ServeRetry(r) \/ RetryFails(r)
      PROVE  \E q \in Places, pc \in {"idle", "sent", "401", "waiting", "retried", "rejected"} : q <= cur /\ Go(r, pc, q)
  <2>0. r \in Actors
    BY Constants
  <2>1. CASE Send(r) \/ Reject(r)
    BY <1>0, <2>1 DEF Send, Reject
  <2>2. CASE RejectExcluded(r) \/ RetryFails(r)
    BY <1>1, <2>2 DEF RejectExcluded, RetryFails
  <2>3. CASE Serve(r)
    BY <1>0, <1>1, <2>0, <2>3 DEF Serve
  <2>4. CASE ServeRetry(r)
    BY <1>0, <2>0, <2>4 DEF ServeRetry
  <2> QED
    BY <1>4, <2>1, <2>2, <2>3, <2>4
<1>5. ASSUME NEW t \in Tails, StreamError(t)
      PROVE  actor' \in [Actors -> Positions] /\ \A a \in Actors : actor'[a].pair <= cur'
  BY <1>0, <1>3, <1>5, Constants DEF StreamError
<1>6. ASSUME NEW c \in Clients, NEW p \in Places, NEW q \in Places, q <= cur,
             actor' \in {Retried(c, p, q), [a \in Actors |-> IF a \in Waiting(c, p) THEN Idle ELSE actor[a]]}
      PROVE  actor' \in [Actors -> Positions] /\ \A a \in Actors : actor'[a].pair <= cur'
  <2>1. Idle \in Positions /\ Idle.pair = None /\ [pc |-> "retried", pair |-> q] \in Positions
    BY <1>1 DEF Idle, Positions
  <2>2. /\ \A a \in Actors : actor'[a] \in {actor[a], Idle, [pc |-> "retried", pair |-> q]}
        /\ actor' = [a \in Actors |-> actor'[a]]
    BY <1>6 DEF Retried
  <2>3. actor' \in [Actors -> Positions]
    BY <1>0, <2>1, <2>2
  <2>4. ASSUME NEW a \in Actors PROVE actor'[a].pair <= cur
    BY <1>0, <1>1, <1>6, <2>1, <2>2
  <2>5. \A a \in Actors : actor'[a].pair \in Nat
    BY <1>1, <2>3 DEF Positions
  <2> QED
    BY <1>1, <2>3, <2>4, <2>5
<1>7. ASSUME NEW c \in Clients, NEW p \in Places, RotationArrives(c, p)
      PROVE  actor' \in [Actors -> Positions] /\ \A a \in Actors : actor'[a].pair <= cur'
  <2>1. fetch[c][p].res \in Places /\ fetch[c][p].res <= cur
    BY <1>0 DEF Fetches, Sound
  <2> QED
    BY <1>6, <1>7, <2>1 DEF RotationArrives
<1>8. ASSUME NEW c \in Clients, NEW p \in Places, RotationFails(c, p)
      PROVE  actor' \in [Actors -> Positions] /\ \A a \in Actors : actor'[a].pair <= cur'
  BY <1>1, <1>6, <1>8 DEF RotationFails
<1> QED
  BY <1>2, <1>3, <1>4, <1>5, <1>7, <1>8, ActorMoves, Constants

LEMMA ByeStep == RotationInv /\ [Next]_vars => bye' \in [{"out", "back"} -> [Places -> Nat]]
<1> SUFFICES ASSUME RotationInv, [Next]_vars PROVE bye' \in [{"out", "back"} -> [Places -> Nat]]
  OBVIOUS
<1>0. bye \in [{"out", "back"} -> [Places -> Nat]] /\ store \in Places
  BY Constants DEF RotationInv, ClientInv, ServerInv
<1>1. ASSUME NEW n \in Nat, Logout(n, store) PROVE bye' \in [{"out", "back"} -> [Places -> Nat]]
  <2>1. bye["out"][store] + n \in Nat
    BY <1>0
  <2>2. bye' = [bye EXCEPT !["out"][store] = bye["out"][store] + n]
    BY <1>0, <1>1 DEF Logout
  <2> QED
    BY <1>0, <2>1, <2>2
<1>2. CASE UserLogout
  BY <1>1, <1>2 DEF UserLogout
<1>3. ASSUME NEW r \in Requests, RetryFails(r) PROVE bye' \in [{"out", "back"} -> [Places -> Nat]]
  BY <1>1, <1>3 DEF RetryFails
<1>4. ASSUME NEW c \in Clients, NEW p \in Places, RotationFails(c, p) PROVE bye' \in [{"out", "back"} -> [Places -> Nat]]
  <2>1. Waiting(c, p) \subseteq Actors
    BY DEF Waiting
  <2>2. Cardinality(Waiting(c, p)) \in Nat
    BY <2>1, Finite
  <2>3. Cardinality(Waiting(c, p)) + (IF fetch[c][p].pc = "refused" THEN 1 ELSE 0) \in Nat
    BY <2>2
  <2> QED
    BY <1>1, <1>4, <2>3 DEF RotationFails
<1>5. ASSUME NEW p \in Places, DeleteSession(p) PROVE bye' \in [{"out", "back"} -> [Places -> Nat]]
  <2>1. bye["out"][p] \in Nat /\ bye["back"][p] \in Nat /\ bye["out"][p] > 0
        /\ bye' = [bye EXCEPT !["out"][p] = bye["out"][p] - 1, !["back"][p] = bye["back"][p] + 1]
    BY <1>0, <1>5 DEF DeleteSession
  <2>2. bye["out"][p] - 1 \in Nat /\ bye["back"][p] + 1 \in Nat
    BY <2>1
  <2> QED
    BY <1>0, <2>1, <2>2
<1>6. ASSUME NEW p \in Places, LogoutEnds(p) PROVE bye' \in [{"out", "back"} -> [Places -> Nat]]
  <2>1. bye["back"][p] \in Nat /\ bye["back"][p] > 0 /\ bye' = [bye EXCEPT !["back"][p] = bye["back"][p] - 1]
    BY <1>0, <1>6 DEF LogoutEnds
  <2>2. bye["back"][p] - 1 \in Nat
    BY <2>1
  <2> QED
    BY <1>0, <2>1, <2>2
<1> QED
  BY <1>0, <1>2, <1>3, <1>4, <1>5, <1>6, LogoutMoves

LEMMA FlagStep ==
  ASSUME RotationInv, [Next]_vars
  PROVE  /\ quit' \in BOOLEAN /\ failed' \in BOOLEAN /\ stale' \in BOOLEAN
         /\ sends' \in 0..MaxSends /\ faults' \in 0..MaxFaults
         /\ (quit => quit') /\ (failed => failed') /\ (stale => stale') /\ (faults > 0 => faults' > 0)
<1>0. /\ quit \in BOOLEAN /\ failed \in BOOLEAN /\ stale \in BOOLEAN
      /\ sends \in 0..MaxSends /\ faults \in 0..MaxFaults
  BY DEF RotationInv, ClientInv
<1>1. sends' \in 0..MaxSends
  <2>1. ASSUME NEW r \in Requests, Serve(r) \/ RejectExcluded(r) \/ Reject(r) \/ ServeRetry(r) \/ RetryFails(r) PROVE sends' = sends
    BY <2>1 DEF Serve, RejectExcluded, Reject, ServeRetry, RetryFails
  <2>2. ASSUME NEW c \in Clients, NEW p \in Places, RotationArrives(c, p) \/ RotationFails(c, p) PROVE sends' = sends
    BY <2>2 DEF RotationArrives, RotationFails
  <2>3. sends' = sends \/ (sends < MaxSends /\ sends' = sends + 1)
    BY <2>1, <2>2, ActorMoves DEF Send, StreamError
  <2> QED
    BY <1>0, <2>3, Constants
<1>2. CASE UNCHANGED <<quit, failed, stale, faults>>
  BY <1>0, <1>1, <1>2
<1>3. CASE UserLogout
  BY <1>0, <1>1, <1>3 DEF UserLogout
<1>4. ASSUME NEW r \in Requests, ServeRetry(r)
      PROVE  UNCHANGED <<quit, failed, faults>> /\ stale' \in BOOLEAN /\ (stale => stale')
  <2>1. UNCHANGED <<quit, failed, faults>> /\ stale' = (stale \/ (Replaced(actor[r].pair) /\ ~Authenticates(actor[r].pair)))
    BY <1>4 DEF ServeRetry
  <2> QED
    BY <2>1, Zenon
<1>5. ASSUME NEW c \in Clients, NEW p \in Places, Rotate(c, p)
      PROVE  UNCHANGED <<quit, failed, faults>> /\ stale' \in BOOLEAN /\ (stale => stale')
  <2>1. UNCHANGED <<quit, failed, faults>> /\ stale' = (stale \/ (Replaced(p) /\ ~Accepts(p, fetch[c][p].acc)))
    BY <1>5 DEF Rotate
  <2> QED
    BY <2>1, Zenon
<1>6. ASSUME NEW c \in Clients, NEW p \in Places, RotationArrives(c, p)
      PROVE  UNCHANGED <<quit, failed, faults>> /\ stale' \in BOOLEAN /\ (stale => stale')
  <2>1. UNCHANGED <<quit, failed, faults>> /\ stale' = (stale \/ Replaced(fetch[c][p].res))
    BY <1>6 DEF RotationArrives
  <2>2. stale' \in BOOLEAN
    BY <2>1, Zenon DEF Replaced
  <2>3. stale => stale'
    BY <2>1, Zenon
  <2> QED
    BY <2>1, <2>2, <2>3
<1>7. ASSUME NEW c \in Clients, NEW p \in Places, RotationFails(c, p)
      PROVE  UNCHANGED <<quit, stale, faults>> /\ failed' \in BOOLEAN /\ (failed => failed')
  <2>1. UNCHANGED <<quit, stale, faults>> /\ failed' = (failed \/ fetch[c][p].pc = "failed")
    BY <1>7 DEF RotationFails
  <2> QED
    BY <2>1, Zenon
<1>8. ASSUME NEW c \in Clients, NEW p \in Places, RotateFault(c, p)
      PROVE  UNCHANGED <<quit, failed, stale>> /\ faults' \in 0..MaxFaults /\ faults' > 0
  <2>1. UNCHANGED <<quit, failed, stale>> /\ faults < MaxFaults /\ faults' = faults + 1
    BY <1>8 DEF RotateFault
  <2> QED
    BY <1>0, <2>1, Constants
<1> QED
  BY <1>0, <1>1, <1>2, <1>3, <1>4, <1>5, <1>6, <1>7, <1>8, FlagMoves

LEMMA ClientStep == RotationInv /\ [Next]_vars => ClientInv'
<1> SUFFICES ASSUME RotationInv, [Next]_vars PROVE ClientInv'
  OBVIOUS
<1>0. /\ cur \in Nat /\ cur' \in Nat /\ cur <= cur' /\ store \in 0..cur
      /\ fetch \in [Clients -> [Places -> Fetches]] /\ \A c \in Clients, p \in Places : Sound(fetch[c][p], p, cur)
  BY ServerStep, Constants DEF RotationInv, ClientInv, FetchInv, ServerInv
<1>1. store' \in 0..cur'
  <2>1. ASSUME NEW c \in Clients, NEW p \in Places, RotationArrives(c, p) PROVE store' \in 0..cur
    <3>1. store' = fetch[c][p].res /\ fetch[c][p].res \in Places /\ fetch[c][p].res <= cur
      BY <1>0, <2>1 DEF RotationArrives, Fetches, Sound
    <3> QED
      BY <1>0, <3>1, Constants
  <2>2. ASSUME NEW p \in Places, LogoutEnds(p) PROVE store' \in 0..cur
    BY <1>0, <2>2, Constants DEF LogoutEnds
  <2>3. store' \in 0..cur
    BY <1>0, <2>1, <2>2, StoreMoves
  <2> QED
    BY <1>0, <2>3
<1> QED
  BY <1>1, ActorStep, ByeStep, FlagStep DEF ClientInv

(* The pairs that are issued are paid for.                                  *)
LEMMA CountStep == RotationInv /\ [Next]_vars => CountInv'
<1> SUFFICES ASSUME RotationInv, [Next]_vars PROVE CountInv'
  OBVIOUS
<1> DEFINE A == Asking
           U == Unanswered
<1>0. /\ fetch \in [Clients -> [Places -> Fetches]] /\ actor \in [Actors -> Positions]
      /\ fetch' \in [Clients -> [Places -> Fetches]] /\ actor' \in [Actors -> Positions]
      /\ \A c \in Clients, p \in Places : Sound(fetch[c][p], p, cur)
      /\ store \in 0..cur /\ cur \in Pairs /\ store \in Places
  <2>1. /\ fetch \in [Clients -> [Places -> Fetches]] /\ \A c \in Clients, p \in Places : Sound(fetch[c][p], p, cur)
    BY DEF RotationInv, FetchInv
  <2>2. fetch' \in [Clients -> [Places -> Fetches]] /\ actor' \in [Actors -> Positions]
    BY FetchStep, ActorStep DEF FetchInv
  <2>3. actor \in [Actors -> Positions] /\ store \in 0..cur /\ cur \in Pairs
    BY DEF RotationInv, ClientInv, ServerInv
  <2> QED
    BY <2>1, <2>2, <2>3, Constants
<1>1. /\ cur \in Nat /\ cur' \in Nat /\ sends \in Nat /\ faults \in Nat /\ sends' \in Nat /\ faults' \in Nat
      /\ Cardinality(A) \in Nat /\ Cardinality(U) \in Nat /\ Cardinality(A') \in Nat /\ Cardinality(U') \in Nat
      /\ cur + Cardinality(A) + Cardinality(U) <= 1 + sends + faults
  <2>1. A \subseteq Clients \X Places /\ A' \subseteq Clients \X Places /\ U \subseteq Requests /\ U' \subseteq Requests
    BY DEF Asking, Unanswered
  <2>2. Cardinality(A) \in Nat /\ Cardinality(U) \in Nat /\ Cardinality(A') \in Nat /\ Cardinality(U') \in Nat
    BY <2>1, Finite
  <2>3. cur \in Nat /\ cur' \in Nat
    BY <1>0, ServerStep, Constants
  <2>4. sends \in Nat /\ faults \in Nat /\ sends' \in Nat /\ faults' \in Nat
    BY FlagStep, Constants DEF RotationInv, ClientInv
  <2>5. cur + Cardinality(A) + Cardinality(U) <= 1 + sends + faults
    BY DEF RotationInv, CountInv
  <2> QED
    BY <2>2, <2>3, <2>4, <2>5
<1>2. /\ IsFiniteSet(A) /\ IsFiniteSet(U)
  <2>1. A \subseteq Clients \X Places /\ U \subseteq Requests
    BY DEF Asking, Unanswered
  <2> QED
    BY <2>1, Finite
<1>3. ASSUME NEW S, NEW T, IsFiniteSet(S), NEW x, T \subseteq S \union {x}
      PROVE  Cardinality(T) <= Cardinality(S) + 1
  <2>1. IsFiniteSet(S \union {x}) /\ Cardinality(S \union {x}) <= Cardinality(S) + 1 /\ Cardinality(S) \in Nat
    BY <1>3, FS_AddElement, FS_CardinalityType
  <2>2. Cardinality(T) <= Cardinality(S \union {x}) /\ Cardinality(T) \in Nat /\ Cardinality(S \union {x}) \in Nat
    BY <1>3, <2>1, FS_Subset, FS_CardinalityType
  <2> QED
    BY <2>1, <2>2
<1>4. ASSUME NEW S, NEW T, IsFiniteSet(S), NEW x \in S, T \subseteq S \ {x}
      PROVE  Cardinality(T) + 1 <= Cardinality(S)
  <2>1. IsFiniteSet(S \ {x}) /\ Cardinality(S \ {x}) = Cardinality(S) - 1 /\ Cardinality(S) \in Nat
    BY <1>4, FS_RemoveElement, FS_CardinalityType
  <2>2. Cardinality(T) <= Cardinality(S \ {x}) /\ Cardinality(T) \in Nat
    BY <1>4, <2>1, FS_Subset, FS_CardinalityType
  <2> QED
    BY <2>1, <2>2
<1>5. ASSUME NEW S, NEW T, IsFiniteSet(S), T \subseteq S PROVE Cardinality(T) <= Cardinality(S)
  BY <1>5, FS_Subset
<1> SUFFICES cur' + Cardinality(A') + Cardinality(U') <= 1 + sends' + faults'
  BY DEF CountInv
(* Which requests are unanswered, and which rotations can be asked for.    *)
<1>6. ASSUME NEW a \in Actors, NEW q, NEW pc, Go(a, pc, q)
      PROVE  /\ U' \subseteq U \union {a}
             /\ pc \notin {"sent", "401"} => U' \subseteq U \ {a}
  <2>1. \A b \in Actors : b # a => actor'[b] = actor[b]
    BY <1>0, <1>6 DEF Go
  <2>2. actor'[a].pc = pc
    <3>1. actor'[a] = [pc |-> pc, pair |-> q]
      BY <1>0, <1>6 DEF Go
    <3> QED
      BY <3>1
  <2> QED
    BY <2>1, <2>2, Constants DEF Unanswered
<1>7. ASSUME NEW c \in Clients, NEW p \in Places, NEW g, fetch' = [fetch EXCEPT ![c][p] = g]
      PROVE  /\ A' \subseteq A \union {<<c, p>>}
             /\ g.pc # "asked" /\ (g.pc = "failed" => p = None) => A' \subseteq A \ {<<c, p>>}
  <2>1. \A d \in Clients, q \in Places : <<d, q>> # <<c, p>> => fetch'[d][q] = fetch[d][q]
    BY <1>0, <1>7
  <2>2. fetch'[c][p] = g
    BY <1>0, <1>7
  <2>3. ASSUME NEW x \in A', x # <<c, p>> PROVE x \in A
    <3>1. x \in Clients \X Places /\ x = <<x[1], x[2]>> /\ x[1] \in Clients /\ x[2] \in Places
      BY DEF Asking
    <3>2. fetch'[x[1]][x[2]] = fetch[x[1]][x[2]]
      BY <2>1, <2>3, <3>1
    <3> QED
      BY <3>1, <3>2 DEF Asking
  <2>4. ASSUME g.pc # "asked", g.pc = "failed" => p = None PROVE <<c, p>> \notin A'
    BY <2>2, <2>4 DEF Asking
  <2> QED
    BY <2>3, <2>4
<1>8. ASSUME NEW c \in Clients, NEW p \in Places, fetchQuery(c, p) PROVE Cardinality(A') <= Cardinality(A) + 1
  <2>1. A' \subseteq A \union {<<c, p>>}
    BY <1>7, <1>8 DEF fetchQuery, Asking
  <2> QED
    BY <1>2, <1>3, <2>1
<1>9. (UNCHANGED actor => U' = U) /\ (UNCHANGED fetch => A' = A)
  BY DEF Asking, Unanswered
<1>10. ASSUME NEW r \in Requests, Send(r) PROVE cur' + Cardinality(A') + Cardinality(U') <= 1 + sends' + faults'
  <2>1. UNCHANGED <<cur, fetch, faults>> /\ sends' = sends + 1 /\ Go(r, "sent", store) /\ r \in Actors
    BY <1>10, Constants DEF Send, server
  <2>2. Cardinality(U') <= Cardinality(U) + 1
    BY <1>2, <1>3, <1>6, <2>1
  <2> QED
    BY <1>1, <1>9, <2>1, <2>2
<1>11. ASSUME NEW r \in Requests, Serve(r) \/ RejectExcluded(r) \/ ServeRetry(r) \/ RetryFails(r)
       PROVE  cur' + Cardinality(A') + Cardinality(U') <= 1 + sends' + faults'
  <2>1. UNCHANGED <<cur, fetch, faults, sends>> /\ r \in Actors
    BY <1>11, Constants DEF Serve, RejectExcluded, ServeRetry, RetryFails, server
  <2>2. U' \subseteq U
    <3>1. CASE Serve(r)
      <4>1. r \in U
        BY <3>1 DEF Serve, Unanswered
      <4> QED
        BY <1>6, <2>1, <3>1, <4>1 DEF Serve
    <3>2. CASE RejectExcluded(r) \/ RetryFails(r)
      <4>1. Go(r, "idle", None)
        BY <3>2 DEF RejectExcluded, RetryFails
      <4> QED
        BY <1>6, <2>1, <4>1
    <3>3. CASE ServeRetry(r)
      <4>1. Go(r, "idle", actor[r].pair) \/ Go(r, "rejected", actor[r].pair)
        BY <3>3 DEF ServeRetry
      <4>2. CASE Go(r, "idle", actor[r].pair)
        BY <1>6, <2>1, <4>2
      <4>3. CASE Go(r, "rejected", actor[r].pair)
        BY <1>6, <2>1, <4>3
      <4> QED
        BY <4>1, <4>2, <4>3
    <3> QED
      BY <1>11, <3>1, <3>2, <3>3
  <2>3. Cardinality(U') <= Cardinality(U)
    BY <1>2, <1>5, <2>2
  <2> QED
    BY <1>1, <1>9, <2>1, <2>3
<1>12. ASSUME NEW r \in Requests, Reject(r) PROVE cur' + Cardinality(A') + Cardinality(U') <= 1 + sends' + faults'
  <2>1. /\ UNCHANGED <<cur, faults, sends>> /\ r \in Actors /\ Go(r, "waiting", store) /\ fetchQuery("api", store)
        /\ "api" \in Clients /\ r \in U
    BY <1>12, Constants DEF Reject, server, Clients, Unanswered
  <2>2. Cardinality(U') + 1 <= Cardinality(U)
    <3>1. U' \subseteq U \ {r}
      BY <1>6, <2>1
    <3> QED
      BY <1>2, <1>4, <2>1, <3>1
  <2>3. Cardinality(A') <= Cardinality(A) + 1
    BY <1>0, <1>8, <2>1
  <2> QED
    BY <1>1, <2>1, <2>2, <2>3
<1>13. ASSUME NEW t \in Tails, StreamError(t) PROVE cur' + Cardinality(A') + Cardinality(U') <= 1 + sends' + faults'
  <2>1. /\ UNCHANGED <<cur, faults>> /\ sends' = sends + 1 /\ t \in Actors /\ Go(t, "waiting", store)
        /\ fetchQuery("app", store) /\ "app" \in Clients
    BY <1>13, Constants DEF StreamError, server, Clients
  <2>2. Cardinality(U') <= Cardinality(U)
    <3>1. U' \subseteq U
      BY <1>6, <2>1
    <3> QED
      BY <1>2, <1>5, <3>1
  <2>3. Cardinality(A') <= Cardinality(A) + 1
    BY <1>0, <1>8, <2>1
  <2> QED
    BY <1>1, <2>1, <2>2, <2>3
<1>14. ASSUME NEW c \in Clients, NEW p \in Places, Rotate(c, p)
       PROVE  cur' + Cardinality(A') + Cardinality(U') <= 1 + sends' + faults'
  <2>1. UNCHANGED <<actor, sends, faults>>
    BY <1>14 DEF Rotate
  <2>2. cur' = cur \/ cur' = cur + 1
    BY <1>14, RotateEffect
  <2>3. <<c, p>> \in A
    BY <1>14 DEF Rotate, Asking
  <2>4. A' \subseteq A \ {<<c, p>>}
    <3> DEFINE f == fetch[c][p]
    <3>0. f \in Fetches /\ None \in Places /\ cur \in Places /\ cur' \in Places
      BY <1>0, ServerStep, Constants DEF ServerInv
    <3>1. \E g : fetch' = [fetch EXCEPT ![c][p] = g] /\ g.pc # "asked" /\ (g.pc = "failed" => p = None)
      <4>1. \/ fetch' = [fetch EXCEPT ![c][p] = Answered(f, "granted", cur')]
            \/ p = None /\ fetch' = [fetch EXCEPT ![c][p] = Answered(f, "failed", None)]
            \/ fetch' = [fetch EXCEPT ![c][p] = Answered(f, "refused", None)]
        BY <1>14, RotateEffect
      <4> HIDE DEF f
      <4>2. /\ Answered(f, "granted", cur').pc = "granted"
            /\ Answered(f, "failed", None).pc = "failed"
            /\ Answered(f, "refused", None).pc = "refused"
        BY <3>0, Granted
      <4> QED
        BY <4>1, <4>2
    <3> QED
      BY <1>7, <3>1
  <2>5. Cardinality(A') + 1 <= Cardinality(A)
    BY <1>2, <1>4, <2>3, <2>4
  <2> QED
    BY <1>1, <1>9, <2>1, <2>2, <2>5
<1>15. ASSUME NEW c \in Clients, NEW p \in Places, RotateFault(c, p)
       PROVE  cur' + Cardinality(A') + Cardinality(U') <= 1 + sends' + faults'
  <2>1. UNCHANGED <<actor, sends, cur>> /\ faults' = faults + 1
        /\ fetch' = [fetch EXCEPT ![c][p] = Answered(fetch[c][p], "failed", None)]
    BY <1>0, <1>15 DEF RotateFault, server
  <2>2. Cardinality(A') <= Cardinality(A) + 1
    BY <1>2, <1>3, <1>7, <2>1
  <2> QED
    BY <1>1, <1>9, <2>1, <2>2
<1>16. ASSUME NEW c \in Clients, NEW p \in Places, RotateAgain(c, p)
       PROVE  cur' + Cardinality(A') + Cardinality(U') <= 1 + sends' + faults'
  <2>1. /\ UNCHANGED <<actor, sends, cur, faults>> /\ fetch[c][p].pc = "failed" /\ p # None
        /\ fetch' = [fetch EXCEPT ![c][p] = Asked(fetch[c][p].again + 1)]
    BY <1>0, <1>16 DEF RotateAgain, Again, server
  <2>2. <<c, p>> \in A
    BY <2>1 DEF Asking
  <2>3. Cardinality(A') <= Cardinality(A)
    BY <1>2, <1>5, <1>7, <2>1, <2>2
  <2> QED
    BY <1>1, <1>9, <2>1, <2>3
<1>17. ASSUME NEW c \in Clients, NEW p \in Places, RotationArrives(c, p) \/ RotationFails(c, p)
       PROVE  cur' + Cardinality(A') + Cardinality(U') <= 1 + sends' + faults'
  <2>1. /\ UNCHANGED <<cur, sends, faults>> /\ fetch' = [fetch EXCEPT ![c][p] = NoFetch]
    BY <1>17 DEF RotationArrives, RotationFails, server
  <2>2. A' \subseteq A
    <3>1. NoFetch.pc = "none"
      BY DEF NoFetch
    <3> QED
      BY <1>7, <2>1, <3>1
  <2>3. U' \subseteq U
    <3>1. \A a \in Actors : actor'[a] = actor[a] \/ actor'[a].pc \in {"idle", "retried"}
      BY <1>17 DEF RotationArrives, RotationFails, Retried, Idle
    <3> QED
      BY <3>1, Constants DEF Unanswered
  <2>4. Cardinality(A') <= Cardinality(A) /\ Cardinality(U') <= Cardinality(U)
    BY <1>2, <1>5, <2>2, <2>3
  <2> QED
    BY <1>1, <2>1, <2>4
<1>18. ASSUME UNCHANGED <<cur, fetch, actor, sends>>
       PROVE  cur' + Cardinality(A') + Cardinality(U') <= 1 + sends' + faults'
  <2>1. faults' >= faults
    <3>1. faults' = faults \/ faults' = faults + 1
      BY FlagMoves DEF UserLogout, ServeRetry, Rotate, RotateFault, RotationArrives, RotationFails
    <3> QED
      BY <1>1, <3>1
  <2> QED
    BY <1>1, <1>9, <1>18, <2>1
<1>19. \/ UNCHANGED <<cur, fetch, actor, sends>>
       \/ \E r \in Requests : Send(r) \/ Serve(r) \/ RejectExcluded(r) \/ ServeRetry(r) \/ RetryFails(r) \/ Reject(r)
       \/ \E t \in Tails : StreamError(t)
       \/ \E c \in Clients, p \in Places : \/ Rotate(c, p) \/ RotateAgain(c, p) \/ RotateFault(c, p)
                                           \/ RotationArrives(c, p) \/ RotationFails(c, p)
  <2>1. ASSUME NEW p \in Places, DeleteSession(p) PROVE UNCHANGED cur
    BY <2>1 DEF DeleteSession
  <2>2. GraceEnds \/ (\E p \in Pairs : Age(p) \/ Expire(p)) => UNCHANGED cur
    BY DEF GraceEnds, Age, Expire
  <2> QED
    BY <2>1, <2>2, ServerMoves, ActorMoves, FetchMoves
<1> QED
  BY <1>10, <1>11, <1>12, <1>13, <1>14, <1>15, <1>16, <1>17, <1>18, <1>19

(* What becomes of the entries, field by field.                             *)
LEMMA RotateFields ==
  ASSUME RotationInv, NEW c \in Clients, NEW p \in Places, Rotate(c, p)
  PROVE  LET f == fetch[c][p]
             g == fetch'[c][p]
         IN
         /\ f.pc = "asked" /\ g.acc = f.acc /\ g.again = f.again
         /\ \A d \in Clients, q \in Places : <<d, q>> # <<c, p>> => fetch'[d][q] = fetch[d][q]
         /\ \/ /\ Accepts(p, f.acc) /\ ~IsPrevious(p) /\ p # None /\ cur' = cur + 1 /\ prev' = cur
               /\ g.pc = "granted" /\ g.res = cur'
            \/ /\ Accepts(p, f.acc) /\ IsPrevious(p) /\ p # None /\ UNCHANGED <<cur, prev>>
               /\ g.pc = "granted" /\ g.res = cur'
            \/ /\ ~Accepts(p, f.acc) /\ p = None /\ UNCHANGED <<cur, prev>>
               /\ g.pc = "failed" /\ g.res = None
            \/ /\ ~Accepts(p, f.acc) /\ p # None /\ UNCHANGED <<cur, prev>>
               /\ g.pc = "refused" /\ g.res = None
<1> DEFINE f == fetch[c][p]
           g == fetch'[c][p]
<1>1. f.pc = "asked" /\ f \in Fetches /\ fetch \in [Clients -> [Places -> Fetches]]
  BY RotateEffect DEF RotationInv, FetchInv
<1>2. None \in Places /\ cur \in Places /\ cur + 1 \in Places
  BY <1>1, Constants, CurBelow DEF RotationInv, ServerInv
<1>3. ASSUME NEW pc \in {"granted", "refused", "failed"}, NEW x \in Places,
             fetch' = [fetch EXCEPT ![c][p] = Answered(f, pc, x)]
      PROVE  /\ g.acc = f.acc /\ g.again = f.again /\ g.pc = pc /\ g.res = x
             /\ \A d \in Clients, q \in Places : <<d, q>> # <<c, p>> => fetch'[d][q] = fetch[d][q]
  <2>1. /\ Answered(f, pc, x) \in Fetches
        /\ Answered(f, pc, x).pc = pc /\ Answered(f, pc, x).res = x
        /\ Answered(f, pc, x).acc = f.acc /\ Answered(f, pc, x).again = f.again
    <3>1. f \in Fetches /\ pc \in {"asked", "granted", "refused", "failed"}
      BY <1>1, <1>3
    <3> HIDE DEF f
    <3> QED
      BY <3>1 DEF Answered, Fetches
  <2> HIDE DEF f
  <2>2. g = Answered(f, pc, x) /\ \A d \in Clients, q \in Places : <<d, q>> # <<c, p>> => fetch'[d][q] = fetch[d][q]
    BY <1>1, <1>3, <2>1
  <2> QED
    BY <2>1, <2>2
<1>4. \/ /\ Accepts(p, f.acc) /\ ~IsPrevious(p) /\ p # None /\ cur' = cur + 1 /\ prev' = cur
         /\ fetch' = [fetch EXCEPT ![c][p] = Answered(f, "granted", cur + 1)]
      \/ /\ Accepts(p, f.acc) /\ IsPrevious(p) /\ p # None /\ UNCHANGED <<cur, prev>>
         /\ fetch' = [fetch EXCEPT ![c][p] = Answered(f, "granted", cur)]
      \/ /\ ~Accepts(p, f.acc) /\ p = None /\ UNCHANGED <<cur, prev>>
         /\ fetch' = [fetch EXCEPT ![c][p] = Answered(f, "failed", None)]
      \/ /\ ~Accepts(p, f.acc) /\ p # None /\ UNCHANGED <<cur, prev>>
         /\ fetch' = [fetch EXCEPT ![c][p] = Answered(f, "refused", None)]
  BY RotateEffect
<1> HIDE DEF f, g
<1>5. CASE /\ Accepts(p, f.acc) /\ ~IsPrevious(p) /\ p # None /\ cur' = cur + 1 /\ prev' = cur
           /\ fetch' = [fetch EXCEPT ![c][p] = Answered(f, "granted", cur + 1)]
  BY <1>1, <1>2, <1>3, <1>5 DEF f, g
<1>6. CASE /\ Accepts(p, f.acc) /\ IsPrevious(p) /\ p # None /\ UNCHANGED <<cur, prev>>
           /\ fetch' = [fetch EXCEPT ![c][p] = Answered(f, "granted", cur)]
  BY <1>1, <1>2, <1>3, <1>6 DEF f, g
<1>7. CASE /\ ~Accepts(p, f.acc) /\ p = None /\ UNCHANGED <<cur, prev>>
           /\ fetch' = [fetch EXCEPT ![c][p] = Answered(f, "failed", None)]
  BY <1>1, <1>2, <1>3, <1>7 DEF f, g
<1>8. CASE /\ ~Accepts(p, f.acc) /\ p # None /\ UNCHANGED <<cur, prev>>
           /\ fetch' = [fetch EXCEPT ![c][p] = Answered(f, "refused", None)]
  BY <1>1, <1>2, <1>3, <1>8 DEF f, g
<1> QED
  BY <1>4, <1>5, <1>6, <1>7, <1>8

LEMMA AskFields ==
  ASSUME RotationInv, NEW c \in Clients, fetchQuery(c, store)
  PROVE  /\ store \in Places
         /\ \/ fetch[c][store].pc # "none" /\ UNCHANGED fetch
            \/ /\ fetch[c][store].pc = "none" /\ fetch'[c][store].pc = "asked" /\ fetch'[c][store].res = None
               /\ fetch'[c][store].acc = store
               /\ \A d \in Clients, q \in Places : <<d, q>> # <<c, store>> => fetch'[d][q] = fetch[d][q]
<1>1. fetch \in [Clients -> [Places -> Fetches]] /\ store \in Places
  BY Constants DEF RotationInv, FetchInv, ClientInv, ServerInv
<1>2. Asked(0).pc = "asked" /\ Asked(0).res = None /\ Asked(0).acc = store
  BY DEF Asked
<1>3. fetch' = IF fetch[c][store].pc = "none" THEN [fetch EXCEPT ![c][store] = Asked(0)] ELSE fetch
  BY DEF fetchQuery
<1>4. CASE fetch[c][store].pc = "none"
  <2>1. fetch'[c][store] = Asked(0) /\ \A d \in Clients, q \in Places : <<d, q>> # <<c, store>> => fetch'[d][q] = fetch[d][q]
    BY <1>1, <1>3, <1>4
  <2> QED
    BY <1>1, <1>2, <1>4, <2>1
<1>5. CASE fetch[c][store].pc # "none"
  BY <1>1, <1>3, <1>5
<1> QED
  BY <1>4, <1>5

LEMMA FaultFields ==
  ASSUME RotationInv, NEW c \in Clients, NEW p \in Places, RotateFault(c, p)
  PROVE  /\ fetch[c][p].pc # "none" /\ fetch'[c][p].pc = "failed" /\ fetch'[c][p].res = None
         /\ fetch'[c][p].acc = fetch[c][p].acc
         /\ \A d \in Clients, q \in Places : <<d, q>> # <<c, p>> => fetch'[d][q] = fetch[d][q]
<1> DEFINE f == fetch[c][p]
<1>1. fetch \in [Clients -> [Places -> Fetches]] /\ f \in Fetches /\ None \in Places
  BY Constants DEF RotationInv, FetchInv
<1>2. f.pc # "none" /\ fetch' = [fetch EXCEPT ![c][p] = Answered(f, "failed", None)]
  BY <1>1 DEF RotateFault
<1>3. /\ Answered(f, "failed", None).pc = "failed" /\ Answered(f, "failed", None).res = None
      /\ Answered(f, "failed", None).acc = f.acc
  <2> HIDE DEF f
  <2> QED
    BY <1>1, Granted
<1> HIDE DEF f
<1>4. fetch'[c][p] = Answered(f, "failed", None) /\ \A d \in Clients, q \in Places : <<d, q>> # <<c, p>> => fetch'[d][q] = fetch[d][q]
  BY <1>1, <1>2
<1> QED
  BY <1>2, <1>3, <1>4 DEF f

LEMMA AgainFields ==
  ASSUME RotationInv, NEW c \in Clients, NEW p \in Places, RotateAgain(c, p)
  PROVE  /\ p # None /\ fetch[c][p].pc = "failed"
         /\ fetch'[c][p].pc = "asked" /\ fetch'[c][p].res = None /\ fetch'[c][p].acc = store /\ fetch'[c][p].again > 0
         /\ \A d \in Clients, q \in Places : <<d, q>> # <<c, p>> => fetch'[d][q] = fetch[d][q]
<1>1. fetch \in [Clients -> [Places -> Fetches]] /\ fetch[c][p].again \in 0..2
  BY DEF RotationInv, FetchInv, Fetches
<1>2. /\ p # None /\ fetch[c][p].pc = "failed"
      /\ fetch' = [fetch EXCEPT ![c][p] = Asked(fetch[c][p].again + 1)]
  BY <1>1 DEF RotateAgain, Again
<1>3. \A n : Asked(n).pc = "asked" /\ Asked(n).res = None /\ Asked(n).acc = store /\ Asked(n).again = n
  BY DEF Asked
<1>4. /\ fetch'[c][p] = Asked(fetch[c][p].again + 1)
      /\ \A d \in Clients, q \in Places : <<d, q>> # <<c, p>> => fetch'[d][q] = fetch[d][q]
  BY <1>1, <1>2
<1>5. fetch[c][p].again + 1 > 0
  BY <1>1
<1> QED
  BY <1>2, <1>3, <1>4, <1>5

LEMMA EndFields ==
  ASSUME RotationInv, NEW c \in Clients, NEW p \in Places, RotationArrives(c, p) \/ RotationFails(c, p)
  PROVE  /\ fetch'[c][p].pc = "none" /\ fetch'[c][p].res = None
         /\ \A d \in Clients, q \in Places : <<d, q>> # <<c, p>> => fetch'[d][q] = fetch[d][q]
<1>1. fetch \in [Clients -> [Places -> Fetches]] /\ fetch' = [fetch EXCEPT ![c][p] = NoFetch]
  BY DEF RotationInv, FetchInv, RotationArrives, RotationFails
<1>2. NoFetch.pc = "none" /\ NoFetch.res = None
  BY DEF NoFetch
<1> QED
  BY <1>1, <1>2

(* Rotations and those who wait for them.                                   *)
LEMMA ClientOf ==
    /\ \A a \in Actors : QueryClientOf(a) \in Clients
    /\ \A r \in Requests : QueryClientOf(r) = "api"
    /\ \A t \in Tails : QueryClientOf(t) = "app"
  BY SessionAssumption DEF QueryClientOf, Clients

LEMMA WaitStep == RotationInv /\ [Next]_vars => WaitInv'
<1> SUFFICES ASSUME RotationInv, [Next]_vars PROVE WaitInv'
  OBVIOUS
<1> DEFINE W(a, c, p) == QueryClientOf(a) = c /\ actor[a] = [pc |-> "waiting", pair |-> p]
           V(a, c, p) == QueryClientOf(a) = c /\ actor'[a] = [pc |-> "waiting", pair |-> p]
<1>0. /\ fetch \in [Clients -> [Places -> Fetches]] /\ actor \in [Actors -> Positions]
      /\ actor' \in [Actors -> Positions] /\ store \in Places
      /\ NoFetch \in Fetches /\ NoFetch.pc = "none"
  <2>1. fetch \in [Clients -> [Places -> Fetches]] /\ actor \in [Actors -> Positions] /\ actor' \in [Actors -> Positions]
    BY ActorStep DEF RotationInv, FetchInv, ClientInv
  <2>2. store \in Places
    BY Constants DEF RotationInv, ClientInv, ServerInv
  <2>3. NoFetch \in Fetches /\ NoFetch.pc = "none"
    BY Constants DEF NoFetch, Fetches
  <2> QED
    BY <2>1, <2>2, <2>3
<1>1. \A c \in Clients, p \in Places : fetch[c][p].pc # "none" <=> \E a \in Actors : W(a, c, p)
  <2>1. ASSUME NEW c \in Clients, NEW p \in Places, fetch[c][p].pc # "none" PROVE \E a \in Actors : W(a, c, p)
    BY <2>1 DEF RotationInv, WaitInv, Waiting
  <2>2. ASSUME NEW c \in Clients, NEW p \in Places, NEW a \in Actors, W(a, c, p) PROVE fetch[c][p].pc # "none"
    <3>1. actor[a].pc = "waiting" /\ actor[a].pair = p
      BY <2>2
    <3> QED
      BY <2>2, <3>1 DEF RotationInv, WaitInv, WaitersAreServed
  <2> QED
    BY <2>1, <2>2
<1> SUFFICES \A c \in Clients, p \in Places : fetch'[c][p].pc # "none" <=> \E a \in Actors : V(a, c, p)
  <2> SUFFICES ASSUME \A c \in Clients, p \in Places : fetch'[c][p].pc # "none" <=> \E a \in Actors : V(a, c, p)
               PROVE  WaitInv'
    OBVIOUS
  <2>1. ASSUME NEW a \in Actors, actor'[a].pc = "waiting"
        PROVE  fetch'[QueryClientOf(a)][actor'[a].pair].pc # "none"
    <3>1. actor'[a].pair \in Places /\ actor'[a] = [pc |-> "waiting", pair |-> actor'[a].pair]
      BY <1>0, <2>1 DEF Positions
    <3> QED
      BY <3>1, ClientOf
  <2>2. ASSUME NEW c \in Clients, NEW p \in Places, fetch'[c][p].pc # "none" PROVE Waiting(c, p)' # {}
    BY <2>2 DEF Waiting, QueryClientOf
  <2> QED
    BY <2>1, <2>2 DEF WaitInv, WaitersAreServed, QueryClientOf
<1>2. CASE UNCHANGED <<actor, fetch>>
  BY <1>1, <1>2
<1>3. ASSUME NEW b \in Actors, actor[b].pc # "waiting", actor'[b].pc # "waiting",
             \A a \in Actors : a # b => actor'[a] = actor[a], UNCHANGED fetch
      PROVE  \A c \in Clients, p \in Places : fetch'[c][p].pc # "none" <=> \E a \in Actors : V(a, c, p)
  <2>1. ASSUME NEW c, NEW p, NEW a \in Actors PROVE W(a, c, p) <=> V(a, c, p)
    BY <1>3
  <2> QED
    BY <1>1, <1>3, <2>1
<1>4. ASSUME NEW r \in Requests, Send(r) \/ Serve(r) \/ RejectExcluded(r) \/ ServeRetry(r) \/ RetryFails(r)
      PROVE  \A c \in Clients, p \in Places : fetch'[c][p].pc # "none" <=> \E a \in Actors : V(a, c, p)
  <2>1. r \in Actors /\ actor[r].pc # "waiting" /\ UNCHANGED fetch
    BY <1>4, Constants DEF Send, Serve, RejectExcluded, ServeRetry, RetryFails
  <2>2. \E pc \in {"sent", "idle", "401", "rejected"} : \E q : Go(r, pc, q)
    BY <1>4 DEF Send, Serve, RejectExcluded, ServeRetry, RetryFails
  <2>3. PICK pc \in {"sent", "idle", "401", "rejected"} : \E q : Go(r, pc, q)
    BY <2>2
  <2>6. PICK q : Go(r, pc, q)
    BY <2>3
  <2>4. actor'[r] = [pc |-> pc, pair |-> q] /\ \A a \in Actors : a # r => actor'[a] = actor[a]
    BY <1>0, <2>1, <2>6 DEF Go
  <2>5. actor'[r].pc # "waiting"
    BY <2>4
  <2> QED
    BY <1>3, <2>1, <2>4, <2>5
<1>5. ASSUME NEW b \in Actors, actor[b].pc # "waiting", Go(b, "waiting", store),
             fetchQuery(QueryClientOf(b), store)
      PROVE  \A c \in Clients, p \in Places : fetch'[c][p].pc # "none" <=> \E a \in Actors : V(a, c, p)
  <2> DEFINE d == QueryClientOf(b)
  <2>0. d \in Clients
    BY ClientOf
  <2>1. V(b, d, store) /\ \A a \in Actors : a # b => actor'[a] = actor[a]
    BY <1>0, <1>5 DEF Go
  <2>2. /\ fetch'[d][store].pc # "none"
        /\ \A c \in Clients, p \in Places : <<c, p>> # <<d, store>> => fetch'[c][p] = fetch[c][p]
    BY <1>5, <2>0, AskFields
  <2>3. ASSUME NEW c \in Clients, NEW p \in Places, <<c, p>> # <<d, store>>
        PROVE  fetch'[c][p].pc # "none" <=> \E a \in Actors : V(a, c, p)
    <3>1. ~V(b, c, p) /\ ~W(b, c, p)
      BY <1>5, <2>1, <2>3
    <3>2. \A a \in Actors : V(a, c, p) <=> W(a, c, p)
      BY <2>1, <3>1
    <3> QED
      BY <1>1, <2>2, <2>3, <3>2
  <2> QED
    BY <2>0, <2>1, <2>2, <2>3
<1>6. ASSUME NEW r \in Requests, Reject(r)
      PROVE  \A c \in Clients, p \in Places : fetch'[c][p].pc # "none" <=> \E a \in Actors : V(a, c, p)
  <2>1. r \in Actors /\ actor[r].pc # "waiting" /\ Go(r, "waiting", store) /\ fetchQuery(QueryClientOf(r), store)
    BY <1>6, ClientOf, Constants DEF Reject
  <2> QED
    BY <1>5, <2>1
<1>7. ASSUME NEW t \in Tails, StreamError(t)
      PROVE  \A c \in Clients, p \in Places : fetch'[c][p].pc # "none" <=> \E a \in Actors : V(a, c, p)
  <2>1. t \in Actors /\ actor[t].pc # "waiting" /\ Go(t, "waiting", store) /\ fetchQuery(QueryClientOf(t), store)
    BY <1>7, ClientOf, Constants DEF StreamError
  <2> QED
    BY <1>5, <2>1
<1>8. ASSUME NEW d \in Clients, NEW q \in Places, Rotate(d, q) \/ RotateAgain(d, q) \/ RotateFault(d, q)
      PROVE  \A c \in Clients, p \in Places : fetch'[c][p].pc # "none" <=> \E a \in Actors : V(a, c, p)
  <2>1. UNCHANGED actor /\ fetch[d][q].pc # "none"
    BY <1>8 DEF Rotate, RotateAgain, Again, RotateFault
  <2>2. fetch'[d][q].pc # "none" /\ \A c \in Clients, p \in Places : <<c, p>> # <<d, q>> => fetch'[c][p] = fetch[c][p]
    <3>1. CASE Rotate(d, q)
      BY <3>1, RotateFields
    <3>2. CASE RotateAgain(d, q)
      BY <3>2, AgainFields
    <3>3. CASE RotateFault(d, q)
      BY <3>3, FaultFields
    <3> QED
      BY <1>8, <3>1, <3>2, <3>3
  <2>3. \A c \in Clients, p \in Places : fetch'[c][p].pc # "none" <=> fetch[c][p].pc # "none"
    BY <2>1, <2>2
  <2> QED
    BY <1>1, <2>1, <2>3
<1>9. ASSUME NEW d \in Clients, NEW q \in Places, RotationArrives(d, q) \/ RotationFails(d, q)
      PROVE  \A c \in Clients, p \in Places : fetch'[c][p].pc # "none" <=> \E a \in Actors : V(a, c, p)
  <2>1. fetch' = [fetch EXCEPT ![d][q] = NoFetch]
    BY <1>9 DEF RotationArrives, RotationFails
  <2>2. \A a \in Actors : IF a \in Waiting(d, q) THEN actor'[a].pc \in {"idle", "retried"} ELSE actor'[a] = actor[a]
    BY <1>9 DEF RotationArrives, RotationFails, Retried, Idle
  <2>3. fetch'[d][q].pc = "none" /\ \A a \in Actors : ~V(a, d, q)
    <3>1. fetch'[d][q].pc = "none"
      BY <1>0, <2>1
    <3>2. ASSUME NEW a \in Actors, V(a, d, q) PROVE FALSE
      <4>1. a \notin Waiting(d, q)
        BY <2>2, <3>2
      <4>2. actor[a] = actor'[a]
        BY <2>2, <4>1
      <4> QED
        BY <3>2, <4>1, <4>2 DEF Waiting
    <3> QED
      BY <3>1, <3>2
  <2>4. ASSUME NEW c \in Clients, NEW p \in Places, <<c, p>> # <<d, q>>
        PROVE  fetch'[c][p].pc # "none" <=> \E a \in Actors : V(a, c, p)
    <3>1. fetch'[c][p] = fetch[c][p]
      BY <1>0, <2>1, <2>4
    <3>2. ASSUME NEW a \in Actors PROVE V(a, c, p) <=> W(a, c, p)
      <4>1. CASE a \in Waiting(d, q)
        <5>1. W(a, d, q) /\ actor'[a].pc # "waiting"
          BY <2>2, <4>1 DEF Waiting
        <5>2. ~W(a, c, p)
          BY <2>4, <5>1
        <5>3. ~V(a, c, p)
          BY <5>1
        <5> QED
          BY <5>2, <5>3
      <4>2. CASE a \notin Waiting(d, q)
        BY <2>2, <4>2
      <4> QED
        BY <4>1, <4>2
    <3> QED
      BY <1>1, <3>1, <3>2
  <2> QED
    BY <2>3, <2>4
<1> QED
  BY <1>2, <1>4, <1>6, <1>7, <1>8, <1>9, ActorMoves, FetchMoves

(* The calls of Logout.                                                     *)
LEMMA LogoutGrows ==
  ASSUME RotationInv, NEW n \in Nat, NEW q \in Places, Logout(n, q)
  PROVE  Leaving \/ n > 0 => Leaving'
<1>1. bye \in [{"out", "back"} -> [Places -> Nat]]
  BY DEF RotationInv, ClientInv
<1>2. bye' = [bye EXCEPT !["out"][q] = bye["out"][q] + n]
  BY <1>1 DEF Logout
<1>3. /\ bye' \in [{"out", "back"} -> [Places -> Nat]] /\ bye'["out"][q] = bye["out"][q] + n
      /\ \A s \in {"out", "back"}, p \in Places : <<s, p>> # <<"out", q>> => bye'[s][p] = bye[s][p]
  BY <1>1, <1>2
<1>4. bye["out"][q] \in Nat
  BY <1>1
<1>5. ASSUME NEW s \in {"out", "back"}, NEW p \in Places, bye[s][p] > 0 PROVE bye'[s][p] > 0
  BY <1>3, <1>4, <1>5
<1>6. ASSUME Leaving PROVE Leaving'
  <2>1. PICK s \in {"out", "back"}, p \in Places : bye[s][p] > 0
    BY <1>1, <1>6 DEF Leaving, Places
  <2>2. bye'[s][p] > 0
    BY <1>5, <2>1
  <2> QED
    BY <1>3, <2>2 DEF Leaving, Places
<1>7. ASSUME n > 0 PROVE Leaving'
  <2>1. bye'["out"][q] > 0
    BY <1>3, <1>4, <1>7
  <2> QED
    BY <1>3, <2>1 DEF Leaving, Places
<1> QED
  BY <1>6, <1>7

LEMMA FailureLeaves ==
  ASSUME RotationInv, NEW c \in Clients, NEW p \in Places, RotationFails(c, p)
  PROVE  Leaving'
<1> DEFINE n == Cardinality(Waiting(c, p)) + (IF fetch[c][p].pc = "refused" THEN 1 ELSE 0)
<1>1. Logout(n, store) /\ fetch[c][p].pc # "none"
  BY DEF RotationFails
<1>2. Waiting(c, p) # {} /\ Waiting(c, p) \subseteq Actors
  BY <1>1 DEF RotationInv, WaitInv, Waiting
<1>3. IsFiniteSet(Waiting(c, p)) /\ Cardinality(Waiting(c, p)) \in Nat
  BY <1>2, Finite
<1>4. Cardinality(Waiting(c, p)) # 0
  BY <1>2, <1>3, FS_EmptySet
<1>5. n \in Nat /\ n > 0
  BY <1>3, <1>4
<1>6. store \in Places
  BY Constants DEF RotationInv, ClientInv, ServerInv
<1> QED
  BY <1>1, <1>5, <1>6, LogoutGrows

LEMMA LeavingStays ==
  ASSUME RotationInv, [Next]_vars, Leaving
  PROVE  Leaving' \/ store' = None
<1>0. store \in Places /\ bye \in [{"out", "back"} -> [Places -> Nat]]
  BY Constants DEF RotationInv, ClientInv, ServerInv
<1>1. CASE UNCHANGED bye
  BY <1>1 DEF Leaving
<1>2. CASE UserLogout \/ \E r \in Requests : RetryFails(r)
  <2>1. Logout(1, store)
    BY <1>2 DEF UserLogout, RetryFails
  <2> QED
    BY <1>0, <2>1, LogoutGrows
<1>3. ASSUME NEW c \in Clients, NEW p \in Places, RotationFails(c, p) PROVE Leaving'
  BY <1>3, FailureLeaves
<1>4. ASSUME NEW p \in Places, DeleteSession(p) PROVE Leaving'
  <2>1. bye' = [bye EXCEPT !["out"][p] = bye["out"][p] - 1, !["back"][p] = bye["back"][p] + 1]
    BY <1>0, <1>4 DEF DeleteSession
  <2>2. bye'["back"][p] = bye["back"][p] + 1 /\ bye["back"][p] \in Nat /\ DOMAIN bye' = {"out", "back"}
    BY <1>0, <2>1
  <2>3. bye'["back"][p] > 0
    BY <2>2
  <2> QED
    BY <2>2, <2>3 DEF Leaving, Places
<1>5. ASSUME NEW p \in Places, LogoutEnds(p) PROVE store' = None
  BY <1>5 DEF LogoutEnds
<1> QED
  BY <1>1, <1>2, <1>3, <1>4, <1>5, LogoutMoves

(* The stored pair and the newest one.                                      *)
LEMMA StoredStep == RotationInv /\ [Next]_vars => StoredIsCurrent'
<1> DEFINE Coming(c, p) == fetch[c][p].res = cur \/ fetch[c][p].pc = "failed" \/ fetch[c][p].again > 0
           Comes(c, p) == fetch'[c][p].res = cur' \/ fetch'[c][p].pc = "failed" \/ fetch'[c][p].again > 0
<1> SUFFICES ASSUME RotationInv, [Next]_vars, provider' = "opaque", alive', store' # None,
                    ~Leaving', ~stale', store' # cur'
             PROVE  \E c \in Clients, p \in Pairs : Comes(c, p)
  BY DEF StoredIsCurrent
<1>1. provider = "opaque" /\ alive
  <2>1. provider = "opaque"
    BY ServerMoves
  <2>2. UNCHANGED alive \/ \E p \in Places : DeleteSession(p)
    BY ServerMoves DEF Rotate, GraceEnds, Age, Expire
  <2>3. alive
    BY <2>2, Zenon DEF DeleteSession
  <2> QED
    BY <2>1, <2>3
<1>2. ~stale
  <2>1. \A c \in Clients, p \in Places : RotateFault(c, p) \/ RotationFails(c, p) \/ UserLogout => stale' = stale
    BY DEF RotateFault, RotationFails, UserLogout
  <2>2. ASSUME NEW c \in Clients, NEW p \in Places, Rotate(c, p) PROVE stale => stale'
    BY <2>2, Zenon DEF Rotate
  <2>3. ASSUME NEW c \in Clients, NEW p \in Places, RotationArrives(c, p) PROVE stale => stale'
    BY <2>3, Zenon DEF RotationArrives
  <2>4. ASSUME NEW r \in Requests, ServeRetry(r) PROVE stale => stale'
    BY <2>4, Zenon DEF ServeRetry
  <2>5. UserLogout => stale' = stale
    BY DEF UserLogout
  <2> QED
    BY <2>1, <2>2, <2>3, <2>4, <2>5, FlagMoves
<1>3. ~Leaving /\ (\A c \in Clients, p \in Places : ~RotationFails(c, p)) /\ \A p \in Places : ~LogoutEnds(p)
  BY LeavingStays, FailureLeaves DEF LogoutEnds
<1>4. /\ cur \in Pairs /\ cur \in Nat /\ cur # None /\ store \in Places
      /\ \A c \in Clients, p \in Places : fetch[c][p] \in Fetches /\ Sound(fetch[c][p], p, cur)
      /\ \A c \in Clients, p \in Places : fetch[c][p].again \in 0..2 /\ fetch[c][p].res \in Nat
  <2>1. cur \in Pairs /\ store \in 0..cur
    BY DEF RotationInv, ServerInv, ClientInv
  <2>2. \A c \in Clients, p \in Places : fetch[c][p] \in Fetches /\ Sound(fetch[c][p], p, cur)
    BY DEF RotationInv, FetchInv
  <2>3. \A c \in Clients, p \in Places : fetch[c][p].again \in 0..2 /\ fetch[c][p].res \in Nat
    BY <2>2, Constants DEF Fetches
  <2> QED
    BY <2>1, <2>2, <2>3, Constants
<1>5. ASSUME NEW c \in Clients, NEW p \in Places PROVE ~RotationArrives(c, p)
  <2> SUFFICES ASSUME RotationArrives(c, p) PROVE FALSE
    OBVIOUS
  <2>1. fetch[c][p].pc = "granted" /\ store' = fetch[c][p].res /\ cur' = cur
    BY DEF RotationArrives, server
  <2>2. ~Replaced(fetch[c][p].res)
    BY Zenon DEF RotationArrives
  <2>3. fetch[c][p].res \in Nat /\ fetch[c][p].res # 0 /\ fetch[c][p].res <= cur
    BY <1>4, <2>1, Constants DEF Sound
  <2>4. fetch[c][p].res \notin 1..(cur - 1)
    BY <1>1, <2>2 DEF Replaced
  <2>5. fetch[c][p].res = cur
    BY <1>4, <2>3, <2>4
  <2> QED
    BY <2>1, <2>5
<1>6. store' = store
  BY <1>3, <1>5, StoreMoves
<1>7. ASSUME cur' = cur PROVE \E c \in Clients, p \in Pairs : Coming(c, p)
  <2>1. store # cur
    BY <1>6, <1>7
  <2> QED
    BY <1>1, <1>2, <1>3, <1>6, <2>1 DEF RotationInv, StoredIsCurrent
<1>8. CASE UNCHANGED <<cur, fetch>>
  BY <1>7, <1>8
<1>9. ASSUME NEW d \in Clients, fetchQuery(d, store), cur' = cur PROVE \E c \in Clients, p \in Pairs : Comes(c, p)
  <2>1. PICK c \in Clients, p \in Pairs : Coming(c, p)
    BY <1>7, <1>9
  <2>2. p \in Places
    BY Constants
  <2>3. fetch[c][p].pc # "none"
    <3> SUFFICES ASSUME fetch[c][p].pc = "none" PROVE FALSE
      OBVIOUS
    <3>1. Sound(fetch[c][p], p, cur)
      BY <1>4, <2>2
    <3>2. fetch[c][p].res = None /\ fetch[c][p].again = 0
      BY <3>1 DEF Sound
    <3> QED
      BY <1>4, <2>1, <3>2
  <2>4. fetch'[c][p] = fetch[c][p]
    BY <1>9, <2>2, <2>3, AskFields
  <2> QED
    BY <1>9, <2>1, <2>4
<1>10. ASSUME NEW d \in Clients, NEW q \in Places, Rotate(d, q) PROVE \E c \in Clients, p \in Pairs : Comes(c, p)
  <2>1. /\ \A c \in Clients, p \in Places : <<c, p>> # <<d, q>> => fetch'[c][p] = fetch[c][p]
        /\ fetch[d][q].pc = "asked" /\ fetch'[d][q].again = fetch[d][q].again
        /\ (q # None /\ fetch'[d][q].res = cur') \/ cur' = cur
    BY <1>10, RotateFields
  <2>2. CASE q # None /\ fetch'[d][q].res = cur'
    BY <2>2, Constants
  <2>3. CASE cur' = cur
    <3>1. PICK c \in Clients, p \in Pairs : Coming(c, p)
      BY <1>7, <2>3
    <3>2. p \in Places
      BY Constants
    <3>3. CASE <<c, p>> = <<d, q>>
      <4>1. Sound(fetch[c][p], p, cur)
        BY <1>4, <3>2
      <4>2. fetch[c][p].res = None
        BY <2>1, <3>3, <4>1 DEF Sound
      <4>3. fetch[c][p].again > 0
        BY <1>4, <2>1, <3>1, <3>3, <4>2
      <4> QED
        BY <2>1, <3>3, <4>3
    <3>4. CASE <<c, p>> # <<d, q>>
      <4>1. fetch'[c][p] = fetch[c][p]
        BY <2>1, <3>2, <3>4
      <4> QED
        BY <2>3, <3>1, <4>1
    <3> QED
      BY <3>3, <3>4
  <2> QED
    BY <2>1, <2>2, <2>3
<1>11. ASSUME NEW d \in Clients, NEW q \in Places, RotateAgain(d, q) PROVE \E c \in Clients, p \in Pairs : Comes(c, p)
  <2>1. q # None /\ fetch'[d][q].again > 0
    BY <1>11, AgainFields
  <2> QED
    BY <2>1, Constants
<1>12. ASSUME NEW d \in Clients, NEW q \in Places, RotateFault(d, q) PROVE \E c \in Clients, p \in Pairs : Comes(c, p)
  <2>1. /\ \A c \in Clients, p \in Places : <<c, p>> # <<d, q>> => fetch'[c][p] = fetch[c][p]
        /\ fetch'[d][q].pc = "failed"
    BY <1>12, FaultFields
  <2>2. cur' = cur
    BY <1>12 DEF RotateFault, server
  <2>3. CASE q # None
    BY <2>1, <2>3, Constants
  <2>4. CASE q = None
    <3>1. PICK c \in Clients, p \in Pairs : Coming(c, p)
      BY <1>7, <2>2
    <3>2. p \in Places /\ p # q
      BY <2>4, Constants
    <3>3. fetch'[c][p] = fetch[c][p]
      BY <2>1, <3>2
    <3> QED
      BY <2>2, <3>1, <3>3
  <2> QED
    BY <2>3, <2>4
<1>13. ASSUME NEW r \in Requests, Reject(r) PROVE \E c \in Clients, p \in Pairs : Comes(c, p)
  <2>1. fetchQuery("api", store) /\ cur' = cur /\ "api" \in Clients
    BY <1>13 DEF Reject, server, Clients
  <2> QED
    BY <1>9, <2>1
<1>14. ASSUME NEW t \in Tails, StreamError(t) PROVE \E c \in Clients, p \in Pairs : Comes(c, p)
  <2>1. fetchQuery("app", store) /\ cur' = cur /\ "app" \in Clients
    BY <1>14 DEF StreamError, server, Clients
  <2> QED
    BY <1>9, <2>1
<1>15. \/ UNCHANGED cur
       \/ \E c \in Clients, p \in Places : Rotate(c, p)
  BY ServerMoves DEF DeleteSession, GraceEnds, Age, Expire
<1> QED
  BY <1>3, <1>5, <1>8, <1>10, <1>11, <1>12, <1>13, <1>14, <1>15, FetchMoves

(* The steps of a session that none of the accepted causes has touched.     *)
LEMMA Unexcused ==
  ASSUME RotationInv, [Next]_vars, ~Excused'
  PROVE  /\ Healthy /\ dead = {} /\ UNCHANGED <<provider, alive, bye>>
         /\ \A p \in Pairs : ~Expire(p)
         /\ \A p \in Places : ~LogoutEnds(p)
         /\ \A r \in Requests : ~RetryFails(r)
         /\ \A c \in Clients, p \in Places : ~RotationFails(c, p)
         /\ provider = "opaque" => ~stale' /\ \A c \in Clients, p \in Places : ~RotateFault(c, p)
<1>0. /\ dead' = {} /\ ~quit' /\ ~failed' /\ provider' = provider
      /\ provider = "opaque" => ~stale' /\ ~(faults' > 0)
  BY ServerMoves DEF Excused
<1>1. \A p \in Pairs : ~Expire(p)
  BY <1>0, Constants DEF Expire
<1>2. dead = {}
  BY <1>0, <1>1, ServerMoves DEF DeleteSession, Rotate, GraceEnds, Age
<1>3. ~UserLogout
  BY <1>0 DEF UserLogout
<1>4. ~quit
  BY <1>0, <1>3, FlagMoves DEF ServeRetry, Rotate, RotateFault, RotationArrives, RotationFails
<1>5. ASSUME NEW c \in Clients, NEW p \in Places, RotationFails(c, p) PROVE ~failed /\ fetch[c][p].pc # "failed"
  <2>1. failed' = (failed \/ fetch[c][p].pc = "failed")
    BY <1>5 DEF RotationFails
  <2> QED
    BY <1>0, <2>1, Zenon
<1>6. ~failed
  BY <1>0, <1>3, <1>5, FlagMoves DEF ServeRetry, Rotate, RotateFault, RotationArrives
<1>7. ASSUME stale PROVE stale'
  <2>1. ASSUME NEW c \in Clients, NEW p \in Places, RotateFault(c, p) \/ RotationFails(c, p) PROVE stale' = stale
    BY <2>1 DEF RotateFault, RotationFails
  <2>2. ASSUME NEW c \in Clients, NEW p \in Places, Rotate(c, p) PROVE stale'
    BY <1>7, <2>2, Zenon DEF Rotate
  <2>3. ASSUME NEW c \in Clients, NEW p \in Places, RotationArrives(c, p) PROVE stale'
    BY <1>7, <2>3, Zenon DEF RotationArrives
  <2>4. ASSUME NEW r \in Requests, ServeRetry(r) PROVE stale'
    BY <1>7, <2>4, Zenon DEF ServeRetry
  <2> QED
    BY <1>3, <1>7, <2>1, <2>2, <2>3, <2>4, FlagMoves
<1>8. faults \in Nat
  BY Constants DEF RotationInv, ClientInv
<1>9. ASSUME provider = "opaque" PROVE ~stale /\ ~(faults > 0) /\ \A c \in Clients, p \in Places : ~RotateFault(c, p)
  <2>1. ASSUME NEW c \in Clients, NEW p \in Places, RotateFault(c, p) PROVE FALSE
    <3>1. faults' = faults + 1
      BY <2>1 DEF RotateFault
    <3> QED
      BY <1>0, <1>8, <1>9, <3>1
  <2>2. faults' = faults
    BY <2>1, FlagMoves DEF UserLogout, ServeRetry, Rotate, RotationArrives, RotationFails
  <2> QED
    BY <1>0, <1>7, <1>9, <2>1, <2>2
<1>10. Healthy
  <2>1. ~Excused
    BY <1>2, <1>4, <1>6, <1>9 DEF Excused
  <2> QED
    BY <2>1 DEF RotationInv, HealthyInv
<1>11. ASSUME NEW c \in Clients, NEW p \in Places PROVE ~RotationFails(c, p)
  <2>1. fetch[c][p].pc # "refused"
    BY <1>10 DEF Healthy
  <2> QED
    BY <1>5, <2>1 DEF RotationFails
<1>12. ASSUME NEW r \in Requests PROVE ~RetryFails(r)
  BY <1>10 DEF Healthy, RetryFails
<1>13. ASSUME NEW p \in Places PROVE ~LogoutEnds(p) /\ ~DeleteSession(p)
  <2>1. \A x \in {"out", "back"} : ~(bye[x][p] > 0)
    <3>1. DOMAIN bye = {"out", "back"}
      BY DEF RotationInv, ClientInv
    <3> QED
      BY <1>10, <3>1 DEF Healthy, Leaving, Places
  <2> QED
    BY <2>1 DEF LogoutEnds, DeleteSession
<1>14. UNCHANGED bye
  BY <1>3, <1>11, <1>12, <1>13, LogoutMoves
<1>15. UNCHANGED alive
  BY <1>13, ServerMoves DEF Rotate, GraceEnds, Age, Expire
<1> QED
  BY <1>0, <1>1, <1>2, <1>9, <1>10, <1>11, <1>12, <1>13, <1>14, <1>15

\* A rotation is granted, unless it is one that a later one has overtaken.
LEMMA HealthyRotate ==
  ASSUME RotationInv, [Next]_vars, ~Excused', NEW c \in Clients, NEW p \in Places, Rotate(c, p)
  PROVE  /\ p # None /\ fetch'[c][p].pc = "granted" /\ fetch'[c][p].res = cur'
         /\ \/ cur' = cur + 1
            \/ cur' = cur /\ prev' = prev /\ provider = "opaque" /\ p = prev
<1>1. /\ fetch[c][p].pc = "asked" /\ Healthy /\ dead = {}
      /\ provider = "opaque" => ~stale'
  BY RotateFields, Unexcused
<1>2. p # None /\ fetch[c][p].acc # None /\ (provider = "opaque" => fetch[c][p].acc = p) /\ alive
  BY <1>1 DEF Healthy
<1>3. p <= cur /\ cur \in Nat /\ prev \in 0..(cur - 1) /\ p \in Nat /\ p # 0
  <2>1. Sound(fetch[c][p], p, cur)
    BY DEF RotationInv, FetchInv
  <2> QED
    BY <1>1, <1>2, <2>1, Constants DEF Sound, RotationInv, ServerInv
<1>4. Accepts(p, fetch[c][p].acc)
  <2>1. CASE provider # "opaque"
    BY <1>1, <1>2, <2>1 DEF Accepts, IsPrevious
  <2>2. CASE provider = "opaque" /\ p = cur
    <3>1. p # prev
      BY <1>3, <2>2
    <3> QED
      BY <1>1, <1>2, <2>2, <3>1 DEF Accepts, IsPrevious
  <2>3. CASE provider = "opaque" /\ p # cur
    <3>1. p \in 1..(cur - 1)
      BY <1>3, <2>3
    <3>2. Replaced(p)
      BY <2>3, <3>1 DEF Replaced
    <3> QED
      BY <1>1, <2>3, <3>2, Zenon DEF Rotate
  <2> QED
    BY <2>1, <2>2, <2>3
<1> QED
  BY <1>2, <1>4, RotateFields DEF IsPrevious

\* A second attempt is answered, unless a later rotation has replaced its pair.
LEMMA HealthyRetry ==
  ASSUME RotationInv, [Next]_vars, ~Excused', NEW r \in Requests, ServeRetry(r)
  PROVE  Go(r, "idle", actor[r].pair)
<1>1. actor[r].pc = "retried" /\ Healthy /\ dead = {} /\ (provider = "opaque" => ~stale')
  BY Unexcused DEF ServeRetry
<1>2. actor[r].pair # None /\ actor[r].pair \notin aged /\ alive
  BY <1>1 DEF Healthy, Young
<1>3. actor[r] \in Positions /\ actor[r].pair <= cur /\ cur \in Nat
  BY Constants DEF RotationInv, ClientInv, ServerInv
<1>4. actor[r].pair \in Places
  BY <1>3 DEF Positions
<1>5. actor[r].pair \in Pairs /\ actor[r].pair \in Nat
  BY <1>2, <1>4, Constants
<1>6. Authenticates(actor[r].pair)
  <2>1. CASE provider = "opaque" => actor[r].pair = cur
    BY <1>1, <1>2, <1>5, <2>1 DEF Authenticates
  <2>2. CASE provider = "opaque" /\ actor[r].pair # cur
    <3>1. actor[r].pair \in 1..(cur - 1)
      BY <1>2, <1>3, <1>5, <2>2, Constants
    <3>2. Replaced(actor[r].pair)
      BY <2>2, <3>1 DEF Replaced
    <3> QED
      BY <1>1, <2>2, <3>2, Zenon DEF ServeRetry
  <2> QED
    BY <2>1, <2>2
<1> QED
  BY <1>6 DEF ServeRetry

\* The entries of the rotations, and who may wait for one.
LEMMA EntriesStep ==
  ASSUME RotationInv, [Next]_vars, ~Excused', NEW c \in Clients, NEW p \in Places
  PROVE  /\ fetch'[c][p].pc # "refused" /\ (provider = "opaque" => fetch'[c][p].pc # "failed")
         /\ fetch'[c][p].pc = "asked" =>
               p # None /\ fetch'[c][p].acc # None /\ (provider = "opaque" => fetch'[c][p].acc = p)
<1> DEFINE Fine(g) == /\ g.pc # "refused" /\ (provider = "opaque" => g.pc # "failed")
                      /\ g.pc = "asked" => p # None /\ g.acc # None /\ (provider = "opaque" => g.acc = p)
<1>0. Fine(fetch[c][p]) /\ store # None
  BY Unexcused DEF Healthy
<1>1. CASE UNCHANGED fetch
  BY <1>0, <1>1
<1>2. ASSUME NEW d \in Clients, fetchQuery(d, store) PROVE Fine(fetch'[c][p])
  <2>1. \/ fetch'[c][p] = fetch[c][p]
        \/ p = store /\ fetch'[c][p].pc = "asked" /\ fetch'[c][p].acc = store
    BY <1>2, AskFields
  <2> QED
    BY <1>0, <2>1
<1>3. ASSUME NEW d \in Clients, NEW q \in Places, Rotate(d, q) PROVE Fine(fetch'[c][p])
  <2>1. fetch'[c][p] = fetch[c][p] \/ fetch'[c][p].pc = "granted"
    <3>1. fetch'[d][q].pc = "granted"
      BY <1>3, HealthyRotate
    <3>2. <<c, p>> # <<d, q>> => fetch'[c][p] = fetch[c][p]
      BY <1>3, RotateFields
    <3> QED
      BY <3>1, <3>2
  <2> QED
    BY <1>0, <2>1
<1>4. ASSUME NEW d \in Clients, NEW q \in Places, RotateAgain(d, q) PROVE Fine(fetch'[c][p])
  <2>1. /\ q # None /\ fetch[d][q].pc = "failed" /\ fetch'[d][q].pc = "asked" /\ fetch'[d][q].acc = store
        /\ <<c, p>> # <<d, q>> => fetch'[c][p] = fetch[c][p]
    BY <1>4, AgainFields
  <2>2. CASE <<c, p>> = <<d, q>>
    BY <1>0, <2>1, <2>2
  <2>3. CASE <<c, p>> # <<d, q>>
    BY <1>0, <2>1, <2>3
  <2> QED
    BY <2>2, <2>3
<1>5. ASSUME NEW d \in Clients, NEW q \in Places, RotateFault(d, q) PROVE Fine(fetch'[c][p])
  <2>1. fetch'[d][q].pc = "failed" /\ (<<c, p>> # <<d, q>> => fetch'[c][p] = fetch[c][p])
    BY <1>5, FaultFields
  <2>2. provider # "opaque"
    BY <1>5, Unexcused
  <2> QED
    BY <1>0, <2>1, <2>2
<1>6. ASSUME NEW d \in Clients, NEW q \in Places, RotationArrives(d, q) PROVE Fine(fetch'[c][p])
  <2>1. fetch'[d][q].pc = "none" /\ (<<c, p>> # <<d, q>> => fetch'[c][p] = fetch[c][p])
    BY <1>6, EndFields
  <2> QED
    BY <1>0, <2>1
<1>7. ASSUME NEW r \in Requests, Reject(r) PROVE Fine(fetch'[c][p])
  BY <1>2, <1>7 DEF Reject, Clients
<1>8. ASSUME NEW t \in Tails, StreamError(t) PROVE Fine(fetch'[c][p])
  BY <1>2, <1>8 DEF StreamError, Clients
<1>9. Fine(fetch'[c][p])
  BY <1>1, <1>3, <1>4, <1>5, <1>6, <1>7, <1>8, FetchMoves, Unexcused
<1> QED
  BY <1>9

\* An answer that is stored carries the newest pair.
LEMMA HealthyArrival ==
  ASSUME RotationInv, [Next]_vars, ~Excused', NEW c \in Clients, NEW p \in Places, RotationArrives(c, p)
  PROVE  /\ p # None /\ fetch[c][p].res # None /\ store' = fetch[c][p].res /\ cur' = cur
         /\ provider = "opaque" => store' = cur'
<1>1. fetch[c][p].pc = "granted" /\ store' = fetch[c][p].res /\ cur' = cur
  BY DEF RotationArrives, server
<1>2. Sound(fetch[c][p], p, cur) /\ fetch[c][p] \in Fetches /\ cur \in Nat
  BY Constants DEF RotationInv, FetchInv, ServerInv
<1>3. fetch[c][p].res \in Nat /\ fetch[c][p].res # 0 /\ fetch[c][p].res <= cur /\ p # None
  BY <1>1, <1>2, Constants DEF Sound, Fetches
<1>4. ASSUME provider = "opaque" PROVE fetch[c][p].res = cur
  <2>1. ~stale'
    BY <1>4, Unexcused
  <2>2. ~Replaced(fetch[c][p].res)
    BY <2>1, Zenon DEF RotationArrives
  <2>3. fetch[c][p].res \notin 1..(cur - 1)
    BY <1>4, <2>2 DEF Replaced
  <2> QED
    BY <1>2, <1>3, <2>3
<1> QED
  BY <1>1, <1>3, <1>4, Constants

LEMMA StoreStep ==
  ASSUME RotationInv, [Next]_vars, ~Excused'
  PROVE  /\ store' # None
         /\ provider = "opaque" => store' = cur' \/ \E c \in Clients, p \in Pairs : fetch'[c][p].res = cur'
<1>0. /\ Healthy /\ store # None /\ cur \in Pairs /\ cur # None
      /\ \A c \in Clients, p \in Places : ~RotationFails(c, p)
  BY Unexcused, Constants DEF Healthy, RotationInv, ServerInv
<1>1. store' # None
  BY <1>0, HealthyArrival, StoreMoves, Unexcused
<1> SUFFICES ASSUME provider = "opaque", store' # cur' PROVE \E c \in Clients, p \in Pairs : fetch'[c][p].res = cur'
  BY <1>1
<1>2. \A c \in Clients, p \in Places : ~RotationArrives(c, p) /\ ~RotateFault(c, p)
  BY HealthyArrival, Unexcused
<1>3. store' = store
  BY <1>2, StoreMoves, Unexcused
<1>4. ASSUME NEW c \in Clients, NEW p \in Places PROVE ~RotateAgain(c, p)
  BY <1>0, AgainFields DEF Healthy
<1>5. ASSUME NEW d \in Clients, NEW q \in Places, Rotate(d, q)
      PROVE  \E c \in Clients, p \in Pairs : fetch'[c][p].res = cur'
  <2>1. q # None /\ fetch'[d][q].res = cur'
    BY <1>5, HealthyRotate
  <2> QED
    BY <2>1, Constants
<1>6. ASSUME cur' = cur PROVE \E c \in Clients, p \in Pairs : fetch[c][p].res = cur
  <2>1. store # cur
    BY <1>3, <1>6
  <2> QED
    BY <1>0, <2>1 DEF Healthy
<1>7. ASSUME NEW d \in Clients, fetchQuery(d, store), cur' = cur
      PROVE  \E c \in Clients, p \in Pairs : fetch'[c][p].res = cur'
  <2>1. PICK c \in Clients, p \in Pairs : fetch[c][p].res = cur
    BY <1>6, <1>7
  <2>2. p \in Places
    BY Constants
  <2>3. Sound(fetch[c][p], p, cur)
    BY <2>2 DEF RotationInv, FetchInv
  <2>4. fetch[c][p].pc # "none"
    BY <1>0, <2>1, <2>3 DEF Sound
  <2>5. fetch'[c][p] = fetch[c][p]
    BY <1>7, <2>2, <2>4, AskFields
  <2> QED
    BY <1>7, <2>1, <2>5
<1>8. ASSUME NEW r \in Requests, Reject(r) PROVE \E c \in Clients, p \in Pairs : fetch'[c][p].res = cur'
  <2>1. fetchQuery("api", store) /\ cur' = cur /\ "api" \in Clients
    BY <1>8 DEF Reject, server, Clients
  <2> QED
    BY <1>7, <2>1
<1>9. ASSUME NEW t \in Tails, StreamError(t) PROVE \E c \in Clients, p \in Pairs : fetch'[c][p].res = cur'
  <2>1. fetchQuery("app", store) /\ cur' = cur /\ "app" \in Clients
    BY <1>9 DEF StreamError, server, Clients
  <2> QED
    BY <1>7, <2>1
<1>10. cur' = cur \/ \E c \in Clients, p \in Places : Rotate(c, p)
  BY ServerMoves DEF DeleteSession, GraceEnds, Age, Expire
<1>11. CASE UNCHANGED <<cur, fetch>>
  BY <1>6, <1>11
<1> QED
  BY <1>0, <1>2, <1>4, <1>5, <1>8, <1>9, <1>10, <1>11, FetchMoves

\* What ages is not on its way, and what is new has not aged.
LEMMA AgedStep ==
  ASSUME RotationInv, [Next]_vars
  PROVE  /\ aged \subseteq 1..cur /\ cur \in Nat /\ cur + 1 \notin aged /\ None \notin aged'
         /\ \/ UNCHANGED aged
            \/ \E x \in Pairs : /\ aged' = aged \union {x} /\ ~Travels(x)
                               /\ UNCHANGED <<cur, prev, store, actor, fetch>>
<1>1. aged \subseteq 1..cur /\ aged' \subseteq 1..cur' /\ cur \in Pairs /\ cur' \in Pairs
  BY ServerStep DEF RotationInv, ServerInv
<1>2. cur \in Nat /\ cur' \in Nat
  BY <1>1, Constants
<1>3. cur + 1 \notin aged /\ None \notin aged'
  BY <1>1, <1>2, Constants
<1>4. ASSUME NEW x \in Pairs, Age(x)
      PROVE  aged' = aged \union {x} /\ ~Travels(x) /\ UNCHANGED <<cur, prev, store, actor, fetch>>
  BY <1>4 DEF Age
<1>5. UNCHANGED aged \/ \E x \in Pairs : Age(x)
  BY ServerMoves DEF DeleteSession, Rotate, GraceEnds, Expire
<1> QED
  BY <1>1, <1>2, <1>3, <1>4, <1>5

LEMMA AnswersStayYoung ==
  ASSUME RotationInv, [Next]_vars, ~Excused', NEW c \in Clients, NEW p \in Pairs
  PROVE  fetch'[c][p].res \notin aged'
<1>0. /\ fetch[c][p].res \notin aged /\ p \in Places /\ Clients = DOMAIN fetch
      /\ provider = "opaque" => \A d \in Clients : fetch[d][prev].pc = "asked" => cur \notin aged
  BY Unexcused, Constants DEF Healthy, Young, RotationInv, FetchInv
<1>1. ASSUME NEW x \in Pairs, aged' = aged \union {x}, ~Travels(x), UNCHANGED <<cur, prev, store, actor, fetch>>
      PROVE  fetch'[c][p].res \notin aged'
  <2>1. fetch[c][p].res # x
    BY <1>0, <1>1 DEF Travels
  <2> QED
    BY <1>0, <1>1, <2>1
<1>2. ASSUME NEW d \in Clients, NEW q \in Places, Rotate(d, q), UNCHANGED aged
      PROVE  fetch'[c][p].res \notin aged'
  <2>1. CASE <<c, p>> # <<d, q>>
    BY <1>0, <1>2, <2>1, RotateFields
  <2>2. CASE <<c, p>> = <<d, q>>
    <3>1. /\ fetch'[d][q].res = cur'
          /\ cur' = cur + 1 \/ (cur' = cur /\ provider = "opaque" /\ q = prev)
      BY <1>2, HealthyRotate
    <3>2. fetch[d][q].pc = "asked"
      BY <1>2, RotateFields
    <3>3. cur' \notin aged
      BY <1>0, <3>1, <3>2, AgedStep
    <3> QED
      BY <1>2, <2>2, <3>1, <3>3
  <2> QED
    BY <2>1, <2>2
<1>3. ASSUME UNCHANGED aged, fetch'[c][p] = fetch[c][p] \/ fetch'[c][p].res = None
      PROVE  fetch'[c][p].res \notin aged'
  BY <1>0, <1>3, AgedStep
<1>4. ASSUME NEW d \in Clients, fetchQuery(d, store) PROVE fetch'[c][p] = fetch[c][p] \/ fetch'[c][p].res = None
  BY <1>0, <1>4, AskFields
<1>5. ASSUME NEW r \in Requests, Reject(r) PROVE fetch'[c][p] = fetch[c][p] \/ fetch'[c][p].res = None
  BY <1>4, <1>5 DEF Reject, Clients
<1>6. ASSUME NEW t \in Tails, StreamError(t) PROVE fetch'[c][p] = fetch[c][p] \/ fetch'[c][p].res = None
  BY <1>4, <1>6 DEF StreamError, Clients
<1>7. ASSUME NEW d \in Clients, NEW q \in Places, RotateAgain(d, q)
      PROVE  fetch'[c][p] = fetch[c][p] \/ fetch'[c][p].res = None
  BY <1>0, <1>7, AgainFields
<1>8. ASSUME NEW d \in Clients, NEW q \in Places, RotateFault(d, q)
      PROVE  fetch'[c][p] = fetch[c][p] \/ fetch'[c][p].res = None
  BY <1>0, <1>8, FaultFields
<1>9. ASSUME NEW d \in Clients, NEW q \in Places, RotationArrives(d, q) \/ RotationFails(d, q)
      PROVE  fetch'[c][p] = fetch[c][p] \/ fetch'[c][p].res = None
  BY <1>0, <1>9, EndFields
<1>10. \/ fetch'[c][p] = fetch[c][p] \/ fetch'[c][p].res = None
       \/ \E d \in Clients, q \in Places : Rotate(d, q)
  BY <1>5, <1>6, <1>7, <1>8, <1>9, FetchMoves
<1>11. CASE UNCHANGED aged
  BY <1>2, <1>3, <1>10, <1>11
<1> QED
  BY <1>1, <1>11, AgedStep

LEMMA RetriesStayYoung ==
  ASSUME RotationInv, [Next]_vars, ~Excused', NEW r \in Requests
  PROVE  /\ actor'[r].pc # "rejected"
         /\ actor'[r].pc = "retried" => actor'[r].pair # None /\ actor'[r].pair \notin aged'
<1>0. /\ actor \in [Actors -> Positions] /\ r \in Actors /\ Requests \subseteq Actors /\ Tails \subseteq Actors
      /\ Healthy /\ actor[r].pc # "rejected"
      /\ actor[r].pc = "retried" => actor[r].pair # None /\ actor[r].pair \notin aged
  BY Unexcused, Constants DEF Healthy, Young, RotationInv, ClientInv
<1>1. ASSUME NEW x \in Pairs, aged' = aged \union {x}, ~Travels(x), UNCHANGED <<cur, prev, store, actor, fetch>>
      PROVE  /\ actor'[r].pc # "rejected"
             /\ actor'[r].pc = "retried" => actor'[r].pair # None /\ actor'[r].pair \notin aged'
  <2>1. actor[r].pc = "retried" => actor[r].pair # x
    <3> SUFFICES ASSUME actor[r].pc = "retried", actor[r].pair = x PROVE FALSE
      OBVIOUS
    <3>1. actor[r] \in Positions
      BY <1>0
    <3>2. actor[r] = [pc |-> "retried", pair |-> x]
      BY <3>1 DEF Positions
    <3> QED
      BY <1>1, <3>2 DEF Travels
  <2> QED
    BY <1>0, <1>1, <2>1
<1>2. ASSUME UNCHANGED aged, actor'[r] = actor[r] \/ actor'[r].pc \in {"idle", "sent", "401", "waiting"}
      PROVE  /\ actor'[r].pc # "rejected"
             /\ actor'[r].pc = "retried" => actor'[r].pair # None /\ actor'[r].pair \notin aged'
  BY <1>0, <1>2
<1>3. ASSUME NEW a \in Actors, NEW pc \in {"idle", "sent", "401", "waiting"}, NEW q, Go(a, pc, q)
      PROVE  actor'[r] = actor[r] \/ actor'[r].pc \in {"idle", "sent", "401", "waiting"}
  <2>1. CASE a = r
    <3>1. actor'[r] = [pc |-> pc, pair |-> q]
      BY <1>0, <1>3, <2>1 DEF Go
    <3> QED
      BY <3>1
  <2>2. CASE a # r
    BY <1>0, <1>3, <2>2 DEF Go
  <2> QED
    BY <2>1, <2>2
<1>4. ASSUME NEW b \in Requests, Send(b) \/ Serve(b) \/ RejectExcluded(b) \/ Reject(b)
      PROVE  \E pc \in {"idle", "sent", "401", "waiting"} : \E q : Go(b, pc, q)
  BY <1>4 DEF Send, Serve, RejectExcluded, Reject
<1>5. ASSUME NEW b \in Requests, ServeRetry(b)
      PROVE  \E pc \in {"idle", "sent", "401", "waiting"} : \E q : Go(b, pc, q)
  BY <1>5, HealthyRetry
<1>6. ASSUME NEW t \in Tails, StreamError(t)
      PROVE  \E pc \in {"idle", "sent", "401", "waiting"} : \E q : Go(t, pc, q)
  BY <1>6 DEF StreamError
<1>7. ASSUME NEW c \in Clients, NEW p \in Places, RotationArrives(c, p), UNCHANGED aged
      PROVE  /\ actor'[r].pc # "rejected"
             /\ actor'[r].pc = "retried" => actor'[r].pair # None /\ actor'[r].pair \notin aged'
  <2>1. p # None /\ fetch[c][p].res # None
    BY <1>7, HealthyArrival
  <2>2. fetch[c][p].res \notin aged
    BY <1>0, <2>1, Constants DEF Healthy, Young
  <2>3. \/ actor'[r] = actor[r]
        \/ actor'[r] = Idle
        \/ actor'[r] = [pc |-> "retried", pair |-> fetch[c][p].res]
    BY <1>0, <1>7 DEF RotationArrives, Retried
  <2>4. CASE actor'[r] = actor[r]
    BY <1>0, <1>7, <2>4
  <2>5. CASE actor'[r] = Idle
    <3>1. actor'[r].pc = "idle"
      BY <2>5 DEF Idle
    <3> QED
      BY <3>1
  <2>6. CASE actor'[r] = [pc |-> "retried", pair |-> fetch[c][p].res]
    <3>1. actor'[r].pc = "retried" /\ actor'[r].pair = fetch[c][p].res
      BY <2>6
    <3> QED
      BY <1>7, <2>1, <2>2, <3>1
  <2> QED
    BY <2>3, <2>4, <2>5, <2>6
<1>8. \/ actor'[r] = actor[r] \/ actor'[r].pc \in {"idle", "sent", "401", "waiting"}
      \/ \E c \in Clients, p \in Places : RotationArrives(c, p)
  <2>1. ASSUME NEW a \in Actors, \E pc \in {"idle", "sent", "401", "waiting"} : \E q : Go(a, pc, q)
        PROVE  actor'[r] = actor[r] \/ actor'[r].pc \in {"idle", "sent", "401", "waiting"}
    BY <1>3, <2>1
  <2> QED
    BY <1>0, <1>4, <1>5, <1>6, <2>1, ActorMoves, Unexcused
<1>9. CASE UNCHANGED aged
  BY <1>2, <1>7, <1>8, <1>9
<1> QED
  BY <1>1, <1>9, AgedStep

LEMMA NewestStaysYoung ==
  ASSUME RotationInv, [Next]_vars, ~Excused', provider = "opaque", NEW c \in Clients, fetch'[c][prev'].pc = "asked"
  PROVE  cur' \notin aged'
<1>0. /\ Healthy /\ Clients = DOMAIN fetch /\ prev \in Places /\ cur \in Pairs /\ prev # cur
      /\ fetch[c][prev].pc = "asked" => cur \notin aged
  <2>1. cur \in Pairs /\ prev \in 0..(cur - 1)
    BY DEF RotationInv, ServerInv
  <2>2. prev \in Places /\ prev # cur
    BY <2>1, Constants
  <2>3. Healthy /\ Clients = DOMAIN fetch
    BY Unexcused DEF RotationInv, FetchInv
  <2> QED
    BY <2>1, <2>2, <2>3 DEF Healthy, Young
<1>1. ASSUME NEW x \in Pairs, aged' = aged \union {x}, ~Travels(x), UNCHANGED <<cur, prev, store, actor, fetch>>
      PROVE  cur' \notin aged'
  <2>1. x # cur
    BY <1>0, <1>1 DEF Travels
  <2> QED
    BY <1>0, <1>1, <2>1
<1>2. ASSUME NEW d \in Clients, NEW q \in Places, Rotate(d, q), UNCHANGED aged PROVE cur' \notin aged'
  <2>1. /\ fetch'[d][q].pc = "granted"
        /\ cur' = cur + 1 \/ (cur' = cur /\ prev' = prev /\ q = prev)
    BY <1>2, HealthyRotate
  <2>2. CASE cur' = cur + 1
    BY <1>2, <2>2, AgedStep
  <2>3. CASE cur' = cur /\ prev' = prev /\ q = prev
    <3>1. <<c, prev>> # <<d, q>>
      BY <2>1, <2>3
    <3>2. fetch'[c][prev] = fetch[c][prev]
      BY <1>0, <1>2, <3>1, RotateFields
    <3> QED
      BY <1>0, <1>2, <2>3, <3>2
  <2> QED
    BY <2>1, <2>2, <2>3
<1>3. ASSUME UNCHANGED <<cur, prev, aged>>, fetch'[c][prev] = fetch[c][prev] PROVE cur' \notin aged'
  BY <1>0, <1>3
<1>4. ASSUME NEW d \in Clients, fetchQuery(d, store), UNCHANGED <<cur, prev, aged>> PROVE cur' \notin aged'
  <2>1. CASE prev = store
    <3>1. PICK e \in Clients, p \in Pairs : fetch[e][p].res = cur
      BY <1>0, <2>1 DEF Healthy
    <3>2. cur \notin aged
      BY <1>0, <3>1 DEF Healthy, Young
    <3> QED
      BY <1>4, <3>2
  <2>2. CASE prev # store
    <3>1. fetch'[c][prev] = fetch[c][prev]
      BY <1>0, <1>4, <2>2, AskFields
    <3> QED
      BY <1>3, <1>4, <3>1
  <2> QED
    BY <2>1, <2>2
<1>5. ASSUME NEW r \in Requests, Reject(r) PROVE cur' \notin aged'
  <2>1. fetchQuery("api", store) /\ UNCHANGED <<cur, prev, aged>> /\ "api" \in Clients
    BY <1>5 DEF Reject, server, Clients
  <2> QED
    BY <1>4, <2>1
<1>6. ASSUME NEW t \in Tails, StreamError(t) PROVE cur' \notin aged'
  <2>1. fetchQuery("app", store) /\ UNCHANGED <<cur, prev, aged>> /\ "app" \in Clients
    BY <1>6 DEF StreamError, server, Clients
  <2> QED
    BY <1>4, <2>1
<1>7. ASSUME NEW d \in Clients, NEW q \in Places, RotationArrives(d, q) PROVE cur' \notin aged'
  <2>1. UNCHANGED <<cur, prev, aged>>
    BY <1>7 DEF RotationArrives, server
  <2>2. fetch'[d][q].pc = "none" /\ (<<c, prev>> # <<d, q>> => fetch'[c][prev] = fetch[c][prev])
    BY <1>0, <1>7, EndFields
  <2>3. fetch'[c][prev] = fetch[c][prev]
    BY <2>1, <2>2
  <2> QED
    BY <1>3, <2>1, <2>3
<1>8. ASSUME NEW d \in Clients, NEW q \in Places PROVE ~RotateAgain(d, q) /\ ~RotateFault(d, q) /\ ~RotationFails(d, q)
  <2>1. fetch[d][q].pc # "failed"
    BY <1>0 DEF Healthy
  <2> QED
    BY <2>1, AgainFields, Unexcused
<1>9. \/ UNCHANGED <<cur, prev>>
      \/ \E d \in Clients, q \in Places : Rotate(d, q)
  BY ServerMoves DEF DeleteSession, GraceEnds, Age, Expire
<1>10. CASE UNCHANGED aged /\ UNCHANGED <<cur, prev, fetch>>
  BY <1>3, <1>10
<1> QED
  BY <1>1, <1>2, <1>5, <1>6, <1>7, <1>8, <1>9, <1>10, AgedStep, FetchMoves

LEMMA HealthyStep == RotationInv /\ [Next]_vars => HealthyInv'
<1> SUFFICES ASSUME RotationInv, [Next]_vars, ~Excused' PROVE Healthy'
  BY DEF HealthyInv
<1>1. provider' = provider /\ ~Leaving' /\ alive'
  BY Unexcused DEF Healthy, Leaving
<1>2. store' # None /\ (provider = "opaque" => store' = cur' \/ \E c \in Clients, p \in Pairs : fetch'[c][p].res = cur')
  BY StoreStep
<1>3. \A c \in Clients, p \in Places :
         /\ fetch'[c][p].pc # "refused" /\ (provider = "opaque" => fetch'[c][p].pc # "failed")
         /\ fetch'[c][p].pc = "asked" =>
               p # None /\ fetch'[c][p].acc # None /\ (provider = "opaque" => fetch'[c][p].acc = p)
  BY EntriesStep
<1>4. \A r \in Requests :
         /\ actor'[r].pc # "rejected"
         /\ actor'[r].pc = "retried" => actor'[r].pair # None /\ actor'[r].pair \notin aged'
  BY RetriesStayYoung
<1>5. \A c \in Clients, p \in Pairs : fetch'[c][p].res \notin aged'
  BY AnswersStayYoung
<1>6. provider = "opaque" => \A c \in Clients : fetch'[c][prev'].pc = "asked" => cur' \notin aged'
  BY NewestStaysYoung
<1>7. Young'
  BY <1>1, <1>4, <1>5, <1>6 DEF Young
<1> QED
  BY <1>1, <1>2, <1>3, <1>4, <1>7 DEF Healthy

-----------------------------------------------------------------------------
LEMMA RotationInit == Init => RotationInv
<1> SUFFICES ASSUME Init PROVE RotationInv
  OBVIOUS
<1>1. /\ provider \in Providers /\ cur = 1 /\ prev = None /\ alive = TRUE /\ grace = FALSE /\ aged = {} /\ dead = {}
      /\ store = 1 /\ quit = FALSE /\ failed = FALSE /\ stale = FALSE /\ sends = 0 /\ faults = 0
      /\ actor = [a \in Actors |-> Idle]
      /\ fetch = [c \in Clients |-> [p \in Places |-> NoFetch]]
      /\ bye = [s \in {"out", "back"} |-> [p \in Places |-> 0]]
  BY DEF Init, Places
<1>2. /\ NoFetch \in Fetches /\ NoFetch.pc = "none" /\ NoFetch.res = None /\ NoFetch.again = 0
      /\ Idle \in Positions /\ Idle.pc = "idle" /\ Idle.pair = None
  BY Constants DEF NoFetch, Fetches, Idle, Positions
<1>3. /\ \A c \in Clients, p \in Places : fetch[c][p] = NoFetch
      /\ \A a \in Actors : actor[a] = Idle
  BY <1>1
<1>4. ServerInv
  <2>1. prev \in 0..(cur - 1)
    BY <1>1, Constants
  <2> QED
    BY <1>1, <2>1, Constants DEF ServerInv
<1>5. ClientInv
  <2>1. store \in 0..cur /\ sends \in 0..MaxSends /\ faults \in 0..MaxFaults
    BY <1>1, Constants
  <2>2. actor \in [Actors -> Positions] /\ \A a \in Actors : actor[a].pair <= cur
    BY <1>1, <1>2, <1>3, Constants
  <2>3. bye \in [{"out", "back"} -> [Places -> Nat]]
    BY <1>1
  <2> QED
    BY <1>1, <2>1, <2>2, <2>3 DEF ClientInv
<1>6. FetchInv
  <2>1. \A p \in Places : Sound(NoFetch, p, cur)
    BY <1>1, <1>2, Constants DEF Sound
  <2>2. fetch \in [Clients -> [Places -> Fetches]]
    BY <1>1, <1>2
  <2> QED
    BY <1>3, <2>1, <2>2 DEF FetchInv
<1>7. CountInv
  <2>1. Asking = {} /\ Unanswered = {}
    <3>1. Unanswered = {}
      BY <1>2, <1>3, Constants DEF Unanswered
    <3>2. ASSUME NEW x \in Clients \X Places PROVE fetch[x[1]][x[2]].pc = "none"
      BY <1>2, <1>3
    <3> QED
      BY <3>1, <3>2 DEF Asking
  <2>2. Cardinality(Asking) = 0 /\ Cardinality(Unanswered) = 0
    BY <2>1, FS_EmptySet
  <2> QED
    BY <1>1, <2>2 DEF CountInv
<1>8. WaitInv
  BY <1>2, <1>3 DEF WaitInv, WaitersAreServed
<1>9. StoredIsCurrent
  BY <1>1 DEF StoredIsCurrent
<1>10. Healthy
  <2>1. Young
    BY <1>1, <1>2, <1>3, Constants DEF Young
  <2>2. ~Leaving
    <3>1. DOMAIN bye = {"out", "back"} /\ \A x \in {"out", "back"}, p \in Places : bye[x][p] = 0
      BY <1>1
    <3> QED
      BY <3>1 DEF Leaving, Places
  <2>3. store # None
    BY <1>1, Constants
  <2>4. \A c \in Clients, p \in Places : fetch[c][p].pc = "none"
    BY <1>2, <1>3
  <2>5. \A r \in Requests : actor[r].pc # "rejected"
    BY <1>2, <1>3, Constants
  <2> QED
    BY <1>1, <2>1, <2>2, <2>3, <2>4, <2>5 DEF Healthy
<1> QED
  BY <1>4, <1>5, <1>6, <1>7, <1>8, <1>9, <1>10 DEF RotationInv, HealthyInv

(* The inductive invariant: what the rotations under way carry, who waits   *)
(* for them, how many there can be, and what an undisturbed session keeps   *)
(* (index.ts, interceptorRejected; token.go, Rotate).                       *)
THEOREM RotationInvariance == Spec => []RotationInv
<1>1. RotationInv /\ [Next]_vars => RotationInv'
  BY ServerStep, ClientStep, FetchStep, CountStep, WaitStep, StoredStep, HealthyStep DEF RotationInv
<1> QED
  BY <1>1, RotationInit, PTL DEF Spec

(* With the opaque tokenizer the client holds the pair that the server      *)
(* honours, or it is on its way, unless an answer was overtaken; and every  *)
(* request that waits has a rotation to wait for (index.ts,                 *)
(* interceptorRejected; EventSource.tsx, handleErrorConnection).            *)
THEOREM RotationsServeThoseWhoWait == Spec => []SessionInv
<1>1. RotationInv => SessionInv
  <2> SUFFICES ASSUME RotationInv PROVE SessionInv
    OBVIOUS
  <2>1. /\ provider \in Providers /\ cur \in Pairs /\ alive \in BOOLEAN /\ grace \in BOOLEAN
        /\ prev \in 0..(cur - 1) /\ aged \subseteq 1..cur /\ dead \subseteq Pairs
    BY DEF RotationInv, ServerInv
  <2>2. prev \in Places
    BY <2>1, Constants
  <2>3. /\ store \in 0..cur /\ actor \in [Actors -> Positions] /\ bye \in [{"out", "back"} -> [Places -> Nat]]
        /\ quit \in BOOLEAN /\ failed \in BOOLEAN /\ stale \in BOOLEAN
        /\ sends \in 0..MaxSends /\ faults \in 0..MaxFaults
        /\ fetch \in [Clients -> [Places -> Fetches]]
    BY DEF RotationInv, ClientInv, FetchInv
  <2>4. {quit, failed, stale} \subseteq BOOLEAN
    BY <2>3
  <2>5. TypeOK
    BY <2>1, <2>2, <2>3, <2>4 DEF TypeOK, Places, Positions, Fetches
  <2> QED
    BY <2>5 DEF RotationInv, WaitInv, SessionInv
<1> QED
  BY <1>1, RotationInvariance, PTL

(* With the default tokenizer nobody is logged out unless the session       *)
(* expired, the user asked for it or a rotation was given up, however       *)
(* refusals, rotations and answers interleave (index.ts,                    *)
(* interceptorRejected; utils.ts, Logout).                                  *)
THEOREM NobodyIsLoggedOutUnasked == Spec => []NoSpuriousLogout
<1>1. RotationInv => NoSpuriousLogout
  BY DEF RotationInv, HealthyInv, Excused, Healthy, NoSpuriousLogout
<1> QED
  BY <1>1, RotationInvariance, PTL

(* With the opaque tokenizer every logout has one of the causes above, or a *)
(* replaced pair was refused or stored, or an answer was lost (token.go,    *)
(* Rotate; utils.ts, Logout).                                               *)
THEOREM LogoutsHaveACause == Spec => []LogoutHasACause
<1>1. RotationInv => LogoutHasACause
  BY DEF RotationInv, HealthyInv, Excused, Healthy, LogoutHasACause
<1> QED
  BY <1>1, RotationInvariance, PTL
=============================================================================
