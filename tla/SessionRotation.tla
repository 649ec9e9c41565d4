-------------------------- MODULE SessionRotation --------------------------
(***************************************************************************)
(* One session of the web client, from login to logout, and the rotation   *)
(* of its token pair:                                                      *)
(*   frontend/src/api/index.ts, api/utils.ts, AppRoutes/utils.ts           *)
(*   frontend/src/providers/EventSource.tsx                                *)
(*   pkg/types/authtypes/token.go and the two tokenizers of pkg/tokenizer  *)
(*                                                                         *)
(* A request that is refused rotates the stored pair, stores the new one   *)
(* and is sent once more; whatever fails on the way logs the user out.     *)
(* Requests, the rotation and their answers travel independently.  Pairs   *)
(* are numbered in the order in which the server issues them; pair 0 is    *)
(* the empty storage of a client that is logged out.                       *)
(***************************************************************************)
EXTENDS Naturals, FiniteSets

CONSTANTS
    Providers,  \* tokenizer.provider: "jwt" (the default) and "opaque"
    Requests,   \* API requests that can be under way together
    Excluded,   \* those to a URL that interceptorRejected never retries
    Tails,      \* live-tail streams
    MaxSends,   \* bound: requests sent and stream errors
    MaxFaults   \* bound: rotations whose answer is lost or is an error

ASSUME SessionAssumption ==
    /\ Providers \subseteq {"jwt", "opaque"}
    /\ Excluded \subseteq Requests
    /\ Requests \intersect Tails = {} /\ IsFiniteSet(Requests) /\ IsFiniteSet(Tails)
    /\ MaxSends \in Nat /\ MaxFaults \in Nat

Actors == Requests \union Tails
None == 0
\* Every rotation follows a refused request, a stream error or a fault.
Pairs == 1..(MaxSends + MaxFaults + 1)

VARIABLES
    provider,  \* the tokenizer that is configured
    cur,     \* the pair that was issued last
    prev,    \* opaque: the pair before it in the row
    alive,   \* opaque: the row has not been deleted
    grace,   \* the last rotation is at most Rotation.Duration ago
    aged,    \* pairs older than Rotation.Interval
    dead,    \* pairs past the lifetime of the session
    store,   \* the pair in localStorage
    actor,   \* the requests and streams: position, and the pair they carry
    fetch,   \* the rotations under way, by QueryClient and query key
    bye,     \* the calls of Logout under way: how many, by stage and pair
    quit,    \* the user has asked to sign out
    failed,  \* a rotation was given up
    stale,   \* opaque: a pair that had been replaced was used (Replaced)
    sends, faults

server == <<provider, cur, prev, alive, grace, aged, dead>>
vars == <<provider, cur, prev, alive, grace, aged, dead, store, actor, fetch, bye, quit, failed,
          stale, sends, faults>>

------------------------------------------------------------------------------
(* The server.                                                               *)

\* GetIdentity: jwt looks at the token alone, opaque finds the row by its
\* current access token.
Authenticates(p) ==
    /\ p \in Pairs \ (aged \union dead)
    /\ provider = "opaque" => alive /\ p = cur

\* Token.Rotate for the pair before the last one: it is accepted only once the
\* last rotation is longer ago than Rotation.Duration.
AcceptsPrevious == ~grace

\* RotateToken, for the refresh token of pair p and the access token of pair acc,
\* which only opaque compares.  Of an opaque row the lifetime is not looked at when
\* the pair before the last one is presented.
IsPrevious(p) == provider = "opaque" /\ p = prev
Accepts(p, acc) ==
    /\ p # None /\ acc # None
    /\ provider = "opaque" => alive /\ p \in {cur, prev} /\ acc = p
    /\ IF IsPrevious(p) THEN AcceptsPrevious ELSE p \notin dead

\* A request without a refresh token is malformed.
Verdict(p, acc) ==
    IF Accepts(p, acc) THEN "granted" ELSE IF p = None THEN "failed" ELSE "refused"

\* The pair that an accepted rotation returns.
Rotated(p) == IF IsPrevious(p) THEN cur ELSE cur + 1

\* opaque: a later rotation has replaced pair p.  What is noted is that such a pair
\* was refused with a rotation or a second attempt, or that the client stored it.
Replaced(p) == provider = "opaque" /\ p \in 1..(cur - 1)

------------------------------------------------------------------------------
(* Logout: DELETE /sessions with the stored token, then the storage is       *)
(* cleared whatever the answer was.                                          *)

\* n calls of Logout while pair p is stored.
Logout(n, p) == bye' = [bye EXCEPT !["out"][p] = @ + n]

\* jwt: DeleteToken does nothing.
DeleteSession(p) ==
    /\ bye["out"][p] > 0
    /\ bye' = [bye EXCEPT !["out"][p] = @ - 1, !["back"][p] = @ + 1]
    /\ alive' = (alive /\ ~(provider = "opaque" /\ p = cur))
    /\ UNCHANGED <<provider, cur, prev, grace, aged, dead, store, actor, fetch, quit, failed, stale, sends, faults>>

LogoutEnds(p) ==
    /\ bye["back"][p] > 0
    /\ bye' = [bye EXCEPT !["back"][p] = @ - 1]
    /\ store' = None
    /\ UNCHANGED <<server, actor, fetch, quit, failed, stale, sends, faults>>

\* The sign-out button of the account settings.
UserLogout ==
    /\ ~quit /\ store # None
    /\ quit' = TRUE
    /\ Logout(1, store)
    /\ UNCHANGED <<server, store, actor, fetch, failed, stale, sends, faults>>

------------------------------------------------------------------------------
(* A request and interceptorRejected.                                        *)

Idle == [pc |-> "idle", pair |-> None]
Go(a, pc, p) == actor' = [actor EXCEPT ![a] = [pc |-> pc, pair |-> p]]

Send(r) ==
    /\ sends < MaxSends /\ store # None
    /\ actor[r].pc = "idle"
    /\ Go(r, "sent", store)
    /\ sends' = sends + 1
    /\ UNCHANGED <<server, store, fetch, bye, quit, failed, stale, faults>>

\* The server handles a request: any answer but 401 ends it.
Serve(r) ==
    /\ actor[r].pc = "sent"
    /\ IF Authenticates(actor[r].pair)
       THEN Go(r, "idle", None)
       ELSE Go(r, "401", actor[r].pair)
    /\ UNCHANGED <<server, store, fetch, bye, quit, failed, stale, sends, faults>>

\* A request to an excluded URL is rejected at once.
RejectExcluded(r) ==
    /\ actor[r].pc = "401" /\ r \in Excluded
    /\ Go(r, "idle", None)
    /\ UNCHANGED <<server, store, fetch, bye, quit, failed, stale, sends, faults>>

QueryClientOf(a) == IF a \in Tails THEN "app" ELSE "api"
NoFetch == [pc |-> "none", res |-> None, acc |-> None, again |-> 0]
Asked(n) == [pc |-> "asked", res |-> None, acc |-> store, again |-> n]
Answered(f, pc, p) == [f EXCEPT !.pc = pc, !.res = p]

\* Mutant: a rotation under way is not shared, the request is posted again.
fetchAgain(c, p) == fetch' = [fetch EXCEPT ![c][p] = Asked(0)]

\* fetchQuery: a call with the key of a fetch under way joins it.
fetchQuery(c, p) ==
    fetch' = IF fetch[c][p].pc = "none" THEN [fetch EXCEPT ![c][p] = Asked(0)] ELSE fetch

\* The pair is read from the storage when the 401 arrives.
Reject(r) ==
    /\ actor[r].pc = "401" /\ r \notin Excluded
    /\ Go(r, "waiting", store)
    /\ fetchQuery("api", store)
    /\ UNCHANGED <<server, store, bye, quit, failed, stale, sends, faults>>

\* handleErrorConnection: a stream fails for whatever reason.
StreamError(t) ==
    /\ sends < MaxSends
    /\ actor[t].pc = "idle"
    /\ Go(t, "waiting", store)
    /\ fetchQuery("app", store)
    /\ sends' = sends + 1
    /\ UNCHANGED <<server, store, bye, quit, failed, stale, faults>>

\* POST /sessions/rotate arrives.
Rotate(c, p) ==
    /\ fetch[c][p].pc = "asked"
    /\ fetch' = [fetch EXCEPT ![c][p] = Answered(@, Verdict(p, @.acc), IF Accepts(p, @.acc) THEN Rotated(p) ELSE None)]
    /\ IF Accepts(p, fetch[c][p].acc) /\ ~IsPrevious(p)
       THEN cur' = cur + 1 /\ prev' = cur /\ grace' = TRUE
       ELSE UNCHANGED <<cur, prev, grace>>
    /\ stale' = (stale \/ (Replaced(p) /\ ~Accepts(p, fetch[c][p].acc)))
    /\ UNCHANGED <<provider, alive, aged, dead, store, actor, bye, quit, failed, sends, faults>>

\* The request or its answer is lost, or the server answers with another error.
RotateFault(c, p) ==
    /\ fetch[c][p].pc \notin {"none", "failed"}
    /\ faults < MaxFaults
    /\ faults' = faults + 1
    /\ fetch' = [fetch EXCEPT ![c][p] = Answered(@, "failed", None)]
    /\ UNCHANGED <<server, store, actor, bye, quit, failed, stale, sends>>

\* The QueryClient of the application tries twice more unless the answer is a 4xx:
\* the refresh token is the one that was read first, the access token is read anew.
Again(c, p) == c = "app" /\ p # None /\ fetch[c][p].pc = "failed" /\ fetch[c][p].again < 2

RotateAgain(c, p) ==
    /\ Again(c, p)
    /\ fetch' = [fetch EXCEPT ![c][p] = Asked(@.again + 1)]
    /\ UNCHANGED <<server, store, actor, bye, quit, failed, stale, sends, faults>>

Waiting(c, p) ==
    {a \in Actors : QueryClientOf(a) = c /\ actor[a] = [pc |-> "waiting", pair |-> p]}

\* Mutant: the second attempt carries the old token.
RetriedOld(c, p, q) ==
    [a \in Actors |-> IF a \notin Waiting(c, p) THEN actor[a]
                      ELSE IF a \in Tails THEN Idle ELSE [pc |-> "retried", pair |-> p]]

\* What those who wait for a rotation do with the new pair: requests are sent
\* again, streams are opened again.
Retried(c, p, q) ==
    [a \in Actors |-> IF a \notin Waiting(c, p) THEN actor[a]
                      ELSE IF a \in Tails THEN Idle ELSE [pc |-> "retried", pair |-> q]]

\* afterLogin, and the second attempt of every request that waited.
RotationArrives(c, p) ==
    /\ fetch[c][p].pc = "granted"
    /\ store' = fetch[c][p].res
    /\ actor' = Retried(c, p, fetch[c][p].res)
    /\ fetch' = [fetch EXCEPT ![c][p] = NoFetch]
    /\ stale' = (stale \/ Replaced(fetch[c][p].res))
    /\ UNCHANGED <<server, bye, quit, failed, sends, faults>>

\* Mutant: those who waited are not told.
RotationFailsSilently(c, p) ==
    /\ fetch[c][p].pc \in {"refused", "failed"} /\ ~Again(c, p)
    /\ Logout(1, store)
    /\ fetch' = [fetch EXCEPT ![c][p] = NoFetch]
    /\ UNCHANGED <<server, store, actor, quit, failed, stale, sends, faults>>

\* Everyone who waited logs out, and the interceptor of the rotation itself too
\* when the answer is a 401.
RotationFails(c, p) ==
    /\ fetch[c][p].pc \in {"refused", "failed"} /\ ~Again(c, p)
    /\ Logout(Cardinality(Waiting(c, p)) + (IF fetch[c][p].pc = "refused" THEN 1 ELSE 0), store)
    /\ actor' = [a \in Actors |-> IF a \in Waiting(c, p) THEN Idle ELSE actor[a]]
    /\ fetch' = [fetch EXCEPT ![c][p] = NoFetch]
    /\ failed' = (failed \/ fetch[c][p].pc = "failed")
    /\ UNCHANGED <<server, store, quit, stale, sends, faults>>

\* The second attempt; its 401 logs out.
ServeRetry(r) ==
    /\ actor[r].pc = "retried"
    /\ Go(r, IF Authenticates(actor[r].pair) THEN "idle" ELSE "rejected", actor[r].pair)
    /\ stale' = (stale \/ (Replaced(actor[r].pair) /\ ~Authenticates(actor[r].pair)))
    /\ UNCHANGED <<server, store, fetch, bye, quit, failed, sends, faults>>

RetryFails(r) ==
    /\ actor[r].pc = "rejected"
    /\ Go(r, "idle", None)
    /\ Logout(1, store)
    /\ UNCHANGED <<server, store, fetch, quit, failed, stale, sends, faults>>

------------------------------------------------------------------------------
(* Time.  Rotation.Duration < Rotation.Interval < Lifetime, by Validate.  A  *)
(* call takes less than Rotation.Interval, and a new pair reaches the client *)
(* and comes back with the second attempt within that time too.              *)

\* Pair p will be the answer to a call, or is on its way to the client or back with
\* a second attempt.
Travels(p) ==
    \/ \E c \in DOMAIN fetch : p = cur /\ fetch[c][prev].pc = "asked"
    \/ \E c \in DOMAIN fetch, q \in Pairs : fetch[c][q].res = p
    \/ \E r \in Requests : actor[r] = [pc |-> "retried", pair |-> p]

GraceEnds ==
    /\ grace
    /\ grace' = FALSE
    /\ UNCHANGED <<provider, cur, prev, alive, aged, dead, store, actor, fetch, bye, quit, failed, stale, sends, faults>>

Age(p) ==
    /\ p \in 1..cur /\ p \notin aged
    /\ p = cur => ~grace
    /\ ~Travels(p)
    /\ aged' = aged \union {p}
    /\ UNCHANGED <<provider, cur, prev, alive, grace, dead, store, actor, fetch, bye, quit, failed, stale, sends, faults>>

\* jwt: the refresh token of a pair has its own lifetime; opaque: the row has one.
Expire(p) ==
    /\ p \in aged \ dead
    /\ dead' = IF provider = "jwt" THEN dead \union {p} ELSE Pairs
    /\ UNCHANGED <<provider, cur, prev, alive, grace, aged, store, actor, fetch, bye, quit, failed, stale, sends, faults>>

Clients == {"api", "app"}
Init ==
    /\ provider \in Providers
    /\ cur = 1 /\ prev = None /\ alive = TRUE /\ grace = FALSE /\ aged = {} /\ dead = {}
    /\ store = 1
    /\ actor = [a \in Actors |-> Idle]
    /\ fetch = [c \in Clients |-> [p \in {None} \union Pairs |-> NoFetch]]
    /\ bye = [s \in {"out", "back"} |-> [p \in {None} \union Pairs |-> 0]]
    /\ quit = FALSE /\ failed = FALSE /\ stale = FALSE /\ sends = 0 /\ faults = 0

RequestStep(r) ==
    Serve(r) \/ RejectExcluded(r) \/ Reject(r) \/ ServeRetry(r) \/ RetryFails(r)

RotationStep(c, p) ==
    Rotate(c, p) \/ RotateAgain(c, p) \/ RotationArrives(c, p) \/ RotationFails(c, p)

LogoutStep(p) == DeleteSession(p) \/ LogoutEnds(p)

Next ==
    \/ UserLogout
    \/ \E r \in Requests : Send(r) \/ RequestStep(r)
    \/ \E t \in Tails : StreamError(t)
    \/ \E c \in Clients, p \in {None} \union Pairs : RotationStep(c, p) \/ RotateFault(c, p)
    \/ \E p \in {None} \union Pairs : LogoutStep(p)
    \/ GraceEnds
    \/ \E p \in Pairs : Age(p) \/ Expire(p)

\* What was sent is answered or fails.
Spec ==
    /\ Init /\ [][Next]_vars
    /\ \A r \in Requests : WF_vars(RequestStep(r))
    /\ \A c \in Clients, p \in {None} \union Pairs : WF_vars(RotationStep(c, p))
    /\ \A p \in {None} \union Pairs : WF_vars(LogoutStep(p))

------------------------------------------------------------------------------
Leaving == \E s \in DOMAIN bye, p \in {None} \union Pairs : bye[s][p] > 0

TypeOK ==
    /\ provider \in Providers
    /\ cur \in Pairs /\ prev \in {None} \union Pairs
    /\ alive \in BOOLEAN /\ grace \in BOOLEAN
    /\ aged \subseteq 1..cur /\ dead \subseteq Pairs
    /\ store \in 0..cur
    /\ actor \in [Actors -> [pc : {"idle", "sent", "401", "waiting", "retried", "rejected"},
                             pair : {None} \union Pairs]]
    /\ fetch \in [Clients -> [{None} \union Pairs ->
                   [pc : {"none", "asked", "granted", "refused", "failed"}, res : {None} \union Pairs,
                    acc : {None} \union Pairs, again : 0..2]]]
    /\ bye \in [{"out", "back"} -> [{None} \union Pairs -> Nat]]
    /\ {quit, failed, stale} \subseteq BOOLEAN /\ sends \in 0..MaxSends /\ faults \in 0..MaxFaults

\* With the default tokenizer nobody is logged out within the lifetime of the session
\* unless the user asked for it or a rotation was given up: neither requests that are
\* refused together, nor a live tail that rotates beside them, nor answers that arrive
\* late or are lost on the way end a session (interceptorRejected).
NoSpuriousLogout ==
    provider = "jwt" /\ (Leaving \/ store = None) => dead # {} \/ quit \/ failed

\* With the opaque tokenizer there are two more causes, and no other: a pair that a
\* later rotation had replaced was refused or stored, or the answer to a rotation was
\* lost.  The first is there because PreviousPairIsHonoured does not hold.
LogoutHasACause ==
    Leaving \/ store = None =>
        dead # {} \/ quit \/ failed \/ (provider = "opaque" /\ (stale \/ faults > 0))

\* What the documentation promises of the opaque tokenizer: "The duration for which the
\* previous token pair remains valid after a token pair is rotated" (RotationConfig),
\* "If the token has been rotated within the rotation duration, do nothing and return
\* the same token" (Token.Rotate).  A rotation that presents the pair before the last
\* one within that duration is granted.
PreviousPairIsHonoured ==
    [][\A c \in Clients, p \in Pairs :
         IsPrevious(p) /\ alive /\ grace /\ fetch[c][p].pc = "asked" /\ fetch[c][p].acc = p
            => fetch'[c][p].pc # "refused"]_vars

\* opaque: the storage holds the pair the server honours, or the answer that carries
\* it, its failure or one more attempt is on its way, or the session is being left:
\* only an answer that arrives after a later rotation puts an older pair there.
StoredIsCurrent ==
    provider = "opaque" /\ alive /\ store # None =>
        \/ store = cur
        \/ \E c \in Clients, p \in Pairs :
              fetch[c][p].res = cur \/ fetch[c][p].pc = "failed" \/ fetch[c][p].again > 0
        \/ Leaving \/ stale

\* Whoever waits for a rotation waits for one that is under way.
WaitersAreServed ==
    \A a \in Actors : actor[a].pc = "waiting" =>
        fetch[QueryClientOf(a)][actor[a].pair].pc # "none"

\* The rotations under way are those that the storage and the waiting requests need.
SessionInv == TypeOK /\ StoredIsCurrent /\ WaitersAreServed

\* Every request comes to an end.
RequestsEnd == \A r \in Requests : actor[r].pc # "idle" ~> actor[r].pc = "idle"

\* Once a logout has begun the storage is cleared.
LogoutClears == Leaving ~> store = None

\* Requests and logouts come to an end, whatever is refused, fails or is answered late.
SessionProgress == RequestsEnd /\ LogoutClears
=============================================================================
