--------------------------- MODULE VariableFetch ---------------------------
(***************************************************************************)
(* How the variables of an open dashboard fetch their options:             *)
(*   frontend/.../providers/Dashboard/store/variableFetchStore.ts          *)
(*   frontend/.../providers/Dashboard/store/variableFetchStoreUtils.ts     *)
(*   frontend/.../DashboardVariablesSelection/DashboardVariableSelection.tsx*)
(*   frontend/.../DashboardVariablesSelection/QueryVariableInput.tsx       *)
(*   frontend/.../DashboardVariablesSelection/DynamicVariableInput.tsx     *)
(*                                                                         *)
(* A QUERY variable reads the values of the variables its text mentions, a *)
(* DYNAMIC one those of the other dynamic ones; both fetch options from    *)
(* the server and may change their own value with the answer.  All other   *)
(* types fetch nothing.  An action of the store, the store updates it      *)
(* makes and the synchronous re-render are one step; an answer is another. *)
(* The counter cycleIds is part of the key of a request: bumping it makes  *)
(* the request under way, or its answer, count no more.                    *)
(***************************************************************************)
EXTENDS Naturals, Sequences

CONSTANTS
    Names,      \* the names of variables
    Values,     \* the values a variable can have selected
    NoValue,    \* nothing selected
    Boards,     \* the variable lists the dashboard can be saved with
    Layout,     \* what the store derives from each of them: see IsLayout
    MaxMoves    \* bound: what the user does, value changes, refreshes, edits

Types == {"QUERY", "DYNAMIC", "OTHER"}

Vars(b) == Layout[b].vars
Type(b, v) == Layout[b].type[v]
Kids(b, v) == Layout[b].kids[v]
Desc(b, v) == Layout[b].desc[v]

Queries(b) == {v \in Vars(b) : Type(b, v) = "QUERY"}
Dynamics(b) == {v \in Vars(b) : Type(b, v) = "DYNAMIC"}
Parents(b, v) == {p \in Vars(b) : v \in Kids(b, p)}
Descendants(b, v) == {Desc(b, v)[i] : i \in DOMAIN Desc(b, v)}

\* The effect that starts a fetch cycle depends on this key (and the time range).
variableOrderKey(b) == <<Layout[b].order, Layout[b].dyn>>

(***************************************************************************)
(* The layout of a board is what computeDerivedValues makes of a list of   *)
(* variables without a cycle: names, types, the dependency graph (kids),   *)
(* transitiveDescendants (desc, in insertion order), the order of the      *)
(* query variables, parents first, and the dynamic variables as displayed. *)
(***************************************************************************)
IsLayout(b) ==
    /\ Vars(b) \subseteq Names
    /\ \A v \in Names :
          /\ Type(b, v) \in Types
          /\ Kids(b, v) \subseteq Queries(b)
          /\ Desc(b, v) \in Seq(Queries(b))
          /\ Kids(b, v) \subseteq Descendants(b, v)
          /\ Kids(b, v) = {} => Desc(b, v) = <<>>
          /\ v \notin Descendants(b, v)
          /\ \A d \in Descendants(b, v) : Kids(b, d) \subseteq Descendants(b, v)
    /\ Layout[b].order \in Seq(Queries(b))
    /\ \A q \in Queries(b) : \E i \in DOMAIN Layout[b].order : Layout[b].order[i] = q
    /\ \A i, j \in DOMAIN Layout[b].order :
          Layout[b].order[j] \in Kids(b, Layout[b].order[i]) => i < j

ASSUME BoardAssumption ==
    /\ NoValue \in Values
    /\ MaxMoves \in Nat
    /\ Boards # {}
    /\ \A b \in Boards : IsLayout(b)

VARIABLES
    board,     \* the variables of the dashboard, with what is derived from them
    states,    \* the fetch state of each variable, "none" if the store has no entry
    fetched,   \* lastUpdated > 0: the variables that completed a fetch
    val,       \* selectedValue
    req,       \* the request under the current key of a variable
    used,      \* the values that request was sent with
    message,   \* the variables that show an error message with a retry button
    moves      \* what the user has done so far

store == <<states, fetched>>
vars == <<board, states, fetched, val, req, used, message, moves>>

Active == {"loading", "revalidating"}
isSettled(state) == state \in {"idle", "error"}

\* The values a fetch of v depends on.
Inputs(b, v) == IF Type(b, v) = "QUERY" THEN Parents(b, v) ELSE Dynamics(b) \ {v}
Snapshot(v) == [p \in Names |-> IF p \in Inputs(board, v) THEN val[p] ELSE NoValue]

------------------------------------------------------------------------------
(* The store.  st is a value of states, f one of fetched.                    *)

resolveFetchState(f, v) == IF v \in f THEN "revalidating" ELSE "loading"

areAllQueryVariablesSettled(b, st) == \A q \in Queries(b) : isSettled(st[q])

unlockWaitingDynamicVariables(b, st, f) ==
    [v \in Names |-> IF v \in Dynamics(b) /\ st[v] = "waiting"
                     THEN resolveFetchState(f, v) ELSE st[v]]

\* Mutant: the dynamic variables are not looked at when a fetch ends.
UnlockNever(b, n, st, f) == st

\* The end of onVariableFetchComplete and of onVariableFetchFailure.
UnlockIfSettled(b, n, st, f) ==
    IF Type(b, n) = "QUERY" /\ areAllQueryVariablesSettled(b, st)
    THEN unlockWaitingDynamicVariables(b, st, f) ELSE st

initializeStates(b, st) ==
    [v \in Names |-> IF v \notin Vars(b) THEN "none"
                     ELSE IF st[v] = "none" THEN "idle" ELSE st[v]]

doAllQueryVariablesHaveValuesSelected(b, vl) == \A q \in Queries(b) : vl[q] # NoValue

enqueueFetchOfAllVariables(b, st, f, vl) ==
    [v \in Names |->
        IF v \in Queries(b)
        THEN IF Parents(b, v) \intersect Queries(b) # {}
             THEN "waiting" ELSE resolveFetchState(f, v)
        ELSE IF v \in Dynamics(b)
        THEN IF doAllQueryVariablesHaveValuesSelected(b, vl)
             THEN resolveFetchState(f, v) ELSE "waiting"
        ELSE st[v]]

\* Mutant: a fetch that completes leaves the children waiting.
UnblockNone(b, n, st, f) == st

\* The waiting query children of a variable that completed start, whatever
\* their other parents do.
UnblockKids(b, n, st, f) ==
    [v \in Names |-> IF v \in Kids(b, n) /\ st[v] = "waiting"
                     THEN resolveFetchState(f, v) ELSE st[v]]

onVariableFetchComplete(b, n, st, f) ==
    UnlockIfSettled(b, n, UnblockKids(b, n, [st EXCEPT ![n] = "idle"], f), f)

onVariableFetchFailure(b, n, st, f) ==
    LET failed == [v \in Names |-> IF v = n THEN "error"
                                   ELSE IF v \in Descendants(b, n) THEN "idle" ELSE st[v]]
    IN  UnlockIfSettled(b, n, failed, f)

\* The descendants of n are visited in the order of desc: one that comes before
\* d has already left its settled state when d looks at its parents.
VisitedBefore(b, n, p, d) ==
    \E i, j \in DOMAIN Desc(b, n) : i < j /\ Desc(b, n)[i] = p /\ Desc(b, n)[j] = d

EnqueueQueryDescendants(b, n, st, f) ==
    [v \in Names |->
        IF v \notin Descendants(b, n) THEN st[v]
        ELSE IF \A p \in Parents(b, v) : isSettled(st[p]) /\ ~VisitedBefore(b, n, p, v)
        THEN resolveFetchState(f, v) ELSE "waiting"]

enqueueDescendantsOfVariable(b, n, st, f) ==
    LET queued == EnqueueQueryDescendants(b, n, st, f)
    IN  [v \in Names |->
            IF v \notin Dynamics(b) THEN queued[v]
            ELSE IF areAllQueryVariablesSettled(b, queued)
            THEN resolveFetchState(f, v) ELSE "waiting"]

\* Mutant: the requests of the query descendants keep their key.
BumpDynamics(b, n) == Dynamics(b)

\* The variables whose cycle the two enqueue actions bump.
BumpedBy(b, n) == Descendants(b, n) \union Dynamics(b)

Fetchable(b) == Queries(b) \union Dynamics(b)

\* A request under an old key counts no more; r is what the others become.
Blank == [p \in Names |-> NoValue]
Bump(S, r) ==
    /\ req' = [v \in Names |-> IF v \in S THEN "none" ELSE r[v]]
    /\ used' = [v \in Names |-> IF v \in S THEN Blank ELSE used[v]]

------------------------------------------------------------------------------
(* The components.                                                           *)

\* onValueUpdate: the value is stored before the descendants are enqueued.
onValueUpdate(n, x) ==
    /\ val' = [val EXCEPT ![n] = x]
    /\ states' = enqueueDescendantsOfVariable(board, n, states, fetched)

\* The user selects another value.
UserChanges(n, x) ==
    /\ moves < MaxMoves
    /\ n \in Vars(board)
    /\ x # val[n]
    /\ onValueUpdate(n, x)
    /\ Bump(BumpedBy(board, n), req)
    /\ moves' = moves + 1
    /\ UNCHANGED <<board, fetched, message>>

\* The effect on variableOrderKey, minTime and maxTime.  A new time range is in
\* every key, so that no request survives it.
StartCycle(b, vl) ==
    /\ fetched' = fetched \intersect Vars(b)
    /\ states' = enqueueFetchOfAllVariables(b, initializeStates(b, states), fetched', vl)
    /\ Bump(Names, req)

Refresh ==
    /\ moves < MaxMoves
    /\ StartCycle(board, val)
    /\ moves' = moves + 1
    /\ UNCHANGED <<board, val, message>>

\* The variables that keep their component, and with it request and message.
Kept(b) == {v \in Vars(b) \intersect Vars(board) : Type(b, v) = Type(board, v)}

\* The dashboard is saved with other variables; the effect runs only when the
\* order key changed.  A variable that is new comes with some value.
EditDashboard(b) ==
    /\ moves < MaxMoves
    /\ b # board
    /\ board' = b
    /\ \E x \in Values :
          val' = [v \in Names |-> IF v \notin Vars(b) THEN NoValue
                                  ELSE IF v \in Vars(board) THEN val[v] ELSE x]
    /\ IF variableOrderKey(b) # variableOrderKey(board)
       THEN StartCycle(b, val')
       ELSE Bump(Names \ Kept(b), req) /\ UNCHANGED store
    /\ message' = message \intersect Kept(b)
    /\ moves' = moves + 1

\* useQuery fetches when the variable is active, or idle after a first fetch.
\* A request already answered is sent again when the variable becomes active.
FetchStart(v) ==
    /\ v \in Fetchable(board)
    /\ \/ states[v] \in Active /\ req[v] # "inflight"
       \/ states[v] = "idle" /\ v \in fetched /\ req[v] = "none"
    /\ req' = [req EXCEPT ![v] = "inflight"]
    /\ used' = [used EXCEPT ![v] = Snapshot(v)]
    /\ UNCHANGED <<board, states, fetched, val, message, moves>>

\* settleVariableFetch(v, "complete") from the states st: only an active one settles.
SettleComplete(v, st) ==
    IF st[v] \in Active
    THEN /\ states' = onVariableFetchComplete(board, v, st, fetched)
         /\ fetched' = fetched \union {v}
    ELSE /\ states' = st
         /\ UNCHANGED fetched

\* The error message goes with the next options of a query variable.  A dynamic one
\* keeps it until the retry button is used.
ClearMessage(v) == message' = IF v \in Queries(board) THEN message \ {v} ELSE message

\* The answer holds nothing that changes the value (the same options as before,
\* no options at all, or a dynamic variable with a value).
FetchKeepsValue(v) ==
    /\ req[v] = "inflight"
    /\ SettleComplete(v, states)
    /\ req' = [req EXCEPT ![v] = "done"]
    /\ ClearMessage(v)
    /\ UNCHANGED <<board, val, used, moves>>

\* New options: a query variable confirms its value, takes a default or all the
\* new options; a dynamic one takes a default when it has no value.  All of it
\* is an onValueUpdate before the fetch settles.
FetchSetsValue(v, x) ==
    /\ req[v] = "inflight"
    /\ v \in Dynamics(board) => val[v] = NoValue /\ x # NoValue
    /\ val' = [val EXCEPT ![v] = x]
    /\ SettleComplete(v, enqueueDescendantsOfVariable(board, v, states, fetched))
    /\ Bump(BumpedBy(board, v), [req EXCEPT ![v] = "done"])
    /\ ClearMessage(v)
    /\ UNCHANGED <<board, moves>>

\* settleVariableFetch(v, "failure")
FetchFails(v) ==
    /\ req[v] = "inflight"
    /\ states' = IF states[v] \in Active
                 THEN onVariableFetchFailure(board, v, states, fetched) ELSE states
    /\ req' = [req EXCEPT ![v] = "done"]
    /\ message' = message \union {v}
    /\ UNCHANGED <<board, fetched, val, used, moves>>

\* handleRetry: refetch sends a request in any state, waiting included.
Retry(v) ==
    /\ moves < MaxMoves
    /\ v \in message
    /\ message' = message \ {v}
    /\ req' = [req EXCEPT ![v] = "inflight"]
    /\ used' = [used EXCEPT ![v] = IF req[v] = "inflight" THEN @ ELSE Snapshot(v)]
    /\ moves' = moves + 1
    /\ UNCHANGED <<board, states, fetched, val>>

Answer(v) == FetchKeepsValue(v) \/ (\E x \in Values : FetchSetsValue(v, x)) \/ FetchFails(v)

Init ==
    /\ board \in Boards
    /\ val \in {vl \in [Names -> Values] : \A v \in Names \ Vars(board) : vl[v] = NoValue}
    /\ fetched = {}
    /\ states = enqueueFetchOfAllVariables(
                    board, initializeStates(board, [v \in Names |-> "none"]), {}, val)
    /\ req = [v \in Names |-> "none"]
    /\ used = [v \in Names |-> Blank]
    /\ message = {}
    /\ moves = 0

Next ==
    \/ \E n \in Names, x \in Values : UserChanges(n, x)
    \/ Refresh
    \/ \E b \in Boards : EditDashboard(b)
    \/ \E v \in Names : FetchStart(v) \/ Answer(v) \/ Retry(v)

\* A mounted variable sends its request, and a request is answered or fails.
Fairness == \A v \in Names : WF_vars(FetchStart(v)) /\ WF_vars(Answer(v))

Spec == Init /\ [][Next]_vars /\ Fairness

------------------------------------------------------------------------------
(* Conditions that some of the properties need.                              *)

\* Some query of the dashboard mentions a dynamic variable.
MentionsDynamic(b) == \E d \in Dynamics(b) : Kids(b, d) # {}

\* The dashboard is edited and its order key stays: no fetch cycle starts, the
\* store keeps its entries and a new variable gets none.
SilentEdit == board' # board /\ variableOrderKey(board') = variableOrderKey(board)

(* Properties.                                                               *)

TypeOK ==
    /\ board \in Boards
    /\ states \in [Names -> {"none", "idle", "loading", "revalidating", "waiting", "error"}]
    /\ \A v \in Vars(board) : states[v] # "none"
    /\ fetched \subseteq Names
    /\ val \in [Names -> Values]
    /\ req \in [Names -> {"none", "inflight", "done"}]
    /\ \A v \in Names : req[v] # "none" => v \in Fetchable(board)
    /\ used \in [Names -> [Names -> Values]]
    /\ message \subseteq Fetchable(board)
    /\ moves \in 0..MaxMoves

\* A query variable waits only while a variable it mentions, of whatever type, is
\* still to settle, so that onVariableFetchComplete or onVariableFetchFailure of
\* that one releases it.
WaitingQueryHasUnsettledParent ==
    \A v \in Queries(board) : states[v] = "waiting" =>
        \E p \in Parents(board, v) : ~isSettled(states[p])

\* A dynamic variable waits only while some query variable is still to settle,
\* unless a query mentions a dynamic variable: the failure of that one settles the
\* queries below it, and nobody looks at the other dynamic variables.
WaitingDynamicHasUnsettledQuery ==
    \A v \in Dynamics(board) : states[v] = "waiting" =>
        ~areAllQueryVariablesSettled(board, states) \/ MentionsDynamic(board)

\* A dynamic variable fetches only when the query variables have settled or all
\* of them have values.
DynamicsFetchLast ==
    \A v \in Dynamics(board) : states[v] \in Active =>
        \/ areAllQueryVariablesSettled(board, states)
        \/ doAllQueryVariablesHaveValuesSelected(board, val)

\* Nobody waits when all it waits for has settled, and the dynamic variables do not
\* fetch before their time.  (A query variable starts with the first of its parents
\* that completes, not with the last: UnblockKids.)
FetchInv ==
    /\ TypeOK
    /\ WaitingQueryHasUnsettledParent
    /\ WaitingDynamicHasUnsettledQuery
    /\ DynamicsFetchLast

\* The request under the current key of a variable, answered or not, was sent with
\* the values that the variables have now: a late answer to one sent with older
\* values is dropped.  Older options stay on display until the new ones are there.
NoStaleOptions ==
    \A v \in Names : req[v] # "none" => used[v] = Snapshot(v)

\* No variable waits or loads for ever: each one settles once the user stops.  On a
\* dashboard with a query that mentions a dynamic variable the two can wait for each
\* other (enqueueDescendantsOfVariable), and nothing is promised.
EveryFetchSettles ==
    \A v \in Names : states[v] \in Active \union {"waiting"}
                        ~> states[v] \notin Active \union {"waiting"} \/ MentionsDynamic(board)
=============================================================================
