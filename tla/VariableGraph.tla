--------------------------- MODULE VariableGraph ---------------------------
(***************************************************************************)
(* The graph of the references between the variables of a dashboard:       *)
(*   frontend/.../DashboardVariablesSelection/util.ts                      *)
(*   frontend/.../store/dashboardVariables/dashboardVariablesStoreUtils.ts *)
(*                                                                         *)
(* A variable is a record of its name, its type and refs, the names its    *)
(* query text mentions.  The text itself is left out:                      *)
(* textContainsVariableReference is membership in refs, and a name may be  *)
(* mentioned before it exists.  A list of variables is in display order,   *)
(* which is also the order of Object.values on the stored record.          *)
(***************************************************************************)
EXTENDS Naturals, Sequences, FiniteSets, SequencesExt

NamesIn(list) == {list[i].name : i \in DOMAIN list}

\* Lists with one variable of a name.  The settings page does not keep to them.
UniqueNames(list) == \A i, j \in DOMAIN list : list[i].name = list[j].name => i = j

\* The elements of s at the positions in I, in their order: Array.filter.  It is
\* written without recursion, for the proofs.
Nth(I, k) == CHOOSE i \in I : Cardinality({j \in I : j <= i}) = k
PickAt(s, I) == [k \in 1..Cardinality(I) |-> s[Nth(I, k)]]

\* A JavaScript Set, or the keys of an object: what is inserted again keeps its place.
Unique(s) == PickAt(s, {i \in DOMAIN s : \A j \in 1..(i - 1) : s[j] # s[i]})

------------------------------------------------------------------------------
(* The graph: for each name, the QUERY variables that mention it.            *)

\* The keys of the graph object, in the order they are first inserted.
Keys(list) == Unique([i \in DOMAIN list |-> list[i].name])

\* getDependentVariablesBasedOnVariableName
DependentsOf(name, list) ==
    LET found == PickAt(list, {i \in DOMAIN list : list[i].type = "QUERY" /\ name \in list[i].refs})
    IN  [k \in DOMAIN found |-> found[k].name]

buildDependencies(list) == [n \in NamesIn(list) |-> DependentsOf(n, list)]

buildParentDependencyGraph(list) ==
    LET graph == buildDependencies(list)
    IN  [n \in NamesIn(list) |-> {p \in NamesIn(list) : Contains(graph[p], n)}]

\* Mutant: a parent that mentions a variable twice counts once.
InDegreesOnce(graph) ==
    [n \in DOMAIN graph |-> Cardinality({p \in DOMAIN graph : Contains(graph[p], n)})]

(* Kahn's algorithm.  st is the state of the loop: the queue, the in-degrees *)
(* that are left and the order found so far.                                 *)
InDegrees(graph) ==
    LET Entries(n) == UNION {{p} \X {i \in DOMAIN graph[p] : graph[p][i] = n} :
                                 p \in DOMAIN graph}
    IN  [n \in DOMAIN graph |-> Cardinality(Entries(n))]

\* One round of the while loop.  Each occurrence of a neighbor in the list takes
\* one off its in-degree, and the one that takes the last enqueues it.
Shift(graph, st) ==
    LET current == Head(st.queue)
        nbs == graph[current]
        freed == {i \in DOMAIN nbs :
                     st.inDegree[nbs[i]] = Cardinality({j \in 1..i : nbs[j] = nbs[i]})}
    IN  [queue    |-> Tail(st.queue) \o PickAt(nbs, freed),
         inDegree |-> [n \in DOMAIN graph |->
                          st.inDegree[n] - Cardinality({j \in DOMAIN nbs : nbs[j] = n})],
         order    |-> Append(st.order, current)]

Round(graph, st) == IF st.queue = <<>> THEN st ELSE Shift(graph, st)

KahnStart(list) ==
    LET keys == Keys(list)
        inDegree == InDegrees(buildDependencies(list))
    IN  [queue    |-> PickAt(keys, {i \in DOMAIN keys : inDegree[keys[i]] = 0}),
         inDegree |-> inDegree,
         order    |-> <<>>]

\* The state of the loop after each round; every key is enqueued at most once.
Kahn(list) ==
    LET rounds[k \in 0..Cardinality(NamesIn(list))] ==
            IF k = 0 THEN KahnStart(list) ELSE Round(buildDependencies(list), rounds[k - 1])
    IN  rounds

topologicalOrder(list) == Kahn(list)[Cardinality(NamesIn(list))].order

\* The outcome of the search for the cycle that an error message names (module
\* VariableCycle) has a kind: "none", no cycle found; "path", the nodes collected;
\* "hang", the walk back to the start never ends.
NoCycle == [kind |-> "none", nodes |-> <<>>]

hasCycle(list) == Len(topologicalOrder(list)) # Len(Keys(list))

\* The descendants of one node, from those of the nodes after it in the order.
Descend(graph, td, node) ==
    LET kids == graph[node]
        added[i \in 0..Len(kids)] ==
            IF i = 0 THEN <<>> ELSE added[i - 1] \o <<kids[i]>> \o td[kids[i]]
    IN  [td EXCEPT ![node] = Unique(added[Len(kids)])]

\* The order is walked from its end.
transitiveDescendants(list) ==
    LET graph == buildDependencies(list)
        order == topologicalOrder(list)
        walk[k \in 0..Len(order)] ==
            IF k = 0 THEN [n \in NamesIn(list) |-> <<>>]
            ELSE Descend(graph, walk[k - 1], order[Len(order) + 1 - k])
    IN  walk[Len(order)]

\* The type of a name is that of the first variable that has it (find).
QueryNames(list) ==
    {list[i].name : i \in {j \in DOMAIN list :
        list[j].type = "QUERY" /\ \A k \in 1..(j - 1) : list[k].name # list[j].name}}

\* Mutant: the query variables in display order.
QueryOrderAsListed(list) ==
    PickAt(Keys(list), {i \in DOMAIN Keys(list) : Keys(list)[i] \in QueryNames(list)})

\* buildDependencyData: the order keeps the QUERY variables only.
QueryOrder(list) ==
    LET order == topologicalOrder(list)
    IN  PickAt(order, {i \in DOMAIN order : order[i] \in QueryNames(list)})

\* computeDerivedValues: what the store derives from the list of variables.  The
\* functions are total on names, empty for a name the list does not have.  In the
\* map of types the last variable of a name wins.
computeDerivedValues(list, names) ==
    LET here == NamesIn(list)
        At(n) == list[CHOOSE i \in DOMAIN list :
                          list[i].name = n /\ \A j \in DOMAIN list : list[j].name = n => j <= i]
        dynamics == SelectSeq(list, LAMBDA v : v.type = "DYNAMIC")
    IN  [vars  |-> here,
         type  |-> [n \in names |-> IF n \in here THEN At(n).type ELSE "OTHER"],
         kids  |-> [n \in names |-> IF n \in here THEN ToSet(buildDependencies(list)[n]) ELSE {}],
         desc  |-> [n \in names |-> IF n \in here THEN transitiveDescendants(list)[n] ELSE <<>>],
         order |-> QueryOrder(list),
         dyn   |-> [i \in DOMAIN dynamics |-> dynamics[i].name]]

------------------------------------------------------------------------------
(* The reference: circular references, without any of the code's algorithms. *)

Mentions(list, m, n) == \E i \in DOMAIN list : list[i].name = n /\ m \in list[i].refs

\* Names each of which mentions one of them.
MutualReferences(list) ==
    {C \in SUBSET NamesIn(list) : \A n \in C : \E m \in C : Mentions(list, m, n)}

IsCyclic(list) == \E C \in MutualReferences(list) : C # {}

\* The names on a cycle, and those that depend on one.
Stuck(list) == UNION MutualReferences(list)

\* The names that depend on n, directly or through others: the smallest set with
\* those that mention n and whatever mentions one of the set.
Below(list, n) ==
    LET S == NamesIn(list)
        Closed == {C \in SUBSET S : \A y \in S :
                      Mentions(list, n, y) \/ (\E x \in C : Mentions(list, x, y)) => y \in C}
    IN  {m \in S : \A C \in Closed : m \in C}
=============================================================================
