--------------------------- MODULE VariableCycle ---------------------------
(***************************************************************************)
(* The cycle that the error message of a refused save names: detectCycle   *)
(* and collectCyclePath of frontend/.../DashboardVariablesSelection/util.ts.*)
(***************************************************************************)
EXTENDS VariableGraph

\* findParent: the first key whose dependents include the node.
findParent(keys, graph, node) ==
    LET Lists(k) == Contains(graph[k], node)
    IN  SelectInSeq(keys, Lists)

\* Mutant: only the node that closes the cycle is collected.
WalkBackNowhere(keys, graph, current, end, path) ==
    [kind |-> "path", nodes |-> <<end>>]

\* collectCyclePath.  The walk is a function of the current node, so that one
\* that is longer than the keys has come back to a node and goes round for ever.
RECURSIVE WalkBack(_, _, _, _, _)
WalkBack(keys, graph, current, end, path) ==
    LET parent == findParent(keys, graph, current)
    IN  IF current = end \/ parent = 0 THEN [kind |-> "path", nodes |-> path]
        ELSE IF Len(path) > Len(keys) THEN [kind |-> "hang", nodes |-> <<>>]
        ELSE WalkBack(keys, graph, keys[parent], end, Append(path, keys[parent]))

\* detectCycle: st holds visited, recStack and the cycle found.
RECURSIVE detectCycle(_, _, _, _)
detectCycle(keys, graph, node, st) ==
    LET entered == [st EXCEPT !.visited = @ \union {node}, !.recStack = @ \union {node}]
        Visit(s, nb) ==
            IF s.found # NoCycle THEN s
            ELSE IF nb \notin s.visited THEN detectCycle(keys, graph, nb, s)
            ELSE IF nb \in s.recStack
                 THEN [s EXCEPT !.found = WalkBack(keys, graph, node, nb, <<node>>)]
            ELSE s
        left == FoldLeft(Visit, entered, graph[node])
    IN  IF left.found # NoCycle THEN left
        ELSE [left EXCEPT !.recStack = @ \ {node}]

cycleNodes(list) ==
    LET keys == Keys(list)
        graph == buildDependencies(list)
        Search(st, node) ==
            IF st.found # NoCycle \/ node \in st.visited THEN st
            ELSE detectCycle(keys, graph, node, st)
        st0 == [visited |-> {}, recStack |-> {}, found |-> NoCycle]
    IN  FoldLeft(Search, st0, keys).found
=============================================================================
