------------------------- MODULE MCVariableSettings -------------------------
(***************************************************************************)
(* Instances of VariableSettings for TLC.  The code compares names and     *)
(* never orders them (a list has its own order), so names are symmetric.   *)
(***************************************************************************)
EXTENDS VariableSettings, VariableCycle

Symmetry == Permutations(VariableNames)

References(list) == UNION {{i} \X list[i].refs : i \in DOMAIN list}

\* A failed update is followed up where the page and the dashboard have at most
\* three rows between them, and a third row beside two of one name where there are
\* at most four references.  A message is not followed up:
\* what can be done with it on display could be done before it.
FewUnsavedRows ==
    /\ pending = <<>> /\ tableData # dashboardVariables =>
           Len(tableData) + Len(dashboardVariables) <= 3
    /\ Len(tableData) > 2 /\ ~UniqueNames(tableData) => Cardinality(References(tableData)) <= 4
    /\ dialog.kind # "path"
=============================================================================
