-------------------------- MODULE VariableSettings --------------------------
(***************************************************************************)
(* The settings page on which the variables of a dashboard are edited:     *)
(*   frontend/.../DashboardVariableSettings/VariableItem/VariableItem.tsx  *)
(*   frontend/.../DashboardVariableSettings/index.tsx                      *)
(*                                                                         *)
(* A save is checked for circular references before the whole list goes    *)
(* out in an update of the dashboard.  The check, like the one for a name  *)
(* that exists, looks at the variables of the dashboard and not at the     *)
(* rows: after an update that failed or is under way the rows differ, and  *)
(* can have one name twice.  A row is identified by its id in the code and *)
(* by its position here.                                                   *)
(***************************************************************************)
EXTENDS VariableGraph

CONSTANTS
    VariableNames, \* the names a variable can have
    VariableTypes, \* the variable types in use, "QUERY" among them
    CycleNodes(_), \* the cycle found in a list: cycleNodes of VariableCycle
    MaxPending,    \* bound: dashboard updates the user leaves unanswered
    MaxRows,       \* bound: the rows of the page
    UpdatesFail    \* whether an update can be refused or get lost

ASSUME GraphAssumption ==
    /\ IsFiniteSet(VariableNames)
    /\ "QUERY" \in VariableTypes
    /\ MaxPending \in Nat \ {0}
    /\ MaxRows \in Nat \ {0}
    /\ UpdatesFail \in BOOLEAN

VARIABLES
    dashboardVariables,  \* the variables of the dashboard the page works with
    tableData,           \* variablesTableData: the rows of the settings page
    pending,             \* the variable lists of the updates under way
    dialog               \* how the last press on Save ended

pageVars == <<dashboardVariables, tableData, pending, dialog>>

\* Only a QUERY variable has a text in which others are mentioned.
Variables ==
    {v \in [name: VariableNames, type: VariableTypes, refs: SUBSET VariableNames] :
        v.type # "QUERY" => v.refs = {}}

------------------------------------------------------------------------------
(* The settings page.                                                        *)

\* setDashboardData: the rows follow by an effect, and the stores rebuild the
\* graph of the new list, cycle search included.
SetDashboard(list) ==
    /\ dashboardVariables' = list
    /\ tableData' = list
    /\ dialog' = IF CycleNodes(list).kind = "hang" THEN CycleNodes(list) ELSE NoCycle

\* updateVariables: the whole list goes out in one update of the dashboard.
updateVariables(list) ==
    /\ Len(pending) < MaxPending
    /\ pending' = Append(pending, list)

PageInit ==
    /\ dashboardVariables = <<>>
    /\ tableData = <<>>
    /\ pending = <<>>
    /\ dialog = NoCycle

\* Mutant: the variables are checked without the one to be saved.
CheckedAlone(v) == dashboardVariables

\* The check of handleSave: the list it looks at is the dashboard's, with the
\* new version of the variable behind whatever version it already holds.
Checked(v) == Append(dashboardVariables, v)

\* A name that is typed in is compared with those of the dashboard.
validateVariableName(name) == name \notin NamesIn(dashboardVariables)

\* onVariableSaveHandler: the new rows are shown and sent.
onVariableSaveHandler(rows) ==
    /\ updateVariables(rows)
    /\ tableData' = rows
    /\ dialog' = NoCycle
    /\ UNCHANGED dashboardVariables

\* handleSave with a cycle: the message is shown and nothing is saved.
RefuseSave(v) ==
    /\ dialog.kind # "hang"
    /\ validateVariableName(v.name) \/ v.name \in NamesIn(tableData)
    /\ hasCycle(Checked(v))
    /\ dialog' = CycleNodes(Checked(v))
    /\ UNCHANGED <<dashboardVariables, tableData, pending>>

\* handleSave of a new variable: its row is pushed, whatever rows there are.
AddVariable(v) ==
    /\ dialog.kind # "hang"
    /\ Len(tableData) < MaxRows
    /\ validateVariableName(v.name)
    /\ ~hasCycle(Checked(v))
    /\ onVariableSaveHandler(Append(tableData, v))

\* handleSave of an edited one: its row is replaced, under its name or a new one.
EditVariable(i, v) ==
    /\ dialog.kind # "hang"
    /\ v.name = tableData[i].name \/ validateVariableName(v.name)
    /\ ~hasCycle(Checked(v))
    /\ onVariableSaveHandler([tableData EXCEPT ![i] = v])

\* The delete button sends the list without the row; the row stays until the answer.
handleDeleteConfirm(i) ==
    /\ dialog.kind # "hang"
    /\ updateVariables(RemoveAt(tableData, i))
    /\ dialog' = NoCycle
    /\ UNCHANGED <<dashboardVariables, tableData>>

\* What a drag sends is keyed by name: of the rows of one name, the last.
LastOfEachName(rows) ==
    PickAt(rows, {i \in DOMAIN rows : \A j \in DOMAIN rows : j > i => rows[j].name # rows[i].name})

\* Dragging a row moves it (arrayMove), outside the table to the end, and sends
\* the new order.
onDragEnd(i, j) ==
    LET moved == InsertAt(RemoveAt(tableData, i), j, tableData[i])
    IN  /\ dialog.kind # "hang"
        /\ updateVariables(LastOfEachName(moved))
        /\ tableData' = moved
        /\ dialog' = NoCycle
        /\ UNCHANGED dashboardVariables

\* "Apply to all" saves a row as it is, without the check of handleSave.
handleApplyToAllConfirm ==
    /\ dialog.kind # "hang"
    /\ tableData # <<>>
    /\ onVariableSaveHandler(tableData)

UpdateAnswered(k) ==
    /\ dialog.kind # "hang"
    /\ SetDashboard(pending[k])
    /\ pending' = RemoveAt(pending, k)

\* A failed update shows an error; the rows keep what was not saved.
UpdateFailed(k) ==
    /\ UpdatesFail
    /\ dialog.kind # "hang"
    /\ pending' = RemoveAt(pending, k)
    /\ UNCHANGED <<dashboardVariables, tableData, dialog>>

\* The user reloads the page, the only way out of one that no longer responds.
Reload ==
    /\ dialog.kind = "hang"
    /\ pending' = <<>>
    /\ SetDashboard(dashboardVariables)

PageNext ==
    \/ \E v \in Variables : RefuseSave(v) \/ AddVariable(v)
    \/ \E i \in DOMAIN tableData :
        handleDeleteConfirm(i) \/ \E v \in Variables : EditVariable(i, v)
    \/ \E i, j \in DOMAIN tableData : onDragEnd(i, j)
    \/ handleApplyToAllConfirm
    \/ \E k \in DOMAIN pending : UpdateAnswered(k) \/ UpdateFailed(k)
    \/ Reload

PageSpec == PageInit /\ [][PageNext]_pageVars

------------------------------------------------------------------------------
(* Properties.  Those about a list of variables are stated where the page is *)
(* settled, with no update under way, the rows of the dashboard and no       *)
(* message on display: every dashboard comes by in such a state.             *)

Settled == pending = <<>> /\ tableData = dashboardVariables /\ dialog.kind # "path"

ListsOK ==
    /\ dashboardVariables \in Seq(Variables)
    /\ tableData \in Seq(Variables)
    /\ pending \in Seq(Seq(Variables))

\* What the search for a cycle comes to.
Outcomes == [kind: {"none", "path", "hang"}, nodes: Seq(VariableNames)]

PageTypeOK ==
    /\ ListsOK
    /\ dialog \in Outcomes

\* The check in handleSave keeps circular references out of the dashboard: as long
\* as the rows are those of the dashboard, no save, deletion or move sends a list
\* with a cycle.  On other pages one can: the check does not see a row that an
\* update under way or a failed one has left behind, and the next update sends it.
NoCycleIsSent ==
    [][tableData = dashboardVariables /\ ~IsCyclic(dashboardVariables)
          => \A k \in DOMAIN pending' : k > Len(pending) => ~IsCyclic(pending'[k])]_pageVars

\* buildDependencyGraph refuses exactly the lists whose references are circular,
\* the lists with two versions of one variable that handleSave gives it included.
CycleDetectionIsExact ==
    Settled => \A v \in Variables : hasCycle(Checked(v)) <=> IsCyclic(Checked(v))

\* The order in which enqueueFetchOfAllVariables starts the query variables has
\* each of them once, behind all the query variables it mentions; one that is on
\* a stored cycle or depends on one is left out, and only such a one.
OrderIsTopological ==
    Settled =>
    LET list == dashboardVariables
        order == QueryOrder(list)
    IN  /\ ToSet(order) = QueryNames(list) \ Stuck(list)
        /\ Len(order) = Cardinality(ToSet(order))
        /\ \A i, j \in DOMAIN order : Mentions(list, order[i], order[j]) => i < j

\* The descendants that a changed value refetches are the variables that depend
\* on it directly or through others, each listed once (on a dashboard without a
\* cycle: a variable on one is not in the order the descendants are computed in).
DescendantsAreReachable ==
    LET list == dashboardVariables
        desc == transitiveDescendants(list)
    IN  Settled /\ ~IsCyclic(list) => \A n \in NamesIn(list) :
            ToSet(desc[n]) = Below(list, n) /\ Len(desc[n]) = Cardinality(ToSet(desc[n]))

\* The variables that the order leaves out are on a cycle or below one.
StuckIsOnOrBelowACycle ==
    Settled =>
    LET list == dashboardVariables
    IN  Stuck(list) = {n \in NamesIn(list) : \E m \in NamesIn(list) :
                          m \in Below(list, m) /\ (n = m \/ n \in Below(list, m))}

\* What the store derives from a dashboard fits its references, on one that has
\* circular references or one name twice too.
DerivedDataIsRight ==
    /\ PageTypeOK
    /\ OrderIsTopological /\ StuckIsOnOrBelowACycle /\ DescendantsAreReachable

\* The search for the nodes of a cycle ends, and the nodes that the message of a
\* refused save joins with arrows are a cycle of references, when every variable
\* mentions at most one other.  With two, findParent may leave the cycle: it then
\* names a variable that is not on it, or goes round for ever.
MessageNamesACycle ==
    Settled => \A v \in Variables :
        LET graph == buildDependencies(Checked(v))
            found == CycleNodes(Checked(v))
            next(i) == found.nodes[(i % Len(found.nodes)) + 1]
            Mentioned(n) == {m \in DOMAIN graph : Contains(graph[m], n)}
        IN  hasCycle(Checked(v)) /\ (\A n \in DOMAIN graph : Cardinality(Mentioned(n)) <= 1)
            => /\ found.kind = "path"
               /\ \A i \in DOMAIN found.nodes : Contains(graph[next(i)], found.nodes[i])
=============================================================================
