-------------------------- MODULE AlertmanagerState -------------------------
(***************************************************************************)
(* The stored state of an alertmanager server:                             *)
(*   pkg/alertmanager/alertmanagerserver/server.go (New, Stop)             *)
(*   pkg/alertmanager/alertmanagerstore/sqlalertmanagerstore/state.go      *)
(*   pkg/types/alertmanagertypes/state.go                                  *)
(*                                                                         *)
(* Silences and notification log are two halves of one row.  Each has a    *)
(* goroutine that reads the row, replaces its half and writes the row, at  *)
(* every interval and once more when the server stops.                     *)
(*                                                                         *)
(* A half is a number: how often it has changed.                           *)
(***************************************************************************)
EXTENDS Naturals

CONSTANTS
    MaxChanges,   \* bound: changes of a half
    MaxFaults,    \* bound: failed turns
    MaxStarts     \* bound: starts of the server

Halves == {"silence", "nflog"}

ASSUME StateAssumption ==
    /\ MaxChanges \in Nat /\ MaxFaults \in Nat /\ MaxStarts \in Nat \ {0}

VARIABLES
    memory,  \* the silences and the notification log
    row,     \* the row of alertmanager_state; 0 is an empty column
    loop,    \* what the maintenance of a half does
    server,  \* the server: "up", "stopping" or "down"
    due,     \* what the halves were when the server was told to stop
    clean,   \* the server was stopped, without a fault and without a crash
    faults,
    starts

vars == <<memory, row, loop, server, due, clean, faults, starts>>

Blank == [h \in Halves |-> 0]
Waiting == [pc |-> "wait", last |-> FALSE, row |-> Blank]

\* A notification is logged, or a silence made.  A group that sends when the
\* dispatcher is stopped is not waited for and can still log.
Change(h) ==
    /\ server # "down" /\ memory[h] < MaxChanges
    /\ memory' = [memory EXCEPT ![h] = @ + 1]
    /\ UNCHANGED <<row, loop, server, due, clean, faults, starts>>

\* Mutant: there is no turn after Stop.
BeginUnlessStopped(h) ==
    /\ server # "down" /\ loop[h].pc = "wait" /\ ~loop[h].last
    /\ IF server = "stopping"
       THEN loop' = [loop EXCEPT ![h].last = TRUE]
       ELSE loop' = [loop EXCEPT ![h].pc = "get"]
    /\ UNCHANGED <<memory, row, server, due, clean, faults, starts>>

\* The interval is over; after Stop there is one more turn, and it is the last.
Begin(h) ==
    /\ server # "down" /\ loop[h].pc = "wait" /\ ~loop[h].last
    /\ \E last \in BOOLEAN :
          /\ last => server = "stopping"
          /\ loop' = [loop EXCEPT ![h].pc = "get", ![h].last = last]
    /\ UNCHANGED <<memory, row, server, due, clean, faults, starts>>

\* stateStore.Get: no row is a new row.
Get(h) ==
    /\ loop[h].pc = "get"
    /\ loop' = [loop EXCEPT ![h].pc = "set", ![h].row = row]
    /\ UNCHANGED <<memory, row, server, due, clean, faults, starts>>

\* StoreableState.Set
Marshal(h) ==
    /\ loop[h].pc = "set"
    /\ loop' = [loop EXCEPT ![h].pc = "store", ![h].row[h] = memory[h]]
    /\ UNCHANGED <<memory, row, server, due, clean, faults, starts>>

\* Mutant: a row that exists is left alone.
StoreOnce(h) ==
    /\ loop[h].pc = "store"
    /\ row' = IF row = Blank THEN loop[h].row ELSE row
    /\ loop' = [loop EXCEPT ![h].pc = "wait", ![h].row = Blank]
    /\ UNCHANGED <<memory, server, due, clean, faults, starts>>

\* stateStore.Set writes both columns.
Store(h) ==
    /\ loop[h].pc = "store"
    /\ row' = loop[h].row
    /\ loop' = [loop EXCEPT ![h].pc = "wait", ![h].row = Blank]
    /\ UNCHANGED <<memory, server, due, clean, faults, starts>>

\* Get of the store, the marshalling of the half or Set of the store fails; the next turn
\* tries again.
Fail(h) ==
    /\ loop[h].pc \in {"get", "set", "store"} /\ faults < MaxFaults
    /\ faults' = faults + 1
    /\ clean' = FALSE
    /\ loop' = [loop EXCEPT ![h].pc = "wait", ![h].row = Blank]
    /\ UNCHANGED <<memory, row, server, due, starts>>

Stop ==
    /\ server = "up"
    /\ server' = "stopping"
    /\ due' = memory
    /\ clean' = TRUE
    /\ UNCHANGED <<memory, row, loop, faults, starts>>

\* wg.Wait
Stopped ==
    /\ server = "stopping"
    /\ \A h \in Halves : loop[h].pc = "wait" /\ loop[h].last
    /\ server' = "down"
    /\ UNCHANGED <<memory, row, loop, due, clean, faults, starts>>

Crash ==
    /\ server # "down"
    /\ server' = "down"
    /\ loop' = [h \in Halves |-> Waiting]
    /\ clean' = FALSE
    /\ UNCHANGED <<memory, row, due, faults, starts>>

\* New loads both halves.
New ==
    /\ server = "down" /\ starts < MaxStarts
    /\ starts' = starts + 1
    /\ memory' = row
    /\ loop' = [h \in Halves |-> Waiting]
    /\ server' = "up"
    /\ due' = Blank
    /\ clean' = FALSE
    /\ UNCHANGED <<row, faults>>

Init ==
    /\ memory = Blank /\ row = Blank
    /\ loop = [h \in Halves |-> Waiting]
    /\ server = "up"
    /\ due = Blank
    /\ clean = FALSE
    /\ faults = 0
    /\ starts = 1

Turn(h) == Get(h) \/ Marshal(h) \/ Store(h) \/ Fail(h)

Next ==
    \/ \E h \in Halves : Change(h) \/ Begin(h) \/ Turn(h)
    \/ Stop \/ Stopped \/ Crash \/ New

\* The ticker fires and what has begun goes on.
Fairness == \A h \in Halves : WF_vars(Begin(h)) /\ WF_vars(Turn(h))

Spec == Init /\ [][Next]_vars /\ Fairness

------------------------------------------------------------------------------
TypeOK ==
    /\ memory \in [Halves -> Nat] /\ row \in [Halves -> Nat] /\ due \in [Halves -> Nat]
    /\ loop \in [Halves -> [pc : {"wait", "get", "set", "store"}, last : BOOLEAN,
                            row : [Halves -> Nat]]]
    /\ server \in {"up", "stopping", "down"} /\ clean \in BOOLEAN
    /\ faults \in 0..MaxFaults /\ starts \in 1..MaxStarts

\* After a stop without a fault at least the half that was written last is stored
\* as it was when the server was told to stop.  Not both: a turn that has read the
\* row before the other half was stored writes the old value of that half back.
LastWriterSurvives ==
    server = "down" /\ clean => \E h \in Halves : row[h] >= due[h]

\* The row never holds what the server has not had.
StoredWasKnown ==
    server # "down" => \A h \in Halves : row[h] <= memory[h]

\* The stored row is sound at every moment and after every stop.
StateInv == TypeOK /\ StoredWasKnown /\ LastWriterSurvives

\* A change is stored at some time, unless the server stops or crashes first.
EventuallyStored ==
    \A h \in Halves : \A n \in 1..MaxChanges :
        (server = "up" /\ memory[h] = n) ~> (row[h] >= n \/ server # "up")
=============================================================================
