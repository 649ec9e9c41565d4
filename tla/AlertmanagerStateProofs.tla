----------------------- MODULE AlertmanagerStateProofs -----------------------
(***************************************************************************)
(* StateInv for every number of changes, faults and starts.  That the last *)
(* writer survives a stop is not inductive: the proof adds what the copy a *)
(* turn holds may contain and what holds between Stop and the last write.  *)
(***************************************************************************)
EXTENDS AlertmanagerState, TLAPS

\* A copy of the row that a turn holds was known to the server, and the half that
\* the last turn has put into it is not older than the stop.
CopiesAreKnown ==
    \A h \in Halves :
        /\ loop[h].pc # "wait" => server # "down"
        /\ loop[h].pc \in {"set", "store"} =>
            /\ \A k \in Halves : loop[h].row[k] <= memory[k]
            /\ clean /\ loop[h].last /\ loop[h].pc = "store" => loop[h].row[h] >= due[h]

\* Every loop has had its last turn.
AllDone == \A h \in Halves : loop[h].pc = "wait" /\ loop[h].last

\* From the stop on: the halves only grow, and when all last turns are over one
\* half is stored.
StopIsSound ==
    /\ \A h \in Halves : loop[h].last => server # "up"
    /\ clean => server # "up"
    /\ clean /\ server = "stopping" => \A h \in Halves : due[h] <= memory[h]
    /\ clean /\ server = "down" => AllDone
    /\ clean /\ AllDone => \E h \in Halves : row[h] >= due[h]

\* What makes StateInv inductive.
StateIndInv == TypeOK /\ StoredWasKnown /\ CopiesAreKnown /\ StopIsSound

------------------------------------------------------------------------------
\* A server that starts with an empty row is sound.
LEMMA InitSound == Init => StateIndInv
<1> SUFFICES ASSUME Init PROVE StateIndInv OBVIOUS
<1>1. /\ memory \in [Halves -> Nat] /\ row \in [Halves -> Nat] /\ due \in [Halves -> Nat]
      /\ \A h \in Halves : memory[h] = 0 /\ row[h] = 0 /\ due[h] = 0
  BY DEF Init, Blank
<1>2. /\ loop \in [Halves -> [pc : {"wait", "get", "set", "store"}, last : BOOLEAN,
                             row : [Halves -> Nat]]]
      /\ \A h \in Halves : loop[h].pc = "wait" /\ ~loop[h].last
  BY DEF Init, Blank, Waiting
<1>3. server = "up" /\ clean = FALSE /\ faults \in 0..MaxFaults /\ starts \in 1..MaxStarts
  BY StateAssumption DEF Init
<1>4. TypeOK
  BY <1>1, <1>2, <1>3 DEF TypeOK
<1>5. StoredWasKnown
  BY <1>1 DEF StoredWasKnown
<1>6. CopiesAreKnown /\ StopIsSound
  BY <1>2, <1>3 DEF CopiesAreKnown, StopIsSound
<1> QED BY <1>4, <1>5, <1>6 DEF StateIndInv

\* No step of the maintenance loops, of the server or of a fault leaves the
\* inductive invariant.
LEMMA StepSound == StateIndInv /\ [Next]_vars => StateIndInv'
<1> SUFFICES ASSUME StateIndInv, [Next]_vars PROVE StateIndInv' OBVIOUS
<1> USE StateAssumption DEF StateIndInv
<1>1. ASSUME NEW h \in Halves, Change(h) PROVE StateIndInv'
  <2>1. TypeOK'
    BY <1>1 DEF Change, TypeOK
  <2>2. StoredWasKnown'
    BY <1>1 DEF Change, StoredWasKnown, TypeOK
  <2>3. CopiesAreKnown'
    BY <1>1 DEF Change, CopiesAreKnown, TypeOK, StoredWasKnown
  <2>4. StopIsSound'
    BY <1>1 DEF Change, StopIsSound, TypeOK, CopiesAreKnown, AllDone
  <2> QED BY <2>1, <2>2, <2>3, <2>4
<1>2. ASSUME NEW h \in Halves, Begin(h) PROVE StateIndInv'
  <2>1. TypeOK'
    BY <1>2 DEF Begin, TypeOK, Halves
  <2>2. StoredWasKnown'
    BY <1>2 DEF Begin, StoredWasKnown, TypeOK
  <2>3. CopiesAreKnown'
    BY <1>2 DEF Begin, CopiesAreKnown, TypeOK, StoredWasKnown
  <2>4. StopIsSound'
    BY <1>2 DEF Begin, StopIsSound, TypeOK, CopiesAreKnown, AllDone
  <2> QED BY <2>1, <2>2, <2>3, <2>4
<1>3. ASSUME NEW h \in Halves, Get(h) PROVE StateIndInv'
  <2>1. TypeOK'
    BY <1>3 DEF Get, TypeOK
  <2>2. StoredWasKnown'
    BY <1>3 DEF Get, StoredWasKnown, TypeOK
  <2>3. CopiesAreKnown'
    BY <1>3 DEF Get, CopiesAreKnown, TypeOK, StoredWasKnown
  <2>4. StopIsSound'
    BY <1>3 DEF Get, StopIsSound, TypeOK, CopiesAreKnown, AllDone
  <2> QED BY <2>1, <2>2, <2>3, <2>4
<1>4. ASSUME NEW h \in Halves, Marshal(h) PROVE StateIndInv'
  <2>1. TypeOK'
    BY <1>4 DEF Marshal, TypeOK
  <2>2. StoredWasKnown'
    BY <1>4 DEF Marshal, StoredWasKnown, TypeOK
  <2>3. CopiesAreKnown'
    BY <1>4 DEF Marshal, CopiesAreKnown, TypeOK, StopIsSound
  <2>4. StopIsSound'
    BY <1>4 DEF Marshal, StopIsSound, TypeOK, CopiesAreKnown, AllDone
  <2> QED BY <2>1, <2>2, <2>3, <2>4
<1>5. ASSUME NEW h \in Halves, Store(h) PROVE StateIndInv'
  <2>1. TypeOK'
    BY <1>5 DEF Store, TypeOK, Blank
  <2>2. StoredWasKnown'
    BY <1>5 DEF Store, StoredWasKnown, TypeOK, Blank
  <2>3. CopiesAreKnown'
    BY <1>5 DEF Store, CopiesAreKnown, TypeOK, StoredWasKnown, Blank
  <2>4. StopIsSound'
    BY <1>5 DEF Store, StopIsSound, TypeOK, CopiesAreKnown, AllDone, Blank
  <2> QED BY <2>1, <2>2, <2>3, <2>4
<1>6. ASSUME NEW h \in Halves, Fail(h) PROVE StateIndInv'
  <2>1. TypeOK'
    <3>1. faults' \in 0..MaxFaults
      BY <1>6 DEF Fail, TypeOK
    <3>2. loop' \in [Halves -> [pc : {"wait", "get", "set", "store"}, last : BOOLEAN,
                                row : [Halves -> Nat]]]
      BY <1>6 DEF Fail, TypeOK, Blank
    <3> QED BY <1>6, <3>1, <3>2 DEF Fail, TypeOK
  <2>2. StoredWasKnown'
    BY <1>6 DEF Fail, StoredWasKnown, TypeOK, Blank
  <2>3. CopiesAreKnown'
    BY <1>6 DEF Fail, CopiesAreKnown, TypeOK, StoredWasKnown, Blank
  <2>4. StopIsSound'
    BY <1>6 DEF Fail, StopIsSound, TypeOK, CopiesAreKnown, AllDone, Blank
  <2> QED BY <2>1, <2>2, <2>3, <2>4
<1>7. CASE Stop
  <2>1. TypeOK'
    BY <1>7 DEF Stop, TypeOK
  <2>2. StoredWasKnown'
    BY <1>7 DEF Stop, StoredWasKnown, TypeOK
  <2>3. CopiesAreKnown'
    BY <1>7 DEF Stop, CopiesAreKnown, TypeOK, StopIsSound
  <2>4. StopIsSound'
    BY <1>7 DEF Stop, StopIsSound, TypeOK, AllDone, Halves
  <2> QED BY <2>1, <2>2, <2>3, <2>4
<1>8. CASE Stopped
  <2>1. TypeOK'
    BY <1>8 DEF Stopped, TypeOK
  <2>2. StoredWasKnown'
    BY <1>8 DEF Stopped, StoredWasKnown, TypeOK
  <2>3. CopiesAreKnown'
    BY <1>8 DEF Stopped, CopiesAreKnown, TypeOK, StoredWasKnown
  <2>4. StopIsSound'
    BY <1>8 DEF Stopped, StopIsSound, TypeOK, CopiesAreKnown, AllDone
  <2> QED BY <2>1, <2>2, <2>3, <2>4
<1>9. CASE Crash
  <2>1. TypeOK'
    BY <1>9 DEF Crash, TypeOK, Blank, Waiting
  <2>2. StoredWasKnown'
    BY <1>9 DEF Crash, StoredWasKnown, TypeOK, Blank, Waiting
  <2>3. CopiesAreKnown'
    BY <1>9 DEF Crash, CopiesAreKnown, TypeOK, StoredWasKnown, Blank, Waiting
  <2>4. StopIsSound'
    BY <1>9 DEF Crash, StopIsSound, TypeOK, CopiesAreKnown, AllDone, Blank, Waiting
  <2> QED BY <2>1, <2>2, <2>3, <2>4
<1>10. CASE New
  <2>1. TypeOK'
    <3>1. starts' \in 1..MaxStarts
      BY <1>10 DEF New, TypeOK
    <3>2. loop' \in [Halves -> [pc : {"wait", "get", "set", "store"}, last : BOOLEAN,
                                row : [Halves -> Nat]]]
      BY <1>10 DEF New, Blank, Waiting
    <3>3. due' \in [Halves -> Nat]
      BY <1>10 DEF New, Blank
    <3> QED BY <1>10, <3>1, <3>2, <3>3 DEF New, TypeOK
  <2>2. StoredWasKnown'
    BY <1>10 DEF New, StoredWasKnown, TypeOK, Blank, Waiting
  <2>3. CopiesAreKnown'
    BY <1>10 DEF New, CopiesAreKnown, TypeOK, StoredWasKnown, Blank, Waiting
  <2>4. StopIsSound'
    BY <1>10 DEF New, StopIsSound, TypeOK, CopiesAreKnown, AllDone, Blank, Waiting
  <2> QED BY <2>1, <2>2, <2>3, <2>4
<1>11. CASE UNCHANGED vars
  BY <1>11 DEF vars, TypeOK, StoredWasKnown, CopiesAreKnown, StopIsSound, AllDone
<1> QED BY <1>1, <1>2, <1>3, <1>4, <1>5, <1>6, <1>7, <1>8, <1>9, <1>10, <1>11 DEF Next, Turn

\* The inductive invariant gives what is claimed of the stored row.
LEMMA IndImpliesStateInv == StateIndInv => StateInv
BY DEF StateIndInv, StateInv, LastWriterSurvives, StopIsSound

\* The stored row never holds what the server has not had, and after a stop
\* without a fault the half written last is stored as it was at the stop.
THEOREM StoredStateIsSound == Spec => []StateInv
<1>1. Spec => []StateIndInv
  BY InitSound, StepSound, PTL DEF Spec
<1> QED BY <1>1, IndImpliesStateInv, PTL
=============================================================================
