------------------------------ MODULE DLQProofs ------------------------------
(***************************************************************************)
(* Proofs about DLQ, for every set of event ids, channels, concurrent calls *)
(* and requests, every rotation threshold and every bound.                  *)
(***************************************************************************)
EXTENDS DLQ, FiniteSetTheorems, SequenceTheorems, WellFoundedInduction, TLAPS

(* The inductive invariant. *)

(* The files hold what was recorded, and a number is given once.            *)
DiskInv ==
  /\ OnDisk \subseteq recorded \union {Torn}
  /\ \A e \in recorded : e.n <= count
  /\ \A d, e \in recorded : d.n = e.n => d = e
  /\ ~exists => primary = <<>> /\ handle # "open"

(* The lines of a file, and of one file after another, are in the order in  *)
(* which they were written.                                                 *)
Ordered(file) ==
  \A i, j \in DOMAIN file : i < j /\ file[i] # Torn /\ file[j] # Torn => file[i].n < file[j].n

Before(p, q) == \A x \in Lines(p) \ {Torn}, y \in Lines(q) \ {Torn} : x.n < y.n

OrderInv ==
  /\ Ordered(primary)
  /\ \A f \in DOMAIN rotated : Ordered(rotated[f]) /\ Before(rotated[f], primary)
  /\ \A f, g \in DOMAIN rotated : f < g => Before(rotated[f], rotated[g])

(* The names a call still has to read: the active file is the last one, and *)
(* each holds only what is newer than what the call has read.               *)
FilesOf(r) ==
  LET files == replay[r].files IN
  /\ \A i \in DOMAIN files : files[i] \in 0..Len(rotated) /\ Before(replay[r].got, Content(files[i]))
  /\ \A i, j \in DOMAIN files : i < j => files[i] # Primary /\ (files[j] = Primary \/ files[i] < files[j])

FilesInv == \A r \in Replayers : FilesOf(r)

(* What a call has read was recorded.  What was in the files when it listed *)
(* them it has read, or is going to find in a file it has the name of, or   *)
(* was rotated since.                                                       *)
Found(r, e) ==
  \/ e \in Lines(replay[r].got)
  \/ \E f \in Lines(replay[r].files) : e \in Lines(Content(f))
  \/ \E i \in DOMAIN rotated : replay[r].listed < i /\ e \in Lines(rotated[i])

ReadOf(r) ==
  /\ Lines(replay[r].got) \subseteq recorded
  /\ replay[r].due \subseteq recorded
  /\ replay[r].listed <= Len(rotated)
  /\ \A e \in replay[r].due : Found(r, e)
  /\ replay[r].pc \in {"next", "send", "mark"} => replay[r].files = <<>>

ReadInv == \A r \in Replayers : ReadOf(r)

(* A call that delivers or marks has an entry, delivered before it is marked. *)
SendOf(r) ==
  replay[r].pc \in {"send", "mark"} =>
      /\ replay[r].todo # <<>> /\ Known(r)
      /\ replay[r].pc = "mark" => sent[Current(r).n] > 0

SendInv == \A r \in Replayers : SendOf(r)

(* The ledger in memory is the file, and its writer fails by a disk error.  *)
LedgerInv == seen = ledger /\ (sticky => faults > 0)

ReplayInv ==
  /\ DLQInv /\ ReadIsChronological
  /\ DiskInv /\ OrderInv /\ FilesInv /\ ReadInv /\ SendInv /\ LedgerInv

-----------------------------------------------------------------------------
(* Facts about numbers, lines and files.                                    *)

(* Every nonempty set of natural numbers has a least element.               *)
LEMMA NatMin ==
  ASSUME NEW T, T \subseteq Nat, T # {}
  PROVE  \E x \in T : \A y \in T : x <= y
<1> DEFINE R == OpToRel(<, Nat)
<1>1. IsWellFoundedOn(R, Nat)
  BY NatLessThanWellFounded
<1>2. \A x, y \in Nat : y < x => <<y, x>> \in R
  BY DEF OpToRel
<1> HIDE DEF R
<1>3. PICK x \in T : \A y \in T : ~ (<<y, x>> \in R)
  BY <1>1, WFMin
<1>4. \A y \in T : ~(y < x)
  BY <1>2, <1>3
<1>5. \A y \in T : x <= y
  BY <1>4
<1> QED
  BY <1>5

(* So a bounded one has a greatest.                                         *)
LEMMA BoundedMax ==
  ASSUME NEW n \in Nat, NEW T, T \subseteq 1..n, T # {}
  PROVE  \E x \in T : \A y \in T : y <= x
<1> DEFINE D == {n - x : x \in T}
<1>1. \A x \in 1..n : n - x \in Nat
  OBVIOUS
<1>2. D \subseteq Nat /\ D # {}
  BY <1>1
<1>3. PICK d \in D : \A c \in D : d <= c
  <2> HIDE DEF D
  <2> QED BY <1>2, NatMin
<1>4. PICK x \in T : d = n - x
  BY <1>3
<1>5. \A y \in T : n - x <= n - y
  BY <1>3, <1>4
<1>6. \A y \in T : y <= x
  BY <1>5
<1> QED
  BY <1>6

Line == Entries \union {Torn}

LEMMA TornIsNoEntry == Torn \notin Entries
  BY DEF Torn, Entries

LEMMA LinesAppend ==
  ASSUME NEW S, NEW s \in Seq(S), NEW x \in S
  PROVE  Lines(Append(s, x)) = Lines(s) \union {x}
<1> DEFINE a == Append(s, x)
<1>1. /\ a \in Seq(S) /\ DOMAIN a = 1..Len(s) + 1 /\ DOMAIN s = 1..Len(s) /\ Len(s) \in Nat
      /\ a[Len(s) + 1] = x /\ \A i \in 1..Len(s) : a[i] = s[i]
  BY AppendProperties, LenProperties
<1> HIDE DEF a
<1>2. x \in Lines(a) /\ Lines(s) \subseteq Lines(a)
  BY <1>1 DEF Lines
<1>3. Lines(a) \subseteq Lines(s) \union {x}
  BY <1>1 DEF Lines
<1> QED
  BY <1>2, <1>3 DEF a

LEMMA LinesConcat ==
  ASSUME NEW S, NEW s \in Seq(S), NEW t \in Seq(S)
  PROVE  Lines(s \o t) = Lines(s) \union Lines(t)
<1>1. /\ s \o t \in Seq(S) /\ Len(s \o t) = Len(s) + Len(t)
      /\ \A i \in 1 .. Len(s) + Len(t) : (s \o t)[i] = IF i <= Len(s) THEN s[i] ELSE t[i - Len(s)]
  BY ConcatProperties
<1>0. DOMAIN (s \o t) = 1 .. Len(s) + Len(t)
  BY <1>1, LenProperties
<1>2. Lines(s \o t) \subseteq Lines(s) \union Lines(t)
  BY <1>1 DEF Lines
<1>3. Lines(s) \subseteq Lines(s \o t)
  BY <1>1 DEF Lines
<1>4. ASSUME NEW i \in 1..Len(t) PROVE t[i] \in Lines(s \o t)
  <2>1. i + Len(s) \in 1..Len(s) + Len(t) /\ (s \o t)[i + Len(s)] = t[i]
    BY <1>1
  <2> QED
    BY <1>0, <2>1 DEF Lines
<1>5. Lines(t) \subseteq Lines(s \o t)
  BY <1>4 DEF Lines
<1> QED
  BY <1>2, <1>3, <1>5

LEMMA LinesOne == \A x : Lines(<<x>>) = {x}
  BY DEF Lines

LEMMA LinesNone == Lines(<<>>) = {}
  BY DEF Lines

LEMMA OrderedAppend ==
  ASSUME NEW s \in Seq(Line), NEW x \in Line, Ordered(s),
         x = Torn \/ \A y \in Lines(s) \ {Torn} : y.n < x.n
  PROVE  Ordered(Append(s, x))
  BY DEF Ordered, Lines

LEMMA OrderedShort == Ordered(<<>>) /\ \A x : Ordered(<<x>>)
  BY DEF Ordered

-----------------------------------------------------------------------------
(* recordTerminalFailure: how it changes the files. *)

(* Nothing is added, or the line is lost in a torn one; or a line is added.  *)
Stays(e) ==
  /\ UNCHANGED <<rotated, primary>>
  /\ \/ recorded' = recorded
     \/ recorded' = recorded \union {e} /\ Torn \in Lines(primary)

Grows(x) ==
  /\ UNCHANGED rotated
  /\ primary' = Append(primary, x)
  /\ recorded' = recorded \union ({x} \ {Torn})

DiskStep(e) == Stays(e) \/ \E x \in {e, Torn} : Grows(x)

(* An entry with a new number is what a terminal failure is recorded as.    *)
NewEntry(e) == e \in Entries /\ e.n = count + 1 /\ count' = count + 1

LEMMA RecordMoves ==
  ASSUME TypeOK, DiskInv, NEW id \in Ids, NEW ch \in Channels, recordTerminalFailure(id, ch)
  PROVE  /\ \E e : NewEntry(e) /\ DiskStep(e)
         /\ UNCHANGED <<ledger, seen, sticky, sidecar, replay, sent, calls, crashes>>
         /\ written' \in Nat
         /\ faults' \in 0..MaxFaults /\ faults' >= faults
         /\ exists' \in BOOLEAN /\ handle' \in {"open", "moved", "stale"}
         /\ ~exists' => primary' = <<>> /\ handle' # "open"
<1> DEFINE e == [id |-> id, ch |-> ch, n |-> count + 1]
<1>0. /\ count < MaxEntries /\ count' = count + 1
      /\ UNCHANGED <<ledger, seen, sticky, sidecar, replay, sent, calls, crashes>>
      /\ WriteStale \/ WriteLine(e) \/ ShortWrite \/ RenameFails \/ ReopenFails
  BY DEF recordTerminalFailure
<1>1. count \in Nat /\ MaxEntries \in Nat /\ MaxFaults \in Nat /\ faults \in 0..MaxFaults
  BY DLQAssumption DEF TypeOK
<1>2. e \in Entries /\ e.n = count + 1
  BY <1>0, <1>1 DEF Entries
<1>3. NewEntry(e) /\ e # Torn
  BY <1>0, <1>2, TornIsNoEntry DEF NewEntry
<1> HIDE DEF e
<1>4. /\ primary \in Seq(Line) /\ Len(primary) \in Nat /\ DOMAIN primary = 1..Len(primary) /\ written \in Nat
  BY LenProperties DEF TypeOK, Line
<1>5. ASSUME primary # <<>>, primary[Len(primary)] = Torn PROVE Torn \in Lines(primary)
  <2>1. Len(primary) \in DOMAIN primary
    BY <1>4, <1>5, EmptySeq
  <2> QED
    BY <1>5, <2>1 DEF Lines
<1>6. \A x : AppendLine(primary, x) = Append(primary, x) \/ (AppendLine(primary, x) = primary /\ Torn \in Lines(primary))
  BY <1>5 DEF AppendLine
<1>7. DiskStep(e)
  <2>1. CASE WriteStale
    BY <2>1 DEF WriteStale, DiskStep, Stays
  <2>2. CASE WriteLine(e)
    <3>1. /\ UNCHANGED rotated /\ recorded' = recorded \union {e}
          /\ primary' = Append(primary, e) \/ (primary' = primary /\ Torn \in Lines(primary))
      BY <1>6, <2>2 DEF WriteLine
    <3> QED
      BY <1>3, <3>1 DEF DiskStep, Stays, Grows
  <2>4. CASE ShortWrite
    <3>1. /\ UNCHANGED <<rotated, recorded>>
          /\ primary' = Append(primary, Torn) \/ primary' = primary
      BY <1>6, <2>4 DEF ShortWrite
    <3> QED
      BY <3>1 DEF DiskStep, Stays, Grows
  <2>5. CASE RenameFails
    BY <2>5 DEF RenameFails, DiskStep, Stays
  <2>6. CASE ReopenFails
    BY <2>6 DEF ReopenFails, DiskStep, Stays
  <2> QED
    BY <1>0, <2>1, <2>2, <2>4, <2>5, <2>6
<1>8. written' \in Nat
  BY <1>0, <1>4 DEF WriteStale, WriteLine, ShortWrite, RenameFails, ReopenFails
<1>9. faults' \in 0..MaxFaults /\ faults' >= faults
  BY <1>0, <1>1 DEF WriteStale, WriteLine, ShortWrite, RenameFails, ReopenFails, Fault
<1>10. /\ exists' \in BOOLEAN /\ handle' \in {"open", "moved", "stale"}
       /\ ~exists' => primary' = <<>> /\ handle' # "open"
  <2>1. CASE handle # "open"
    BY <1>0, <2>1 DEF WriteStale, WriteLine, ShortWrite, RenameFails, ReopenFails, TypeOK, DiskInv
  <2>2. CASE handle = "open"
    <3>1. exists = TRUE
      BY <2>2 DEF TypeOK, DiskInv
    <3> QED
      BY <1>0, <2>2, <3>1 DEF WriteStale, WriteLine, ShortWrite, RenameFails, ReopenFails
  <2> QED
    BY <2>1, <2>2
<1> QED
  BY <1>0, <1>3, <1>7, <1>8, <1>9, <1>10

(* The files only gain lines, and what they gain is recorded.               *)
LEMMA DiskGains ==
  ASSUME TypeOK, NEW e \in Entries, DiskStep(e)
  PROVE  /\ rotated' \in Seq(Seq(Line)) /\ primary' \in Seq(Line)
         /\ recorded \subseteq recorded' /\ recorded' \subseteq recorded \union {e}
         /\ OnDisk \subseteq OnDisk' /\ OnDisk' \subseteq OnDisk \union recorded' \union {Torn}
         /\ recorded' \subseteq recorded \union OnDisk' \/ Torn \in OnDisk'
<1>0. rotated \in Seq(Seq(Line)) /\ primary \in Seq(Line) /\ e \in Line /\ Torn \in Line /\ e # Torn
  BY TornIsNoEntry DEF TypeOK, Line
<1>1. CASE Stays(e)
  BY <1>0, <1>1 DEF Stays, OnDisk
<1>2. ASSUME NEW x \in {e, Torn}, Grows(x)
      PROVE  /\ rotated' \in Seq(Seq(Line)) /\ primary' \in Seq(Line)
             /\ recorded \subseteq recorded' /\ recorded' \subseteq recorded \union {e}
             /\ OnDisk \subseteq OnDisk' /\ OnDisk' \subseteq OnDisk \union recorded' \union {Torn}
             /\ recorded' \subseteq recorded \union OnDisk' \/ Torn \in OnDisk'
  <2>1. x \in Line /\ primary' \in Seq(Line) /\ Lines(primary') = Lines(primary) \union {x}
    BY <1>0, <1>2, LinesAppend, AppendProperties DEF Grows
  <2>2. OnDisk' = OnDisk \union {x}
    BY <1>2, <2>1 DEF Grows, OnDisk
  <2> QED
    BY <1>0, <1>2, <2>1, <2>2 DEF Grows
<1> QED
  BY <1>1, <1>2 DEF DiskStep

(* The order of the lines survives: a new line has the highest number.      *)
LEMMA DiskStaysOrdered ==
  ASSUME TypeOK, DiskInv, OrderInv, NEW e, NewEntry(e), DiskStep(e)
  PROVE  OrderInv'
<1>0. /\ rotated \in Seq(Seq(Line)) /\ primary \in Seq(Line) /\ e \in Line /\ Torn \in Line /\ e # Torn
      /\ DOMAIN rotated = 1..Len(rotated) /\ Len(rotated) \in Nat
  BY TornIsNoEntry, LenProperties DEF TypeOK, Line, NewEntry
<1>1. /\ \A y \in Lines(primary) \ {Torn} : y.n < e.n
      /\ \A f \in DOMAIN rotated : \A y \in Lines(rotated[f]) \ {Torn} : y.n < e.n
  <2>1. \A y \in OnDisk \ {Torn} : y \in recorded /\ y.n <= count
    BY DEF DiskInv
  <2>2. \A y \in OnDisk \ {Torn} : y.n < e.n
    BY <2>1 DEF NewEntry, TypeOK, Entries
  <2> QED
    BY <2>2 DEF OnDisk
<1>2. CASE Stays(e)
  BY <1>2 DEF Stays, OrderInv, Ordered, Before, Lines
<1>3. ASSUME NEW x \in {e, Torn}, Grows(x) PROVE OrderInv'
  <2>1. Ordered(primary')
    BY <1>0, <1>1, <1>3, OrderedAppend DEF Grows, OrderInv
  <2>2. Lines(primary') = Lines(primary) \union {x}
    BY <1>0, <1>3, LinesAppend DEF Grows
  <2>3. \A f \in DOMAIN rotated : Before(rotated[f], primary')
    BY <1>1, <2>2 DEF OrderInv, Before
  <2> QED
    BY <1>3, <2>1, <2>3 DEF OrderInv, Grows
<1> QED
  BY <1>2, <1>3 DEF DiskStep

(* What the calls have read, and have to read, keeps its place.             *)
LEMMA ReadersStand ==
  ASSUME TypeOK, DiskInv, FilesInv, ReadInv, NEW e, NewEntry(e), DiskStep(e), UNCHANGED replay
  PROVE  FilesInv' /\ ReadInv'
<1>0. /\ rotated \in Seq(Seq(Line)) /\ primary \in Seq(Line) /\ e \in Line /\ Torn \in Line /\ e # Torn
      /\ DOMAIN rotated = 1..Len(rotated) /\ Len(rotated) \in Nat /\ e \in Entries
      /\ recorded \subseteq recorded'
  BY TornIsNoEntry, LenProperties, DiskGains DEF TypeOK, Line, NewEntry
<1>1. rotated' = rotated
  BY DEF DiskStep, Stays, Grows
<1>2. Lines(primary') \subseteq Lines(primary) \union {e, Torn} /\ Lines(primary) \subseteq Lines(primary')
  <2>1. CASE Stays(e)
    BY <2>1 DEF Stays
  <2>2. ASSUME NEW x \in {e, Torn}, Grows(x) PROVE Lines(primary') = Lines(primary) \union {x}
    BY <1>0, <2>2, LinesAppend DEF Grows
  <2> QED
    BY <2>1, <2>2 DEF DiskStep
<1>3. ASSUME NEW r \in Replayers, NEW i \in DOMAIN replay[r].files
      PROVE  replay[r].files[i] \in 0..Len(rotated') /\ Before(replay[r].got, Content(replay[r].files[i])')
  <2> DEFINE f == replay[r].files[i]
  <2>1. f \in 0..Len(rotated) /\ Before(replay[r].got, Content(f))
    BY <1>3 DEF FilesInv, FilesOf
  <2>2. \A x \in Lines(replay[r].got) : x \in recorded /\ x.n < e.n
    BY DEF ReadInv, ReadOf, DiskInv, NewEntry, TypeOK, Entries
  <2>3. Lines(Content(f)') \subseteq Lines(Content(f)) \union {e, Torn}
    BY <1>1, <1>2 DEF Content
  <2> QED
    BY <1>0, <1>1, <2>1, <2>2, <2>3 DEF Before
<1>4. FilesInv'
  BY <1>3 DEF FilesInv, FilesOf
<1>5. \A f : Lines(Content(f)) \subseteq Lines(Content(f)')
  BY <1>1, <1>2 DEF Content
<1>6. ASSUME NEW r \in Replayers, NEW d, Found(r, d) PROVE Found(r, d)'
  BY <1>1, <1>5, <1>6 DEF Found
<1>7. ReadInv'
  BY <1>0, <1>1, <1>6 DEF ReadInv, ReadOf
<1> QED
  BY <1>4, <1>7

LEMMA RecordStep ==
  ASSUME ReplayInv, NEW id \in Ids, NEW ch \in Channels, recordTerminalFailure(id, ch)
  PROVE  ReplayInv'
<1>0. TypeOK /\ DiskInv /\ OrderInv /\ FilesInv /\ ReadInv /\ MaxEntries \in Nat
  BY DLQAssumption DEF ReplayInv, DLQInv
<1>1. /\ UNCHANGED <<ledger, seen, sticky, sidecar, replay, sent, calls, crashes>>
      /\ written' \in Nat
      /\ faults' \in 0..MaxFaults /\ faults' >= faults
      /\ exists' \in BOOLEAN /\ handle' \in {"open", "moved", "stale"}
      /\ ~exists' => primary' = <<>> /\ handle' # "open"
  BY <1>0, RecordMoves
<1>2. PICK e : NewEntry(e) /\ DiskStep(e)
  BY <1>0, RecordMoves
<1>3. /\ rotated' \in Seq(Seq(Line)) /\ primary' \in Seq(Line)
      /\ recorded \subseteq recorded' /\ recorded' \subseteq recorded \union {e}
      /\ OnDisk \subseteq OnDisk' /\ OnDisk' \subseteq OnDisk \union recorded' \union {Torn}
      /\ recorded' \subseteq recorded \union OnDisk' \/ Torn \in OnDisk'
  BY <1>0, <1>2, DiskGains DEF NewEntry
<1>4. TypeOK'
  <2>1. recorded' \subseteq Entries /\ count' \in 0..MaxEntries
    BY <1>0, <1>2, <1>3 DEF NewEntry, TypeOK, Entries
  <2> QED
    BY <1>0, <1>1, <1>3, <2>1 DEF TypeOK, Line
<1>5. NothingRecordedLost'
  BY <1>3 DEF ReplayInv, DLQInv, NothingRecordedLost
<1>6. MarkedWasDelivered'
  BY <1>1, <1>3 DEF ReplayInv, DLQInv, MarkedWasDelivered
<1>7. DiskInv'
  <2>1. \A d \in recorded : d.n \in Nat /\ d.n <= count /\ d.n # e.n
    BY <1>0, <1>2 DEF TypeOK, DiskInv, NewEntry, Entries
  <2>2. \A d \in recorded' : d.n <= count'
    <3>1. count \in Nat /\ count' = count + 1 /\ e.n = count'
      BY <1>0, <1>2 DEF NewEntry, TypeOK
    <3> QED
      BY <1>3, <2>1, <3>1
  <2>3. \A c, d \in recorded' : c.n = d.n => c = d
    BY <1>0, <1>3, <2>1 DEF DiskInv
  <2> QED
    BY <1>0, <1>1, <1>3, <2>2, <2>3 DEF DiskInv
<1>8. OrderInv' /\ FilesInv' /\ ReadInv'
  BY <1>0, <1>1, <1>2, DiskStaysOrdered, ReadersStand
<1>9. SendInv' /\ ReadIsChronological' /\ LedgerInv'
  BY <1>0, <1>1 DEF ReplayInv, SendInv, SendOf, Known, Current, ReadIsChronological, LedgerInv, TypeOK
<1> QED
  BY <1>4, <1>5, <1>6, <1>7, <1>8, <1>9 DEF ReplayInv, DLQInv

-----------------------------------------------------------------------------
(* rotateLocked.                                                            *)

(* Renaming takes the active file behind the rotated ones: nothing is lost, *)
(* the order stays, and what a call was going to find in the active file is *)
(* in a file with a number it has not listed.                               *)
LEMMA RenameStep == ReplayInv /\ Rename => ReplayInv'
<1> SUFFICES ASSUME ReplayInv, Rename PROVE ReplayInv'
  OBVIOUS
<1>0. TypeOK /\ DiskInv /\ OrderInv /\ FilesInv /\ ReadInv /\ NothingRecordedLost
  BY DEF ReplayInv, DLQInv
<1>1. /\ rotated' = Append(rotated, primary) /\ primary' = <<>> /\ exists' = FALSE /\ handle' = "moved"
      /\ UNCHANGED <<written, ledger, seen, sticky, sidecar, replay, recorded, sent, count, calls, crashes, faults>>
  BY DEF Rename, marks
<1>2. /\ rotated \in Seq(Seq(Line)) /\ primary \in Seq(Line)
      /\ DOMAIN rotated = 1..Len(rotated) /\ Len(rotated) \in Nat
  BY <1>0, LenProperties DEF TypeOK, Line
<1>3. /\ rotated' \in Seq(Seq(Line)) /\ Lines(rotated') = Lines(rotated) \union {primary}
      /\ Len(rotated') = Len(rotated) + 1
  BY <1>1, <1>2, LinesAppend, AppendProperties
<1>4. /\ DOMAIN rotated' = 1..Len(rotated) + 1 /\ rotated'[Len(rotated) + 1] = primary
      /\ \A f \in 1..Len(rotated) : rotated'[f] = rotated[f]
  BY <1>1, <1>2, <1>3, AppendProperties, LenProperties
<1>5. \A f \in 1..Len(rotated) + 1 : f \in DOMAIN rotated \/ f = Len(rotated) + 1
  BY <1>2
<1>6. OnDisk' = OnDisk
  <2>1. /\ OnDisk = Lines(primary) \union UNION {Lines(q) : q \in Lines(rotated)}
        /\ OnDisk' = Lines(primary') \union UNION {Lines(q) : q \in Lines(rotated')}
    BY DEF OnDisk, Lines
  <2> QED
    BY <1>1, <1>3, <2>1, LinesNone
<1>7. TypeOK'
  <2>1. primary' \in Seq(Line)
    BY <1>1, EmptySeq
  <2> QED
    BY <1>0, <1>1, <1>3, <2>1 DEF TypeOK, Line
<1>8. NothingRecordedLost' /\ MarkedWasDelivered' /\ DiskInv' /\ LedgerInv'
  BY <1>0, <1>1, <1>6 DEF ReplayInv, DLQInv, NothingRecordedLost, MarkedWasDelivered, DiskInv, LedgerInv
<1>9. OrderInv'
  <2>1. Ordered(primary') /\ Lines(primary') = {}
    BY <1>1, OrderedShort, LinesNone
  <2>2. \A f \in DOMAIN rotated' : Ordered(rotated'[f]) /\ Before(rotated'[f], primary')
    BY <1>0, <1>2, <1>4, <1>5, <2>1 DEF OrderInv, Before
  <2>3. ASSUME NEW f \in DOMAIN rotated', NEW g \in DOMAIN rotated', f < g
        PROVE  Before(rotated'[f], rotated'[g])
    <3>1. f \in 1..Len(rotated) /\ rotated'[f] = rotated[f]
      BY <1>2, <1>4, <2>3
    <3>2. CASE g = Len(rotated) + 1
      BY <1>0, <1>2, <1>4, <3>1, <3>2 DEF OrderInv
    <3>3. CASE g \in 1..Len(rotated)
      BY <1>0, <1>2, <1>4, <2>3, <3>1, <3>3 DEF OrderInv
    <3> QED
      BY <1>2, <1>4, <1>5, <3>2, <3>3
  <2> QED
    BY <2>1, <2>2, <2>3 DEF OrderInv
<1>10. FilesInv'
  <2>1. ASSUME NEW r \in Replayers, NEW i \in DOMAIN replay[r].files
        PROVE  replay[r].files[i] \in 0..Len(rotated') /\ Before(replay[r].got, Content(replay[r].files[i])')
    <3> DEFINE f == replay[r].files[i]
    <3>1. f \in 0..Len(rotated) /\ Before(replay[r].got, Content(f))
      BY <1>0, <2>1 DEF FilesInv, FilesOf
    <3>2. Lines(Content(f)') \subseteq Lines(Content(f))
      BY <1>1, <1>2, <1>4, <3>1, LinesNone DEF Content, Primary
    <3> QED
      BY <1>2, <1>3, <3>1, <3>2 DEF Before
  <2> QED
    BY <1>0, <1>1, <2>1 DEF FilesInv, FilesOf
<1>11. ReadInv'
  <2>1. ASSUME NEW r \in Replayers, NEW e \in replay[r].due PROVE Found(r, e)'
    <3>1. Found(r, e) /\ replay[r].listed <= Len(rotated) /\ replay[r].listed \in Nat
      BY <1>0, <2>1 DEF ReadInv, ReadOf, TypeOK
    <3>2. CASE e \in Lines(replay[r].got)
      BY <1>1, <3>2 DEF Found
    <3>3. ASSUME NEW f \in Lines(replay[r].files), e \in Lines(Content(f)) PROVE Found(r, e)'
      <4>1. CASE f = Primary
        <5>1. e \in Lines(rotated'[Len(rotated) + 1])
          BY <1>4, <3>3, <4>1 DEF Content
        <5>2. Len(rotated) + 1 \in DOMAIN rotated' /\ replay[r].listed < Len(rotated) + 1
          BY <1>2, <1>4, <3>1
        <5> QED
          BY <1>1, <5>1, <5>2 DEF Found
      <4>2. CASE f # Primary
        <5>1. f \in 1..Len(rotated)
          BY <1>0, <1>2, <3>3, <4>2 DEF FilesInv, FilesOf, Lines, Primary
        <5>2. e \in Lines(Content(f)')
          BY <1>4, <3>3, <4>2, <5>1 DEF Content
        <5> QED
          BY <1>1, <3>3, <5>2 DEF Found
      <4> QED
        BY <4>1, <4>2
    <3>4. ASSUME NEW i \in DOMAIN rotated, replay[r].listed < i, e \in Lines(rotated[i]) PROVE Found(r, e)'
      <4>1. i \in DOMAIN rotated' /\ rotated'[i] = rotated[i]
        BY <1>2, <1>4, <3>4
      <4> QED
        BY <1>1, <3>4, <4>1 DEF Found
    <3> QED
      BY <3>1, <3>2, <3>3, <3>4 DEF Found
  <2>2. \A r \in Replayers : replay[r].listed <= Len(rotated')
    <3>1. \A r \in Replayers : replay[r].listed \in Nat /\ replay[r].listed <= Len(rotated)
      BY <1>0 DEF ReadInv, ReadOf, TypeOK
    <3> QED
      BY <1>2, <1>3, <3>1
  <2> QED
    BY <1>0, <1>1, <2>1, <2>2 DEF ReadInv, ReadOf
<1>12. SendInv' /\ ReadIsChronological'
  BY <1>1 DEF ReplayInv, SendInv, SendOf, Known, Current, ReadIsChronological
<1> QED
  BY <1>7, <1>8, <1>9, <1>10, <1>11, <1>12 DEF ReplayInv, DLQInv

(* Opening a new active file changes none of the files.                     *)
LEMMA ReopenStep == ReplayInv /\ Reopen => ReplayInv'
<1> SUFFICES ASSUME ReplayInv, Reopen PROVE ReplayInv'
  OBVIOUS
<1>1. /\ exists' = TRUE /\ handle' = "open" /\ written' = 0
      /\ UNCHANGED <<rotated, primary, ledger, seen, sticky, sidecar, replay, recorded, sent, count, calls, crashes, faults>>
  BY DEF Reopen, marks
<1>2. TypeOK' /\ DiskInv' /\ NothingRecordedLost' /\ MarkedWasDelivered' /\ LedgerInv'
  BY <1>1 DEF ReplayInv, DLQInv, TypeOK, DiskInv, NothingRecordedLost, MarkedWasDelivered, LedgerInv, OnDisk
<1>3. OrderInv' /\ FilesInv' /\ ReadInv' /\ SendInv' /\ ReadIsChronological'
  BY <1>1 DEF ReplayInv, OrderInv, FilesInv, FilesOf, ReadInv, ReadOf, Found, SendInv, SendOf, Known, Current,
     Content, ReadIsChronological
<1> QED
  BY <1>2, <1>3 DEF ReplayInv, DLQInv

-----------------------------------------------------------------------------
(* ReadEntries and ReplayEntries. *)

Call == [pc : {"idle", "read", "next", "send", "mark"},
         todo : Seq(Ids), files : Seq(Nat), got : Seq(Entries), due : SUBSET Entries, listed : Nat]

ChronOf(r) ==
  \A i, j \in DOMAIN replay[r].got : i < j => replay[r].got[i].n < replay[r].got[j].n

(* The last entry that was read for a known id is one that was read.        *)
LEMMA CurrentIsRead ==
  ASSUME TypeOK, NEW r \in Replayers, Known(r)
  PROVE  /\ Current(r) \in Lines(replay[r].got) /\ Current(r) \in Entries
         /\ Current(r).n \in 1..MaxEntries /\ Key(Current(r)) \in Keys
         /\ Current(r).id = Head(replay[r].todo)
<1> DEFINE got == replay[r].got
           H == Hits(got, Head(replay[r].todo))
<1>1. got \in Seq(Entries) /\ Len(got) \in Nat /\ DOMAIN got = 1..Len(got)
  BY LenProperties DEF TypeOK
<1>2. H \subseteq 1..Len(got) /\ H # {}
  BY <1>1 DEF Hits, Known
<1>3. \E i \in H : \A j \in H : j <= i
  <2> HIDE DEF H, got
  <2> QED
    BY <1>1, <1>2, BoundedMax
<1>4. PICK i \in H : Current(r) = got[i]
  <2> DEFINE i == CHOOSE i \in H : \A j \in H : j <= i
  <2>1. i \in H
    BY <1>3
  <2> QED
    BY <2>1 DEF Current, byID
<1>5. Current(r) \in Lines(got) /\ got[i] \in Entries /\ Current(r).id = Head(replay[r].todo)
  BY <1>1, <1>2, <1>4 DEF Lines, Hits
<1> QED
  BY <1>4, <1>5 DEF Entries, Key, Keys

(* A step of one call that leaves the files alone: what has to be shown.    *)
LEMMA CallStep ==
  ASSUME ReplayInv, NEW r \in Replayers, UNCHANGED <<disk, recorded, count>>,
         \A q \in Replayers \ {r} : replay'[q] = replay[q],
         \A n \in 1..MaxEntries : sent'[n] >= sent[n],
         TypeOK', LedgerInv', MarkedWasDelivered',
         FilesOf(r)', ReadOf(r)', SendOf(r)', ChronOf(r)'
  PROVE  ReplayInv'
<1>1. NothingRecordedLost' /\ DiskInv' /\ OrderInv'
  BY DEF ReplayInv, DLQInv, NothingRecordedLost, DiskInv, OrderInv, disk, OnDisk
<1>2. ASSUME NEW q \in Replayers, q # r PROVE FilesOf(q)' /\ ReadOf(q)' /\ SendOf(q)' /\ ChronOf(q)'
  <2>1. replay'[q] = replay[q] /\ FilesOf(q) /\ ReadOf(q) /\ SendOf(q) /\ ChronOf(q)
    BY <1>2 DEF ReplayInv, FilesInv, ReadInv, SendInv, ReadIsChronological, ChronOf
  <2>2. FilesOf(q)' /\ ReadOf(q)' /\ ChronOf(q)'
    BY <2>1 DEF FilesOf, ReadOf, Found, ChronOf, disk, Content
  <2>3. SendOf(q)'
    <3>1. Current(q)' = Current(q) /\ (Known(q)' <=> Known(q))
      BY <2>1 DEF Current, Known
    <3>2. replay[q].pc = "mark" => Current(q).n \in 1..MaxEntries
      BY <2>1, CurrentIsRead DEF SendOf, ReplayInv, DLQInv
    <3>3. \A n \in 1..MaxEntries : sent[n] > 0 => sent'[n] > 0
      <4>1. sent \in [1..MaxEntries -> Nat] /\ sent' \in [1..MaxEntries -> Nat]
        BY DEF ReplayInv, DLQInv, TypeOK
      <4> QED
        BY <4>1
    <3> QED
      BY <2>1, <3>1, <3>2, <3>3 DEF SendOf
  <2> QED
    BY <2>2, <2>3
<1>3. FilesInv' /\ ReadInv' /\ SendInv' /\ ReadIsChronological'
  BY <1>2 DEF FilesInv, ReadInv, SendInv, ReadIsChronological, ChronOf
<1> QED
  BY <1>1, <1>3 DEF ReplayInv, DLQInv


(* The names of the files: the rotated ones in order, then the active one.  *)
LEMMA GlobNames ==
  ASSUME TypeOK
  PROVE  /\ Glob \in Seq(Nat)
         /\ \A i \in DOMAIN Glob : Glob[i] \in 0..Len(rotated)
         /\ \A i, j \in DOMAIN Glob : i < j => Glob[i] # Primary /\ (Glob[j] = Primary \/ Glob[i] < Glob[j])
         /\ exists => Primary \in Lines(Glob)
         /\ DOMAIN rotated \subseteq Lines(Glob)
<1> DEFINE m == Len(rotated)
           g == [i \in DOMAIN rotated |-> i]
           last == IF exists THEN <<Primary>> ELSE <<>>
<1>1. m \in Nat /\ DOMAIN rotated = 1..m
  BY LenProperties DEF TypeOK
<1>2. g \in Seq(Nat) /\ Len(g) = m /\ \A i \in 1..m : g[i] = i
  BY <1>1
<1>3. last \in Seq(Nat) /\ Len(last) = (IF exists THEN 1 ELSE 0) /\ (exists => last[1] = Primary)
  BY DEF Primary
<1>10. Glob = g \o last
  BY DEF Glob
<1> HIDE DEF g, last
<1>11. \A i \in 1..Len(g) + Len(last) : (g \o last)[i] = IF i <= Len(g) THEN g[i] ELSE last[i - Len(g)]
  BY <1>2, <1>3, ConcatProperties
<1>12. g \o last \in Seq(Nat) /\ Len(g \o last) = Len(g) + Len(last)
  BY <1>2, <1>3, ConcatProperties
<1>4. /\ g \o last \in Seq(Nat) /\ Len(g \o last) = m + Len(last)
      /\ \A i \in 1..m + Len(last) : (g \o last)[i] = IF i <= m THEN g[i] ELSE last[i - m]
  BY <1>2, <1>11, <1>12
<1>5. DOMAIN (g \o last) = 1..m + Len(last)
  BY <1>4, LenProperties
<1>7. CASE exists
  <2>1. /\ DOMAIN Glob = 1..m + 1 /\ Glob[m + 1] = 0
        /\ \A i \in 1..m : Glob[i] = i
    BY <1>1, <1>2, <1>3, <1>4, <1>5, <1>10, <1>7 DEF Primary
  <2> QED
    <3>1. Glob \in Seq(Nat) /\ Primary \in Lines(Glob)
      <4>1. m + 1 \in DOMAIN Glob /\ Glob[m + 1] = Primary
        BY <1>1, <2>1 DEF Primary
      <4>2. Primary \in Lines(Glob)
        BY <4>1 DEF Lines
      <4> QED
        BY <1>4, <1>10, <4>2
    <3>4. DOMAIN rotated \subseteq Lines(Glob)
      <4>1. \A i \in 1..m : i \in DOMAIN Glob /\ Glob[i] = i
        BY <1>1, <2>1
      <4> QED
        BY <1>1, <4>1 DEF Lines
    <3>2. \A i \in DOMAIN Glob : Glob[i] \in 0..Len(rotated)
      BY <1>1, <2>1
    <3>3. \A i, j \in DOMAIN Glob : i < j => Glob[i] # 0 /\ (Glob[j] = 0 \/ Glob[i] < Glob[j])
      BY <1>1, <2>1
    <3> QED
      BY <3>1, <3>2, <3>3, <3>4 DEF Primary
<1>8. CASE ~exists
  <2>1. DOMAIN Glob = 1..m /\ \A i \in 1..m : Glob[i] = i
    BY <1>1, <1>2, <1>3, <1>4, <1>5, <1>10, <1>8
  <2> QED
    <3>1. Glob \in Seq(Nat)
      BY <1>4, <1>10
    <3>4. DOMAIN rotated \subseteq Lines(Glob)
      BY <1>1, <2>1 DEF Lines
    <3>2. \A i \in DOMAIN Glob : Glob[i] \in 0..Len(rotated)
      BY <1>1, <2>1
    <3>3. \A i, j \in DOMAIN Glob : i < j => Glob[i] # 0 /\ (Glob[j] = 0 \/ Glob[i] < Glob[j])
      BY <1>1, <2>1
    <3> QED
      BY <1>8, <3>1, <3>2, <3>3, <3>4 DEF Primary
<1> QED
  BY <1>7, <1>8

(* A call that has nothing keeps every promise.                             *)
LEMMA FreeCall ==
  ASSUME NEW r \in Replayers, replay'[r] = Free
  PROVE  FilesOf(r)' /\ SendOf(r)' /\ ChronOf(r)' /\ (TypeOK' => ReadOf(r)')
<1>1. FilesOf(r)' /\ SendOf(r)' /\ ChronOf(r)'
  BY DEF Free, FilesOf, SendOf, ChronOf, Lines
<1>2. ASSUME TypeOK' PROVE ReadOf(r)'
  <2>1. Len(rotated') \in Nat
    BY <1>2, LenProperties DEF TypeOK
  <2>2. 0 <= Len(rotated')
    BY <2>1
  <2> QED
    BY <2>2 DEF Free, ReadOf, Lines
<1> QED
  BY <1>1, <1>2

LEMMA FreeIsCall == Free \in Call
  BY EmptySeq DEF Free, Call

LEMMA StartStep ==
  ASSUME ReplayInv, NEW r \in Replayers, NEW ids \in Requests, StartReplay(r, ids)
  PROVE  ReplayInv'
<1> DEFINE c == [pc |-> "read", todo |-> ids, files |-> Glob, got |-> <<>>,
                 due |-> OnDisk \ {Torn}, listed |-> Len(rotated)]
<1>0. TypeOK /\ LedgerInv /\ MarkedWasDelivered /\ DiskInv
  BY DEF ReplayInv, DLQInv
<1>1. /\ replay' = [replay EXCEPT ![r] = c] /\ calls' = calls + 1 /\ calls < MaxReplays
      /\ UNCHANGED <<disk, marks, sidecar, recorded, sent, count, crashes, faults>>
  BY DEF StartReplay
<1>10. OnDisk \ {Torn} \subseteq recorded /\ Len(rotated) \in Nat
  BY <1>0, LenProperties DEF DiskInv, TypeOK
<1>2. c \in Call
  BY <1>0, <1>10, GlobNames, DLQAssumption, EmptySeq DEF Call, TypeOK
<1>3. replay'[r] = c /\ \A q \in Replayers \ {r} : replay'[q] = replay[q]
  BY <1>0, <1>1 DEF TypeOK
<1>4. TypeOK'
  <2>1. replay' \in [Replayers -> Call]
    BY <1>0, <1>1, <1>2 DEF TypeOK, Call
  <2>2. calls' \in 0..MaxReplays
    BY <1>0, <1>1, DLQAssumption DEF TypeOK
  <2> QED
    BY <1>0, <1>1, <2>1, <2>2 DEF TypeOK, disk, marks, Call
<1>5. LedgerInv' /\ MarkedWasDelivered'
  BY <1>0, <1>1 DEF LedgerInv, MarkedWasDelivered, marks
<1>6. FilesOf(r)'
  BY <1>0, <1>1, <1>3, GlobNames, LinesNone DEF FilesOf, Before, disk
<1>7. ReadOf(r)'
  <2>1. ~exists => Lines(primary) = {}
    BY <1>0, LinesNone DEF DiskInv
  <2>2. ASSUME NEW e \in OnDisk \ {Torn} PROVE \E f \in Lines(Glob) : e \in Lines(Content(f))
    <3>1. CASE e \in Lines(primary)
      <4>1. Primary \in Lines(Glob) /\ Content(Primary) = primary
        BY <1>0, <2>1, <3>1, GlobNames DEF Content, TypeOK
      <4> QED
        BY <3>1, <4>1
    <3>2. ASSUME NEW i \in DOMAIN rotated, e \in Lines(rotated[i])
          PROVE  \E f \in Lines(Glob) : e \in Lines(Content(f))
      <4>1. i # Primary
        BY <1>0, LenProperties DEF TypeOK, Primary
      <4> QED
        BY <1>0, <3>2, <4>1, GlobNames DEF Content
    <3> QED
      BY <3>1, <3>2 DEF OnDisk
  <2>3. \A e \in OnDisk \ {Torn} : Found(r, e)'
    BY <1>1, <1>3, <2>2 DEF Found, Content, disk
  <2>4. Lines(replay'[r].got) = {} /\ Len(rotated) <= Len(rotated)
    BY <1>3, <1>10, LinesNone
  <2> QED
    BY <1>1, <1>3, <1>10, <2>3, <2>4 DEF ReadOf, disk
<1>8. SendOf(r)' /\ ChronOf(r)'
  BY <1>3 DEF SendOf, ChronOf
<1>9. \A n \in 1..MaxEntries : sent'[n] >= sent[n]
  <2>1. sent \in [1..MaxEntries -> Nat] /\ sent' = sent
    BY <1>0, <1>1 DEF TypeOK
  <2> QED
    BY <2>1
<1> QED
  BY <1>1, <1>3, <1>4, <1>5, <1>6, <1>7, <1>8, <1>9, CallStep

(* What a call finds in a file it has the name of.                          *)
LEMMA FileContent ==
  ASSUME TypeOK, NEW f \in 0..Len(rotated)
  PROVE  Content(f) \in Seq(Line) /\ (f # Primary => f \in DOMAIN rotated)
<1>1. rotated \in Seq(Seq(Line)) /\ primary \in Seq(Line) /\ DOMAIN rotated = 1..Len(rotated)
      /\ Len(rotated) \in Nat
  BY LenProperties DEF TypeOK, Line
<1>2. f # 0 => f \in 1..Len(rotated) /\ rotated[f] \in Seq(Line)
  BY <1>1, ElementOfSeq
<1> QED
  BY <1>1, <1>2 DEF Content, Primary

(* Without a torn line a file is a sequence of entries.                     *)
LEMMA WholeFile ==
  ASSUME NEW s \in Seq(Line), Torn \notin Lines(s)
  PROVE  s \in Seq(Entries)
<1>1. /\ Len(s) \in Nat /\ s \in [1..Len(s) -> Line] /\ DOMAIN s = 1..Len(s)
  BY LenProperties
<1>2. \A i \in 1..Len(s) : s[i] \in Entries
  BY <1>1 DEF Lines, Line
<1>3. s \in [1..Len(s) -> Entries]
  BY <1>1, <1>2
<1> QED
  BY <1>1, <1>3

(* Entries in order followed by newer entries in order are in order.        *)
LEMMA ChronologicalConcat ==
  ASSUME NEW s \in Seq(Entries), NEW t \in Seq(Entries),
         \A i, j \in DOMAIN s : i < j => s[i].n < s[j].n,
         Ordered(t), Before(s, t)
  PROVE  \A i, j \in DOMAIN (s \o t) : i < j => (s \o t)[i].n < (s \o t)[j].n
<1>1. /\ s \o t \in Seq(Entries) /\ Len(s \o t) = Len(s) + Len(t)
      /\ \A i \in 1 .. Len(s) + Len(t) : (s \o t)[i] = IF i <= Len(s) THEN s[i] ELSE t[i - Len(s)]
  BY ConcatProperties
<1>2. /\ Len(s) \in Nat /\ DOMAIN s = 1..Len(s) /\ Len(t) \in Nat /\ DOMAIN t = 1..Len(t)
      /\ DOMAIN (s \o t) = 1..Len(s) + Len(t)
      /\ \A i \in DOMAIN s : s[i] # Torn /\ s[i] \in Lines(s)
      /\ \A i \in DOMAIN t : t[i] # Torn /\ t[i] \in Lines(t)
  BY <1>1, LenProperties, ElementOfSeq, TornIsNoEntry DEF Lines
<1> SUFFICES ASSUME NEW i \in 1..Len(s) + Len(t), NEW j \in 1..Len(s) + Len(t), i < j
             PROVE  (s \o t)[i].n < (s \o t)[j].n
  BY <1>2
<1>3. CASE j <= Len(s)
  <2>1. i \in DOMAIN s /\ j \in DOMAIN s /\ (s \o t)[i] = s[i] /\ (s \o t)[j] = s[j]
    BY <1>1, <1>2, <1>3
  <2> QED
    BY <2>1
<1>4. CASE i > Len(s)
  <2>1. /\ i - Len(s) \in DOMAIN t /\ j - Len(s) \in DOMAIN t /\ i - Len(s) < j - Len(s)
        /\ (s \o t)[i] = t[i - Len(s)] /\ (s \o t)[j] = t[j - Len(s)]
    BY <1>1, <1>2, <1>4
  <2> QED
    BY <1>2, <2>1 DEF Ordered
<1>5. CASE i <= Len(s) /\ j > Len(s)
  <2>1. /\ i \in DOMAIN s /\ j - Len(s) \in DOMAIN t
        /\ (s \o t)[i] = s[i] /\ (s \o t)[j] = t[j - Len(s)]
    BY <1>1, <1>2, <1>5
  <2> QED
    BY <1>2, <2>1 DEF Before
<1> QED
  BY <1>2, <1>3, <1>4, <1>5

LEMMA ReadFileStep ==
  ASSUME ReplayInv, NEW r \in Replayers, ReadFile(r)
  PROVE  ReplayInv'
<1> DEFINE c == replay[r]
           f == Head(c.files)
<1>0. TypeOK /\ LedgerInv /\ MarkedWasDelivered /\ DiskInv /\ OrderInv /\ FilesOf(r) /\ ReadOf(r) /\ ChronOf(r)
  BY DEF ReplayInv, DLQInv, FilesInv, ReadInv, ReadIsChronological, ChronOf
<1>1. /\ c.pc = "read" /\ c.files # <<>>
      /\ UNCHANGED <<disk, marks, sidecar, recorded, sent, count, calls, crashes, faults>>
  BY DEF ReadFile
<1>2. c \in Call
  BY <1>0 DEF TypeOK, Call
<1>3. LedgerInv' /\ MarkedWasDelivered'
  BY <1>0, <1>1 DEF LedgerInv, MarkedWasDelivered, marks
<1>4. \A n \in 1..MaxEntries : sent'[n] >= sent[n]
  <2>1. sent \in [1..MaxEntries -> Nat] /\ sent' = sent
    BY <1>0, <1>1 DEF TypeOK
  <2> QED
    BY <2>1
<1>5. ASSUME NEW d \in Call, replay' = [replay EXCEPT ![r] = d]
      PROVE  /\ TypeOK' /\ replay'[r] = d /\ \A q \in Replayers \ {r} : replay'[q] = replay[q]
  BY <1>0, <1>1, <1>5 DEF TypeOK, disk, marks, Call
<1>6. CASE FileGone(f) \/ Torn \in Lines(Content(f))
  <2>1. replay' = [replay EXCEPT ![r] = Free]
    BY <1>6 DEF ReadFile
  <2> QED
    BY <1>1, <1>3, <1>4, <1>5, <2>1, FreeIsCall, FreeCall, CallStep
<1>7. CASE ~(FileGone(f) \/ Torn \in Lines(Content(f)))
  <2> DEFINE d == [c EXCEPT !.files = Tail(c.files), !.got = c.got \o Content(f)]
  <2>1. replay' = [replay EXCEPT ![r] = d]
    BY <1>0, <1>7 DEF ReadFile, TypeOK
  <2>2. /\ c.files \in Seq(Nat) /\ c.got \in Seq(Entries) /\ c.files # <<>>
        /\ Len(c.files) \in Nat /\ DOMAIN c.files = 1..Len(c.files) /\ 1 \in DOMAIN c.files /\ f = c.files[1]
        /\ Tail(c.files) \in Seq(Nat) /\ DOMAIN Tail(c.files) = 1..Len(c.files) - 1
        /\ \A i \in 1..Len(c.files) - 1 : Tail(c.files)[i] = c.files[i + 1]
    BY <1>1, <1>2, HeadTailProperties, LenProperties, EmptySeq DEF Call
  <2>3. /\ f \in 0..Len(rotated) /\ Before(c.got, Content(f))
        /\ Content(f) \in Seq(Entries)
    BY <1>0, <1>7, <2>2, FileContent, WholeFile DEF FilesOf
  <2>4. Ordered(Content(f)) /\ Lines(Content(f)) \subseteq recorded
    <3>1. f # Primary => f \in DOMAIN rotated
      BY <1>0, <2>3, FileContent
    <3>2. Lines(Content(f)) \subseteq OnDisk
      BY <3>1 DEF Content, OnDisk
    <3> QED
      BY <1>0, <1>7, <3>1, <3>2 DEF OrderInv, Content, DiskInv
  <2>5. /\ c.got \o Content(f) \in Seq(Entries)
        /\ Lines(c.got \o Content(f)) = Lines(c.got) \union Lines(Content(f))
    BY <2>2, <2>3, ConcatProperties, LinesConcat
  <2>6. d \in Call /\ d.files = Tail(c.files) /\ d.got = c.got \o Content(f) /\ d.due = c.due /\ d.pc = "read"
        /\ d.listed = c.listed
    BY <1>1, <1>2, <2>2, <2>5 DEF Call
  <2> HIDE DEF d
  <2>7. TypeOK' /\ replay'[r] = d /\ \A q \in Replayers \ {r} : replay'[q] = replay[q]
    BY <1>5, <2>1, <2>6
  <2>8. ChronOf(r)'
    <3>1. \A i, j \in DOMAIN c.got : i < j => c.got[i].n < c.got[j].n
      BY <1>0 DEF ChronOf
    <3>2. \A i, j \in DOMAIN d.got : i < j => d.got[i].n < d.got[j].n
      BY <2>2, <2>3, <2>4, <2>6, <3>1, ChronologicalConcat
    <3> QED
      BY <2>7, <3>2 DEF ChronOf
  <2>9. ReadOf(r)'
    <3>1. ASSUME NEW e \in c.due
          PROVE  Found(r, e)'
      <4>1. CASE e \in Lines(c.got) \/ e \in Lines(Content(f))
        BY <2>5, <2>6, <2>7, <4>1 DEF Found
      <4>2. ASSUME NEW g \in Lines(c.files), g # f, e \in Lines(Content(g)) PROVE Found(r, e)'
        <5>1. PICK i \in DOMAIN c.files : c.files[i] = g
          BY <4>2 DEF Lines
        <5>2. i # 1 /\ i \in 1..Len(c.files) /\ Len(c.files) \in Nat
          BY <2>2, <4>2, <5>1
        <5>3. i - 1 \in 1..Len(c.files) - 1 /\ (i - 1) + 1 = i
          BY <5>2
        <5>4. i - 1 \in DOMAIN d.files /\ d.files[i - 1] = g
          BY <2>2, <2>6, <5>1, <5>3
        <5>5. g \in Lines(d.files)
          BY <5>4 DEF Lines
        <5> QED
          BY <1>1, <2>7, <4>2, <5>5 DEF Found, Content, disk
      <4>3. CASE \E i \in DOMAIN rotated : c.listed < i /\ e \in Lines(rotated[i])
        BY <1>1, <2>6, <2>7, <4>3 DEF Found, disk
      <4>4. Found(r, e)
        BY <1>0, <3>1 DEF ReadOf
      <4> QED
        BY <4>1, <4>2, <4>3, <4>4 DEF Found
    <3>2. Lines(d.got) \subseteq recorded
      BY <1>0, <2>4, <2>5, <2>6 DEF ReadOf
    <3> QED
      BY <1>0, <1>1, <2>6, <2>7, <3>1, <3>2 DEF ReadOf, disk
  <2>10. FilesOf(r)'
    <3>1. ASSUME NEW i \in DOMAIN d.files
          PROVE  d.files[i] \in 0..Len(rotated) /\ Before(d.got, Content(d.files[i]))
      <4>1. /\ i + 1 \in DOMAIN c.files /\ 1 < i + 1 /\ d.files[i] = c.files[i + 1]
        BY <2>2, <2>6
      <4>2. /\ d.files[i] \in 0..Len(rotated) /\ Before(c.got, Content(d.files[i]))
            /\ f # Primary /\ (d.files[i] = Primary \/ f < d.files[i])
        BY <1>0, <2>2, <4>1 DEF FilesOf
      <4>3. Before(Content(f), Content(d.files[i]))
        BY <1>0, <2>3, <4>2, FileContent DEF OrderInv, Content
      <4> QED
        BY <2>5, <2>6, <4>2, <4>3 DEF Before
    <3>2. ASSUME NEW i \in DOMAIN d.files, NEW j \in DOMAIN d.files, i < j
          PROVE  d.files[i] # Primary /\ (d.files[j] = Primary \/ d.files[i] < d.files[j])
      <4>1. /\ i + 1 \in DOMAIN c.files /\ j + 1 \in DOMAIN c.files /\ i + 1 < j + 1
            /\ d.files[i] = c.files[i + 1] /\ d.files[j] = c.files[j + 1]
        <5>1. i \in 1..Len(c.files) - 1 /\ j \in 1..Len(c.files) - 1
          BY <2>2, <2>6
        <5>2. d.files[i] = c.files[i + 1] /\ d.files[j] = c.files[j + 1]
          BY <2>2, <2>6, <5>1
        <5>3. Len(c.files) \in Nat /\ DOMAIN c.files = 1..Len(c.files)
          BY <2>2
        <5>4. i + 1 \in 1..Len(c.files) /\ j + 1 \in 1..Len(c.files) /\ i + 1 < j + 1
          BY <3>2, <5>1, <5>3
        <5> QED
          BY <5>2, <5>3, <5>4
      <4> QED
        BY <1>0, <4>1 DEF FilesOf
    <3>3. UNCHANGED <<rotated, primary>>
      BY <1>1 DEF disk
    <3> QED
      BY <2>7, <3>1, <3>2, <3>3 DEF FilesOf, Content
  <2>11. SendOf(r)'
    BY <2>6, <2>7 DEF SendOf
  <2> QED
    BY <1>1, <1>3, <1>4, <2>7, <2>8, <2>9, <2>10, <2>11, CallStep
<1> QED
  BY <1>6, <1>7

(* A step of a call that has read its files.                                *)
LEMMA AfterReading ==
  ASSUME ReplayInv, NEW r \in Replayers, NEW pc \in {"next", "send", "mark"}, NEW todo \in Seq(Ids),
         replay' = [replay EXCEPT ![r] = [@ EXCEPT !.pc = pc, !.todo = todo]],
         replay[r].files = <<>>,
         UNCHANGED <<disk, recorded, count, calls, crashes>>,
         sent' \in [1..MaxEntries -> Nat], \A n \in 1..MaxEntries : sent'[n] >= sent[n],
         sidecar' \subseteq Ids, ledger' \subseteq Keys, seen' \subseteq Keys, sticky' \in BOOLEAN,
         faults' \in 0..MaxFaults,
         LedgerInv', MarkedWasDelivered', SendOf(r)'
  PROVE  ReplayInv'
<1>0. TypeOK /\ FilesOf(r) /\ ReadOf(r) /\ ChronOf(r)
  BY DEF ReplayInv, DLQInv, FilesInv, ReadInv, ReadIsChronological, ChronOf
<1> DEFINE d == [replay[r] EXCEPT !.pc = pc, !.todo = todo]
<1>1. replay[r] \in Call /\ replay \in [Replayers -> Call]
  BY <1>0 DEF TypeOK, Call
<1>2. /\ d \in Call /\ d.pc = pc
      /\ d.files = replay[r].files /\ d.got = replay[r].got /\ d.due = replay[r].due
      /\ d.listed = replay[r].listed
  BY <1>1 DEF Call
<1>3. /\ replay' \in [Replayers -> Call] /\ replay'[r] = d
      /\ \A q \in Replayers \ {r} : replay'[q] = replay[q]
  BY <1>1, <1>2
<1> HIDE DEF d
<1>4. TypeOK'
  BY <1>0, <1>3 DEF TypeOK, disk, Call
<1>5. FilesOf(r)' /\ ReadOf(r)' /\ ChronOf(r)'
  BY <1>0, <1>2, <1>3 DEF FilesOf, ReadOf, Found, ChronOf, disk, Content
<1> QED
  BY <1>3, <1>4, <1>5, CallStep

LEMMA OtherCallSteps ==
  ASSUME ReplayInv, NEW r \in Replayers, ReplayStep(r), ~ReadFile(r)
  PROVE  ReplayInv'
<1> DEFINE c == replay[r]
<1>0. TypeOK /\ LedgerInv /\ MarkedWasDelivered /\ ReadOf(r) /\ SendOf(r) /\ DiskInv
  BY DEF ReplayInv, DLQInv, ReadInv, SendInv
<1>1. /\ c \in Call /\ replay \in [Replayers -> Call] /\ c.todo \in Seq(Ids)
      /\ c.pc \in {"next", "send", "mark"} => c.files = <<>>
      /\ c.todo # <<>> => Tail(c.todo) \in Seq(Ids) /\ Head(c.todo) \in Ids
  BY <1>0, HeadTailProperties DEF TypeOK, Call, ReadOf
<1>2. /\ sent \in [1..MaxEntries -> Nat] /\ \A n \in 1..MaxEntries : sent[n] >= sent[n]
      /\ sidecar \subseteq Ids /\ ledger \subseteq Keys /\ seen \subseteq Keys /\ sticky \in BOOLEAN
      /\ faults \in 0..MaxFaults /\ MaxFaults \in Nat
  <2>1. /\ sent \in [1..MaxEntries -> Nat] /\ faults \in 0..MaxFaults /\ MaxFaults \in Nat
        /\ sidecar \subseteq Ids /\ ledger \subseteq Keys /\ seen \subseteq Keys /\ sticky \in BOOLEAN
    BY <1>0, DLQAssumption DEF TypeOK
  <2> QED
    BY <2>1
<1>3. ASSUME NEW pc \in {"next", "send", "mark"}, NEW todo \in Seq(Ids),
             replay' = [replay EXCEPT ![r] = [@ EXCEPT !.pc = pc, !.todo = todo]]
      PROVE  replay'[r].pc = pc /\ replay'[r].todo = todo /\ replay'[r].got = c.got
  BY <1>1, <1>3 DEF Call
<1>4. ASSUME ReadDone(r) \/ SkipUnknown(r) \/ SkipReplayed(r) \/ Take(r)
      PROVE  ReplayInv'
  <2>1. /\ UNCHANGED <<disk, marks, sidecar, recorded, sent, count, calls, crashes, faults>>
        /\ c.files = <<>>
    BY <1>1, <1>4 DEF ReadDone, SkipUnknown, SkipReplayed, Take, HasNext
  <2>2. \E pc \in {"next", "send"}, todo \in Seq(Ids) :
            /\ replay' = [replay EXCEPT ![r] = [@ EXCEPT !.pc = pc, !.todo = todo]]
            /\ pc = "send" => todo = c.todo /\ todo # <<>> /\ Known(r)
    <3>1. CASE ReadDone(r)
      <4>1. replay' = [replay EXCEPT ![r] = [@ EXCEPT !.pc = "next", !.todo = c.todo]]
        BY <1>1, <3>1 DEF ReadDone, Call
      <4> QED
        BY <1>1, <4>1
    <3>2. CASE SkipUnknown(r) \/ SkipReplayed(r)
      <4>1. /\ c.todo # <<>>
            /\ replay' = [replay EXCEPT ![r] = [@ EXCEPT !.pc = "next", !.todo = Tail(c.todo)]]
        BY <1>1, <3>2 DEF SkipUnknown, SkipReplayed, HasNext, Advance, Call
      <4> QED
        BY <1>1, <4>1
    <3>3. CASE Take(r)
      <4>1. /\ c.todo # <<>> /\ Known(r)
            /\ replay' = [replay EXCEPT ![r] = [@ EXCEPT !.pc = "send", !.todo = c.todo]]
        BY <1>1, <3>3 DEF Take, HasNext, Call
      <4> QED
        BY <1>1, <4>1
    <3> QED
      BY <1>4, <3>1, <3>2, <3>3
  <2>3. PICK pc \in {"next", "send"}, todo \in Seq(Ids) :
            /\ replay' = [replay EXCEPT ![r] = [@ EXCEPT !.pc = pc, !.todo = todo]]
            /\ pc = "send" => todo = c.todo /\ todo # <<>> /\ Known(r)
    BY <2>2
  <2>4. SendOf(r)'
    BY <1>3, <2>3 DEF SendOf, Known
  <2>5. LedgerInv' /\ MarkedWasDelivered'
    BY <1>0, <2>1 DEF LedgerInv, MarkedWasDelivered, marks
  <2>6. UNCHANGED <<ledger, seen, sticky>>
    BY <2>1 DEF marks
  <2> QED
    BY <1>2, <2>1, <2>3, <2>4, <2>5, <2>6, AfterReading
<1>5. CASE NotifyOK(r)
  <2>1. /\ c.pc = "send" /\ c.todo # <<>> /\ Known(r) /\ c.files = <<>>
        /\ Current(r).n \in 1..MaxEntries
    BY <1>0, <1>1, <1>5, CurrentIsRead DEF NotifyOK, SendOf
  <2>2. /\ sent' = [sent EXCEPT ![Current(r).n] = @ + 1]
        /\ UNCHANGED <<disk, marks, sidecar, recorded, count, calls, crashes, faults>>
    BY <1>5 DEF NotifyOK
  <2>3. replay' = [replay EXCEPT ![r] = [@ EXCEPT !.pc = "mark", !.todo = c.todo]]
    BY <1>1, <1>5 DEF NotifyOK, Call
  <2>4. /\ sent' \in [1..MaxEntries -> Nat] /\ sent'[Current(r).n] > 0
        /\ \A n \in 1..MaxEntries : sent'[n] >= sent[n]
    BY <1>2, <2>1, <2>2
  <2>5. replay'[r].pc = "mark" /\ replay'[r].todo = c.todo /\ replay'[r].got = c.got
    BY <1>1, <1>3, <2>3
  <2>6. Current(r)' = Current(r) /\ (Known(r)' <=> Known(r))
    BY <2>5 DEF Current, Known
  <2>7. SendOf(r)'
    BY <2>1, <2>4, <2>5, <2>6 DEF SendOf
  <2>8. LedgerInv'
    BY <1>0, <2>2 DEF LedgerInv, marks
  <2>9. MarkedWasDelivered'
    <3>1. \A e \in recorded : e.n \in 1..MaxEntries
      BY <1>0 DEF TypeOK, Entries
    <3>2. \A n \in 1..MaxEntries : sent[n] > 0 => sent'[n] > 0
      BY <1>2, <2>4
    <3> QED
      BY <1>0, <2>2, <3>1, <3>2 DEF MarkedWasDelivered, marks
  <2>10. UNCHANGED <<ledger, seen, sticky>>
    BY <2>2 DEF marks
  <2> QED
    BY <1>1, <1>2, <2>1, <2>2, <2>3, <2>4, <2>7, <2>8, <2>9, <2>10, AfterReading
<1>6. CASE NotifyFails(r)
  <2>1. c.pc = "send" /\ c.todo # <<>> /\ c.files = <<>>
    BY <1>0, <1>1, <1>6 DEF NotifyFails, SendOf
  <2>2. /\ sidecar' \subseteq Ids
        /\ UNCHANGED <<disk, marks, recorded, sent, count, calls, crashes, faults>>
    BY <1>1, <1>2, <1>6, <2>1 DEF NotifyFails
  <2>3. replay' = [replay EXCEPT ![r] = [@ EXCEPT !.pc = "next", !.todo = Tail(c.todo)]]
    BY <1>1, <1>6 DEF NotifyFails, Advance, Call
  <2>4. SendOf(r)'
    BY <1>1, <1>3, <2>1, <2>3 DEF SendOf
  <2>5. LedgerInv' /\ MarkedWasDelivered' /\ UNCHANGED <<ledger, seen, sticky>>
    BY <1>0, <2>2 DEF LedgerInv, MarkedWasDelivered, marks
  <2> QED
    BY <1>1, <1>2, <2>1, <2>2, <2>3, <2>4, <2>5, AfterReading
<1>7. CASE MarkIfNew(r)
  <2> DEFINE key == Key(Current(r))
  <2>1. /\ c.pc = "mark" /\ c.todo # <<>> /\ c.files = <<>> /\ Known(r)
        /\ sent[Current(r).n] > 0 /\ Current(r) \in recorded /\ key \in Keys
    BY <1>0, <1>1, <1>7, CurrentIsRead DEF MarkIfNew, SendOf, ReadOf
  <2>2. UNCHANGED <<disk, sidecar, recorded, sent, count, calls, crashes>>
    BY <1>7 DEF MarkIfNew
  <2>3. replay' = [replay EXCEPT ![r] = [@ EXCEPT !.pc = "next", !.todo = Tail(c.todo)]]
    BY <1>1, <1>7 DEF MarkIfNew, Advance, Call
  <2>4. \/ UNCHANGED <<ledger, seen, sticky, faults>>
        \/ ledger' = ledger \union {key} /\ seen' = seen \union {key} /\ UNCHANGED <<sticky, faults>>
        \/ sticky' = TRUE /\ faults < MaxFaults /\ faults' = faults + 1 /\ UNCHANGED <<ledger, seen>>
    BY <1>7 DEF MarkIfNew, marks, Fault
  <2>5. /\ LedgerInv' /\ ledger' \subseteq Keys /\ seen' \subseteq Keys /\ sticky' \in BOOLEAN
        /\ faults' \in 0..MaxFaults
    <3>1. ledger' \subseteq Keys /\ seen' \subseteq Keys
      <4> HIDE DEF key
      <4> QED
        BY <1>2, <2>1, <2>4
    <3>2. seen' = ledger'
      BY <1>0, <2>4 DEF LedgerInv
    <3>3. faults' \in 0..MaxFaults /\ (faults' = faults \/ faults' > 0)
      BY <1>2, <2>4
    <3>4. (sticky' = sticky /\ faults' = faults) \/ (sticky' = TRUE /\ faults' > 0)
      BY <1>2, <2>4
    <3>5. sticky' \in BOOLEAN
      BY <1>2, <3>4
    <3>6. sticky' => faults' > 0
      <4>1. sticky => faults > 0
        BY <1>0 DEF LedgerInv
      <4> QED
        BY <3>4, <4>1, Zenon
    <3> QED
      BY <3>1, <3>2, <3>3, <3>5, <3>6 DEF LedgerInv
  <2>6. MarkedWasDelivered'
    BY <1>0, <2>1, <2>2, <2>4 DEF MarkedWasDelivered
  <2>7. SendOf(r)'
    BY <1>1, <1>3, <2>1, <2>3 DEF SendOf
  <2> QED
    BY <1>1, <1>2, <2>1, <2>2, <2>3, <2>5, <2>6, <2>7, AfterReading
<1>8. CASE EndReplay(r)
  <2>1. /\ replay' = [replay EXCEPT ![r] = Free]
        /\ UNCHANGED <<disk, marks, sidecar, recorded, sent, count, calls, crashes, faults>>
    BY <1>8 DEF EndReplay
  <2>2. /\ replay' \in [Replayers -> Call] /\ replay'[r] = Free
        /\ \A q \in Replayers \ {r} : replay'[q] = replay[q]
    BY <1>1, <2>1, FreeIsCall
  <2>3. TypeOK'
    BY <1>0, <2>1, <2>2 DEF TypeOK, disk, marks, Call
  <2>4. LedgerInv' /\ MarkedWasDelivered'
    BY <1>0, <2>1 DEF LedgerInv, MarkedWasDelivered, marks
  <2> QED
    BY <1>2, <2>1, <2>2, <2>3, <2>4, FreeCall, CallStep
<1> QED
  BY <1>4, <1>5, <1>6, <1>7, <1>8 DEF ReplayStep

(* A restart forgets the calls and reads the ledger file.                   *)
LEMMA RestartStep == ReplayInv /\ Restart => ReplayInv'
<1> SUFFICES ASSUME ReplayInv, Restart PROVE ReplayInv'
  OBVIOUS
<1>0. TypeOK /\ DiskInv /\ OrderInv /\ NothingRecordedLost /\ MarkedWasDelivered /\ LedgerInv
  BY DEF ReplayInv, DLQInv
<1>1. /\ crashes < MaxCrashes /\ crashes' = crashes + 1 /\ handle' = "open" /\ exists' = TRUE
      /\ written' = Len(primary)
      /\ seen' = ledger /\ sticky' = FALSE /\ UNCHANGED ledger
      /\ replay' = [r \in Replayers |-> Free]
      /\ UNCHANGED <<rotated, primary, sidecar, recorded, sent, count, calls, faults>>
  BY DEF Restart, OpenLedger
<1>2. TypeOK'
  <2>1. replay' \in [Replayers -> Call] /\ crashes' \in 0..MaxCrashes /\ written' \in Nat
    BY <1>0, <1>1, FreeIsCall, DLQAssumption, LenProperties DEF TypeOK
  <2> QED
    BY <1>0, <1>1, <2>1 DEF TypeOK, Call
<1>3. NothingRecordedLost' /\ MarkedWasDelivered' /\ DiskInv' /\ OrderInv' /\ LedgerInv'
  BY <1>0, <1>1 DEF NothingRecordedLost, MarkedWasDelivered, DiskInv, OrderInv, LedgerInv, OnDisk
<1>4. FilesInv' /\ ReadInv' /\ SendInv' /\ ReadIsChronological'
  BY <1>1, <1>2, FreeCall DEF FilesInv, ReadInv, SendInv, ReadIsChronological, ChronOf
<1> QED
  BY <1>2, <1>3, <1>4 DEF ReplayInv, DLQInv

LEMMA ReplayInit == Init => ReplayInv
<1> SUFFICES ASSUME Init PROVE ReplayInv
  OBVIOUS
<1>1. TypeOK
  <2>1. replay \in [Replayers -> Call] /\ sent \in [1..MaxEntries -> Nat]
    BY FreeIsCall DEF Init
  <2>2. rotated \in Seq(Seq(Entries \union {Torn})) /\ primary \in Seq(Entries \union {Torn})
    BY EmptySeq DEF Init
  <2>3. count \in 0..MaxEntries /\ calls \in 0..MaxReplays /\ crashes \in 0..MaxCrashes /\ faults \in 0..MaxFaults
    BY DLQAssumption DEF Init
  <2> QED
    BY <2>1, <2>2, <2>3 DEF Init, TypeOK, Call
<1>2. Lines(primary) = {} /\ OnDisk = {}
  BY LinesNone DEF Init, OnDisk
<1>3. NothingRecordedLost /\ MarkedWasDelivered /\ DiskInv /\ OrderInv /\ LedgerInv
  BY <1>2, OrderedShort DEF Init, NothingRecordedLost, MarkedWasDelivered, DiskInv, OrderInv, LedgerInv
<1>4. FilesInv /\ ReadInv /\ SendInv /\ ReadIsChronological
  BY LinesNone, EmptySeq DEF Init, Free, FilesInv, FilesOf, ReadInv, ReadOf, SendInv, SendOf, ReadIsChronological
<1> QED
  BY <1>1, <1>3, <1>4 DEF ReplayInv, DLQInv

LEMMA ReplayNext == ReplayInv /\ [Next]_vars => ReplayInv'
<1> SUFFICES ASSUME ReplayInv, [Next]_vars PROVE ReplayInv'
  OBVIOUS
<1>1. CASE UNCHANGED vars
  <2>0. UNCHANGED <<rotated, primary, exists, handle, written, ledger, seen, sticky, sidecar,
                    replay, recorded, sent, count, calls, crashes, faults>>
    BY <1>1 DEF vars
  <2>1. DLQInv' /\ ReadIsChronological' /\ LedgerInv'
    BY <2>0 DEF ReplayInv, DLQInv, TypeOK, NothingRecordedLost, MarkedWasDelivered, OnDisk,
       ReadIsChronological, LedgerInv
  <2>2. DiskInv' /\ OrderInv'
    BY <2>0 DEF ReplayInv, DiskInv, OrderInv, OnDisk
  <2>3. FilesInv' /\ SendInv'
    BY <2>0 DEF ReplayInv, FilesInv, FilesOf, SendInv, SendOf, Content, Known, Current
  <2>4. ASSUME NEW r \in Replayers, NEW e PROVE Found(r, e)' <=> Found(r, e)
    BY <2>0 DEF Found, Content
  <2>5. ReadInv'
    BY <2>0, <2>4 DEF ReplayInv, ReadInv, ReadOf
  <2> QED
    BY <2>1, <2>2, <2>3, <2>5 DEF ReplayInv
<1>2. CASE Next
  BY <1>2, RecordStep, RenameStep, ReopenStep, StartStep, ReadFileStep, OtherCallSteps, RestartStep DEF Next, ReplayStep
<1> QED
  BY <1>1, <1>2

(* The invariant of the queue, its ledger and the replays, from which the   *)
(* properties below follow.                                                 *)
THEOREM ReplayInvariance == Spec => []ReplayInv
  BY ReplayInit, ReplayNext, PTL DEF Spec

(* What Write acknowledged stays in the files, and only a delivery marks an *)
(* entry as done, through rotations, disk errors, concurrent calls and      *)
(* restarts (JSONLDeadLetterSink.Write, ReplayEntries, MarkIfNew).          *)
THEOREM NothingIsLost == Spec => []DLQInv
<1>1. ReplayInv => DLQInv
  BY DEF ReplayInv
<1> QED
  BY <1>1, ReplayInvariance, PTL

(* ReadEntries returns what it reads in the order it was written, nothing   *)
(* twice, and what it misses of the files it listed was moved to a file of  *)
(* a later name while it read.                                              *)
THEOREM ReadsFaithful == Spec => []ReadsAreFaithful
<1>1. ReplayInv => ReadsAreFaithful
  <2> SUFFICES ASSUME ReplayInv, NEW r \in Replayers, replay[r].pc \in {"next", "send", "mark"},
                      NEW e \in replay[r].due \ Lines(replay[r].got)
               PROVE  \E i \in DOMAIN rotated : replay[r].listed < i /\ e \in Lines(rotated[i])
    BY DEF ReplayInv, ReadsAreFaithful, ReadMissesOnlyRotated
  <2>1. Found(r, e) /\ replay[r].files = <<>>
    BY DEF ReplayInv, ReadInv, ReadOf
  <2> QED
    BY <2>1, LinesNone DEF Found
<1> QED
  BY <1>1, ReplayInvariance, PTL

(* No call sets out to deliver what the ledger file holds, after failures   *)
(* of the ledger and after restarts too.                                    *)
THEOREM NeverTakesMarked == Spec => NoTakeAfterMark
<1>1. ReplayInv /\ [Next]_vars =>
        [\A r \in Replayers : replay[r].pc = "next" /\ replay'[r].pc = "send" =>
            Key(Current(r)) \notin ledger]_vars
  <2> SUFFICES ASSUME ReplayInv, Next, NEW r \in Replayers, replay[r].pc = "next", replay'[r].pc = "send"
               PROVE  Key(Current(r)) \notin ledger
    BY DEF vars
  <2>1. replay \in [Replayers -> Call] /\ seen = ledger
    BY DEF ReplayInv, DLQInv, TypeOK, Call, LedgerInv
  <2>2. ASSUME NEW q \in Replayers, (\E ids \in Requests : StartReplay(q, ids)) \/ ReplayStep(q)
        PROVE  Take(r)
    <3>1. q = r
      BY <2>1, <2>2 DEF StartReplay, ReplayStep, ReadFile, ReadDone, SkipUnknown, SkipReplayed, Take,
         NotifyOK, NotifyFails, MarkIfNew, EndReplay, Advance
    <3>2. ~(\E ids \in Requests : StartReplay(r, ids)) /\ ~EndReplay(r)
      BY <2>1 DEF StartReplay, EndReplay, Free
    <3>3. ~ReadFile(r) /\ ~ReadDone(r) /\ ~NotifyOK(r) /\ ~NotifyFails(r) /\ ~MarkIfNew(r)
      BY DEF ReadFile, ReadDone, NotifyOK, NotifyFails, MarkIfNew
    <3>4. ~Advance(r)
      BY <2>1 DEF Advance, Call
    <3> QED
      BY <2>2, <3>1, <3>2, <3>3, <3>4 DEF ReplayStep, SkipUnknown, SkipReplayed
  <2>3. CASE Restart
    BY <2>3 DEF Restart, Free
  <2>4. ASSUME NEW id \in Ids, NEW ch \in Channels, recordTerminalFailure(id, ch) PROVE FALSE
    BY <2>4 DEF recordTerminalFailure
  <2>5. CASE Rename \/ Reopen
    BY <2>5 DEF Rename, Reopen
  <2> QED
    BY <2>1, <2>2, <2>3, <2>4, <2>5 DEF Next, Take
<1> QED
  BY <1>1, ReplayInvariance, PTL DEF Spec, NoTakeAfterMark
=============================================================================
