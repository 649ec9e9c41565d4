-------------------------------- MODULE DLQ --------------------------------
(***************************************************************************)
(* The dead-letter queue of the alertmanager and its replay (CF-5):        *)
(*   pkg/alertmanager/alertmanagernotify/dlq/dlq.go, ledger.go, reader.go  *)
(*   pkg/alertmanager/alertmanagerserver/dlqmanager.go                     *)
(*                                                                         *)
(* The dispatcher appends failed notifications to a file that is rotated   *)
(* by size; API calls read the files one after the other and send entries  *)
(* again; a ledger remembers what was sent.  Write and MarkIfNew hold a    *)
(* mutex; readers hold none, so that the two halves of a rotation are steps*)
(* of their own, as are reading, asking the ledger, notifying and marking, *)
(* with those of other calls, of the dispatcher and a crash in between.    *)
(* The size of a file is its number of lines.  One server writes to the    *)
(* path.                                                                   *)
(***************************************************************************)
EXTENDS Naturals, Sequences, FiniteSets

CONSTANTS
    Ids,         \* event ids: the fingerprints of alerts
    Channels,    \* the receivers
    Replayers,   \* API calls that can be under way at the same time
    Requests,    \* the lists of event ids that a call can ask for
    RotateLines, \* bound: the rotation threshold, in lines
    MaxEntries,  \* bound: terminal failures
    MaxReplays,  \* bound: API calls
    MaxCrashes,  \* bound: restarts of the server
    MaxFaults    \* bound: disk errors

ASSUME DLQAssumption ==
    /\ Requests \subseteq Seq(Ids)
    /\ {RotateLines, MaxEntries, MaxReplays, MaxCrashes, MaxFaults} \subseteq Nat

\* An entry: event id, channel, and its number for the payload and the time.
Entries == [id : Ids, ch : Channels, n : 1..MaxEntries]
Torn == [id |-> "torn", ch |-> "torn", n |-> 0]

VARIABLES
    rotated,   \* the rotated files, oldest first
    primary,   \* the lines of the active file
    exists,    \* the active file is there
    handle,    \* s.f: "open", "moved" between rename and reopening, or "stale" when it
               \* is a closed file
    written,   \* s.written
    ledger,    \* the keys in the ledger file
    seen,      \* the keys the ledger holds in memory
    sticky,    \* the buffered writer of the ledger has failed: it fails for ever
    sidecar,   \* the event ids whose replay failed
    replay,    \* the API calls
    recorded,  \* what Write has acknowledged
    sent,      \* how often each entry was delivered by a replay
    count, calls, crashes, faults

disk == <<rotated, primary, exists, handle, written>>
marks == <<ledger, seen, sticky>>
vars == <<rotated, primary, exists, handle, written, ledger, seen, sticky, sidecar,
          replay, recorded, sent, count, calls, crashes, faults>>

\* IdempotencyKey(fingerprint, channel, 0): the round is always 0.
Key(e) == <<e.id, e.ch>>

\* A line after a line without its newline becomes a part of it.
AppendLine(file, line) ==
    IF file # <<>> /\ file[Len(file)] = Torn THEN file ELSE Append(file, line)

Lines(file) == {file[i] : i \in DOMAIN file}
OnDisk == Lines(primary) \union UNION {Lines(rotated[i]) : i \in DOMAIN rotated}

\* A disk error.
Fault == faults < MaxFaults /\ faults' = faults + 1

------------------------------------------------------------------------------
(* JSONLDeadLetterSink.Write, called by recordTerminalFailure.               *)

NeedsRotation == written > 0 /\ written + 1 > RotateLines

\* The sink is closed under its own feet: every write fails.
WriteStale ==
    /\ handle = "stale"
    /\ UNCHANGED <<rotated, primary, exists, handle, written, recorded, faults>>

WriteLine(e) ==
    /\ handle = "open" /\ ~NeedsRotation
    /\ primary' = AppendLine(primary, e)
    /\ written' = written + 1
    /\ recorded' = recorded \union {e}
    /\ UNCHANGED <<rotated, exists, handle, faults>>

\* f.Write returns an error after a part of the line.
ShortWrite ==
    /\ handle = "open" /\ ~NeedsRotation
    /\ Fault
    /\ primary' = AppendLine(primary, Torn)
    /\ UNCHANGED <<rotated, exists, handle, written, recorded>>

\* The file cannot be renamed, and is opened again if that can be done.
RenameFails ==
    /\ handle = "open" /\ NeedsRotation
    /\ Fault
    /\ \/ written' = Len(primary) /\ UNCHANGED handle
       \/ handle' = "stale" /\ UNCHANGED written
    /\ UNCHANGED <<rotated, primary, exists, recorded>>

ReopenFails ==
    /\ handle = "moved"
    /\ Fault
    /\ handle' = "stale"
    /\ UNCHANGED <<rotated, primary, exists, written, recorded>>

recordTerminalFailure(id, ch) ==
    /\ count < MaxEntries
    /\ count' = count + 1
    /\ LET e == [id |-> id, ch |-> ch, n |-> count + 1]
       IN  WriteStale \/ WriteLine(e) \/ ShortWrite \/ RenameFails \/ ReopenFails
    /\ UNCHANGED <<ledger, seen, sticky, sidecar, replay, sent, calls, crashes>>

\* Mutant: the file is removed, not renamed.
Remove ==
    /\ handle = "open" /\ NeedsRotation
    /\ count < MaxEntries
    /\ primary' = <<>>
    /\ exists' = FALSE
    /\ handle' = "moved"
    /\ UNCHANGED <<rotated, written, marks, sidecar, replay, recorded, sent, count, calls, crashes, faults>>

\* rotateLocked, in two steps for those who hold no lock.  Which entry the Write that
\* rotates will append shows only when it does.
Rename ==
    /\ handle = "open" /\ NeedsRotation
    /\ count < MaxEntries
    /\ rotated' = Append(rotated, primary)
    /\ primary' = <<>>
    /\ exists' = FALSE
    /\ handle' = "moved"
    /\ UNCHANGED <<written, marks, sidecar, replay, recorded, sent, count, calls, crashes, faults>>

Reopen ==
    /\ handle = "moved"
    /\ exists' = TRUE
    /\ handle' = "open"
    /\ written' = 0
    /\ UNCHANGED <<rotated, primary, marks, sidecar, replay, recorded, sent, count, calls, crashes, faults>>

------------------------------------------------------------------------------
(* ReadEntries and ReplayEntries.                                            *)

\* A call: the ids it still has to deliver, the files it still has to read, the entries
\* it has read, and, for the properties, what was in the files when it listed them and
\* how many of them were rotated ones.
Free == [pc |-> "idle", todo |-> <<>>, files |-> <<>>, got |-> <<>>, due |-> {}, listed |-> 0]
Primary == 0

\* Mutant: the active file is forgotten once there are rotated ones.
GlobRotated == IF rotated # <<>> THEN [i \in DOMAIN rotated |-> i] ELSE <<Primary>>

\* The files there are now: the rotated ones, then the active one.
Glob == [i \in DOMAIN rotated |-> i] \o (IF exists THEN <<Primary>> ELSE <<>>)

StartReplay(r, ids) ==
    /\ calls < MaxReplays
    /\ replay[r].pc = "idle"
    /\ replay' = [replay EXCEPT ![r] = [pc |-> "read", todo |-> ids, files |-> Glob,
                                        got |-> <<>>, due |-> OnDisk \ {Torn},
                                        listed |-> Len(rotated)]]
    /\ calls' = calls + 1
    /\ UNCHANGED <<disk, marks, sidecar, recorded, sent, count, crashes, faults>>

FileGone(f) == f = Primary /\ ~exists
Content(f) == IF f = Primary THEN primary ELSE rotated[f]

\* A file that is gone or that holds a malformed line ends the call.
ReadFile(r) ==
    /\ replay[r].pc = "read" /\ replay[r].files # <<>>
    /\ LET f == Head(replay[r].files)
       IN  IF FileGone(f) \/ Torn \in Lines(Content(f))
           THEN replay' = [replay EXCEPT ![r] = Free]
           ELSE replay' = [replay EXCEPT ![r].files = Tail(@), ![r].got = @ \o Content(f)]
    /\ UNCHANGED <<disk, marks, sidecar, recorded, sent, count, calls, crashes, faults>>

ReadDone(r) ==
    /\ replay[r].pc = "read" /\ replay[r].files = <<>>
    /\ replay' = [replay EXCEPT ![r].pc = "next"]
    /\ UNCHANGED <<disk, marks, sidecar, recorded, sent, count, calls, crashes, faults>>

\* byID: the last entry that was read for an event id.
Hits(got, id) == {i \in DOMAIN got : got[i].id = id}
byID(got, id) == got[CHOOSE i \in Hits(got, id) : \A j \in Hits(got, id) : j <= i]

Current(r) == byID(replay[r].got, Head(replay[r].todo))
Known(r) == Hits(replay[r].got, Head(replay[r].todo)) # {}
HasNext(r) == replay[r].pc = "next" /\ replay[r].todo # <<>>
Advance(r) == replay' = [replay EXCEPT ![r].pc = "next", ![r].todo = Tail(@)]

SkipUnknown(r) ==
    /\ HasNext(r) /\ ~Known(r)
    /\ Advance(r)
    /\ UNCHANGED <<disk, marks, sidecar, recorded, sent, count, calls, crashes, faults>>

SkipReplayed(r) ==
    /\ HasNext(r) /\ Known(r) /\ Key(Current(r)) \in seen
    /\ Advance(r)
    /\ UNCHANGED <<disk, marks, sidecar, recorded, sent, count, calls, crashes, faults>>

\* Mutant: the ledger is not asked.
TakeAny(r) ==
    /\ HasNext(r) /\ Known(r)
    /\ replay' = [replay EXCEPT ![r].pc = "send"]
    /\ UNCHANGED <<disk, marks, sidecar, recorded, sent, count, calls, crashes, faults>>

Take(r) ==
    /\ HasNext(r) /\ Known(r) /\ Key(Current(r)) \notin seen
    /\ replay' = [replay EXCEPT ![r].pc = "send"]
    /\ UNCHANGED <<disk, marks, sidecar, recorded, sent, count, calls, crashes, faults>>

NotifyOK(r) ==
    /\ replay[r].pc = "send"
    /\ sent' = [sent EXCEPT ![Current(r).n] = @ + 1]
    /\ replay' = [replay EXCEPT ![r].pc = "mark"]
    /\ UNCHANGED <<disk, marks, sidecar, recorded, count, calls, crashes, faults>>

\* Mutant: a failed entry is tried again at once.
NotifyFailsInPlace(r) ==
    /\ replay[r].pc = "send"
    /\ sidecar' = sidecar \union {Head(replay[r].todo)}
    /\ replay' = [replay EXCEPT ![r].pc = "next"]
    /\ UNCHANGED <<disk, marks, recorded, sent, count, calls, crashes, faults>>

\* The payload cannot be read or the channel refuses it.
NotifyFails(r) ==
    /\ replay[r].pc = "send"
    /\ sidecar' = sidecar \union {Head(replay[r].todo)}
    /\ Advance(r)
    /\ UNCHANGED <<disk, marks, recorded, sent, count, calls, crashes, faults>>

\* MarkIfNew; its result is not looked at.
MarkIfNew(r) ==
    /\ replay[r].pc = "mark"
    /\ LET key == Key(Current(r))
       IN  \/ /\ key \in seen \/ sticky
              /\ UNCHANGED <<marks, faults>>
           \/ /\ key \notin seen /\ ~sticky
              /\ ledger' = ledger \union {key}
              /\ seen' = seen \union {key}
              /\ UNCHANGED <<sticky, faults>>
           \/ /\ key \notin seen /\ ~sticky
              /\ Fault
              /\ sticky' = TRUE
              /\ UNCHANGED <<ledger, seen>>
    /\ Advance(r)
    /\ UNCHANGED <<disk, sidecar, recorded, sent, count, calls, crashes>>

EndReplay(r) ==
    /\ replay[r].pc = "next" /\ replay[r].todo = <<>>
    /\ replay' = [replay EXCEPT ![r] = Free]
    /\ UNCHANGED <<disk, marks, sidecar, recorded, sent, count, calls, crashes, faults>>

------------------------------------------------------------------------------
\* Mutant: the ledger is not scanned when it is opened.
OpenEmptyLedger == seen' = {} /\ sticky' = FALSE /\ UNCHANGED ledger

\* NewReplayLedger
OpenLedger == seen' = ledger /\ sticky' = FALSE /\ UNCHANGED ledger

\* The server stops anywhere and opens the sink, the ledger and the sidecar again.
Restart ==
    /\ crashes < MaxCrashes
    /\ crashes' = crashes + 1
    /\ handle' = "open"
    /\ exists' = TRUE
    /\ written' = Len(primary)
    /\ OpenLedger
    /\ replay' = [r \in Replayers |-> Free]
    /\ UNCHANGED <<rotated, primary, sidecar, recorded, sent, count, calls, faults>>

Init ==
    /\ rotated = <<>> /\ primary = <<>> /\ exists = TRUE /\ handle = "open" /\ written = 0
    /\ ledger = {} /\ seen = {} /\ sticky = FALSE /\ sidecar = {}
    /\ replay = [r \in Replayers |-> Free]
    /\ recorded = {}
    /\ sent = [n \in 1..MaxEntries |-> 0]
    /\ count = 0 /\ calls = 0 /\ crashes = 0 /\ faults = 0

ReplayStep(r) ==
    \/ ReadFile(r) \/ ReadDone(r)
    \/ SkipUnknown(r) \/ SkipReplayed(r) \/ Take(r)
    \/ NotifyOK(r) \/ NotifyFails(r) \/ MarkIfNew(r)
    \/ EndReplay(r)

Next ==
    \/ \E id \in Ids, ch \in Channels : recordTerminalFailure(id, ch)
    \/ Rename \/ Reopen
    \/ \E r \in Replayers :
          \/ \E ids \in Requests : StartReplay(r, ids)
          \/ ReplayStep(r)
    \/ Restart

\* A call that was started runs; channels answer or time out.
Spec == Init /\ [][Next]_vars /\ \A r \in Replayers : WF_vars(ReplayStep(r))

------------------------------------------------------------------------------
Keys == Ids \X Channels

TypeOK ==
    /\ rotated \in Seq(Seq(Entries \union {Torn}))
    /\ primary \in Seq(Entries \union {Torn})
    /\ exists \in BOOLEAN
    /\ handle \in {"open", "moved", "stale"}
    /\ written \in Nat
    /\ ledger \subseteq Keys /\ seen \subseteq Keys /\ sticky \in BOOLEAN
    /\ sidecar \subseteq Ids
    /\ replay \in [Replayers -> [pc : {"idle", "read", "next", "send", "mark"},
                                 todo : Seq(Ids), files : Seq(Nat),
                                 got : Seq(Entries), due : SUBSET Entries, listed : Nat]]
    /\ recorded \subseteq Entries
    /\ sent \in [1..MaxEntries -> Nat]
    /\ count \in 0..MaxEntries /\ calls \in 0..MaxReplays
    /\ crashes \in 0..MaxCrashes /\ faults \in 0..MaxFaults

\* What Write has acknowledged is in one of the files, whatever rotations, failed
\* rotations and restarts came after; only a line that a failed write left without
\* its newline can swallow the next entry.
NothingRecordedLost == recorded \subseteq OnDisk \/ Torn \in OnDisk

\* ReadEntries returns the entries in the order in which they were written, no
\* entry twice, also when files are rotated while it reads.
ReadIsChronological ==
    \A r \in Replayers : \A i, j \in DOMAIN replay[r].got :
        i < j => replay[r].got[i].n < replay[r].got[j].n

\* Of what was in the files when a call listed them, the call has read everything but
\* what a rotation has taken out of the active file before it came to read that; and
\* what it missed is in a rotated file of a name it did not list, for the next call.
ReadMissesOnlyRotated ==
    \A r \in Replayers : replay[r].pc \in {"next", "send", "mark"} =>
        \A e \in replay[r].due \ Lines(replay[r].got) :
            \E i \in DOMAIN rotated : replay[r].listed < i /\ e \in Lines(rotated[i])

\* A call that reads while the sink rotates reads in order, and drops nothing but what
\* was rotated under its eyes.  (ReadEntries itself promises all entries.)
ReadsAreFaithful == ReadIsChronological /\ ReadMissesOnlyRotated

\* A key is in the ledger only if an entry with that key was delivered: an entry
\* whose deliveries all failed stays retryable.
MarkedWasDelivered ==
    \A k \in ledger : \E e \in recorded : Key(e) = k /\ sent[e.n] > 0

\* What was acknowledged can be replayed until it was delivered: it is in the files,
\* and nothing but a delivery marks it as done.
DLQInv == TypeOK /\ NothingRecordedLost /\ MarkedWasDelivered

\* No call sets out to deliver what the ledger file says was delivered, after
\* failures of the ledger and after a restart too.
NoTakeAfterMark ==
    [][\A r \in Replayers : replay[r].pc = "next" /\ replay'[r].pc = "send" =>
          Key(Current(r)) \notin ledger]_vars

\* Every call ends.
ReplayEnds == \A r \in Replayers : replay[r].pc # "idle" ~> replay[r].pc = "idle"
=============================================================================
