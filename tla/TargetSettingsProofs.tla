------------------------ MODULE TargetSettingsProofs ------------------------
(***************************************************************************)
(* Proofs about TargetSettings, for every set of administrators, targets   *)
(* and hosts, with and without a master key, and for every bound.          *)
(***************************************************************************)
EXTENDS TargetSettings, TLAPS

(* The inductive invariant: the types of the calls in flight and of the     *)
(* whole page, which TypeOK leaves out, and that only a PUT has read a row. *)

Tables == [Targets -> Rows \union {Absent}]
Fields == Hosts \union {NoHost}

Pages ==
  [list : Tables, open : BOOLEAN, mounted : BOOLEAN, id : Targets \union {NoTarget},
   host : Fields, fp : Fields, keep : BOOLEAN, tab : {"generate", "paste"},
   sealed : 0..keys, pem : 0..keys, result : {"none", "fail", "success"}]

Saves ==
  [pc : {"none", "asked", "read", "ok", "error"}, id : Targets \union {NoTarget},
   host : Fields, fp : Fields, key : 0..MaxKeys, old : 0..MaxKeys]

RowsInv == rows \in Tables /\ created \subseteq Targets /\ keys \in 1..MaxKeys /\ ops \in 0..MaxOps

PageInv == page \in [Admins -> Pages]

FetchInv == fetch \in [Admins -> [pc : {"none", "asked", "ok", "error"}, host : Fields]]

KeygenInv == keygen \in [Admins -> [pc : {"none", "asked", "ok", "error"}, key : 0..keys]]

SaveInv ==
  /\ save \in [Admins -> Saves]
  /\ \A a \in Admins : save[a].pc = "read" => save[a].id # NoTarget

ListInv == listing \in [Admins -> SUBSET Tables]

SettingsInv == RowsInv /\ PageInv /\ FetchInv /\ KeygenInv /\ SaveInv /\ ListInv

-----------------------------------------------------------------------------
LEMMA Constants ==
  /\ MaxKeys \in Nat /\ MaxKeys >= 1 /\ MaxOps \in Nat
  /\ NoHost \notin Hosts /\ NoTarget \notin Targets
  BY TargetAssumption

(* Numbers only grow, so a page's keys stay keys.                           *)
LEMMA KeysGrow ==
  ASSUME RowsInv, PageInv, KeygenInv, keys' \in keys..MaxKeys
  PROVE  /\ 0..keys \subseteq 0..keys' /\ 0..keys' \subseteq 0..MaxKeys /\ keys' \in 1..MaxKeys
         /\ Pages \subseteq Pages'
<1>1. 0..keys \subseteq 0..keys' /\ 0..keys' \subseteq 0..MaxKeys /\ keys' \in 1..MaxKeys
  BY Constants DEF RowsInv
<1> QED
  BY <1>1 DEF Pages

LEMMA RowOfSave ==
  ASSUME NEW s \in Saves, Valid(Row(s)) PROVE Row(s) \in Rows
<1>1. Row(s).host \in Hosts /\ Row(s).fp \in Hosts
  BY DEF Row, Valid, Saves, Fields
<1>2. Row(s).key \in 1..MaxKeys
  <2>1. Row(s).key \in 0..MaxKeys /\ Row(s).key # 0
    BY DEF Row, Valid, Saves, NoKey
  <2> QED
    BY <2>1, Constants
<1> QED
  BY <1>1, <1>2 DEF Row, Rows, Keys

LEMMA CredentialType ==
  ASSUME RowsInv, NEW p \in Pages PROVE buildCredential(p) \in 0..MaxKeys
<1>1. p.sealed \in 0..MaxKeys /\ p.pem \in 0..MaxKeys /\ 0 \in 0..MaxKeys
  BY Constants DEF RowsInv, Pages
<1> QED
  BY <1>1 DEF buildCredential, NoKey

LEMMA AbsentIsNoRow == Absent \notin Rows
  BY Constants DEF Absent, Rows

-----------------------------------------------------------------------------
(* The table: which steps write it, and what.                               *)
LEMMA RowsMoves ==
  ASSUME SettingsInv, [Next]_vars
  PROVE  \/ UNCHANGED <<rows, created>>
         \/ \E a \in Admins : CreateRemediationTarget(a) /\ Valid(Row(save[a]))
         \/ UNCHANGED created /\ \E t \in Targets : rows' = [rows EXCEPT ![t] = Absent]
         \/ UNCHANGED created /\ \E a \in Admins : UpdateWrite(a) /\ Valid(Row(save[a]))
         \/ UNCHANGED created /\ \E t \in Targets : RekeyElsewhere(t)
<1>1. ASSUME NEW a \in Admins, CreateRemediationTarget(a)
      PROVE  UNCHANGED <<rows, created>> \/ Valid(Row(save[a]))
  BY <1>1 DEF CreateRemediationTarget
<1>2. ASSUME NEW a \in Admins, UpdateWrite(a)
      PROVE  UNCHANGED created /\ (UNCHANGED rows \/ Valid(Row(save[a])))
  BY <1>2 DEF UpdateWrite
<1>3. ASSUME NEW a \in Admins, NEW t \in Targets, DeleteRemediationTarget(a, t)
      PROVE  UNCHANGED created /\ (UNCHANGED rows \/ rows' = [rows EXCEPT ![t] = Absent])
  BY <1>3 DEF DeleteRemediationTarget
<1>4. ASSUME NEW t \in Targets, DeleteElsewhere(t)
      PROVE  UNCHANGED created /\ rows' = [rows EXCEPT ![t] = Absent]
  BY <1>4 DEF DeleteElsewhere
<1>5. ASSUME NEW t \in Targets, RekeyElsewhere(t) PROVE UNCHANGED created
  BY <1>5 DEF RekeyElsewhere
<1>6. ASSUME NEW a \in Admins,
             \/ openCreate(a) \/ handleDrawerClose(a)
             \/ \E t \in Targets : openEdit(a, t) \/ confirmDelete(a, t) \/ DeleteArrives(a, t)
             \/ \E h \in Hosts \union {NoHost} : handleValuesChange(a, h)
             \/ \E b \in BOOLEAN : chooseKey(a, b)
             \/ \E tab \in {"generate", "paste"} : chooseTab(a, tab)
             \/ pasteKey(a) \/ FetchFingerprint(a) \/ handleKeygen(a) \/ handleTest(a) \/ handleSave(a)
      PROVE  UNCHANGED <<rows, created>>
  BY <1>6 DEF openCreate, handleDrawerClose, openEdit, confirmDelete, DeleteArrives, handleValuesChange, chooseKey, chooseTab, pasteKey,
     FetchFingerprint, handleKeygen, handleTest, handleSave
<1>7. ASSUME NEW a \in Admins,
             \/ SaveLost(a) \/ ServeList(a) \/ ListArrives(a) \/ ServeFingerprint(a) \/ FingerprintArrives(a)
             \/ ServeKeygen(a) \/ KeygenArrives(a) \/ TestRemediationTarget(a) \/ TestArrives(a)
             \/ UpdateGet(a) \/ SaveArrives(a)
      PROVE  UNCHANGED <<rows, created>>
  BY <1>7 DEF SaveLost, ServeList, ListArrives, ServeFingerprint, FingerprintArrives, ServeKeygen,
     KeygenArrives, TestRemediationTarget, TestArrives, UpdateGet, SaveArrives
<1>8. \/ UNCHANGED <<rows, created>>
      \/ \E a \in Admins : \/ CreateRemediationTarget(a) \/ UpdateWrite(a)
                           \/ \E t \in Targets : DeleteRemediationTarget(a, t)
      \/ \E t \in Targets : DeleteElsewhere(t) \/ RekeyElsewhere(t)
  BY <1>6, <1>7 DEF Next, PageStep, Answers, vars
<1> QED
  BY <1>1, <1>2, <1>3, <1>4, <1>5, <1>8

LEMMA KeysMove ==
  ASSUME SettingsInv, [Next]_vars
  PROVE  keys' \in keys..MaxKeys /\ ops' \in 0..MaxOps
<1>1. /\ keys' = keys \/ (keys < MaxKeys /\ keys' = keys + 1)
      /\ ops' = ops \/ (ops < MaxOps /\ ops' = ops + 1)
  BY DEF Next, PageStep, openCreate, handleDrawerClose, openEdit, confirmDelete, handleValuesChange,
     chooseKey, chooseTab, pasteKey, FetchFingerprint, handleKeygen, handleTest, handleSave, SaveLost,
     Answers, ServeList, ListArrives, ServeFingerprint, FingerprintArrives, ServeKeygen, KeygenArrives,
     TestRemediationTarget, TestArrives, CreateRemediationTarget, UpdateGet, UpdateWrite, SaveArrives,
     DeleteRemediationTarget, DeleteArrives, DeleteElsewhere, RekeyElsewhere, Click, vars
<1> QED
  BY <1>1, Constants DEF SettingsInv, RowsInv

LEMMA RowsStep == SettingsInv /\ [Next]_vars => RowsInv'
<1> SUFFICES ASSUME SettingsInv, [Next]_vars PROVE RowsInv'
  OBVIOUS
<1>0. /\ rows \in Tables /\ created \subseteq Targets /\ keys \in 1..MaxKeys
      /\ save \in [Admins -> Saves] /\ \A a \in Admins : save[a].pc = "read" => save[a].id # NoTarget
  BY DEF SettingsInv, RowsInv, SaveInv
<1>1. keys' \in 1..MaxKeys /\ ops' \in 0..MaxOps
  BY <1>0, KeysMove, KeysGrow DEF SettingsInv
<1> SUFFICES rows' \in Tables /\ created' \subseteq Targets
  BY <1>1 DEF RowsInv
<1>2. CASE UNCHANGED <<rows, created>>
  BY <1>0, <1>2
<1>3. ASSUME NEW a \in Admins, CreateRemediationTarget(a), Valid(Row(save[a]))
      PROVE  rows' \in Tables /\ created' \subseteq Targets
  <2>1. CASE Ready
    <3>1. PICK t \in Targets \ created : rows' = [rows EXCEPT ![t] = Row(save[a])] /\ created' = created \union {t}
      BY <1>3, <2>1 DEF CreateRemediationTarget
    <3>2. Row(save[a]) \in Rows
      BY <1>0, <1>3, RowOfSave
    <3> QED
      BY <1>0, <3>1, <3>2 DEF Tables
  <2>2. CASE ~Ready
    BY <1>0, <1>3, <2>2 DEF CreateRemediationTarget
  <2> QED
    BY <2>1, <2>2
<1>4. ASSUME NEW t \in Targets, rows' = [rows EXCEPT ![t] = Absent] PROVE rows' \in Tables
  BY <1>0, <1>4 DEF Tables
<1>5. ASSUME NEW a \in Admins, UpdateWrite(a), Valid(Row(save[a])) PROVE rows' \in Tables
  <2>1. rows' = [rows EXCEPT ![save[a].id] = IF @ = Absent THEN @ ELSE Row(save[a])]
    BY <1>5 DEF UpdateWrite
  <2>2. Row(save[a]) \in Rows
    BY <1>0, <1>5, RowOfSave
  <2> QED
    BY <1>0, <2>1, <2>2 DEF Tables
<1>6. ASSUME NEW t \in Targets, RekeyElsewhere(t) PROVE rows' \in Tables
  <2>1. /\ rows' = [rows EXCEPT ![t] = [@ EXCEPT !.key = keys + 1]] /\ rows[t] \in Rows
        /\ keys < MaxKeys
    BY <1>0, <1>6 DEF RekeyElsewhere, Tables
  <2>2. keys + 1 \in Keys
    BY <1>0, <2>1, Constants DEF Keys
  <2>3. [rows[t] EXCEPT !.key = keys + 1] \in Rows
    BY <2>1, <2>2 DEF Rows
  <2> QED
    BY <1>0, <2>1, <2>3 DEF Tables
<1> QED
  BY <1>0, <1>2, <1>3, <1>4, <1>5, <1>6, RowsMoves

(* The page: the steps that change it.                                      *)
LEMMA PageMoves ==
  ASSUME [Next]_vars
  PROVE  \/ UNCHANGED page
         \/ \E a \in Admins :
               \/ openCreate(a) \/ handleDrawerClose(a) \/ \E t \in Targets : openEdit(a, t)
               \/ \E h \in Fields : handleValuesChange(a, h)
               \/ \E b \in BOOLEAN : chooseKey(a, b)
               \/ \E tab \in {"generate", "paste"} : chooseTab(a, tab)
               \/ handleTest(a) \/ SaveArrives(a) \/ ListArrives(a) \/ pasteKey(a)
               \/ FingerprintArrives(a) \/ KeygenArrives(a) \/ TestArrives(a)
  BY DEF Next, PageStep, confirmDelete, FetchFingerprint, handleKeygen, handleSave, SaveLost,
     Answers, ServeList, ServeFingerprint, ServeKeygen,
     TestRemediationTarget, CreateRemediationTarget, UpdateGet, UpdateWrite,
     DeleteRemediationTarget, DeleteArrives, DeleteElsewhere, RekeyElsewhere, vars, Fields

(* The page, by the fields that a step sets.                                *)
LEMMA PageStepType == SettingsInv /\ [Next]_vars => PageInv'
<1> SUFFICES ASSUME SettingsInv, [Next]_vars PROVE PageInv'
  OBVIOUS
<1>0. /\ page \in [Admins -> Pages] /\ Pages \subseteq Pages' /\ keys' \in keys..MaxKeys
      /\ 0..keys \subseteq 0..keys' /\ keys \in 1..MaxKeys
      /\ listing \in [Admins -> SUBSET Tables] /\ fetch \in [Admins -> [pc : {"none", "asked", "ok", "error"}, host : Fields]]
      /\ keygen \in [Admins -> [pc : {"none", "asked", "ok", "error"}, key : 0..keys]]
  BY KeysMove, KeysGrow DEF SettingsInv, PageInv, RowsInv, ListInv, FetchInv, KeygenInv
<1>1. CASE UNCHANGED page
  BY <1>0, <1>1 DEF PageInv
<1>2. ASSUME NEW a \in Admins, NEW p \in Pages', set(a, p) PROVE PageInv'
  BY <1>0, <1>2 DEF set, PageInv
<1>3. ASSUME NEW a \in Admins,
             \/ openCreate(a) \/ handleDrawerClose(a) \/ \E t \in Targets : openEdit(a, t)
             \/ \E h \in Fields : handleValuesChange(a, h)
             \/ \E b \in BOOLEAN : chooseKey(a, b)
             \/ \E tab \in {"generate", "paste"} : chooseTab(a, tab)
             \/ handleTest(a) \/ SaveArrives(a) \/ ListArrives(a)
      PROVE  PageInv'
  <2>0. page[a] \in Pages
    BY <1>0
  <2>1. CASE openCreate(a)
    <3>1. [page[a] EXCEPT !.open = TRUE, !.mounted = TRUE, !.id = NoTarget, !.host = Shown(page[a], NoHost)] \in Pages
      BY <2>0 DEF Pages, Shown, Fields
    <3> QED
      BY <1>0, <1>2, <2>1, <3>1 DEF openCreate
  <2>2. CASE handleDrawerClose(a)
    <3>1. [page[a] EXCEPT !.open = FALSE] \in Pages
      BY <2>0 DEF Pages
    <3> QED
      BY <1>0, <1>2, <2>2, <3>1 DEF handleDrawerClose
  <2>3. ASSUME NEW t \in Targets, openEdit(a, t) PROVE PageInv'
    <3>1. page[a].list[t].host \in Fields
      BY <2>0 DEF Pages, Tables, Rows, Absent, Fields
    <3>2. [page[a] EXCEPT !.open = TRUE, !.mounted = TRUE, !.id = t,
                          !.host = Shown(page[a], page[a].list[t].host)] \in Pages
      BY <2>0, <3>1 DEF Pages, Shown
    <3> QED
      BY <1>0, <1>2, <2>3, <3>2 DEF openEdit
  <2>4. ASSUME NEW h \in Fields, handleValuesChange(a, h) PROVE PageInv'
    <3>1. [page[a] EXCEPT !.host = h, !.fp = NoHost, !.result = "none"] \in Pages
      BY <2>0 DEF Pages, Fields
    <3> QED
      BY <1>0, <1>2, <2>4, <3>1 DEF handleValuesChange
  <2>5. ASSUME NEW b \in BOOLEAN, chooseKey(a, b) PROVE PageInv'
    <3>1. [page[a] EXCEPT !.keep = b] \in Pages
      BY <2>0 DEF Pages
    <3> QED
      BY <1>0, <1>2, <2>5, <3>1 DEF chooseKey
  <2>6. ASSUME NEW tab \in {"generate", "paste"}, chooseTab(a, tab) PROVE PageInv'
    <3>1. [page[a] EXCEPT !.tab = tab] \in Pages
      BY <2>0 DEF Pages
    <3> QED
      BY <1>0, <1>2, <2>6, <3>1 DEF chooseTab
  <2>7. CASE handleTest(a)
    <3>1. [page[a] EXCEPT !.result = "none"] \in Pages
      BY <2>0 DEF Pages
    <3> QED
      BY <1>0, <1>2, <2>7, <3>1 DEF handleTest
  <2>8. CASE SaveArrives(a)
    <3>1. [page[a] EXCEPT !.open = FALSE] \in Pages
      BY <2>0 DEF Pages
    <3> QED
      BY <1>0, <1>1, <1>2, <2>8, <3>1 DEF SaveArrives
  <2>9. CASE ListArrives(a)
    <3>1. PICK l \in listing[a] : set(a, [page[a] EXCEPT !.list = l])
      BY <2>9 DEF ListArrives
    <3>2. [page[a] EXCEPT !.list = l] \in Pages
      BY <1>0, <2>0, <3>1 DEF Pages
    <3> QED
      BY <1>0, <1>2, <3>1, <3>2
  <2> QED
    BY <1>3, <2>1, <2>2, <2>3, <2>4, <2>5, <2>6, <2>7, <2>8, <2>9
<1>4. ASSUME NEW a \in Admins, pasteKey(a) PROVE PageInv'
  <2>1. set(a, [page[a] EXCEPT !.pem = keys + 1]) /\ keys' = keys + 1 /\ page[a] \in Pages'
    BY <1>0, <1>4 DEF pasteKey
  <2>2. keys + 1 \in 0..keys'
    BY <1>0, <2>1, Constants
  <2>3. [page[a] EXCEPT !.pem = keys + 1] \in Pages'
    BY <2>1, <2>2 DEF Pages
  <2> QED
    BY <1>2, <2>1, <2>3
<1>5. ASSUME NEW a \in Admins, FingerprintArrives(a) \/ KeygenArrives(a) \/ TestArrives(a) PROVE PageInv'
  <2>0. page[a] \in Pages
    BY <1>0
  <2>1. CASE FingerprintArrives(a)
    <3>1. [page[a] EXCEPT !.fp = IF fetch[a].pc = "ok" THEN fetch[a].host ELSE @] \in Pages
      BY <1>0, <2>0 DEF Pages
    <3> QED
      BY <1>0, <1>2, <2>1, <3>1 DEF FingerprintArrives
  <2>2. CASE KeygenArrives(a)
    <3>1. [page[a] EXCEPT !.sealed = IF keygen[a].pc = "ok" THEN keygen[a].key ELSE @] \in Pages
      BY <1>0, <2>0 DEF Pages
    <3> QED
      BY <1>0, <1>2, <2>2, <3>1 DEF KeygenArrives
  <2>3. CASE TestArrives(a)
    <3>1. [page[a] EXCEPT !.result = test[a].pc] \in Pages
      BY <2>0, <2>3 DEF Pages, TestArrives
    <3> QED
      BY <1>0, <1>2, <2>3, <3>1 DEF TestArrives
  <2> QED
    BY <1>5, <2>1, <2>2, <2>3
<1> QED
  BY <1>1, <1>3, <1>4, <1>5, PageMoves

(* The calls in flight.                                                     *)
LEMMA SaveMoves ==
  ASSUME SettingsInv, [Next]_vars
  PROVE  UNCHANGED save \/ \E a \in Admins : handleSave(a) \/ SaveLost(a) \/ CreateRemediationTarget(a)
                                            \/ UpdateGet(a) \/ UpdateWrite(a) \/ SaveArrives(a)
  BY DEF Next, PageStep, openCreate, handleDrawerClose, openEdit, confirmDelete, handleValuesChange,
     chooseKey, chooseTab, pasteKey, FetchFingerprint, handleKeygen, handleTest,
     Answers, ServeList, ListArrives, ServeFingerprint, FingerprintArrives, ServeKeygen, KeygenArrives,
     TestRemediationTarget, TestArrives, DeleteRemediationTarget, DeleteArrives, DeleteElsewhere, RekeyElsewhere, vars, calls

LEMMA SaveStep == SettingsInv /\ [Next]_vars => SaveInv'
<1> SUFFICES ASSUME SettingsInv, [Next]_vars PROVE SaveInv'
  OBVIOUS
<1>0. /\ save \in [Admins -> Saves] /\ \A a \in Admins : save[a].pc = "read" => save[a].id # NoTarget
      /\ page \in [Admins -> Pages] /\ rows \in Tables
  BY DEF SettingsInv, SaveInv, PageInv, RowsInv
<1>1. ASSUME NEW a \in Admins, NEW s \in Saves, save' = [save EXCEPT ![a] = s],
             s.pc = "read" => s.id # NoTarget
      PROVE  SaveInv'
  <2>1. save' \in [Admins -> Saves] /\ \A b \in Admins : save'[b] = s \/ save'[b] = save[b]
    BY <1>0, <1>1
  <2> QED
    BY <1>0, <1>1, <2>1 DEF SaveInv, Saves
<1>2. ASSUME NEW a \in Admins, handleSave(a) PROVE SaveInv'
  <2> DEFINE s == [pc |-> "asked", id |-> page[a].id, host |-> page[a].host, fp |-> page[a].fp,
                   key |-> buildCredential(page[a]), old |-> NoKey]
  <2>1. s \in Saves
    BY <1>0, CredentialType, Constants DEF SettingsInv, Pages, Saves, NoKey
  <2> QED
    BY <1>1, <1>2, <2>1 DEF handleSave
<1>3. ASSUME NEW a \in Admins, NEW pc \in {"ok", "error"}, save' = [save EXCEPT ![a].pc = pc] PROVE SaveInv'
  <2>1. [save[a] EXCEPT !.pc = pc] \in Saves /\ [save[a] EXCEPT !.pc = pc].pc # "read"
    BY <1>0 DEF Saves
  <2>2. save' = [save EXCEPT ![a] = [save[a] EXCEPT !.pc = pc]]
    BY <1>0, <1>3
  <2> QED
    BY <1>1, <2>1, <2>2
<1>4. ASSUME NEW a \in Admins, CreateRemediationTarget(a) \/ UpdateWrite(a) \/ SaveLost(a) PROVE SaveInv'
  <2>1. \E pc \in {"ok", "error"} : save' = [save EXCEPT ![a].pc = pc]
    BY <1>4 DEF CreateRemediationTarget, UpdateWrite, SaveLost
  <2> QED
    BY <1>3, <2>1
<1>5. ASSUME NEW a \in Admins, UpdateGet(a) PROVE SaveInv'
  <2> DEFINE t == save[a].id
             s == [save[a] EXCEPT !.pc = "read", !.old = rows[t].key]
  <2>1. t \in Targets /\ save[a] \in Saves
    BY <1>0, <1>5 DEF UpdateGet, Saves
  <2>2. save' = [save EXCEPT ![a].pc = "error"] \/ (save' = [save EXCEPT ![a] = s] /\ rows[t] # Absent)
    BY <1>0, <1>5 DEF UpdateGet
  <2>3. ASSUME rows[t] # Absent PROVE s \in Saves /\ s.id = t
    <3>1. rows[t].key \in 0..MaxKeys
      BY <1>0, <2>1, <2>3, Constants DEF Tables, Rows, Keys
    <3> QED
      BY <2>1, <3>1 DEF Saves
  <2>4. t # NoTarget
    BY <2>1, Constants
  <2> QED
    BY <1>1, <1>3, <2>2, <2>3, <2>4
<1>6. ASSUME NEW a \in Admins, SaveArrives(a) PROVE SaveInv'
  <2>1. NoSave \in Saves /\ NoSave.pc # "read"
    BY Constants DEF NoSave, Saves, NoKey, Fields
  <2> QED
    BY <1>1, <1>6, <2>1 DEF SaveArrives
<1>7. CASE UNCHANGED save
  BY <1>0, <1>7 DEF SaveInv
<1> QED
  BY <1>2, <1>4, <1>5, <1>6, <1>7, SaveMoves

LEMMA CallsStep == SettingsInv /\ [Next]_vars => FetchInv' /\ KeygenInv' /\ ListInv'
<1> SUFFICES ASSUME SettingsInv, [Next]_vars PROVE FetchInv' /\ KeygenInv' /\ ListInv'
  OBVIOUS
<1>0. /\ keys' \in keys..MaxKeys /\ keys \in 1..MaxKeys /\ 0..keys \subseteq 0..keys'
      /\ page \in [Admins -> Pages] /\ rows \in Tables
      /\ listing \in [Admins -> SUBSET Tables] /\ fetch \in [Admins -> [pc : {"none", "asked", "ok", "error"}, host : Fields]]
      /\ keygen \in [Admins -> [pc : {"none", "asked", "ok", "error"}, key : 0..keys]]
  BY KeysMove, KeysGrow DEF SettingsInv, PageInv, RowsInv, ListInv, FetchInv, KeygenInv
<1>1. FetchInv'
  <2>1. UNCHANGED fetch \/ \E a \in Admins : FetchFingerprint(a) \/ ServeFingerprint(a) \/ FingerprintArrives(a)
    BY DEF Next, PageStep, openCreate, handleDrawerClose, openEdit, confirmDelete, handleValuesChange,
       chooseKey, chooseTab, pasteKey, handleKeygen, handleTest, handleSave, SaveLost,
       Answers, ServeList, ListArrives, ServeKeygen, KeygenArrives,
       TestRemediationTarget, TestArrives, CreateRemediationTarget, UpdateGet, UpdateWrite, SaveArrives,
       DeleteRemediationTarget, DeleteArrives, DeleteElsewhere, RekeyElsewhere, vars, calls
  <2>2. ASSUME NEW a \in Admins, FetchFingerprint(a) PROVE FetchInv'
    BY <1>0, <2>2 DEF FetchFingerprint, FetchInv, Pages
  <2>3. ASSUME NEW a \in Admins, ServeFingerprint(a) PROVE FetchInv'
    BY <1>0, <2>3 DEF ServeFingerprint, FetchInv
  <2>4. ASSUME NEW a \in Admins, FingerprintArrives(a) PROVE FetchInv'
    BY <1>0, <2>4 DEF FingerprintArrives, FetchInv, Fields
  <2> QED
    BY <1>0, <2>1, <2>2, <2>3, <2>4 DEF FetchInv
<1>2. KeygenInv'
  <2>1. UNCHANGED keygen \/ \E a \in Admins : handleKeygen(a) \/ ServeKeygen(a) \/ KeygenArrives(a)
    BY DEF Next, PageStep, openCreate, handleDrawerClose, openEdit, confirmDelete, handleValuesChange,
       chooseKey, chooseTab, pasteKey, FetchFingerprint, handleTest, handleSave, SaveLost,
       Answers, ServeList, ListArrives, ServeFingerprint, FingerprintArrives,
       TestRemediationTarget, TestArrives, CreateRemediationTarget, UpdateGet, UpdateWrite, SaveArrives,
       DeleteRemediationTarget, DeleteArrives, DeleteElsewhere, RekeyElsewhere, vars, calls
  <2> DEFINE K == [pc : {"none", "asked", "ok", "error"}, key : 0..keys']
  <2>2. keygen \in [Admins -> K]
    BY <1>0
  <2>3. ASSUME NEW a \in Admins, NEW g \in K, keygen' = [keygen EXCEPT ![a] = g] PROVE keygen' \in [Admins -> K]
    BY <2>2, <2>3
  <2>4. ASSUME NEW a \in Admins, handleKeygen(a) \/ ServeKeygen(a) \/ KeygenArrives(a)
        PROVE  \E g \in K : keygen' = [keygen EXCEPT ![a] = g]
    <3>1. \A pc \in {"none", "asked", "ok", "error"} : [keygen[a] EXCEPT !.pc = pc] \in K
      BY <2>2
    <3>2. CASE handleKeygen(a)
      <4>1. keygen' = [keygen EXCEPT ![a] = [keygen[a] EXCEPT !.pc = "asked"]]
        BY <2>2, <3>2 DEF handleKeygen
      <4> QED
        BY <3>1, <4>1
    <3>3. CASE ServeKeygen(a)
      <4>1. \/ keys' = keys + 1 /\ keygen' = [keygen EXCEPT ![a] = [pc |-> "ok", key |-> keys + 1]]
            \/ keygen' = [keygen EXCEPT ![a] = [keygen[a] EXCEPT !.pc = "error"]]
        BY <2>2, <3>3 DEF ServeKeygen
      <4>2. keys' = keys + 1 => keys + 1 \in 0..keys'
        BY <1>0, Constants
      <4> QED
        BY <3>1, <4>1, <4>2
    <3>4. CASE KeygenArrives(a)
      <4>1. 0 \in 0..keys'
        BY <1>0, Constants
      <4> QED
        BY <3>4, <4>1 DEF KeygenArrives, NoKey
    <3> QED
      BY <2>4, <3>2, <3>3, <3>4
  <2> QED
    BY <2>1, <2>2, <2>3, <2>4 DEF KeygenInv
<1>3. ListInv'
  <2>1. UNCHANGED listing \/ \E a \in Admins : ServeList(a) \/ ListArrives(a)
    <3>1. ASSUME NEW a \in Admins,
                 \/ openCreate(a) \/ handleDrawerClose(a)
                 \/ \E t \in Targets : openEdit(a, t) \/ confirmDelete(a, t)
                 \/ \E h \in Hosts \union {NoHost} : handleValuesChange(a, h)
                 \/ \E b \in BOOLEAN : chooseKey(a, b)
                 \/ \E tab \in {"generate", "paste"} : chooseTab(a, tab)
                 \/ pasteKey(a)
                 \/ FetchFingerprint(a) \/ handleKeygen(a) \/ handleTest(a) \/ handleSave(a)
          PROVE  UNCHANGED listing
      BY <3>1 DEF openCreate, handleDrawerClose, openEdit, confirmDelete, handleValuesChange,
         chooseKey, chooseTab, pasteKey, FetchFingerprint, handleKeygen, handleTest, handleSave, calls
    <3>2. ASSUME NEW a \in Admins, Answers(a) \/ SaveLost(a)
          PROVE  UNCHANGED listing \/ ServeList(a) \/ ListArrives(a)
      BY <3>2 DEF Answers, SaveLost, ServeFingerprint, FingerprintArrives, ServeKeygen, KeygenArrives,
         TestRemediationTarget, TestArrives, CreateRemediationTarget, UpdateGet, UpdateWrite, SaveArrives,
         DeleteRemediationTarget, DeleteArrives
    <3>3. ASSUME NEW t \in Targets, DeleteElsewhere(t) \/ RekeyElsewhere(t) PROVE UNCHANGED listing
      BY <3>3 DEF DeleteElsewhere, RekeyElsewhere, calls
    <3> QED
      BY <3>1, <3>2, <3>3 DEF Next, PageStep, vars
  <2>2. ASSUME NEW a \in Admins, ServeList(a) PROVE ListInv'
    <3>1. /\ rows \in Tables /\ listing \in [Admins -> SUBSET Tables]
          /\ listing' = [listing EXCEPT ![a] = listing[a] \union {rows}]
      BY <1>0, <2>2 DEF ServeList, ListInv
    <3>2. listing[a] \union {rows} \in SUBSET Tables
      BY <3>1
    <3> QED
      BY <3>1, <3>2 DEF ListInv
  <2>3. ASSUME NEW a \in Admins, ListArrives(a) PROVE ListInv'
    <3>1. PICK l \in listing[a] : listing' = [listing EXCEPT ![a] = listing[a] \ {l}]
      BY <2>3 DEF ListArrives
    <3>2. listing \in [Admins -> SUBSET Tables]
      BY <1>0 DEF ListInv
    <3>3. listing[a] \ {l} \in SUBSET Tables
      BY <3>2
    <3> QED
      BY <3>1, <3>2, <3>3 DEF ListInv
  <2> QED
    BY <1>0, <2>1, <2>2, <2>3 DEF ListInv
<1> QED
  BY <1>1, <1>2, <1>3

LEMMA SettingsInit == Init => SettingsInv
<1> SUFFICES ASSUME Init PROVE SettingsInv
  OBVIOUS
<1>1. /\ 1 \in 1..MaxKeys /\ 0 \in 0..MaxOps /\ 0 \in 0..keys /\ 0 \in 0..MaxKeys /\ keys = 1
  BY Constants DEF Init
<1>2. rows \in Tables
  <2>1. PICK h \in Hosts : rows = [t \in Targets |-> IF t \in created
                                     THEN [host |-> h, fp |-> h, key |-> 1] ELSE Absent]
    BY DEF Init
  <2>2. [host |-> h, fp |-> h, key |-> 1] \in Rows
    BY <1>1 DEF Rows, Keys
  <2> QED
    BY <2>1, <2>2 DEF Tables
<1>3. NewPage(rows) \in Pages
  BY <1>1, <1>2 DEF NewPage, Pages, Fields, NoKey
<1>4. NoSave \in Saves /\ NoSave.pc = "none"
  BY <1>1 DEF NoSave, Saves, Fields, NoKey
<1>5. RowsInv /\ PageInv
  BY <1>1, <1>2, <1>3 DEF Init, RowsInv, PageInv
<1>6. SaveInv /\ ListInv
  BY <1>4 DEF Init, SaveInv, ListInv
<1>7. FetchInv /\ KeygenInv
  BY <1>1 DEF Init, FetchInv, KeygenInv, Fields, NoKey
<1> QED
  BY <1>5, <1>6, <1>7 DEF SettingsInv

(* The types of the table, the pages and the calls in flight.               *)
THEOREM SettingsInvariance == Spec => []SettingsInv
<1>1. SettingsInv /\ [Next]_vars => SettingsInv'
  BY RowsStep, PageStepType, SaveStep, CallsStep DEF SettingsInv
<1> QED
  BY <1>1, SettingsInit, PTL DEF Spec

(* A deleted target stays deleted, although an update reads and writes its  *)
(* row in two statements, and an update without a credential loses a key    *)
(* only to another administrator's (UpdateRemediationTarget).               *)
THEOREM RowsStaySound == Spec => RowsAreKept
<1>1. SettingsInv => TypeOK
  <2> SUFFICES ASSUME SettingsInv PROVE TypeOK
    OBVIOUS
  <2>1. rows \in Tables /\ created \subseteq Targets /\ keys \in Nat /\ ops \in 0..MaxOps
    BY Constants DEF SettingsInv, RowsInv
  <2>2. \A a \in Admins : page[a] \in Pages /\ save[a] \in Saves
    BY DEF SettingsInv, PageInv, SaveInv
  <2> QED
    BY <2>1, <2>2 DEF TypeOK, Pages, Saves, Tables, Fields
<1>2. SettingsInv /\ [Next]_vars => [\A t \in created : rows[t] = Absent => rows'[t] = Absent]_vars
  <2> SUFFICES ASSUME SettingsInv, [Next]_vars, NEW t \in created, rows[t] = Absent PROVE rows'[t] = Absent
    OBVIOUS
  <2>0. rows \in Tables /\ t \in Targets
    BY DEF SettingsInv, RowsInv
  <2>1. ASSUME NEW a \in Admins, CreateRemediationTarget(a) PROVE rows'[t] = Absent
    BY <2>0, <2>1 DEF CreateRemediationTarget, Tables
  <2>2. ASSUME NEW u \in Targets, rows' = [rows EXCEPT ![u] = Absent] PROVE rows'[t] = Absent
    BY <2>0, <2>2 DEF Tables
  <2>3. ASSUME NEW a \in Admins, UpdateWrite(a) PROVE rows'[t] = Absent
    BY <2>0, <2>3 DEF UpdateWrite, Tables
  <2>4. ASSUME NEW u \in Targets, RekeyElsewhere(u) PROVE rows'[t] = Absent
    BY <2>0, <2>4 DEF RekeyElsewhere, Tables
  <2> QED
    BY <2>1, <2>2, <2>3, <2>4, RowsMoves
<1>3. SettingsInv /\ [Next]_vars =>
        [\A a \in Admins : LET t == save[a].id IN
            save[a].pc = "read" /\ save'[a].pc = "ok" /\ save[a].key = NoKey =>
               rows'[t].key = rows[t].key \/ rows[t].key # save[a].old]_vars
  <2> SUFFICES ASSUME SettingsInv, Next, NEW a \in Admins,
                      save[a].pc = "read", save'[a].pc = "ok", save[a].key = NoKey
               PROVE  rows'[save[a].id].key = rows[save[a].id].key \/ rows[save[a].id].key # save[a].old
    BY DEF vars
  <2>0. rows \in Tables /\ save \in [Admins -> Saves] /\ save[a].id \in Targets
    BY DEF SettingsInv, RowsInv, SaveInv, Saves
  <2>1. UpdateWrite(a)
    <3>1. ASSUME NEW b \in Admins, handleSave(b) \/ SaveLost(b) \/ CreateRemediationTarget(b)
                                   \/ UpdateGet(b) \/ UpdateWrite(b) \/ SaveArrives(b)
          PROVE  b = a
      BY <2>0, <3>1 DEF handleSave, SaveLost, CreateRemediationTarget, UpdateGet, UpdateWrite, SaveArrives
    <3>2. ~handleSave(a) /\ ~SaveLost(a) /\ ~CreateRemediationTarget(a) /\ ~UpdateGet(a) /\ ~SaveArrives(a)
      BY DEF handleSave, saveDisabled, SaveLost, CreateRemediationTarget, UpdateGet, SaveArrives
    <3>3. ~UNCHANGED save
      OBVIOUS
    <3> QED
      BY <3>1, <3>2, <3>3, SaveMoves
  <2>2. rows'[save[a].id] = rows[save[a].id] \/ rows'[save[a].id] = Row(save[a])
    BY <2>0, <2>1 DEF UpdateWrite, Tables
  <2> QED
    BY <2>2 DEF Row
<1> QED
  BY <1>1, <1>2, <1>3, SettingsInvariance, PTL DEF Spec, RowsAreKept, NoResurrection, KeyPreserved
=============================================================================
