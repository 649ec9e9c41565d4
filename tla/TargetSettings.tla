-------------------------- MODULE TargetSettings ---------------------------
(***************************************************************************)
(* The settings page of the SSH targets of remediation and the handlers    *)
(* behind it:                                                              *)
(*   frontend/src/container/RemediationTargetSettings/                     *)
(*   pkg/ruler/signozruler/remediation_target_handler.go                   *)
(*                                                                         *)
(* Every administrator has a page with the list of targets and one drawer, *)
(* a component that is mounted once and shown and hidden: its state        *)
(* outlives the target it was opened for.  Listing, fetching a host key    *)
(* fingerprint, generating a key, testing the connection, saving and       *)
(* deleting are calls whose answers arrive whatever was clicked meanwhile. *)
(* Host and port are one field, the other form fields are left out.        *)
(***************************************************************************)
EXTENDS Naturals

CONSTANTS
    Admins,     \* browsers
    Targets,    \* ids of targets
    Hosts,      \* what can be entered as host and port
    NoHost,     \* an empty field
    NoTarget,   \* no id
    Ready,      \* encryptionReady: a master key is configured
    MaxKeys,    \* bound: keys generated or pasted
    MaxOps      \* bound: calls other than listing

ASSUME TargetAssumption ==
    /\ NoHost \notin Hosts /\ NoTarget \notin Targets
    /\ Ready \in BOOLEAN
    /\ MaxKeys \in Nat \ {0} /\ MaxOps \in Nat

Keys == 1..MaxKeys
NoKey == 0

\* A row; the fingerprint of a host key is the host that has it.
Rows == [host : Hosts, fp : Hosts, key : Keys]
Absent == [host |-> NoHost, fp |-> NoHost, key |-> NoKey]

VARIABLES
    rows,     \* the table of targets
    created,  \* the ids that were ever given
    page,     \* the React state of every page
    fetch,    \* POST fingerprint: its stage and host
    keygen,   \* POST keygen: its stage and key
    test,     \* POST test: its stage and what is tested
    save,     \* POST or PUT of a target: its stage and body
    asked,    \* GET of the list: requests that the server has not handled
    listing,  \* GET of the list: answers on their way
    removal,  \* DELETE of a target: its stage
    keys,     \* the number of keys generated or pasted
    ops

calls == <<fetch, keygen, test, save, asked, listing, removal>>
vars == <<rows, created, page, fetch, keygen, test, save, asked, listing, removal, keys,
          ops>>

\* A call that a button makes.
Click == ops < MaxOps /\ ops' = ops + 1

set(a, p) == page' = [page EXCEPT ![a] = p]

------------------------------------------------------------------------------
(* RemediationTargetSettings                                                 *)

\* load(): the answers of two calls can arrive in either order.
ServeList(a) ==
    /\ asked[a] > 0
    /\ asked' = [asked EXCEPT ![a] = @ - 1]
    /\ listing' = [listing EXCEPT ![a] = @ \union {rows}]
    /\ UNCHANGED <<rows, created, page, fetch, keygen, test, save, removal, keys, ops>>

ListArrives(a) ==
    \E l \in listing[a] :
        /\ set(a, [page[a] EXCEPT !.list = l])
        /\ listing' = [listing EXCEPT ![a] = @ \ {l}]
        /\ UNCHANGED <<rows, created, fetch, keygen, test, save, asked, removal, keys, ops>>

\* antd's Form: initialValues count when no value of the field is stored, and the
\* values outlive the fields of a closed drawer.
Shown(p, initial) == IF p.mounted THEN p.host ELSE initial

\* useState runs its initialiser when the component is mounted, with the page.
openCreate(a) ==
    /\ ~page[a].open /\ Ready
    /\ set(a, [page[a] EXCEPT !.open = TRUE, !.mounted = TRUE, !.id = NoTarget,
                              !.host = Shown(page[a], NoHost)])
    /\ UNCHANGED <<rows, created, calls, keys, ops>>

openEdit(a, t) ==
    /\ ~page[a].open /\ page[a].list[t] # Absent
    /\ set(a, [page[a] EXCEPT !.open = TRUE, !.mounted = TRUE, !.id = t,
                              !.host = Shown(page[a], page[a].list[t].host)])
    /\ UNCHANGED <<rows, created, calls, keys, ops>>

handleDrawerClose(a) ==
    /\ page[a].open
    /\ set(a, [page[a] EXCEPT !.open = FALSE])
    /\ UNCHANGED <<rows, created, calls, keys, ops>>

\* The dialog can be left while the DELETE is under way.
confirmDelete(a, t) ==
    /\ ~page[a].open /\ page[a].list[t] # Absent /\ removal[a][t] = "none"
    /\ Click
    /\ removal' = [removal EXCEPT ![a][t] = "asked"]
    /\ UNCHANGED <<rows, created, page, fetch, keygen, test, save, asked, listing, keys>>

\* The client sees an error when the DELETE fails and when its answer is lost.
DeleteRemediationTarget(a, t) ==
    /\ removal[a][t] = "asked"
    /\ \/ /\ rows' = [rows EXCEPT ![t] = Absent]
          /\ \E pc \in {"ok", "none"} : removal' = [removal EXCEPT ![a][t] = pc]
       \/ /\ removal' = [removal EXCEPT ![a][t] = "none"]
          /\ UNCHANGED rows
    /\ UNCHANGED <<created, page, fetch, keygen, test, save, asked, listing, keys, ops>>

\* Only a DELETE that succeeds is followed by load().
DeleteArrives(a, t) ==
    /\ removal[a][t] = "ok"
    /\ removal' = [removal EXCEPT ![a][t] = "none"]
    /\ asked' = [asked EXCEPT ![a] = @ + 1]
    /\ UNCHANGED <<rows, created, page, fetch, keygen, test, save, listing, keys, ops>>

------------------------------------------------------------------------------
(* TargetFormDrawer                                                          *)

usingExistingKey(p) == p.id # NoTarget /\ p.keep

buildCredential(p) ==
    IF usingExistingKey(p) THEN NoKey
    ELSE IF p.tab = "generate" THEN p.sealed ELSE p.pem

saveDisabled(a) ==
    LET p == page[a]
    IN  \/ save[a].pc # "none"
        \/ ~usingExistingKey(p) /\ (~Ready \/ buildCredential(p) = NoKey)

handleValuesChange(a, h) ==
    /\ page[a].open /\ page[a].host # h
    /\ set(a, [page[a] EXCEPT !.host = h, !.fp = NoHost, !.result = "none"])
    /\ UNCHANGED <<rows, created, calls, keys, ops>>

chooseKey(a, keep) ==
    /\ page[a].open /\ page[a].id # NoTarget /\ page[a].keep # keep
    /\ set(a, [page[a] EXCEPT !.keep = keep])
    /\ UNCHANGED <<rows, created, calls, keys, ops>>

chooseTab(a, tab) ==
    /\ page[a].open /\ ~usingExistingKey(page[a]) /\ page[a].tab # tab
    /\ set(a, [page[a] EXCEPT !.tab = tab])
    /\ UNCHANGED <<rows, created, calls, keys, ops>>

pasteKey(a) ==
    /\ page[a].open /\ ~usingExistingKey(page[a]) /\ page[a].tab = "paste"
    /\ keys < MaxKeys /\ keys' = keys + 1
    /\ set(a, [page[a] EXCEPT !.pem = keys + 1])
    /\ UNCHANGED <<rows, created, calls, ops>>

\* handleFetchFingerprint reads the host when it is called.
FetchFingerprint(a) ==
    /\ Click
    /\ page[a].open /\ page[a].host # NoHost /\ fetch[a].pc = "none"
    /\ fetch' = [fetch EXCEPT ![a] = [pc |-> "asked", host |-> page[a].host]]
    /\ UNCHANGED <<rows, created, page, keygen, test, save, asked, listing, removal, keys>>

ServeFingerprint(a) ==
    /\ fetch[a].pc = "asked"
    /\ \E pc \in {"ok", "error"} : fetch' = [fetch EXCEPT ![a].pc = pc]
    /\ UNCHANGED <<rows, created, page, keygen, test, save, asked, listing, removal, keys, ops>>

\* Mutant: the button stays disabled after an error.
FingerprintArrivesOnce(a) ==
    /\ fetch[a].pc = "ok"
    /\ set(a, [page[a] EXCEPT !.fp = fetch[a].host])
    /\ fetch' = [fetch EXCEPT ![a] = [pc |-> "none", host |-> NoHost]]
    /\ UNCHANGED <<rows, created, keygen, test, save, asked, listing, removal, keys, ops>>

FingerprintArrives(a) ==
    /\ fetch[a].pc \in {"ok", "error"}
    /\ set(a, [page[a] EXCEPT !.fp = IF fetch[a].pc = "ok" THEN fetch[a].host ELSE @])
    /\ fetch' = [fetch EXCEPT ![a] = [pc |-> "none", host |-> NoHost]]
    /\ UNCHANGED <<rows, created, keygen, test, save, asked, listing, removal, keys, ops>>

handleKeygen(a) ==
    /\ Click
    /\ page[a].open /\ ~usingExistingKey(page[a]) /\ page[a].tab = "generate"
    /\ Ready /\ keygen[a] = [pc |-> "none", key |-> NoKey]
    /\ keygen' = [keygen EXCEPT ![a].pc = "asked"]
    /\ UNCHANGED <<rows, created, page, fetch, test, save, asked, listing, removal, keys>>

ServeKeygen(a) ==
    /\ keygen[a].pc = "asked"
    /\ \/ /\ keys < MaxKeys /\ keys' = keys + 1
          /\ keygen' = [keygen EXCEPT ![a] = [pc |-> "ok", key |-> keys + 1]]
       \/ /\ keygen' = [keygen EXCEPT ![a].pc = "error"]
          /\ UNCHANGED keys
    /\ UNCHANGED <<rows, created, page, fetch, test, save, asked, listing, removal, ops>>

KeygenArrives(a) ==
    /\ keygen[a].pc \in {"ok", "error"}
    /\ set(a, [page[a] EXCEPT !.sealed = IF keygen[a].pc = "ok" THEN keygen[a].key ELSE @])
    /\ keygen' = [keygen EXCEPT ![a] = [pc |-> "none", key |-> NoKey]]
    /\ UNCHANGED <<rows, created, fetch, test, save, asked, listing, removal, keys, ops>>

\* A draft is tested as it is; with the stored key the stored target is.
handleTest(a) ==
    /\ Click
    /\ page[a].open /\ page[a].fp # NoHost /\ test[a].pc = "none"
    /\ set(a, [page[a] EXCEPT !.result = "none"])
    /\ test' = [test EXCEPT ![a] =
          IF usingExistingKey(page[a])
          THEN [pc |-> "asked", id |-> page[a].id, host |-> NoHost, fp |-> NoHost,
                key |-> NoKey]
          ELSE [pc |-> "asked", id |-> NoTarget, host |-> page[a].host, fp |-> page[a].fp,
                key |-> buildCredential(page[a])]]
    /\ UNCHANGED <<rows, created, fetch, keygen, save, asked, listing, removal, keys>>

\* The connection can only succeed with the key of the host, if then.
Connects(r) == r.key # NoKey /\ r.host # NoHost /\ r.fp = r.host

TestRemediationTarget(a) ==
    /\ test[a].pc = "asked"
    /\ LET r == IF test[a].id # NoTarget THEN rows[test[a].id] ELSE test[a]
       IN  \E pc \in {"fail"} \union (IF Connects(r) /\ (test[a].id # NoTarget => Ready)
                                      THEN {"success"} ELSE {}) :
              test' = [test EXCEPT ![a].pc = pc]
    /\ UNCHANGED <<rows, created, page, fetch, keygen, save, asked, listing, removal, keys, ops>>

NoTest == [pc |-> "none", id |-> NoTarget, host |-> NoHost, fp |-> NoHost, key |-> NoKey]

TestArrives(a) ==
    /\ test[a].pc \in {"fail", "success"}
    /\ set(a, [page[a] EXCEPT !.result = test[a].pc])
    /\ test' = [test EXCEPT ![a] = NoTest]
    /\ UNCHANGED <<rows, created, fetch, keygen, save, asked, listing, removal, keys, ops>>

------------------------------------------------------------------------------
(* handleSave, CreateRemediationTarget and UpdateRemediationTarget           *)

NoSave == [pc |-> "none", id |-> NoTarget, host |-> NoHost, fp |-> NoHost, key |-> NoKey,
           old |-> NoKey]

\* The ids of the instance bound the targets that are created.
handleSave(a) ==
    /\ page[a].open /\ ~saveDisabled(a) /\ page[a].host # NoHost
    /\ page[a].id = NoTarget => created # Targets
    /\ Click
    /\ save' = [save EXCEPT ![a] =
          [pc |-> "asked", id |-> page[a].id, host |-> page[a].host, fp |-> page[a].fp,
           key |-> buildCredential(page[a]), old |-> NoKey]]
    /\ UNCHANGED <<rows, created, page, fetch, keygen, test, asked, listing, removal, keys>>

Row(s) == [host |-> s.host, fp |-> s.fp, key |-> IF s.key = NoKey THEN s.old ELSE s.key]

\* ValidateRemediationTarget
Valid(r) == r.host # NoHost /\ r.fp # NoHost /\ r.key # NoKey

CreateRemediationTarget(a) ==
    /\ save[a].pc = "asked" /\ save[a].id = NoTarget
    /\ IF Ready /\ Valid(Row(save[a]))
       THEN \E t \in Targets \ created :
               /\ rows' = [rows EXCEPT ![t] = Row(save[a])]
               /\ created' = created \union {t}
               /\ save' = [save EXCEPT ![a].pc = "ok"]
       ELSE /\ save' = [save EXCEPT ![a].pc = "error"]
            /\ UNCHANGED <<rows, created>>
    /\ UNCHANGED <<page, fetch, keygen, test, asked, listing, removal, keys, ops>>

\* The stored row is read for its sealed key.
UpdateGet(a) ==
    /\ save[a].pc = "asked" /\ save[a].id # NoTarget
    /\ save' = [save EXCEPT ![a] =
          IF rows[@.id] = Absent \/ (@.key # NoKey /\ ~Ready)
          THEN [@ EXCEPT !.pc = "error"]
          ELSE [@ EXCEPT !.pc = "read", !.old = rows[save[a].id].key]]
    /\ UNCHANGED <<rows, created, page, fetch, keygen, test, asked, listing, removal, keys, ops>>

\* Mutant: a row that is gone is inserted again.
UpsertTarget(a) ==
    /\ save[a].pc = "read"
    /\ IF Valid(Row(save[a]))
       THEN /\ rows' = [rows EXCEPT ![save[a].id] = Row(save[a])]
            /\ save' = [save EXCEPT ![a].pc = "ok"]
       ELSE /\ save' = [save EXCEPT ![a].pc = "error"]
            /\ UNCHANGED rows
    /\ UNCHANGED <<created, page, fetch, keygen, test, asked, listing, removal, keys, ops>>

\* The whole row is written; no row is not an error.
UpdateWrite(a) ==
    /\ save[a].pc = "read"
    /\ IF Valid(Row(save[a]))
       THEN /\ rows' = [rows EXCEPT ![save[a].id] = IF @ = Absent THEN @ ELSE Row(save[a])]
            /\ save' = [save EXCEPT ![a].pc = "ok"]
       ELSE /\ save' = [save EXCEPT ![a].pc = "error"]
            /\ UNCHANGED rows
    /\ UNCHANGED <<created, page, fetch, keygen, test, asked, listing, removal, keys, ops>>

\* The answer is lost: the row is written, the client sees an error.
SaveLost(a) ==
    /\ save[a].pc = "ok"
    /\ save' = [save EXCEPT ![a].pc = "error"]
    /\ UNCHANGED <<rows, created, page, fetch, keygen, test, asked, listing, removal, keys, ops>>

\* onSaved and onClose, or a message; the drawer that is open is closed.
SaveArrives(a) ==
    /\ save[a].pc \in {"ok", "error"}
    /\ IF save[a].pc = "ok"
       THEN /\ set(a, [page[a] EXCEPT !.open = FALSE])
            /\ asked' = [asked EXCEPT ![a] = @ + 1]
       ELSE UNCHANGED <<page, asked>>
    /\ save' = [save EXCEPT ![a] = NoSave]
    /\ UNCHANGED <<rows, created, fetch, keygen, test, listing, removal, keys, ops>>

------------------------------------------------------------------------------
\* The state of the page when it is opened: the drawer is mounted with it, closed,
\* in mode create and without a target.
NewPage(list) ==
    [list |-> list, open |-> FALSE, mounted |-> FALSE, id |-> NoTarget, host |-> NoHost,
     fp |-> NoHost, keep |-> FALSE, tab |-> "generate", sealed |-> NoKey, pem |-> NoKey,
     result |-> "none"]

\* Some targets exist, with keys that were pasted before.
Init ==
    /\ created \in SUBSET Targets
    /\ \E h \in Hosts : rows = [t \in Targets |-> IF t \in created
                                   THEN [host |-> h, fp |-> h, key |-> 1] ELSE Absent]
    /\ keys = 1
    /\ page = [a \in Admins |-> NewPage(rows)]
    /\ fetch = [a \in Admins |-> [pc |-> "none", host |-> NoHost]]
    /\ keygen = [a \in Admins |-> [pc |-> "none", key |-> NoKey]]
    /\ test = [a \in Admins |-> NoTest]
    /\ save = [a \in Admins |-> NoSave]
    /\ asked = [a \in Admins |-> 0]
    /\ listing = [a \in Admins |-> {}]
    /\ removal = [a \in Admins |-> [t \in Targets |-> "none"]]
    /\ ops = 0

Answers(a) ==
    \/ ServeList(a) \/ ListArrives(a)
    \/ ServeFingerprint(a) \/ FingerprintArrives(a)
    \/ ServeKeygen(a) \/ KeygenArrives(a)
    \/ TestRemediationTarget(a) \/ TestArrives(a)
    \/ CreateRemediationTarget(a) \/ UpdateGet(a) \/ UpdateWrite(a) \/ SaveArrives(a)
    \/ \E t \in Targets : DeleteRemediationTarget(a, t) \/ DeleteArrives(a, t)

\* An administrator whose page is not looked at deletes a target, or stores another
\* key for it (the last statement of the PUT).
DeleteElsewhere(t) ==
    /\ rows[t] # Absent
    /\ Click
    /\ rows' = [rows EXCEPT ![t] = Absent]
    /\ UNCHANGED <<created, page, calls, keys>>

RekeyElsewhere(t) ==
    /\ rows[t] # Absent /\ Ready
    /\ Click
    /\ keys < MaxKeys /\ keys' = keys + 1
    /\ rows' = [rows EXCEPT ![t].key = keys + 1]
    /\ UNCHANGED <<created, page, calls>>

PageStep == \E a \in Admins :
    \/ openCreate(a) \/ handleDrawerClose(a)
    \/ \E t \in Targets : openEdit(a, t) \/ confirmDelete(a, t)
    \/ \E h \in Hosts \union {NoHost} : handleValuesChange(a, h)
    \/ \E b \in BOOLEAN : chooseKey(a, b)
    \/ \E tab \in {"generate", "paste"} : chooseTab(a, tab)
    \/ pasteKey(a)
    \/ FetchFingerprint(a) \/ handleKeygen(a) \/ handleTest(a) \/ handleSave(a)
    \/ SaveLost(a)
    \/ Answers(a)

Next == PageStep \/ \E t \in Targets : DeleteElsewhere(t) \/ RekeyElsewhere(t)

\* Calls are handled and answered, each of its own (those the property is about).
Fairness == \A a \in Admins :
    /\ WF_vars(ServeFingerprint(a)) /\ WF_vars(FingerprintArrives(a))
    /\ WF_vars(CreateRemediationTarget(a)) /\ WF_vars(UpdateGet(a))
    /\ WF_vars(UpdateWrite(a)) /\ WF_vars(SaveArrives(a))

Spec == Init /\ [][Next]_vars /\ Fairness

------------------------------------------------------------------------------
TypeOK ==
    /\ rows \in [Targets -> Rows \union {Absent}]
    /\ created \subseteq Targets
    /\ \A a \in Admins :
          /\ page[a].list \in [Targets -> Rows \union {Absent}]
          /\ page[a].host \in Hosts \union {NoHost} /\ page[a].fp \in Hosts \union {NoHost}
          /\ page[a].sealed \in 0..keys /\ page[a].pem \in 0..keys
          /\ page[a].result \in {"none", "fail", "success"}
          /\ save[a].pc \in {"none", "asked", "read", "ok", "error"}
    /\ keys \in Nat /\ ops \in 0..MaxOps

\* A deleted target stays deleted, also when an update has read it before.
NoResurrection == [][\A t \in created : rows[t] = Absent => rows'[t] = Absent]_vars

\* An update without a credential keeps the key it has read.  (Row and key are read in
\* one statement and written in another: a key that another administrator stores in
\* between is overwritten, which is the only way a key is lost.)
KeyPreserved ==
    [][\A a \in Admins : LET t == save[a].id IN
          save[a].pc = "read" /\ save'[a].pc = "ok" /\ save[a].key = NoKey =>
             rows'[t].key = rows[t].key \/ rows[t].key # save[a].old]_vars

\* The stored rows are sound: what is deleted stays so, and keys are kept.
RowsAreKept == []TypeOK /\ NoResurrection /\ KeyPreserved

\* Whatever is answered, the buttons that fetch the fingerprint and save are enabled
\* again.
CallsSettle ==
    \A a \in Admins :
        /\ fetch[a].pc # "none" ~> fetch[a].pc = "none"
        /\ save[a].pc # "none" ~> save[a].pc = "none"
=============================================================================
