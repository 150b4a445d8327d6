---------------------------- MODULE McuOtaProofs ----------------------------
(***************************************************************************)
(* Proofs about McuOta for every number of retries, slot size, package     *)
(* size and number of events, and for both build options of the slots.     *)
(*                                                                         *)
(* The invariants of McuOta speak of the record in flash.  They are not    *)
(* inductive: the record is replaced by the copy a task holds in RAM, so   *)
(* the copy must satisfy them while it is on its way to the flash, and the *)
(* flash may change only under labels that hold no such copy.  First come  *)
(* the types, the control points and the session; then, given those, that  *)
(* what the bootloader starts is complete (TrustInv) and the count of      *)
(* starts a record keeps for an unverified image (BudgetInv).              *)
(***************************************************************************)
EXTENDS McuOta, TLAPS

Storing(t) == pc[t] \in {"erase", "write"}

\* The labels of the bootloader: no application, hence no host task.
BootLabels == {"init", "decide", "preproc", "jump", "select", "ymodem", "started", "unmark",
               "rejected", "finished", "abort", "aborted", "halt"}

\* What a task may be storing, by the place it returns to.
RetMain == {"decide", "ymodem", "select", "jump", "started", "rejected", "finished",
            "preproc", "aborted", "idle"}

\* Control: who runs in the bootloader and who in the application.
ControlInv ==
    /\ pc["main"] \in BootLabels \cup {"erase", "write", "dead", "verify", "idle"}
    /\ pc["host"] \in {"off", "init", "serve", "reboot", "erase", "write"}
    /\ Storing("main") => ret["main"] \in RetMain
    /\ Storing("host") => ret["host"] \in {"serve", "reboot"}
    /\ pc["main"] \in BootLabels \/ (Storing("main") /\ ret["main"] # "idle") =>
           booted = NoSlot
    /\ booted = NoSlot => pc["host"] = "off"
    /\ pc["main"] \in {"verify", "idle", "dead"} \/ (Storing("main") /\ ret["main"] = "idle") =>
           booted # NoSlot
    /\ pc["main"] = "dead" => pc["host"] = "off"
    /\ pc["host"] = "init" \/ (Storing("host") /\ ret["host"] = "serve") =>
           pc["main"] = "verify"

\* The jump to a counted slot has a slot to jump to.
JumpReady ==
    pc["main"] = "jump" \/ (Storing("main") /\ ret["main"] = "jump") =>
        InState(buf["main"], "UNVERIFIED") # {}

\* The session variables of a download, and the labels under which it is open.
Downloading == \/ dl.started
               \/ pc["main"] = "started"
               \/ Storing("main") /\ ret["main"] = "started"

SessionInv ==
    /\ Downloading => /\ booted = NoSlot
                      /\ tries[dl.target] = 0
    /\ dl.started => \/ pc["main"] \in {"ymodem", "abort", "aborted", "rejected", "finished"}
                     \/ Storing("main") /\ ret["main"] \in {"rejected", "finished", "aborted"}

\* A record that may be trusted: what it offers to the bootloader is complete in
\* the flash f, a single slot is never a BACKUP, and one of two slots is ACTIVE.
Truthful(r, f) ==
    /\ \A s \in Slots : r.status[s] \in {"ACTIVE", "UNVERIFIED"} =>
           f[s].intact /\ f[s].got = f[s].want
    /\ NumSlots = 1 => r.status[0] # "BACKUP"
    /\ NumSlots = 2 => \E s \in Slots : r.status[s] = "ACTIVE"

\* The window in which the single slot is erased and the record not yet.
EraseWindow == NumSlots = 1 /\ pc["main"] = "erase" /\ ret["main"] = "started"

\* The record area is empty only while a store is under way, or on a device that
\* has never been started.
Blank ==
    /\ pc["main"] = "init" \/ (pc["main"] = "erase" /\ ret["main"] = "decide")
    /\ Complete(0)

\* The RAM copies are as good as the record they replace, and a download never
\* has the ACTIVE slot for its target.
Sound ==
    /\ ~record.valid => Blank \/ \E t \in Tasks : pc[t] = "write"
    /\ record.valid /\ ~EraseWindow => Truthful(record, flash)
    /\ \A t \in Tasks : Storing(t) => Truthful(buf[t], flash) /\ buf[t].valid
    /\ pc["main"] \in {"jump", "select", "unmark"} =>
           Truthful(buf["main"], flash) /\ buf["main"].valid
    /\ (dl.started \/ pc["main"] = "started") /\ record.valid =>
           record.status[dl.target] # "ACTIVE"
    /\ (Downloading /\ Storing("main")) \/ pc["main"] = "unmark" =>
           buf["main"].status[dl.target] # "ACTIVE"
    /\ booted # NoSlot => Complete(booted)

TrustInv == Trusted => Sound

\* The persisted retry count covers the starts n so far.
Counted(r, n) == \A s \in Slots : r.status[s] = "UNVERIFIED" =>
                     n[s] <= r.count[s] /\ r.count[s] < MaxVerify

\* The count is in flash before the jump it accounts for.
Budgeted ==
    /\ \A s \in Slots : tries[s] < MaxVerify
    /\ record.valid => Counted(record, tries)
    /\ \A t \in Tasks : Storing(t) => Counted(buf[t], tries)
    /\ pc["main"] = "unmark" => Counted(buf["main"], tries)
    /\ pc["main"] = "jump" \/ (Storing("main") /\ ret["main"] = "jump") =>
          LET u == First(InState(buf["main"], "UNVERIFIED"))
          IN  tries[u] + 1 <= buf["main"].count[u] /\ buf["main"].count[u] < MaxVerify
    /\ pc["main"] = "jump" /\ record.valid => record = buf["main"]
    /\ pc["main"] = "select" \/ (Storing("main") /\ ret["main"] = "select") =>
          InState(buf["main"], "UNVERIFIED") = {}

BudgetInv == NumSlots = 1 \/ "record" \notin torn => Budgeted

IInv == TypeOK /\ ControlInv /\ JumpReady /\ SessionInv /\ TrustInv /\ BudgetInv

-----------------------------------------------------------------------------
(* Lemmas about the helpers.                                               *)

USE NumSlotsAssumption, MaxVerifyAssumption, SizesAssumption, MaxEventsAssumption

\* The lowest slot of a non-empty class is a slot of that class.
LEMMA FirstIn ==
    ASSUME NEW S, S \subseteq Slots, S # {}
    PROVE  First(S) \in S
<1>1. \E s \in S : \A x \in S : s <= x
  <2>1. CASE 0 \in S
    BY <2>1 DEF Slots
  <2>2. CASE 0 \notin S
    <3>1. \A x \in S : x = 1
      BY <2>2 DEF Slots
    <3> QED BY <3>1
  <2> QED BY <2>1, <2>2
<1> QED BY <1>1 DEF First

\* A slot returned by the selection loops belongs to the first class that has one.
LEMMA FirstOfIn ==
    ASSUME NEW r \in Record, NEW a \in Status, NEW b \in Status, NEW c \in Status
    PROVE  LET s == FirstOf(r, a, b, c)
           IN  /\ s \in Slots \cup {NoSlot}
               /\ s # NoSlot => r.status[s] \in {a, b, c}
               /\ s = NoSlot \/ r.status[s] = c =>
                      c \in {a, b} \/ (InState(r, a) = {} /\ InState(r, b) = {})
<1>1. \A st \in Status : InState(r, st) # {} =>
          First(InState(r, st)) \in Slots /\ r.status[First(InState(r, st))] = st
  BY FirstIn, Zenon DEF InState
<1>2. NoSlot \notin Slots
  BY DEF Slots, NoSlot
<1> QED BY Zenon, <1>1, <1>2 DEF FirstOf, InState

\* What record_load returns, the stored record or the default, is a record.
LEMMA LoadType == record \in Record => Load \in Record
BY Zenon DEF Load, DefaultRecord, Record, Status

\* The default and the erased record are records.
LEMMA DefaultType == DefaultRecord \in Record /\ NoRecord \in Record
BY Zenon DEF NoRecord, DefaultRecord, Record, Status

\* Setting the status of a slot clears its retry count and touches nothing else.
LEMMA WithType ==
    ASSUME NEW r \in Record, NEW s \in Slots, NEW st \in Status
    PROVE  /\ With(r, s, st) \in Record
           /\ With(r, s, st).valid = r.valid
           /\ With(r, s, st).status[s] = st
           /\ With(r, s, st).count[s] = 0
           /\ \A x \in Slots \ {s} : /\ With(r, s, st).status[x] = r.status[x]
                                     /\ With(r, s, st).count[x] = r.count[x]
BY Zenon DEF With, Record

-----------------------------------------------------------------------------
(* Type correctness.                                                       *)

\* A device that leaves the factory is well typed.
LEMMA InitType == Init => TypeOK
<1> SUFFICES ASSUME Init PROVE TypeOK
  BY Zenon
<1>1. 0 \in Slots
  BY DEF Slots
<1>2. record \in Record /\ buf \in [Tasks -> Record]
  BY DefaultType, Zenon DEF Init
<1>3. flash \in [Slots -> [want : 1 .. SlotBlocks, got : Nat, intact : BOOLEAN]]
  BY DEF Init
<1>4. pc \in [Tasks -> Labels] /\ ret \in [Tasks -> Labels]
  BY DEF Init, Tasks, Labels
<1>5. dl \in [started : BOOLEAN, target : Slots, total : Nat, done : Nat]
  BY <1>1, Zenon DEF Init, NoSession
<1>6. s_ota_session \in BOOLEAN /\ booted \in Slots \cup {NoSlot}
  BY Zenon DEF Init
<1>7. tries \in [Slots -> Nat] /\ torn \subseteq {"record", "slot"} /\ events \in 0 .. MaxEvents
  BY DEF Init
<1> QED BY <1>2, <1>3, <1>4, <1>5, <1>6, <1>7 DEF TypeOK

\* Entering record_store keeps labels and RAM copies well typed.
LEMMA StoreType ==
    ASSUME TypeOK, NEW t \in Tasks, NEW r \in Record, NEW l \in Labels, Store(t, r, l)
    PROVE  pc' \in [Tasks -> Labels] /\ ret' \in [Tasks -> Labels] /\ buf' \in [Tasks -> Record]
BY Zenon DEF Store, TypeOK, Labels

\* A plain step to another label keeps the labels well typed.
LEMMA GotoType ==
    ASSUME TypeOK, NEW t \in Tasks, NEW l \in Labels, Goto(t, l)
    PROVE  pc' \in [Tasks -> Labels]
BY Zenon DEF Goto, TypeOK

\* The event counter stays within its bound.
LEMMA EventType ==
    ASSUME TypeOK, Event \/ NoEvent
    PROVE  events' \in 0 .. MaxEvents
BY DEF Event, NoEvent, TypeOK

\* Where a task continues after a failed store is a label.
LEMMA OnFailType == \A l \in Labels : OnFail(l) \in Labels
BY DEF OnFail, Labels

\* The jump into an application keeps what it writes well typed.
LEMMA JumpType ==
    ASSUME TypeOK, NEW r \in Record, NEW s \in Slots, Jump(r, s)
    PROVE  /\ pc' \in [Tasks -> Labels] /\ booted' \in Slots \cup {NoSlot}
           /\ tries' \in [Slots -> Nat] /\ s_ota_session' \in BOOLEAN
           /\ dl' \in [started : BOOLEAN, target : Slots, total : Nat, done : Nat]
<1>1. 0 \in Slots
  BY DEF Slots
<1>2. pc' \in [Tasks -> Labels]
  BY DEF Jump, Tasks, Labels
<1>3. tries' \in [Slots -> Nat]
  BY DEF Jump, TypeOK
<1> QED BY Zenon, <1>1, <1>2, <1>3 DEF Jump, NoSession

\* So does the selection of a boot candidate, whether it jumps or waits for a
\* host.
LEMMA BootSelectType ==
    ASSUME TypeOK, NEW r \in Record, BootSelect(r)
    PROVE  /\ pc' \in [Tasks -> Labels] /\ booted' \in Slots \cup {NoSlot}
           /\ tries' \in [Slots -> Nat] /\ s_ota_session' \in BOOLEAN
           /\ dl' \in [started : BOOLEAN, target : Slots, total : Nat, done : Nat]
<1> DEFINE s == choose_boot_candidate_ota_slot(r)
<1>1. s \in Slots \cup {NoSlot}
  BY FirstOfIn DEF choose_boot_candidate_ota_slot, Status
<1>2. CASE s # NoSlot
  BY <1>1, <1>2, JumpType, Zenon DEF BootSelect
<1>3. CASE s = NoSlot
  BY <1>3 DEF BootSelect, Goto, TypeOK, Labels
<1> QED BY <1>2, <1>3

\* The slot chosen for a download, if any, is a slot.
LEMMA TargetType ==
    ASSUME NEW r \in Record, choose_target_ota_slot(r) # NoSlot
    PROVE  choose_target_ota_slot(r) \in Slots
<1>1. FirstOf(r, "DOWNLOADING", "INVALID", "BACKUP") \in Slots \cup {NoSlot}
  BY FirstOfIn DEF Status
<1> QED BY <1>1 DEF choose_target_ota_slot, Slots

\* A reset keeps the state well typed.
LEMMA ResetType ==
    ASSUME TypeOK, Reset, events' \in 0 .. MaxEvents
    PROVE  TypeOK'
<1>1. 0 \in Slots
  BY DEF Slots
<1>2. pc' \in [Tasks -> Labels] /\ ret' \in [Tasks -> Labels] /\ buf' \in [Tasks -> Record]
  BY DefaultType DEF Reset, Tasks, Labels
<1>3. dl' \in [started : BOOLEAN, target : Slots, total : Nat, done : Nat]
  BY <1>1, Zenon DEF Reset, NoSession
<1>4. torn' \subseteq {"record", "slot"}
  BY Zenon DEF Reset, TypeOK
<1> QED BY Zenon, <1>2, <1>3, <1>4 DEF Reset, TypeOK

\* Every step keeps the state well typed.
LEMMA NextType == TypeOK /\ JumpReady /\ [Next]_vars => TypeOK'
<1> SUFFICES ASSUME TypeOK, JumpReady, [Next]_vars PROVE TypeOK'
  BY Zenon
<1> USE DEF Event, NoEvent
<1>0. Load \in Record /\ 0 \in Slots
  BY LoadType DEF TypeOK, Slots
<1>1. ASSUME NEW t \in Tasks, StoreErase(t) PROVE TypeOK'
  BY <1>1, DefaultType, Zenon DEF StoreErase, Goto, TypeOK, Labels
<1>2. ASSUME NEW t \in Tasks, StoreWrite(t) PROVE TypeOK'
  <2>1. ret[t] \in Labels /\ OnFail(ret[t]) \in Labels /\ buf[t] \in Record
    BY OnFailType, Zenon DEF TypeOK
  <2>2. record' \in Record /\ pc' \in [Tasks -> Labels]
    BY <1>2, <2>1 DEF StoreWrite, Goto, TypeOK
  <2> QED BY <1>2, <2>2 DEF StoreWrite, TypeOK
<1>3. ASSUME NEW t \in Tasks, StoreFault(t) PROVE TypeOK'
  <2>1. ret[t] \in Labels /\ OnFail(ret[t]) \in Labels
    BY OnFailType, Zenon DEF TypeOK
  <2>2. record' \in Record /\ pc' \in [Tasks -> Labels]
    BY <1>3, <2>1, DefaultType DEF StoreFault, Goto, TypeOK
  <2>3. torn' \subseteq {"record", "slot"} /\ events' \in 0 .. MaxEvents
    BY <1>3 DEF StoreFault, TypeOK
  <2> QED BY <1>3, <2>2, <2>3 DEF StoreFault, TypeOK
<1>4. ASSUME NEW t \in Tasks, ota_module_init(t) PROVE TypeOK'
  <2>1. dl' \in [started : BOOLEAN, target : Slots, total : Nat, done : Nat]
    BY <1>4, <1>0, Zenon DEF ota_module_init, NoSession
  <2>2. pc' \in [Tasks -> Labels] /\ ret' \in [Tasks -> Labels] /\ buf' \in [Tasks -> Record]
    <3>1. CASE record.valid
      BY <1>4, <3>1, ZenonT(30) DEF ota_module_init, Goto, TypeOK, Labels
    <3>2. CASE ~record.valid
      BY <1>4, <3>2, DefaultType, StoreType, Zenon DEF ota_module_init, Labels
    <3> QED BY <3>1, <3>2
  <2> QED BY <1>4, <2>1, <2>2 DEF ota_module_init, TypeOK
<1>5. CASE BootDecide
  <2>1. [Load EXCEPT !.ymodem = 0] \in Record /\ "main" \in Tasks
    BY <1>0, Zenon DEF Record, Tasks
  <2>2. pc' \in [Tasks -> Labels] /\ ret' \in [Tasks -> Labels] /\ buf' \in [Tasks -> Record]
    <3>1. CASE Store("main", [Load EXCEPT !.ymodem = 0], "ymodem")
      BY <3>1, <2>1, StoreType, Zenon DEF Labels
    <3>2. CASE UNCHANGED <<buf, ret>> /\ (Goto("main", "preproc") \/ Goto("main", "ymodem"))
      BY <3>2, Zenon DEF Goto, TypeOK, Labels
    <3> QED BY <1>5, <3>1, <3>2 DEF BootDecide
  <2>3. events' \in 0 .. MaxEvents
    BY <1>5 DEF BootDecide, TypeOK
  <2> QED BY <1>5, <2>2, <2>3 DEF BootDecide, TypeOK
<1>6. CASE boot_preprocess
  <2> DEFINE u == First(InState(Load, "UNVERIFIED"))
  <2>1. CASE InState(Load, "UNVERIFIED") = {} /\ BootSelect(Load)
    BY <1>0, <1>6, <2>1, BootSelectType, Zenon DEF boot_preprocess, TypeOK
  <2>2. CASE InState(Load, "UNVERIFIED") # {}
    <3>1. u \in Slots
      BY <2>2, FirstIn, Zenon DEF InState
    <3>2. With(Load, u, "INVALID") \in Record /\ [Load EXCEPT !.count[u] = @ + 1] \in Record
      <4>1. With(Load, u, "INVALID") \in Record
        BY <1>0, <3>1, WithType, Zenon DEF Status
      <4>2. [Load EXCEPT !.count[u] = @ + 1] \in Record
        BY <1>0, <3>1 DEF Record
      <4> QED BY <4>1, <4>2
    <3>3. pc' \in [Tasks -> Labels] /\ ret' \in [Tasks -> Labels] /\ buf' \in [Tasks -> Record]
      BY <1>6, <2>2, <3>2, StoreType, Zenon DEF boot_preprocess, Tasks, Labels
    <3> QED BY <1>6, <2>2, <3>3 DEF boot_preprocess, TypeOK
  <2> QED BY <1>6, <2>1, <2>2 DEF boot_preprocess
<1>7. CASE BootStored
  <2>1. buf["main"] \in Record
    BY Zenon DEF TypeOK, Tasks
  <2>2. CASE pc["main"] = "jump" /\ Jump(buf["main"], First(InState(buf["main"], "UNVERIFIED")))
    <3>1. First(InState(buf["main"], "UNVERIFIED")) \in Slots
      BY <2>2, FirstIn, Zenon DEF JumpReady, InState
    <3> QED BY <1>7, <2>1, <2>2, <3>1, JumpType DEF BootStored, TypeOK
  <2>3. CASE BootSelect(buf["main"])
    BY <1>7, <2>1, <2>3, BootSelectType, Zenon DEF BootStored, TypeOK
  <2> QED BY <1>7, <2>2, <2>3 DEF BootStored
<1>8. ASSUME NEW n \in Sizes, ota_download_start(n) PROVE TypeOK'
  <2> DEFINE t == choose_target_ota_slot(Load)
  <2>1. t \in Slots
    BY <1>0, <1>8, TargetType, Zenon DEF ota_download_start
  <2>2. n \in 1 .. SlotBlocks
    BY <1>8 DEF ota_download_start
  <2>3. With(Load, t, "DOWNLOADING") \in Record
    BY <1>0, <2>1, WithType, Zenon DEF Status
  <2>4. pc' \in [Tasks -> Labels] /\ ret' \in [Tasks -> Labels] /\ buf' \in [Tasks -> Record]
    BY <1>8, <2>3, StoreType, Zenon DEF ota_download_start, Tasks, Labels
  <2>5. flash' \in [Slots -> [want : 1 .. SlotBlocks, got : Nat, intact : BOOLEAN]]
    BY <1>8, <2>1, <2>2, Zenon DEF ota_download_start, TypeOK
  <2>6. dl' \in [started : BOOLEAN, target : Slots, total : Nat, done : Nat]
    BY <1>8, <2>1, <2>2, Zenon DEF ota_download_start
  <2>7. tries' \in [Slots -> Nat]
    BY Zenon, <1>8 DEF ota_download_start, TypeOK
  <2> QED BY <1>8, <2>4, <2>5, <2>6, <2>7 DEF ota_download_start, TypeOK
<1>9. ASSUME NEW n \in Sizes, SlotEraseFault(n) PROVE TypeOK'
  <2>1. choose_target_ota_slot(Load) \in Slots
    BY <1>0, <1>9, TargetType, Zenon DEF SlotEraseFault
  <2>2. n \in 1 .. SlotBlocks
    BY <1>9 DEF SlotEraseFault
  <2>3. flash' \in [Slots -> [want : 1 .. SlotBlocks, got : Nat, intact : BOOLEAN]]
    BY <1>9, <2>1, <2>2, Zenon DEF SlotEraseFault, TypeOK
  <2> QED BY <1>9, <2>3 DEF SlotEraseFault, TypeOK
<1>10. CASE DownloadStarted
  <2>1. CASE pc["main"] = "started"
    BY Zenon, <1>10, <2>1 DEF DownloadStarted, Goto, TypeOK, Labels
  <2>2. CASE pc["main"] = "unmark"
    <3>1. With(buf["main"], dl.target, "INVALID") \in Record
      BY WithType, Zenon DEF TypeOK, Tasks, Status
    <3>2. pc' \in [Tasks -> Labels] /\ ret' \in [Tasks -> Labels] /\ buf' \in [Tasks -> Record]
      BY <1>10, <2>2, <3>1, StoreType, Zenon DEF DownloadStarted, Tasks, Labels
    <3> QED BY <1>10, <2>2, <3>2 DEF DownloadStarted, TypeOK
  <2> QED BY <1>10, <2>1, <2>2 DEF DownloadStarted
<1>11. ASSUME NEW good \in BOOLEAN, ota_download(good) PROVE TypeOK'
  <2>1. flash' \in [Slots -> [want : 1 .. SlotBlocks, got : Nat, intact : BOOLEAN]]
    BY <1>11 DEF ota_download, TypeOK
  <2>2. dl' \in [started : BOOLEAN, target : Slots, total : Nat, done : Nat]
    BY <1>11 DEF ota_download, TypeOK
  <2> QED BY <1>11, <2>1, <2>2 DEF ota_download, TypeOK
<1>12. CASE DownloadFails
  <2>1. flash' \in [Slots -> [want : 1 .. SlotBlocks, got : Nat, intact : BOOLEAN]]
    <3>1. CASE UNCHANGED flash
      BY <3>1, Zenon DEF TypeOK
    <3>2. CASE flash' = [flash EXCEPT ![dl.target].intact = FALSE]
      BY ZenonT(30), <3>2 DEF TypeOK
    <3> QED BY <1>12, <3>1, <3>2 DEF DownloadFails
  <2>2. pc' \in [Tasks -> Labels]
    BY <1>12, GotoType, Zenon DEF DownloadFails, Tasks, Labels
  <2>3. events' \in 0 .. MaxEvents
    BY <1>12, EventType, Zenon DEF DownloadFails
  <2> QED BY <1>12, <2>1, <2>2, <2>3 DEF DownloadFails, TypeOK
<1>13. CASE ota_download_finish
  <2>1. \A st \in Status : With(record, dl.target, st) \in Record
    BY WithType, Zenon DEF TypeOK
  <2>2. pc' \in [Tasks -> Labels] /\ ret' \in [Tasks -> Labels] /\ buf' \in [Tasks -> Record]
    <3>1. CASE Store("main", With(record, dl.target, "UNVERIFIED"), "finished")
      BY <2>1, <3>1, StoreType, Zenon DEF Tasks, Labels, Status
    <3>2. CASE Store("main", With(record, dl.target, "INVALID"), "rejected")
      BY <2>1, <3>2, StoreType, Zenon DEF Tasks, Labels, Status
    <3>3. CASE Goto("main", "abort") /\ UNCHANGED <<buf, ret>>
      BY Zenon, <3>3 DEF Goto, TypeOK, Labels
    <3> QED BY <1>13, <3>1, <3>2, <3>3 DEF ota_download_finish
  <2> QED BY <1>13, <2>2 DEF ota_download_finish, TypeOK
<1>14. CASE EotContinue
  <2>1. [Load EXCEPT !.ymodem = 0] \in Record /\ "main" \in Tasks
    BY <1>0, Zenon DEF Record, Tasks
  <2>2. pc' \in [Tasks -> Labels] /\ ret' \in [Tasks -> Labels] /\ buf' \in [Tasks -> Record]
    <3>1. CASE Store("main", [Load EXCEPT !.ymodem = 0], "preproc")
      BY <3>1, <2>1, StoreType, Zenon DEF Labels
    <3>2. CASE Goto("main", "abort") /\ UNCHANGED <<buf, ret>>
      BY Zenon, <3>2 DEF Goto, TypeOK, Labels
    <3> QED BY <1>14, <3>1, <3>2 DEF EotContinue
  <2>3. dl' \in [started : BOOLEAN, target : Slots, total : Nat, done : Nat]
    BY <1>14, <1>0, Zenon DEF EotContinue, NoSession
  <2>4. s_ota_session' \in BOOLEAN
    BY Zenon, <1>14 DEF EotContinue, TypeOK
  <2> QED BY <1>14, <2>2, <2>3, <2>4 DEF EotContinue, TypeOK
<1>15. CASE ota_download_abort
  <2> DEFINE x == IF dl.started THEN dl.target ELSE First(InState(Load, "DOWNLOADING"))
  <2>1. CASE Goto("main", "ymodem") /\ UNCHANGED <<buf, ret>>
    BY Zenon, <1>15, <2>1 DEF ota_download_abort, Goto, TypeOK, Labels
  <2>2. CASE /\ dl.started \/ InState(Load, "DOWNLOADING") # {}
             /\ Store("main", With(Load, x, "INVALID"), "aborted")
    <3>1. x \in Slots
      <4>1. dl.target \in Slots
        BY Zenon DEF TypeOK
      <4>2. InState(Load, "DOWNLOADING") # {} => First(InState(Load, "DOWNLOADING")) \in Slots
        BY FirstIn, Zenon DEF InState
      <4> QED BY <2>2, <4>1, <4>2
    <3>2. With(Load, x, "INVALID") \in Record
      BY Zenon, <1>0, <3>1, WithType DEF Status
    <3>3. pc' \in [Tasks -> Labels] /\ ret' \in [Tasks -> Labels] /\ buf' \in [Tasks -> Record]
      BY <2>2, <3>2, StoreType, Zenon DEF Tasks, Labels
    <3> QED BY Zenon, <1>15, <3>3 DEF ota_download_abort, TypeOK
  <2> QED BY <1>15, <2>1, <2>2 DEF ota_download_abort
<1>16. CASE DownloadAborted
  BY Zenon, <1>0, <1>16 DEF DownloadAborted, NoSession, Goto, TypeOK, Labels
<1>17. CASE HostCancels
  <2>1. pc' \in [Tasks -> Labels] /\ events' \in 0 .. MaxEvents
    BY <1>17, GotoType, EventType, Zenon DEF HostCancels, Tasks, Labels
  <2> QED BY <1>17, <2>1 DEF HostCancels, TypeOK
<1>18. CASE app_mark_verified
  <2> DEFINE u == First(InState(record, "UNVERIFIED"))
             promoted ==
                [record EXCEPT
                   !.status = [s \in Slots |->
                        IF s = u THEN "ACTIVE"
                        ELSE IF @[s] \in {"ACTIVE", "UNVERIFIED"} THEN "BACKUP" ELSE @[s]],
                   !.count = [s \in Slots |->
                        IF s = u \/ record.status[s] \in {"ACTIVE", "UNVERIFIED"}
                        THEN 0 ELSE @[s]]]
  <2>1. promoted \in Record
    BY Zenon DEF TypeOK, Record, Status
  <2>2. pc' \in [Tasks -> Labels] /\ ret' \in [Tasks -> Labels] /\ buf' \in [Tasks -> Record]
    <3>1. CASE Store("main", promoted, "idle")
      BY <2>1, <3>1, StoreType, Zenon DEF Tasks, Labels
    <3>2. CASE Goto("main", "idle") /\ UNCHANGED <<buf, ret>>
      BY Zenon, <3>2 DEF Goto, TypeOK, Labels
    <3> QED BY <1>18, <3>1, <3>2 DEF app_mark_verified
  <2> QED BY <1>18, <2>2 DEF app_mark_verified, TypeOK
<1>19. CASE ota_host_cmd_enter_boot
  <2>1. [Load EXCEPT !.ymodem = 1] \in Record
    BY <1>0, Zenon DEF Record
  <2>2. pc' \in [Tasks -> Labels] /\ ret' \in [Tasks -> Labels] /\ buf' \in [Tasks -> Record]
    BY <1>19, <2>1, StoreType, Zenon DEF ota_host_cmd_enter_boot, Tasks, Labels
  <2> QED BY <1>19, <2>2 DEF ota_host_cmd_enter_boot, TypeOK
<1>20. CASE ota_host_cmd_reboot
  <2>1. pc' \in [Tasks -> Labels] /\ events' \in 0 .. MaxEvents
    BY <1>20, GotoType, EventType, Zenon DEF ota_host_cmd_reboot, Tasks, Labels
  <2> QED BY <1>20, <2>1 DEF ota_host_cmd_reboot, TypeOK
<1>21. CASE PowerLoss \/ OwnReset \/ (Reset /\ NoEvent)
  <2>1. Reset /\ events' \in 0 .. MaxEvents
    BY <1>21 DEF PowerLoss, OwnReset, TypeOK
  <2> QED BY <2>1, ResetType
<1>22. CASE IdleTimeout
  <2>1. CASE Reset
    BY <1>21, <1>22, <2>1, Zenon DEF IdleTimeout
  <2>2. CASE Goto("main", "abort") /\ UNCHANGED <<record, flash, buf, ret, dl, s_ota_session, booted, tries, torn>>
    BY Zenon, <1>22, <2>2 DEF IdleTimeout, Goto, TypeOK, Labels
  <2> QED BY <1>22, <2>1, <2>2 DEF IdleTimeout
<1>23. CASE UNCHANGED vars
  BY <1>23, Zenon DEF vars, TypeOK
<1> QED
  BY Zenon, <1>1, <1>2, <1>3, <1>4, <1>5, <1>6, <1>7, <1>8, <1>9, <1>10, <1>11, <1>12, <1>13,
     <1>14, <1>15, <1>16, <1>17, <1>18, <1>19, <1>20, <1>21, <1>22, <1>23
     DEF Next, ProgramStep, HostStep, StoreStep

-----------------------------------------------------------------------------
(* Control.                                                                *)

\* After a jump only the application runs.
LEMMA JumpControl ==
    ASSUME NEW r, NEW s \in Slots, Jump(r, s)
    PROVE  ControlInv'
<1>1. booted' # NoSlot
  BY DEF Jump, Slots, NoSlot
<1>2. \/ pc' = [main |-> "verify", host |-> "init"]
      \/ pc' = [main |-> "dead", host |-> "off"]
  BY Zenon DEF Jump
<1> QED BY <1>1, <1>2 DEF ControlInv, Storing, BootLabels

\* After the selection either the application runs or the receiver does.
LEMMA BootSelectControl ==
    ASSUME TypeOK, ControlInv, pc["main"] \in {"preproc", "select"},
           NEW r \in Record, BootSelect(r)
    PROVE  ControlInv'
<1>1. choose_boot_candidate_ota_slot(r) \in Slots \cup {NoSlot}
  BY FirstOfIn DEF choose_boot_candidate_ota_slot, Status
<1>2. CASE choose_boot_candidate_ota_slot(r) # NoSlot
  BY <1>1, <1>2, JumpControl, Zenon DEF BootSelect
<1>3. CASE choose_boot_candidate_ota_slot(r) = NoSlot
  <2>1. pc \in [{"main", "host"} -> Labels]
    BY Zenon DEF TypeOK, Tasks
  <2>2. /\ pc' = [pc EXCEPT !["main"] = "ymodem"] /\ booted' = booted
    BY <1>3, Zenon DEF BootSelect, Goto
  <2>3. pc'["main"] = "ymodem" /\ pc'["host"] = "off" /\ booted' = NoSlot
    BY SMTT(30), <2>1, <2>2 DEF ControlInv, BootLabels
  <2> QED BY <2>3 DEF ControlInv, Storing, BootLabels
<1> QED BY SMTT(30), <1>2, <1>3

\* Every step moves the tasks along the code: bootloader and application
\* never run together, and a store returns to a label of its task.
LEMMA NextControl == TypeOK /\ JumpReady /\ ControlInv /\ [Next]_vars => ControlInv'
<1> SUFFICES ASSUME TypeOK, JumpReady, ControlInv, [Next]_vars PROVE ControlInv'
  BY Zenon
<1> USE DEF ControlInv, Storing, BootLabels, RetMain, Goto, Store
<1>0. /\ pc \in [{"main", "host"} -> Labels] /\ ret \in [{"main", "host"} -> Labels]
      /\ Tasks = {"main", "host"}
  BY Zenon DEF TypeOK, Tasks
<1>1. ASSUME NEW t \in Tasks, StoreErase(t) PROVE ControlInv'
  BY <1>0, <1>1, Zenon DEF StoreErase
<1>2. ASSUME NEW t \in Tasks, StoreWrite(t) PROVE ControlInv'
  BY <1>0, <1>2 DEF StoreWrite, OnFail, MayRun
<1>3. ASSUME NEW t \in Tasks, StoreFault(t) PROVE ControlInv'
  BY <1>0, <1>3 DEF StoreFault, OnFail, MayRun
<1>4. ASSUME NEW t \in Tasks, ota_module_init(t) PROVE ControlInv'
  BY <1>0, <1>4 DEF ota_module_init
<1>5. CASE BootDecide
  BY <1>0, <1>5, Zenon DEF BootDecide
<1>6. CASE boot_preprocess
  <2>1. CASE BootSelect(Load)
    BY <1>6, <2>1, LoadType, BootSelectControl, Zenon DEF boot_preprocess, TypeOK
  <2>2. CASE ~BootSelect(Load)
    BY SMTT(30), <1>0, <1>6, <2>2 DEF boot_preprocess
  <2> QED BY <2>1, <2>2
<1>7. CASE BootStored
  <2>1. CASE pc["main"] = "jump" /\ Jump(buf["main"], First(InState(buf["main"], "UNVERIFIED")))
    <3>1. First(InState(buf["main"], "UNVERIFIED")) \in Slots
      BY <2>1, FirstIn, Zenon DEF JumpReady, InState
    <3> QED BY <2>1, <3>1, JumpControl
  <2>2. CASE pc["main"] = "select" /\ BootSelect(buf["main"])
    <3>1. buf["main"] \in Record
      BY SMTT(30) DEF TypeOK, Tasks
    <3> QED BY <2>2, <3>1, BootSelectControl
  <2> QED BY <1>7, <2>1, <2>2 DEF BootStored
<1>8. ASSUME NEW n \in Sizes, ota_download_start(n) PROVE ControlInv'
  BY <1>0, <1>8, Zenon DEF ota_download_start
<1>9. ASSUME NEW n \in Sizes, SlotEraseFault(n) PROVE ControlInv'
  BY <1>9, Zenon DEF SlotEraseFault
<1>10. CASE DownloadStarted
  BY <1>0, <1>10, Zenon DEF DownloadStarted
<1>11. ASSUME NEW good \in BOOLEAN, ota_download(good) PROVE ControlInv'
  BY <1>11, Zenon DEF ota_download
<1>12. CASE DownloadFails
  BY SMTT(30), <1>0, <1>12 DEF DownloadFails
<1>13. CASE ota_download_finish
  BY <1>0, <1>13 DEF ota_download_finish
<1>14. CASE EotContinue
  BY <1>0, <1>14, Zenon DEF EotContinue
<1>15. CASE ota_download_abort
  BY <1>0, <1>15, Zenon DEF ota_download_abort
<1>16. CASE DownloadAborted
  BY <1>0, <1>16, Zenon DEF DownloadAborted
<1>17. CASE HostCancels
  BY <1>0, <1>17, Zenon DEF HostCancels
<1>18. CASE app_mark_verified
  BY <1>0, <1>18 DEF app_mark_verified
<1>19. CASE ota_host_cmd_enter_boot
  BY <1>0, <1>19, Zenon DEF ota_host_cmd_enter_boot
<1>20. CASE ota_host_cmd_reboot
  BY SMTT(30), <1>0, <1>20 DEF ota_host_cmd_reboot
<1>21. CASE Reset
  BY SMTT(30), <1>21 DEF Reset
<1>22. CASE IdleTimeout
  BY SMTT(30), <1>0, <1>21, <1>22 DEF IdleTimeout
<1>23. CASE UNCHANGED vars
  BY SMTT(30), <1>23 DEF vars
<1> QED
  BY Zenon, <1>1, <1>2, <1>3, <1>4, <1>5, <1>6, <1>7, <1>8, <1>9, <1>10, <1>11, <1>12, <1>13,
     <1>14, <1>15, <1>16, <1>17, <1>18, <1>19, <1>20, <1>21, <1>22, <1>23
     DEF Next, ProgramStep, HostStep, StoreStep, PowerLoss, OwnReset

\* Between the stored retry count and the jump the candidate cannot vanish.
LEMMA NextJumpReady == TypeOK /\ ControlInv /\ JumpReady /\ [Next]_vars => JumpReady'
<1> SUFFICES ASSUME TypeOK, ControlInv, JumpReady, [Next]_vars PROVE JumpReady'
  BY Zenon
<1> USE DEF JumpReady, Storing, Goto, Store
<1>0. /\ pc \in [{"main", "host"} -> Labels] /\ ret \in [{"main", "host"} -> Labels]
      /\ buf \in [{"main", "host"} -> Record] /\ Tasks = {"main", "host"}
  BY Zenon DEF TypeOK, Tasks
<1>1. ASSUME NEW t \in Tasks, StoreErase(t) PROVE JumpReady'
  BY <1>0, <1>1, Zenon DEF StoreErase
<1>2. ASSUME NEW t \in Tasks, StoreWrite(t) PROVE JumpReady'
  BY <1>0, <1>2, Zenon DEF StoreWrite, OnFail, ControlInv
<1>3. ASSUME NEW t \in Tasks, StoreFault(t) PROVE JumpReady'
  BY <1>0, <1>3, Zenon DEF StoreFault, OnFail, ControlInv
<1>4. ASSUME NEW t \in Tasks, ota_module_init(t) PROVE JumpReady'
  BY <1>0, <1>4 DEF ota_module_init
<1>5. CASE BootDecide
  BY <1>0, <1>5, Zenon DEF BootDecide
<1>6. CASE boot_preprocess
  <2> DEFINE u == First(InState(Load, "UNVERIFIED"))
             b == [Load EXCEPT !.count[u] = @ + 1]
  <2>1. CASE BootSelect(Load)
    BY <1>0, <2>1 DEF BootSelect, Jump
  <2>2. CASE Store("main", With(Load, u, "INVALID"), "select")
    BY <1>0, <2>2, Zenon
  <2>3. CASE InState(Load, "UNVERIFIED") # {} /\ Store("main", b, "jump")
    <3>1. buf'["main"] = b
      BY <1>0, <2>3, Zenon
    <3>2. InState(b, "UNVERIFIED") = InState(Load, "UNVERIFIED")
      BY SMTT(30), LoadType DEF InState, Record, TypeOK
    <3> QED BY <2>3, <3>1, <3>2
  <2> QED BY SMTT(30), <1>6, <2>1, <2>2, <2>3 DEF boot_preprocess
<1>7. CASE BootStored
  BY SMTT(30), <1>0, <1>7 DEF BootStored, BootSelect, Jump
<1>8. ASSUME NEW n \in Sizes, ota_download_start(n) PROVE JumpReady'
  BY <1>0, <1>8, Zenon DEF ota_download_start
<1>9. ASSUME NEW n \in Sizes, SlotEraseFault(n) PROVE JumpReady'
  BY <1>9, Zenon DEF SlotEraseFault
<1>10. CASE DownloadStarted
  BY <1>0, <1>10, Zenon DEF DownloadStarted
<1>11. ASSUME NEW good \in BOOLEAN, ota_download(good) PROVE JumpReady'
  BY <1>11, Zenon DEF ota_download
<1>12. CASE DownloadFails
  BY SMTT(30), <1>0, <1>12 DEF DownloadFails
<1>13. CASE ota_download_finish
  BY <1>0, <1>13, Zenon DEF ota_download_finish
<1>14. CASE EotContinue
  BY <1>0, <1>14, Zenon DEF EotContinue
<1>15. CASE ota_download_abort
  BY <1>0, <1>15, Zenon DEF ota_download_abort
<1>16. CASE DownloadAborted
  BY <1>0, <1>16, Zenon DEF DownloadAborted
<1>17. CASE HostCancels
  BY <1>0, <1>17, Zenon DEF HostCancels
<1>18. CASE app_mark_verified
  BY <1>0, <1>18, Zenon DEF app_mark_verified
<1>19. CASE ota_host_cmd_enter_boot
  BY <1>0, <1>19, Zenon DEF ota_host_cmd_enter_boot
<1>20. CASE ota_host_cmd_reboot
  BY SMTT(30), <1>0, <1>20 DEF ota_host_cmd_reboot
<1>21. CASE Reset
  BY SMTT(30), <1>21 DEF Reset
<1>22. CASE IdleTimeout
  BY <1>0, <1>21, <1>22, Zenon DEF IdleTimeout
<1>23. CASE UNCHANGED vars
  BY <1>23, Zenon DEF vars
<1> QED
  BY Zenon, <1>1, <1>2, <1>3, <1>4, <1>5, <1>6, <1>7, <1>8, <1>9, <1>10, <1>11, <1>12, <1>13,
     <1>14, <1>15, <1>16, <1>17, <1>18, <1>19, <1>20, <1>21, <1>22, <1>23
     DEF Next, ProgramStep, HostStep, StoreStep, PowerLoss, OwnReset

\* ota_module.c and its callers keep every variable in its type.
THEOREM TypeCorrect == Spec => []TypeOK
<1>1. Init => TypeOK /\ ControlInv /\ JumpReady
  BY InitType DEF Init, ControlInv, JumpReady, Storing, BootLabels
<1>2. TypeOK /\ ControlInv /\ JumpReady /\ [Next]_vars => (TypeOK /\ ControlInv /\ JumpReady)'
  BY SMTT(30), NextType, NextControl, NextJumpReady
<1> QED BY <1>1, <1>2, PTL DEF Spec

-----------------------------------------------------------------------------
(* The download session.                                                   *)

\* Every step keeps the session of the OTA module and the record in
\* agreement.
LEMMA NextSession ==
    TypeOK /\ ControlInv /\ SessionInv /\ [Next]_vars => SessionInv'
<1> SUFFICES ASSUME TypeOK, ControlInv, SessionInv, [Next]_vars PROVE SessionInv'
  BY Zenon
<1> USE DEF SessionInv, Downloading, Storing, Goto, Store
<1>0. /\ pc \in [{"main", "host"} -> Labels] /\ ret \in [{"main", "host"} -> Labels]
      /\ Tasks = {"main", "host"}
  BY Zenon DEF TypeOK, Tasks
<1>00. ASSUME dl' = NoSession, pc'["main"] # "started", ~Storing("main")' \/ ret'["main"] # "started"
       PROVE  SessionInv'
  BY <1>00, Zenon DEF NoSession
<1>1. ASSUME NEW t \in Tasks, StoreErase(t) PROVE SessionInv'
  BY <1>0, <1>1, Zenon DEF StoreErase
<1>2. ASSUME NEW t \in Tasks, StoreWrite(t) PROVE SessionInv'
  BY <1>0, <1>2 DEF StoreWrite, OnFail, ControlInv
<1>3. ASSUME NEW t \in Tasks, StoreFault(t) PROVE SessionInv'
  BY SMTT(30), <1>0, <1>3 DEF StoreFault, OnFail, ControlInv
<1>4. ASSUME NEW t \in Tasks, ota_module_init(t) PROVE SessionInv'
  BY <1>0, <1>00, <1>4, Zenon DEF ota_module_init, ControlInv
<1>5. CASE BootDecide
  BY SMTT(30), <1>0, <1>5 DEF BootDecide
<1>6. CASE boot_preprocess
  <2>1. CASE BootSelect(Load)
    BY <1>0, <1>00, <1>6, <2>1 DEF boot_preprocess, BootSelect, Jump
  <2>2. CASE ~BootSelect(Load)
    BY SMTT(30), <1>0, <1>6, <2>2 DEF boot_preprocess
  <2> QED BY <2>1, <2>2
<1>7. CASE BootStored
  BY SMTT(30), <1>0, <1>00, <1>7 DEF BootStored, BootSelect, Jump
<1>8. ASSUME NEW n \in Sizes, ota_download_start(n) PROVE SessionInv'
  <2>1. choose_target_ota_slot(Load) \in Slots
    BY SMTT(30), <1>8, LoadType, TargetType DEF ota_download_start, TypeOK
  <2>2. dl'.target = choose_target_ota_slot(Load) /\ ~dl'.started
    BY SMTT(30), <1>8 DEF ota_download_start
  <2>3. tries'[dl'.target] = 0
    BY SMTT(30), <1>8, <2>1, <2>2 DEF ota_download_start, TypeOK
  <2>4. booted' = NoSlot
    BY SMTT(30), <1>8 DEF ota_download_start, ControlInv, BootLabels
  <2> QED BY SMTT(30), <2>2, <2>3, <2>4
<1>9. ASSUME NEW n \in Sizes, SlotEraseFault(n) PROVE SessionInv'
  BY <1>9, Zenon DEF SlotEraseFault
<1>10. CASE DownloadStarted
  BY <1>0, <1>10, Zenon DEF DownloadStarted, TypeOK
<1>11. ASSUME NEW good \in BOOLEAN, ota_download(good) PROVE SessionInv'
  BY <1>11, Zenon DEF ota_download, TypeOK
<1>12. CASE DownloadFails
  BY SMTT(30), <1>0, <1>12 DEF DownloadFails
<1>13. CASE ota_download_finish
  BY <1>0, <1>13, Zenon DEF ota_download_finish
<1>14. CASE EotContinue
  BY SMTT(30), <1>0, <1>00, <1>14 DEF EotContinue
<1>15. CASE ota_download_abort
  BY SMTT(30), <1>0, <1>15 DEF ota_download_abort
<1>16. CASE DownloadAborted
  BY <1>0, <1>00, <1>16, Zenon DEF DownloadAborted
<1>17. CASE HostCancels
  BY <1>0, <1>17, Zenon DEF HostCancels
<1>18. CASE app_mark_verified
  BY <1>0, <1>18, Zenon DEF app_mark_verified
<1>19. CASE ota_host_cmd_enter_boot
  BY <1>0, <1>19, Zenon DEF ota_host_cmd_enter_boot
<1>20. CASE ota_host_cmd_reboot
  BY SMTT(30), <1>0, <1>20 DEF ota_host_cmd_reboot
<1>21. CASE Reset
  BY <1>00, <1>21, Zenon DEF Reset
<1>22. CASE IdleTimeout
  BY SMTT(30), <1>0, <1>21, <1>22 DEF IdleTimeout
<1>23. CASE UNCHANGED vars
  BY SMTT(30), <1>23 DEF vars
<1> QED
  BY Zenon, <1>1, <1>2, <1>3, <1>4, <1>5, <1>6, <1>7, <1>8, <1>9, <1>10, <1>11, <1>12, <1>13,
     <1>14, <1>15, <1>16, <1>17, <1>18, <1>19, <1>20, <1>21, <1>22, <1>23
     DEF Next, ProgramStep, HostStep, StoreStep, PowerLoss, OwnReset

-----------------------------------------------------------------------------
(* TrustInv and BudgetInv, and the theorems.                               *)

\* What was cut stays cut.
LEMMA TornGrows == [Next]_vars => torn \subseteq torn'
BY Zenon DEF Next, vars, ProgramStep, HostStep, StoreStep, StoreErase, StoreWrite, StoreFault,
       ota_module_init, BootDecide, boot_preprocess, BootStored, ota_download_start,
       SlotEraseFault, DownloadStarted, ota_download, DownloadFails, ota_download_finish,
       EotContinue, ota_download_abort, DownloadAborted, HostCancels, app_mark_verified,
       ota_host_cmd_enter_boot, ota_host_cmd_reboot, Reset, PowerLoss, OwnReset, IdleTimeout

\* The target of a download is a slot the bootloader would not start, with two
\* slots; the only slot otherwise.
LEMMA TargetIdle ==
    ASSUME NEW r \in Record, choose_target_ota_slot(r) # NoSlot, NumSlots = 2
    PROVE  r.status[choose_target_ota_slot(r)] \in {"DOWNLOADING", "INVALID", "BACKUP"}
BY FirstOfIn DEF choose_target_ota_slot, Status

\* Taking a slot that is not ACTIVE out of use keeps a record truthful, whatever
\* happens to that slot; so does offering a slot that is complete.
LEMMA WithTruthful ==
    ASSUME NEW r \in Record, NEW f, NEW g, NEW s \in Slots, NEW st \in Status,
           Truthful(r, f), NumSlots = 2 => r.status[s] # "ACTIVE",
           \A x \in Slots \ {s} : g[x] = f[x],
           st \in {"INVALID", "DOWNLOADING"} \/
               (st = "UNVERIFIED" /\ g[s].intact /\ g[s].got = g[s].want)
    PROVE  Truthful(With(r, s, st), g)
<1> DEFINE w == With(r, s, st)
<1>1. w.status[s] = st /\ \A x \in Slots \ {s} : w.status[x] = r.status[x]
  BY WithType
<1>2. \A x \in Slots : w.status[x] \in {"ACTIVE", "UNVERIFIED"} =>
          g[x].intact /\ g[x].got = g[x].want
  BY <1>1, Zenon DEF Truthful
<1>3. NumSlots = 1 => w.status[0] # "BACKUP"
  BY SMTT(30), <1>1 DEF Truthful, Slots
<1>4. NumSlots = 2 => \E x \in Slots : w.status[x] = "ACTIVE"
  BY <1>1, Zenon DEF Truthful
<1> QED BY <1>2, <1>3, <1>4 DEF Truthful

\* The default record is truthful on a device whose first slot is complete.
LEMMA DefaultTruthful ==
    ASSUME NEW f, f[0].intact, f[0].got = f[0].want
    PROVE  Truthful(DefaultRecord, f)
<1>1. 0 \in Slots
  BY DEF Slots
<1> QED BY <1>1 DEF Truthful, DefaultRecord

\* The fields a record update leaves alone.
LEMMA YmodemTruthful ==
    ASSUME NEW r \in Record, NEW f, NEW y \in {0, 1}
    PROVE  /\ Truthful([r EXCEPT !.ymodem = y], f) <=> Truthful(r, f)
           /\ [r EXCEPT !.ymodem = y].valid = r.valid
           /\ [r EXCEPT !.ymodem = y].status = r.status
           /\ [r EXCEPT !.ymodem = y].count = r.count
BY Zenon DEF Truthful, Record

\* A truthful record only offers complete slots to the boot selection.
LEMMA CandidateComplete ==
    ASSUME NEW r \in Record, NEW f, Truthful(r, f), choose_boot_candidate_ota_slot(r) # NoSlot
    PROVE  LET s == choose_boot_candidate_ota_slot(r)
           IN  s \in Slots /\ f[s].intact /\ f[s].got = f[s].want
<1> DEFINE s == choose_boot_candidate_ota_slot(r)
<1>1. /\ s \in Slots /\ r.status[s] \in {"UNVERIFIED", "ACTIVE", "BACKUP"}
      /\ r.status[s] = "BACKUP" => InState(r, "ACTIVE") = {}
  BY FirstOfIn DEF choose_boot_candidate_ota_slot, Status
<1>2. r.status[s] # "BACKUP"
  <2>1. CASE NumSlots = 1
    BY <1>1, <2>1 DEF Truthful, Slots
  <2>2. CASE NumSlots = 2
    BY SMTT(30), <1>1, <2>2 DEF Truthful, InState
  <2> QED BY <2>1, <2>2
<1> QED BY SMTT(30), <1>1, <1>2 DEF Truthful

\* A jump into a complete slot starts its tasks; no copy is on its way to flash.
LEMMA JumpSound ==
    ASSUME TypeOK, Sound, pc["main"] \in {"preproc", "jump", "select"}, pc["host"] = "off",
           NEW r, NEW s \in Slots, Complete(s), Jump(r, s), UNCHANGED <<record, flash>>
    PROVE  Sound'
<1>1. pc' = [main |-> "verify", host |-> "init"] /\ booted' = s /\ dl' = NoSession
  BY SMTT(30) DEF Jump
<1>2. record.valid
  BY SMTT(30) DEF Sound, Blank, Tasks
<1>3. Truthful(record, flash)
  BY <1>2, Zenon DEF Sound, EraseWindow
<1> QED BY SMTT(30), <1>1, <1>2, <1>3
        DEF Sound, Storing, NoSession, Tasks, Complete, Downloading

\* The selection of a boot candidate keeps the records truthful.
LEMMA BootSelectSound ==
    ASSUME TypeOK, SessionInv, Sound, pc["main"] \in {"preproc", "select"}, pc["host"] = "off",
           booted = NoSlot, NEW r \in Record, Truthful(r, flash), BootSelect(r),
           UNCHANGED <<record, flash>>
    PROVE  Sound'
<1> DEFINE s == choose_boot_candidate_ota_slot(r)
<1>1. CASE s # NoSlot
  <2>1. s \in Slots /\ Complete(s)
    BY SMTT(30), <1>1, CandidateComplete DEF Complete
  <2> QED BY SMTT(30), <1>1, <2>1, JumpSound DEF BootSelect
<1>2. CASE s = NoSlot
  <2>1. record.valid /\ Truthful(record, flash)
    BY Zenon DEF Sound, Blank, EraseWindow, Tasks
  <2>2. pc' = [pc EXCEPT !["main"] = "ymodem"] /\ UNCHANGED <<dl, booted>>
    BY <1>2, Zenon DEF BootSelect, Goto
  <2>3. pc'["main"] = "ymodem" /\ pc'["host"] = "off"
    BY <2>2, Zenon DEF TypeOK, Tasks
  <2>4. ~dl.started
    BY Zenon DEF SessionInv, Storing
  <2> QED BY SMTT(30), <2>1, <2>2, <2>3, <2>4 DEF Sound, Storing, Tasks, Downloading
<1> QED BY <1>1, <1>2

\* Every step keeps the record on flash, and those on their way to it,
\* truthful.
LEMMA NextTrust ==
    TypeOK /\ ControlInv /\ JumpReady /\ SessionInv /\ TrustInv /\ [Next]_vars => TrustInv'
<1> SUFFICES ASSUME TypeOK, ControlInv, JumpReady, SessionInv, TrustInv, [Next]_vars, Trusted'
             PROVE  Sound'
  BY Zenon DEF TrustInv
<1>a. Trusted /\ Sound
  BY TornGrows, Zenon DEF Trusted, TrustInv
<1>b. /\ pc \in [{"main", "host"} -> Labels] /\ ret \in [{"main", "host"} -> Labels]
      /\ buf \in [{"main", "host"} -> Record] /\ Tasks = {"main", "host"}
      /\ "main" # "host" /\ record \in Record
  BY SMTT(30) DEF TypeOK, Tasks
\* In the bootloader, outside a store, the record is there and truthful.
<1>c. ASSUME pc["main"] \in BootLabels \ {"init"}
      PROVE  /\ record.valid /\ Load = record /\ Truthful(record, flash)
             /\ pc["host"] = "off" /\ booted = NoSlot
  <2>1. pc["host"] = "off" /\ booted = NoSlot
    BY SMTT(30), <1>c DEF ControlInv
  <2>2. record.valid
    BY SMTT(30), <1>a, <1>c, <2>1 DEF Sound, Blank, Tasks, BootLabels
  <2> QED BY <1>a, <1>c, <2>1, <2>2 DEF Sound, EraseWindow, Load, BootLabels
<1>1. ASSUME NEW t \in Tasks, StoreErase(t) PROVE Sound'
  <2>1. pc'[t] = "write" /\ ~record'.valid
    BY <1>b, <1>1, Zenon DEF StoreErase, Goto, NoRecord, DefaultRecord
  <2>2. \A x \in Tasks : Storing(x)' => Storing(x)
    BY <1>b, <1>1, Zenon DEF StoreErase, Goto, Storing
  <2>3. pc'["main"] # pc["main"] => Storing("main") /\ pc'["main"] = "write"
    BY SMTT(30), <1>b, <1>1 DEF StoreErase, Goto, Storing
  <2> QED BY <1>1, <1>a, <1>b, <2>1, <2>2, <2>3 DEF StoreErase, Sound, Complete, Downloading
<1>2. ASSUME NEW t \in Tasks, StoreWrite(t) PROVE Sound'
  <2>1. record'.valid /\ Truthful(record', flash)
    <3>1. Truthful(buf[t], flash) /\ buf[t].valid
      BY <1>2, <1>a, Zenon DEF StoreWrite, Sound, Storing
    <3>2. CASE record' = buf[t]
      BY Zenon, <3>1, <3>2
    <3>3. CASE record.valid /\ record' = record
      <4>1. ~EraseWindow
        BY <1>2, <1>b, Zenon DEF StoreWrite, EraseWindow, ControlInv, Storing
      <4> QED BY SMTT(30), <3>3, <4>1, <1>a DEF Sound
    <3> QED BY Zenon, <1>2, <3>2, <3>3 DEF StoreWrite
  <2>2. \A x \in Tasks : Storing(x)' => Storing(x)
    BY <1>b, <1>2, Zenon DEF StoreWrite, Goto, Storing, ControlInv, OnFail, RetMain
  <2>3. pc'["main"] \in {"jump", "select", "unmark"} =>
            pc'["main"] = pc["main"] \/ Storing("main")
    BY <1>b, <1>2, Zenon DEF StoreWrite, Goto, Storing
  <2>4. (dl.started \/ pc'["main"] = "started") => record'.status[dl.target] # "ACTIVE"
    BY <1>2, <1>a, <1>b
       DEF StoreWrite, Goto, Sound, Downloading, Storing, ControlInv, SessionInv, OnFail, RetMain
  <2>5. pc'["main"] = "unmark" => pc["main"] = "unmark" \/ (Downloading /\ Storing("main"))
    BY <1>2, <1>b, Zenon DEF StoreWrite, Goto, Storing, ControlInv, OnFail, RetMain, Downloading
  <2>6. Downloading' /\ Storing("main")' => Downloading /\ Storing("main")
    BY SMTT(30), <1>2, <2>2, <1>b DEF StoreWrite, Goto, Storing, Downloading
  <2> QED BY Zenon, <1>2, <1>a, <1>b, <2>1, <2>2, <2>3, <2>4, <2>5, <2>6 DEF StoreWrite, Sound, Complete
<1>3. ASSUME NEW t \in Tasks, StoreFault(t) PROVE Sound'
  <2>1. /\ record' = record /\ record.valid
        /\ pc[t] = "erase" /\ pc' = [pc EXCEPT ![t] = OnFail(ret[t])]
        /\ UNCHANGED <<flash, buf, ret, dl, booted>>
    BY SMTT(30), <1>3 DEF StoreFault, Trusted, NoRecord, DefaultRecord, Goto
  <2>2. ~EraseWindow
    BY <1>3, <2>1, <1>b, Zenon DEF StoreFault, Trusted, EraseWindow, ControlInv, Storing
  <2>3. \A x \in Tasks : Storing(x)' => Storing(x)
    BY <1>b, <2>1, Zenon DEF Storing, ControlInv, OnFail, RetMain
  <2>4. pc'["main"] \in {"jump", "select", "unmark"} =>
            pc'["main"] = pc["main"] \/ Storing("main")
    BY <1>b, <2>1, Zenon DEF Storing
  <2>5. pc'["main"] = "started" => pc["main"] = "started"
    BY <1>b, <2>1, Zenon DEF Storing, ControlInv, OnFail, RetMain
  <2>6. pc'["main"] = "unmark" => pc["main"] = "unmark" \/ (Downloading /\ Storing("main"))
    BY <2>1, <1>b, Zenon DEF Storing, ControlInv, OnFail, RetMain, Downloading
  <2>7. Downloading' /\ Storing("main")' => Downloading /\ Storing("main")
    BY <2>1, <2>3, <1>b, Zenon DEF Storing, Downloading
  <2> QED BY <1>a, <1>b, <2>1, <2>2, <2>3, <2>4, <2>5, <2>6, <2>7 DEF Sound, Complete
<1>4. ASSUME NEW t \in Tasks, ota_module_init(t) PROVE Sound'
  <2>0. pc[t] = "init" /\ dl' = NoSession /\ UNCHANGED <<record, flash, booted>>
    BY SMTT(30), <1>4 DEF ota_module_init
  <2>1. CASE record.valid
    <3>1. pc' = [pc EXCEPT ![t] = IF t = "main" THEN "decide" ELSE "serve"] /\ UNCHANGED <<buf, ret>>
      BY <1>4, <2>1, Zenon DEF ota_module_init, Goto
    <3>2. \A x \in Tasks : Storing(x)' => Storing(x)
      BY <1>b, <3>1, Zenon DEF Storing
    <3>3. pc'["main"] \in {"decide", "verify"} /\ ~EraseWindow
      BY <1>b, <2>0, <3>1, Zenon DEF ControlInv, EraseWindow
    <3>4. ~Storing("main")'
      BY SMTT(30), <3>3 DEF Storing
    <3> QED BY <1>a, <1>b, <2>0, <2>1, <3>1, <3>2, <3>3, <3>4 DEF Sound, Complete, NoSession
  <2>2. CASE ~record.valid
    <3>1. t = "main"
      BY ZenonT(30), <1>a, <1>b, <2>0, <2>2 DEF Sound, Blank, ControlInv
    <3>2. Blank /\ pc["host"] = "off"
      BY SMTT(30), <1>a, <1>b, <2>0, <2>2, <3>1 DEF Sound, ControlInv, BootLabels
    <3>3. /\ pc' = [pc EXCEPT !["main"] = "erase"] /\ ret'["main"] = "decide"
          /\ buf'["main"] = DefaultRecord
      BY SMTT(30), <1>b, <1>4, <2>2, <3>1 DEF ota_module_init, Store
    <3>4. Truthful(DefaultRecord, flash) /\ DefaultRecord.valid
      BY SMTT(30), <3>2, DefaultTruthful DEF Blank, Complete, DefaultRecord
    <3>5. Storing("main")' /\ ~Storing("host")' /\ Blank'
      BY SMTT(30), <1>b, <2>0, <3>2, <3>3 DEF Storing, Blank, Complete
    <3>6. pc'["main"] = "erase" /\ ~Downloading'
      BY <1>b, <2>0, <3>3, Zenon DEF Downloading, NoSession
    <3> QED BY SMTT(30), <1>a, <1>b, <2>0, <2>2, <3>3, <3>4, <3>5, <3>6 DEF Sound, NoSession, Complete
  <2> QED BY <2>1, <2>2
<1>5. CASE BootDecide
  <2>1. /\ record.valid /\ Load = record /\ Truthful(record, flash)
        /\ pc["host"] = "off" /\ booted = NoSlot /\ ~dl.started
    BY <1>5, <1>c, Zenon DEF BootDecide, BootLabels, SessionInv, Storing
  <2>2. UNCHANGED <<record, flash, dl, booted>>
    BY <1>5, Zenon DEF BootDecide
  <2>3. CASE Store("main", [Load EXCEPT !.ymodem = 0], "ymodem")
    <3>1. /\ pc'["main"] = "erase" /\ pc'["host"] = "off" /\ ret'["main"] = "ymodem"
          /\ buf'["main"] = [record EXCEPT !.ymodem = 0]
      BY <1>b, <2>1, <2>3, Zenon DEF Store
    <3>2. Truthful(buf'["main"], flash) /\ buf'["main"].valid
      <4>1. Truthful([record EXCEPT !.ymodem = 0], flash) /\ [record EXCEPT !.ymodem = 0].valid
        BY Zenon, <1>b, <2>1, YmodemTruthful
      <4> QED BY <3>1, <4>1
    <3> QED BY Zenon, <1>b, <2>1, <2>2, <3>1, <3>2 DEF Sound, Storing, Downloading
  <2>4. CASE Goto("main", "preproc") \/ Goto("main", "ymodem")
    <3>1. pc'["main"] \in {"preproc", "ymodem"} /\ pc'["host"] = "off"
      BY <1>b, <2>1, <2>4, Zenon DEF Goto
    <3> QED BY <1>b, <2>1, <2>2, <3>1 DEF Sound, Storing, Downloading
  <2> QED BY <1>5, <2>3, <2>4 DEF BootDecide
<1>6. CASE boot_preprocess
  <2> DEFINE u == First(InState(Load, "UNVERIFIED"))
             b == [record EXCEPT !.count[u] = @ + 1]
  <2>1. /\ record.valid /\ Load = record /\ Truthful(record, flash)
        /\ pc["host"] = "off" /\ booted = NoSlot /\ ~dl.started
    BY <1>6, <1>c, Zenon DEF boot_preprocess, BootLabels, SessionInv, Storing
  <2>2. UNCHANGED <<record, flash>>
    BY <1>6, Zenon DEF boot_preprocess
  <2>3. CASE BootSelect(Load)
    BY SMTT(30), <1>6, <1>a, <2>1, <2>2, <2>3, BootSelectSound DEF boot_preprocess, TypeOK
  <2>4. ASSUME NEW r \in Record, NEW l \in {"select", "jump"}, Store("main", r, l),
               Truthful(r, flash), r.valid, UNCHANGED <<dl, booted>>
        PROVE  Sound'
    <3>1. /\ pc'["main"] = "erase" /\ pc'["host"] = "off" /\ ret'["main"] = l
          /\ buf'["main"] = r
      BY <1>b, <2>1, <2>4, Zenon DEF Store
    <3> QED BY SMTT(30), <1>b, <2>1, <2>2, <2>4, <3>1 DEF Sound, Storing, Downloading
  <2>5. CASE InState(Load, "UNVERIFIED") # {} /\ ~BootSelect(Load)
    <3>1. u \in Slots /\ record.status[u] = "UNVERIFIED"
      BY <2>1, <2>5, FirstIn, Zenon DEF InState
    <3> HIDE DEF u
    <3>2. Truthful(With(record, u, "INVALID"), flash) /\ With(record, u, "INVALID").valid
          /\ With(record, u, "INVALID") \in Record
      <4>1. "INVALID" \in Status /\ "UNVERIFIED" # "ACTIVE"
        BY Zenon DEF Status
      <4>2. Truthful(With(record, u, "INVALID"), flash)
        BY Zenon, <1>b, <2>1, <3>1, <4>1, WithTruthful
      <4>3. With(record, u, "INVALID").valid /\ With(record, u, "INVALID") \in Record
        BY <1>b, <2>1, <3>1, <4>1, WithType, Zenon
      <4> QED BY <4>2, <4>3
    <3>3. b \in Record /\ b.status = record.status /\ b.valid = record.valid
      BY <1>b, <3>1 DEF Record
    <3>4. Truthful(b, flash)
      BY <2>1, <3>3, Zenon DEF Truthful
    <3> QED BY Zenon, <1>6, <2>1, <2>4, <2>5, <3>2, <3>3, <3>4 DEF boot_preprocess, u
  <2> QED BY <1>6, <2>3, <2>5 DEF boot_preprocess
<1>7. CASE BootStored
  <2>1. pc["host"] = "off" /\ booted = NoSlot /\ UNCHANGED <<record, flash>>
    BY SMTT(30), <1>7 DEF BootStored, ControlInv, BootLabels
  <2>2. Truthful(buf["main"], flash) /\ buf["main"] \in Record
    BY Zenon, <1>7, <1>a, <1>b DEF BootStored, Sound
  <2>3. CASE pc["main"] = "jump" /\ Jump(buf["main"], First(InState(buf["main"], "UNVERIFIED")))
    <3> DEFINE u == First(InState(buf["main"], "UNVERIFIED"))
    <3>1. u \in Slots /\ buf["main"].status[u] = "UNVERIFIED"
      BY SMTT(30), <2>3, FirstIn DEF JumpReady, InState
    <3>2. Complete(u)
      BY <2>2, <3>1, Zenon DEF Truthful, Complete
    <3> QED BY SMTT(30), <1>a, <2>1, <2>3, <3>1, <3>2, JumpSound
  <2>4. CASE pc["main"] = "select" /\ BootSelect(buf["main"])
    BY SMTT(30), <1>a, <2>1, <2>2, <2>4, BootSelectSound
  <2> QED BY <1>7, <2>3, <2>4 DEF BootStored
<1>8. ASSUME NEW n \in Sizes, ota_download_start(n) PROVE Sound'
  <2> DEFINE t == choose_target_ota_slot(record)
  <2>1. /\ record.valid /\ Load = record /\ Truthful(record, flash)
        /\ pc["host"] = "off" /\ booted = NoSlot
    BY SMTT(30), <1>8, <1>c DEF ota_download_start, BootLabels
  <2>2. t \in Slots /\ (NumSlots = 2 => record.status[t] \in {"DOWNLOADING", "INVALID", "BACKUP"})
    BY Zenon, <1>b, <1>8, <2>1, TargetType, TargetIdle DEF ota_download_start
  <2>3. /\ Store("main", With(record, t, "DOWNLOADING"), "started")
        /\ flash' = [flash EXCEPT ![t] = [want |-> n, got |-> 0, intact |-> TRUE]]
        /\ ~dl'.started /\ dl'.target = t /\ UNCHANGED <<record, booted>>
    BY SMTT(30), <1>8, <2>1 DEF ota_download_start
  <2> HIDE DEF t
  <2>4. \A x \in Slots \ {t} : flash'[x] = flash[x]
    BY SMTT(30), <2>3 DEF TypeOK
  <2>5. /\ Truthful(With(record, t, "DOWNLOADING"), flash')
        /\ With(record, t, "DOWNLOADING").valid
        /\ With(record, t, "DOWNLOADING").status[t] = "DOWNLOADING"
    <3>1. "DOWNLOADING" \in Status /\ (NumSlots = 2 => record.status[t] # "ACTIVE")
      BY SMTT(30), <2>2 DEF Status
    <3>2. Truthful(With(record, t, "DOWNLOADING"), flash')
      BY Zenon, <1>b, <2>1, <2>2, <2>4, <3>1, WithTruthful
    <3>3. /\ With(record, t, "DOWNLOADING").valid
          /\ With(record, t, "DOWNLOADING").status[t] = "DOWNLOADING"
      BY <1>b, <2>1, <2>2, <3>1, WithType
    <3> QED BY <3>2, <3>3
  <2>6. NumSlots = 2 => Truthful(record, flash')
    BY <2>1, <2>2, <2>4, Zenon DEF Truthful
  <2>7. /\ pc'["main"] = "erase" /\ pc'["host"] = "off" /\ ret'["main"] = "started"
        /\ buf'["main"] = With(record, t, "DOWNLOADING")
    BY SMTT(30), <1>b, <2>1, <2>3 DEF Store
  <2> QED BY Zenon, <1>b, <2>1, <2>3, <2>5, <2>6, <2>7 DEF Sound, Storing, EraseWindow
<1>9. ASSUME NEW n \in Sizes, SlotEraseFault(n) PROVE Sound'
  <2> DEFINE t == choose_target_ota_slot(record)
  <2>1. /\ record.valid /\ Load = record /\ Truthful(record, flash)
        /\ pc["host"] = "off" /\ booted = NoSlot /\ NumSlots = 2 /\ ~dl.started
        /\ pc["main"] = "ymodem"
    BY SMTT(30), <1>9, <1>c DEF SlotEraseFault, BootLabels, Trusted
  <2>2. t \in Slots /\ record.status[t] \in {"DOWNLOADING", "INVALID", "BACKUP"}
    BY SMTT(30), <1>b, <1>9, <2>1, TargetType, TargetIdle DEF SlotEraseFault
  <2>3. /\ flash' = [flash EXCEPT ![t] = [want |-> n, got |-> 0, intact |-> FALSE]]
        /\ UNCHANGED <<record, pc, dl, booted>>
    BY SMTT(30), <1>9, <2>1 DEF SlotEraseFault
  <2> HIDE DEF t
  <2>4. \A x \in Slots \ {t} : flash'[x] = flash[x]
    BY SMTT(30), <2>3 DEF TypeOK
  <2>5. Truthful(record, flash')
    BY <2>1, <2>2, <2>4, Zenon DEF Truthful
  <2> QED BY SMTT(30), <1>b, <2>1, <2>3, <2>5 DEF Sound, Storing, Downloading
<1>10. CASE DownloadStarted
  <2>1. /\ record.valid /\ Truthful(record, flash) /\ pc["host"] = "off" /\ booted = NoSlot
        /\ UNCHANGED <<record, flash, booted>>
    BY SMTT(30), <1>10, <1>c DEF DownloadStarted, BootLabels
  <2>2. CASE pc["main"] = "started"
    <3>1. dl'.target = dl.target /\ pc'["main"] = "ymodem" /\ pc'["host"] = "off"
      BY SMTT(30), <1>b, <1>10, <2>1, <2>2 DEF DownloadStarted, Goto, TypeOK
    <3> QED BY Zenon, <1>a, <1>b, <2>1, <2>2, <3>1 DEF Sound, Storing
  <2>3. CASE pc["main"] = "unmark"
    <3>1. /\ Truthful(buf["main"], flash) /\ buf["main"].valid
          /\ buf["main"].status[dl.target] # "ACTIVE" /\ dl.target \in Slots /\ ~dl.started
      BY <1>a, <2>3, Zenon DEF Sound, TypeOK, SessionInv, Storing
    <3>2. /\ Truthful(With(buf["main"], dl.target, "INVALID"), flash)
          /\ With(buf["main"], dl.target, "INVALID").valid
      <4>1. "INVALID" \in Status /\ buf["main"] \in Record
        BY SMTT(30), <1>b DEF Status
      <4>2. Truthful(With(buf["main"], dl.target, "INVALID"), flash)
        BY Zenon, <3>1, <4>1, WithTruthful
      <4>3. With(buf["main"], dl.target, "INVALID").valid
        BY <3>1, <4>1, WithType
      <4> QED BY <4>2, <4>3
    <3>3. /\ pc'["main"] = "erase" /\ pc'["host"] = "off" /\ ret'["main"] = "ymodem"
          /\ buf'["main"] = With(buf["main"], dl.target, "INVALID") /\ dl' = dl
      BY SMTT(30), <1>b, <1>10, <2>1, <2>3 DEF DownloadStarted, Store
    <3> QED BY SMTT(30), <1>b, <2>1, <3>1, <3>2, <3>3 DEF Sound, Storing, Downloading
  <2> QED BY <1>10, <2>2, <2>3 DEF DownloadStarted
<1>11. ASSUME NEW good \in BOOLEAN, ota_download(good) PROVE Sound'
  <2>1. /\ record.valid /\ Truthful(record, flash) /\ pc["host"] = "off" /\ booted = NoSlot
        /\ pc["main"] = "ymodem" /\ record.status[dl.target] = "DOWNLOADING"
    BY <1>11, <1>c, Zenon DEF ota_download, BootLabels
  <2>2. UNCHANGED <<record, pc, booted>> /\ dl'.target = dl.target
    BY <1>11, Zenon DEF ota_download, TypeOK
  <2>3. \A x \in Slots \ {dl.target} : flash'[x] = flash[x]
    BY SMTT(30), <1>11 DEF ota_download, TypeOK
  <2>4. Truthful(record, flash')
    BY SMTT(30), <2>1, <2>3 DEF Truthful
  <2> QED BY <1>b, <2>1, <2>2, <2>4 DEF Sound, Storing
<1>12. CASE DownloadFails
  <2>1. /\ record.valid /\ Truthful(record, flash) /\ pc["host"] = "off" /\ booted = NoSlot
        /\ pc["main"] = "ymodem"
    BY <1>12, <1>c, Zenon DEF DownloadFails, BootLabels
  <2>2. UNCHANGED <<record, booted, dl>> /\ pc'["main"] = "abort" /\ pc'["host"] = "off"
    BY <1>b, <1>12, <2>1, Zenon DEF DownloadFails, Goto
  <2>3. Truthful(record, flash')
    <3>1. CASE UNCHANGED flash
      BY <2>1, <3>1, Zenon
    <3>2. CASE /\ record.status[dl.target] = "DOWNLOADING"
               /\ flash' = [flash EXCEPT ![dl.target].intact = FALSE]
      <4>1. \A x \in Slots \ {dl.target} : flash'[x] = flash[x]
        BY SMTT(30), <3>2 DEF TypeOK
      <4> QED BY <2>1, <3>2, <4>1 DEF Truthful
    <3> QED BY <1>12, <3>1, <3>2 DEF DownloadFails
  <2> QED BY <1>a, <1>b, <2>1, <2>2, <2>3 DEF Sound, Storing
<1>13. CASE ota_download_finish
  <2>1. /\ record.valid /\ Truthful(record, flash) /\ pc["host"] = "off" /\ booted = NoSlot
        /\ pc["main"] = "ymodem" /\ UNCHANGED <<record, flash, booted, dl>>
    BY SMTT(30), <1>13, <1>c DEF ota_download_finish, BootLabels
  <2>2. CASE Goto("main", "abort")
    <3>1. pc'["main"] = "abort" /\ pc'["host"] = "off"
      BY SMTT(30), <1>b, <2>1, <2>2 DEF Goto
    <3> QED BY <1>a, <1>b, <2>1, <3>1 DEF Sound, Storing
  <2>3. ASSUME NEW st \in {"UNVERIFIED", "INVALID"}, NEW l \in {"finished", "rejected"},
               record.status[dl.target] = "DOWNLOADING", dl.started,
               st = "UNVERIFIED" => Complete(dl.target),
               Store("main", With(record, dl.target, st), l)
        PROVE  Sound'
    <3>1. st \in Status /\ dl.target \in Slots /\ record.status[dl.target] # "ACTIVE"
      BY Zenon, <2>3 DEF Status, TypeOK
    <3>2. Truthful(With(record, dl.target, st), flash)
      BY Zenon, <1>b, <2>1, <2>3, <3>1, WithTruthful DEF Complete
    <3>3. /\ With(record, dl.target, st).valid
          /\ With(record, dl.target, st).status[dl.target] = st
      BY SMTT(60), <1>b, <2>1, <3>1, WithType
    <3>4. /\ pc'["main"] = "erase" /\ pc'["host"] = "off" /\ ret'["main"] = l
          /\ buf'["main"] = With(record, dl.target, st)
      BY <1>b, <2>1, <2>3, Zenon DEF Store
    <3>5. ~EraseWindow'
      BY <3>4, Zenon DEF EraseWindow
    <3> QED BY Zenon, <1>a, <1>b, <2>1, <2>3, <3>1, <3>2, <3>3, <3>4, <3>5 DEF Sound, Storing
  <2> QED BY SMTT(30), <1>13, <2>2, <2>3 DEF ota_download_finish
<1>14. CASE EotContinue
  <2>1. /\ record.valid /\ Load = record /\ Truthful(record, flash) /\ pc["host"] = "off"
        /\ booted = NoSlot /\ UNCHANGED <<record, flash, booted>> /\ ~dl'.started
    BY SMTT(30), <1>14, <1>c DEF EotContinue, BootLabels, NoSession
  <2>2. CASE Goto("main", "abort")
    <3>1. pc'["main"] = "abort" /\ pc'["host"] = "off"
      BY <1>b, <2>1, <2>2, Zenon DEF Goto
    <3> QED BY SMTT(30), <1>b, <2>1, <3>1 DEF Sound, Storing
  <2>3. CASE Store("main", [Load EXCEPT !.ymodem = 0], "preproc")
    <3>1. Truthful([record EXCEPT !.ymodem = 0], flash) /\ [record EXCEPT !.ymodem = 0].valid
      BY Zenon, <1>b, <2>1, YmodemTruthful
    <3>2. /\ pc'["main"] = "erase" /\ pc'["host"] = "off" /\ ret'["main"] = "preproc"
          /\ buf'["main"] = [record EXCEPT !.ymodem = 0]
      BY <1>b, <2>1, <2>3, Zenon DEF Store
    <3> QED BY Zenon, <1>b, <2>1, <3>1, <3>2 DEF Sound, Storing, Downloading
  <2> QED BY <1>14, <2>2, <2>3 DEF EotContinue
<1>15. CASE ota_download_abort
  <2> DEFINE x == IF dl.started THEN dl.target ELSE First(InState(record, "DOWNLOADING"))
             w == With(record, x, "INVALID")
  <2>1. /\ record.valid /\ Load = record /\ Truthful(record, flash) /\ pc["host"] = "off"
        /\ booted = NoSlot /\ UNCHANGED <<record, flash, booted, dl>> /\ pc["main"] = "abort"
    BY SMTT(30), <1>15, <1>c DEF ota_download_abort, BootLabels
  <2>2. CASE Goto("main", "ymodem")
    <3>1. pc'["main"] = "ymodem" /\ pc'["host"] = "off"
      BY SMTT(30), <1>b, <2>1, <2>2 DEF Goto
    <3> QED BY <1>a, <1>b, <2>1, <3>1 DEF Sound, Storing
  <2>3. CASE /\ dl.started \/ InState(record, "DOWNLOADING") # {}
             /\ Store("main", w, "aborted")
    <3>1. x \in Slots /\ record.status[x] # "ACTIVE"
      <4>1. CASE dl.started
        BY Zenon, <4>1, <1>a, <2>1 DEF Sound, TypeOK
      <4>2. CASE ~dl.started
        <5>1. First(InState(record, "DOWNLOADING")) \in InState(record, "DOWNLOADING")
          BY SMTT(30), <2>3, <4>2, FirstIn DEF InState
        <5> QED BY SMTT(30), <4>2, <5>1 DEF InState
      <4> QED BY SMTT(30), <4>1, <4>2
    <3>2. pc'["main"] = "erase" /\ pc'["host"] = "off" /\ ret'["main"] = "aborted" /\ buf'["main"] = w
      BY <1>b, <2>1, <2>3, Zenon DEF Store
    <3>3. dl.started => x = dl.target
      BY Zenon
    <3> HIDE DEF x
    <3>4. "INVALID" \in Status /\ record \in Record /\ Truthful(record, flash) /\ record.valid
      BY <1>b, <2>1, Zenon DEF Status
    <3>5. w.valid /\ w.status[x] = "INVALID" /\ Truthful(w, flash)
      <4>1. w.valid /\ w.status[x] = "INVALID"
        BY SMTT(30), <3>1, <3>4, WithType
      <4>2. Truthful(w, flash)
        BY Zenon, <3>1, <3>4, WithTruthful
      <4> QED BY SMTT(30), <4>1, <4>2
    <3> HIDE DEF w
    <3>6. (Downloading /\ Storing("main"))' => dl.started
      BY SMTT(30), <2>1, <3>2 DEF Downloading
    <3> QED BY Zenon, <1>a, <1>b, <2>1, <3>2, <3>3, <3>5, <3>6
            DEF Sound, Storing, EraseWindow
  <2> QED BY SMTT(30), <1>15, <2>1, <2>2, <2>3 DEF ota_download_abort
<1>16. CASE DownloadAborted
  <2>1. /\ record.valid /\ Truthful(record, flash) /\ pc["host"] = "off"
        /\ booted = NoSlot /\ UNCHANGED <<record, flash, booted>> /\ ~dl'.started
    BY <1>16, <1>c, Zenon DEF DownloadAborted, BootLabels, NoSession
  <2>2. pc'["main"] = "ymodem" /\ pc'["host"] = "off"
    BY SMTT(30), <1>b, <1>16, <2>1 DEF DownloadAborted, Goto
  <2> QED BY <1>b, <2>1, <2>2 DEF Sound, Storing
<1>17. CASE HostCancels \/ (IdleTimeout /\ ~Reset)
  <2>1. /\ record.valid /\ Truthful(record, flash) /\ pc["host"] = "off"
        /\ booted = NoSlot /\ UNCHANGED <<record, flash, booted, dl>>
    BY SMTT(30), <1>17, <1>c DEF HostCancels, IdleTimeout, BootLabels
  <2>2. pc'["main"] = "abort" /\ pc'["host"] = "off"
    BY <1>b, <1>17, <2>1, Zenon DEF HostCancels, IdleTimeout, Goto
  <2> QED BY SMTT(30), <1>a, <1>b, <2>1, <2>2 DEF Sound, Storing
<1>18. CASE app_mark_verified
  <2> DEFINE u == First(InState(record, "UNVERIFIED"))
             promoted ==
                [record EXCEPT
                   !.status = [s \in Slots |->
                        IF s = u THEN "ACTIVE"
                        ELSE IF @[s] \in {"ACTIVE", "UNVERIFIED"} THEN "BACKUP" ELSE @[s]],
                   !.count = [s \in Slots |->
                        IF s = u \/ record.status[s] \in {"ACTIVE", "UNVERIFIED"}
                        THEN 0 ELSE @[s]]]
  <2>1. /\ pc["main"] = "verify" /\ pc["host"] \in {"serve", "reboot"}
        /\ UNCHANGED <<record, flash, booted, dl>> /\ ~dl.started
        /\ record.valid /\ Truthful(record, flash)
    <3>1. pc["main"] = "verify" /\ pc["host"] \in {"serve", "reboot"}
      BY SMTT(30), <1>18 DEF app_mark_verified
    <3>2. record.valid
      BY SMTT(30), <1>a, <1>b, <3>1 DEF Sound, Blank
    <3> QED BY <1>18, <1>a, <3>1, <3>2
            DEF app_mark_verified, SessionInv, Storing, Sound, EraseWindow
  <2>2. CASE Goto("main", "idle")
    <3>1. pc'["main"] = "idle" /\ pc'["host"] \in {"serve", "reboot"}
      BY SMTT(30), <1>b, <2>1, <2>2 DEF Goto
    <3> QED BY Zenon, <1>a, <1>b, <2>1, <3>1 DEF Sound, Storing, Complete
  <2>3. CASE InState(record, "UNVERIFIED") # {} /\ Store("main", promoted, "idle")
    <3>1. u \in Slots /\ record.status[u] = "UNVERIFIED"
      BY <2>3, FirstIn, Zenon DEF InState
    <3>2. /\ pc'["main"] = "erase" /\ pc'["host"] \in {"serve", "reboot"}
          /\ ret'["main"] = "idle" /\ buf'["main"] = promoted
      BY <1>b, <2>1, <2>3, Zenon DEF Store
    <3> HIDE DEF u
    <3>3. /\ promoted.valid
          /\ \A s \in Slots : promoted.status[s] =
                 IF s = u THEN "ACTIVE"
                 ELSE IF record.status[s] \in {"ACTIVE", "UNVERIFIED"} THEN "BACKUP"
                 ELSE record.status[s]
      BY SMTT(30), <1>b, <2>1 DEF Record
    <3> HIDE DEF promoted
    <3>4. Truthful(promoted, flash)
      <4>1. \A s \in Slots : promoted.status[s] \in {"ACTIVE", "UNVERIFIED"} => s = u
        BY SMTT(30), <3>3
      <4>2. flash[u].intact /\ flash[u].got = flash[u].want
        BY Zenon, <2>1, <3>1 DEF Truthful
      <4>3. promoted.status[u] = "ACTIVE"
        BY Zenon, <3>1, <3>3
      <4>4. NumSlots = 1 => u = 0
        BY SMT, <3>1 DEF Slots
      <4>5. NumSlots = 1 => promoted.status[0] # "BACKUP"
        BY SMT, <4>3, <4>4
      <4> QED BY Zenon, <3>1, <4>1, <4>2, <4>3, <4>5 DEF Truthful
    <3> QED BY Zenon, <1>a, <1>b, <2>1, <3>2, <3>3, <3>4
            DEF Sound, Storing, Downloading, EraseWindow, Complete
  <2> QED BY <1>18, <2>2, <2>3 DEF app_mark_verified
<1>19. CASE ota_host_cmd_enter_boot
  <2>1. /\ pc["host"] = "serve" /\ booted # NoSlot /\ record.valid /\ Load = record
        /\ UNCHANGED <<record, flash, booted, dl>>
    BY <1>19, Zenon DEF ota_host_cmd_enter_boot, ControlInv, Trusted, Load
  <2>2. Truthful(record, flash)
    BY Zenon, <1>a, <2>1 DEF Sound, EraseWindow, ControlInv, Storing
  <2>3. Truthful([record EXCEPT !.ymodem = 1], flash) /\ [record EXCEPT !.ymodem = 1].valid
    BY Zenon, <1>b, <2>1, <2>2, YmodemTruthful
  <2>4. /\ pc'["main"] = pc["main"] /\ pc'["host"] = "erase" /\ buf'["main"] = buf["main"]
        /\ ret'["main"] = ret["main"] /\ buf'["host"] = [record EXCEPT !.ymodem = 1]
    BY <1>b, <1>19, <2>1, Zenon DEF ota_host_cmd_enter_boot, Store
  <2> QED BY Zenon, <1>a, <1>b, <2>1, <2>2, <2>3, <2>4 DEF Sound, Storing, Downloading, Complete
<1>20. CASE ota_host_cmd_reboot
  <2>1. /\ pc'["main"] = pc["main"] /\ pc["host"] = "serve" /\ pc'["host"] = "reboot"
        /\ UNCHANGED <<record, flash, booted, dl, buf, ret>>
    BY SMTT(30), <1>b, <1>20 DEF ota_host_cmd_reboot, Goto
  <2> QED BY Zenon, <1>a, <1>b, <2>1
          DEF Sound, Storing, Downloading, Complete, Blank, EraseWindow
<1>21. CASE Reset
  <2>1. /\ pc'["main"] = "init" /\ pc'["host"] = "off" /\ booted' = NoSlot
        /\ ~dl'.started /\ UNCHANGED <<record, flash>>
    BY SMTT(30), <1>21 DEF Reset, NoSession
  <2>2. ~EraseWindow /\ ~\E t \in Tasks : pc[t] = "write"
    BY SMTT(30), <1>21 DEF Reset, Trusted, EraseWindow
  <2>3. record.valid => Truthful(record, flash)
    BY SMTT(30), <1>a, <2>2 DEF Sound
  <2>4. ~record.valid => Blank'
    BY SMTT(30), <1>a, <2>1, <2>2 DEF Sound, Blank, Complete
  <2> QED BY SMTT(30), <1>b, <2>1, <2>3, <2>4 DEF Sound, Storing
<1>22. CASE UNCHANGED vars
  <2> QED BY Zenon, <1>a, <1>22 DEF vars, Sound, Storing, Downloading, Complete, Blank, EraseWindow
<1> QED
  BY Zenon, <1>1, <1>2, <1>3, <1>4, <1>5, <1>6, <1>7, <1>8, <1>9, <1>10, <1>11, <1>12, <1>13,
     <1>14, <1>15, <1>16, <1>17, <1>18, <1>19, <1>20, <1>21, <1>22
     DEF Next, ProgramStep, HostStep, StoreStep, PowerLoss, OwnReset

-----------------------------------------------------------------------------
(* The retry budget.                                                       *)

\* A status set afresh starts its count at zero.
LEMMA WithCounted ==
    ASSUME NEW r \in Record, NEW n \in [Slots -> Nat], NEW s \in Slots, NEW st \in Status,
           Counted(r, n), st = "UNVERIFIED" => n[s] = 0
    PROVE  Counted(With(r, s, st), n)
<1> DEFINE w == With(r, s, st)
<1>1. /\ w.status[s] = st /\ w.count[s] = 0
      /\ \A x \in Slots \ {s} : w.status[x] = r.status[x] /\ w.count[x] = r.count[x]
  BY SMTT(30), WithType
<1> HIDE DEF w
<1>2. Counted(w, n)
  BY <1>1 DEF Counted
<1> QED BY SMTT(30), <1>2 DEF w

\* Every step keeps the persisted retry counts ahead of the starts they
\* account for.
LEMMA NextBudget == IInv /\ [Next]_vars => BudgetInv'
<1> SUFFICES ASSUME IInv, [Next]_vars, NumSlots = 1 \/ "record" \notin torn'
             PROVE  Budgeted'
  BY Zenon DEF BudgetInv
<1>a. TypeOK /\ ControlInv /\ JumpReady /\ SessionInv /\ Budgeted
  BY TornGrows, Zenon DEF IInv, BudgetInv
<1>b. /\ pc \in [{"main", "host"} -> Labels] /\ ret \in [{"main", "host"} -> Labels]
      /\ buf \in [{"main", "host"} -> Record] /\ Tasks = {"main", "host"}
      /\ "main" # "host" /\ record \in Record /\ tries \in [Slots -> Nat] /\ Load \in Record
  BY <1>a, LoadType, Zenon DEF TypeOK, Tasks
<1>c. Counted(Load, tries)
  BY Zenon, <1>a DEF Budgeted, Load, DefaultRecord, Counted
\* A step that only begins to store a counted record.
<1>d. ASSUME NEW t \in Tasks, NEW r \in Record, NEW l, Store(t, r, l), Counted(r, tries),
             UNCHANGED <<record, tries>>,
             l \notin {"jump", "select"} \/ t = "host"
      PROVE  Budgeted'
  <2>1. /\ pc'[t] = "erase" /\ buf'[t] = r /\ ret'[t] = l
        /\ \A x \in Tasks \ {t} : pc'[x] = pc[x] /\ buf'[x] = buf[x] /\ ret'[x] = ret[x]
    BY SMTT(30), <1>b, <1>d DEF Store
  <2>2. \A x \in Tasks : Storing(x)' => Counted(buf'[x], tries)
    BY Zenon, <1>a, <1>d, <2>1 DEF Budgeted, Storing
  <2>3. CASE t = "main"
    BY Zenon, <1>a, <1>b, <1>d, <2>1, <2>2, <2>3 DEF Budgeted, Storing
  <2>4. CASE t = "host"
    <3>1. pc'["main"] = pc["main"] /\ buf'["main"] = buf["main"] /\ ret'["main"] = ret["main"]
      BY SMTT(30), <1>b, <2>1, <2>4
    <3> QED BY Zenon, <1>a, <1>b, <1>d, <2>2, <3>1 DEF Budgeted, Storing
  <2> QED BY SMTT(30), <1>b, <2>3, <2>4
\* A step that moves a task without storing.
<1>e. ASSUME NEW t \in Tasks, NEW l \in Labels \ {"erase", "write", "jump", "select", "unmark"},
             Goto(t, l), UNCHANGED <<record, tries, buf, ret>>
      PROVE  Budgeted'
  BY Zenon, <1>a, <1>b, <1>e DEF Budgeted, Storing, Goto
<1>1. ASSUME NEW t \in Tasks, StoreErase(t) PROVE Budgeted'
  <2>1. ~record'.valid /\ UNCHANGED <<tries, buf, ret>>
    BY <1>1, Zenon DEF StoreErase, NoRecord, DefaultRecord
  <2>2. \A x \in Tasks : Storing(x)' <=> Storing(x)
    BY <1>b, <1>1, Zenon DEF StoreErase, Goto, Storing
  <2>3. pc'["main"] # pc["main"] => pc'["main"] = "write"
    BY SMTT(30), <1>b, <1>1 DEF StoreErase, Goto
  <2> QED BY Zenon, <1>a, <1>b, <2>1, <2>2, <2>3 DEF Budgeted
<1>2. ASSUME NEW t \in Tasks, StoreWrite(t) \/ StoreFault(t) PROVE Budgeted'
  <2>1. /\ UNCHANGED <<tries, buf, ret>> /\ Storing(t)
        /\ pc' = [pc EXCEPT ![t] = ret[t]] \/ pc' = [pc EXCEPT ![t] = OnFail(ret[t])]
        /\ record' \in {record, NoRecord, buf[t]}
        /\ pc' = [pc EXCEPT ![t] = ret[t]] /\ record'.valid =>
               record' = buf[t] \/ OnFail(ret[t]) = ret[t]
    <3>1. CASE StoreWrite(t)
      BY <1>b, <3>1, Zenon DEF StoreWrite, Goto, Storing
    <3>2. CASE StoreFault(t)
      BY SMTT(30), <1>b, <3>2 DEF StoreFault, Goto, Storing, NoRecord, DefaultRecord
    <3> QED BY Zenon, <1>2, <3>1, <3>2
  <2>2. record'.valid => Counted(record', tries)
    <3>1. ~NoRecord.valid
      BY SMTT(30) DEF NoRecord, DefaultRecord
    <3>2. Counted(buf[t], tries) /\ (record.valid => Counted(record, tries))
      BY Zenon, <1>a, <2>1 DEF Budgeted
    <3> QED BY <2>1, <3>1, <3>2
  <2>3. \A x \in Tasks : Storing(x)' => Storing(x)
    BY <1>a, <1>b, <2>1, Zenon DEF Storing, ControlInv, OnFail, RetMain
  <2>4. /\ pc'["main"] = "jump" => pc["main"] = "jump" \/ (Storing("main") /\ ret["main"] = "jump")
        /\ pc'["main"] = "select" =>
               pc["main"] = "select" \/ (Storing("main") /\ ret["main"] = "select")
        /\ pc'["main"] = "unmark" => pc["main"] = "unmark" \/ Storing("main")
    BY SMTT(30), <1>a, <1>b, <2>1 DEF Storing, ControlInv, OnFail, RetMain
  <2>5. pc'["main"] = "jump" /\ record'.valid => record' = buf["main"]
    <3>1. CASE t = "main"
      <4>1. pc'["main"] = "jump" => ret["main"] = "jump" /\ pc' = [pc EXCEPT ![t] = ret[t]]
        BY SMTT(30), <1>a, <1>b, <2>1, <3>1 DEF Storing, ControlInv, OnFail, RetMain
      <4> QED BY <2>1, <3>1, <4>1 DEF OnFail
    <3>2. CASE t = "host"
      <4>1. pc["main"] # "jump"
        BY <1>a, <2>1, <3>2, Zenon DEF Storing, ControlInv, BootLabels
      <4> QED BY SMTT(30), <1>b, <2>1, <3>2, <4>1
    <3> QED BY <1>b, <3>1, <3>2
  <2> QED BY Zenon, <1>a, <1>b, <2>1, <2>2, <2>3, <2>4, <2>5 DEF Budgeted
<1>4. ASSUME NEW t \in Tasks, ota_module_init(t) PROVE Budgeted'
  <2>1. CASE record.valid
    BY SMTT(30), <1>4, <1>e, <2>1 DEF ota_module_init, Labels
  <2>2. CASE ~record.valid
    <3>1. Counted(DefaultRecord, tries) /\ DefaultRecord \in Record
      BY DefaultType, Zenon DEF Counted, DefaultRecord
    <3> QED BY SMTT(30), <1>4, <1>d, <2>2, <3>1 DEF ota_module_init
  <2> QED BY SMTT(30), <2>1, <2>2
<1>5. ASSUME NEW y \in {0, 1}, NEW t \in Tasks, NEW l, l \notin {"jump", "select"},
             Store(t, [Load EXCEPT !.ymodem = y], l), UNCHANGED <<record, tries>>
      PROVE  Budgeted'
  <2>1. [Load EXCEPT !.ymodem = y] \in Record
    BY <1>b, Zenon DEF Record
  <2>2. Counted([Load EXCEPT !.ymodem = y], tries)
    BY <1>b, <1>c, YmodemTruthful, Zenon DEF Counted
  <2> QED BY <1>5, <1>d, <2>1, <2>2
<1>6. CASE BootDecide
  <2>1. CASE Store("main", [Load EXCEPT !.ymodem = 0], "ymodem")
    BY <1>5, <1>6, <1>b, <2>1 DEF BootDecide
  <2>2. CASE (Goto("main", "preproc") \/ Goto("main", "ymodem")) /\ UNCHANGED <<buf, ret>>
    BY <1>6, <1>b, <1>e, <2>2, Zenon DEF BootDecide, Labels
  <2> QED BY <1>6, <2>1, <2>2 DEF BootDecide
\* The selection never starts an UNVERIFIED slot, so it costs no try.
<1>7. ASSUME NEW r \in Record, InState(r, "UNVERIFIED") = {}, BootSelect(r),
             pc["main"] \in {"preproc", "select"}, UNCHANGED <<record, buf, ret>>
      PROVE  Budgeted'
  <2> DEFINE s == choose_boot_candidate_ota_slot(r)
  <2>1. CASE s = NoSlot
    BY SMTT(30), <1>7, <1>b, <1>e, <2>1 DEF BootSelect, Labels
  <2>2. CASE s # NoSlot
    <3>1. s \in Slots /\ r.status[s] # "UNVERIFIED"
      <4>1. s \in Slots
        <5>1. {"UNVERIFIED", "ACTIVE", "BACKUP"} \subseteq Status
          BY SMTT(30) DEF Status
        <5>2. FirstOf(r, "UNVERIFIED", "ACTIVE", "BACKUP") \in Slots \cup {NoSlot}
          BY SMTT(30), <1>7, <5>1, FirstOfIn
        <5> QED BY Zenon, <2>2, <5>2 DEF choose_boot_candidate_ota_slot
      <4> HIDE DEF s
      <4> QED BY Zenon, <1>7, <4>1 DEF InState
    <3>2. Jump(r, s)
      BY SMTT(30), <1>7, <2>2 DEF BootSelect
    <3> HIDE DEF s
    <3>3. tries' = tries /\ pc'["main"] \in {"verify", "dead"} /\ pc'["host"] \in {"init", "off"}
      BY <3>1, <3>2, Zenon DEF Jump
    <3> QED BY Zenon, <1>7, <1>a, <1>b, <3>3 DEF Budgeted, Storing
  <2> QED BY SMTT(30), <2>1, <2>2
<1>8. CASE boot_preprocess
  <2> DEFINE u == First(InState(Load, "UNVERIFIED"))
             b == [Load EXCEPT !.count[u] = @ + 1]
             w == With(Load, u, "INVALID")
  <2>1. pc["main"] = "preproc" /\ record' = record /\ pc["host"] = "off"
    BY <1>8, <1>a, Zenon DEF boot_preprocess, ControlInv, BootLabels
  <2>2. CASE InState(Load, "UNVERIFIED") = {}
    BY <1>8, <1>b, <1>7, <2>1, <2>2, Zenon DEF boot_preprocess
  <2>3. CASE InState(Load, "UNVERIFIED") # {}
    <3>1. u \in Slots /\ Load.status[u] = "UNVERIFIED"
      BY <2>3, FirstIn, Zenon DEF InState
    <3>2. tries' = tries
      BY SMTT(30), <1>8, <2>3 DEF boot_preprocess
    <3>3. CASE Store("main", w, "select")
      <4>1. /\ pc'["main"] = "erase" /\ buf'["main"] = w /\ ret'["main"] = "select"
            /\ pc'["host"] = "off"
        BY <1>b, <2>1, <3>3, Zenon DEF Store
      <4>2. NumSlots = 2 => \E s \in Slots : Load.status[s] = "ACTIVE"
        <5>1. ASSUME NumSlots = 2 PROVE Truthful(Load, flash)
          <6>1. Sound
            BY SMTT(30), <5>1, TornGrows DEF IInv, TrustInv, Trusted
          <6>2. record.valid
            BY SMTT(30), <6>1, <1>b, <2>1 DEF Sound, Blank
          <6> QED BY <6>1, <6>2, <2>1 DEF Sound, EraseWindow, Load
        <5> QED BY SMTT(30), <5>1 DEF Truthful
      <4> HIDE DEF u
      <4>3. /\ w.status[u] = "INVALID"
            /\ \A x \in Slots \ {u} : w.status[x] = Load.status[x]
        BY SMTT(30), <1>b, <3>1, WithType DEF Status
      <4>4. Counted(w, tries)
        BY SMTT(30), <1>b, <1>c, <3>1, WithCounted DEF Status
      <4> HIDE DEF w
      <4>5. InState(w, "UNVERIFIED") = {}
        BY SMTT(30), <3>1, <4>2, <4>3 DEF InState, Slots
      <4> QED BY Zenon, <1>a, <1>b, <2>1, <3>2, <4>1, <4>4, <4>5 DEF Budgeted, Storing
    <3>4. CASE Load.count[u] + 1 < MaxVerify /\ Store("main", b, "jump")
      <4>1. /\ pc'["main"] = "erase" /\ buf'["main"] = b /\ ret'["main"] = "jump"
            /\ pc'["host"] = "off"
        BY <1>b, <2>1, <3>4, Zenon DEF Store
      <4>2. InState(b, "UNVERIFIED") = InState(Load, "UNVERIFIED")
        BY <1>b, Zenon DEF InState, Record
      <4>3. First(InState(b, "UNVERIFIED")) = u
        BY <4>2, Zenon
      <4> HIDE DEF u
      <4>4. /\ b.count[u] = Load.count[u] + 1 /\ b.status = Load.status
            /\ \A x \in Slots \ {u} : b.count[x] = Load.count[x]
        BY SMTT(30), <1>b, <3>1 DEF Record
      <4>5. Load.count[u] \in Nat /\ tries[u] \in Nat /\ tries[u] <= Load.count[u]
        BY SMTT(30), <1>b, <1>c, <3>1 DEF Record, Counted
      <4> HIDE DEF b
      <4>6. Counted(b, tries)
        BY SMTT(30), <1>b, <1>c, <3>1, <3>4, <4>4, <4>5 DEF Counted
      <4>7. tries[u] + 1 <= b.count[u] /\ b.count[u] < MaxVerify
        BY SMTT(30), <3>4, <4>4, <4>5
      <4> QED BY Zenon, <1>a, <1>b, <2>1, <3>2, <4>1, <4>3, <4>6, <4>7 DEF Budgeted, Storing
    <3> HIDE DEF b, w
    <3>5. Load.count[u] \in Nat
      BY <1>b, <3>1, Zenon DEF Record
    <3> QED BY <1>8, <2>3, <3>3, <3>4, <3>5 DEF boot_preprocess, b, w
  <2> QED BY <2>2, <2>3
<1>9. CASE BootStored
  <2>1. CASE pc["main"] = "select" /\ BootSelect(buf["main"])
    BY Zenon, <1>9, <1>a, <1>b, <1>7, <2>1 DEF BootStored, Budgeted
  <2>2. CASE pc["main"] = "jump" /\ Jump(buf["main"], First(InState(buf["main"], "UNVERIFIED")))
    <3> DEFINE u == First(InState(buf["main"], "UNVERIFIED"))
    <3>1. u \in Slots /\ buf["main"].status[u] = "UNVERIFIED"
      BY SMTT(30), <1>a, <2>2, FirstIn DEF JumpReady, InState
    <3>2. /\ tries' = [tries EXCEPT ![u] = @ + 1]
          /\ pc'["main"] \in {"verify", "dead"} /\ pc'["host"] \in {"init", "off"}
      BY SMTT(30), <2>2, <3>1 DEF Jump
    <3>3. /\ tries[u] + 1 <= buf["main"].count[u] /\ buf["main"].count[u] < MaxVerify
          /\ record.valid => record = buf["main"]
      BY Zenon, <1>a, <2>2 DEF Budgeted
    <3>4. record' = record /\ buf["main"].count[u] \in Nat /\ tries[u] \in Nat
      BY SMTT(30), <1>9, <1>b, <3>1 DEF BootStored, Record
    <3> HIDE DEF u
    <3>5. \A s \in Slots : tries'[s] < MaxVerify
      <4>1. tries'[u] = tries[u] + 1 /\ \A s \in Slots \ {u} : tries'[s] = tries[s]
        BY SMTT(30), <1>b, <3>1, <3>2
      <4>2. tries'[u] < MaxVerify
        BY SMTT(30), <3>3, <3>4, <4>1
      <4>3. \A s \in Slots : tries[s] < MaxVerify
        BY Zenon, <1>a DEF Budgeted
      <4> QED BY Zenon, <4>1, <4>2, <4>3
    <3>6. record.valid => Counted(record, tries')
      BY ZenonT(30), <1>a, <1>b, <3>1, <3>2, <3>3, <3>4 DEF Budgeted, Counted
    <3> QED BY Zenon, <1>b, <3>2, <3>4, <3>5, <3>6 DEF Budgeted, Storing
  <2> QED BY SMTT(30), <1>9, <2>1, <2>2 DEF BootStored
<1>10. ASSUME NEW n \in Sizes, ota_download_start(n) PROVE Budgeted'
  <2> DEFINE t == choose_target_ota_slot(Load)
             w == With(Load, t, "DOWNLOADING")
  <2>1. t \in Slots
    BY SMTT(30), <1>b, <1>10, TargetType DEF ota_download_start
  <2>2. /\ pc'["main"] = "erase" /\ buf'["main"] = w /\ ret'["main"] = "started"
        /\ pc'["host"] = pc["host"] /\ pc["host"] = "off"
        /\ tries' = [tries EXCEPT ![t] = 0] /\ record' = record
    BY Zenon, <1>a, <1>b, <1>10 DEF ota_download_start, Store, ControlInv, BootLabels
  <2> HIDE DEF t
  <2>3. tries' \in [Slots -> Nat] /\ \A s \in Slots : tries'[s] <= tries[s] /\ tries'[s] < MaxVerify
    <3>1. \A s \in Slots : tries[s] < MaxVerify
      BY Zenon, <1>a DEF Budgeted
    <3>2. tries' \in [Slots -> Nat] /\ \A s \in Slots : tries'[s] = IF s = t THEN 0 ELSE tries[s]
      BY SMTT(30), <1>b, <2>1, <2>2
    <3>3. \A s \in Slots : tries'[s] <= tries[s] /\ tries'[s] < MaxVerify
      BY SMTT(30), <1>b, <3>1, <3>2
    <3> QED BY Zenon, <3>2, <3>3
  <2>4. ASSUME NEW r \in Record, Counted(r, tries) PROVE Counted(r, tries')
    BY <1>b, <2>3, <2>4 DEF Counted, Record
  <2>5. "DOWNLOADING" \in Status /\ "DOWNLOADING" # "UNVERIFIED"
    BY Zenon DEF Status
  <2>6. Counted(w, tries')
    <3>1. Counted(Load, tries')
      BY SMTT(30), <1>b, <1>c, <2>4
    <3> QED BY <1>b, <2>1, <2>3, <2>5, <3>1, WithCounted
  <2>7. record.valid => Counted(record, tries')
    BY <1>a, <1>b, <2>4, Zenon DEF Budgeted
  <2> HIDE DEF w
  <2> QED BY SMTT(30), <1>b, <2>2, <2>3, <2>6, <2>7 DEF Budgeted, Storing
<1>11. CASE /\ UNCHANGED <<record, pc, buf, ret, tries>>
  BY Zenon, <1>11, <1>a DEF Budgeted, Storing
<1>12. CASE DownloadStarted
  <2>1. CASE pc["main"] = "started"
    BY <1>12, <1>b, <1>e, <2>1, Zenon DEF DownloadStarted, Labels
  <2>2. CASE pc["main"] = "unmark" /\ Store("main", With(buf["main"], dl.target, "INVALID"), "ymodem")
    <3> DEFINE w == With(buf["main"], dl.target, "INVALID")
    <3>1. Counted(buf["main"], tries)
      BY SMTT(30), <1>12, <1>a, <2>1, <2>2 DEF DownloadStarted, Budgeted
    <3>2. w \in Record
      BY SMTT(30), <1>a, <1>b, WithType DEF TypeOK, Status
    <3>3. Counted(w, tries)
      BY <1>a, <1>b, <3>1, WithCounted, Zenon DEF TypeOK, Status
    <3> HIDE DEF w
    <3>4. Store("main", w, "ymodem") /\ UNCHANGED <<record, tries>>
      BY <1>12, <2>2, Zenon DEF DownloadStarted, w
    <3> QED BY <1>b, <1>d, <3>2, <3>3, <3>4
  <2> QED BY <1>12, <2>1, <2>2 DEF DownloadStarted
\* A finished or aborted download resets the count of its slot.
<1>13. ASSUME NEW x \in Slots, NEW st \in Status, NEW l, l \notin {"jump", "select"},
              st = "UNVERIFIED" => tries[x] = 0,
              Store("main", With(Load, x, st), l), UNCHANGED <<record, tries>>
       PROVE  Budgeted'
  <2>1. With(Load, x, st) \in Record
    BY SMTT(30), <1>b, WithType
  <2>2. Counted(With(Load, x, st), tries)
    BY SMTT(30), <1>b, <1>c, <1>13, WithCounted
  <2> QED BY SMTT(30), <1>b, <1>d, <1>13, <2>1, <2>2
<1>14. CASE ota_download_finish
  <2>1. UNCHANGED <<record, tries>> /\ dl.target \in Slots
    BY SMTT(30), <1>14, <1>a DEF ota_download_finish, TypeOK
  <2>2. CASE Goto("main", "abort") /\ UNCHANGED <<buf, ret>>
    BY SMTT(30), <1>b, <1>e, <2>1, <2>2 DEF Labels
  <2>3. CASE dl.started /\ record.valid /\ Store("main", With(record, dl.target, "UNVERIFIED"), "finished")
    <3>1. tries[dl.target] = 0 /\ Load = record
      BY <1>a, <2>3, Zenon DEF SessionInv, Downloading, Load
    <3>2. "UNVERIFIED" \in Status /\ "finished" \notin {"jump", "select"}
      BY Zenon DEF Status
    <3>3. Store("main", With(Load, dl.target, "UNVERIFIED"), "finished")
      BY Zenon, <2>3, <3>1
    <3> QED BY SMTT(30), <1>13, <2>1, <3>1, <3>2, <3>3
  <2>4. CASE record.valid /\ Store("main", With(record, dl.target, "INVALID"), "rejected")
    <3>1. Load = record
      BY <2>4, Zenon DEF Load
    <3> QED BY <1>13, <2>1, <2>4, <3>1 DEF Status
  <2> QED BY SMTT(30), <1>14, <2>2, <2>3, <2>4 DEF ota_download_finish
<1>15. CASE ota_download_abort
  <2> DEFINE x == IF dl.started THEN dl.target ELSE First(InState(Load, "DOWNLOADING"))
  <2>1. UNCHANGED <<record, tries>>
    BY <1>15, Zenon DEF ota_download_abort
  <2>2. CASE Goto("main", "ymodem") /\ UNCHANGED <<buf, ret>>
    BY <1>b, <1>e, <2>1, <2>2, Zenon DEF Labels
  <2>3. CASE /\ dl.started \/ InState(Load, "DOWNLOADING") # {}
             /\ Store("main", With(Load, x, "INVALID"), "aborted")
    <3>1. x \in Slots
      <4>1. dl.target \in Slots
        BY <1>a, Zenon DEF TypeOK
      <4>2. InState(Load, "DOWNLOADING") # {} => First(InState(Load, "DOWNLOADING")) \in Slots
        BY FirstIn, Zenon DEF InState
      <4> QED BY <2>3, <4>1, <4>2
    <3> HIDE DEF x
    <3> QED BY <1>13, <2>1, <2>3, <3>1 DEF Status
  <2> QED BY <1>15, <2>2, <2>3 DEF ota_download_abort
<1>16. CASE EotContinue
  <2>1. CASE Goto("main", "abort") /\ UNCHANGED <<buf, ret>>
    BY <1>16, <1>b, <1>e, <2>1, Zenon DEF EotContinue, Labels
  <2>2. CASE Store("main", [Load EXCEPT !.ymodem = 0], "preproc")
    BY SMTT(30), <1>16, <1>b, <1>5, <2>2 DEF EotContinue
  <2> QED BY <1>16, <2>1, <2>2 DEF EotContinue
<1>17. CASE DownloadFails \/ HostCancels \/ DownloadAborted \/ (IdleTimeout /\ ~Reset)
  <2>1. /\ Goto("main", "abort") \/ Goto("main", "ymodem")
        /\ UNCHANGED <<record, tries, buf, ret>>
    BY <1>17, Zenon DEF DownloadFails, HostCancels, DownloadAborted, IdleTimeout
  <2> QED BY <1>b, <1>e, <2>1 DEF Labels
<1>18. CASE app_mark_verified
  <2> DEFINE u == First(InState(record, "UNVERIFIED"))
             promoted ==
                [record EXCEPT
                   !.status = [s \in Slots |->
                        IF s = u THEN "ACTIVE"
                        ELSE IF @[s] \in {"ACTIVE", "UNVERIFIED"} THEN "BACKUP" ELSE @[s]],
                   !.count = [s \in Slots |->
                        IF s = u \/ record.status[s] \in {"ACTIVE", "UNVERIFIED"}
                        THEN 0 ELSE @[s]]]
  <2>1. UNCHANGED <<record, tries>>
    BY SMTT(30), <1>18 DEF app_mark_verified
  <2>2. CASE Goto("main", "idle") /\ UNCHANGED <<buf, ret>>
    BY <1>b, <1>e, <2>1, <2>2, Zenon DEF Labels
  <2>3. CASE Store("main", promoted, "idle")
    <3>1. promoted \in Record
      BY Zenon, <1>b DEF Record, Status
    <3>2. \A s \in Slots : promoted.status[s] # "UNVERIFIED"
      BY <1>b, Zenon DEF Record
    <3> HIDE DEF promoted
    <3>3. Counted(promoted, tries)
      BY <3>2, Zenon DEF Counted
    <3> QED BY SMTT(30), <1>b, <1>d, <2>1, <2>3, <3>1, <3>3
  <2> QED BY <1>18, <2>2, <2>3 DEF app_mark_verified
<1>19. CASE ota_host_cmd_enter_boot
  BY SMTT(30), <1>19, <1>b, <1>5 DEF ota_host_cmd_enter_boot
<1>20. CASE ota_host_cmd_reboot
  BY SMTT(30), <1>20, <1>b, <1>e DEF ota_host_cmd_reboot, Labels
<1>21. CASE Reset
  <2>1. pc'["main"] = "init" /\ pc'["host"] = "off" /\ UNCHANGED <<record, tries>>
    BY <1>21, Zenon DEF Reset
  <2> QED BY Zenon, <1>a, <1>b, <2>1 DEF Budgeted, Storing
<1> QED
  BY Zenon, <1>1, <1>2, <1>4, <1>6, <1>8, <1>9, <1>10, <1>11, <1>12, <1>14, <1>15, <1>16, <1>17,
     <1>18, <1>19, <1>20, <1>21
     DEF Next, vars, ProgramStep, HostStep, StoreStep, PowerLoss, OwnReset, SlotEraseFault,
         ota_download

-----------------------------------------------------------------------------
\* The inductive invariant holds of a device that leaves the factory.
LEMMA InitIInv == Init => IInv
<1> SUFFICES ASSUME Init PROVE IInv
  BY Zenon
<1>1. TypeOK
  BY InitType, Zenon
<1>2. pc["main"] = "init" /\ pc["host"] = "off" /\ booted = NoSlot /\ ~record.valid /\ ~dl.started
  BY SMTT(30) DEF Init, NoRecord, DefaultRecord, NoSession
<1>3. ControlInv /\ JumpReady /\ SessionInv
  BY SMTT(30), <1>2 DEF ControlInv, JumpReady, SessionInv, Storing, BootLabels, Downloading
<1>4. Complete(0)
  BY SMTT(30) DEF Init, Complete, Slots
<1>5. TrustInv
  BY Zenon, <1>2, <1>4 DEF TrustInv, Sound, Storing, Blank, Tasks
<1>6. BudgetInv
  <2>1. \A s \in Slots : tries[s] < MaxVerify
    BY DEF Init
  <2> QED BY SMTT(30), <1>2, <2>1 DEF BudgetInv, Budgeted, Storing, Tasks
<1> QED BY <1>1, <1>3, <1>5, <1>6 DEF IInv

\* The inductive invariant of the update: every step keeps all of its parts.
THEOREM Inductive == Spec => []IInv
<1>1. IInv /\ [Next]_vars => IInv'
  BY NextType, NextControl, NextJumpReady, NextSession, NextTrust, NextBudget, Zenon DEF IInv
<1> QED BY <1>1, InitIInv, PTL DEF Spec

\* boot_preprocess never starts an image that is not complete and intact, whatever
\* the slot count, the slot size, the packages and the order of resets and faults.
THEOREM BootsOnlyComplete == Spec => []NeverBootsIncomplete
<1>1. IInv => NeverBootsIncomplete
  BY Zenon DEF IInv, TrustInv, Sound, NeverBootsIncomplete
<1> QED BY <1>1, Inductive, PTL

\* An unverified image is started fewer than OTA_APP_MAX_VERIFY_COUNT times.
THEOREM BudgetRespected == Spec => []VerifyBudget
<1>1. IInv => VerifyBudget
  BY Zenon DEF IInv, BudgetInv, Budgeted, VerifyBudget
<1> QED BY <1>1, Inductive, PTL

\* With two slots the device always keeps an ACTIVE, complete image.
THEOREM ActiveImageKept == Spec => []KeepsActiveImage
<1>1. IInv => KeepsActiveImage
  <2> SUFFICES ASSUME IInv, NumSlots = 2, Trusted, record.valid
               PROVE  \E s \in Slots : record.status[s] = "ACTIVE" /\ Complete(s)
    BY Zenon DEF KeepsActiveImage
  <2>1. ~EraseWindow
    BY SMT DEF EraseWindow
  <2>2. Truthful(record, flash)
    BY Zenon, <2>1 DEF IInv, TrustInv, Sound
  <2>3. PICK s \in Slots : record.status[s] = "ACTIVE"
    BY Zenon, <2>2 DEF Truthful
  <2>4. Complete(s)
    BY Zenon, <2>2, <2>3 DEF Truthful, Complete
  <2> QED BY Zenon, <2>3, <2>4
<1> QED BY <1>1, Inductive, PTL
=============================================================================
