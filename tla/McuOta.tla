------------------------------- MODULE McuOta -------------------------------
(***************************************************************************)
(* Firmware update of the companion MCU: the OTA record, the application   *)
(* slots, the bootloader that chooses what to start and the two tasks of   *)
(* the application that also write the record.                             *)
(*                                                                         *)
(* Flash survives a reset, everything else does not.  A flash operation is *)
(* one step (the port masks interrupts around it), so a reset, or the      *)
(* preemption of one application task by another, falls between two of     *)
(* them: between the erase and the write of record_store(), and between    *)
(* the erase of a slot and the record that marks it DOWNLOADING.           *)
(*                                                                         *)
(* "main" is the bootloader's main() and, once an application runs, its    *)
(* app_task; "host" is the application's host link task.                   *)
(***************************************************************************)
EXTENDS Integers, FiniteSets

CONSTANTS
    NumSlots,     \* OTA_IS_DUAL_APP ? 2 : 1
    MaxVerify,    \* OTA_APP_MAX_VERIFY_COUNT
    SlotBlocks,   \* capacity of a slot, in download blocks
    Sizes,        \* package sizes a host may announce, in blocks
    MaxEvents     \* bound: host requests, faults and power losses in a behaviour

ASSUME NumSlotsAssumption == NumSlots \in {1, 2}
ASSUME MaxVerifyAssumption == MaxVerify \in Nat \ {0}
ASSUME SizesAssumption == SlotBlocks \in Nat \ {0} /\ Sizes \subseteq Nat \ {0}
ASSUME MaxEventsAssumption == MaxEvents \in Nat

Slots == 0 .. NumSlots - 1
NoSlot == -1
Tasks == {"main", "host"}

Status == {"INVALID", "DOWNLOADING", "UNVERIFIED", "ACTIVE", "BACKUP"}

\* ota_record_info_t.  valid abstracts the magic number and the CRC.
Record == [valid : BOOLEAN, status : [Slots -> Status], count : [Slots -> Nat],
           ymodem : {0, 1}]

\* ota_record_default_info: the first slot ACTIVE, the other one INVALID.
DefaultRecord ==
    [valid  |-> TRUE,
     status |-> [s \in Slots |-> IF s = 0 THEN "ACTIVE" ELSE "INVALID"],
     count  |-> [s \in Slots |-> 0],
     ymodem |-> 0]

\* An erased or half-written record area: record_load() rejects it.
NoRecord == [DefaultRecord EXCEPT !.valid = FALSE]

VARIABLES
    record,         \* the record area of the flash
    flash,          \* per slot: blocks the image needs, blocks present, undamaged
    pc, buf, ret,   \* per task: label, record being stored, label after the store
    dl,             \* g_dl, the download session of the OTA module
    s_ota_session,  \* the Ymodem receiver has a download under way
    booted,         \* the slot whose application runs, or NoSlot
    tries,          \* history: starts of a slot while UNVERIFIED since its download
    torn,           \* history: which of the two unprotected windows was cut
    events          \* history: events so far, bounded by MaxEvents

vars == <<record, flash, pc, buf, ret, dl, s_ota_session, booted, tries, torn, events>>

Complete(s) == flash[s].intact /\ flash[s].got = flash[s].want

\* An environment event: bounded, everything else is the program's own step.
Event == events < MaxEvents /\ events' = events + 1
NoEvent == events' = events

-----------------------------------------------------------------------------
(* Reading the record.                                                     *)

\* record_load(): the caller gets the default record when the area is invalid.
Load == IF record.valid THEN record ELSE DefaultRecord

With(r, s, st) == [r EXCEPT !.status[s] = st, !.count[s] = 0]

InState(r, st) == {s \in Slots : r.status[s] = st}

First(S) == CHOOSE s \in S : \A x \in S : s <= x

\* The loops of choose_target_ota_slot and choose_boot_candidate_ota_slot: the
\* lowest slot of the first non-empty class.
FirstOf(r, a, b, c) ==
    IF InState(r, a) # {} THEN First(InState(r, a))
    ELSE IF InState(r, b) # {} THEN First(InState(r, b))
    ELSE IF InState(r, c) # {} THEN First(InState(r, c))
    ELSE NoSlot

\* Mutant: the single-slot fallback also applies with two slots.
Mut_target_fallback(r) ==
    LET spare == FirstOf(r, "DOWNLOADING", "INVALID", "BACKUP")
    IN  IF spare = NoSlot THEN 0 ELSE spare

choose_target_ota_slot(r) ==
    LET spare == FirstOf(r, "DOWNLOADING", "INVALID", "BACKUP")
    IN  IF spare = NoSlot /\ NumSlots = 1 THEN 0 ELSE spare

choose_boot_candidate_ota_slot(r) == FirstOf(r, "UNVERIFIED", "ACTIVE", "BACKUP")

has_active_app_region == record.valid /\ InState(record, "ACTIVE") # {}

-----------------------------------------------------------------------------
(* record_store(): erase the record sector, then program the new record.   *)

Goto(t, l) == pc' = [pc EXCEPT ![t] = l]

\* The task enters record_store(r) and continues at l when it returns 0.
Store(t, r, l) ==
    /\ pc' = [pc EXCEPT ![t] = "erase"]
    /\ buf' = [buf EXCEPT ![t] = r]
    /\ ret' = [ret EXCEPT ![t] = l]

\* Where the caller goes when record_store() fails, by where it would have gone.
OnFail(l) ==
    CASE l = "decide"   -> "halt"    \* ota_module_init failed: Error_Handler
      [] l = "serve"    -> "off"     \* host_link_app_init failed
      [] l = "select"   -> "ymodem"  \* boot_preprocess returned an error
      [] l = "jump"     -> "ymodem"
      [] l = "started"  -> "unmark"  \* download_start: best-effort INVALID
      [] l = "aborted"  -> "ymodem"
      [] l = "rejected" -> "abort"   \* download_finish failed: handle_eot aborts
      [] l = "finished" -> "abort"
      [] OTHER          -> l         \* the result is ignored

\* Two tasks share the flash under a preemptive scheduler: the host task
\* (priority 4) runs to completion before app_task (priority 2) continues.
MayRun(t) == t = "main" => pc["host"] \in {"off", "serve", "reboot"}

StoreErase(t) ==
    /\ pc[t] = "erase" /\ MayRun(t)
    /\ record' = NoRecord
    /\ Goto(t, "write")
    /\ NoEvent
    /\ UNCHANGED <<flash, buf, ret, dl, s_ota_session, booted, tries, torn>>

\* Programming an area that already holds the same bytes succeeds, other bytes
\* make the port return an error and leave the area alone.
StoreWrite(t) ==
    /\ pc[t] = "write" /\ MayRun(t)
    /\ \/ ~record.valid /\ record' = buf[t] /\ Goto(t, ret[t])
       \/ record.valid /\ record' = record
          /\ Goto(t, IF record = buf[t] THEN ret[t] ELSE OnFail(ret[t]))
    /\ NoEvent
    /\ UNCHANGED <<flash, buf, ret, dl, s_ota_session, booted, tries, torn>>

\* A flash error in record_store(): the erase fails with the sector kept or
\* damaged, the program fails, or only the flush of the last double word fails,
\* whose result record_store() ignores.
StoreFault(t) ==
    /\ pc[t] \in {"erase", "write"} /\ MayRun(t)
    /\ Event
    /\ \/ pc[t] = "erase" /\ record' \in {record, NoRecord} /\ Goto(t, OnFail(ret[t]))
       \/ pc[t] = "write" /\ ~record.valid /\ record' = record /\ Goto(t, OnFail(ret[t]))
       \/ pc[t] = "write" /\ ~record.valid /\ record' = record /\ Goto(t, ret[t])
    /\ torn' = torn \cup (IF record'.valid THEN {} ELSE {"record"})
                    \cup (IF ret[t] = "started" THEN {"slot"} ELSE {})
    /\ UNCHANGED <<flash, buf, ret, dl, s_ota_session, booted, tries>>

-----------------------------------------------------------------------------
(* Bootloader: main() and ota_module_boot_preprocess().                    *)

NoSession == [started |-> FALSE, target |-> 0, total |-> 0, done |-> 0]

\* ota_module_init() of the bootloader ("main") and of the application ("host").
ota_module_init(t) ==
    LET next == IF t = "main" THEN "decide" ELSE "serve"
    IN  /\ pc[t] = "init"
        /\ dl' = NoSession
        /\ IF record.valid
           THEN Goto(t, next) /\ UNCHANGED <<buf, ret>>
           ELSE Store(t, DefaultRecord, next)
        /\ NoEvent
        /\ UNCHANGED <<record, flash, s_ota_session, booted, tries, torn>>

\* Mutant: the Ymodem flag is not cleared when it is honoured.
Mut_flag_not_cleared ==
    /\ pc["main"] = "decide"
    /\ \/ Load.ymodem = 1 /\ Goto("main", "ymodem") /\ NoEvent
       \/ Load.ymodem = 0 /\ Goto("main", "preproc") /\ NoEvent
    /\ UNCHANGED <<record, flash, buf, ret, dl, s_ota_session, booted, tries, torn>>

\* main(): a set flag is cleared and leads to the Ymodem loop; otherwise the
\* probe window decides between the Ymodem loop and boot_preprocess.
BootDecide ==
    /\ pc["main"] = "decide"
    /\ \/ /\ Load.ymodem = 1
          /\ Store("main", [Load EXCEPT !.ymodem = 0], "ymodem")
          /\ NoEvent
       \/ /\ Load.ymodem = 0
          /\ \/ Goto("main", "preproc") /\ NoEvent
             \/ Goto("main", "ymodem") /\ Event      \* a host answered the probe
          /\ UNCHANGED <<buf, ret>>
    /\ UNCHANGED <<record, flash, dl, s_ota_session, booted, tries, torn>>

\* jump_func(): control passes to the slot and every RAM variable is gone.  An
\* incomplete image never gets as far as its own tasks.
Jump(r, s) ==
    /\ booted' = s
    /\ pc' = IF Complete(s) THEN [main |-> "verify", host |-> "init"]
                            ELSE [main |-> "dead", host |-> "off"]
    /\ tries' = IF r.status[s] = "UNVERIFIED"
                THEN [tries EXCEPT ![s] = @ + 1] ELSE tries
    /\ dl' = NoSession
    /\ s_ota_session' = FALSE

\* The ACTIVE/BACKUP selection at the end of boot_preprocess; with no candidate
\* the bootloader falls into the Ymodem loop.
BootSelect(r) ==
    LET s == choose_boot_candidate_ota_slot(r)
    IN  IF s # NoSlot
        THEN Jump(r, s)
        ELSE Goto("main", "ymodem") /\ UNCHANGED <<dl, s_ota_session, booted, tries>>

\* Mutant: the jump to an UNVERIFIED slot does not consume its retry budget.
Mut_count_not_stored ==
    /\ pc["main"] = "preproc"
    /\ BootSelect(Load)
    /\ NoEvent
    /\ UNCHANGED <<record, flash, buf, ret, torn>>

boot_preprocess ==
    LET r == Load
        uv == InState(r, "UNVERIFIED")
        u == First(uv)
    IN  /\ pc["main"] = "preproc"
        /\ \/ /\ uv = {}
              /\ BootSelect(r)
              /\ UNCHANGED <<buf, ret>>
           \/ /\ uv # {}
              /\ IF r.count[u] + 1 >= MaxVerify
                 THEN Store("main", With(r, u, "INVALID"), "select")
                 ELSE Store("main", [r EXCEPT !.count[u] = @ + 1], "jump")
              /\ UNCHANGED <<dl, s_ota_session, booted, tries>>
        /\ NoEvent
        /\ UNCHANGED <<record, flash, torn>>

\* boot_preprocess after its record_store(): jump to the counted UNVERIFIED
\* slot, or select among the remaining ones.
BootStored ==
    LET r == buf["main"]
    IN  /\ \/ pc["main"] = "jump" /\ Jump(r, First(InState(r, "UNVERIFIED")))
           \/ pc["main"] = "select" /\ BootSelect(r)
        /\ NoEvent
        /\ UNCHANGED <<record, flash, buf, ret, torn>>

-----------------------------------------------------------------------------
(* Bootloader: the download API as the Ymodem receiver calls it.           *)

\* Mutant: the package size is not compared with the slot.
Mut_no_size_check(n) ==
    LET t == choose_target_ota_slot(Load)
    IN  /\ pc["main"] = "ymodem" /\ ~s_ota_session
        /\ ~dl.started
        /\ t # NoSlot
        /\ Event
        /\ flash' = [flash EXCEPT ![t] = [want |-> n, got |-> 0, intact |-> TRUE]]
        /\ dl' = [started |-> FALSE, target |-> t, total |-> n, done |-> 0]
        /\ Store("main", With(Load, t, "DOWNLOADING"), "started")
        /\ tries' = [tries EXCEPT ![t] = 0]
        /\ UNCHANGED <<record, s_ota_session, booted, torn>>

\* ota_module_ota_download_start() up to its record_store(): the slot is erased
\* first, the record says so afterwards.  dl keeps the locals of the call.
ota_download_start(n) ==
    LET t == choose_target_ota_slot(Load)
    IN  /\ pc["main"] = "ymodem" /\ ~s_ota_session
        /\ ~dl.started
        /\ t # NoSlot /\ n <= SlotBlocks
        /\ Event
        /\ flash' = [flash EXCEPT ![t] = [want |-> n, got |-> 0, intact |-> TRUE]]
        /\ dl' = [started |-> FALSE, target |-> t, total |-> n, done |-> 0]
        /\ Store("main", With(Load, t, "DOWNLOADING"), "started")
        /\ tries' = [tries EXCEPT ![t] = 0]
        /\ UNCHANGED <<record, s_ota_session, booted, torn>>

\* The erase of the slot fails half-way: the call returns an error, and the
\* record still says what it said.
SlotEraseFault(n) ==
    LET t == choose_target_ota_slot(Load)
    IN  /\ pc["main"] = "ymodem" /\ ~s_ota_session
        /\ ~dl.started
        /\ t # NoSlot /\ n <= SlotBlocks
        /\ Event
        /\ flash' = [flash EXCEPT ![t] = [want |-> n, got |-> 0, intact |-> FALSE]]
        /\ torn' = torn \cup {"slot"}
        /\ UNCHANGED <<record, pc, buf, ret, dl, s_ota_session, booted, tries>>

\* download_start after its record_store(): the session opens, or the slot is
\* marked INVALID on a best-effort basis.
DownloadStarted ==
    /\ \/ /\ pc["main"] = "started"
          /\ dl' = [dl EXCEPT !.started = TRUE]
          /\ s_ota_session' = TRUE
          /\ Goto("main", "ymodem")
          /\ UNCHANGED <<buf, ret>>
       \/ /\ pc["main"] = "unmark"
          /\ Store("main", With(buf["main"], dl.target, "INVALID"), "ymodem")
          /\ UNCHANGED <<dl, s_ota_session>>
    /\ NoEvent
    /\ UNCHANGED <<record, flash, booted, tries, torn>>

\* ota_module_ota_download(): one block at the session's offset.  The block may
\* not be the one the package's CRC was computed over.
ota_download(good) ==
    /\ pc["main"] = "ymodem" /\ s_ota_session /\ dl.started
    /\ record.valid /\ record.status[dl.target] = "DOWNLOADING"
    /\ dl.done < dl.total
    /\ flash' = [flash EXCEPT ![dl.target].got = @ + 1,
                              ![dl.target].intact = @ /\ good]
    /\ dl' = [dl EXCEPT !.done = @ + 1]
    /\ NoEvent
    /\ UNCHANGED <<record, pc, buf, ret, s_ota_session, booted, tries, torn>>

\* A call of ota_download() that returns an error (record gone or no longer
\* DOWNLOADING, or the flash write failed): the receiver cancels and aborts.
DownloadFails ==
    /\ pc["main"] = "ymodem" /\ s_ota_session
    /\ \/ /\ ~(dl.started /\ record.valid /\ record.status[dl.target] = "DOWNLOADING")
          /\ NoEvent
          /\ UNCHANGED flash
       \/ /\ Event
          /\ dl.started /\ record.valid /\ record.status[dl.target] = "DOWNLOADING"
          /\ dl.done < dl.total
          /\ flash' = [flash EXCEPT ![dl.target].intact = FALSE]
    /\ Goto("main", "abort")
    /\ UNCHANGED <<record, buf, ret, dl, s_ota_session, booted, tries, torn>>

\* Mutant: the image is accepted by its size alone, the CRC is not read back.
Mut_no_crc_check ==
    /\ pc["main"] = "ymodem" /\ s_ota_session /\ dl.started
    /\ record.valid /\ record.status[dl.target] = "DOWNLOADING" /\ dl.done = dl.total
    /\ Store("main", With(record, dl.target, "UNVERIFIED"), "finished")
    /\ NoEvent
    /\ UNCHANGED <<record, flash, dl, s_ota_session, booted, tries, torn>>

\* handle_eot() up to the record_store() of ota_module_ota_download_finish():
\* all blocks must be there, and the CRC read back decides what the slot becomes.
ota_download_finish ==
    /\ pc["main"] = "ymodem" /\ s_ota_session
    /\ IF /\ dl.started
          /\ record.valid /\ record.status[dl.target] = "DOWNLOADING"
          /\ dl.done = dl.total
       THEN IF Complete(dl.target)
            THEN Store("main", With(record, dl.target, "UNVERIFIED"), "finished")
            ELSE Store("main", With(record, dl.target, "INVALID"), "rejected")
       ELSE Goto("main", "abort") /\ UNCHANGED <<buf, ret>>
    /\ NoEvent
    /\ UNCHANGED <<record, flash, dl, s_ota_session, booted, tries, torn>>

\* handle_eot() after finish: on success the Ymodem flag is cleared and the new
\* image is started, on a CRC mismatch the abort is called as well.
EotContinue ==
    /\ \/ /\ pc["main"] = "rejected"
          /\ Goto("main", "abort")
          /\ UNCHANGED <<buf, ret, s_ota_session>>
       \/ /\ pc["main"] = "finished"
          /\ Store("main", [Load EXCEPT !.ymodem = 0], "preproc")
          /\ s_ota_session' = FALSE
    /\ dl' = NoSession
    /\ NoEvent
    /\ UNCHANGED <<record, flash, booted, tries, torn>>

\* ota_module_ota_download_abort(): the session's slot, or any DOWNLOADING one.
ota_download_abort ==
    LET r == Load
        downloading == InState(r, "DOWNLOADING")
    IN  /\ pc["main"] = "abort"
        /\ s_ota_session' = FALSE
        /\ IF dl.started \/ downloading # {}
           THEN Store("main",
                      With(r, IF dl.started THEN dl.target ELSE First(downloading), "INVALID"),
                      "aborted")
           ELSE Goto("main", "ymodem") /\ UNCHANGED <<buf, ret>>
        /\ NoEvent
        /\ UNCHANGED <<record, flash, dl, booted, tries, torn>>

DownloadAborted ==
    /\ pc["main"] = "aborted"
    /\ dl' = NoSession
    /\ Goto("main", "ymodem")
    /\ NoEvent
    /\ UNCHANGED <<record, flash, buf, ret, s_ota_session, booted, tries, torn>>

\* full_reset() of the receiver: the host cancels, or its blocks keep failing.
HostCancels ==
    /\ pc["main"] = "ymodem" /\ s_ota_session
    /\ Event
    /\ Goto("main", "abort")
    /\ UNCHANGED <<record, flash, buf, ret, dl, s_ota_session, booted, tries, torn>>

-----------------------------------------------------------------------------
(* Application tasks.                                                      *)

\* app_task, five seconds after the start: ota_module_app_mark_verified().
app_mark_verified ==
    LET uv == InState(record, "UNVERIFIED")
        u == First(uv)
        promoted ==
            [record EXCEPT
               !.status = [s \in Slots |->
                    IF s = u THEN "ACTIVE"
                    ELSE IF @[s] \in {"ACTIVE", "UNVERIFIED"} THEN "BACKUP" ELSE @[s]],
               !.count = [s \in Slots |->
                    IF s = u \/ record.status[s] \in {"ACTIVE", "UNVERIFIED"}
                    THEN 0 ELSE @[s]]]
    IN  /\ pc["main"] = "verify"
        /\ pc["host"] \in {"serve", "reboot"}
        /\ IF record.valid /\ uv # {}
           THEN Store("main", promoted, "idle")
           ELSE Goto("main", "idle") /\ UNCHANGED <<buf, ret>>
        /\ NoEvent
        /\ UNCHANGED <<record, flash, dl, s_ota_session, booted, tries, torn>>

\* HOST_LINK_CMD_OTA_ENTER_BOOT: set the Ymodem flag, then reboot whatever the
\* result.  A record caught between erase and write is replaced by the default.
ota_host_cmd_enter_boot ==
    /\ pc["host"] = "serve"
    /\ Event
    /\ Store("host", [Load EXCEPT !.ymodem = 1], "reboot")
    /\ torn' = IF record.valid THEN torn ELSE torn \cup {"record"}
    /\ UNCHANGED <<record, flash, dl, s_ota_session, booted, tries>>

\* HOST_LINK_CMD_REBOOT.
ota_host_cmd_reboot ==
    /\ pc["host"] = "serve"
    /\ Event
    /\ Goto("host", "reboot")
    /\ UNCHANGED <<record, flash, buf, ret, dl, s_ota_session, booted, tries, torn>>

-----------------------------------------------------------------------------
(* Resets.                                                                 *)

\* Only flash survives.  A reset between the erase and the write of the record
\* loses the record; one between the erase of a slot and the record_store() that
\* would mark it leaves the old status on an empty slot.
Reset ==
    /\ pc' = [main |-> "init", host |-> "off"]
    /\ buf' = [t \in Tasks |-> DefaultRecord]
    /\ ret' = [t \in Tasks |-> "init"]
    /\ dl' = NoSession
    /\ s_ota_session' = FALSE
    /\ booted' = NoSlot
    /\ torn' = torn \cup (IF \E t \in Tasks : pc[t] = "write" THEN {"record"} ELSE {})
                    \cup (IF pc["main"] = "erase" /\ ret["main"] = "started"
                          THEN {"slot"} ELSE {})
    /\ UNCHANGED <<record, flash, tries>>

\* The power fails, or an application that started well crashes.
PowerLoss == Event /\ Reset

\* Resets of the program's own: the watchdog after Error_Handler or a dead image,
\* the reboot task (of a lower priority than app_task) after a host command.
OwnReset ==
    /\ \/ pc["main"] \in {"dead", "halt"}
       \/ pc["host"] = "reboot" /\ pc["main"] \in {"verify", "idle"}
    /\ NoEvent
    /\ Reset

\* No UART payload for T_SESSION_MS: reset when there is an ACTIVE slot, else
\* full_reset(), which aborts the session.
IdleTimeout ==
    /\ pc["main"] = "ymodem"
    /\ NoEvent
    /\ \/ has_active_app_region /\ Reset
       \/ /\ ~has_active_app_region /\ s_ota_session
          /\ Goto("main", "abort")
          /\ UNCHANGED <<record, flash, buf, ret, dl, s_ota_session, booted, tries, torn>>

-----------------------------------------------------------------------------
\* A device as programmed at the factory: an image in the first slot, the record
\* area erased.
Init ==
    /\ record = NoRecord
    /\ flash = [s \in Slots |-> [want |-> 1, got |-> IF s = 0 THEN 1 ELSE 0, intact |-> TRUE]]
    /\ pc = [main |-> "init", host |-> "off"]
    /\ buf = [t \in Tasks |-> DefaultRecord]
    /\ ret = [t \in Tasks |-> "init"]
    /\ dl = NoSession
    /\ s_ota_session = FALSE
    /\ booted = NoSlot
    /\ tries = [s \in Slots |-> 0]
    /\ torn = {}
    /\ events = 0

StoreStep(t) == StoreErase(t) \/ StoreWrite(t)

\* What the firmware does by itself.
ProgramStep ==
    \/ \E t \in Tasks : StoreStep(t) \/ ota_module_init(t)
    \/ BootDecide \/ boot_preprocess \/ BootStored
    \/ DownloadStarted \/ EotContinue \/ ota_download_abort \/ DownloadAborted
    \/ app_mark_verified
    \/ OwnReset \/ IdleTimeout

\* What the host and the environment do to it.
HostStep ==
    \/ \E n \in Sizes : ota_download_start(n) \/ SlotEraseFault(n)
    \/ \E good \in BOOLEAN : ota_download(good)
    \/ DownloadFails \/ ota_download_finish \/ HostCancels
    \/ ota_host_cmd_enter_boot \/ ota_host_cmd_reboot

Next ==
    \/ ProgramStep
    \/ HostStep
    \/ \E t \in Tasks : StoreFault(t)
    \/ PowerLoss

Spec == Init /\ [][Next]_vars

\* The processor keeps executing, the watchdog fires and timeouts elapse.
FairSpec == Spec /\ WF_vars(ProgramStep)

-----------------------------------------------------------------------------
(* Properties.                                                             *)

Labels == {"init", "decide", "preproc", "jump", "select", "ymodem", "started", "unmark",
           "rejected", "finished", "abort", "aborted", "erase", "write", "halt", "dead",
           "verify", "idle", "off", "serve", "reboot"}

\* Every variable stays in its type; no image is larger than its slot.
TypeOK ==
    /\ record \in Record
    /\ flash \in [Slots -> [want : 1 .. SlotBlocks, got : Nat, intact : BOOLEAN]]
    /\ pc \in [Tasks -> Labels] /\ ret \in [Tasks -> Labels]
    /\ buf \in [Tasks -> Record]
    /\ dl \in [started : BOOLEAN, target : Slots, total : Nat, done : Nat]
    /\ s_ota_session \in BOOLEAN
    /\ booted \in Slots \cup {NoSlot}
    /\ tries \in [Slots -> Nat]
    /\ torn \subseteq {"record", "slot"}
    /\ events \in 0 .. MaxEvents

\* The windows that decide which image may be trusted were never cut.  With two
\* slots a cut slot erase does not matter: the target is never the slot in use.
Trusted == "record" \notin torn /\ (NumSlots = 1 => "slot" \notin torn)

\* boot_preprocess never jumps into an image that was not received completely
\* with a matching CRC, whatever resets and flash errors happen, as long as no
\* record_store() was cut (and, with one slot, no download_start() between the
\* erase and the DOWNLOADING mark).
NeverBootsIncomplete == Trusted /\ booted # NoSlot => Complete(booted)

\* verify_count is persisted before the jump, so an image that never reports
\* itself verified is started fewer than OTA_APP_MAX_VERIFY_COUNT times (with two
\* slots: as long as no record_store() was cut).
VerifyBudget ==
    NumSlots = 1 \/ "record" \notin torn => \A s \in Slots : tries[s] < MaxVerify

\* With two slots a failed update never costs the device its working image: some
\* slot stays ACTIVE and complete.
KeepsActiveImage ==
    (NumSlots = 2 /\ Trusted /\ record.valid) =>
        \E s \in Slots : record.status[s] = "ACTIVE" /\ Complete(s)

\* Once host and environment leave the device alone it neither boot-loops nor
\* waits for a host while it has an ACTIVE image: it ends up in the application,
\* or in the Ymodem loop without an ACTIVE slot.
Settles ==
    \/ <>[](torn # {})
    \/ <>[](pc["main"] \in {"verify", "idle"})
    \/ <>[](pc["main"] = "ymodem" /\ ~has_active_app_region)

\* A power loss in download_start never makes the bootloader start the erased
\* slot: what the comment on the DOWNLOADING mark promises.
BootSkipsErasedSlot == "record" \notin torn /\ booted # NoSlot => Complete(booted)

\* After ENTER_BOOT has set the flag, the device reboots with the flag set.
EnterBootKept ==
    pc["host"] = "reboot" /\ ret["host"] = "reboot" /\ torn = {} => record.ymodem = 1

\* After an abort the next download can be started.
NextDownloadAccepted == pc["main"] = "ymodem" /\ ~s_ota_session => ~dl.started

=============================================================================
