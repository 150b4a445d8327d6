----------------------------- MODULE OsUpgrade -----------------------------
(***************************************************************************)
(* The A/B upgrade of the operating system: the job store, the handlers of *)
(* platform-api (serialised by their mutex), the updater, reboot and       *)
(* verify units, the boot selector, the two copies, and the restore that   *)
(* runs at boot.  One action per persistent effect, so that a power loss   *)
(* or the death of a process may fall between any two of them.  Each       *)
(* process keeps the copy of the job it loaded, and every Save writes that *)
(* whole copy back.                                                        *)
(*                                                                         *)
(* Job j carries the image of version j; 0 is the factory image.  A Save   *)
(* that fails ends the process where it stands: that is a "kill".          *)
(***************************************************************************)
EXTENDS Integers

CONSTANTS MaxJobs,      \* uploads in one behaviour
          MaxFaults,    \* faults in one behaviour
          Faults        \* the kinds of fault that may happen

ASSUME MaxJobsAssumption == MaxJobs \in Nat \ {0}
ASSUME FaultsAssumption == /\ MaxFaults \in Nat
                           /\ Faults \subseteq {"power", "kill", "script"}

VARIABLES jobs,     \* the job files: state, previous and target copy
          active,   \* the active-job pointer, 0 when there is none
          sel,      \* the copy the boot loader starts next
          running,  \* the copy the machine runs
          up,       \* FALSE between a reset and the end of the boot
          img,      \* the image each copy holds
          backup,   \* the job whose backup `current' points to
          done,     \* the restore markers in the root of each copy
          api, upd, rbt, ver,  \* platform-api, updater, reboot, verifier
          host,     \* the process that runs the verifier
          pend,     \* the processes that have yet to call Verify
          faults    \* how many power losses and how many other faults so far

vars == <<jobs, active, sel, running, up, img, backup, done,
          api, upd, rbt, ver, host, pend, faults>>

store == <<jobs, active>>
disk == <<sel, img, backup, done>>
procs == <<api, upd, rbt, ver, host, pend>>
machine == <<running, up>>

Job == 1..MaxJobs
Copy == {"A", "B"}
Unset == "-"
Partial == MaxJobs + 1
Image == 0..Partial
Host == {"unit", "api"}

State == {"none", "uploading", "validating", "ready", "installing", "installed",
          "awaiting_reboot", "rebooting", "verifying", "success", "rollback",
          "failed", "cancelled"}

JobFile == [st : State, prev : Copy \cup {Unset}, target : Copy \cup {Unset}]

Terminal(st) == st \in {"success", "failed", "cancelled"}

\* Mutant: copy B has no counterpart.
Mut_opposite_of_b(c) == IF c = "A" THEN "B" ELSE Unset

oppositeCopy(c) == IF c = "A" THEN "B" ELSE "A"

ApiPc == {"idle", "upload_activate", "upload_body", "validate", "install_save",
          "install_start", "cancel_select", "cancel_deactivate", "cancel_save",
          "cancel_unlink"}
UpdPc == {"idle", "requested", "check", "backup", "mark", "write", "writing",
          "installed", "select", "await", "unselect", "fail", "failed"}
RbtPc == {"idle", "requested", "save", "reboot"}
VerPc == {"idle", "await", "mark", "check", "succeed", "success", "fail",
          "failed", "rollback", "unselect", "reboot"}

Process(pcs) == [pc : pcs, id : 0..MaxJobs, st : State,
                 prev : Copy \cup {Unset}, target : Copy \cup {Unset}]

Idle == [pc |-> "idle", id |-> 0, st |-> "none", prev |-> Unset, target |-> Unset]

Load(j, pc) == [pc |-> pc, id |-> j, st |-> jobs[j].st,
                prev |-> jobs[j].prev, target |-> jobs[j].target]

At(p, pc) == [p EXCEPT !.pc = pc]

Save(p, st) == jobs' = [jobs EXCEPT ![p.id] =
                          [st |-> st, prev |-> p.prev, target |-> p.target]]

\* The updater and the verifier share install.lock.
Locked == upd.pc \notin {"idle", "requested"} \/ ver.pc # "idle"

deactivateBackup(j) == backup' = IF backup = j THEN 0 ELSE backup

\* set_sw_image either selects the copy or fails and leaves the selection.
setCopy(c) == sel' = c /\ UNCHANGED faults

Fault(kind) == /\ kind \in Faults
               /\ faults.power + faults.other < MaxFaults
               /\ faults' = IF kind = "power" THEN [faults EXCEPT !.power = @ + 1]
                                              ELSE [faults EXCEPT !.other = @ + 1]

setCopyFails == Fault("script") /\ UNCHANGED sel

Init == /\ jobs = [j \in Job |-> [st |-> "none", prev |-> Unset, target |-> Unset]]
        /\ active = 0
        /\ sel = "A" /\ running = "A" /\ up = TRUE
        /\ img = [c \in Copy |-> 0]
        /\ backup = 0
        /\ done = [c \in Copy |-> {}]
        /\ api = Idle /\ upd = Idle /\ rbt = Idle /\ ver = Idle
        /\ host = "unit" /\ pend = {}
        /\ faults = [power |-> 0, other |-> 0]

-----------------------------------------------------------------------------
(* platform-api.  The handlers hold the mutex from start to end: one runs  *)
(* at a time.                                                              *)

ApiRuns(pc) == up /\ api.pc = pc
ApiGoto(pc) == api' = At(api, pc)
ApiReturns == api' = Idle
OtherThanApi == UNCHANGED <<machine, upd, rbt, ver, host, pend>>

Upload == /\ ApiRuns("idle")
          /\ active # 0 => Terminal(jobs[active].st)
          /\ \E j \in Job :
               /\ jobs[j].st = "none" /\ \A i \in 1..(j - 1) : jobs[i].st # "none"
               /\ jobs' = [jobs EXCEPT ![j].st = "uploading"]
               /\ api' = [Idle EXCEPT !.pc = "upload_activate", !.id = j]
          /\ OtherThanApi /\ UNCHANGED <<active, disk, faults>>

UploadActivate == /\ ApiRuns("upload_activate")
                  /\ active' = api.id
                  /\ ApiGoto("upload_body")
                  /\ OtherThanApi /\ UNCHANGED <<jobs, disk, faults>>

\* The body arrives and is renamed into place, or failJob.
UploadBody == /\ ApiRuns("upload_body")
              /\ Save(api, "validating") \/ Save(api, "failed")
              /\ ApiReturns
              /\ OtherThanApi /\ UNCHANGED <<active, disk, faults>>

Validate(j) == /\ ApiRuns("idle")
               /\ jobs[j].st \in {"validating", "ready"}
               /\ jobs' = [jobs EXCEPT ![j].st = "validating"]
               /\ api' = Load(j, "validate")
               /\ OtherThanApi /\ UNCHANGED <<active, disk, faults>>

Validated == /\ ApiRuns("validate")
             /\ \/ Save([api EXCEPT !.prev = running, !.target = oppositeCopy(running)],
                        "ready")
                \/ Save(api, "failed")
             /\ ApiReturns
             /\ OtherThanApi /\ UNCHANGED <<active, disk, faults>>

Install(j) == /\ ApiRuns("idle")
              /\ jobs[j].st = "ready"
              /\ active' = j
              /\ api' = Load(j, "install_save")
              /\ OtherThanApi /\ UNCHANGED <<jobs, disk, faults>>

InstallSave == /\ ApiRuns("install_save")
               /\ Save(api, "installing")
               /\ ApiGoto("install_start")
               /\ OtherThanApi /\ UNCHANGED <<active, disk, faults>>

\* systemctl start --no-block: a unit that already runs is not run again.
Started(p) == IF p.pc = "idle" THEN [Idle EXCEPT !.pc = "requested"] ELSE p

InstallStart == /\ ApiRuns("install_start")
                /\ \/ /\ upd' = Started(upd)
                      /\ UNCHANGED <<jobs, faults>>
                   \/ /\ Fault("script")
                      /\ Save(api, "ready")
                      /\ UNCHANGED upd
                /\ ApiReturns
                /\ UNCHANGED <<active, disk, machine, rbt, ver, host, pend>>

Reboot(j) == /\ ApiRuns("idle")
             /\ jobs[j].st = "awaiting_reboot"
             /\ rbt' = Started(rbt)
             /\ UNCHANGED <<store, disk, machine, api, upd, ver, host, pend, faults>>

Cancel(j) == /\ ApiRuns("idle")
             /\ \/ /\ jobs[j].st \in {"uploading", "validating", "ready", "failed"}
                   /\ api' = Load(j, "cancel_save")
                \/ /\ jobs[j].st = "awaiting_reboot"
                   /\ api' = Load(j, "cancel_select")
             /\ OtherThanApi /\ UNCHANGED <<store, disk, faults>>

\* CancelStaged: the selection first, then the backup.
CancelSelect == /\ ApiRuns("cancel_select")
                /\ \/ setCopy(api.prev) /\ ApiGoto("cancel_deactivate")
                   \/ setCopyFails /\ ApiReturns
                /\ OtherThanApi /\ UNCHANGED <<store, img, backup, done>>

CancelDeactivate == /\ ApiRuns("cancel_deactivate")
                    /\ deactivateBackup(api.id)
                    /\ ApiGoto("cancel_save")
                    /\ OtherThanApi /\ UNCHANGED <<store, sel, img, done, faults>>

CancelSave == /\ ApiRuns("cancel_save")
              /\ Save(api, "cancelled")
              /\ ApiGoto("cancel_unlink")
              /\ OtherThanApi /\ UNCHANGED <<active, disk, faults>>

CancelUnlink == /\ ApiRuns("cancel_unlink")
                /\ active' = IF active = api.id THEN 0 ELSE active
                /\ ApiReturns
                /\ OtherThanApi /\ UNCHANGED <<jobs, disk, faults>>

DeletePackage(j) == /\ ApiRuns("idle")
                    /\ Terminal(jobs[j].st)
                    /\ active' = IF active = j THEN 0 ELSE active
                    /\ OtherThanApi /\ UNCHANGED <<jobs, disk, api, faults>>

ApiRequest == Upload \/ \E j \in Job : \/ Validate(j) \/ Install(j) \/ Reboot(j)
                                       \/ Cancel(j) \/ DeletePackage(j)

ApiStep == \/ UploadActivate \/ UploadBody \/ Validated \/ InstallSave \/ InstallStart
           \/ CancelSelect \/ CancelDeactivate \/ CancelSave \/ CancelUnlink

-----------------------------------------------------------------------------
(* aipc-os-updater install.                                                *)

UpdRuns(pc) == up /\ upd.pc = pc
UpdGoto(pc) == upd' = At(upd, pc)
UpdExits == upd' = Idle
OtherThanUpd == UNCHANGED <<machine, api, rbt, ver, host, pend>>

\* lockOperation fails at once when the verifier holds the lock.  The job stays
\* as the handler saved it.
UpdaterStart == /\ UpdRuns("requested")
                /\ upd' = IF ver.pc # "idle" \/ active = 0 THEN Idle
                          ELSE LET st == jobs[active].st IN
                               CASE st = "installed" -> Load(active, "select")
                                 [] st \in {"ready", "installing"} -> Load(active, "check")
                                 [] OTHER -> Idle
                /\ OtherThanUpd /\ UNCHANGED <<store, disk, faults>>

\* The contract, layout and checksum of the package.
UpdaterCheck == /\ UpdRuns("check")
                /\ \/ Save(upd, upd.st) /\ UpdGoto("backup")
                   \/ UpdGoto("fail") /\ UNCHANGED jobs
                /\ OtherThanUpd /\ UNCHANGED <<active, disk, faults>>

\* Mutant: a backup that fails does not stop the upgrade.
Mut_backup_optional == /\ UpdRuns("backup")
                       /\ backup' \in {backup, upd.id}
                       /\ UpdGoto("mark")
                       /\ OtherThanUpd /\ UNCHANGED <<store, sel, img, done, faults>>

createUpgradeBackup == /\ UpdRuns("backup")
                       /\ \/ backup' = upd.id /\ UpdGoto("mark")
                          \/ UpdGoto("fail") /\ UNCHANGED backup
                       /\ OtherThanUpd /\ UNCHANGED <<store, sel, img, done, faults>>

UpdaterMark == /\ UpdRuns("mark")
               /\ upd' = [upd EXCEPT !.pc = "write", !.prev = running,
                                     !.target = oppositeCopy(running)]
               /\ Save(upd', "installing")
               /\ OtherThanUpd /\ UNCHANGED <<active, disk, faults>>

\* The second layout check, then swupdate starts to write the other copy: its
\* root, restore markers included, is gone.
SwupdateStart == /\ UpdRuns("write")
                 /\ \/ /\ img' = [img EXCEPT ![upd.target] = Partial]
                       /\ done' = [done EXCEPT ![upd.target] = {}]
                       /\ UpdGoto("writing")
                    \/ UpdGoto("fail") /\ UNCHANGED <<img, done>>
                 /\ OtherThanUpd /\ UNCHANGED <<store, sel, backup, faults>>

\* Mutant: the exit status of swupdate is ignored.
Mut_swupdate_status == /\ UpdRuns("writing")
                       /\ img' \in {img, [img EXCEPT ![upd.target] = upd.id]}
                       /\ UpdGoto("installed")
                       /\ OtherThanUpd /\ UNCHANGED <<store, sel, backup, done, faults>>

SwupdateEnd == /\ UpdRuns("writing")
               /\ \/ /\ img' = [img EXCEPT ![upd.target] = upd.id]
                     /\ UpdGoto("installed")
                  \/ UpdGoto("unselect") /\ UNCHANGED img
               /\ OtherThanUpd /\ UNCHANGED <<store, sel, backup, done, faults>>

UpdaterInstalled == /\ UpdRuns("installed")
                    /\ Save(upd, "installed")
                    /\ UpdGoto("select")
                    /\ OtherThanUpd /\ UNCHANGED <<active, disk, faults>>

UpdaterSelect == /\ UpdRuns("select")
                 /\ \/ setCopy(upd.target) /\ UpdGoto("await")
                    \/ setCopyFails /\ UpdGoto("unselect")
                 /\ OtherThanUpd /\ UNCHANGED <<store, img, backup, done>>

UpdaterAwait == /\ UpdRuns("await")
                /\ Save(upd, "awaiting_reboot")
                /\ UpdExits
                /\ OtherThanUpd /\ UNCHANGED <<active, disk, faults>>

\* `_ = r.setCopy(current)': the outcome is ignored.
UpdaterUnselect == /\ UpdRuns("unselect")
                   /\ setCopy(upd.prev) \/ setCopyFails
                   /\ UpdGoto("fail")
                   /\ OtherThanUpd /\ UNCHANGED <<store, img, backup, done>>

UpdaterFail == /\ UpdRuns("fail")
               /\ deactivateBackup(upd.id)
               /\ UpdGoto("failed")
               /\ OtherThanUpd /\ UNCHANGED <<store, sel, img, done, faults>>

UpdaterFailed == /\ UpdRuns("failed")
                 /\ Save(upd, "failed")
                 /\ UpdExits
                 /\ OtherThanUpd /\ UNCHANGED <<active, disk, faults>>

UpdaterStep == \/ UpdaterStart \/ UpdaterCheck \/ createUpgradeBackup \/ UpdaterMark
               \/ SwupdateStart \/ SwupdateEnd \/ UpdaterInstalled \/ UpdaterSelect
               \/ UpdaterAwait \/ UpdaterUnselect \/ UpdaterFail \/ UpdaterFailed

-----------------------------------------------------------------------------
(* Resets and the boot.                                                    *)

Down == /\ up' = FALSE
        /\ api' = Idle /\ upd' = Idle /\ rbt' = Idle /\ ver' = Idle
        /\ pend' = {}
        /\ UNCHANGED <<running, host>>

\* The boot loader starts the selected copy; aipc-restore applies the backup
\* once per root and may fail; the verify unit and platform-api come up.
Boot == /\ ~up
        /\ img[sel] # Partial
        /\ up' = TRUE
        /\ running' = sel
        /\ done' \in {done} \cup
             {[done EXCEPT ![sel] = @ \cup {b}] : b \in {backup} \ {0}}
        /\ pend' = Host
        /\ UNCHANGED <<store, sel, img, backup, api, upd, rbt, ver, host, faults>>

\* aipc-os-reboot: no lock, ordered after the updater.
RebootStart == /\ up /\ rbt.pc = "requested" /\ upd.pc = "idle"
               /\ rbt' = IF active # 0 /\ jobs[active].st = "awaiting_reboot"
                         THEN Load(active, "save") ELSE Idle
               /\ UNCHANGED <<store, disk, machine, api, upd, ver, host, pend, faults>>

RebootSave == /\ up /\ rbt.pc = "save"
              /\ Save(rbt, "rebooting")
              /\ rbt' = At(rbt, "reboot")
              /\ UNCHANGED <<active, disk, machine, api, upd, ver, host, pend, faults>>

RebootNow == /\ up /\ rbt.pc = "reboot"
             /\ Down
             /\ UNCHANGED <<store, disk, faults>>

RebootStep == RebootStart \/ RebootSave \/ RebootNow

-----------------------------------------------------------------------------
(* Verify, called by the verify unit at boot and by platform-api whenever  *)
(* it starts.                                                              *)

VerRuns(pc) == up /\ ver.pc = pc
VerGoto(pc) == ver' = At(ver, pc)
VerReturns == ver' = Idle
OtherThanVer == UNCHANGED <<machine, api, upd, rbt, host, pend>>

NeedsVerification(st) ==
  st \in {"installed", "awaiting_reboot", "rebooting", "verifying", "rollback"}

\* Mutant: a rollback that has reached the previous copy is not closed.
Mut_rollback_not_closed(j) ==
  CASE jobs[j].st = "installed" /\ running = jobs[j].prev -> Load(j, "await")
    [] \/ jobs[j].st \in {"rebooting", "awaiting_reboot", "verifying"}
       \/ jobs[j].st = "installed" /\ running = jobs[j].target -> Load(j, "mark")
    [] OTHER -> Idle

VerifyEntry(j) ==
  CASE jobs[j].st = "rollback" /\ running = jobs[j].prev -> Load(j, "fail")
    [] jobs[j].st = "installed" /\ running = jobs[j].prev -> Load(j, "await")
    [] \/ jobs[j].st \in {"rebooting", "awaiting_reboot", "verifying"}
       \/ jobs[j].st = "installed" /\ running = jobs[j].target -> Load(j, "mark")
    [] OTHER -> Idle

VerifyStart == /\ up
               /\ \E h \in pend :
                    /\ pend' = pend \ {h}
                    /\ IF \/ Locked \/ active = 0
                          \/ h = "unit" /\ ~NeedsVerification(jobs[active].st)
                       THEN UNCHANGED <<ver, host>>
                       ELSE ver' = VerifyEntry(active) /\ host' = h
               /\ UNCHANGED <<store, disk, machine, api, upd, rbt, faults>>

VerifyAwait == /\ VerRuns("await")
               /\ Save(ver, "awaiting_reboot")
               /\ VerReturns
               /\ OtherThanVer /\ UNCHANGED <<active, disk, faults>>

VerifyMark == /\ VerRuns("mark")
              /\ Save(ver, "verifying")
              /\ VerGoto("check")
              /\ OtherThanVer /\ UNCHANGED <<active, disk, faults>>

\* Mutant: the restore marker is not looked at.
Mut_restore_not_checked == /\ VerRuns("check")
                           /\ \/ /\ running = ver.target
                                 /\ img[running] = ver.id
                                 /\ VerGoto("succeed")
                              \/ VerGoto("rollback")
                           /\ OtherThanVer /\ UNCHANGED <<store, disk, faults>>

\* Copy, version and restore marker; then the health of the services, which an
\* incompatible application skips.
VerifyCheck == /\ VerRuns("check")
               /\ \/ /\ running = ver.target
                     /\ img[running] = ver.id
                     /\ ver.id \in done[running]
                     /\ VerGoto("succeed")
                  \/ VerGoto("rollback")
               /\ OtherThanVer /\ UNCHANGED <<store, disk, faults>>

VerifyDeactivate == /\ up
                    /\ \/ ver.pc = "succeed" /\ VerGoto("success")
                       \/ ver.pc = "fail" /\ VerGoto("failed")
                    /\ deactivateBackup(ver.id)
                    /\ OtherThanVer /\ UNCHANGED <<store, sel, img, done, faults>>

VerifySave == /\ up /\ ver.pc \in {"success", "failed"}
              /\ Save(ver, ver.pc)
              /\ VerReturns
              /\ OtherThanVer /\ UNCHANGED <<active, disk, faults>>

rollback == /\ VerRuns("rollback")
            /\ Save(ver, "rollback")
            /\ VerGoto("unselect")
            /\ OtherThanVer /\ UNCHANGED <<active, disk, faults>>

RollbackSelect == /\ VerRuns("unselect")
                  /\ \/ setCopy(ver.prev) /\ VerGoto("reboot")
                     \/ setCopyFails /\ VerGoto("fail")
                  /\ OtherThanVer /\ UNCHANGED <<store, img, backup, done>>

RollbackReboot == /\ VerRuns("reboot")
                  /\ Down
                  /\ UNCHANGED <<store, disk, faults>>

VerifyStep == \/ VerifyStart \/ VerifyAwait \/ VerifyMark \/ VerifyCheck
              \/ VerifyDeactivate \/ VerifySave \/ rollback \/ RollbackSelect
              \/ RollbackReboot

-----------------------------------------------------------------------------
(* Faults.                                                                 *)

PowerLoss == /\ up /\ Fault("power")
             /\ Down
             /\ UNCHANGED <<store, disk>>

\* systemd restarts platform-api, which calls Verify again.
ApiRestart == /\ up /\ Fault("kill")
              /\ api' = Idle
              /\ pend' = pend \cup {"api"}
              /\ ver' = IF host = "api" THEN Idle ELSE ver
              /\ UNCHANGED <<store, disk, machine, upd, rbt, host>>

\* Killed for memory or by a failed Save; nothing starts the unit again.
UnitDies == /\ up /\ Fault("kill")
            /\ \/ upd.pc # "idle" /\ upd' = Idle /\ UNCHANGED ver
               \/ host = "unit" /\ ver.pc # "idle" /\ ver' = Idle /\ UNCHANGED upd
            /\ UNCHANGED <<store, disk, machine, api, rbt, host, pend>>

FaultStep == PowerLoss \/ ApiRestart \/ UnitDies

Next == \/ ApiRequest \/ ApiStep \/ UpdaterStep \/ RebootStep \/ VerifyStep
        \/ Boot \/ FaultStep

Spec == Init /\ [][Next]_vars

\* A process that has started takes its next step; a machine that is reset
\* boots.  No request of a user is assumed to come.
Fairness == /\ WF_vars(ApiStep) /\ WF_vars(UpdaterStep) /\ WF_vars(RebootStep)
            /\ WF_vars(VerifyStep) /\ WF_vars(Boot)

FairSpec == Spec /\ Fairness

-----------------------------------------------------------------------------
(* Properties.                                                             *)

ActiveIs(states) == active # 0 /\ jobs[active].st \in states

\* Every variable keeps its type.
TypeOK == /\ jobs \in [Job -> JobFile]
          /\ active \in 0..MaxJobs
          /\ sel \in Copy /\ running \in Copy /\ up \in BOOLEAN
          /\ img \in [Copy -> Image]
          /\ backup \in 0..MaxJobs
          /\ done \in [Copy -> SUBSET Job]
          /\ api \in Process(ApiPc) /\ upd \in Process(UpdPc)
          /\ rbt \in Process(RbtPc) /\ ver \in Process(VerPc)
          /\ host \in Host /\ pend \subseteq Host
          /\ faults \in [power : 0..MaxFaults, other : 0..MaxFaults]

InFlight == {"installed", "awaiting_reboot", "rebooting", "verifying", "rollback"}

\* From the moment a job claims to be installed until it ends, its target copy
\* holds its whole image and the copy to fall back to holds a whole other one.
BothCopiesIntact ==
  ActiveIs(InFlight) => /\ img[jobs[active].target] = active
                        /\ img[jobs[active].prev] \notin {Partial, active}

\* A job becomes a success only while the machine runs the whole image of that
\* job from its target copy, with the backup restored on it.
SuccessIsVerified ==
  [][\A j \in Job : jobs[j].st # "success" /\ jobs'[j].st = "success" =>
       running = jobs[j].target /\ img[running] = j /\ j \in done[running]]_vars

\* As long as only the power has failed: whenever the next boot switches to the
\* image of the active job, the backup of that job is there to be restored.
SwitchHasBackup ==
  faults.other = 0 /\ up /\ sel # running /\ active # 0 /\ img[sel] = active
     => backup = active

\* The boot selector never points at a copy that is half written: whenever the
\* power fails, the machine comes up again.
SelectsComplete == img[sel] # Partial

\* Once the user has asked for the reboot, the job reaches its end or is gone.
RebootSettles ==
  ActiveIs({"rebooting", "verifying", "rollback"}) ~>
    ~ActiveIs({"rebooting", "verifying", "rollback"})

\* "ReconcileOnBoot advances any active OS-upgrade job to a terminal state": no
\* job stays for ever in a state that neither a user nor a boot moves.
InstallSettles == ActiveIs({"installing"}) ~> ~ActiveIs({"installing"})

\* "A failure selects the previous copy and reboots": a rollback ends.
RollbackEnds == ActiveIs({"rollback"}) ~> ~ActiveIs({"rollback"})

\* Verification is for a job that has been rebooted: it starts on the copy that
\* the selector names.
VerifiesAfterReboot ==
  [][\A j \in Job : jobs[j].st = "awaiting_reboot" /\ jobs'[j].st = "verifying" =>
       running = sel]_vars

=============================================================================
