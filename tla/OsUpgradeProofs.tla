-------------------------- MODULE OsUpgradeProofs ---------------------------
(***************************************************************************)
(* For any number of jobs and of faults: the invariants of OsUpgrade.      *)
(*                                                                         *)
(* Four processes write whole copies of a job back to its file, and only   *)
(* two of them share a lock.  The inductive invariant says which states a  *)
(* job may be in while a process holds a copy of it (JobsInv, ApiInv,      *)
(* UpdInv, LateInv), what the two copies of the system hold meanwhile      *)
(* (FlightInv), and when the backup may be dropped (BackupsInv).           *)
(***************************************************************************)
EXTENDS OsUpgrade, TLAPS

\* The states of a job before its image is written, and the ones a stale copy
\* may bring back once the job is no longer the active one.
Early == {"none", "uploading", "validating", "ready", "installing"}
Late == {"rebooting", "verifying", "rollback", "success", "failed", "cancelled"}

\* No copy holds the image of job j; both copies are as job j wants them.
Fresh(j) == \A c \in Copy : img[c] # j
Placed(j, prev, target) == /\ target \in Copy /\ prev = oppositeCopy(target)
                           /\ img[target] = j
                           /\ img[prev] \notin {Partial, j}

\* The processes that hold a copy of a job that differs from no other copy.
Updating == upd.pc \notin {"idle", "requested"}
Rebooting == rbt.pc \in {"save", "reboot"}
Verifying == ver.pc # "idle"
Staged == api.pc \in {"cancel_select", "cancel_deactivate"}
SameCopies(p) == jobs[p.id].prev = p.prev /\ jobs[p.id].target = p.target

\* Only the active job is anywhere between validation and the reboot.
JobsInv ==
  \A j \in Job : /\ j # active => jobs[j].st \in {"none", "uploading"} \cup Late
                 /\ jobs[j].st \in Early \ {"installing"} => Fresh(j)

\* platform-api: what its handler found still holds when it goes on.
ApiInv ==
  /\ api.pc # "idle" => api.id # 0
  /\ api.pc \in {"upload_activate", "upload_body"} => jobs[api.id].st = "uploading"
  /\ api.pc = "upload_activate" /\ active # 0 => jobs[active].st \in Late
  /\ api.pc \in {"upload_body", "validate", "install_save", "install_start"} => api.id = active
  /\ api.pc = "validate" => jobs[api.id].st = "validating"
  /\ api.pc = "install_save" => jobs[api.id].st = "ready"
  /\ api.pc = "install_start" => jobs[api.id].st = "installing" /\ Fresh(api.id)
  /\ Staged => /\ api.id = active /\ Placed(api.id, api.prev, api.target)
               /\ jobs[api.id].st \in Late \cup {"awaiting_reboot"}
  /\ api.pc = "cancel_save" => jobs[api.id].st \notin {"none", "installing", "installed"}
  /\ api.pc = "cancel_unlink" => jobs[api.id].st \in Late
  /\ Staged \/ api.pc = "cancel_save" => SameCopies(api)

\* The updater works on the active job, and nobody else does.
UpdInv ==
  /\ upd.pc # "idle" => /\ active # 0 /\ jobs[active].st \in {"installing", "installed"}
                        /\ api.pc # "idle" => api.id # active
  /\ upd.pc = "requested" => jobs[active].st = "installing" /\ Fresh(active)
  /\ Updating => upd.id = active /\ upd.st = "installing" /\ SameCopies(upd) /\ ~Verifying
  /\ upd.pc \in {"check", "backup", "mark", "write", "writing"} => Fresh(upd.id)
  /\ upd.pc \in {"check", "backup", "mark", "write", "writing", "installed"} =>
       jobs[upd.id].st = "installing"
  /\ upd.pc \in {"select", "await"} => jobs[upd.id].st = "installed"
  /\ upd.pc \in {"write", "writing", "installed", "select", "await", "unselect"} =>
       /\ upd.prev = running /\ upd.target = oppositeCopy(running)
  /\ upd.pc \in {"installed", "select", "await"} => Placed(upd.id, upd.prev, upd.target)

\* The reboot unit and the verifier work on a job that was installed.
LateInv ==
  /\ Rebooting => /\ rbt.id # 0 /\ SameCopies(rbt)
                  /\ jobs[rbt.id].st \in Late \cup {"awaiting_reboot"}
                  /\ rbt.id = active => Placed(rbt.id, rbt.prev, rbt.target)
  /\ Verifying => /\ ver.id # 0 /\ ver.prev \in Copy /\ SameCopies(ver)
                  /\ jobs[ver.id].st \notin Early
                  /\ IF ver.id = active THEN Placed(ver.id, ver.prev, ver.target)
                     ELSE active = 0 \/ Fresh(active)
  /\ ver.pc = "await" => jobs[ver.id].st = "installed"
  /\ ver.pc \in {"succeed", "success"} =>
       running = ver.target /\ img[running] = ver.id /\ ver.id \in done[running]

\* Down, nobody runs; the copy that runs is whole.
MachineInv == /\ img[running] # Partial
              /\ ~up => api = Idle /\ upd = Idle /\ rbt = Idle /\ ver = Idle /\ pend = {}

\* From "installed" to the end, the copies are as the job's file says.
FlightInv == ActiveIs(InFlight) => Placed(active, jobs[active].prev, jobs[active].target)

\* With only power losses: the backup of the active job is dropped only when no
\* switch to its image is ahead.
Switching == sel # running /\ active # 0 /\ img[sel] = active
BackupsInv ==
  faults.other = 0 =>
    /\ upd.pc \in {"mark", "write", "writing", "installed", "select", "await", "unselect"} =>
         backup = upd.id
    /\ upd.pc \in {"fail", "failed"} => ~Switching
    /\ api.pc = "cancel_deactivate" => img[sel] # active
    /\ ver.pc \in {"fail", "failed"} => ~Switching
    /\ up /\ ActiveIs({"rollback"}) /\ running = jobs[active].prev =>
         sel = running \/ (ver.pc = "unselect" /\ ver.id = active)
    /\ up /\ Switching => backup = active

Rest == /\ MachineInv /\ JobsInv /\ ApiInv /\ UpdInv /\ LateInv
        /\ FlightInv /\ BackupsInv
IInv == TypeOK /\ Rest

USE MaxJobsAssumption, FaultsAssumption

-----------------------------------------------------------------------------
(* Types: what the helpers of the model return.                            *)

\* A process that has ended, moved on, or loaded a job is a process.
LEMMA IdleTyped ==
  /\ Idle \in Process(ApiPc) /\ Idle \in Process(UpdPc)
  /\ Idle \in Process(RbtPc) /\ Idle \in Process(VerPc)
BY DEF Idle, Process, ApiPc, UpdPc, RbtPc, VerPc, State, Unset

\* At only moves the program counter.
LEMMA AtTyped ==
  ASSUME NEW pcs, NEW p \in Process(pcs), NEW pc \in pcs
  PROVE  At(p, pc) \in Process(pcs)
BY Zenon DEF At, Process

\* Load copies the file of a job.
LEMMA LoadTyped ==
  ASSUME TypeOK, NEW j \in Job, NEW pcs, NEW pc \in pcs
  PROVE  Load(j, pc) \in Process(pcs)
BY DEF TypeOK, Load, Process, JobFile, Job

\* Upload's own copy of the job names nothing but the job.
LEMMA UploadTyped ==
  ASSUME NEW pcs, NEW p \in Process(pcs), NEW pc \in pcs, NEW j \in 0..MaxJobs
  PROVE  [p EXCEPT !.pc = pc, !.id = j] \in Process(pcs)
BY Zenon DEF Process

\* Install's own copy of the job names the copy that runs and the other one.
LEMMA MarkTyped ==
  ASSUME TypeOK, UpdaterMark
  PROVE  /\ upd' \in Process(UpdPc) /\ upd'.id = upd.id
         /\ upd'.prev = running /\ upd'.target = oppositeCopy(running)
<1>1. upd \in Process(UpdPc) /\ running \in Copy
  BY Zenon DEF TypeOK
<1>2. upd' = [upd EXCEPT !.pc = "write", !.prev = running, !.target = oppositeCopy(running)]
  BY Zenon DEF UpdaterMark
<1> QED
  BY <1>1, <1>2, Zenon DEF Process, UpdPc, oppositeCopy, Copy

\* Save replaces one job file by a job file.
LEMMA SaveTyped ==
  ASSUME TypeOK, NEW pcs, NEW p \in Process(pcs), p.id # 0, NEW st \in State, Save(p, st)
  PROVE  jobs' \in [Job -> JobFile]
BY Zenon DEF TypeOK, Save, Process, JobFile, Job

\* Started requests a unit or leaves it alone.
LEMMA StartedTyped ==
  ASSUME TypeOK
  PROVE  Started(upd) \in Process(UpdPc) /\ Started(rbt) \in Process(RbtPc)
BY DEF TypeOK, Started, Idle, Process, UpdPc, RbtPc, State, Unset

\* The count of faults keeps its type and its zero of other faults only grows.
LEMMA FaultTyped ==
  ASSUME TypeOK, NEW kind, Fault(kind)
  PROVE  /\ faults' \in [power : 0..MaxFaults, other : 0..MaxFaults]
         /\ faults'.other = 0 => faults.other = 0 /\ kind = "power"
BY DEF TypeOK, Fault

\* A process that is under way has loaded a job.
LEMMA Loaded ==
  ASSUME IInv
  PROVE  /\ api.pc # "idle" => api.id # 0 /\ api.id \in Job
         /\ Updating => upd.id # 0 /\ upd.id \in Job
         /\ Rebooting => rbt.id # 0 /\ rbt.id \in Job
         /\ Verifying => ver.id # 0 /\ ver.id \in Job
<1>1. api.pc # "idle" => api.id # 0 /\ api.id \in Job
  BY DEF IInv, Rest, TypeOK, ApiInv, Process, Job
<1>2. Updating => upd.id # 0 /\ upd.id \in Job
  BY DEF IInv, Rest, TypeOK, UpdInv, Process, Job, Updating
<1>3. Rebooting => rbt.id # 0 /\ rbt.id \in Job
  BY DEF IInv, Rest, TypeOK, LateInv, Process, Job
<1>4. Verifying => ver.id # 0 /\ ver.id \in Job
  BY DEF IInv, Rest, TypeOK, LateInv, Process, Job
<1> QED
  BY <1>1, <1>2, <1>3, <1>4, Zenon

\* Every step keeps the types.  The rest of the invariant is needed where a
\* process writes a job file or selects a copy: it has loaded a job then.
LEMMA Typed ==
  ASSUME IInv, Next
  PROVE  TypeOK'
<1> USE DEF TypeOK, store, disk, machine, Down, deactivateBackup, setCopy, setCopyFails,
            ApiRuns, ApiGoto, ApiReturns, OtherThanApi, UpdRuns, UpdGoto, UpdExits, OtherThanUpd,
            VerRuns, VerGoto, VerReturns, OtherThanVer
<1>1. TypeOK
  BY Zenon DEF IInv
<1>2. /\ Updating => upd.st = "installing"
      /\ Verifying => ver.prev \in Copy
  BY Zenon DEF IInv, Rest, UpdInv, LateInv
<1>3. /\ api.pc = "cancel_select" => api.prev \in Copy
      /\ upd.pc \in {"write", "writing", "select", "unselect"} =>
           upd.prev \in Copy /\ upd.target \in Copy
  BY <1>1, Zenon DEF IInv, Rest, ApiInv, UpdInv, Staged, Placed, oppositeCopy, Copy
<1> USE Loaded, <1>1, <1>2, <1>3 DEF Updating, Rebooting, Verifying
<1>4. CASE Upload
  <2>1. PICK j \in Job : /\ jobs' = [jobs EXCEPT ![j].st = "uploading"]
                         /\ api' = [Idle EXCEPT !.pc = "upload_activate", !.id = j]
    BY <1>4, Zenon DEF Upload
  <2>2. jobs' \in [Job -> JobFile]
    BY <2>1, SMTT(30) DEF JobFile, State
  <2>3. "upload_activate" \in ApiPc /\ j \in 0..MaxJobs
    BY DEF ApiPc, Job
  <2>4. api' \in Process(ApiPc)
    BY <2>1, <2>3, UploadTyped, IdleTyped, Zenon
  <2> QED
    BY <1>4, <2>2, <2>4, Zenon DEF Upload
<1>5. CASE UploadActivate
  BY <1>5, IdleTyped, AtTyped DEF UploadActivate, ApiPc, Job
<1>6. CASE UploadBody
  BY <1>6, IdleTyped, SaveTyped, Zenon DEF UploadBody, State
<1>7. ASSUME NEW j \in Job, Validate(j) PROVE TypeOK'
  BY <1>7, IdleTyped, LoadTyped, SMTT(30) DEF Validate, ApiPc, State, JobFile
<1>8. CASE Validated
  <2>1. jobs' \in [Job -> JobFile]
    BY <1>8 DEF Validated, Save, oppositeCopy, Process, JobFile, State, Copy
  <2> QED
    BY <1>8, <2>1, IdleTyped, Zenon DEF Validated
<1>9. ASSUME NEW j \in Job, Install(j) PROVE TypeOK'
  BY <1>9, IdleTyped, LoadTyped DEF Install, ApiPc, Job
<1>10. CASE InstallSave
  BY <1>10, IdleTyped, SaveTyped, AtTyped, Zenon DEF InstallSave, ApiPc, State
<1>11. CASE InstallStart
  BY <1>11, IdleTyped, SaveTyped, StartedTyped, FaultTyped, Zenon DEF InstallStart, State
<1>12. ASSUME NEW j \in Job, Reboot(j) PROVE TypeOK'
  BY <1>12, IdleTyped, StartedTyped, Zenon DEF Reboot
<1>13. ASSUME NEW j \in Job, Cancel(j) PROVE TypeOK'
  BY <1>13, IdleTyped, LoadTyped DEF Cancel, ApiPc
<1>14. CASE CancelSelect
  BY <1>14, IdleTyped, AtTyped, FaultTyped DEF CancelSelect, ApiPc
<1>15. CASE CancelDeactivate
  BY <1>15, IdleTyped, AtTyped DEF CancelDeactivate, ApiPc
<1>16. CASE CancelSave
  BY <1>16, IdleTyped, SaveTyped, AtTyped, Zenon DEF CancelSave, ApiPc, State
<1>17. CASE CancelUnlink
  BY <1>17, IdleTyped DEF CancelUnlink
<1>18. ASSUME NEW j \in Job, DeletePackage(j) PROVE TypeOK'
  BY <1>18, IdleTyped DEF DeletePackage
<1>19. CASE UpdaterStart
  BY <1>19, IdleTyped, LoadTyped DEF UpdaterStart, UpdPc, Job
<1>20. CASE UpdaterCheck
  BY <1>20, IdleTyped, SaveTyped, AtTyped DEF UpdaterCheck, UpdPc, State
<1>21. CASE createUpgradeBackup
  BY <1>21, IdleTyped, AtTyped DEF createUpgradeBackup, UpdPc, Job
<1>22. CASE UpdaterMark
  <2>1. jobs' = [jobs EXCEPT ![upd.id] = [st |-> "installing", prev |-> running,
                                          target |-> oppositeCopy(running)]]
    BY <1>22, MarkTyped, Zenon DEF UpdaterMark, Save
  <2>2. jobs' \in [Job -> JobFile]
    BY <1>22, <2>1, Zenon DEF UpdaterMark, JobFile, State, oppositeCopy, Copy
  <2> QED
    BY <1>22, <2>2, MarkTyped, Zenon DEF UpdaterMark
<1>23. CASE SwupdateStart
  BY <1>23, IdleTyped, AtTyped DEF SwupdateStart, UpdPc, Partial, Image
<1>24. CASE SwupdateEnd
  <2>1. upd.id \in Image
    BY <1>24, SMTT(30) DEF SwupdateEnd, Image, Partial, Job
  <2> QED
    BY <1>24, <2>1, AtTyped DEF SwupdateEnd, UpdPc
<1>25. CASE UpdaterInstalled
  BY <1>25, IdleTyped, SaveTyped, AtTyped, Zenon DEF UpdaterInstalled, UpdPc, State
<1>26. CASE UpdaterSelect
  BY <1>26, IdleTyped, AtTyped, FaultTyped DEF UpdaterSelect, UpdPc, oppositeCopy, Copy
<1>27. CASE UpdaterAwait
  BY <1>27, IdleTyped, SaveTyped, Zenon DEF UpdaterAwait, State
<1>28. CASE UpdaterUnselect
  BY <1>28, IdleTyped, AtTyped, FaultTyped, ZenonT(30) DEF UpdaterUnselect, UpdPc
<1>29. CASE UpdaterFail
  BY <1>29, IdleTyped, AtTyped DEF UpdaterFail, UpdPc
<1>30. CASE UpdaterFailed
  BY <1>30, IdleTyped, SaveTyped, Zenon DEF UpdaterFailed, State
<1>31. CASE RebootStart
  BY <1>31, IdleTyped, LoadTyped DEF RebootStart, RbtPc, Job
<1>32. CASE RebootSave
  BY <1>32, IdleTyped, SaveTyped, AtTyped, Zenon DEF RebootSave, RbtPc, State
<1>33. CASE RebootNow
  BY <1>33, IdleTyped, Zenon DEF RebootNow
<1>34. CASE VerifyStart
  BY <1>34, IdleTyped, LoadTyped, SMTT(30) DEF VerifyStart, VerifyEntry, VerPc, Job, Host
<1>35. CASE VerifyAwait
  BY <1>35, IdleTyped, SaveTyped, Zenon DEF VerifyAwait, State
<1>36. CASE VerifyMark
  BY <1>36, IdleTyped, SaveTyped, AtTyped, ZenonT(30) DEF VerifyMark, VerPc, State
<1>37. CASE VerifyCheck
  BY <1>37, IdleTyped, AtTyped DEF VerifyCheck, VerPc
<1>38. CASE VerifyDeactivate
  BY <1>38, IdleTyped, AtTyped, SMTT(30) DEF VerifyDeactivate, VerPc
<1>39. CASE VerifySave
  BY <1>39, IdleTyped, SaveTyped DEF VerifySave, State
<1>40. CASE rollback
  BY <1>40, IdleTyped, SaveTyped, AtTyped, ZenonT(30) DEF rollback, VerPc, State
<1>41. CASE RollbackSelect
  BY <1>41, IdleTyped, AtTyped, FaultTyped DEF RollbackSelect, VerPc
<1>42. CASE RollbackReboot
  BY <1>42, IdleTyped, ZenonT(30) DEF RollbackReboot
<1>43. CASE Boot
  BY <1>43, IdleTyped, SMTT(30) DEF Boot, Host, Job
<1>44. CASE PowerLoss
  BY <1>44, IdleTyped, Zenon, FaultTyped DEF PowerLoss
<1>45. CASE ApiRestart
  BY <1>45, IdleTyped, FaultTyped, Zenon DEF ApiRestart, Host
<1>46. CASE UnitDies
  BY <1>46, IdleTyped, FaultTyped, Zenon DEF UnitDies
<1> QED
  BY <1>4, <1>5, <1>6, <1>7, <1>8, <1>9, <1>10, <1>11, <1>12, <1>13, <1>14, <1>15, <1>16,
    <1>17, <1>18, <1>19, <1>20, <1>21, <1>22, <1>23, <1>24, <1>25, <1>26, <1>27, <1>28, <1>29,
    <1>30, <1>31, <1>32, <1>33, <1>34, <1>35, <1>36, <1>37, <1>38, <1>39, <1>40, <1>41, <1>42,
    <1>43, <1>44, <1>45, <1>46, ZenonT(30)
  DEF Next, ApiRequest, ApiStep, UpdaterStep, RebootStep, VerifyStep, FaultStep

-----------------------------------------------------------------------------
(* The steps of platform-api, one lemma for each: what the rest of the     *)
(* invariant says after the step follows from what it says before.         *)

\* A new job is none of the jobs that are under way.
LEMMA UploadKeeps ==
  ASSUME IInv, Upload
  PROVE  Rest'
<1>1. /\ TypeOK /\ MachineInv /\ JobsInv /\ ApiInv /\ UpdInv /\ LateInv
      /\ FlightInv /\ BackupsInv
  BY Zenon DEF IInv, Rest
<1>2. (MachineInv /\ JobsInv)'
  BY <1>1 DEF ApiRuns, Idle, OtherThanApi, Terminal, Upload, disk, machine, BackupsInv,
      FlightInv, JobsInv, MachineInv, UpdInv, ActiveIs, Copy, Early, Fresh, InFlight, Job, Late,
      Partial, Placed, SameCopies, Switching, Unset, Updating, Verifying, oppositeCopy
<1>3. FlightInv'
  BY <1>1 DEF ApiRuns, Idle, OtherThanApi, Terminal, Upload, disk, machine, FlightInv, ActiveIs,
      Copy, InFlight, Job, Partial, Placed, Unset, oppositeCopy
<1>4. ApiInv'
  BY <1>1, SMTT(30) DEF ApiRuns, Idle, OtherThanApi, Terminal, Upload, disk, machine, ApiInv, BackupsInv,
      FlightInv, TypeOK, ActiveIs, Copy, Fresh, InFlight, Job, JobFile, Late, Partial, Placed,
      Process, SameCopies, Staged, Switching, Unset, oppositeCopy
<1>5. UpdInv'
  BY <1>1, Zenon DEF ApiRuns, Idle, OtherThanApi, Terminal, Upload, disk, machine, ApiInv, BackupsInv,
      FlightInv, LateInv, MachineInv, UpdInv, ActiveIs, Copy, Early, Fresh, InFlight, Job, Late,
      Partial, Placed, Rebooting, SameCopies, Staged, Switching, Unset, Updating, Verifying,
      oppositeCopy
<1>6. LateInv'
  BY <1>1 DEF ApiRuns, Idle, OtherThanApi, Terminal, Upload, disk, machine, LateInv, Copy,
      Early, Fresh, Job, Late, Partial, Placed, Rebooting, SameCopies, Unset, Verifying,
      oppositeCopy
<1>7. BackupsInv'
  BY <1>1 DEF ApiRuns, Idle, OtherThanApi, Terminal, Upload, disk, machine, BackupsInv,
      ActiveIs, Job, Switching, Unset
<1> QED
  BY <1>2, <1>3, <1>4, <1>5, <1>6, <1>7, Zenon DEF Rest

\* Only the active job can be validated.
LEMMA ValidateKeeps ==
  ASSUME IInv, NEW j \in Job, Validate(j)
  PROVE  Rest'
<1>1. /\ TypeOK /\ MachineInv /\ JobsInv /\ ApiInv /\ UpdInv /\ LateInv
      /\ FlightInv /\ BackupsInv
  BY Zenon DEF IInv, Rest
<1>2. j = active
  BY <1>1, Zenon DEF Validate, JobsInv, Late
<1>3. (MachineInv /\ JobsInv /\ FlightInv /\ ApiInv)'
  BY <1>1, <1>2, SMTT(30) DEF ApiRuns, Load, OtherThanApi, Validate, disk, machine, ApiInv, FlightInv,
      JobsInv, MachineInv, TypeOK, ActiveIs, Copy, Early, Fresh, Idle, InFlight, Job, JobFile,
      Late, Partial, Placed, Process, SameCopies, Staged, Unset, oppositeCopy
<1>4. (UpdInv /\ LateInv)'
  BY <1>1, <1>2 DEF ApiRuns, Load, OtherThanApi, Validate, disk, machine, ApiInv, JobsInv,
      LateInv, UpdInv, Copy, Early, Fresh, Job, Late, Partial, Placed, Rebooting, SameCopies,
      Staged, Updating, Verifying, oppositeCopy
<1>5. BackupsInv'
  BY <1>1, <1>2 DEF ApiRuns, Load, OtherThanApi, Validate, disk, machine, BackupsInv, ActiveIs,
      Switching
<1> QED
  BY <1>3, <1>4, <1>5, Zenon DEF Rest

\* Only the active job can be ready; the updater is not there yet.
LEMMA InstallKeeps ==
  ASSUME IInv, NEW j \in Job, Install(j)
  PROVE  Rest'
<1>1. /\ TypeOK /\ MachineInv /\ JobsInv /\ ApiInv /\ UpdInv /\ LateInv
      /\ FlightInv /\ BackupsInv
  BY Zenon DEF IInv, Rest
<1>2. j = active
  BY <1>1, ZenonT(30) DEF Install, JobsInv, Late
<1>3. (MachineInv /\ JobsInv)'
  BY <1>1, <1>2, SMTT(30) DEF ApiRuns, Install, Load, OtherThanApi, disk, machine, ApiInv, BackupsInv,
      FlightInv, JobsInv, MachineInv, TypeOK, ActiveIs, Copy, Early, Fresh, Idle, InFlight, Job,
      JobFile, Late, Partial, Placed, Process, SameCopies, Staged, Switching, Unset,
      oppositeCopy
<1>4. (FlightInv /\ ApiInv)'
  BY <1>1, <1>2 DEF ApiRuns, Install, Load, OtherThanApi, disk, machine, ApiInv, BackupsInv,
      FlightInv, JobsInv, MachineInv, TypeOK, ActiveIs, Copy, Early, Fresh, Idle, InFlight, Job,
      JobFile, Late, Partial, Placed, Process, SameCopies, Staged, Switching, Unset,
      oppositeCopy
<1>5. (UpdInv /\ LateInv)'
  BY <1>1, <1>2, ZenonT(30) DEF ApiRuns, Install, Load, OtherThanApi, disk, machine, BackupsInv, LateInv,
      UpdInv, ActiveIs, Copy, Early, Fresh, Late, Partial, Placed, Rebooting, SameCopies,
      Switching, Updating, Verifying, oppositeCopy
<1>6. BackupsInv'
  BY <1>1, <1>2, Zenon DEF ApiRuns, Install, Load, OtherThanApi, disk, machine, BackupsInv, LateInv,
      UpdInv, ActiveIs, Copy, Early, Fresh, Late, Partial, Placed, Rebooting, SameCopies,
      Switching, Updating, Verifying, oppositeCopy
<1> QED
  BY <1>3, <1>4, <1>5, <1>6, Zenon DEF Rest

\* Asking for the unit touches no job.
LEMMA RebootKeeps ==
  ASSUME IInv, NEW j \in Job, Reboot(j)
  PROVE  Rest'
<1>1. /\ TypeOK /\ MachineInv /\ JobsInv /\ ApiInv /\ UpdInv /\ LateInv
      /\ FlightInv /\ BackupsInv
  BY Zenon DEF IInv, Rest
<1>2. (MachineInv /\ JobsInv /\ FlightInv /\ ApiInv)'
  BY <1>1 DEF ApiRuns, Idle, Reboot, Started, disk, machine, store, ApiInv, FlightInv, JobsInv,
      MachineInv, ActiveIs, Copy, Early, Fresh, InFlight, Job, Late, Partial, Placed,
      SameCopies, Staged, Unset, oppositeCopy
<1>3. (UpdInv /\ LateInv /\ BackupsInv)'
  BY <1>1 DEF ApiRuns, Idle, Reboot, Started, disk, machine, store, BackupsInv, LateInv, UpdInv,
      ActiveIs, Copy, Early, Fresh, Late, Partial, Placed, Rebooting, SameCopies, Switching,
      Unset, Updating, Verifying, oppositeCopy
<1> QED
  BY <1>2, <1>3, Zenon DEF Rest

\* A job that awaits its reboot is the active one, and its copies are in place.
LEMMA CancelKeeps ==
  ASSUME IInv, NEW j \in Job, Cancel(j)
  PROVE  Rest'
<1>1. /\ TypeOK /\ MachineInv /\ JobsInv /\ ApiInv /\ UpdInv /\ LateInv
      /\ FlightInv /\ BackupsInv
  BY Zenon DEF IInv, Rest
<1>2. jobs[j].st \notin {"uploading", "failed"} => j = active
  BY <1>1, Zenon DEF Cancel, JobsInv, Late
<1>3. (MachineInv /\ JobsInv)'
  BY <1>1, <1>2, ZenonT(30) DEF ApiRuns, Cancel, Load, OtherThanApi, disk, machine, store, JobsInv,
      MachineInv, Copy, Early, Fresh, Idle, Job, Late, Partial, Unset
<1>4. FlightInv'
  BY <1>1, <1>2, Zenon DEF ApiRuns, Cancel, Load, OtherThanApi, disk, machine, store, FlightInv,
      ActiveIs, Copy, InFlight, Partial, Placed, oppositeCopy
<1>5. ApiInv'
  <2>1. CASE /\ jobs[j].st \in {"uploading", "validating", "ready", "failed"}
             /\ api' = Load(j, "cancel_save")
    BY <1>1, <2>1, SMTT(30) DEF Cancel, Load, OtherThanApi, disk, machine, store, ApiInv, SameCopies,
        Staged, Job
  <2>2. CASE jobs[j].st = "awaiting_reboot" /\ api' = Load(j, "cancel_select")
    BY <1>1, <1>2, <2>2 DEF Cancel, Load, OtherThanApi, disk, machine, store, ApiInv,
        FlightInv, ActiveIs, InFlight, Placed, SameCopies, Staged, Job
  <2> QED
    BY <2>1, <2>2, Zenon DEF Cancel
<1>6. (UpdInv /\ LateInv)'
  <2>1. api'.id = j /\ jobs[j].st \notin {"installing", "installed"}
    BY <1>1 DEF Cancel, Load, ApiRuns
  <2>2. UpdInv'
    BY <1>1, <1>2, <2>1, ZenonT(30) DEF Cancel, OtherThanApi, disk, machine, store, UpdInv, Fresh, Placed,
        SameCopies, Updating, Verifying
  <2>3. LateInv'
    BY <1>1, Zenon DEF Cancel, OtherThanApi, disk, machine, store, LateInv, Fresh, Placed, Rebooting,
        SameCopies, Verifying
  <2> QED
    BY <2>2, <2>3, ZenonT(30)
<1>7. BackupsInv'
  BY <1>1, <1>2, SMTT(30) DEF ApiRuns, Cancel, Load, OtherThanApi, disk, machine, store, BackupsInv,
      ActiveIs, Switching
<1> QED
  BY <1>3, <1>4, <1>5, <1>6, <1>7, Zenon DEF Rest

\* A job that has ended is not the one the updater works on.
LEMMA DeletePackageKeeps ==
  ASSUME IInv, NEW j \in Job, DeletePackage(j)
  PROVE  Rest'
<1>1. /\ TypeOK /\ MachineInv /\ JobsInv /\ ApiInv /\ UpdInv /\ LateInv
      /\ FlightInv /\ BackupsInv
  BY Zenon DEF IInv, Rest
<1>2. (MachineInv /\ JobsInv /\ FlightInv /\ ApiInv)'
  BY <1>1, SMTT(30) DEF ApiRuns, DeletePackage, OtherThanApi, Terminal, disk, machine, ApiInv, FlightInv,
      JobsInv, MachineInv, ActiveIs, Copy, Early, Fresh, Idle, InFlight, Job, Late, Partial,
      Placed, SameCopies, Staged, Unset, oppositeCopy
<1>3. (UpdInv /\ LateInv /\ BackupsInv)'
  BY <1>1 DEF ApiRuns, DeletePackage, OtherThanApi, Terminal, disk, machine, BackupsInv,
      JobsInv, LateInv, UpdInv, ActiveIs, Copy, Early, Fresh, Job, Late, Partial, Placed,
      Rebooting, SameCopies, Switching, Updating, Verifying, oppositeCopy
<1> QED
  BY <1>2, <1>3, Zenon DEF Rest

\* The job that was active has ended, so the updater is idle.
LEMMA UploadActivateKeeps ==
  ASSUME IInv, UploadActivate
  PROVE  Rest'
<1>1. /\ TypeOK /\ MachineInv /\ JobsInv /\ ApiInv /\ UpdInv /\ LateInv
      /\ FlightInv /\ BackupsInv
  BY Zenon DEF IInv, Rest
<1>2. upd.pc = "idle"
  BY <1>1, Zenon DEF UploadActivate, ApiRuns, ApiInv, UpdInv, Late
<1>3. (MachineInv /\ JobsInv /\ FlightInv /\ ApiInv)'
  BY <1>1, <1>2 DEF ApiGoto, ApiRuns, At, OtherThanApi, UploadActivate, disk, machine, ApiInv,
      FlightInv, JobsInv, MachineInv, ActiveIs, Copy, Early, Fresh, Idle, InFlight, Job, Late,
      Partial, Placed, SameCopies, Staged, Unset, oppositeCopy
<1>4. UpdInv'
  BY <1>1, <1>2, Zenon DEF ApiGoto, ApiRuns, At, OtherThanApi, UploadActivate, disk, machine, UpdInv,
      Copy, Fresh, Partial, Placed, SameCopies, Updating, Verifying, oppositeCopy
<1>5. LateInv'
  BY <1>1, <1>2 DEF ApiGoto, ApiRuns, At, OtherThanApi, UploadActivate, disk, machine, ApiInv,
      JobsInv, LateInv, TypeOK, Copy, Early, Fresh, Job, JobFile, Late, Partial, Placed,
      Process, Rebooting, SameCopies, Staged, Verifying, oppositeCopy
<1>6. BackupsInv'
  BY <1>1, <1>2 DEF ApiGoto, ApiRuns, At, OtherThanApi, UploadActivate, disk, machine, ApiInv,
      BackupsInv, JobsInv, TypeOK, ActiveIs, Copy, Early, Fresh, Job, JobFile, Late, Partial,
      Placed, Process, SameCopies, Staged, Switching, oppositeCopy
<1> QED
  BY <1>3, <1>4, <1>5, <1>6, Zenon DEF Rest

\* The new job is validating or failed: nobody else has loaded it.
LEMMA UploadBodyKeeps ==
  ASSUME IInv, UploadBody
  PROVE  Rest'
<1>1. /\ TypeOK /\ MachineInv /\ JobsInv /\ ApiInv /\ UpdInv /\ LateInv
      /\ FlightInv /\ BackupsInv
  BY Zenon DEF IInv, Rest
<1>2. CASE Save(api, "validating")
  <2>1. (MachineInv /\ JobsInv)'
    BY <1>1, <1>2, SMTT(30) DEF ApiReturns, ApiRuns, Idle, OtherThanApi, Save, UploadBody, disk, machine,
        ApiInv, FlightInv, JobsInv, LateInv, MachineInv, TypeOK, UpdInv, ActiveIs, Copy, Early,
        Fresh, InFlight, Job, JobFile, Late, Partial, Placed, Process, Rebooting, SameCopies,
        Staged, Unset, Updating, Verifying, oppositeCopy
  <2>2. (FlightInv /\ ApiInv)'
    BY <1>1, <1>2 DEF ApiReturns, ApiRuns, Idle, OtherThanApi, Save, UploadBody, disk, machine,
        ApiInv, FlightInv, TypeOK, ActiveIs, Copy, Fresh, InFlight, Job, JobFile, Late, Partial,
        Placed, Process, SameCopies, Staged, Unset, oppositeCopy
  <2>3. UpdInv'
    BY <1>1, <1>2, ZenonT(30) DEF ApiReturns, ApiRuns, Idle, OtherThanApi, Save, UploadBody, disk, machine,
        ApiInv, UpdInv, Copy, Fresh, Late, Partial, Placed, SameCopies, Staged, Unset, Updating,
        Verifying, oppositeCopy
  <2>4. LateInv'
    BY <1>1, <1>2, SMTT(30) DEF ApiReturns, ApiRuns, Idle, OtherThanApi, Save, UploadBody, disk, machine,
        ApiInv, LateInv, MachineInv, TypeOK, Copy, Early, Fresh, Job, JobFile, Late, Partial,
        Placed, Process, Rebooting, SameCopies, Staged, Unset, Verifying, oppositeCopy
  <2>5. BackupsInv'
    BY <1>1, <1>2 DEF ApiReturns, ApiRuns, Idle, OtherThanApi, Save, UploadBody, disk, machine,
        BackupsInv, TypeOK, UpdInv, ActiveIs, Copy, Fresh, Job, JobFile, Partial, Placed, Process,
        SameCopies, Switching, Unset, Updating, Verifying, oppositeCopy
  <2> QED
    BY <2>1, <2>2, <2>3, <2>4, <2>5, ZenonT(30) DEF Rest
<1>3. CASE Save(api, "failed")
  <2>1. MachineInv'
    BY <1>1, <1>3, ZenonT(30) DEF ApiReturns, ApiRuns, Idle, OtherThanApi, Save, UploadBody, disk, machine,
        MachineInv, Partial, Unset
  <2>2. JobsInv'
    BY <1>1, <1>3, SMTT(30) DEF ApiReturns, ApiRuns, Idle, OtherThanApi, Save, UploadBody, disk, machine,
        ApiInv, FlightInv, JobsInv, LateInv, MachineInv, TypeOK, UpdInv, ActiveIs, Copy, Early,
        Fresh, InFlight, Job, JobFile, Late, Partial, Placed, Process, Rebooting, SameCopies,
        Staged, Unset, Updating, Verifying, oppositeCopy
  <2>3. (FlightInv /\ ApiInv)'
    BY <1>1, <1>3 DEF ApiReturns, ApiRuns, Idle, OtherThanApi, Save, UploadBody, disk, machine,
        ApiInv, FlightInv, TypeOK, ActiveIs, Copy, Fresh, InFlight, Job, JobFile, Late, Partial,
        Placed, Process, SameCopies, Staged, Unset, oppositeCopy
  <2>4. UpdInv'
    BY <1>1, <1>3, ZenonT(30) DEF ApiReturns, ApiRuns, Idle, OtherThanApi, Save, UploadBody, disk, machine,
        ApiInv, UpdInv, Copy, Fresh, Late, Partial, Placed, SameCopies, Staged, Unset, Updating,
        Verifying, oppositeCopy
  <2>5. LateInv'
    BY <1>1, <1>3, SMTT(30) DEF ApiReturns, ApiRuns, Idle, OtherThanApi, Save, UploadBody, disk, machine,
        ApiInv, LateInv, MachineInv, TypeOK, Copy, Early, Fresh, Job, JobFile, Late, Partial,
        Placed, Process, Rebooting, SameCopies, Staged, Unset, Verifying, oppositeCopy
  <2>6. BackupsInv'
    BY <1>1, <1>3 DEF ApiReturns, ApiRuns, Idle, OtherThanApi, Save, UploadBody, disk, machine,
        BackupsInv, TypeOK, UpdInv, ActiveIs, Copy, Fresh, Job, JobFile, Partial, Placed, Process,
        SameCopies, Switching, Unset, Updating, Verifying, oppositeCopy
  <2> QED
    BY <2>1, <2>2, <2>3, <2>4, <2>5, <2>6, Zenon DEF Rest
<1> QED
  BY <1>2, <1>3, Zenon DEF UploadBody

\* The job is ready or failed, and still written to no copy.
LEMMA ValidatedKeeps ==
  ASSUME IInv, Validated
  PROVE  Rest'
<1>1. /\ TypeOK /\ MachineInv /\ JobsInv /\ ApiInv /\ UpdInv /\ LateInv
      /\ FlightInv /\ BackupsInv
  BY Zenon DEF IInv, Rest
<1>2. CASE Save([api EXCEPT !.prev = running, !.target = oppositeCopy(running)], "ready")
  <2>1. (MachineInv /\ JobsInv /\ FlightInv /\ ApiInv)'
    BY <1>1, <1>2 DEF ApiReturns, ApiRuns, Idle, OtherThanApi, Save, Validated, disk, machine,
        oppositeCopy, ApiInv, FlightInv, JobsInv, MachineInv, TypeOK, ActiveIs, Copy, Early,
        Fresh, InFlight, Job, JobFile, Late, Partial, Placed, Process, SameCopies, Staged, Unset
  <2>2. UpdInv'
    BY <1>1, <1>2 DEF ApiReturns, ApiRuns, Idle, OtherThanApi, Save, Validated, disk, machine,
        oppositeCopy, TypeOK, UpdInv, Copy, Fresh, Job, JobFile, Partial, Placed, Process,
        SameCopies, Unset, Updating, Verifying
  <2>3. LateInv'
    BY <1>1, <1>2 DEF ApiReturns, ApiRuns, Idle, OtherThanApi, Save, Validated, disk, machine,
        oppositeCopy, ApiInv, JobsInv, LateInv, TypeOK, Copy, Early, Fresh, Job, JobFile, Late,
        Partial, Placed, Process, Rebooting, SameCopies, Staged, Unset, Verifying
  <2>4. BackupsInv'
    BY <1>1, <1>2 DEF ApiReturns, ApiRuns, Idle, OtherThanApi, Save, Validated, disk, machine,
        oppositeCopy, BackupsInv, TypeOK, ActiveIs, Copy, Job, JobFile, Process, Switching, Unset
  <2> QED
    BY <2>1, <2>2, <2>3, <2>4, Zenon DEF Rest
<1>3. CASE Save(api, "failed")
  <2>1. (MachineInv /\ JobsInv /\ FlightInv /\ ApiInv)'
    BY <1>1, <1>3 DEF ApiReturns, ApiRuns, Idle, OtherThanApi, Save, Validated, disk, machine,
        oppositeCopy, ApiInv, FlightInv, JobsInv, MachineInv, TypeOK, ActiveIs, Copy, Early,
        Fresh, InFlight, Job, JobFile, Late, Partial, Placed, Process, SameCopies, Staged, Unset
  <2>2. UpdInv'
    BY <1>1, <1>3, SMTT(30) DEF ApiReturns, ApiRuns, Idle, OtherThanApi, Save, Validated, disk, machine,
        oppositeCopy, TypeOK, UpdInv, Copy, Fresh, Job, JobFile, Partial, Placed, Process,
        SameCopies, Unset, Updating, Verifying
  <2>3. LateInv'
    BY <1>1, <1>3 DEF ApiReturns, ApiRuns, Idle, OtherThanApi, Save, Validated, disk, machine,
        oppositeCopy, ApiInv, JobsInv, LateInv, TypeOK, Copy, Early, Fresh, Job, JobFile, Late,
        Partial, Placed, Process, Rebooting, SameCopies, Staged, Unset, Verifying
  <2>4. BackupsInv'
    BY <1>1, <1>3, SMTT(30) DEF ApiReturns, ApiRuns, Idle, OtherThanApi, Save, Validated, disk, machine,
        oppositeCopy, BackupsInv, TypeOK, ActiveIs, Copy, Job, JobFile, Process, Switching, Unset
  <2> QED
    BY <2>1, <2>2, <2>3, <2>4, Zenon DEF Rest
<1> QED
  BY <1>2, <1>3, Zenon DEF Validated

\* The active job, not yet written, becomes "installing".
LEMMA InstallSaveKeeps ==
  ASSUME IInv, InstallSave
  PROVE  Rest'
<1>1. /\ TypeOK /\ MachineInv /\ JobsInv /\ ApiInv /\ UpdInv /\ LateInv
      /\ FlightInv /\ BackupsInv
  BY Zenon DEF IInv, Rest
<1>2. (MachineInv /\ JobsInv /\ FlightInv /\ ApiInv)'
  BY <1>1, SMTT(30) DEF ApiGoto, ApiRuns, At, InstallSave, OtherThanApi, Save, disk, machine, ApiInv,
      FlightInv, JobsInv, MachineInv, TypeOK, ActiveIs, Copy, Early, Fresh, Idle, InFlight, Job,
      JobFile, Late, Partial, Placed, Process, SameCopies, Staged, Unset, oppositeCopy
<1>3. (UpdInv /\ LateInv /\ BackupsInv)'
  BY <1>1 DEF ApiGoto, ApiRuns, At, InstallSave, OtherThanApi, Save, disk, machine, ApiInv,
      BackupsInv, LateInv, UpdInv, ActiveIs, Copy, Early, Fresh, Late, Partial, Placed,
      Rebooting, SameCopies, Staged, Switching, Updating, Verifying, oppositeCopy
<1> QED
  BY <1>2, <1>3, Zenon DEF Rest

\* Either the updater is requested or the job is ready again.
LEMMA InstallStartKeeps ==
  ASSUME IInv, InstallStart
  PROVE  Rest'
<1>1. /\ TypeOK /\ MachineInv /\ JobsInv /\ ApiInv /\ UpdInv /\ LateInv
      /\ FlightInv /\ BackupsInv
  BY Zenon DEF IInv, Rest
<1>2. upd.pc = "idle"
  BY <1>1, Zenon DEF InstallStart, ApiRuns, ApiInv, UpdInv
<1>3. CASE upd' = Started(upd) /\ UNCHANGED <<jobs, faults>>
  <2>1. (MachineInv /\ JobsInv /\ FlightInv /\ ApiInv)'
    BY <1>1, <1>2, <1>3, SMTT(30) DEF ApiReturns, ApiRuns, Fault, Idle, InstallStart, Save, Started, disk,
        machine, ApiInv, BackupsInv, FlightInv, JobsInv, MachineInv, TypeOK, UpdInv, ActiveIs,
        Copy, Early, Fresh, InFlight, Job, JobFile, Late, Partial, Placed, Process, SameCopies,
        Staged, Switching, Unset, Updating, Verifying, oppositeCopy
  <2>2. (UpdInv /\ LateInv /\ BackupsInv)'
    BY <1>1, <1>2, <1>3, SMTT(30) DEF ApiReturns, ApiRuns, Fault, Idle, InstallStart, Save, Started, disk,
        machine, ApiInv, BackupsInv, FlightInv, JobsInv, LateInv, MachineInv, TypeOK, UpdInv,
        ActiveIs, Copy, Early, Fresh, InFlight, Job, JobFile, Late, Partial, Placed, Process,
        Rebooting, SameCopies, Staged, Switching, Unset, Updating, Verifying, oppositeCopy
  <2> QED
    BY <2>1, <2>2, Zenon DEF Rest
<1>4. CASE Fault("script") /\ Save(api, "ready") /\ UNCHANGED upd
  <2>1. (MachineInv /\ JobsInv /\ FlightInv /\ ApiInv)'
    BY <1>1, <1>2, <1>4, SMTT(30) DEF ApiReturns, ApiRuns, Fault, Idle, InstallStart, Save, Started, disk,
        machine, ApiInv, BackupsInv, FlightInv, JobsInv, MachineInv, TypeOK, UpdInv, ActiveIs,
        Copy, Early, Fresh, InFlight, Job, JobFile, Late, Partial, Placed, Process, SameCopies,
        Staged, Switching, Unset, Updating, Verifying, oppositeCopy
  <2>2. UpdInv'
    BY <1>1, <1>2, <1>4, Zenon DEF ApiReturns, ApiRuns, Fault, Idle, InstallStart, Save, Started, disk,
        machine, ApiInv, FlightInv, JobsInv, LateInv, MachineInv, UpdInv, ActiveIs, Copy, Early,
        Fresh, InFlight, Job, Late, Partial, Placed, Rebooting, SameCopies, Staged, Unset,
        Updating, Verifying, oppositeCopy
  <2>3. LateInv'
    BY <1>1, <1>2, <1>4, SMTT(30) DEF ApiReturns, ApiRuns, Fault, Idle, InstallStart, Save, Started, disk,
        machine, ApiInv, JobsInv, LateInv, MachineInv, TypeOK, UpdInv, Copy, Early, Fresh, Job,
        JobFile, Late, Partial, Placed, Process, Rebooting, SameCopies, Staged, Unset, Updating,
        Verifying, oppositeCopy
  <2>4. BackupsInv'
    BY <1>1, <1>2, <1>4 DEF ApiReturns, ApiRuns, Fault, Idle, InstallStart, Save, Started, disk,
        machine, BackupsInv, TypeOK, ActiveIs, Copy, Job, JobFile, Process, Switching, Unset
  <2> QED
    BY <2>1, <2>2, <2>3, <2>4, Zenon DEF Rest
<1> QED
  BY <1>3, <1>4, Zenon DEF InstallStart

\* The copy that is selected does not hold the image of the active job.
LEMMA CancelSelectKeeps ==
  ASSUME IInv, CancelSelect
  PROVE  Rest'
<1>1. /\ TypeOK /\ MachineInv /\ JobsInv /\ ApiInv /\ UpdInv /\ LateInv
      /\ FlightInv /\ BackupsInv
  BY Zenon DEF IInv, Rest
<1>2. CASE setCopy(api.prev) /\ ApiGoto("cancel_deactivate")
  <2>1. (MachineInv /\ JobsInv /\ FlightInv /\ ApiInv)'
    BY <1>1, <1>2, SMTT(30) DEF ApiGoto, ApiReturns, ApiRuns, At, CancelSelect, Fault, Idle, OtherThanApi,
        machine, setCopy, setCopyFails, store, ApiInv, FlightInv, JobsInv, MachineInv, TypeOK,
        ActiveIs, Copy, Early, Fresh, InFlight, Job, JobFile, Late, Partial, Placed, Process,
        SameCopies, Staged, Unset, oppositeCopy
  <2>2. (UpdInv /\ LateInv)'
    BY <1>1, <1>2 DEF ApiGoto, ApiReturns, ApiRuns, At, CancelSelect, Fault, Idle, OtherThanApi,
        machine, setCopy, setCopyFails, store, LateInv, TypeOK, UpdInv, Copy, Early, Fresh, Job,
        JobFile, Late, Partial, Placed, Process, Rebooting, SameCopies, Unset, Updating,
        Verifying, oppositeCopy
  <2>3. BackupsInv'
    BY <1>1, <1>2, SMTT(30) DEF ApiGoto, ApiReturns, ApiRuns, At, CancelSelect, Fault, Idle, OtherThanApi,
        machine, setCopy, setCopyFails, store, ApiInv, BackupsInv, TypeOK, ActiveIs, Copy, Fresh,
        Job, JobFile, Late, Partial, Placed, Process, SameCopies, Staged, Switching, Unset,
        oppositeCopy
  <2> QED
    BY <2>1, <2>2, <2>3, Zenon DEF Rest
<1>3. CASE setCopyFails /\ ApiReturns
  <2>1. (MachineInv /\ JobsInv /\ FlightInv /\ ApiInv)'
    BY <1>1, <1>3, SMTT(30) DEF ApiGoto, ApiReturns, ApiRuns, At, CancelSelect, Fault, Idle, OtherThanApi,
        machine, setCopy, setCopyFails, store, ApiInv, FlightInv, JobsInv, MachineInv, TypeOK,
        ActiveIs, Copy, Early, Fresh, InFlight, Job, JobFile, Late, Partial, Placed, Process,
        SameCopies, Staged, Unset, oppositeCopy
  <2>2. (UpdInv /\ LateInv)'
    BY <1>1, <1>3 DEF ApiGoto, ApiReturns, ApiRuns, At, CancelSelect, Fault, Idle, OtherThanApi,
        machine, setCopy, setCopyFails, store, LateInv, TypeOK, UpdInv, Copy, Early, Fresh, Job,
        JobFile, Late, Partial, Placed, Process, Rebooting, SameCopies, Unset, Updating,
        Verifying, oppositeCopy
  <2>3. BackupsInv'
    BY <1>1, <1>3, SMTT(30) DEF ApiGoto, ApiReturns, ApiRuns, At, CancelSelect, Fault, Idle, OtherThanApi,
        machine, setCopy, setCopyFails, store, ApiInv, BackupsInv, TypeOK, ActiveIs, Copy, Fresh,
        Job, JobFile, Late, Partial, Placed, Process, SameCopies, Staged, Switching, Unset,
        oppositeCopy
  <2> QED
    BY <2>1, <2>2, <2>3, Zenon DEF Rest
<1> QED
  BY <1>2, <1>3, Zenon DEF CancelSelect

\* No switch to the image of the active job is ahead: the backup may go.
LEMMA CancelDeactivateKeeps ==
  ASSUME IInv, CancelDeactivate
  PROVE  Rest'
<1>1. /\ TypeOK /\ MachineInv /\ JobsInv /\ ApiInv /\ UpdInv /\ LateInv
      /\ FlightInv /\ BackupsInv
  BY Zenon DEF IInv, Rest
<1>2. (/\ MachineInv /\ JobsInv /\ FlightInv /\ ApiInv /\ UpdInv
       /\ LateInv /\ BackupsInv)'
  BY <1>1 DEF ApiGoto, ApiRuns, At, CancelDeactivate, OtherThanApi, deactivateBackup, machine,
      store, ApiInv, BackupsInv, FlightInv, JobsInv, LateInv, MachineInv, UpdInv, ActiveIs,
      Copy, Early, Fresh, Idle, InFlight, Job, Late, Partial, Placed, Rebooting, SameCopies,
      Staged, Switching, Unset, Updating, Verifying, oppositeCopy
<1> QED
  BY <1>2, Zenon DEF Rest

\* Whatever the reboot unit or the verifier has made of the job, it has ended.
LEMMA CancelSaveKeeps ==
  ASSUME IInv, CancelSave
  PROVE  Rest'
<1>1. /\ TypeOK /\ MachineInv /\ JobsInv /\ ApiInv /\ UpdInv /\ LateInv
      /\ FlightInv /\ BackupsInv
  BY Zenon DEF IInv, Rest
<1>2. (MachineInv /\ JobsInv /\ FlightInv /\ ApiInv)'
  BY <1>1, SMTT(30) DEF ApiGoto, ApiRuns, At, CancelSave, OtherThanApi, Save, disk, machine, ApiInv,
      FlightInv, JobsInv, MachineInv, TypeOK, ActiveIs, Copy, Early, Fresh, Idle, InFlight, Job,
      JobFile, Late, Partial, Placed, Process, SameCopies, Staged, Unset, oppositeCopy
<1>3. (UpdInv /\ LateInv /\ BackupsInv)'
  BY <1>1 DEF ApiGoto, ApiRuns, At, CancelSave, OtherThanApi, Save, disk, machine, ApiInv,
      BackupsInv, JobsInv, LateInv, UpdInv, ActiveIs, Copy, Early, Fresh, Job, Late, Partial,
      Placed, Rebooting, SameCopies, Staged, Switching, Updating, Verifying, oppositeCopy
<1> QED
  BY <1>2, <1>3, Zenon DEF Rest

\* The job that is dropped has ended or is brought back by a stale copy.
LEMMA CancelUnlinkKeeps ==
  ASSUME IInv, CancelUnlink
  PROVE  Rest'
<1>1. /\ TypeOK /\ MachineInv /\ JobsInv /\ ApiInv /\ UpdInv /\ LateInv
      /\ FlightInv /\ BackupsInv
  BY Zenon DEF IInv, Rest
<1>2. (MachineInv /\ JobsInv)'
  BY <1>1 DEF ApiReturns, ApiRuns, CancelUnlink, Idle, OtherThanApi, disk, machine, ApiInv,
      FlightInv, JobsInv, MachineInv, ActiveIs, Copy, Early, Fresh, InFlight, Job, Late,
      Partial, Placed, SameCopies, Staged, Unset, oppositeCopy
<1>3. (FlightInv /\ ApiInv)'
  BY <1>1, ZenonT(30) DEF ApiReturns, ApiRuns, CancelUnlink, Idle, OtherThanApi, disk, machine, ApiInv,
      FlightInv, JobsInv, MachineInv, ActiveIs, Copy, Early, Fresh, InFlight, Job, Late,
      Partial, Placed, SameCopies, Staged, Unset, oppositeCopy
<1>4. (UpdInv /\ LateInv)'
  BY <1>1 DEF ApiReturns, ApiRuns, CancelUnlink, Idle, OtherThanApi, disk, machine, BackupsInv,
      LateInv, UpdInv, ActiveIs, Copy, Early, Fresh, Late, Partial, Placed, Rebooting,
      SameCopies, Switching, Unset, Updating, Verifying, oppositeCopy
<1>5. BackupsInv'
  BY <1>1, ZenonT(30) DEF ApiReturns, ApiRuns, CancelUnlink, Idle, OtherThanApi, disk, machine, BackupsInv,
      LateInv, UpdInv, ActiveIs, Copy, Early, Fresh, Late, Partial, Placed, Rebooting,
      SameCopies, Switching, Unset, Updating, Verifying, oppositeCopy
<1> QED
  BY <1>2, <1>3, <1>4, <1>5, ZenonT(30) DEF Rest

-----------------------------------------------------------------------------
(* The units, the reboots and the faults, and the theorems.                *)

\* The job is as the handler saved it.
LEMMA UpdaterStartKeeps ==
  ASSUME IInv, UpdaterStart
  PROVE  Rest'
<1>1. /\ TypeOK /\ MachineInv /\ JobsInv /\ ApiInv /\ UpdInv /\ LateInv
      /\ FlightInv /\ BackupsInv
  BY Zenon DEF IInv, Rest
<1>2. (MachineInv /\ JobsInv /\ FlightInv /\ ApiInv)'
  BY <1>1 DEF Idle, Load, OtherThanUpd, UpdRuns, UpdaterStart, disk, machine, store, ApiInv,
      FlightInv, JobsInv, MachineInv, ActiveIs, Copy, Early, Fresh, InFlight, Job, Late,
      Partial, Placed, SameCopies, Staged, Unset, oppositeCopy
<1>3. UpdInv'
  BY <1>1, ZenonT(30) DEF Idle, Load, OtherThanUpd, UpdRuns, UpdaterStart, disk, machine, store, FlightInv,
      UpdInv, ActiveIs, Copy, Fresh, InFlight, Partial, Placed, SameCopies, Unset, Updating,
      Verifying, oppositeCopy
<1>4. LateInv'
  BY <1>1, ZenonT(30) DEF Idle, Load, OtherThanUpd, UpdRuns, UpdaterStart, disk, machine, store, LateInv,
      Copy, Early, Fresh, Late, Partial, Placed, Rebooting, SameCopies, Unset, Verifying,
      oppositeCopy
<1>5. BackupsInv'
  BY <1>1, Zenon DEF Idle, Load, OtherThanUpd, UpdRuns, UpdaterStart, disk, machine, store, BackupsInv,
      UpdInv, ActiveIs, Copy, Fresh, Partial, Placed, SameCopies, Switching, Unset, Updating,
      Verifying, oppositeCopy
<1> QED
  BY <1>2, <1>3, <1>4, <1>5, Zenon DEF Rest

\* The file is written as it was read.
LEMMA UpdaterCheckKeeps ==
  ASSUME IInv, UpdaterCheck
  PROVE  Rest'
<1>1. /\ TypeOK /\ MachineInv /\ JobsInv /\ ApiInv /\ UpdInv /\ LateInv
      /\ FlightInv /\ BackupsInv
  BY Zenon DEF IInv, Rest
<1>2. CASE Save(upd, upd.st) /\ UpdGoto("backup")
  <2>1. (MachineInv /\ JobsInv)'
    BY <1>1, <1>2, SMTT(30) DEF At, OtherThanUpd, Save, UpdGoto, UpdRuns, UpdaterCheck, disk, machine,
        FlightInv, JobsInv, MachineInv, TypeOK, UpdInv, ActiveIs, Copy, Early, Fresh, Idle,
        InFlight, Job, JobFile, Late, Partial, Placed, Process, SameCopies, Unset, Updating,
        Verifying, oppositeCopy
  <2>2. (FlightInv /\ ApiInv)'
    BY <1>1, <1>2, SMTT(30) DEF At, OtherThanUpd, Save, UpdGoto, UpdRuns, UpdaterCheck, disk, machine,
        ApiInv, BackupsInv, FlightInv, JobsInv, LateInv, MachineInv, TypeOK, UpdInv, ActiveIs,
        Copy, Early, Fresh, Idle, InFlight, Job, JobFile, Late, Partial, Placed, Process,
        Rebooting, SameCopies, Staged, Switching, Unset, Updating, Verifying, oppositeCopy
  <2>3. (UpdInv /\ LateInv /\ BackupsInv)'
    BY <1>1, <1>2, SMTT(30) DEF At, OtherThanUpd, Save, UpdGoto, UpdRuns, UpdaterCheck, disk, machine,
        ApiInv, BackupsInv, FlightInv, JobsInv, LateInv, MachineInv, TypeOK, UpdInv, ActiveIs,
        Copy, Early, Fresh, Idle, InFlight, Job, JobFile, Late, Partial, Placed, Process,
        Rebooting, SameCopies, Staged, Switching, Unset, Updating, Verifying, oppositeCopy
  <2> QED
    BY <2>1, <2>2, <2>3, Zenon DEF Rest
<1>3. CASE UpdGoto("fail") /\ UNCHANGED jobs
  <2>1. (MachineInv /\ JobsInv /\ FlightInv /\ ApiInv)'
    BY <1>1, <1>3, SMTT(30) DEF At, OtherThanUpd, Save, UpdGoto, UpdRuns, UpdaterCheck, disk, machine,
        ApiInv, BackupsInv, FlightInv, JobsInv, LateInv, MachineInv, TypeOK, UpdInv, ActiveIs,
        Copy, Early, Fresh, Idle, InFlight, Job, JobFile, Late, Partial, Placed, Process,
        Rebooting, SameCopies, Staged, Switching, Unset, Updating, Verifying, oppositeCopy
  <2>2. (UpdInv /\ LateInv)'
    BY <1>1, <1>3 DEF At, OtherThanUpd, Save, UpdGoto, UpdRuns, UpdaterCheck, disk, machine,
        FlightInv, JobsInv, LateInv, TypeOK, UpdInv, ActiveIs, Copy, Early, Fresh, InFlight, Job,
        JobFile, Late, Partial, Placed, Process, Rebooting, SameCopies, Updating, Verifying,
        oppositeCopy
  <2>3. BackupsInv'
    BY <1>1, <1>3, SMTT(30) DEF At, OtherThanUpd, Save, UpdGoto, UpdRuns, UpdaterCheck, disk, machine,
        ApiInv, BackupsInv, FlightInv, JobsInv, MachineInv, TypeOK, UpdInv, ActiveIs, Copy, Early,
        Fresh, Idle, InFlight, Job, JobFile, Late, Partial, Placed, Process, SameCopies, Staged,
        Switching, Unset, Updating, Verifying, oppositeCopy
  <2> QED
    BY <2>1, <2>2, <2>3, Zenon DEF Rest
<1> QED
  BY <1>2, <1>3, Zenon DEF UpdaterCheck

\* From here on the backup is the one of the active job.
LEMMA CreateUpgradeBackupKeeps ==
  ASSUME IInv, createUpgradeBackup
  PROVE  Rest'
<1>1. /\ TypeOK /\ MachineInv /\ JobsInv /\ ApiInv /\ UpdInv /\ LateInv
      /\ FlightInv /\ BackupsInv
  BY Zenon DEF IInv, Rest
<1>2. CASE backup' = upd.id /\ UpdGoto("mark")
  <2>1. (/\ MachineInv /\ JobsInv /\ FlightInv /\ ApiInv /\ UpdInv
         /\ LateInv /\ BackupsInv)'
    BY <1>1, <1>2, SMTT(30) DEF At, OtherThanUpd, UpdGoto, UpdRuns, createUpgradeBackup, machine, store,
        ApiInv, BackupsInv, FlightInv, JobsInv, LateInv, MachineInv, TypeOK, UpdInv, ActiveIs,
        Copy, Early, Fresh, Idle, InFlight, Job, JobFile, Late, Partial, Placed, Process,
        Rebooting, SameCopies, Staged, Switching, Unset, Updating, Verifying, oppositeCopy
  <2> QED
    BY <2>1, Zenon DEF Rest
<1>3. CASE UpdGoto("fail") /\ UNCHANGED backup
  <2>1. (MachineInv /\ JobsInv /\ FlightInv /\ ApiInv)'
    BY <1>1, <1>3, SMTT(30) DEF At, OtherThanUpd, UpdGoto, UpdRuns, createUpgradeBackup, machine, store,
        ApiInv, FlightInv, JobsInv, MachineInv, ActiveIs, Copy, Early, Fresh, Idle, InFlight, Job,
        Late, Partial, Placed, SameCopies, Staged, Unset, oppositeCopy
  <2>2. (UpdInv /\ LateInv /\ BackupsInv)'
    BY <1>1, <1>3, SMTT(30) DEF At, OtherThanUpd, UpdGoto, UpdRuns, createUpgradeBackup, machine, store,
        BackupsInv, LateInv, TypeOK, UpdInv, ActiveIs, Copy, Early, Fresh, Job, JobFile, Late,
        Partial, Placed, Process, Rebooting, SameCopies, Switching, Updating, Verifying,
        oppositeCopy
  <2> QED
    BY <2>1, <2>2, Zenon DEF Rest
<1> QED
  BY <1>2, <1>3, Zenon DEF createUpgradeBackup

\* The file names the copy that runs and the other one.
LEMMA UpdaterMarkKeeps ==
  ASSUME IInv, UpdaterMark
  PROVE  Rest'
<1>1. /\ TypeOK /\ MachineInv /\ JobsInv /\ ApiInv /\ UpdInv /\ LateInv
      /\ FlightInv /\ BackupsInv
  BY Zenon DEF IInv, Rest
<1>2. (MachineInv /\ JobsInv /\ FlightInv /\ ApiInv)'
  BY <1>1, SMTT(30) DEF OtherThanUpd, Save, UpdRuns, UpdaterMark, disk, machine, oppositeCopy, ApiInv,
      FlightInv, JobsInv, MachineInv, UpdInv, ActiveIs, Copy, Early, Fresh, Idle, InFlight, Job,
      Late, Partial, Placed, SameCopies, Staged, Unset, Updating, Verifying
<1>3. (UpdInv /\ LateInv /\ BackupsInv)'
  BY <1>1 DEF OtherThanUpd, Save, UpdRuns, UpdaterMark, disk, machine, oppositeCopy, BackupsInv,
      LateInv, TypeOK, UpdInv, ActiveIs, Copy, Early, Fresh, Job, JobFile, Late, Partial,
      Placed, Process, Rebooting, SameCopies, Switching, Updating, Verifying
<1> QED
  BY <1>2, <1>3, Zenon DEF Rest

\* The copy that is overwritten is not the one that runs, and no job that is
\* in flight counts on it.
LEMMA SwupdateStartKeeps ==
  ASSUME IInv, SwupdateStart
  PROVE  Rest'
<1>1. /\ TypeOK /\ MachineInv /\ JobsInv /\ ApiInv /\ UpdInv /\ LateInv
      /\ FlightInv /\ BackupsInv
  BY Zenon DEF IInv, Rest
<1>2. (MachineInv /\ JobsInv)'
  BY <1>1, SMTT(30) DEF At, OtherThanUpd, SwupdateStart, UpdGoto, UpdRuns, machine, store, JobsInv,
      MachineInv, TypeOK, UpdInv, Copy, Early, Fresh, Idle, Job, JobFile, Late, Partial, Placed,
      Process, SameCopies, Unset, Updating, Verifying, oppositeCopy
<1>3. (FlightInv /\ ApiInv)'
  BY <1>1 DEF At, OtherThanUpd, SwupdateStart, UpdGoto, UpdRuns, machine, store, ApiInv,
      FlightInv, JobsInv, UpdInv, ActiveIs, Copy, Early, Fresh, InFlight, Job, Late, Partial,
      Placed, SameCopies, Staged, Updating, Verifying, oppositeCopy
<1>4. UpdInv'
  BY <1>1, SMTT(30) DEF At, OtherThanUpd, SwupdateStart, UpdGoto, UpdRuns, machine, store, LateInv,
      MachineInv, TypeOK, UpdInv, Copy, Early, Fresh, Idle, Job, JobFile, Late, Partial, Placed,
      Process, Rebooting, SameCopies, Unset, Updating, Verifying, oppositeCopy
<1>5. LateInv'
  BY <1>1 DEF At, OtherThanUpd, SwupdateStart, UpdGoto, UpdRuns, machine, store, LateInv,
      UpdInv, Copy, Early, Fresh, Late, Partial, Placed, Rebooting, SameCopies, Updating,
      Verifying, oppositeCopy
<1>6. BackupsInv'
  BY <1>1, SMTT(30) DEF At, OtherThanUpd, SwupdateStart, UpdGoto, UpdRuns, machine, store, BackupsInv,
      TypeOK, UpdInv, ActiveIs, Copy, Fresh, Job, JobFile, Partial, Placed, Process, SameCopies,
      Switching, Updating, Verifying, oppositeCopy
<1> QED
  BY <1>2, <1>3, <1>4, <1>5, <1>6, Zenon DEF Rest

\* The other copy now holds the whole image, the one that runs another one.
LEMMA SwupdateEndKeeps ==
  ASSUME IInv, SwupdateEnd
  PROVE  Rest'
<1>1. /\ TypeOK /\ MachineInv /\ JobsInv /\ ApiInv /\ UpdInv /\ LateInv
      /\ FlightInv /\ BackupsInv
  BY Zenon DEF IInv, Rest
<1>2. (MachineInv /\ JobsInv /\ FlightInv /\ ApiInv)'
  BY <1>1, SMTT(30) DEF At, OtherThanUpd, SwupdateEnd, UpdGoto, UpdRuns, machine, store, ApiInv,
      FlightInv, JobsInv, MachineInv, TypeOK, UpdInv, ActiveIs, Copy, Early, Fresh, Idle,
      InFlight, Job, JobFile, Late, Partial, Placed, Process, SameCopies, Staged, Unset,
      Updating, Verifying, oppositeCopy
<1>3. (UpdInv /\ LateInv)'
  BY <1>1, SMTT(30) DEF At, OtherThanUpd, SwupdateEnd, UpdGoto, UpdRuns, machine, store, JobsInv, LateInv,
      MachineInv, TypeOK, UpdInv, Copy, Early, Fresh, Idle, Job, JobFile, Late, Partial, Placed,
      Process, Rebooting, SameCopies, Unset, Updating, Verifying, oppositeCopy
<1>4. BackupsInv'
  BY <1>1 DEF At, OtherThanUpd, SwupdateEnd, UpdGoto, UpdRuns, machine, store, ApiInv,
      BackupsInv, TypeOK, UpdInv, ActiveIs, Copy, Fresh, Job, JobFile, Late, Partial, Placed,
      Process, SameCopies, Staged, Switching, Updating, Verifying, oppositeCopy
<1> QED
  BY <1>2, <1>3, <1>4, Zenon DEF Rest

\* A job is "installed" with both copies in place.
LEMMA UpdaterInstalledKeeps ==
  ASSUME IInv, UpdaterInstalled
  PROVE  Rest'
<1>1. /\ TypeOK /\ MachineInv /\ JobsInv /\ ApiInv /\ UpdInv /\ LateInv
      /\ FlightInv /\ BackupsInv
  BY Zenon DEF IInv, Rest
<1>2. (MachineInv /\ JobsInv /\ FlightInv /\ ApiInv)'
  BY <1>1, SMTT(30) DEF At, OtherThanUpd, Save, UpdGoto, UpdRuns, UpdaterInstalled, disk, machine, ApiInv,
      FlightInv, JobsInv, MachineInv, UpdInv, ActiveIs, Copy, Early, Fresh, Idle, InFlight, Job,
      Late, Partial, Placed, SameCopies, Staged, Unset, Updating, Verifying, oppositeCopy
<1>3. (UpdInv /\ LateInv /\ BackupsInv)'
  BY <1>1, SMTT(30) DEF At, OtherThanUpd, Save, UpdGoto, UpdRuns, UpdaterInstalled, disk, machine, ApiInv,
      BackupsInv, LateInv, TypeOK, UpdInv, ActiveIs, Copy, Early, Fresh, Job, JobFile, Late,
      Partial, Placed, Process, Rebooting, SameCopies, Staged, Switching, Updating, Verifying,
      oppositeCopy
<1> QED
  BY <1>2, <1>3, Zenon DEF Rest

\* The switch is ahead, and the backup is there.
LEMMA UpdaterSelectKeeps ==
  ASSUME IInv, UpdaterSelect
  PROVE  Rest'
<1>1. /\ TypeOK /\ MachineInv /\ JobsInv /\ ApiInv /\ UpdInv /\ LateInv
      /\ FlightInv /\ BackupsInv
  BY Zenon DEF IInv, Rest
<1>2. CASE setCopy(upd.target) /\ UpdGoto("await")
  <2>1. (/\ MachineInv /\ JobsInv /\ FlightInv /\ ApiInv /\ UpdInv
         /\ LateInv /\ BackupsInv)'
    BY <1>1, <1>2, SMTT(30) DEF At, Fault, OtherThanUpd, UpdGoto, UpdRuns, UpdaterSelect, machine, setCopy,
        setCopyFails, store, ApiInv, BackupsInv, FlightInv, JobsInv, LateInv, MachineInv, TypeOK,
        UpdInv, ActiveIs, Copy, Early, Fresh, Idle, InFlight, Job, JobFile, Late, Partial, Placed,
        Process, Rebooting, SameCopies, Staged, Switching, Unset, Updating, Verifying,
        oppositeCopy
  <2> QED
    BY <2>1, Zenon DEF Rest
<1>3. CASE setCopyFails /\ UpdGoto("unselect")
  <2>1. (MachineInv /\ JobsInv /\ FlightInv /\ ApiInv)'
    BY <1>1, <1>3 DEF At, Fault, OtherThanUpd, UpdGoto, UpdRuns, UpdaterSelect, machine, setCopy,
        setCopyFails, store, ApiInv, BackupsInv, FlightInv, JobsInv, MachineInv, ActiveIs, Copy,
        Early, Fresh, Idle, InFlight, Job, Late, Partial, Placed, SameCopies, Staged, Switching,
        Unset, oppositeCopy
  <2>2. UpdInv'
    BY <1>1, <1>3 DEF At, Fault, OtherThanUpd, UpdGoto, UpdRuns, UpdaterSelect, machine, setCopy,
        setCopyFails, store, ApiInv, BackupsInv, JobsInv, LateInv, MachineInv, TypeOK, UpdInv,
        ActiveIs, Copy, Early, Fresh, Idle, Job, JobFile, Late, Partial, Placed, Process,
        Rebooting, SameCopies, Staged, Switching, Unset, Updating, Verifying, oppositeCopy
  <2>3. LateInv'
    BY <1>1, <1>3 DEF At, Fault, OtherThanUpd, UpdGoto, UpdRuns, UpdaterSelect, machine, setCopy,
        setCopyFails, store, LateInv, Copy, Early, Fresh, Late, Partial, Placed, Rebooting,
        SameCopies, Verifying, oppositeCopy
  <2>4. BackupsInv'
    BY <1>1, <1>3, SMTT(30) DEF At, Fault, OtherThanUpd, UpdGoto, UpdRuns, UpdaterSelect, machine, setCopy,
        setCopyFails, store, ApiInv, BackupsInv, TypeOK, UpdInv, ActiveIs, Copy, Fresh, Job,
        JobFile, Late, Partial, Placed, Process, SameCopies, Staged, Switching, Updating,
        Verifying, oppositeCopy
  <2> QED
    BY <2>1, <2>2, <2>3, <2>4, Zenon DEF Rest
<1> QED
  BY <1>2, <1>3, Zenon DEF UpdaterSelect

\* The updater leaves an installed job behind.
LEMMA UpdaterAwaitKeeps ==
  ASSUME IInv, UpdaterAwait
  PROVE  Rest'
<1>1. /\ TypeOK /\ MachineInv /\ JobsInv /\ ApiInv /\ UpdInv /\ LateInv
      /\ FlightInv /\ BackupsInv
  BY Zenon DEF IInv, Rest
<1>2. (MachineInv /\ JobsInv /\ FlightInv /\ ApiInv)'
  BY <1>1, SMTT(30) DEF Idle, OtherThanUpd, Save, UpdExits, UpdRuns, UpdaterAwait, disk, machine, ApiInv,
      FlightInv, JobsInv, MachineInv, UpdInv, ActiveIs, Copy, Early, Fresh, InFlight, Job, Late,
      Partial, Placed, SameCopies, Staged, Unset, Updating, Verifying, oppositeCopy
<1>3. (UpdInv /\ LateInv /\ BackupsInv)'
  BY <1>1, SMTT(30) DEF Idle, OtherThanUpd, Save, UpdExits, UpdRuns, UpdaterAwait, disk, machine,
      BackupsInv, LateInv, UpdInv, ActiveIs, Copy, Early, Fresh, Late, Partial, Placed,
      Rebooting, SameCopies, Switching, Unset, Updating, Verifying, oppositeCopy
<1> QED
  BY <1>2, <1>3, Zenon DEF Rest

\* The selection goes back to the copy that runs, or a script has failed.
LEMMA UpdaterUnselectKeeps ==
  ASSUME IInv, UpdaterUnselect
  PROVE  Rest'
<1>1. /\ TypeOK /\ MachineInv /\ JobsInv /\ ApiInv /\ UpdInv /\ LateInv
      /\ FlightInv /\ BackupsInv
  BY Zenon DEF IInv, Rest
<1>2. (MachineInv /\ JobsInv /\ FlightInv /\ ApiInv)'
  BY <1>1, SMTT(30) DEF At, Fault, OtherThanUpd, UpdGoto, UpdRuns, UpdaterUnselect, machine, setCopy,
      setCopyFails, store, ApiInv, FlightInv, JobsInv, MachineInv, ActiveIs, Copy, Early, Fresh,
      Idle, InFlight, Job, Late, Partial, Placed, SameCopies, Staged, Unset, oppositeCopy
<1>3. (UpdInv /\ LateInv /\ BackupsInv)'
  BY <1>1, SMTT(30) DEF At, Fault, OtherThanUpd, UpdGoto, UpdRuns, UpdaterUnselect, machine, setCopy,
      setCopyFails, store, ApiInv, BackupsInv, LateInv, TypeOK, UpdInv, ActiveIs, Copy, Early,
      Fresh, Job, JobFile, Late, Partial, Placed, Process, Rebooting, SameCopies, Staged,
      Switching, Updating, Verifying, oppositeCopy
<1> QED
  BY <1>2, <1>3, Zenon DEF Rest

\* The backup goes when no switch is ahead.
LEMMA UpdaterFailKeeps ==
  ASSUME IInv, UpdaterFail
  PROVE  Rest'
<1>1. /\ TypeOK /\ MachineInv /\ JobsInv /\ ApiInv /\ UpdInv /\ LateInv
      /\ FlightInv /\ BackupsInv
  BY Zenon DEF IInv, Rest
<1>2. (/\ MachineInv /\ JobsInv /\ FlightInv /\ ApiInv /\ UpdInv
       /\ LateInv /\ BackupsInv)'
  BY <1>1, SMTT(30) DEF At, OtherThanUpd, UpdGoto, UpdRuns, UpdaterFail, deactivateBackup, machine, store,
      ApiInv, BackupsInv, FlightInv, JobsInv, LateInv, MachineInv, UpdInv, ActiveIs, Copy,
      Early, Fresh, Idle, InFlight, Job, Late, Partial, Placed, Rebooting, SameCopies, Staged,
      Switching, Unset, Updating, Verifying, oppositeCopy
<1> QED
  BY <1>2, Zenon DEF Rest

\* The job ends.
LEMMA UpdaterFailedKeeps ==
  ASSUME IInv, UpdaterFailed
  PROVE  Rest'
<1>1. /\ TypeOK /\ MachineInv /\ JobsInv /\ ApiInv /\ UpdInv /\ LateInv
      /\ FlightInv /\ BackupsInv
  BY Zenon DEF IInv, Rest
<1>2. (MachineInv /\ JobsInv)'
  BY <1>1, SMTT(30) DEF Idle, OtherThanUpd, Save, UpdExits, UpdRuns, UpdaterFailed, disk, machine, ApiInv,
      BackupsInv, FlightInv, JobsInv, MachineInv, UpdInv, ActiveIs, Copy, Early, Fresh,
      InFlight, Job, Late, Partial, Placed, SameCopies, Staged, Switching, Unset, Updating,
      Verifying, oppositeCopy
<1>3. (FlightInv /\ ApiInv)'
  BY <1>1, SMTT(30) DEF Idle, OtherThanUpd, Save, UpdExits, UpdRuns, UpdaterFailed, disk, machine, ApiInv,
      BackupsInv, FlightInv, JobsInv, MachineInv, UpdInv, ActiveIs, Copy, Early, Fresh,
      InFlight, Job, Late, Partial, Placed, SameCopies, Staged, Switching, Unset, Updating,
      Verifying, oppositeCopy
<1>4. (UpdInv /\ LateInv)'
  BY <1>1, SMTT(30) DEF Idle, OtherThanUpd, Save, UpdExits, UpdRuns, UpdaterFailed, disk, machine,
      BackupsInv, LateInv, UpdInv, ActiveIs, Copy, Early, Fresh, Late, Partial, Placed,
      Rebooting, SameCopies, Switching, Unset, Updating, Verifying, oppositeCopy
<1>5. BackupsInv'
  BY <1>1, SMTT(30) DEF Idle, OtherThanUpd, Save, UpdExits, UpdRuns, UpdaterFailed, disk, machine,
      BackupsInv, LateInv, UpdInv, ActiveIs, Copy, Early, Fresh, Late, Partial, Placed,
      Rebooting, SameCopies, Switching, Unset, Updating, Verifying, oppositeCopy
<1> QED
  BY <1>2, <1>3, <1>4, <1>5, Zenon DEF Rest

\* The unit loads a job that awaits its reboot.
LEMMA RebootStartKeeps ==
  ASSUME IInv, RebootStart
  PROVE  Rest'
<1>1. /\ TypeOK /\ MachineInv /\ JobsInv /\ ApiInv /\ UpdInv /\ LateInv
      /\ FlightInv /\ BackupsInv
  BY Zenon DEF IInv, Rest
<1>2. (MachineInv /\ JobsInv)'
  BY <1>1, SMTT(30) DEF Idle, Load, RebootStart, disk, machine, store, ApiInv, FlightInv, JobsInv,
      MachineInv, ActiveIs, Copy, Early, Fresh, InFlight, Job, Late, Partial, Placed,
      SameCopies, Staged, Unset, oppositeCopy
<1>3. (FlightInv /\ ApiInv)'
  BY <1>1, SMTT(30) DEF Idle, Load, RebootStart, disk, machine, store, ApiInv, FlightInv, JobsInv,
      MachineInv, ActiveIs, Copy, Early, Fresh, InFlight, Job, Late, Partial, Placed,
      SameCopies, Staged, Unset, oppositeCopy
<1>4. (UpdInv /\ LateInv)'
  BY <1>1 DEF Idle, Load, RebootStart, disk, machine, store, BackupsInv, FlightInv, JobsInv,
      LateInv, UpdInv, ActiveIs, Copy, Early, Fresh, InFlight, Job, Late, Partial, Placed,
      Rebooting, SameCopies, Switching, Unset, Updating, Verifying, oppositeCopy
<1>5. BackupsInv'
  BY <1>1, ZenonT(30) DEF Idle, Load, RebootStart, disk, machine, store, BackupsInv, FlightInv, JobsInv,
      LateInv, UpdInv, ActiveIs, Copy, Early, Fresh, InFlight, Job, Late, Partial, Placed,
      Rebooting, SameCopies, Switching, Unset, Updating, Verifying, oppositeCopy
<1> QED
  BY <1>2, <1>3, <1>4, <1>5, Zenon DEF Rest

\* A job that was cancelled meanwhile comes back with its copies in place.
LEMMA RebootSaveKeeps ==
  ASSUME IInv, RebootSave
  PROVE  Rest'
<1>1. /\ TypeOK /\ MachineInv /\ JobsInv /\ ApiInv /\ UpdInv /\ LateInv
      /\ FlightInv /\ BackupsInv
  BY Zenon DEF IInv, Rest
<1>2. (MachineInv /\ JobsInv)'
  BY <1>1, SMTT(30) DEF At, RebootSave, Save, disk, machine, ApiInv, BackupsInv, FlightInv, JobsInv,
      LateInv, MachineInv, ActiveIs, Copy, Early, Fresh, Idle, InFlight, Job, Late, Partial,
      Placed, Rebooting, SameCopies, Staged, Switching, Unset, Verifying, oppositeCopy
<1>3. (FlightInv /\ ApiInv)'
  BY <1>1, SMTT(30) DEF At, RebootSave, Save, disk, machine, ApiInv, BackupsInv, FlightInv, JobsInv,
      LateInv, MachineInv, ActiveIs, Copy, Early, Fresh, Idle, InFlight, Job, Late, Partial,
      Placed, Rebooting, SameCopies, Staged, Switching, Unset, Verifying, oppositeCopy
<1>4. (UpdInv /\ LateInv)'
  BY <1>1, SMTT(30) DEF At, RebootSave, Save, disk, machine, ApiInv, BackupsInv, JobsInv, LateInv,
      MachineInv, UpdInv, ActiveIs, Copy, Early, Fresh, Idle, Job, Late, Partial, Placed,
      Rebooting, SameCopies, Staged, Switching, Unset, Updating, Verifying, oppositeCopy
<1>5. BackupsInv'
  BY <1>1, SMTT(30) DEF At, RebootSave, Save, disk, machine, ApiInv, BackupsInv, JobsInv, LateInv,
      MachineInv, UpdInv, ActiveIs, Copy, Early, Fresh, Idle, Job, Late, Partial, Placed,
      Rebooting, SameCopies, Staged, Switching, Unset, Updating, Verifying, oppositeCopy
<1> QED
  BY <1>2, <1>3, <1>4, <1>5, Zenon DEF Rest

\* Nobody runs while the machine is down.
LEMMA RebootNowKeeps ==
  ASSUME IInv, RebootNow
  PROVE  Rest'
<1>1. /\ TypeOK /\ MachineInv /\ JobsInv /\ ApiInv /\ UpdInv /\ LateInv
      /\ FlightInv /\ BackupsInv
  BY Zenon DEF IInv, Rest
<1>2. (MachineInv /\ JobsInv)'
  BY <1>1, SMTT(30) DEF Down, Idle, RebootNow, disk, store, ApiInv, BackupsInv, FlightInv, JobsInv,
      LateInv, MachineInv, UpdInv, ActiveIs, Copy, Early, Fresh, InFlight, Job, Late, Partial,
      Placed, Rebooting, SameCopies, Staged, Switching, Unset, Updating, Verifying, oppositeCopy
<1>3. (FlightInv /\ ApiInv)'
  BY <1>1, SMTT(30) DEF Down, Idle, RebootNow, disk, store, ApiInv, BackupsInv, FlightInv, JobsInv,
      LateInv, MachineInv, UpdInv, ActiveIs, Copy, Early, Fresh, InFlight, Job, Late, Partial,
      Placed, Rebooting, SameCopies, Staged, Switching, Unset, Updating, Verifying, oppositeCopy
<1>4. (UpdInv /\ LateInv)'
  BY <1>1, SMTT(30) DEF Down, Idle, RebootNow, disk, store, ApiInv, BackupsInv, FlightInv, JobsInv,
      LateInv, MachineInv, UpdInv, ActiveIs, Copy, Early, Fresh, InFlight, Job, Late, Partial,
      Placed, Rebooting, SameCopies, Staged, Switching, Unset, Updating, Verifying, oppositeCopy
<1>5. BackupsInv'
  BY <1>1, SMTT(30) DEF Down, Idle, RebootNow, disk, store, ApiInv, BackupsInv, FlightInv, JobsInv,
      LateInv, MachineInv, UpdInv, ActiveIs, Copy, Early, Fresh, InFlight, Job, Late, Partial,
      Placed, Rebooting, SameCopies, Staged, Switching, Unset, Updating, Verifying, oppositeCopy
<1> QED
  BY <1>2, <1>3, <1>4, <1>5, Zenon DEF Rest

\* The copy that is started is whole, and it is the selected one.
LEMMA BootKeeps ==
  ASSUME IInv, Boot
  PROVE  Rest'
<1>1. /\ TypeOK /\ MachineInv /\ JobsInv /\ ApiInv /\ UpdInv /\ LateInv
      /\ FlightInv /\ BackupsInv
  BY Zenon DEF IInv, Rest
<1>2. (MachineInv /\ JobsInv /\ FlightInv /\ ApiInv)'
  BY <1>1, SMTT(30) DEF Boot, store, ApiInv, FlightInv, JobsInv, MachineInv, ActiveIs, Copy, Early, Fresh,
      Idle, InFlight, Job, Late, Partial, Placed, SameCopies, Staged, Unset, oppositeCopy
<1>3. (UpdInv /\ LateInv /\ BackupsInv)'
  BY <1>1, SMTT(30) DEF Boot, store, BackupsInv, LateInv, MachineInv, UpdInv, ActiveIs, Copy, Early,
      Fresh, Idle, Late, Partial, Placed, Rebooting, SameCopies, Switching, Unset, Updating,
      Verifying, oppositeCopy
<1> QED
  BY <1>2, <1>3, Zenon DEF Rest

\* The verifier loads an installed job while the updater is out.
LEMMA VerifyStartKeeps ==
  ASSUME IInv, VerifyStart
  PROVE  Rest'
<1>1. /\ TypeOK /\ MachineInv /\ JobsInv /\ ApiInv /\ UpdInv /\ LateInv
      /\ FlightInv /\ BackupsInv
  BY Zenon DEF IInv, Rest
<1>2. (MachineInv /\ JobsInv)'
  BY <1>1, SMTT(30) DEF Idle, Load, Locked, NeedsVerification, VerifyEntry, VerifyStart, disk, machine,
      store, ApiInv, BackupsInv, FlightInv, JobsInv, LateInv, MachineInv, UpdInv, ActiveIs,
      Copy, Early, Fresh, InFlight, Job, Late, Partial, Placed, Rebooting, SameCopies, Staged,
      Switching, Unset, Updating, Verifying, oppositeCopy
<1>3. (FlightInv /\ ApiInv)'
  BY <1>1, SMTT(30) DEF Idle, Load, Locked, NeedsVerification, VerifyEntry, VerifyStart, disk, machine,
      store, ApiInv, BackupsInv, FlightInv, JobsInv, LateInv, MachineInv, UpdInv, ActiveIs,
      Copy, Early, Fresh, InFlight, Job, Late, Partial, Placed, Rebooting, SameCopies, Staged,
      Switching, Unset, Updating, Verifying, oppositeCopy
<1>4. (UpdInv /\ LateInv)'
  BY <1>1, SMTT(30) DEF Idle, Load, Locked, NeedsVerification, VerifyEntry, VerifyStart, disk, machine,
      store, ApiInv, BackupsInv, FlightInv, JobsInv, LateInv, MachineInv, UpdInv, ActiveIs,
      Copy, Early, Fresh, InFlight, Job, Late, Partial, Placed, Rebooting, SameCopies, Staged,
      Switching, Unset, Updating, Verifying, oppositeCopy
<1>5. BackupsInv'
  BY <1>1, SMTT(30) DEF Idle, Load, Locked, NeedsVerification, VerifyEntry, VerifyStart, disk, machine,
      store, ApiInv, BackupsInv, FlightInv, JobsInv, LateInv, MachineInv, UpdInv, ActiveIs,
      Copy, Early, Fresh, InFlight, Job, Late, Partial, Placed, Rebooting, SameCopies, Staged,
      Switching, Unset, Updating, Verifying, oppositeCopy
<1> QED
  BY <1>2, <1>3, <1>4, <1>5, Zenon DEF Rest

\* The job is still "installed", so it is the active one.
LEMMA VerifyAwaitKeeps ==
  ASSUME IInv, VerifyAwait
  PROVE  Rest'
<1>1. /\ TypeOK /\ MachineInv /\ JobsInv /\ ApiInv /\ UpdInv /\ LateInv
      /\ FlightInv /\ BackupsInv
  BY Zenon DEF IInv, Rest
<1>2. (MachineInv /\ JobsInv)'
  BY <1>1, SMTT(30) DEF Idle, OtherThanVer, Save, VerReturns, VerRuns, VerifyAwait, disk, machine,
      JobsInv, LateInv, MachineInv, Copy, Early, Fresh, Job, Late, Partial, Placed, Rebooting,
      SameCopies, Unset, Verifying, oppositeCopy
<1>3. (FlightInv /\ ApiInv)'
  BY <1>1, SMTT(30) DEF Idle, OtherThanVer, Save, VerReturns, VerRuns, VerifyAwait, disk, machine, ApiInv,
      FlightInv, LateInv, ActiveIs, Copy, Early, Fresh, InFlight, Late, Partial, Placed,
      Rebooting, SameCopies, Staged, Unset, Verifying, oppositeCopy
<1>4. (UpdInv /\ LateInv /\ BackupsInv)'
  BY <1>1, SMTT(30) DEF Idle, OtherThanVer, Save, VerReturns, VerRuns, VerifyAwait, disk, machine,
      BackupsInv, JobsInv, LateInv, UpdInv, ActiveIs, Copy, Early, Fresh, Job, Late, Partial,
      Placed, Rebooting, SameCopies, Switching, Unset, Updating, Verifying, oppositeCopy
<1> QED
  BY <1>2, <1>3, <1>4, Zenon DEF Rest

\* A job that was cancelled meanwhile comes back with its copies in place.
LEMMA VerifyMarkKeeps ==
  ASSUME IInv, VerifyMark
  PROVE  Rest'
<1>1. /\ TypeOK /\ MachineInv /\ JobsInv /\ ApiInv /\ UpdInv /\ LateInv
      /\ FlightInv /\ BackupsInv
  BY Zenon DEF IInv, Rest
<1>2. (MachineInv /\ JobsInv)'
  BY <1>1, SMTT(30) DEF At, OtherThanVer, Save, VerGoto, VerRuns, VerifyMark, disk, machine, ApiInv,
      BackupsInv, FlightInv, JobsInv, LateInv, MachineInv, UpdInv, ActiveIs, Copy, Early, Fresh,
      Idle, InFlight, Job, Late, Partial, Placed, Rebooting, SameCopies, Staged, Switching,
      Unset, Updating, Verifying, oppositeCopy
<1>3. (FlightInv /\ ApiInv)'
  BY <1>1, SMTT(30) DEF At, OtherThanVer, Save, VerGoto, VerRuns, VerifyMark, disk, machine, ApiInv,
      BackupsInv, FlightInv, JobsInv, LateInv, MachineInv, UpdInv, ActiveIs, Copy, Early, Fresh,
      Idle, InFlight, Job, Late, Partial, Placed, Rebooting, SameCopies, Staged, Switching,
      Unset, Updating, Verifying, oppositeCopy
<1>4. (UpdInv /\ LateInv)'
  BY <1>1, SMTT(30) DEF At, OtherThanVer, Save, VerGoto, VerRuns, VerifyMark, disk, machine, ApiInv,
      BackupsInv, FlightInv, JobsInv, LateInv, MachineInv, UpdInv, ActiveIs, Copy, Early, Fresh,
      Idle, InFlight, Job, Late, Partial, Placed, Rebooting, SameCopies, Staged, Switching,
      Unset, Updating, Verifying, oppositeCopy
<1>5. BackupsInv'
  BY <1>1, SMTT(30) DEF At, OtherThanVer, Save, VerGoto, VerRuns, VerifyMark, disk, machine, ApiInv,
      BackupsInv, FlightInv, JobsInv, LateInv, MachineInv, UpdInv, ActiveIs, Copy, Early, Fresh,
      Idle, InFlight, Job, Late, Partial, Placed, Rebooting, SameCopies, Staged, Switching,
      Unset, Updating, Verifying, oppositeCopy
<1> QED
  BY <1>2, <1>3, <1>4, <1>5, Zenon DEF Rest

\* What is checked stays so: nobody writes a copy while the verifier runs.
LEMMA VerifyCheckKeeps ==
  ASSUME IInv, VerifyCheck
  PROVE  Rest'
<1>1. /\ TypeOK /\ MachineInv /\ JobsInv /\ ApiInv /\ UpdInv /\ LateInv
      /\ FlightInv /\ BackupsInv
  BY Zenon DEF IInv, Rest
<1>2. (MachineInv /\ JobsInv /\ FlightInv /\ ApiInv)'
  BY <1>1 DEF At, OtherThanVer, VerGoto, VerRuns, VerifyCheck, disk, machine, store, ApiInv,
      FlightInv, JobsInv, MachineInv, ActiveIs, Copy, Early, Fresh, Idle, InFlight, Job, Late,
      Partial, Placed, SameCopies, Staged, Unset, oppositeCopy
<1>3. UpdInv'
  BY <1>1 DEF At, OtherThanVer, VerGoto, VerRuns, VerifyCheck, disk, machine, store, UpdInv,
      Copy, Fresh, Partial, Placed, SameCopies, Updating, Verifying, oppositeCopy
<1>4. LateInv'
  BY <1>1, SMTT(30) DEF At, OtherThanVer, VerGoto, VerRuns, VerifyCheck, disk, machine, store, JobsInv,
      LateInv, MachineInv, TypeOK, Copy, Early, Fresh, Idle, Job, JobFile, Late, Partial,
      Placed, Process, Rebooting, SameCopies, Unset, Verifying, oppositeCopy
<1>5. BackupsInv'
  BY <1>1 DEF At, OtherThanVer, VerGoto, VerRuns, VerifyCheck, disk, machine, store, BackupsInv,
      TypeOK, ActiveIs, Copy, Job, JobFile, Process, Switching
<1> QED
  BY <1>2, <1>3, <1>4, <1>5, Zenon DEF Rest

\* The backup goes when the machine runs the new image or stays on the old.
LEMMA VerifyDeactivateKeeps ==
  ASSUME IInv, VerifyDeactivate
  PROVE  Rest'
<1>1. /\ TypeOK /\ MachineInv /\ JobsInv /\ ApiInv /\ UpdInv /\ LateInv
      /\ FlightInv /\ BackupsInv
  BY Zenon DEF IInv, Rest
<1>2. (MachineInv /\ JobsInv /\ FlightInv /\ ApiInv)'
  BY <1>1, SMTT(30) DEF At, OtherThanVer, VerGoto, VerifyDeactivate, deactivateBackup, machine, store,
      ApiInv, BackupsInv, FlightInv, JobsInv, MachineInv, ActiveIs, Copy, Early, Fresh, Idle,
      InFlight, Job, Late, Partial, Placed, SameCopies, Staged, Switching, Unset, oppositeCopy
<1>3. (UpdInv /\ LateInv)'
  BY <1>1, SMTT(30) DEF At, OtherThanVer, VerGoto, VerifyDeactivate, deactivateBackup, machine, store,
      LateInv, TypeOK, UpdInv, Copy, Early, Fresh, Job, JobFile, Late, Partial, Placed, Process,
      Rebooting, SameCopies, Updating, Verifying, oppositeCopy
<1>4. BackupsInv'
  BY <1>1, SMTT(30) DEF At, OtherThanVer, VerGoto, VerifyDeactivate, deactivateBackup, machine, store,
      BackupsInv, LateInv, TypeOK, UpdInv, ActiveIs, Copy, Early, Fresh, Job, JobFile, Late,
      Partial, Placed, Process, Rebooting, SameCopies, Switching, Updating, Verifying,
      oppositeCopy
<1> QED
  BY <1>2, <1>3, <1>4, Zenon DEF Rest

\* The job ends.
LEMMA VerifySaveKeeps ==
  ASSUME IInv, VerifySave
  PROVE  Rest'
<1>1. /\ TypeOK /\ MachineInv /\ JobsInv /\ ApiInv /\ UpdInv /\ LateInv
      /\ FlightInv /\ BackupsInv
  BY Zenon DEF IInv, Rest
<1>2. MachineInv'
  BY <1>1, Zenon DEF Idle, OtherThanVer, Save, VerReturns, VerifySave, disk, machine, JobsInv,
      MachineInv, Copy, Early, Fresh, Job, Late, Partial, Unset
<1>3. JobsInv'
  BY <1>1, SMTT(30) DEF Idle, OtherThanVer, Save, VerReturns, VerifySave, disk, machine, JobsInv,
      MachineInv, Copy, Early, Fresh, Job, Late, Partial, Unset
<1>4. FlightInv'
  BY <1>1, SMTT(30) DEF Idle, OtherThanVer, Save, VerReturns, VerifySave, disk, machine, ApiInv,
      FlightInv, LateInv, ActiveIs, Copy, Early, Fresh, InFlight, Late, Partial, Placed,
      Rebooting, SameCopies, Staged, Unset, Verifying, oppositeCopy
<1>5. ApiInv'
  BY <1>1, SMTT(30) DEF Idle, OtherThanVer, Save, VerReturns, VerifySave, disk, machine, ApiInv,
      FlightInv, LateInv, ActiveIs, Copy, Early, Fresh, InFlight, Late, Partial, Placed,
      Rebooting, SameCopies, Staged, Unset, Verifying, oppositeCopy
<1>6. (UpdInv /\ LateInv)'
  BY <1>1, SMTT(30) DEF Idle, OtherThanVer, Save, VerReturns, VerifySave, disk, machine, BackupsInv,
      LateInv, UpdInv, ActiveIs, Copy, Early, Fresh, Late, Partial, Placed, Rebooting,
      SameCopies, Switching, Unset, Updating, Verifying, oppositeCopy
<1>7. BackupsInv'
  BY <1>1, SMTT(30) DEF Idle, OtherThanVer, Save, VerReturns, VerifySave, disk, machine, BackupsInv,
      LateInv, UpdInv, ActiveIs, Copy, Early, Fresh, Late, Partial, Placed, Rebooting,
      SameCopies, Switching, Unset, Updating, Verifying, oppositeCopy
<1> QED
  BY <1>2, <1>3, <1>4, <1>5, <1>6, <1>7, Zenon DEF Rest

\* The selection is put back before the verifier does anything else.
LEMMA RollbackKeeps ==
  ASSUME IInv, rollback
  PROVE  Rest'
<1>1. /\ TypeOK /\ MachineInv /\ JobsInv /\ ApiInv /\ UpdInv /\ LateInv
      /\ FlightInv /\ BackupsInv
  BY Zenon DEF IInv, Rest
<1>2. (MachineInv /\ JobsInv /\ FlightInv /\ ApiInv)'
  BY <1>1, SMTT(30) DEF At, OtherThanVer, Save, VerGoto, VerRuns, disk, machine, rollback, ApiInv,
      BackupsInv, FlightInv, JobsInv, LateInv, MachineInv, UpdInv, ActiveIs, Copy, Early, Fresh,
      Idle, InFlight, Job, Late, Partial, Placed, Rebooting, SameCopies, Staged, Switching,
      Unset, Updating, Verifying, oppositeCopy
<1>3. (UpdInv /\ LateInv /\ BackupsInv)'
  BY <1>1 DEF At, OtherThanVer, Save, VerGoto, VerRuns, disk, machine, rollback, BackupsInv,
      LateInv, UpdInv, ActiveIs, Copy, Early, Fresh, Late, Partial, Placed, Rebooting,
      SameCopies, Switching, Updating, Verifying, oppositeCopy
<1> QED
  BY <1>2, <1>3, Zenon DEF Rest

\* The copy that is selected does not hold the image of the active job.
LEMMA RollbackSelectKeeps ==
  ASSUME IInv, RollbackSelect
  PROVE  Rest'
<1>1. /\ TypeOK /\ MachineInv /\ JobsInv /\ ApiInv /\ UpdInv /\ LateInv
      /\ FlightInv /\ BackupsInv
  BY Zenon DEF IInv, Rest
<1>2. CASE setCopy(ver.prev) /\ VerGoto("reboot")
  <2>1. (MachineInv /\ JobsInv /\ FlightInv /\ ApiInv)'
    BY <1>1, <1>2, SMTT(30) DEF At, Fault, OtherThanVer, RollbackSelect, VerGoto, VerRuns, machine, setCopy,
        setCopyFails, store, ApiInv, FlightInv, JobsInv, MachineInv, ActiveIs, Copy, Early, Fresh,
        Idle, InFlight, Job, Late, Partial, Placed, SameCopies, Staged, Unset, oppositeCopy
  <2>2. (UpdInv /\ LateInv /\ BackupsInv)'
    BY <1>1, <1>2, SMTT(30) DEF At, Fault, OtherThanVer, RollbackSelect, VerGoto, VerRuns, machine, setCopy,
        setCopyFails, store, ApiInv, BackupsInv, FlightInv, JobsInv, LateInv, TypeOK, UpdInv,
        ActiveIs, Copy, Early, Fresh, InFlight, Job, JobFile, Late, Partial, Placed, Process,
        Rebooting, SameCopies, Staged, Switching, Updating, Verifying, oppositeCopy
  <2> QED
    BY <2>1, <2>2, Zenon DEF Rest
<1>3. CASE setCopyFails /\ VerGoto("fail")
  <2>1. (/\ MachineInv /\ JobsInv /\ FlightInv /\ ApiInv /\ UpdInv
         /\ LateInv /\ BackupsInv)'
    BY <1>1, <1>3, SMTT(30) DEF At, Fault, OtherThanVer, RollbackSelect, VerGoto, VerRuns, machine, setCopy,
        setCopyFails, store, ApiInv, BackupsInv, FlightInv, JobsInv, LateInv, MachineInv, TypeOK,
        UpdInv, ActiveIs, Copy, Early, Fresh, Idle, InFlight, Job, JobFile, Late, Partial, Placed,
        Process, Rebooting, SameCopies, Staged, Switching, Unset, Updating, Verifying,
        oppositeCopy
  <2> QED
    BY <2>1, Zenon DEF Rest
<1> QED
  BY <1>2, <1>3, ZenonT(30) DEF RollbackSelect

\* Nobody runs while the machine is down.
LEMMA RollbackRebootKeeps ==
  ASSUME IInv, RollbackReboot
  PROVE  Rest'
<1>1. /\ TypeOK /\ MachineInv /\ JobsInv /\ ApiInv /\ UpdInv /\ LateInv
      /\ FlightInv /\ BackupsInv
  BY Zenon DEF IInv, Rest
<1>2. (MachineInv /\ JobsInv)'
  BY <1>1, SMTT(30) DEF Down, Idle, RollbackReboot, VerRuns, disk, store, ApiInv, BackupsInv, FlightInv,
      JobsInv, LateInv, MachineInv, UpdInv, ActiveIs, Copy, Early, Fresh, InFlight, Job, Late,
      Partial, Placed, Rebooting, SameCopies, Staged, Switching, Unset, Updating, Verifying,
      oppositeCopy
<1>3. (FlightInv /\ ApiInv)'
  BY <1>1, SMTT(30) DEF Down, Idle, RollbackReboot, VerRuns, disk, store, ApiInv, BackupsInv, FlightInv,
      JobsInv, LateInv, MachineInv, UpdInv, ActiveIs, Copy, Early, Fresh, InFlight, Job, Late,
      Partial, Placed, Rebooting, SameCopies, Staged, Switching, Unset, Updating, Verifying,
      oppositeCopy
<1>4. (UpdInv /\ LateInv)'
  BY <1>1, SMTT(30) DEF Down, Idle, RollbackReboot, VerRuns, disk, store, ApiInv, BackupsInv, FlightInv,
      JobsInv, LateInv, MachineInv, UpdInv, ActiveIs, Copy, Early, Fresh, InFlight, Job, Late,
      Partial, Placed, Rebooting, SameCopies, Staged, Switching, Unset, Updating, Verifying,
      oppositeCopy
<1>5. BackupsInv'
  BY <1>1, SMTT(30) DEF Down, Idle, RollbackReboot, VerRuns, disk, store, ApiInv, BackupsInv, FlightInv,
      JobsInv, LateInv, MachineInv, UpdInv, ActiveIs, Copy, Early, Fresh, InFlight, Job, Late,
      Partial, Placed, Rebooting, SameCopies, Staged, Switching, Unset, Updating, Verifying,
      oppositeCopy
<1> QED
  BY <1>2, <1>3, <1>4, <1>5, Zenon DEF Rest

\* Nobody runs while the machine is down.
LEMMA PowerLossKeeps ==
  ASSUME IInv, PowerLoss
  PROVE  Rest'
<1>1. /\ TypeOK /\ MachineInv /\ JobsInv /\ ApiInv /\ UpdInv /\ LateInv
      /\ FlightInv /\ BackupsInv
  BY Zenon DEF IInv, Rest
<1>2. (MachineInv /\ JobsInv)'
  BY <1>1, SMTT(30) DEF Down, Fault, Idle, PowerLoss, disk, store, ApiInv, BackupsInv, FlightInv, JobsInv,
      LateInv, MachineInv, UpdInv, ActiveIs, Copy, Early, Fresh, InFlight, Job, Late, Partial,
      Placed, Rebooting, SameCopies, Staged, Switching, Unset, Updating, Verifying, oppositeCopy
<1>3. (FlightInv /\ ApiInv)'
  BY <1>1, SMTT(30) DEF Down, Fault, Idle, PowerLoss, disk, store, ApiInv, BackupsInv, FlightInv, JobsInv,
      LateInv, MachineInv, UpdInv, ActiveIs, Copy, Early, Fresh, InFlight, Job, Late, Partial,
      Placed, Rebooting, SameCopies, Staged, Switching, Unset, Updating, Verifying, oppositeCopy
<1>4. (UpdInv /\ LateInv)'
  BY <1>1, SMTT(30) DEF Down, Fault, Idle, PowerLoss, disk, store, ApiInv, BackupsInv, FlightInv, JobsInv,
      LateInv, MachineInv, UpdInv, ActiveIs, Copy, Early, Fresh, InFlight, Job, Late, Partial,
      Placed, Rebooting, SameCopies, Staged, Switching, Unset, Updating, Verifying, oppositeCopy
<1>5. BackupsInv'
  BY <1>1 DEF Down, Fault, Idle, PowerLoss, disk, store, ApiInv, BackupsInv, FlightInv, JobsInv,
      LateInv, MachineInv, UpdInv, ActiveIs, Copy, Early, Fresh, InFlight, Job, Late, Partial,
      Placed, Rebooting, SameCopies, Staged, Switching, Unset, Updating, Verifying, oppositeCopy
<1> QED
  BY <1>2, <1>3, <1>4, <1>5, Zenon DEF Rest

\* A handler that dies leaves a job file that nobody else has loaded.
LEMMA ApiRestartKeeps ==
  ASSUME IInv, ApiRestart
  PROVE  Rest'
<1>1. /\ TypeOK /\ MachineInv /\ JobsInv /\ ApiInv /\ UpdInv /\ LateInv
      /\ FlightInv /\ BackupsInv
  BY Zenon DEF IInv, Rest
<1>2. (MachineInv /\ JobsInv /\ FlightInv /\ ApiInv)'
  BY <1>1, SMTT(30) DEF ApiRestart, Fault, Idle, disk, machine, store, ApiInv, FlightInv, JobsInv,
      MachineInv, ActiveIs, Copy, Early, Fresh, InFlight, Job, Late, Partial, Placed,
      SameCopies, Staged, Unset, oppositeCopy
<1>3. (UpdInv /\ LateInv)'
  BY <1>1 DEF ApiRestart, Fault, Idle, disk, machine, store, LateInv, UpdInv, Copy, Early,
      Fresh, Late, Partial, Placed, Rebooting, SameCopies, Unset, Updating, Verifying,
      oppositeCopy
<1>4. BackupsInv'
  BY <1>1, SMTT(30) DEF ApiRestart, Fault, Idle, disk, machine, store, BackupsInv, TypeOK, ActiveIs, Copy,
      Job, JobFile, Process, Switching, Unset
<1> QED
  BY <1>2, <1>3, <1>4, Zenon DEF Rest

\* A unit that dies leaves the job in the state it last wrote.
LEMMA UnitDiesKeeps ==
  ASSUME IInv, UnitDies
  PROVE  Rest'
<1>1. /\ TypeOK /\ MachineInv /\ JobsInv /\ ApiInv /\ UpdInv /\ LateInv
      /\ FlightInv /\ BackupsInv
  BY Zenon DEF IInv, Rest
<1>2. (MachineInv /\ JobsInv /\ FlightInv /\ ApiInv)'
  BY <1>1, SMTT(30) DEF Fault, Idle, UnitDies, disk, machine, store, ApiInv, FlightInv, JobsInv,
      MachineInv, ActiveIs, Copy, Early, Fresh, InFlight, Job, Late, Partial, Placed,
      SameCopies, Staged, Unset, oppositeCopy
<1>3. (UpdInv /\ LateInv)'
  BY <1>1 DEF Fault, Idle, UnitDies, disk, machine, store, BackupsInv, FlightInv, JobsInv,
      LateInv, UpdInv, ActiveIs, Copy, Early, Fresh, InFlight, Job, Late, Partial, Placed,
      Rebooting, SameCopies, Switching, Unset, Updating, Verifying, oppositeCopy
<1>4. BackupsInv'
  BY <1>1, SMTT(30) DEF Fault, Idle, UnitDies, disk, machine, store, BackupsInv, TypeOK, ActiveIs, Copy,
      Job, JobFile, Process, Switching, Unset
<1> QED
  BY <1>2, <1>3, <1>4, Zenon DEF Rest

\* All the steps together.
LEMMA Kept ==
  ASSUME IInv, Next
  PROVE  Rest'
<1>1. ASSUME NEW j \in Job, Validate(j) \/ Install(j) \/ Reboot(j)
                                \/ Cancel(j) \/ DeletePackage(j)
      PROVE  Rest'
  BY <1>1, ValidateKeeps, InstallKeeps, RebootKeeps, CancelKeeps, DeletePackageKeeps, Zenon
<1> QED
  BY <1>1, UploadKeeps, UploadActivateKeeps, UploadBodyKeeps, ValidatedKeeps,
      InstallSaveKeeps, InstallStartKeeps, CancelSelectKeeps, CancelDeactivateKeeps,
      CancelSaveKeeps, CancelUnlinkKeeps, UpdaterStartKeeps, UpdaterCheckKeeps,
      CreateUpgradeBackupKeeps, UpdaterMarkKeeps, SwupdateStartKeeps, SwupdateEndKeeps,
      UpdaterInstalledKeeps, UpdaterSelectKeeps, UpdaterAwaitKeeps, UpdaterUnselectKeeps,
      UpdaterFailKeeps, UpdaterFailedKeeps, RebootStartKeeps, RebootSaveKeeps, RebootNowKeeps,
      BootKeeps, VerifyStartKeeps, VerifyAwaitKeeps, VerifyMarkKeeps, VerifyCheckKeeps,
      VerifyDeactivateKeeps, VerifySaveKeeps, RollbackKeeps, RollbackSelectKeeps,
      RollbackRebootKeeps, PowerLossKeeps, ApiRestartKeeps, UnitDiesKeeps, Zenon DEF Next,
      ApiRequest, ApiStep, UpdaterStep, RebootStep, VerifyStep, FaultStep

\* Nothing is under way before the first upload.
LEMMA InitIInv == Init => IInv
<1> SUFFICES ASSUME Init PROVE IInv
  BY Zenon
<1>1. TypeOK
  BY SMTT(30) DEF Init, TypeOK, Idle, Process, JobFile, State, Job, Copy, Image, Host, Unset, Partial,
    ApiPc, UpdPc, RbtPc, VerPc
<1>2. MachineInv /\ JobsInv /\ ApiInv /\ UpdInv /\ LateInv
  BY DEF Init, Idle, Job, Copy, Partial, Unset, MachineInv, JobsInv, ApiInv, UpdInv, LateInv,
    Early, Late, Fresh, Updating, Rebooting, Verifying, Staged
<1>3. FlightInv /\ BackupsInv
  BY Zenon DEF Init, Idle, FlightInv, BackupsInv, ActiveIs, Switching
<1> QED
  BY <1>1, <1>2, <1>3, Zenon DEF IInv, Rest

\* No step of any process, in any order, and no fault leaves the invariant.
LEMMA Inductive == IInv /\ [Next]_vars => IInv'
<1>1. CASE Next
  BY <1>1, Typed, Kept, Zenon DEF IInv
<1>2. CASE UNCHANGED vars
  <2> USE <1>2 DEF vars, store, disk, machine, procs
  <2>1. TypeOK => TypeOK'
    BY Zenon DEF TypeOK
  <2>2. MachineInv /\ JobsInv => (MachineInv /\ JobsInv)'
    BY ZenonT(30) DEF MachineInv, JobsInv, Fresh
  <2>3. ApiInv => ApiInv'
    BY SMTT(30) DEF ApiInv, Staged, Placed, SameCopies, Fresh
  <2>4. UpdInv => UpdInv'
    BY SMTT(30) DEF UpdInv, Updating, Verifying, Placed, SameCopies, Fresh
  <2>5. LateInv => LateInv'
    BY SMTT(30) DEF LateInv, Rebooting, Verifying, Placed, SameCopies, Fresh
  <2>6. FlightInv /\ BackupsInv => (FlightInv /\ BackupsInv)'
    BY DEF FlightInv, BackupsInv, ActiveIs, Placed, Switching
  <2> QED
    BY <2>1, <2>2, <2>3, <2>4, <2>5, <2>6, Zenon DEF IInv, Rest
<1> QED
  BY <1>1, <1>2, Zenon

\* A Save of another state makes no job a success.
LEMMA SavesOther ==
  ASSUME TypeOK, NEW p, NEW st, st # "success", Save(p, st),
         NEW j \in Job, jobs[j].st # "success"
  PROVE  jobs'[j].st # "success"
BY Zenon DEF TypeOK, Save

\* The same of the handlers that change the state in a file.
LEMMA MarksOther ==
  ASSUME TypeOK, NEW k \in Job, NEW st, st # "success", jobs' = [jobs EXCEPT ![k].st = st],
         NEW j \in Job, jobs[j].st # "success"
  PROVE  jobs'[j].st # "success"
BY DEF TypeOK, JobFile

\* The verifier saves a success where its checks have passed, and every other
\* step saves another state or none.
LEMMA SuccessStep ==
  ASSUME IInv, Next, NEW j \in Job, jobs[j].st # "success", jobs'[j].st = "success"
  PROVE  running = jobs[j].target /\ img[running] = j /\ j \in done[running]
<1>1. TypeOK /\ UpdInv /\ LateInv
  BY ZenonT(30) DEF IInv, Rest
<1>2. CASE VerifySave
  BY <1>1, <1>2 DEF VerifySave, VerRuns, Save, TypeOK, LateInv, Verifying, SameCopies
<1>3. ~UNCHANGED jobs
  BY Zenon
<1>4. ASSUME NEW k \in Job, Validate(k)
      PROVE  FALSE
  <2>1. jobs' = [jobs EXCEPT ![k].st = "validating"]
    BY <1>4, Zenon DEF Validate
  <2> QED
    BY <1>1, <2>1, MarksOther, Zenon
<1>5. ASSUME NEW k \in Job, Install(k) \/ Reboot(k) \/ Cancel(k) \/ DeletePackage(k)
      PROVE  FALSE
  BY <1>3, <1>5, Zenon DEF Install, Reboot, Cancel, DeletePackage, store
<1>6. upd.pc = "check" => upd.st = "installing"
  BY <1>1, Zenon DEF UpdInv, Updating
<1>7. ~UpdaterCheck
  BY <1>1, <1>3, <1>6, SavesOther, Zenon DEF UpdaterCheck, UpdRuns
<1>8. ~Upload
  <2> SUFFICES ASSUME Upload PROVE FALSE
    BY Zenon
  <2>1. PICK k \in Job : jobs' = [jobs EXCEPT ![k].st = "uploading"]
    BY Zenon DEF Upload
  <2> QED
    BY <1>1, <2>1, MarksOther, Zenon
<1>9. ~UploadBody /\ ~Validated /\ ~InstallSave /\ ~InstallStart
  BY <1>1, <1>3, SavesOther, Zenon DEF UploadBody, Validated, InstallSave, InstallStart
<1>10. ~CancelSave /\ ~UpdaterMark /\ ~UpdaterInstalled /\ ~UpdaterAwait
  BY <1>1, <1>3, SavesOther, Zenon DEF CancelSave, UpdaterMark, UpdaterInstalled, UpdaterAwait
<1>11. ~UpdaterFailed /\ ~RebootSave /\ ~VerifyAwait /\ ~VerifyMark
  BY <1>1, <1>3, SavesOther, Zenon DEF UpdaterFailed, RebootSave, VerifyAwait, VerifyMark
<1>12. ~rollback
  BY <1>1, <1>3, SavesOther, Zenon DEF rollback
<1>13. ~UploadActivate /\ ~CancelSelect /\ ~CancelDeactivate /\ ~CancelUnlink /\ ~UpdaterStart
      /\ ~createUpgradeBackup /\ ~SwupdateStart /\ ~SwupdateEnd /\ ~UpdaterSelect /\
      ~UpdaterUnselect /\ ~UpdaterFail /\ ~RebootStart /\ ~RebootNow /\ ~Boot /\ ~VerifyStart
      /\ ~VerifyCheck /\ ~VerifyDeactivate /\ ~RollbackSelect /\ ~RollbackReboot /\ ~PowerLoss
      /\ ~ApiRestart /\ ~UnitDies
  BY <1>3, Zenon DEF UploadActivate, CancelSelect, CancelDeactivate, CancelUnlink, UpdaterStart,
    createUpgradeBackup, SwupdateStart, SwupdateEnd, UpdaterSelect, UpdaterUnselect,
    UpdaterFail, RebootStart, RebootNow, Boot, VerifyStart, VerifyCheck, VerifyDeactivate,
    RollbackSelect, RollbackReboot, PowerLoss, ApiRestart, UnitDies, store
<1> QED
  BY <1>2, <1>4, <1>5, <1>7, <1>8, <1>9, <1>10, <1>11, <1>12, <1>13, Zenon DEF Next,
      ApiRequest, ApiStep, UpdaterStep, RebootStep, VerifyStep, FaultStep

-----------------------------------------------------------------------------
\* The invariant holds in every reachable state.
LEMMA Invariant == Spec => []IInv
BY InitIInv, Inductive, PTL DEF Spec

\* For any number of jobs and of faults: every variable keeps its type.
THEOREM TypeCorrect == Spec => []TypeOK
<1>1. IInv => TypeOK
  BY Zenon DEF IInv
<1> QED
  BY <1>1, Invariant, PTL

\* From the end of the write to the end of the job, the target copy holds the
\* image of the job and the other one a whole older system: no upload, cancel,
\* stale write of a job file, crash or power loss touches either.
THEOREM CopiesIntact == Spec => []BothCopiesIntact
<1>1. IInv => BothCopiesIntact
  BY Zenon DEF IInv, Rest, FlightInv, Placed, BothCopiesIntact
<1> QED
  BY <1>1, Invariant, PTL

\* As long as only the power has failed, the next boot never switches to an
\* image whose backup is gone.
THEOREM SwitchBackedUp == Spec => []SwitchHasBackup
<1>1. IInv => SwitchHasBackup
  BY Zenon DEF IInv, Rest, BackupsInv, Switching, SwitchHasBackup
<1> QED
  BY <1>1, Invariant, PTL

\* A job becomes a success only while the machine runs the image of that job
\* from its target copy, with the backup restored.
THEOREM SuccessVerified == Spec => SuccessIsVerified
<1>1. IInv /\ [Next]_vars =>
        [\A j \in Job : jobs[j].st # "success" /\ jobs'[j].st = "success" =>
           running = jobs[j].target /\ img[running] = j /\ j \in done[running]]_vars
  BY SuccessStep, Zenon
<1> QED
  BY <1>1, Invariant, PTL DEF Spec, SuccessIsVerified
=============================================================================
