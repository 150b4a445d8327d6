------------------------- MODULE AsyncProviderProofs -----------------------
(***************************************************************************)
(* For any number of jobs and any bound on what the vendor does, the       *)
(* provider implements the safety part of the HAL's contract.  Inv is      *)
(* inductive; under it every step of the provider is a step of HalAsync or *)
(* leaves ret, cb and session as they are.                                 *)
(***************************************************************************)
EXTENDS AsyncProvider, TLAPS

\* Inv holds of a session just created, before any submit().
LEMMA InitInv == Init => Inv
BY VendorCallsAssumption DEF Init, Inv, Retired, TypeOK, JobInv, CallbackOwned

\* Every critical section of the provider keeps the types.
LEMMA TypeStep == ASSUME TypeOK, [Next]_vars PROVE TypeOK'
<1>1. ASSUME NEW j \in Jobs, Submit(j) PROVE TypeOK'
  BY <1>1, VendorCallsAssumption DEF TypeOK, Submit
<1>2. ASSUME NEW j \in Jobs, SubmitterStep(j) PROVE TypeOK'
  <2>1. CASE CallVendor(j)
    BY <2>1, VendorCallsAssumption DEF TypeOK, CallVendor
  <2>2. CASE MarkAccepted(j)
    BY <2>2, VendorCallsAssumption DEF TypeOK, MarkAccepted
  <2>3. CASE LeaveVendor(j)
    BY <2>3, VendorCallsAssumption DEF TypeOK, LeaveVendor
  <2>4. CASE FinishActive(j)
    BY <2>4, VendorCallsAssumption DEF TypeOK, FinishActive
  <2>5. CASE Decide(j)
    BY <2>5, VendorCallsAssumption DEF TypeOK, Decide
  <2>6. CASE Return(j)
    BY <2>6, VendorCallsAssumption DEF TypeOK, Return
  <2> QED
    BY <1>2, <2>1, <2>2, <2>3, <2>4, <2>5, <2>6 DEF SubmitterStep
<1>3. ASSUME NEW j \in Jobs, Complete(j) PROVE TypeOK'
  BY <1>3, VendorCallsAssumption DEF TypeOK, Complete
<1>4. ASSUME NEW j \in Jobs, StartCallback(j) \/ EndCallback(j) \/ Retire(j) PROVE TypeOK'
  BY <1>4, VendorCallsAssumption DEF TypeOK, StartCallback, EndCallback, Retire
<1>5. CASE Close \/ Destroy \/ UNCHANGED vars
  BY <1>5 DEF TypeOK, Close, Destroy, vars
<1> QED
  BY <1>1, <1>2, <1>3, <1>4, <1>5 DEF Next

\* One step of job j keeps JobInv of every job, and of a destroyed session.
LEMMA JobStep ==
  ASSUME Inv, [Next]_vars, NEW k \in Jobs PROVE JobInv(k)'
<1> USE DEF TypeOK, JobInv, CallbackOwned
<1>1. ASSUME NEW j \in Jobs, Submit(j) PROVE JobInv(k)'
  BY <1>1 DEF Inv, Submit
<1>2. ASSUME NEW j \in Jobs, SubmitterStep(j) PROVE JobInv(k)'
  <2>1. CASE CallVendor(j)
    BY <2>1, VendorCallsAssumption DEF Inv, CallVendor
  <2>2. CASE MarkAccepted(j)
    BY <2>2 DEF Inv, MarkAccepted
  <2>3. CASE LeaveVendor(j)
    BY <2>3 DEF Inv, LeaveVendor
  <2>4. CASE FinishActive(j)
    BY <2>4 DEF Inv, FinishActive
  <2>5. CASE Decide(j)
    BY <2>5 DEF Inv, Decide
  <2>6. CASE Return(j)
    BY <2>6 DEF Inv, Return
  <2> QED
    BY <1>2, <2>1, <2>2, <2>3, <2>4, <2>5, <2>6 DEF SubmitterStep
<1>3. ASSUME NEW j \in Jobs, Complete(j) PROVE JobInv(k)'
  BY <1>3 DEF Inv, Complete
<1>4. ASSUME NEW j \in Jobs, StartCallback(j) PROVE JobInv(k)'
  BY <1>4 DEF Inv, StartCallback
<1>5. ASSUME NEW j \in Jobs, EndCallback(j) PROVE JobInv(k)'
  BY <1>5 DEF Inv, EndCallback
<1>6. ASSUME NEW j \in Jobs, Retire(j) PROVE JobInv(k)'
  BY <1>6 DEF Inv, Retire
<1>7. CASE Close \/ Destroy \/ UNCHANGED vars
  BY <1>7 DEF Inv, Close, Destroy, vars
<1> QED
  BY <1>1, <1>2, <1>3, <1>4, <1>5, <1>6, <1>7 DEF Next

\* Inv is inductive: whatever thread moves, it holds again.
LEMMA StepInv == ASSUME Inv, [Next]_vars PROVE Inv'
<1>1. TypeOK'
  BY TypeStep DEF Inv
<1>2. \A k \in Jobs : JobInv(k)'
  BY JobStep
<1>3. Retired'
  <2>1. ASSUME NEW j \in Jobs, Submit(j) \/ SubmitterStep(j) PROVE Retired'
    BY <2>1 DEF Inv, Retired, TypeOK, Submit, SubmitterStep, CallVendor, MarkAccepted,
                LeaveVendor, FinishActive, Decide, Return
  <2>2. ASSUME NEW j \in Jobs, Complete(j) \/ StartCallback(j) \/ EndCallback(j) \/ Retire(j)
        PROVE Retired'
    BY <2>2 DEF Inv, Retired, TypeOK, Complete, StartCallback, EndCallback, Retire
  <2>3. CASE Close \/ Destroy \/ UNCHANGED vars
    BY <2>3 DEF Inv, Retired, Close, Destroy, vars
  <2> QED
    BY <2>1, <2>2, <2>3 DEF Next
<1> QED
  BY <1>1, <1>2, <1>3 DEF Inv

\* Inv, which ties each job's Context to its submitter, its callback and the
\* session's list of pending jobs, holds in every reachable state.
THEOREM Invariance == SafeSpec => []Inv
<1>1. Init => Inv
  BY InitInv
<1>2. Inv /\ [Next]_vars => Inv'
  BY StepInv
<1> QED
  BY <1>1, <1>2, PTL DEF SafeSpec

\* A session just created looks to the caller as the contract says.
LEMMA InitMaps == Init => Contract!Init
BY DEF Init, Contract!Init, RetOf, CbOf

\* Steps the caller cannot see.
LEMMA Stutter ==
  ASSUME session' = session,
         \A k \in Jobs : RetOf(k)' = RetOf(k) /\ CbOf(k)' = CbOf(k)
  PROVE  UNCHANGED Contract!vars
BY DEF Contract!vars

\* A step of job j's threads leaves what the caller sees of the other jobs.
LEMMA OthersUnchanged ==
  ASSUME Inv, NEW j \in Jobs, NEW k \in Jobs, k # j,
         \/ Submit(j) \/ SubmitterStep(j) \/ Complete(j)
         \/ StartCallback(j) \/ EndCallback(j) \/ Retire(j)
  PROVE  RetOf(k)' = RetOf(k) /\ CbOf(k)' = CbOf(k)
BY DEF Inv, TypeOK, RetOf, CbOf, Submit, SubmitterStep, CallVendor, MarkAccepted,
       LeaveVendor, FinishActive, Decide, Return, Complete, StartCallback, EndCallback, Retire

\* A step of job j's threads changes what the caller sees at j only.
LEMMA OnlyJob ==
  ASSUME Inv, NEW j \in Jobs,
         \/ Submit(j) \/ SubmitterStep(j) \/ Complete(j)
         \/ StartCallback(j) \/ EndCallback(j) \/ Retire(j)
  PROVE  /\ session' = session
         /\ [k \in Jobs |-> RetOf(k)]' = [[k \in Jobs |-> RetOf(k)] EXCEPT ![j] = RetOf(j)']
         /\ [k \in Jobs |-> CbOf(k)]' = [[k \in Jobs |-> CbOf(k)] EXCEPT ![j] = CbOf(j)']
<1>1. \A k \in Jobs : k # j => RetOf(k)' = RetOf(k) /\ CbOf(k)' = CbOf(k)
  BY OthersUnchanged
<1>2. session' = session
  BY DEF Submit, SubmitterStep, CallVendor, MarkAccepted, LeaveVendor, FinishActive, Decide,
         Return, Complete, StartCallback, EndCallback, Retire
<1> QED
  BY Zenon, <1>1, <1>2

\* So the step is the one of the contract that makes this change at j.
LEMMA SeenStep ==
  ASSUME Inv, NEW j \in Jobs,
         \/ Submit(j) \/ SubmitterStep(j) \/ Complete(j)
         \/ StartCallback(j) \/ EndCallback(j) \/ Retire(j)
  PROVE  /\ RetOf(j) = "none" /\ RetOf(j)' = "in" /\ CbOf(j)' = CbOf(j) /\ session # "destroyed"
               => Contract!Enter(j)
         /\ RetOf(j) = "in" /\ RetOf(j)' = "ok" /\ CbOf(j)' = CbOf(j)
               /\ (session = "destroyed" => CbOf(j) = "done") => Contract!ReturnOk(j)
         /\ RetOf(j) = "in" /\ RetOf(j)' = "err" /\ CbOf(j)' = CbOf(j)
               /\ CbOf(j) # "running" => Contract!ReturnErr(j)
         /\ RetOf(j) \in {"in", "ok"} /\ RetOf(j)' = RetOf(j) /\ CbOf(j) = "none"
               /\ CbOf(j)' = "running" /\ session # "destroyed" => Contract!Start(j)
         /\ RetOf(j)' = RetOf(j) /\ CbOf(j) = "running" /\ CbOf(j)' = "done" => Contract!Finish(j)
         /\ RetOf(j)' = RetOf(j) /\ CbOf(j)' = CbOf(j) => UNCHANGED Contract!vars
<1> DEFINE ret == [k \in Jobs |-> RetOf(k)]
           cb == [k \in Jobs |-> CbOf(k)]
<1>1. /\ session' = session
      /\ ret' = [ret EXCEPT ![j] = RetOf(j)']
      /\ cb' = [cb EXCEPT ![j] = CbOf(j)']
  BY Zenon, OnlyJob
<1>2. RetOf(j)' = RetOf(j) => ret' = ret
  BY Zenon, <1>1
<1>3. CbOf(j)' = CbOf(j) => cb' = cb
  BY Zenon, <1>1
<1>4. ret[j] = RetOf(j) /\ cb[j] = CbOf(j)
  OBVIOUS
<1> HIDE DEF ret, cb
<1> QED
  BY Zenon, <1>1, <1>2, <1>3, <1>4 DEF ret, cb, Contract!Enter, Contract!ReturnOk, Contract!ReturnErr,
     Contract!Start, Contract!Finish, Contract!vars

\* Every step of the provider is a step of the contract or is hidden from the caller.
LEMMA StepMaps ==
  ASSUME Inv, [Next]_vars PROVE [Contract!Next]_(Contract!vars)
<1> USE DEF TypeOK, JobInv, CallbackOwned, RetOf, CbOf
<1>1. ASSUME NEW j \in Jobs, Submit(j) PROVE Contract!Enter(j)
  <2>1. /\ RetOf(j) = "none" /\ RetOf(j)' = "in" /\ CbOf(j)' = CbOf(j)
        /\ session # "destroyed"
    BY <1>1 DEF Inv, Submit
  <2> QED
    BY <1>1, <2>1, SeenStep
<1>2. ASSUME NEW j \in Jobs, SubmitterStep(j)
      PROVE  Contract!ReturnOk(j) \/ Contract!ReturnErr(j) \/ UNCHANGED Contract!vars
  <2>1. CASE CallVendor(j) \/ MarkAccepted(j) \/ LeaveVendor(j) \/ FinishActive(j)
    <3>1. RetOf(j)' = RetOf(j) /\ CbOf(j)' = CbOf(j)
      BY <2>1 DEF Inv, CallVendor, MarkAccepted, LeaveVendor, FinishActive
    <3> QED
      BY <1>2, <3>1, SeenStep
  <2>2. CASE Decide(j)
    <3>1. /\ RetOf(j) = "in" /\ CbOf(j)' = CbOf(j)
          /\ RetOf(j)' \in {"in", "ok"} /\ session # "destroyed"
      BY <2>2 DEF Inv, Retired, Decide
    <3> QED
      BY <1>2, <3>1, SeenStep
  <2>3. CASE Return(j)
    <3>1. /\ RetOf(j) = "in" /\ CbOf(j)' = CbOf(j)
          /\ \/ RetOf(j)' = "ok" /\ CbOf(j) = "done"
             \/ RetOf(j)' = "err" /\ CbOf(j) # "running"
      BY <2>3 DEF Inv, Return
    <3> QED
      BY <1>2, <3>1, SeenStep
  <2> QED
    BY <1>2, <2>1, <2>2, <2>3 DEF SubmitterStep
<1>3. ASSUME NEW j \in Jobs, Complete(j) \/ Retire(j) PROVE UNCHANGED Contract!vars
  <2>1. RetOf(j)' = RetOf(j) /\ CbOf(j)' = CbOf(j)
    BY <1>3 DEF Inv, Complete, Retire
  <2> QED
    BY <1>3, <2>1, SeenStep
<1>4. ASSUME NEW j \in Jobs, StartCallback(j) PROVE Contract!Start(j)
  <2>1. /\ RetOf(j) \in {"in", "ok"} /\ RetOf(j)' = RetOf(j)
        /\ CbOf(j) = "none" /\ CbOf(j)' = "running" /\ session # "destroyed"
    BY <1>4 DEF Inv, Retired, StartCallback
  <2> QED
    BY <1>4, <2>1, SeenStep
<1>5. ASSUME NEW j \in Jobs, EndCallback(j) PROVE Contract!Finish(j)
  <2>1. RetOf(j)' = RetOf(j) /\ CbOf(j) = "running" /\ CbOf(j)' = "done"
    BY <1>5 DEF Inv, EndCallback
  <2> QED
    BY <1>5, <2>1, SeenStep
<1>6. CASE Close
  BY <1>6 DEF Inv, Close, Contract!Close, Contract!Next
<1>7. CASE Destroy
  BY <1>7 DEF Inv, Destroy, Contract!Destroy, Contract!Next
<1>8. CASE UNCHANGED vars
  BY <1>8, Stutter DEF vars
<1> HIDE DEF TypeOK, JobInv, CallbackOwned, RetOf, CbOf
<1> QED
  BY <1>1, <1>2, <1>3, <1>4, <1>5, <1>6, <1>7, <1>8 DEF Next, Contract!Next

\* Whatever the vendor does, hailo15's provider keeps the safety part of the
\* HAL's contract: at most one callback per job, none after an error, and no
\* session freed while a callback of it runs or is owed.
THEOREM Refinement == SafeSpec => Contract!SafeSpec
<1>1. Init => Contract!Init
  BY InitMaps
<1>2. Inv /\ [Next]_vars => [Contract!Next]_(Contract!vars)
  BY StepMaps
<1> QED
  BY <1>1, <1>2, Invariance, PTL DEF SafeSpec, Contract!SafeSpec
=============================================================================
