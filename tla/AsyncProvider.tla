--------------------------- MODULE AsyncProvider ---------------------------
(***************************************************************************)
(* Hailo15AsyncProviderLifecycle: how a session of the hailo15 backend     *)
(* turns the vendor's run_async into the HAL's contract.  A job's Context  *)
(* arbitrates between the thread that submits it and the vendor's thread   *)
(* that completes it.  The vendor is not trusted: once called it may       *)
(* complete a job before its own call returns, more than once, or after    *)
(* having refused it.                                                      *)
(*                                                                         *)
(* An action is one critical section of the code, or one call between two. *)
(***************************************************************************)
EXTENDS Naturals

CONSTANTS Jobs,          \* the calls of hailo15_infer_run_async
          VendorCalls    \* bound: how often the vendor completes one job

ASSUME VendorCallsAssumption == VendorCalls \in Nat \ {0}

VARIABLES pc,        \* pc[j]: where the submitting thread is in submit()
          flags,     \* flags[j]: the booleans of the job's Context that are true
          accepted,  \* the jobs whose vendor_submit returned accepted()
          vendor,    \* vendor[j]: completions the vendor may still make
          run,       \* run[j]: where invoke_and_retire is
          mutex,     \* the jobs inside vendor_submit_mu (at most one)
          pending,   \* SharedState::pending
          active,    \* the jobs SharedState::active_submissions counts
          session    \* "open", "closing" (SharedState::closing), "destroyed"

vars == <<pc, flags, accepted, vendor, run, mutex, pending, active, session>>

TypeOK ==
    /\ pc \in [Jobs -> {"idle", "lock", "vendor", "marked", "finish", "decide",
                        "invoke", "refused", "ok", "err"}]
    /\ flags \in [Jobs -> SUBSET {"submitting", "vendor_accepted", "completion_claimed",
                                  "rejected", "retired"}]
    /\ accepted \in SUBSET Jobs
    /\ vendor \in [Jobs -> 0..VendorCalls]
    /\ run \in [Jobs -> {"none", "start", "running", "ended", "over"}]
    /\ mutex \in SUBSET Jobs
    /\ pending \in SUBSET Jobs
    /\ active \in SUBSET Jobs
    /\ session \in {"open", "closing", "destroyed"}

Init ==
    /\ pc = [j \in Jobs |-> "idle"]
    /\ flags = [j \in Jobs |-> {"submitting"}]
    /\ accepted = {}
    /\ vendor = [j \in Jobs |-> 0]
    /\ run = [j \in Jobs |-> "none"]
    /\ mutex = {}
    /\ pending = {}
    /\ active = {}
    /\ session = "open"

-----------------------------------------------------------------------------
\* submit() is entered: refused when the session is closing, else registered.
\* Nobody calls it once the session is freed (callers serialize with destroy).
Submit(j) ==
    /\ pc[j] = "idle"
    /\ \/ /\ session = "closing"
          /\ pc' = [pc EXCEPT ![j] = "refused"]
          /\ UNCHANGED <<pending, active>>
       \/ /\ session = "open"
          /\ pc' = [pc EXCEPT ![j] = "lock"]
          /\ pending' = pending \cup {j}
          /\ active' = active \cup {j}
    /\ UNCHANGED <<flags, accepted, vendor, run, mutex, session>>

\* vendor_submit_mu is taken; the wait for a free slot and the binding of the
\* tensors succeed, and the vendor's run_async is called.
CallVendor(j) ==
    /\ pc[j] = "lock"
    /\ mutex = {}
    /\ pc' = [pc EXCEPT ![j] = "vendor"]
    /\ mutex' = {j}
    /\ vendor' = [vendor EXCEPT ![j] = VendorCalls]
    /\ UNCHANGED <<flags, accepted, run, pending, active, session>>

\* The vendor took the job: mark_vendor_accepted.
MarkAccepted(j) ==
    /\ pc[j] = "vendor"
    /\ pc' = [pc EXCEPT ![j] = "marked"]
    /\ flags' = [flags EXCEPT ![j] =
          IF @ \cap {"rejected", "retired"} = {} THEN @ \cup {"vendor_accepted"} ELSE @]
    /\ UNCHANGED <<accepted, vendor, run, mutex, pending, active, session>>

\* vendor_submit returns: rejected() before the vendor was called or because it
\* refused, accepted() after MarkAccepted, or an exception after MarkAccepted.
LeaveVendor(j) ==
    /\ \/ pc[j] = "lock" /\ mutex = {} /\ UNCHANGED <<accepted, mutex>>
       \/ pc[j] = "vendor" /\ mutex' = {} /\ UNCHANGED accepted
       \/ pc[j] = "marked" /\ mutex' = {} /\ accepted' \in {accepted, accepted \cup {j}}
    /\ pc' = [pc EXCEPT ![j] = "finish"]
    /\ UNCHANGED <<flags, vendor, run, pending, active, session>>

FinishActive(j) ==
    /\ pc[j] = "finish"
    /\ pc' = [pc EXCEPT ![j] = "decide"]
    /\ active' = active \ {j}
    /\ UNCHANGED <<flags, accepted, vendor, run, mutex, pending, session>>

\* The critical section at the end of submit(): who owns the completion?
CallbackOwned(j) ==
    j \in accepted \/ flags[j] \cap {"vendor_accepted", "completion_claimed"} # {}

Decide(j) ==
    /\ pc[j] = "decide"
    /\ \/ /\ "completion_claimed" \in flags[j]       \* the submitter invokes
          /\ flags' = [flags EXCEPT ![j] = @ \ {"submitting"}]
          /\ run' = [run EXCEPT ![j] = "start"]
          /\ pc' = [pc EXCEPT ![j] = "invoke"]
       \/ /\ "completion_claimed" \notin flags[j]    \* the vendor will
          /\ CallbackOwned(j)
          /\ flags' = [flags EXCEPT ![j] = @ \ {"submitting"}]
          /\ pc' = [pc EXCEPT ![j] = "ok"]
          /\ UNCHANGED run
       \/ /\ ~CallbackOwned(j)                       \* nobody
          /\ flags' = [flags EXCEPT ![j] = (@ \ {"submitting"}) \cup {"rejected"}]
          /\ run' = [run EXCEPT ![j] = "ended"]
          /\ pc' = [pc EXCEPT ![j] = "invoke"]
    /\ UNCHANGED <<accepted, vendor, mutex, pending, active, session>>

\* Mutant: a second completion is not told from the first.
Mut_claim_not_checked(j) ==
    /\ vendor[j] > 0
    /\ vendor' = [vendor EXCEPT ![j] = @ - 1]
    /\ \/ /\ flags[j] \cap {"rejected", "retired"} # {}
          /\ UNCHANGED <<flags, run>>
       \/ /\ flags[j] \cap {"rejected", "retired"} = {}
          /\ flags' = [flags EXCEPT ![j] = @ \cup {"completion_claimed"}]
          /\ IF "submitting" \in flags[j]
             THEN UNCHANGED run
             ELSE run' = [run EXCEPT ![j] = "start"]
    /\ UNCHANGED <<pc, accepted, mutex, pending, active, session>>

\* Attempt::complete, called by the vendor.
Complete(j) ==
    /\ vendor[j] > 0
    /\ vendor' = [vendor EXCEPT ![j] = @ - 1]
    /\ \/ /\ flags[j] \cap {"completion_claimed", "rejected", "retired"} # {}
          /\ UNCHANGED <<flags, run>>
       \/ /\ flags[j] \cap {"completion_claimed", "rejected", "retired"} = {}
          /\ flags' = [flags EXCEPT ![j] = @ \cup {"completion_claimed"}]
          /\ IF "submitting" \in flags[j]
             THEN UNCHANGED run
             ELSE run' = [run EXCEPT ![j] = "start"]
    /\ UNCHANGED <<pc, accepted, mutex, pending, active, session>>

\* invoke_and_retire: the caller's callback starts and returns.
StartCallback(j) ==
    /\ run[j] = "start"
    /\ run' = [run EXCEPT ![j] = "running"]
    /\ UNCHANGED <<pc, flags, accepted, vendor, mutex, pending, active, session>>

EndCallback(j) ==
    /\ run[j] = "running"
    /\ run' = [run EXCEPT ![j] = "ended"]
    /\ UNCHANGED <<pc, flags, accepted, vendor, mutex, pending, active, session>>

\* Mutant: the job stays in the session's list.
Mut_still_pending(j) ==
    /\ run[j] = "ended"
    /\ run' = [run EXCEPT ![j] = "over"]
    /\ flags' = [flags EXCEPT ![j] = @ \cup {"retired"}]
    /\ UNCHANGED <<pc, accepted, vendor, mutex, pending, active, session>>

\* retire_context, its two critical sections together: whoever comes between
\* them finds the job claimed or rejected either way.
Retire(j) ==
    /\ run[j] = "ended"
    /\ run' = [run EXCEPT ![j] = "over"]
    /\ flags' = [flags EXCEPT ![j] = @ \cup {"retired"}]
    /\ pending' = pending \ {j}
    /\ UNCHANGED <<pc, accepted, vendor, mutex, active, session>>

\* submit() returns: refused at once, or after it invoked or rejected.
Return(j) ==
    /\ pc[j] = "refused" \/ (pc[j] = "invoke" /\ run[j] = "over")
    /\ pc' = [pc EXCEPT ![j] = IF CallbackOwned(j) THEN "ok" ELSE "err"]
    /\ UNCHANGED <<flags, accepted, vendor, run, mutex, pending, active, session>>

\* close_and_wait, from the session's destroy.
Close ==
    /\ session = "open"
    /\ session' = "closing"
    /\ UNCHANGED <<pc, flags, accepted, vendor, run, mutex, pending, active>>

Destroy ==
    /\ session = "closing"
    /\ active = {}
    /\ pending = {}
    /\ session' = "destroyed"
    /\ UNCHANGED <<pc, flags, accepted, vendor, run, mutex, pending, active>>

SubmitterStep(j) ==
    \/ CallVendor(j) \/ MarkAccepted(j) \/ LeaveVendor(j) \/ FinishActive(j)
    \/ Decide(j) \/ Return(j)

Next ==
    \/ \E j \in Jobs : \/ Submit(j) \/ SubmitterStep(j) \/ Complete(j)
                       \/ StartCallback(j) \/ EndCallback(j) \/ Retire(j)
    \/ Close
    \/ Destroy

SafeSpec == Init /\ [][Next]_vars

\* Threads run, callbacks return, the vendor completes what it took, and a
\* waiter for vendor_submit_mu gets it in the end.
Fairness ==
    /\ \A j \in Jobs : /\ SF_vars(CallVendor(j) \/ (pc[j] = "lock" /\ LeaveVendor(j)))
                       /\ WF_vars(SubmitterStep(j))
                       /\ WF_vars(StartCallback(j)) /\ WF_vars(EndCallback(j))
                       /\ WF_vars(Retire(j))
                       /\ WF_vars("vendor_accepted" \in flags[j] /\ Complete(j))
    /\ WF_vars(Destroy)

Spec == SafeSpec /\ Fairness

-----------------------------------------------------------------------------
\* Why the contract holds, job by job: what the submitter's position says of
\* the flags and of invoke_and_retire, and that a job is registered with the
\* session exactly while its completion is owed or under way.
JobInv(j) ==
    /\ pc[j] \in {"idle", "lock", "vendor", "marked", "finish", "decide", "refused"} =>
          /\ run[j] = "none"
          /\ "submitting" \in flags[j]
          /\ "rejected" \notin flags[j]
    /\ pc[j] \in {"idle", "lock", "refused"} => vendor[j] = 0 /\ ~CallbackOwned(j)
    /\ pc[j] \in {"invoke", "ok"} => "submitting" \notin flags[j]
    /\ pc[j] = "ok" => CallbackOwned(j)
    /\ pc[j] = "invoke" => run[j] # "none"
    /\ pc[j] = "err" => /\ ~CallbackOwned(j)
                        /\ \/ run[j] = "none" /\ vendor[j] = 0
                           \/ run[j] = "over" /\ "rejected" \in flags[j]
    /\ "rejected" \in flags[j] => ~CallbackOwned(j) /\ run[j] \in {"ended", "over"}
    /\ run[j] # "none" => "rejected" \in flags[j] \/ "completion_claimed" \in flags[j]
    /\ "retired" \in flags[j] <=> run[j] = "over"
    /\ j \in active <=> pc[j] \in {"lock", "vendor", "marked", "finish"}
    /\ j \in pending <=> /\ pc[j] \in {"lock", "vendor", "marked", "finish", "decide", "invoke", "ok"}
                         /\ run[j] # "over"
    /\ pc[j] = "ok" /\ run[j] = "none" => "completion_claimed" \notin flags[j]

Retired == session = "destroyed" => pending = {} /\ active = {}

Inv ==
    /\ TypeOK
    /\ \A j \in Jobs : JobInv(j)
    /\ Retired

-----------------------------------------------------------------------------
\* The refinement mapping.  The callback is over for the caller once it returned.
RetOf(j) ==
    IF pc[j] = "idle" THEN "none"
    ELSE IF pc[j] \in {"ok", "err"} THEN pc[j] ELSE "in"

CbOf(j) ==
    IF run[j] = "running" THEN "running"
    ELSE IF run[j] \in {"ended", "over"} /\ "rejected" \notin flags[j] THEN "done" ELSE "none"

Contract == INSTANCE HalAsync WITH
    ret <- [j \in Jobs |-> RetOf(j)], cb <- [j \in Jobs |-> CbOf(j)], session <- session

\* The provider keeps the HAL's contract whatever the vendor does: HAL_OK is
\* followed by exactly one callback, an error by none, and destroy returns, but
\* never while a callback runs or is still owed.
ImplementsContract == Contract!Spec
=============================================================================
