----------------------------- MODULE HalAsync ------------------------------
(***************************************************************************)
(* What run_async and destroy of a HAL inference session promise to their  *)
(* callers (the contract in hal_inference.h): HAL_OK means exactly one     *)
(* callback, sooner or later and perhaps before the return; an error means *)
(* no callback from then on; destroy comes back only when every callback   *)
(* the session owes has fully returned.                                    *)
(***************************************************************************)
CONSTANT Jobs

VARIABLES ret,      \* ret[j]: "none", "in" (inside run_async), "ok", "err"
          cb,       \* cb[j]: the caller's callback, "none", "running" or "done"
          session   \* "open", "closing" (inside destroy) or "destroyed"

vars == <<ret, cb, session>>

Init ==
    /\ ret = [j \in Jobs |-> "none"]
    /\ cb = [j \in Jobs |-> "none"]
    /\ session = "open"

Enter(j) ==
    /\ ret[j] = "none"
    /\ session # "destroyed"
    /\ ret' = [ret EXCEPT ![j] = "in"]
    /\ UNCHANGED <<cb, session>>

\* A job accepted by a session that is gone has had its callback.
ReturnOk(j) ==
    /\ ret[j] = "in"
    /\ session = "destroyed" => cb[j] = "done"
    /\ ret' = [ret EXCEPT ![j] = "ok"]
    /\ UNCHANGED <<cb, session>>

ReturnErr(j) ==
    /\ ret[j] = "in"
    /\ cb[j] # "running"
    /\ ret' = [ret EXCEPT ![j] = "err"]
    /\ UNCHANGED <<cb, session>>

Start(j) ==
    /\ ret[j] \in {"in", "ok"}
    /\ cb[j] = "none"
    /\ session # "destroyed"
    /\ cb' = [cb EXCEPT ![j] = "running"]
    /\ UNCHANGED <<ret, session>>

Finish(j) ==
    /\ cb[j] = "running"
    /\ cb' = [cb EXCEPT ![j] = "done"]
    /\ UNCHANGED <<ret, session>>

Close ==
    /\ session = "open"
    /\ session' = "closing"
    /\ UNCHANGED <<ret, cb>>

Destroy ==
    /\ session = "closing"
    /\ \A j \in Jobs : cb[j] # "running" /\ (ret[j] = "ok" => cb[j] = "done")
    /\ session' = "destroyed"
    /\ UNCHANGED <<ret, cb>>

Next ==
    \/ \E j \in Jobs : Enter(j) \/ ReturnOk(j) \/ ReturnErr(j) \/ Start(j) \/ Finish(j)
    \/ Close
    \/ Destroy

SafeSpec == Init /\ [][Next]_vars

\* run_async returns; an accepted job's callback starts; destroy returns.
Spec ==
    /\ SafeSpec
    /\ \A j \in Jobs : /\ WF_vars(ReturnOk(j) \/ ReturnErr(j))
                       /\ WF_vars(ret[j] = "ok" /\ Start(j))
                       /\ WF_vars(Finish(j))
    /\ WF_vars(Destroy)
=============================================================================
