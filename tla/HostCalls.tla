----------------------------- MODULE HostCalls -----------------------------
(***************************************************************************)
(* What host_link promises to a thread that makes a blocking call          *)
(* (host_link_request or host_link_send_event), with frames, identifiers,  *)
(* slots and retransmissions hidden.  A call is run by the peer zero or    *)
(* more times, never more than MaxRuns; it may still be run after it has   *)
(* returned; it returns "ok" only with the answer of one of its own runs;  *)
(* and every call that was opened returns.                                 *)
(***************************************************************************)
EXTENDS Naturals

CONSTANTS Calls,    \* the calls that may be made
          MaxRuns   \* HOST_LINK_CFG_REQUEST_RETRY

VARIABLES status,   \* status[c]: "none", "open", "ok" or "err"
          runs,     \* runs[c]: how often the peer has run the call
          answer    \* answer[c]: the run whose answer the call returned, or 0

vars == <<status, runs, answer>>

Init ==
    /\ status = [c \in Calls |-> "none"]
    /\ runs = [c \in Calls |-> 0]
    /\ answer = [c \in Calls |-> 0]

Open(c) ==
    /\ status[c] = "none"
    /\ status' = [status EXCEPT ![c] = "open"]
    /\ UNCHANGED <<runs, answer>>

Run(c) ==
    /\ status[c] # "none"
    /\ runs[c] < MaxRuns
    /\ runs' = [runs EXCEPT ![c] = @ + 1]
    /\ UNCHANGED <<status, answer>>

ReturnOk(c) ==
    /\ status[c] = "open"
    /\ \E r \in 1..runs[c] : answer' = [answer EXCEPT ![c] = r]
    /\ status' = [status EXCEPT ![c] = "ok"]
    /\ UNCHANGED runs

ReturnErr(c) ==
    /\ status[c] = "open"
    /\ status' = [status EXCEPT ![c] = "err"]
    /\ UNCHANGED <<runs, answer>>

Next == \E c \in Calls : Open(c) \/ Run(c) \/ ReturnOk(c) \/ ReturnErr(c)

SafeSpec == Init /\ [][Next]_vars

Spec == SafeSpec /\ \A c \in Calls : WF_vars(ReturnOk(c) \/ ReturnErr(c))
=============================================================================
