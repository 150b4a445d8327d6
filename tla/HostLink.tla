----------------------------- MODULE HostLink ------------------------------
(***************************************************************************)
(* The serial link between the SoC ("linux") and the board MCU ("mcu"):    *)
(* hal_v2/common/host_link/host_link_core.c (the MCU builds a copy of it   *)
(* without host_link_request_timeout, which changes nothing here), with    *)
(* its two users, hailo15_mcu_impl.cpp on the SoC (it makes REQUESTs and   *)
(* answers EVENTs) and host_link_app.c on the MCU (the other way round).   *)
(*                                                                         *)
(* Each end has a receive thread that feeds the parser (Receive), a poll   *)
(* thread that hands frames to the notify callback and throws away old     *)
(* answers (PollSlot, Handle), and threads that make blocking              *)
(* calls (Send, TakeAck, Timeout).  A frame whose bytes are damaged fails  *)
(* its CRC and disappears; the line neither duplicates nor reorders.       *)
(*                                                                         *)
(* Time is abstract.  In a run that is not "timely" a wait may time out,   *)
(* and an answer may be thrown away, at any moment: the peer's callback    *)
(* may be slow.  In a timely run both ends answer within                   *)
(* HOST_LINK_CFG_ACK_TIMEOUT_MS, so a wait times out only once no frame of *)
(* the attempt is left anywhere.                                           *)
(***************************************************************************)
EXTENDS Naturals, Sequences, FiniteSetsExt, Functions

CONSTANTS Requesters,   \* SoC threads that call host_link_request
          Notifiers,    \* MCU tasks that call host_link_send_event
          NCalls,       \* bound: calls made by one thread
          Scenarios,    \* the regimes and workloads: pairs of "timely" and [Threads -> 0..NCalls]
          Retry,        \* HOST_LINK_CFG_REQUEST_RETRY
          NotifyDepth,  \* HOST_LINK_CFG_NOTIFY_DEPTH
          AckSlots,     \* HOST_LINK_CFG_ACK_SLOTS
          IdMod,        \* 2^16 in the code: frame_id is a uint16_t
          MaxLoss       \* bound: frames lost in one behaviour

ASSUME HostLinkAssumption ==
    /\ Requesters \cap Notifiers = {}
    /\ IsFiniteSet(Requesters \cup Notifiers)
    /\ NCalls \in Nat
    /\ Retry \in Nat \ {0}
    /\ NotifyDepth \in Nat \ {0}
    /\ AckSlots \in Nat \ {0}
    /\ IdMod \in Nat \ {0}
    /\ Scenarios \subseteq BOOLEAN \X [Requesters \cup Notifiers -> 0..NCalls]

VARIABLES timely,   \* the regime of the run, fixed at the start
          quota,    \* the workload of the run, fixed at the start
          nextId,   \* nextId[e]: h->next_frame_id
          wire,     \* wire[e]: the frames travelling towards e
          notify,   \* notify[e]: h->notify_slot[]
          ack,      \* ack[e]: h->ack_slot[]
          poll,     \* poll[e]: where host_link_poll is, and the frame in its callback
          thr,      \* thr[t]: the calling thread's locals
          outcome,  \* outcome[c]: what the call returned
          runs,     \* runs[c]: how often the peer's callback ran the call
          answer,   \* answer[c]: the run whose answer the call returned
          lost      \* lost[c]: how many attempts of the call the line lost

vars == <<timely, quota, nextId, wire, notify, ack, poll, thr, outcome, runs, answer, lost>>

Ends == {"linux", "mcu"}
Peer(e) == IF e = "linux" THEN "mcu" ELSE "linux"
Threads == Requesters \cup Notifiers
EndOf(t) == IF t \in Requesters THEN "linux" ELSE "mcu"
Calls == Threads \X (1..NCalls)

CallType(t) == IF t \in Requesters THEN "REQUEST" ELSE "EVENT"
AckType(typ) == IF typ \in {"REQUEST", "RESPONSE"} THEN "RESPONSE" ELSE "EVENT_ACK"

\* A frame: header fields type and frame_id, and which call (and, in an
\* answer, which run of it) the payload speaks of.
NoFrame == [type |-> "none"]
Frame(typ, id, c, r) == [type |-> typ, id |-> id, call |-> c, run |-> r]
FrameSet == {NoFrame} \cup
    [type : {"REQUEST", "EVENT", "RESPONSE", "EVENT_ACK"}, id : 0..IdMod-1,
     call : Calls, run : 0..Retry]

ThisCall(t) == <<t, thr[t].n>>

Losses == MapThenSumSet(LAMBDA c : lost[c], Calls)

\* The frames at large that carry an id drawn by end e: its REQUESTs and
\* EVENTs on the way to the peer or inside it, and the answers on their way back.
Asking(e) ==
    {f \in Range(wire[Peer(e)]) \cup Range(notify[Peer(e)]) \cup {poll[Peer(e)].fr} :
        f.type \in {"REQUEST", "EVENT"}}
Answering(e) ==
    {f \in Range(wire[e]) \cup Range(ack[e]) : f.type \in {"RESPONSE", "EVENT_ACK"}}
AtLarge(e) == Asking(e) \cup Answering(e)

TypeOK ==
    /\ <<timely, quota>> \in Scenarios
    /\ nextId \in [Ends -> 0..IdMod-1]
    /\ wire \in [Ends -> Seq(FrameSet)]
    /\ notify \in [Ends -> [1..NotifyDepth -> FrameSet]]
    /\ ack \in [Ends -> [1..AckSlots -> FrameSet]]
    /\ poll \in [Ends -> [idx : 1..NotifyDepth, fr : FrameSet]]
    /\ thr \in [Threads -> [pc : {"idle", "send", "wait"}, n : 1..NCalls+1,
                            id : 0..IdMod-1, retry : 0..Retry]]
    /\ outcome \in [Calls -> {"none", "ok", "err"}]
    /\ runs \in [Calls -> 0..Retry]
    /\ answer \in [Calls -> 0..Retry]
    /\ lost \in [Calls -> 0..Retry]

Init ==
    /\ \E s \in Scenarios : timely = s[1] /\ quota = s[2]
    /\ nextId = [e \in Ends |-> 0]
    /\ wire = [e \in Ends |-> <<>>]
    /\ notify = [e \in Ends |-> [i \in 1..NotifyDepth |-> NoFrame]]
    /\ ack = [e \in Ends |-> [i \in 1..AckSlots |-> NoFrame]]
    /\ poll = [e \in Ends |-> [idx |-> 1, fr |-> NoFrame]]
    /\ thr = [t \in Threads |-> [pc |-> "idle", n |-> 1, id |-> 0, retry |-> 0]]
    /\ outcome = [c \in Calls |-> "none"]
    /\ runs = [c \in Calls |-> 0]
    /\ answer = [c \in Calls |-> 0]
    /\ lost = [c \in Calls |-> 0]

-----------------------------------------------------------------------------
\* The thread's call is over with the given outcome.
Return(t, res) ==
    /\ outcome' = [outcome EXCEPT ![ThisCall(t)] = res]
    /\ thr' = [thr EXCEPT ![t] = [pc |-> "idle", n |-> @.n + 1, id |-> @.id, retry |-> 0]]

\* retry++; the loop ends when the retries are used up.
NextAttempt(t) ==
    IF thr[t].retry + 1 < Retry
    THEN /\ thr' = [thr EXCEPT ![t] = [pc |-> "send", n |-> @.n, id |-> @.id, retry |-> @.retry + 1]]
         /\ UNCHANGED outcome
    ELSE Return(t, "err")

\* host_link_request_timeout / host_link_send_event are entered.
Call(t) ==
    /\ thr[t].pc = "idle"
    /\ thr[t].n <= quota[t]
    /\ thr' = [thr EXCEPT ![t].pc = "send"]
    /\ UNCHANGED <<timely, quota, nextId, wire, notify, ack, poll, outcome, runs, answer, lost>>

\* Mutant: the identifier counter is wider than the field it is sent in.
Mut_id_not_wrapped(t) ==
    LET e == EndOf(t) IN
    /\ thr[t].pc = "send"
    /\ nextId' = [nextId EXCEPT ![e] = @ + 1]
    /\ wire' = [wire EXCEPT ![Peer(e)] =
          Append(@, Frame(CallType(t), nextId[e], ThisCall(t), 0))]
    /\ thr' = [thr EXCEPT ![t].pc = "wait", ![t].id = nextId[e]]
    /\ UNCHANGED <<timely, quota, notify, ack, poll, outcome, runs, answer, lost>>

\* Neither a frame nor a wait outlives 2^16 later ids: an end draws at most a
\* few per second, and a wait ends with its timeout.
Fresh(e, id) ==
    /\ \A f \in AtLarge(e) : f.id # id
    /\ \A t \in Threads : EndOf(t) = e /\ thr[t].pc = "wait" => thr[t].id # id

\* One attempt: alloc_frame_id, then send_wire.
Send(t) ==
    LET e == EndOf(t)
        id == nextId[e]
        fr == Frame(CallType(t), id, ThisCall(t), 0)
    IN
    /\ thr[t].pc = "send"
    /\ Fresh(e, id)
    /\ nextId' = [nextId EXCEPT ![e] = (@ + 1) % IdMod]
    /\ \/ /\ wire' = [wire EXCEPT ![Peer(e)] = Append(@, fr)]
          /\ thr' = [thr EXCEPT ![t] = [pc |-> "wait", n |-> @.n, id |-> id, retry |-> @.retry]]
          /\ UNCHANGED <<outcome, lost>>
       \/ /\ Losses < MaxLoss                   \* send_fn failed
          /\ lost' = [lost EXCEPT ![ThisCall(t)] = @ + 1]
          /\ NextAttempt(t)
          /\ UNCHANGED wire
    /\ UNCHANGED <<timely, quota, notify, ack, poll, runs, answer>>

\* Mutant: any answer of the right type is taken for ours.
Mut_id_not_compared(t, f) == f.type = AckType(CallType(t))

\* wait_for_ack finds the answer of this attempt in a slot and empties the slot.
Matches(t, f) == f.type = AckType(CallType(t)) /\ f.id = thr[t].id

TakeAck(t) ==
    LET e == EndOf(t) IN
    /\ thr[t].pc = "wait"
    /\ \E i \in 1..AckSlots :
          /\ Matches(t, ack[e][i])
          /\ \A j \in 1..i-1 : ~Matches(t, ack[e][j])
          /\ answer' = [answer EXCEPT ![ThisCall(t)] = ack[e][i].run]
          /\ ack' = [ack EXCEPT ![e][i] = NoFrame]
    /\ Return(t, "ok")
    /\ UNCHANGED <<timely, quota, nextId, wire, notify, poll, runs, lost>>

\* Mutant: the wait ends before the peer has had its time to answer.
Mut_impatient(t) ==
    /\ thr[t].pc = "wait"
    /\ NextAttempt(t)
    /\ UNCHANGED <<timely, quota, nextId, wire, notify, ack, poll, runs, answer, lost>>

\* wait_for_ack gives up.  The slots are searched before the clock is read, so
\* the answer may have arrived in between.
Timeout(t) ==
    /\ thr[t].pc = "wait"
    /\ timely => \A f \in AtLarge(EndOf(t)) : f.id # thr[t].id
    /\ NextAttempt(t)
    /\ UNCHANGED <<timely, quota, nextId, wire, notify, ack, poll, runs, answer, lost>>

-----------------------------------------------------------------------------
\* Mutant: the search for a free slot stops at the first one, used or not.
Mut_first_slot(slots) == {1}

FirstFree(slots) == {i \in DOMAIN slots : slots[i] = NoFrame /\ \A j \in 1..i-1 : slots[j] # NoFrame}

\* host_link_feed has the last byte of a frame: feed_finish_payload checks the
\* CRC, deal_one_frame stores the frame in the first free slot of its kind, or
\* drops it when there is none (HOST_LINK_ERR_NO_SLOT).
Receive(e) ==
    LET fr == Head(wire[e]) IN
    /\ wire[e] # <<>>
    /\ wire' = [wire EXCEPT ![e] = Tail(@)]
    /\ \/ /\ Losses < MaxLoss
          /\ lost' = [lost EXCEPT ![fr.call] = @ + 1]
          /\ UNCHANGED <<notify, ack>>
       \/ /\ fr.type \in {"REQUEST", "EVENT"}
          /\ notify' = [notify EXCEPT ![e] =
                [i \in DOMAIN @ |-> IF i \in FirstFree(@) THEN fr ELSE @[i]]]
          /\ UNCHANGED <<ack, lost>>
       \/ /\ fr.type \in {"RESPONSE", "EVENT_ACK"}
          /\ ack' = [ack EXCEPT ![e] =
                [i \in DOMAIN @ |-> IF i \in FirstFree(@) THEN fr ELSE @[i]]]
          /\ UNCHANGED <<notify, lost>>
    /\ UNCHANGED <<timely, quota, nextId, poll, thr, outcome, runs, answer>>

\* host_link_poll looks at the next notify slot and empties it.  The end of a
\* pass, where the answers that have lain in their slot for
\* HOST_LINK_CFG_ACK_TIMEOUT_MS are freed, is taken together with the look at
\* the first slot of the next pass: the two touch different slots.
Awaited(e, f) == \E t \in Threads : EndOf(t) = e /\ thr[t].pc = "wait" /\ Matches(t, f)

ExpireAcks(e) ==
    \E S \in SUBSET {i \in 1..AckSlots : ack[e][i] # NoFrame} :
       /\ timely => \A i \in S : ~Awaited(e, ack[e][i])
       /\ ack' = [ack EXCEPT ![e] =
             [i \in DOMAIN @ |-> IF i \in S THEN NoFrame ELSE @[i]]]

PollSlot(e) ==
    LET i == poll[e].idx IN
    /\ poll[e].fr = NoFrame
    /\ poll' = [poll EXCEPT ![e] = [idx |-> (i % NotifyDepth) + 1, fr |-> notify[e][i]]]
    /\ notify' = [notify EXCEPT ![e][i] = NoFrame]
    /\ IF i = 1 THEN ExpireAcks(e) ELSE UNCHANGED ack
    /\ UNCHANGED <<timely, quota, nextId, wire, thr, outcome, runs, answer, lost>>

\* The notify callback, outside the lock: the MCU dispatches the REQUEST and
\* sends the RESPONSE, the SoC runs the subscribers of the EVENT and sends the
\* EVENT_ACK; the answer repeats the frame_id.
Handle(e) ==
    LET fr == poll[e].fr
        r  == runs[fr.call] + 1
    IN
    /\ fr # NoFrame
    /\ runs' = [runs EXCEPT ![fr.call] = r]
    /\ poll' = [poll EXCEPT ![e].fr = NoFrame]
    /\ \/ /\ wire' = [wire EXCEPT ![Peer(e)] =
                Append(@, Frame(AckType(fr.type), fr.id, fr.call, r))]
          /\ UNCHANGED lost
       \/ /\ Losses < MaxLoss                   \* send_fn failed
          /\ lost' = [lost EXCEPT ![fr.call] = @ + 1]
          /\ UNCHANGED wire
    /\ UNCHANGED <<timely, quota, nextId, notify, ack, thr, outcome, answer>>

Next ==
    \/ \E t \in Threads : Call(t) \/ Send(t) \/ TakeAck(t) \/ Timeout(t)
    \/ \E e \in Ends : Receive(e) \/ PollSlot(e) \/ Handle(e)

\* Threads are never stopped for good, and callbacks return.
Fairness ==
    /\ \A t \in Threads : WF_vars(Send(t)) /\ WF_vars(TakeAck(t) \/ Timeout(t))
    /\ \A e \in Ends : /\ WF_vars(Receive(e))
                       /\ WF_vars(PollSlot(e) \/ Handle(e))

Spec == Init /\ [][Next]_vars /\ Fairness

-----------------------------------------------------------------------------
\* The refinement mapping: a call is open from the entry of the function to
\* its return.
Status(c) ==
    IF outcome[c] # "none" THEN outcome[c]
    ELSE IF thr[c[1]].n = c[2] /\ thr[c[1]].pc # "idle" THEN "open" ELSE "none"

Abstract == INSTANCE HostCalls WITH Calls <- Calls, MaxRuns <- Retry,
                status <- [c \in Calls |-> Status(c)], runs <- runs, answer <- answer

\* host_link keeps the promise of HostCalls: whatever the line loses and
\* however late an answer comes, a call returns, returns "ok" only with the
\* answer to one of its own attempts, and is never run more than Retry times.
Implements == Abstract!Spec

\* When both ends answer in time, a call fails only if the line lost a frame of
\* each of its Retry attempts: neither the slots of answers nor those of
\* incoming frames leak or overflow, and no other caller's answer is mistaken
\* for ours.
FailsOnlyByLoss ==
    timely => \A c \in Calls : outcome[c] = "err" => lost[c] = Retry

\* When both ends answer in time, the peer runs the calls of one thread in the
\* order they were made: no left-over attempt of an earlier call (an old alarm
\* level, an old lens command) is run after a later one.
Overtaken(c) == \E m \in c[2]+1..NCalls : runs[<<c[1], m>>] > 0
RunsInOrder ==
    [][timely => \A c \in Calls : Overtaken(c) => runs'[c] = runs[c]]_vars
=============================================================================
