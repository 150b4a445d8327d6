--------------------------- MODULE HostLinkProofs ---------------------------
(***************************************************************************)
(* What follows from the invariant: host_link keeps the promise of         *)
(* HostCalls, and in a timely run it keeps the order of a thread's calls   *)
(* and fails them only by loss.                                            *)
(***************************************************************************)
EXTENDS HostLinkInvariant, FiniteSetTheorems, TLAPS

-----------------------------------------------------------------------------
(* The calls seen from outside.                                            *)

\* The status of a call before and after a step.
LEMMA StatusIs ==
  ASSUME NEW c \in Calls
  PROVE  /\ Status(c) = IF outcome[c] # "none" THEN outcome[c]
                        ELSE IF thr[c[1]].n = c[2] /\ thr[c[1]].pc # "idle" THEN "open" ELSE "none"
         /\ Status(c)' = IF outcome'[c] # "none" THEN outcome'[c]
                         ELSE IF thr'[c[1]].n = c[2] /\ thr'[c[1]].pc # "idle" THEN "open" ELSE "none"
BY Zenon DEF Status

\* The calls other than the one thread t is in keep their status.
LEMMA StatusMoves ==
  ASSUME NEW t \in Threads, Moves(t), \A b \in Calls : b # ThisCall(t) => outcome'[b] = outcome[b],
         thr'[t].pc = "idle" \/ thr'[t].n = thr[t].n, NEW c \in Calls, c # ThisCall(t)
  PROVE  Status(c)' = Status(c)
<1>1. outcome'[c] = outcome[c] /\ c[1] \in Threads
  BY CallParts, Zenon
<1>2. CASE c[1] # t
  <2>1. thr'[c[1]] = thr[c[1]]
    BY <1>1, <1>2, Zenon DEF Moves
  <2> QED
    BY <1>1, <2>1 DEF Status
<1>3. CASE c[1] = t
  <2>1. c[2] # thr[t].n
    BY <1>3, IsThisCall, Zenon
  <2> QED
    BY <1>1, <1>3, <2>1 DEF Status
<1> QED
  BY <1>2, <1>3, Zenon

\* ... and that call is not over before it returns.
LEMMA StatusHere ==
  ASSUME IInv, NEW t \in Threads, NEW c \in Calls, c = ThisCall(t)
  PROVE  /\ outcome[c] = "none" /\ c[1] = t /\ c[2] = thr[t].n
         /\ Status(c) = IF thr[t].pc # "idle" THEN "open" ELSE "none"
<1>1. c[1] = t /\ c[2] = thr[t].n /\ c = <<t, thr[t].n>> /\ c[2] \in 1..NCalls
  BY IsThisCall, CallParts, Zenon DEF ThisCall
<1>2. thr[t].n <= thr[t].n
  BY <1>1, HostLinkAssumption
<1>3. outcome[c] = "none"
  <2>1. ThreadInv
    BY Zenon DEF IInv
  <2>2. outcome[<<t, c[2]>>] = "none" <=> thr[t].n <= c[2]
    BY <1>1, <2>1, Zenon DEF ThreadInv
  <2> QED
    BY <1>1, <1>2, <2>2, Zenon
<1> QED
  BY <1>1, <1>3, StatusIs, ZenonT(30)

\* A failed attempt is the last one or not.
LEMMA AttemptOr ==
  ASSUME Locals, NEW t \in Threads, NextAttempt(t)
  PROVE  \/ Return(t, "err")
         \/ outcome' = outcome /\ thr'[t].n = thr[t].n /\ thr'[t].pc = "send"
<1>1. CASE thr[t].retry + 1 < Retry
  <2>1. /\ outcome' = outcome
        /\ thr' = [thr EXCEPT ![t] = [pc |-> "send", n |-> thr[t].n, id |-> thr[t].id,
                                      retry |-> thr[t].retry + 1]]
    BY <1>1, Zenon DEF NextAttempt
  <2>2. thr'[t] = [pc |-> "send", n |-> thr[t].n, id |-> thr[t].id, retry |-> thr[t].retry + 1]
    BY <2>1, Zenon DEF Locals
  <2> QED
    BY <2>1, <2>2
<1>2. CASE ~(thr[t].retry + 1 < Retry)
  BY <1>2, Zenon DEF NextAttempt
<1> QED
  BY <1>1, <1>2, Zenon

\* What a step of the link is in the abstract specification.
Statuses == [c \in Calls |-> Status(c)]
Opens(c) == /\ Statuses[c] = "none" /\ Statuses' = [Statuses EXCEPT ![c] = "open"]
            /\ UNCHANGED <<runs, answer>>
Returns(c) == /\ Statuses[c] = "open" /\ Statuses' = [Statuses EXCEPT ![c] = "err"]
              /\ UNCHANGED <<runs, answer>>

\* One call changes its status ...
LEMMA StatusStep ==
  ASSUME NEW c \in Calls, \A b \in Calls : b # c => Status(b)' = Status(b)
  PROVE  Statuses' = [Statuses EXCEPT ![c] = Status(c)']
<1>1. /\ Statuses' = [b \in Calls |-> Status(b)'] /\ DOMAIN Statuses = Calls
      /\ \A b \in Calls : Statuses[b] = Status(b)
  BY Zenon DEF Statuses
<1> QED
  BY <1>1, Zenon

\* ... or none does.
LEMMA StatusStays ==
  ASSUME \A b \in Calls : Status(b)' = Status(b)
  PROVE  Statuses' = Statuses
BY Zenon DEF Statuses

\* The callback runs a call of which an attempt was made, and not too often.
LEMMA RunIs ==
  ASSUME IInv, NEW e \in Ends, Handle(e)
  PROVE  \E x \in Asking(Peer(e)) :
            /\ x.call \in Calls /\ EndOf(x.call[1]) = Peer(e)
            /\ runs' = [runs EXCEPT ![x.call] = @ + 1] /\ runs[x.call] < Retry
            /\ 1 <= Attempts(x.call) /\ UNCHANGED <<timely, thr, outcome, answer>>
<1>0. PICK x : x = poll[e].fr
  BY Zenon
<1>1. /\ x # NoFrame /\ runs' = [runs EXCEPT ![x.call] = @ + 1]
      /\ UNCHANGED <<timely, thr, outcome, answer>>
  BY <1>0, Zenon DEF Handle
<1>2. x \in Frames /\ x.type \in Questions /\ x \in Asking(Peer(e)) /\ Peer(e) \in Ends
  <2>1. x \in Frames /\ x.type \in Questions /\ Peer(e) \in Ends /\ Peer(Peer(e)) = e
    BY <1>0, <1>1, InvGives, TwoEnds, Zenon DEF PlaceInv, Placed, Sorted
  <2> QED
    BY <1>0, <2>1, HeardIs, Zenon DEF Heard, Asked
<1>3. x.call \in Calls /\ EndOf(x.call[1]) = Peer(e)
  BY <1>2, FrameParts, InvGives, Zenon DEF SetInv, EndInv
<1>4. PICK c, q : c = x.call /\ q = Cardinality(QuestionsOf(x.call))
  BY Zenon
<1>5. x \in QuestionsOf(c) /\ IsFiniteSet(QuestionsOf(c))
  BY <1>2, <1>3, <1>4, InvGives, OfCall, ZenonT(30) DEF QuestionsOf
<1>6. q \in Nat /\ q # 0
  BY <1>4, <1>5, FS_CardinalityType, FS_EmptySet, Zenon
<1>7. runs[c] \in Nat /\ runs[c] + q <= Attempts(c) /\ Attempts(c) \in 0..Retry
  BY <1>3, <1>4, InvGives, CountersAre, Zenon DEF Counted
<1>8. runs[c] < Retry /\ 1 <= Attempts(c)
  BY <1>6, <1>7, HostLinkAssumption
<1> QED
  BY <1>1, <1>2, <1>3, <1>4, <1>8, ZenonT(30)

\* A call of which an attempt was made has been opened.
LEMMA Opened ==
  ASSUME IInv, NEW c \in Calls, 1 <= Attempts(c)
  PROVE  Status(c) # "none"
<1>1. PICK t : t = c[1]
  BY Zenon
<1>2. t \in Threads /\ c = <<t, c[2]>> /\ c[2] \in 1..NCalls
  BY <1>1, CallParts, Zenon
<1>3. thr[t].n \in 1..NCalls+1 /\ (outcome[c] = "none" <=> thr[t].n <= c[2])
  BY <1>2, InvGives, ThrParts, Zenon DEF ThreadInv
<1>4. Attempts(c) # 0
  OBVIOUS
<1>5. c[2] < thr[t].n \/ (~(c[2] > thr[t].n) /\ thr[t].pc # "idle")
  BY <1>1, <1>4, Zenon DEF Attempts
<1>6. outcome[c] # "none" \/ (thr[t].n = c[2] /\ thr[t].pc # "idle")
  BY <1>2, <1>3, <1>5, HostLinkAssumption
<1> QED
  BY <1>1, <1>6 DEF Status

\* Thread t moves its own call from one status to another.
LEMMA StatusTurns ==
  ASSUME NEW t \in Threads, Moves(t), NEW c \in Calls, c = ThisCall(t),
         \A b \in Calls : b # c => outcome'[b] = outcome[b],
         thr'[t].pc = "idle" \/ thr'[t].n = thr[t].n
  PROVE  Statuses' = [Statuses EXCEPT ![c] = Status(c)']
<1>1. \A b \in Calls : b # c => Status(b)' = Status(b)
  BY StatusMoves, Zenon
<1> QED
  BY <1>1, StatusStep, Zenon

\* A thread that enters host_link_send opens a call.
LEMMA CallOpens == ASSUME IInv, NEW t \in Threads, Call(t) PROVE \E c \in Calls : Opens(c)
<1>1. /\ thr[t].pc = "idle" /\ thr[t].n <= quota[t] /\ thr' = [thr EXCEPT ![t].pc = "send"]
      /\ UNCHANGED <<outcome, runs, answer>>
  BY Zenon DEF Call
<1>2. PICK c : c = ThisCall(t)
  BY Zenon
<1>3. c \in Calls
  <2>1. quota \in [Threads -> 0..NCalls]
    BY InvGives, HostLinkAssumption, Zenon DEF Fixed, Threads
  <2>2. thr[t].n \in 1..NCalls+1
    BY InvGives, ThrParts, Zenon
  <2>3. thr[t].n \in 1..NCalls
    BY <1>1, <2>1, <2>2, HostLinkAssumption
  <2> QED
    BY <1>2, <2>3 DEF ThisCall, Calls
<1>4. thr'[t].pc = "send" /\ thr'[t].n = thr[t].n /\ Moves(t)
  BY <1>1, InvGives DEF Locals, Moves
<1>5. c[1] = t /\ c[2] = thr[t].n /\ outcome[c] = "none" /\ Status(c) = "none"
  BY <1>1, <1>2, <1>3, StatusHere, ZenonT(30)
<1>6. Status(c)' = "open"
  BY <1>1, <1>4, <1>5 DEF Status
<1>7. Statuses' = [Statuses EXCEPT ![c] = "open"]
  BY <1>1, <1>2, <1>3, <1>4, <1>6, StatusTurns, Zenon
<1> QED
  BY <1>1, <1>3, <1>5, <1>7, Zenon DEF Opens, Statuses

\* A returning call.
LEMMA ReturnTurns ==
  ASSUME IInv, NEW t \in Threads, thr[t].pc # "idle", NEW res \in {"ok", "err"}, Return(t, res),
         NEW c, c = ThisCall(t)
  PROVE  c \in Calls /\ Statuses[c] = "open" /\ Statuses' = [Statuses EXCEPT ![c] = res]
<1>1. /\ Moves(t) /\ thr'[t].pc = "idle" /\ c \in Calls
      /\ \A b \in Calls : outcome'[b] = IF b = c THEN res ELSE outcome[b]
  BY InvGives, ReturnKeeps, Zenon
<1>2. Status(c) = "open"
  BY <1>1, StatusHere, Zenon
<1>3. Status(c)' = res
  <2>1. outcome'[c] = res /\ res # "none"
    BY <1>1
  <2> QED
    BY <2>1, Zenon DEF Status
<1>4. \A b \in Calls : b # c => outcome'[b] = outcome[b]
  BY <1>1, Zenon
<1> QED
  BY <1>1, <1>2, <1>3, <1>4, StatusTurns, Zenon DEF Statuses

\* A thread that goes on with its call.
LEMMA StaysOpen ==
  ASSUME IInv, NEW t \in Threads, thr[t].pc # "idle", Moves(t),
         outcome' = outcome, thr'[t].n = thr[t].n, thr'[t].pc # "idle"
  PROVE  Statuses' = Statuses
<1>1. ASSUME NEW c \in Calls PROVE Status(c)' = Status(c)
  <2>1. CASE c = ThisCall(t)
    <3>1. c[1] = t /\ c[2] = thr[t].n /\ outcome[c] = "none" /\ Status(c) = "open"
      BY <2>1, StatusHere, Zenon
    <3> QED
      BY <3>1 DEF Status
  <2>2. CASE c # ThisCall(t)
    BY <2>2, StatusMoves, Zenon
  <2> QED
    BY <2>1, <2>2, Zenon
<1> QED
  BY <1>1, StatusStays, Zenon

\* A failed attempt leaves the call open or returns an error.
LEMMA AttemptReturns ==
  ASSUME IInv, NEW t \in Threads, thr[t].pc # "idle", NextAttempt(t), UNCHANGED <<runs, answer>>
  PROVE  Statuses' = Statuses \/ \E c \in Calls : Returns(c)
<1>1. CASE Return(t, "err")
  <2>1. PICK c : c = ThisCall(t)
    BY Zenon
  <2>2. "err" \in {"ok", "err"}
    OBVIOUS
  <2>3. c \in Calls /\ Statuses[c] = "open" /\ Statuses' = [Statuses EXCEPT ![c] = "err"]
    BY <1>1, <2>1, <2>2, ReturnTurns, Zenon
  <2> QED
    BY <2>3, Zenon DEF Returns
<1>2. CASE outcome' = outcome /\ thr'[t].n = thr[t].n /\ thr'[t].pc = "send"
  <2>1. Moves(t)
    BY InvGives, AttemptIs, Zenon
  <2>2. thr'[t].pc # "idle"
    BY <1>2
  <2> QED
    BY <1>2, <2>1, <2>2, StaysOpen, Zenon
<1> QED
  BY <1>1, <1>2, InvGives, AttemptOr, Zenon

\* So does an attempt that is made.
LEMMA SendReturns ==
  ASSUME IInv, NEW t \in Threads, Send(t)
  PROVE  UNCHANGED <<runs, answer>> /\ (Statuses' = Statuses \/ \E c \in Calls : Returns(c))
<1>1. /\ thr[t].pc = "send" /\ UNCHANGED <<runs, answer>>
      /\ \/ /\ thr' = [thr EXCEPT ![t] = [pc |-> "wait", n |-> @.n, id |-> nextId[EndOf(t)],
                                          retry |-> @.retry]]
            /\ outcome' = outcome
         \/ NextAttempt(t)
  BY Zenon DEF Send
<1>2. thr[t].pc # "idle"
  BY <1>1
<1>3. CASE /\ thr' = [thr EXCEPT ![t] = [pc |-> "wait", n |-> @.n, id |-> nextId[EndOf(t)],
                                         retry |-> @.retry]]
           /\ outcome' = outcome
  <2>1. thr'[t].n = thr[t].n /\ thr'[t].pc # "idle" /\ Moves(t)
    BY <1>3, InvGives DEF Locals, Moves
  <2> QED
    BY <1>1, <1>2, <1>3, <2>1, StaysOpen, Zenon
<1>4. CASE NextAttempt(t)
  BY <1>1, <1>2, <1>4, AttemptReturns, ZenonT(30)
<1> QED
  BY <1>1, <1>3, <1>4, Zenon

LEMMA StatusesSame == ASSUME UNCHANGED <<thr, outcome>> PROVE Statuses' = Statuses
BY StatusStays, Zenon DEF Status

\* The callback runs a call that was opened.
LEMMA RunsOpened ==
  ASSUME IInv, NEW e \in Ends, Handle(e)
  PROVE  /\ \E c \in Calls : /\ Statuses[c] # "none" /\ runs[c] < Retry
                             /\ runs' = [runs EXCEPT ![c] = @ + 1]
         /\ Statuses' = Statuses /\ answer' = answer
<1>1. PICK x : /\ x.call \in Calls /\ runs' = [runs EXCEPT ![x.call] = @ + 1]
               /\ runs[x.call] < Retry /\ 1 <= Attempts(x.call)
               /\ UNCHANGED <<thr, outcome, answer>>
  BY RunIs, Zenon
<1>2. Statuses[x.call] # "none"
  BY <1>1, Opened, Zenon DEF Statuses
<1> QED
  BY <1>1, <1>2, StatusesSame, Zenon

\* Every step of the link is one of HostCalls or a stutter.
LEMMA AbstractStep == ASSUME IInv, [Next]_vars PROVE [Abstract!Next]_(Abstract!vars)
<1>1. ASSUME NEW c \in Calls, Opens(c) PROVE Abstract!Next
  BY <1>1, Zenon DEF Opens, Statuses, Abstract!Next, Abstract!Open
<1>2. ASSUME NEW c \in Calls, Returns(c) PROVE Abstract!Next
  BY <1>2, Zenon DEF Returns, Statuses, Abstract!Next, Abstract!ReturnErr
<1>3. ASSUME Statuses' = Statuses, UNCHANGED <<runs, answer>> PROVE UNCHANGED Abstract!vars
  BY <1>3, Zenon DEF Statuses, Abstract!vars
<1>4. ASSUME NEW t \in Threads, Call(t) PROVE Abstract!Next
  BY <1>1, <1>4, CallOpens, Zenon
<1>5. ASSUME NEW t \in Threads, Send(t) PROVE [Abstract!Next]_(Abstract!vars)
  BY <1>2, <1>3, <1>5, SendReturns, Zenon
<1>6. ASSUME NEW t \in Threads, TakeAck(t) PROVE Abstract!Next
  <2>1. PICK c : c = ThisCall(t)
    BY Zenon
  <2>2. thr[t].pc = "wait" /\ Return(t, "ok") /\ runs' = runs
    BY <1>6, Zenon DEF TakeAck
  <2>3. thr[t].pc # "idle" /\ "ok" \in {"ok", "err"}
    BY <2>2
  <2>4. c \in Calls /\ Statuses[c] = "open" /\ Statuses' = [Statuses EXCEPT ![c] = "ok"]
    BY <2>1, <2>2, <2>3, ReturnTurns, ZenonT(30)
  <2>5. \E r \in 1..runs[c] : answer' = [answer EXCEPT ![c] = r]
    BY <1>6, <2>1, TakeKeeps, Zenon
  <2> QED
    BY <2>2, <2>4, <2>5, Zenon DEF Statuses, Abstract!Next, Abstract!ReturnOk
<1>7. ASSUME NEW t \in Threads, Timeout(t) PROVE [Abstract!Next]_(Abstract!vars)
  <2>1. thr[t].pc = "wait" /\ NextAttempt(t) /\ UNCHANGED <<runs, answer>>
    BY <1>7, Zenon DEF Timeout
  <2>2. thr[t].pc # "idle"
    BY <2>1
  <2> QED
    BY <1>2, <1>3, <2>1, <2>2, AttemptReturns, ZenonT(30)
<1>8. ASSUME NEW e \in Ends, Receive(e) PROVE UNCHANGED Abstract!vars
  <2>1. UNCHANGED <<thr, outcome, runs, answer>>
    BY <1>8, ZenonT(30) DEF Receive
  <2> QED
    BY <1>3, <2>1, StatusesSame, ZenonT(30)
<1>9. ASSUME NEW e \in Ends, PollSlot(e) PROVE UNCHANGED Abstract!vars
  <2>1. UNCHANGED <<thr, outcome, runs, answer>>
    BY <1>9, Zenon DEF PollSlot
  <2> QED
    BY <1>3, <2>1, StatusesSame, Zenon
<1>10. ASSUME NEW e \in Ends, Handle(e) PROVE Abstract!Next
  BY <1>10, RunsOpened, Zenon DEF Statuses, Abstract!Next, Abstract!Run
<1>11. ASSUME UNCHANGED vars PROVE UNCHANGED Abstract!vars
  <2>1. UNCHANGED <<thr, outcome, runs, answer>>
    BY <1>11, Zenon DEF vars
  <2> QED
    BY <1>3, <2>1, StatusesSame, Zenon
<1> QED
  BY <1>4, <1>5, <1>6, <1>7, <1>8, <1>9, <1>10, <1>11, ZenonT(30) DEF Next

LEMMA AbstractInit == ASSUME Init PROVE Abstract!Init
<1>1. /\ runs = [c \in Calls |-> 0] /\ answer = [c \in Calls |-> 0]
      /\ outcome = [c \in Calls |-> "none"]
      /\ thr = [t \in Threads |-> [pc |-> "idle", n |-> 1, id |-> 0, retry |-> 0]]
  BY Zenon DEF Init
<1>2. \A c \in Calls : Status(c) = "none"
  BY <1>1, CallParts DEF Status
<1> QED
  BY <1>1, <1>2, ZenonT(30) DEF Abstract!Init

\* host_link keeps the promise of HostCalls, as far as it is a safety property:
\* for any number of threads, calls, retries and slots, whatever is lost and
\* however late an answer comes, a call returns "ok" only with the answer to one
\* of its own attempts, once, and is never run more than Retry times.
THEOREM Refinement == Spec => Abstract!SafeSpec
<1>1. IInv /\ [Next]_vars => IInv'
  BY Inductive
<1>2. IInv /\ [Next]_vars => [Abstract!Next]_(Abstract!vars)
  BY AbstractStep
<1> QED
  BY <1>1, <1>2, InitKeeps, AbstractInit, PTL DEF Spec, Abstract!SafeSpec

-----------------------------------------------------------------------------
(* Timely runs.                                                            *)

\* In a timely run, a thread's frames at large are of the attempt it waits for ...
TimelyInv == timely => \A t \in Threads : \A f \in AtLarge(EndOf(t)) :
    f.call[1] = t => thr[t].pc = "wait" /\ f.id = thr[t].id

\* ... and the attempts of its call that have no frame left were lost.
Roomy == /\ Cardinality(Requesters) <= NotifyDepth /\ Cardinality(Requesters) <= AckSlots
         /\ Cardinality(Notifiers) <= NotifyDepth /\ Cardinality(Notifiers) <= AckSlots
Lossy(c) ==
    /\ outcome[c] = "err" => Retry <= lost[c]
    /\ outcome[c] = "none" => \/ Attempts(c) <= lost[c]
                              \/ FramesOf(c) # {} /\ Attempts(c) <= lost[c] + 1
LossInv == timely => \A c \in Calls : Lossy(c)

\* Thread t has no frame at large.
Bare(t) == \A f \in AtLarge(EndOf(t)) : f.call[1] # t

\* A thread that does not find its frame at large has none.
LEMMA BareIs ==
  ASSUME TimelyInv, timely, NEW t \in Threads,
         thr[t].pc = "wait" => \A f \in AtLarge(EndOf(t)) : f.id # thr[t].id
  PROVE  Bare(t)
BY Zenon DEF TimelyInv, Bare

\* Steps that add no frame keep TimelyInv if the threads that move have none.
LEMMA TimelyShrinks ==
  ASSUME TimelyInv, timely' = timely, Shrinks,
         timely => \A t \in Threads : thr'[t] = thr[t] \/ Bare(t)'
  PROVE  TimelyInv'
<1> SUFFICES ASSUME timely, NEW t \in Threads, NEW f \in AtLarge(EndOf(t))', f.call[1] = t
             PROVE  thr'[t].pc = "wait" /\ f.id = thr'[t].id
  BY Zenon DEF TimelyInv
<1>1. f \in AtLarge(EndOf(t))
  BY TwoEnds, Zenon DEF Shrinks, AtLarge
<1>2. thr'[t] = thr[t]
  BY Zenon DEF Bare
<1> QED
  BY <1>1, <1>2, ZenonT(30) DEF TimelyInv

LEMMA BareShrinks == ASSUME NEW t \in Threads, Shrinks, Bare(t) PROVE Bare(t)'
BY TwoEnds, Zenon DEF Shrinks, AtLarge, Bare

LEMMA TimelyMoves ==
  ASSUME TimelyInv, timely' = timely, Shrinks, NEW t \in Threads, Moves(t), timely => Bare(t)
  PROVE  TimelyInv'
<1>1. timely => Bare(t)'
  BY BareShrinks, Zenon
<1> QED
  BY <1>1, TimelyShrinks, ZenonT(30) DEF Moves

\* Each action keeps TimelyInv.
LEMMA TimelyCall == ASSUME IInv, TimelyInv, NEW t \in Threads, Call(t) PROVE TimelyInv'
<1>1. /\ thr[t].pc = "idle" /\ thr' = [thr EXCEPT ![t].pc = "send"]
      /\ UNCHANGED <<timely, wire, notify, ack, poll, outcome>>
  BY Zenon DEF Call
<1>2. thr[t].pc # "wait" /\ Moves(t)
  BY <1>1, InvGives DEF Moves, Locals
<1>3. Shrinks
  BY <1>1, InvGives, QuietIs, SameShrinks, ZenonT(30)
<1> QED
  BY <1>1, <1>2, <1>3, BareIs, TimelyMoves, ZenonT(30)

\* A timely thread gives an attempt up only when its frame is gone.
LEMMA TimelyTimeout ==
  ASSUME IInv, TimelyInv, NEW t \in Threads, Timeout(t)
  PROVE  TimelyInv' /\ (timely => Bare(t))
<1>1. /\ thr[t].pc = "wait"
      /\ timely => \A f \in AtLarge(EndOf(t)) : f.id # thr[t].id
      /\ NextAttempt(t) /\ UNCHANGED <<timely, wire, notify, ack, poll>>
  BY Zenon DEF Timeout
<1>2. thr[t].pc # "idle"
  BY <1>1
<1>3. Moves(t) /\ Shrinks
  BY <1>1, <1>2, InvGives, AttemptIs, QuietIs, SameShrinks, ZenonT(30)
<1>4. timely => Bare(t)
  BY <1>1, BareIs, Zenon
<1> QED
  BY <1>1, <1>3, <1>4, TimelyMoves, ZenonT(30)

LEMMA TimelyTake == ASSUME IInv, TimelyInv, NEW t \in Threads, TakeAck(t) PROVE TimelyInv'
<1>1. /\ thr[t].pc = "wait" /\ Return(t, "ok") /\ timely' = timely
  BY Zenon DEF TakeAck
<1>2. thr[t].pc # "idle" /\ "ok" \in {"ok", "err"}
  BY <1>1
<1>3. Moves(t)
  BY <1>1, <1>2, InvGives, ReturnKeeps, ZenonT(30)
<1>4. PICK x \in Answering(EndOf(t)) : Matches(t, x) /\ Drop(EndOf(t), x)
  BY InvGives, TakeIs, Zenon
<1>5. EndOf(t) \in Ends /\ x \in AtLarge(EndOf(t)) /\ x.id = thr[t].id /\ Shrinks
  BY <1>4, TwoEnds, Kinds, DropShrinks, ZenonT(30) DEF Matches
<1>6. ASSUME timely PROVE Bare(t)'
  <2> SUFFICES ASSUME NEW f \in AtLarge(EndOf(t))', f.call[1] = t PROVE FALSE
    BY Zenon DEF Bare
  <2>1. f # x /\ f \in AtLarge(EndOf(t))
    BY <1>4, Zenon DEF Drop, AtLarge
  <2>2. f.id = thr[t].id
    BY <1>6, <2>1, Zenon DEF TimelyInv
  <2>3. \A g, h \in AtLarge(EndOf(t)) : g.id = h.id => g = h
    BY <1>5, InvGives, Zenon DEF SetInv, EndInv
  <2> QED
    BY <1>5, <2>1, <2>2, <2>3, ZenonT(30)
<1> QED
  BY <1>1, <1>3, <1>5, <1>6, TimelyShrinks, ZenonT(30) DEF Moves

LEMMA TimelySend == ASSUME IInv, TimelyInv, NEW t \in Threads, Send(t) PROVE TimelyInv'
<1>1. PICK x : x = Frame(CallType(t), nextId[EndOf(t)], ThisCall(t), 0)
  OBVIOUS
<1>2. /\ thr[t].pc = "send" /\ UNCHANGED <<timely, notify, ack, poll>>
      /\ \/ /\ wire' = [wire EXCEPT ![Peer(EndOf(t))] = Append(@, x)]
            /\ thr' = [thr EXCEPT ![t] = [pc |-> "wait", n |-> @.n, id |-> nextId[EndOf(t)],
                                          retry |-> @.retry]]
            /\ UNCHANGED <<outcome, lost>>
         \/ wire' = wire /\ NextAttempt(t)
  BY <1>1, Zenon DEF Send
<1>3. thr[t].pc # "idle" /\ thr[t].pc # "wait"
  BY <1>2
<1>4. timely => Bare(t)
  BY <1>3, BareIs, Zenon
<1>5. CASE wire' = wire /\ NextAttempt(t)
  <2>1. Moves(t) /\ Shrinks
    BY <1>2, <1>3, <1>5, InvGives, AttemptIs, QuietIs, SameShrinks, ZenonT(30)
  <2> QED
    BY <1>2, <1>4, <2>1, TimelyMoves, ZenonT(30)
<1>6. CASE /\ wire' = [wire EXCEPT ![Peer(EndOf(t))] = Append(@, x)]
           /\ thr' = [thr EXCEPT ![t] = [pc |-> "wait", n |-> @.n, id |-> nextId[EndOf(t)],
                                         retry |-> @.retry]]
           /\ UNCHANGED <<outcome, lost>>
  <2>1. Adds(EndOf(t), x) /\ Moves(t) /\ thr'[t].pc = "wait" /\ thr'[t].id = x.id
    BY <1>1, <1>6, SendWorks
  <2>2. x.call[1] = t
    BY <1>1 DEF Frame, ThisCall
  <2> SUFFICES ASSUME timely, NEW s \in Threads, NEW f \in AtLarge(EndOf(s))', f.call[1] = s
               PROVE  thr'[s].pc = "wait" /\ f.id = thr'[s].id
    BY <1>2, Zenon DEF TimelyInv
  <2>3. f \in AtLarge(EndOf(s)) \/ f = x
    <3>1. EndOf(s) = EndOf(t) \/ EndOf(s) = Peer(EndOf(t))
      BY TwoEnds, Zenon
    <3> QED
      BY <2>1, <3>1 DEF Adds
  <2>4. CASE f = x
    BY <2>1, <2>2, <2>4, Zenon
  <2>5. CASE f \in AtLarge(EndOf(s))
    <3>1. s # t
      BY <1>4, <2>5, Zenon DEF Bare
    <3>2. thr'[s] = thr[s]
      BY <2>1, <3>1, Zenon DEF Moves
    <3> QED
      BY <2>5, <3>2, Zenon DEF TimelyInv
  <2> QED
    BY <2>3, <2>4, <2>5, ZenonT(30)
<1> QED
  BY <1>2, <1>5, <1>6, Zenon

LEMMA TimelyReceive == ASSUME IInv, TimelyInv, NEW e \in Ends, Receive(e) PROVE TimelyInv'
<1>1. UNCHANGED <<timely, thr>>
  BY Zenon DEF Receive
<1>2. PICK x : x = Head(wire[e])
  OBVIOUS
<1>3. PICK d \in Ends : Drop(d, x) \/ (Same(d) /\ Same(Peer(d)))
  BY <1>2, InvGives, ReceiveIs, Zenon
<1>4. Shrinks
  BY <1>3, DropShrinks, SameShrinks, TwoEnds, Zenon
<1> QED
  BY <1>1, <1>4, TimelyShrinks, Zenon

LEMMA TimelyPoll == ASSUME IInv, TimelyInv, NEW e \in Ends, PollSlot(e) PROVE TimelyInv'
<1>1. UNCHANGED <<timely, thr>>
  BY Zenon DEF PollSlot
<1>2. Shrinks
  BY InvGives, PollIs, TwoEnds, Zenon DEF Shrinks, Same
<1> QED
  BY <1>1, <1>2, TimelyShrinks, Zenon

LEMMA TimelyHandle == ASSUME IInv, TimelyInv, NEW e \in Ends, Handle(e) PROVE TimelyInv'
<1>1. UNCHANGED <<timely, thr>>
  BY Zenon DEF Handle
<1>2. PICK x \in Asking(Peer(e)) : Dealt(e, x)
  BY HandleKeeps, Zenon
<1>3. PICK d \in Ends : d = Peer(e)
  BY TwoEnds, Zenon
<1>4. CASE Loses(d, x)
  BY <1>1, <1>3, <1>4, DropShrinks, TimelyShrinks, ZenonT(30) DEF Loses
<1>5. CASE \E y : Turns(d, x, y) /\ y.id = x.id /\ y.call = x.call
  <2>1. PICK y : Turns(d, x, y) /\ y.id = x.id /\ y.call = x.call
    BY <1>5, Zenon
  <2>2. x \in AtLarge(d)
    BY <1>2, <1>3, Kinds, Zenon
  <2> SUFFICES ASSUME timely, NEW t \in Threads, NEW f \in AtLarge(EndOf(t))', f.call[1] = t
               PROVE  thr[t].pc = "wait" /\ f.id = thr[t].id
    BY <1>1, Zenon DEF TimelyInv
  <2>3. f \in AtLarge(EndOf(t)) \/ (f = y /\ EndOf(t) = d)
    <3>1. EndOf(t) = d \/ EndOf(t) = Peer(d)
      BY TwoEnds, Zenon
    <3> QED
      BY <2>1, <3>1, Zenon DEF Turns, Same, AtLarge
  <2> QED
    BY <2>1, <2>2, <2>3, Zenon DEF TimelyInv
<1> QED
  BY <1>2, <1>3, <1>4, <1>5, ZenonT(30) DEF Dealt

LEMMA TimelyInit == ASSUME Init PROVE TimelyInv
BY InitKeeps, TwoEnds, Zenon DEF TimelyInv

LEMMA TimelyStep == ASSUME IInv, TimelyInv, [Next]_vars PROVE TimelyInv'
<1>1. ASSUME NEW t \in Threads, Call(t) \/ Send(t) \/ TakeAck(t) \/ Timeout(t) PROVE TimelyInv'
  BY <1>1, TimelyCall, TimelySend, TimelyTake, TimelyTimeout, ZenonT(30)
<1>2. ASSUME NEW e \in Ends, Receive(e) \/ PollSlot(e) \/ Handle(e) PROVE TimelyInv'
  BY <1>2, TimelyReceive, TimelyPoll, TimelyHandle, ZenonT(30)
<1>3. CASE UNCHANGED vars
  BY <1>3, Zenon DEF vars, TimelyInv, AtLarge, Asking, Answering
<1> QED
  BY <1>1, <1>2, <1>3, ZenonT(30) DEF Next

\* The callback runs the call its thread is in.
LEMMA RunsCurrent ==
  ASSUME IInv, TimelyInv, timely, NEW e \in Ends, Handle(e), NEW c \in Calls, Overtaken(c)
  PROVE  runs'[c] = runs[c]
<1>1. PICK x \in Asking(Peer(e)) : /\ x.call \in Calls /\ EndOf(x.call[1]) = Peer(e)
                                   /\ runs' = [runs EXCEPT ![x.call] = @ + 1]
  BY RunIs, Zenon
<1>2. PICK t, n : t = x.call[1] /\ n = thr[t].n
  OBVIOUS
<1>3. t \in Threads /\ x \in AtLarge(EndOf(t)) /\ n \in 1..NCalls+1
  BY <1>1, <1>2, CallParts, TwoEnds, Kinds, InvGives, ThrParts, ZenonT(30)
<1>4. x.call = <<t, n>>
  BY <1>2, <1>3, InvGives, ZenonT(30) DEF TimelyInv, WaitInv, ThisCall
<1>5. ASSUME c = x.call PROVE FALSE
  <2>1. c[1] = t /\ c[2] = n
    BY <1>4, <1>5
  <2>2. PICK m \in n+1..NCalls : runs[<<t, m>>] > 0
    BY <2>1, Zenon DEF Overtaken
  <2>3. m \in 1..NCalls /\ m \in Nat /\ ~(m < n) /\ m > n
    BY <1>3, <2>2, HostLinkAssumption
  <2>4. PICK b, q : b = <<t, m>> /\ q = Cardinality(QuestionsOf(b))
    BY Zenon
  <2>5. b \in Calls /\ b[1] = t /\ b[2] = m
    BY <1>3, <2>3, <2>4 DEF Calls
  <2>6. Attempts(b) = 0
    BY <1>2, <2>3, <2>5, ZenonT(30) DEF Attempts
  <2>7. runs[b] \in Nat /\ q \in Nat /\ runs[b] + q <= Attempts(b)
    BY <2>4, <2>5, InvGives, CountersAre, OfCall, ZenonT(30) DEF Counted
  <2> QED
    BY <2>2, <2>4, <2>6, <2>7, SMTT(30)
<1> QED
  BY <1>1, <1>5, InvGives, ZenonT(30) DEF Counters

\* When both ends answer in time, the peer runs the calls of one thread in the
\* order they were made, for any number of threads, slots, retries and losses.
THEOREM OrderKept == Spec => RunsInOrder
<1>1. IInv /\ TimelyInv /\ [Next]_vars => (IInv /\ TimelyInv)'
  BY Inductive, TimelyStep
<1>2. IInv /\ TimelyInv /\ [Next]_vars
        => [timely => \A c \in Calls : Overtaken(c) => runs'[c] = runs[c]]_vars
  <2> SUFFICES ASSUME IInv, TimelyInv, Next, timely, NEW c \in Calls, Overtaken(c)
               PROVE  runs'[c] = runs[c]
    BY Zenon
  <2>1. runs' = runs \/ \E e \in Ends : Handle(e)
    BY Zenon DEF Next, Call, Send, TakeAck, Timeout, Receive, PollSlot
  <2> QED
    BY <2>1, RunsCurrent, Zenon
<1> QED
  BY <1>1, <1>2, InitKeeps, TimelyInit, PTL DEF Spec, RunsInOrder

-----------------------------------------------------------------------------
(* Losses.                                                                 *)

\* Nothing happens to the call.
LEMMA LossySame ==
  ASSUME NEW c \in Calls, Lossy(c), outcome'[c] = outcome[c], lost'[c] = lost[c],
         Attempts(c)' = Attempts(c), FramesOf(c) # {} => FramesOf(c)' # {}
  PROVE  Lossy(c)'
BY Zenon DEF Lossy

\* The frames of a call that a step leaves alone.
LEMMA FramesSame == ASSUME \A d \in Ends : Same(d), NEW c \in Calls PROVE FramesOf(c)' = FramesOf(c)
BY CallParts, TwoEnds, ZenonT(30) DEF Same, FramesOf, AtLarge

LEMMA FramesDrop ==
  ASSUME NEW d \in Ends, NEW x, Drop(d, x), NEW c \in Calls, c # x.call
  PROVE  FramesOf(c)' = FramesOf(c)
<1>1. EndOf(c[1]) = d \/ EndOf(c[1]) = Peer(d)
  BY CallParts, TwoEnds, Zenon
<1> QED
  BY <1>1, Zenon DEF Drop, Same, FramesOf, AtLarge

LEMMA BareFrames == ASSUME NEW t \in Threads, Bare(t) PROVE FramesOf(ThisCall(t)) = {}
<1>1. ThisCall(t)[1] = t
  BY DEF ThisCall
<1> QED
  BY <1>1, Zenon DEF Bare, FramesOf

\* Each action keeps LossInv.
LEMMA LossCall == ASSUME IInv, LossInv, NEW t \in Threads, Call(t) PROVE LossInv'
<1>1. UNCHANGED <<timely, wire, notify, ack, poll, outcome, lost>>
  BY Zenon DEF Call
<1>2. \A c \in Calls : Attempts(c)' = Attempts(c) /\ FramesOf(c)' = FramesOf(c)
  BY <1>1, InvGives, CallKeeps, QuietIs, FramesSame, ZenonT(30)
<1> QED
  BY <1>1, <1>2, LossySame, ZenonT(30) DEF LossInv

\* A thread starts its next attempt, or gives up.
LEMMA LossAttempt ==
  ASSUME IInv, LossInv, timely' = timely, NEW t \in Threads, thr[t].pc # "idle", NextAttempt(t),
         \A d \in Ends : Same(d), \A b \in Calls : b # ThisCall(t) => lost'[b] = lost[b],
         timely => thr[t].retry + 1 <= lost'[ThisCall(t)]
  PROVE  LossInv'
<1>1. /\ \A c \in Calls : Attempts(c)' = IF c = ThisCall(t) THEN thr[t].retry + 1 ELSE Attempts(c)
      /\ \A c \in Calls : \/ outcome'[c] = outcome[c]
                          \/ /\ c = ThisCall(t) /\ outcome'[c] = "err" /\ thr[t].retry + 1 = Retry
      /\ ThisCall(t) \in Calls
  BY InvGives, AttemptIs, ZenonT(30)
<1> SUFFICES ASSUME timely, NEW c \in Calls PROVE Lossy(c)'
  BY Zenon DEF LossInv
<1>2. CASE c # ThisCall(t)
  BY <1>1, <1>2, FramesSame, LossySame, ZenonT(30) DEF LossInv
<1>3. CASE c = ThisCall(t)
  <2>1. Attempts(c)' = thr[t].retry + 1 /\ outcome[c] = "none"
    BY <1>1, <1>3, StatusHere, ZenonT(30)
  <2>2. Attempts(c)' <= lost'[c] /\ (outcome'[c] = "err" => Retry <= lost'[c])
    <3>1. outcome'[c] = "err" => thr[t].retry + 1 = Retry
      BY <1>1, <2>1
    <3> QED
      BY <1>3, <2>1, <3>1, ZenonT(30)
  <2> QED
    BY <2>2, Zenon DEF Lossy
<1> QED
  BY <1>2, <1>3, ZenonT(30)

LEMMA LossTimeout == ASSUME IInv, TimelyInv, LossInv, NEW t \in Threads, Timeout(t) PROVE LossInv'
<1>1. /\ thr[t].pc = "wait" /\ NextAttempt(t) /\ UNCHANGED <<timely, wire, notify, ack, poll, lost>>
  BY Zenon DEF Timeout
<1>2. PICK c : c = ThisCall(t)
  BY Zenon
<1>3. thr[t].pc # "idle"
  BY <1>1
<1>4. c \in Calls /\ \A d \in Ends : Same(d)
  BY <1>1, <1>2, <1>3, InvGives, AttemptIs, QuietIs, ZenonT(30)
<1>5. ASSUME timely PROVE thr[t].retry + 1 <= lost[c]
  <2>1. FramesOf(c) = {}
    BY <1>2, <1>5, TimelyTimeout, BareFrames, ZenonT(30)
  <2>2. outcome[c] = "none" /\ Attempts(c) = thr[t].retry + 1
    BY <1>1, <1>2, <1>4, InvGives, StatusHere, AttemptsHere, ZenonT(30)
  <2> QED
    BY <1>4, <1>5, <2>1, <2>2, ZenonT(30) DEF LossInv, Lossy
<1>6. /\ \A b \in Calls : b # ThisCall(t) => lost'[b] = lost[b]
      /\ timely => thr[t].retry + 1 <= lost'[ThisCall(t)]
  BY <1>1, <1>2, <1>5, ZenonT(30)
<1> QED
  BY <1>1, <1>3, <1>4, <1>6, LossAttempt, ZenonT(30)

LEMMA LossSend == ASSUME IInv, TimelyInv, LossInv, NEW t \in Threads, Send(t) PROVE LossInv'
<1>0. PICK x, c : x = Frame(CallType(t), nextId[EndOf(t)], ThisCall(t), 0) /\ c = ThisCall(t)
  BY Zenon
<1>1. /\ thr[t].pc = "send" /\ UNCHANGED <<timely, notify, ack, poll>>
      /\ \/ /\ wire' = [wire EXCEPT ![Peer(EndOf(t))] = Append(@, x)]
            /\ thr' = [thr EXCEPT ![t] = [pc |-> "wait", n |-> @.n, id |-> nextId[EndOf(t)],
                                          retry |-> @.retry]]
            /\ UNCHANGED <<outcome, lost>>
         \/ wire' = wire /\ NextAttempt(t) /\ lost' = [lost EXCEPT ![c] = @ + 1]
  BY <1>0, Zenon DEF Send
<1>2. thr[t].pc # "idle" /\ thr[t].pc # "wait"
  BY <1>1
<1>3. c \in Calls
  <2>1. thr[t].n \in 1..NCalls+1 /\ thr[t].n <= NCalls
    BY <1>2, InvGives, ThrParts, ZenonT(30) DEF ThreadInv
  <2>2. thr[t].n \in 1..NCalls
    BY <2>1, HostLinkAssumption
  <2> QED
    BY <1>0, <2>2 DEF ThisCall, Calls
<1>4. outcome[c] = "none" /\ Attempts(c) = thr[t].retry
  BY <1>0, <1>1, <1>3, InvGives, StatusHere, AttemptsHere, ZenonT(30)
<1>5. ASSUME timely PROVE Attempts(c) <= lost[c]
  <2>1. FramesOf(c) = {}
    BY <1>0, <1>2, <1>5, BareIs, BareFrames, ZenonT(30)
  <2> QED
    BY <1>3, <1>4, <1>5, <2>1, ZenonT(30) DEF LossInv, Lossy
<1>6. lost[c] \in Nat /\ thr[t].retry \in Nat
  BY <1>3, InvGives, CountersAre, ThrParts, HostLinkAssumption, SMTT(30)
<1>7. CASE wire' = wire /\ NextAttempt(t) /\ lost' = [lost EXCEPT ![c] = @ + 1]
  <2>1. /\ \A b \in Calls : b # c => lost'[b] = lost[b]
        /\ lost'[c] = lost[c] + 1
    BY <1>3, <1>7, InvGives, ZenonT(30) DEF Counters
  <2>2. timely => thr[t].retry + 1 <= lost'[c]
    BY <1>4, <1>5, <1>6, <2>1, SMTT(30)
  <2>3. \A d \in Ends : Same(d)
    BY <1>1, <1>7, InvGives, QuietIs, ZenonT(30)
  <2> QED
    BY <1>0, <1>1, <1>2, <1>7, <2>1, <2>2, <2>3, LossAttempt, ZenonT(30)
<1>8. CASE /\ wire' = [wire EXCEPT ![Peer(EndOf(t))] = Append(@, x)]
           /\ thr' = [thr EXCEPT ![t] = [pc |-> "wait", n |-> @.n, id |-> nextId[EndOf(t)],
                                         retry |-> @.retry]]
           /\ UNCHANGED <<outcome, lost>>
  <2>1. /\ Adds(EndOf(t), x)
        /\ \A b \in Calls : Attempts(b)' = IF b = ThisCall(t) THEN Attempts(b) + 1 ELSE Attempts(b)
    BY <1>0, <1>8, SendWorks
  <2>2. c[1] = t /\ x.call = c
    BY <1>0 DEF Frame, ThisCall
  <2>3. x \in FramesOf(c)'
    BY <2>1, <2>2, Zenon DEF Adds, FramesOf
  <2>4. \A b \in Calls : FramesOf(b) \subseteq FramesOf(b)'
    <3> SUFFICES ASSUME NEW b \in Calls, NEW f \in AtLarge(EndOf(b[1])), f.call = b
                 PROVE  f \in AtLarge(EndOf(b[1]))'
      BY Zenon DEF FramesOf
    <3>1. EndOf(b[1]) = EndOf(t) \/ EndOf(b[1]) = Peer(EndOf(t))
      BY CallParts, TwoEnds, ZenonT(30)
    <3> QED
      BY <2>1, <3>1 DEF Adds
  <2> SUFFICES ASSUME timely, NEW b \in Calls PROVE Lossy(b)'
    BY <1>1, Zenon DEF LossInv
  <2>5. CASE b # c
    BY <1>0, <1>8, <2>1, <2>4, <2>5, LossySame, ZenonT(30) DEF LossInv
  <2>6. CASE b = c
    <3>1. Attempts(b)' <= lost'[b] + 1
      BY <1>0, <1>3, <1>4, <1>5, <1>6, <1>8, <2>1, <2>6, SMTT(30)
    <3>2. outcome'[b] # "err"
      BY <1>4, <1>8, <2>6, SMTT(30)
    <3> QED
      BY <2>3, <2>6, <3>1, <3>2, ZenonT(30) DEF Lossy
  <2> QED
    BY <2>5, <2>6, ZenonT(30)
<1> QED
  BY <1>1, <1>7, <1>8, ZenonT(30)

LEMMA LossTake == ASSUME IInv, LossInv, NEW t \in Threads, TakeAck(t) PROVE LossInv'
<1>1. thr[t].pc = "wait" /\ Return(t, "ok") /\ UNCHANGED <<timely, lost>>
  BY Zenon DEF TakeAck
<1>2. thr[t].pc # "idle" /\ "ok" \in {"ok", "err"}
  BY <1>1
<1>3. /\ \A c \in Calls : Attempts(c)' = IF c = ThisCall(t) THEN Retry ELSE Attempts(c)
      /\ \A c \in Calls : outcome'[c] = IF c = ThisCall(t) THEN "ok" ELSE outcome[c]
  BY <1>1, <1>2, InvGives, ReturnKeeps, ZenonT(30)
<1>4. PICK x \in Answering(EndOf(t)) : Matches(t, x) /\ Drop(EndOf(t), x)
  BY InvGives, TakeIs, Zenon
<1>5. EndOf(t) \in Ends /\ x.call = ThisCall(t)
  BY <1>1, <1>4, TwoEnds, Kinds, InvGives, ZenonT(30) DEF Matches, WaitInv
<1> SUFFICES ASSUME timely, NEW c \in Calls PROVE Lossy(c)'
  BY <1>1, Zenon DEF LossInv
<1>6. CASE c = ThisCall(t)
  <2>1. outcome'[c] # "err" /\ outcome'[c] # "none"
    BY <1>3, <1>6
  <2> QED
    BY <2>1, Zenon DEF Lossy
<1>7. CASE c # ThisCall(t)
  <2>1. FramesOf(c)' = FramesOf(c)
    BY <1>4, <1>5, <1>7, FramesDrop, ZenonT(30)
  <2> QED
    BY <1>1, <1>3, <1>7, <2>1, LossySame, ZenonT(30) DEF LossInv
<1> QED
  BY <1>6, <1>7, Zenon

\* A frame is lost, and counted.
LEMMA LossLoses ==
  ASSUME IInv, LossInv, UNCHANGED <<timely, thr, outcome>>,
         NEW d \in Ends, NEW x \in AtLarge(d), Loses(d, x)
  PROVE  LossInv'
<1>0. PICK b : b = x.call
  BY Zenon
<1>1. Drop(d, x) /\ lost' = [lost EXCEPT ![b] = @ + 1]
  BY <1>0, Zenon DEF Loses
<1>2. \A c \in Calls : Attempts(c)' = Attempts(c)
  BY ThreadSame, Zenon
<1> SUFFICES ASSUME timely, NEW c \in Calls PROVE Lossy(c)'
  BY Zenon DEF LossInv
<1>3. Lossy(c)
  BY Zenon DEF LossInv
<1>4. CASE c = b
  <2>1. lost[c] \in Nat /\ lost'[c] = lost[c] + 1 /\ Attempts(c) \in 0..Retry
    BY <1>1, <1>4, InvGives, CountersAre, ZenonT(30) DEF Counters
  <2>2. /\ outcome[c] = "err" => Retry <= lost[c]
        /\ outcome[c] = "none" => Attempts(c) <= lost[c] \/ Attempts(c) <= lost[c] + 1
    BY <1>3, ZenonT(30) DEF Lossy
  <2>3. /\ outcome[c] = "err" => Retry <= lost'[c]
        /\ outcome[c] = "none" => Attempts(c) <= lost'[c]
    BY <2>1, <2>2, HostLinkAssumption, SMTT(30)
  <2> QED
    BY <1>2, <2>3, ZenonT(30) DEF Lossy
<1>5. CASE c # b
  <2>1. FramesOf(c)' = FramesOf(c) /\ lost'[c] = lost[c]
    BY <1>0, <1>1, <1>5, FramesDrop, InvGives, ZenonT(30) DEF Counters
  <2> QED
    BY <1>2, <1>3, <2>1, LossySame, ZenonT(30)
<1> QED
  BY <1>4, <1>5, ZenonT(30)

LEMMA LossHandle == ASSUME IInv, LossInv, NEW e \in Ends, Handle(e) PROVE LossInv'
<1>1. UNCHANGED <<timely, thr, outcome>>
  BY ZenonT(30) DEF Handle
<1>2. PICK x \in Asking(Peer(e)) : Dealt(e, x)
  BY HandleKeeps, Zenon
<1>3. PICK d \in Ends : d = Peer(e)
  BY TwoEnds, Zenon
<1>4. x \in AtLarge(d)
  BY <1>2, <1>3, Kinds, Zenon
<1>5. CASE Loses(d, x)
  BY <1>1, <1>4, <1>5, LossLoses, ZenonT(30)
<1>6. CASE lost' = lost /\ \E y : Turns(d, x, y) /\ y.id = x.id /\ y.call = x.call
  <2>1. PICK y : Turns(d, x, y) /\ y.call = x.call
    BY <1>6, Zenon
  <2>2. AtLarge(Peer(d))' = AtLarge(Peer(d)) /\ AtLarge(d) \ {x} \subseteq AtLarge(d)' /\ y \in AtLarge(d)'
    BY <2>1, Zenon DEF Turns, Same, AtLarge
  <2>3. ASSUME NEW c \in Calls, FramesOf(c) # {} PROVE FramesOf(c)' # {}
    <3>1. PICK f \in AtLarge(EndOf(c[1])) : f.call = c
      BY <2>3, Zenon DEF FramesOf
    <3>2. EndOf(c[1]) = d \/ EndOf(c[1]) = Peer(d)
      BY CallParts, TwoEnds, Zenon
    <3>3. CASE EndOf(c[1]) = Peer(d)
      BY <2>2, <3>1, <3>3, ZenonT(30) DEF FramesOf
    <3>4. CASE EndOf(c[1]) = d
      BY <2>1, <2>2, <3>1, <3>4, ZenonT(30) DEF FramesOf
    <3> QED
      BY <3>2, <3>3, <3>4, ZenonT(30)
  <2>4. \A c \in Calls : Attempts(c)' = Attempts(c)
    BY <1>1, ThreadSame, Zenon
  <2> QED
    BY <1>1, <1>6, <2>3, <2>4, LossySame, ZenonT(30) DEF LossInv
<1> QED
  BY <1>2, <1>3, <1>5, <1>6, ZenonT(30) DEF Dealt

\* In a timely run every answer is awaited, so no pass of host_link_poll frees one.
LEMMA AllAwaited ==
  ASSUME IInv, TimelyInv, timely, NEW e \in Ends, NEW f \in Answering(e)
  PROVE  Awaited(e, f)
<1>1. PICK t : t = f.call[1]
  BY Zenon
<1>2. f \in AtLarge(e) /\ EndOf(t) = e /\ f.type = AckType(CallType(t))
  BY <1>1, InvGives, Kinds, ZenonT(30) DEF SetInv, EndInv
<1>3. t \in Threads
  BY <1>1, <1>2, InvGives, AtLargeIs, FrameParts, ZenonT(30)
<1>4. thr[t].pc = "wait" /\ f.id = thr[t].id
  BY <1>1, <1>2, <1>3, ZenonT(30) DEF TimelyInv
<1> QED
  BY <1>2, <1>3, <1>4, ZenonT(30) DEF Awaited, Matches

LEMMA LossPoll == ASSUME IInv, TimelyInv, LossInv, NEW e \in Ends, PollSlot(e) PROVE LossInv'
<1>1. UNCHANGED <<timely, thr, outcome, lost>>
  BY Zenon DEF PollSlot
<1> SUFFICES ASSUME timely PROVE \A c \in Calls : Lossy(c)'
  BY <1>1, Zenon DEF LossInv
<1>2. /\ Same(Peer(e)) /\ Asking(e)' = Asking(e) /\ Answering(e)' \subseteq Answering(e)
      /\ \A f \in Answering(e) \ Answering(e)' : ~Awaited(e, f)
  BY InvGives, PollIs, Zenon
<1>3. Answering(e)' = Answering(e)
  BY <1>2, AllAwaited, Zenon
<1>4. \A d \in Ends : Same(d)
  BY <1>2, <1>3, TwoEnds, ZenonT(30) DEF Same
<1>5. \A c \in Calls : Attempts(c)' = Attempts(c) /\ FramesOf(c)' = FramesOf(c)
  BY <1>1, <1>4, ThreadSame, FramesSame, ZenonT(30)
<1> QED
  BY <1>1, <1>5, LossySame, ZenonT(30) DEF LossInv

\* The threads of an end.
Owners(d) == {t \in Threads : EndOf(t) = d}
LEMMA OwnersFew ==
  ASSUME Roomy, NEW d \in Ends
  PROVE  /\ IsFiniteSet(Owners(d)) /\ Cardinality(Owners(d)) \in Nat
         /\ Cardinality(Owners(d)) <= NotifyDepth /\ Cardinality(Owners(d)) <= AckSlots
<1>1. d = "linux" \/ d = "mcu"
  BY DEF Ends
<1>2. d = "linux" => Owners(d) = Requesters
  BY DEF Owners, EndOf, Threads
<1>3. d = "mcu" => Owners(d) = Notifiers
  BY HostLinkAssumption DEF Owners, EndOf, Threads
<1>4. IsFiniteSet(Owners(d))
  <2>1. IsFiniteSet(Threads) /\ Owners(d) \subseteq Threads
    BY HostLinkAssumption, Zenon DEF Threads, Owners
  <2> QED
    BY <2>1, FS_Subset, ZenonT(30)
<1> QED
  BY <1>1, <1>2, <1>3, <1>4, FS_CardinalityType, ZenonT(30) DEF Roomy

\* In a timely run the frames at large of an end have different owners.
LEMMA OwnerIs ==
  ASSUME IInv, TimelyInv, timely, NEW d \in Ends
  PROVE  /\ \A f \in AtLarge(d) : f.call[1] \in Owners(d)
         /\ \A f, g \in AtLarge(d) : f.call[1] = g.call[1] => f = g
<1>1. \A f \in AtLarge(d) : f.call[1] \in Owners(d)
  <2> SUFFICES ASSUME NEW f \in AtLarge(d) PROVE f.call[1] \in Owners(d)
    BY Zenon
  <2>1. f.call[1] \in Threads
    BY InvGives, AtLargeIs, FrameParts, ZenonT(30)
  <2>2. EndOf(f.call[1]) = d
    BY InvGives, Zenon DEF SetInv, EndInv, AtLarge
  <2> QED
    BY <2>1, <2>2, Zenon DEF Owners
<1>2. ASSUME NEW f \in AtLarge(d), NEW g \in AtLarge(d), f.call[1] = g.call[1] PROVE f = g
  <2>1. PICK t : t = f.call[1]
    BY Zenon
  <2>2. t \in Threads /\ EndOf(t) = d
    BY <1>1, <2>1, Zenon DEF Owners
  <2>3. f.id = thr[t].id /\ g.id = thr[t].id
    BY <1>2, <2>1, <2>2, ZenonT(30) DEF TimelyInv
  <2>4. \A a, b \in AtLarge(d) : a.id = b.id => a = b
    BY InvGives, Zenon DEF SetInv, EndInv
  <2> QED
    BY <2>3, <2>4, Zenon
<1> QED
  BY <1>1, <1>2, Zenon

\* ... so they do not fill the slots and leave one over.
LEMMA Crowd ==
  ASSUME IInv, TimelyInv, timely, NEW d \in Ends, NEW N \in Nat \ {0},
         IsFiniteSet(Owners(d)), Cardinality(Owners(d)) \in Nat, Cardinality(Owners(d)) <= N,
         NEW S, Single(S), DOMAIN S = 1..N,
         \A i \in 1..N : S[i] \in AtLarge(d) /\ S[i] # NoFrame,
         NEW x \in AtLarge(d), x \notin Range(S)
  PROVE  FALSE
<1> DEFINE fr == [i \in 0..N |-> IF i = 0 THEN x ELSE S[i]]
           g == [i \in 0..N |-> fr[i].call[1]]
<1>1. \A i \in 0..N : i = 0 \/ i \in 1..N
  OBVIOUS
<1>2. \A i \in 0..N : fr[i] \in AtLarge(d)
  BY <1>1, Zenon
<1>3. g \in [0..N -> Owners(d)]
  <2> HIDE DEF fr
  <2> QED
    BY <1>2, OwnerIs, Zenon
<1>4. IsFiniteSet(0..N) /\ Cardinality(0..N) = N + 1
  <2>1. 0 \in Int /\ N \in Int /\ ~(0 > N) /\ N - 0 + 1 = N + 1
    OBVIOUS
  <2> QED
    BY <2>1, FS_Interval, Zenon
<1>5. Cardinality(Owners(d)) < Cardinality(0..N)
  BY <1>4
<1>6. PICK i, j \in 0..N : i # j /\ g[i] = g[j]
  <2> DEFINE A == 0..N B == Owners(d)
  <2>1. IsFiniteSet(A) /\ IsFiniteSet(B) /\ Cardinality(B) < Cardinality(A) /\ g \in [A -> B]
    BY <1>3, <1>4, <1>5, ZenonT(30)
  <2> HIDE DEF g, A, B
  <2>2. \E i, j \in A : i # j /\ g[i] = g[j]
    BY <2>1, FS_PigeonHole
  <2> QED
    BY <2>2, Zenon DEF A
<1>7. fr[i] = fr[j]
  <2>1. fr[i].call[1] = fr[j].call[1]
    BY <1>6, Zenon
  <2> HIDE DEF fr, g
  <2> QED
    BY <1>2, <1>6, <2>1, OwnerIs, ZenonT(30)
<1>8. \A k \in 0..N : (k = 0 => fr[k] = x) /\ (k # 0 => k \in 1..N /\ fr[k] = S[k])
  BY <1>1, Zenon
<1>9. \A k \in 1..N : S[k] # x
  BY Zenon DEF Range
<1> HIDE DEF fr, g
<1> QED
  BY <1>6, <1>7, <1>8, <1>9, ZenonT(30) DEF Single

\* A frame that arrives in a timely run finds a slot.
LEMMA NeverFull ==
  ASSUME IInv, TimelyInv, timely, Roomy, NEW e \in Ends, Receive(e), NEW d \in Ends,
         Head(wire[e]) \in AtLarge(d), Full(e, d)
  PROVE  FALSE
<1>1. Sorted(wire[e], notify[e], ack[e], poll[e].fr) /\ Alone(wire[e], notify[e], ack[e], poll[e].fr)
  BY InvGives, Zenon DEF PlaceInv, Placed
<1>2. wire[e] # << >>
  BY Zenon DEF Receive
<1>3. Head(wire[e]) \notin Range(notify[e]) \cup Range(ack[e])
  <2>1. PICK W, N, A, F : W = wire[e] /\ N = notify[e] /\ A = ack[e] /\ F = poll[e].fr
    BY Zenon
  <2>2. Sorted(W, N, A, F) /\ Alone(W, N, A, F) /\ W # << >>
    BY <1>1, <1>2, <2>1, ZenonT(30)
  <2>3. Head(W) \notin Range(N) \cup Range(A)
    BY <2>2, Received, Zenon
  <2> QED
    BY <2>1, <2>3, ZenonT(30)
<1>4. /\ IsFiniteSet(Owners(d)) /\ Cardinality(Owners(d)) \in Nat
      /\ Cardinality(Owners(d)) <= NotifyDepth /\ Cardinality(Owners(d)) <= AckSlots
  BY OwnersFew, Zenon
<1>5. CASE d = Peer(e) /\ \A i \in 1..NotifyDepth : notify[e][i] # NoFrame
  <2>1. PICK S : S = notify[e]
    BY Zenon
  <2>2. DOMAIN S = 1..NotifyDepth /\ Single(S) /\ Head(wire[e]) \notin Range(S)
    BY <1>1, <1>3, <2>1, ZenonT(30) DEF Sorted, Alone
  <2>3. ASSUME NEW i \in 1..NotifyDepth PROVE S[i] \in AtLarge(d) /\ S[i] # NoFrame
    <3>1. S[i] # NoFrame /\ S[i].type \in Questions
      BY <1>1, <1>5, <2>1, ZenonT(30) DEF Sorted
    <3>2. S[i] \in Heard(e)
      BY <2>1, <2>2, <3>1, ZenonT(30) DEF Heard, Asked, Range
    <3>3. Peer(d) = e
      BY <1>5, TwoEnds, ZenonT(30)
    <3> QED
      BY <3>1, <3>2, <3>3, HeardIs, Kinds, ZenonT(30)
  <2>4. NotifyDepth \in Nat \ {0}
    BY HostLinkAssumption, Zenon
  <2> QED
    BY <1>4, <2>2, <2>3, <2>4, Crowd, ZenonT(30)
<1>6. CASE d = e /\ \A i \in 1..AckSlots : ack[e][i] # NoFrame
  <2>1. PICK S : S = ack[e]
    BY Zenon
  <2>2. DOMAIN S = 1..AckSlots /\ Single(S) /\ Head(wire[e]) \notin Range(S)
    BY <1>1, <1>3, <2>1, ZenonT(30) DEF Sorted, Alone
  <2>3. ASSUME NEW i \in 1..AckSlots PROVE S[i] \in AtLarge(d) /\ S[i] # NoFrame
    <3>1. S[i] # NoFrame /\ S[i].type \in Answers
      BY <1>1, <1>6, <2>1, ZenonT(30) DEF Sorted
    <3>2. S[i] \in Answered(wire[e], ack[e])
      BY <2>1, <2>2, <3>1, ZenonT(30) DEF Answered, Range
    <3> QED
      BY <1>6, <3>1, <3>2, HeardIs, Kinds, ZenonT(30)
  <2>4. AckSlots \in Nat \ {0}
    BY HostLinkAssumption, Zenon
  <2> QED
    BY <1>4, <2>2, <2>3, <2>4, Crowd, ZenonT(30)
<1> QED
  BY <1>5, <1>6, ZenonT(30) DEF Full

LEMMA LossReceive ==
  ASSUME IInv, TimelyInv, LossInv, Roomy, NEW e \in Ends, Receive(e)
  PROVE  LossInv'
<1>1. UNCHANGED <<timely, thr, outcome, runs>>
  BY Zenon DEF Receive
<1>2. PICK x : x = Head(wire[e])
  BY Zenon
<1>3. PICK d \in Ends : /\ x \in AtLarge(d)
                        /\ \/ Drop(d, x) /\ lost' = [lost EXCEPT ![x.call] = @ + 1]
                           \/ lost' = lost /\ Same(d) /\ Same(Peer(d))
                           \/ lost' = lost /\ Drop(d, x) /\ Full(e, d)
  BY <1>2, InvGives, ReceiveIs, ZenonT(30)
<1>4. CASE Drop(d, x) /\ lost' = [lost EXCEPT ![x.call] = @ + 1]
  <2>1. Loses(d, x)
    BY <1>1, <1>4, Zenon DEF Loses
  <2> QED
    BY <1>1, <1>3, <2>1, LossLoses, ZenonT(30)
<1>5. CASE lost' = lost /\ Same(d) /\ Same(Peer(d))
  <2>1. \A b \in Ends : Same(b)
    BY <1>5, TwoEnds, ZenonT(30)
  <2>2. \A c \in Calls : Attempts(c)' = Attempts(c) /\ FramesOf(c)' = FramesOf(c)
    BY <1>1, <2>1, ThreadSame, FramesSame, ZenonT(30)
  <2> QED
    BY <1>1, <1>5, <2>2, LossySame, ZenonT(30) DEF LossInv
<1>6. CASE Full(e, d)
  BY <1>1, <1>2, <1>3, <1>6, NeverFull, ZenonT(30) DEF LossInv
<1> QED
  BY <1>3, <1>4, <1>5, <1>6, ZenonT(30)

LEMMA LossStep == ASSUME IInv, TimelyInv, LossInv, Roomy, [Next]_vars PROVE LossInv'
<1>1. ASSUME NEW t \in Threads, Call(t) \/ Send(t) \/ TakeAck(t) \/ Timeout(t) PROVE LossInv'
  BY <1>1, LossCall, LossSend, LossTake, LossTimeout, ZenonT(30)
<1>2. ASSUME NEW e \in Ends, Receive(e) \/ PollSlot(e) \/ Handle(e) PROVE LossInv'
  BY <1>2, LossReceive, LossPoll, LossHandle, ZenonT(30)
<1>3. CASE UNCHANGED vars
  <2>1. UNCHANGED <<timely, thr, outcome, lost, wire, notify, ack, poll>>
    BY <1>3, Zenon DEF vars
  <2>2. \A c \in Calls : Attempts(c)' = Attempts(c) /\ FramesOf(c)' = FramesOf(c)
    BY <2>1, InvGives, QuietIs, ThreadSame, FramesSame, ZenonT(30)
  <2> QED
    BY <2>1, <2>2, LossySame, ZenonT(30) DEF LossInv
<1> QED
  BY <1>1, <1>2, <1>3, ZenonT(30) DEF Next

LEMMA LossInit == ASSUME Init PROVE LossInv
<1> SUFFICES ASSUME NEW c \in Calls PROVE Lossy(c)
  BY Zenon DEF LossInv
<1>1. outcome[c] = "none" /\ lost[c] = 0 /\ thr[c[1]].n = 1 /\ thr[c[1]].pc = "idle" /\ c[2] \in 1..NCalls
  BY CallParts DEF Init
<1>2. Attempts(c) = 0
  BY <1>1, HostLinkAssumption DEF Attempts
<1> QED
  BY <1>1, <1>2 DEF Lossy

\* When both ends answer in time, and each end has no more calling threads than
\* the link has slots, a call fails only if the line lost a frame of each of its
\* Retry attempts: no slot leaks, no slot is missing, no answer goes astray.
THEOREM LossOnly == Roomy => (Spec => []FailsOnlyByLoss)
<1> SUFFICES ASSUME Roomy PROVE Spec => []FailsOnlyByLoss
  OBVIOUS
<1>1. IInv /\ TimelyInv /\ LossInv /\ [Next]_vars => (IInv /\ TimelyInv /\ LossInv)'
  BY Inductive, TimelyStep, LossStep
<1>2. IInv /\ LossInv => FailsOnlyByLoss
  <2> SUFFICES ASSUME IInv, LossInv, timely, NEW c \in Calls, outcome[c] = "err"
               PROVE  lost[c] = Retry
    BY Zenon DEF FailsOnlyByLoss
  <2>1. Retry <= lost[c] /\ lost \in [Calls -> 0..Retry]
    BY InvGives, Zenon DEF LossInv, Lossy, Counters
  <2> QED
    BY <2>1, HostLinkAssumption
<1> QED
  BY <1>1, <1>2, InitKeeps, TimelyInit, LossInit, PTL DEF Spec
=============================================================================
