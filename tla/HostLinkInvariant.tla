-------------------------- MODULE HostLinkInvariant --------------------------
(***************************************************************************)
(* The inductive invariant of HostLink, for any threads, workloads,        *)
(* retries, slots and losses.                                              *)
(*                                                                         *)
(* What the line and the slots hold is first reduced to two sets for each  *)
(* end, Asking and Answering: no frame is in two places, so a step adds a  *)
(* frame to a set, takes one out, or turns a question into its answer.     *)
(* The rest of the invariant counts the frames of a call in these sets.    *)
(***************************************************************************)
EXTENDS HostLink, FiniteSetTheorems, TLAPS

Questions == {"REQUEST", "EVENT"}
Answers == {"RESPONSE", "EVENT_ACK"}
Frames == [type : Questions \cup Answers, id : 0..IdMod-1, call : Calls, run : 0..Retry]

\* The questions among the frames of an end: on the line W towards it, in its
\* notify slots N, in the callback F.  The answers: on the line, in its slots A.
Asked(W, N, F) == {f \in Range(W) \cup Range(N) \cup {F} : f.type \in Questions}
Answered(W, A) == {f \in Range(W) \cup Range(A) : f.type \in Answers}

\* No frame is in two places, and the slots hold frames of their kind.
Single(N) == \A i, j \in DOMAIN N : N[i] = N[j] /\ N[i] # NoFrame => i = j
Sorted(W, N, A, F) ==
    /\ W \in Seq(Frames)
    /\ N \in [1..NotifyDepth -> {NoFrame} \cup {f \in Frames : f.type \in Questions}]
    /\ A \in [1..AckSlots -> {NoFrame} \cup {f \in Frames : f.type \in Answers}]
    /\ F \in {NoFrame} \cup {f \in Frames : f.type \in Questions}
Alone(W, N, A, F) ==
    /\ Single(W) /\ Single(N) /\ Single(A)
    /\ \A i \in DOMAIN W : W[i] \notin Range(N) \cup Range(A) \cup {F}
    /\ F # NoFrame => F \notin Range(N)

Placed(e) == /\ Sorted(wire[e], notify[e], ack[e], poll[e].fr)
             /\ Alone(wire[e], notify[e], ack[e], poll[e].fr)
PlaceInv == \A e \in Ends : Placed(e)

\* A thread's locals; what it has returned; which attempts of a call it made.
ThreadInv == \A t \in Threads :
    /\ thr[t].pc = "idle" => thr[t].retry = 0
    /\ thr[t].pc # "idle" => thr[t].n <= NCalls /\ thr[t].retry < Retry
    /\ \A k \in 1..NCalls : outcome[<<t, k>>] = "none" <=> thr[t].n <= k
Attempts(c) == LET th == thr[c[1]] IN
    IF c[2] < th.n THEN Retry
    ELSE IF c[2] > th.n \/ th.pc = "idle" THEN 0
    ELSE IF th.pc = "wait" THEN th.retry + 1 ELSE th.retry

\* What the frames at large say: they go back to the end that drew their id,
\* no two of them have the same id, and an answer tells of a run that was made.
EndInv(e) ==
    /\ \A f \in Asking(e) : EndOf(f.call[1]) = e /\ f.type = CallType(f.call[1])
    /\ \A f \in Answering(e) : /\ EndOf(f.call[1]) = e /\ f.type = AckType(CallType(f.call[1]))
                               /\ f.run \in 1..runs[f.call]
    /\ \A f, g \in AtLarge(e) : f.id = g.id => f = g
    /\ IsFiniteSet(AtLarge(e))
SetInv == \A e \in Ends : EndInv(e)

\* A frame with the id a thread waits for is of its call.
WaitInv == \A t \in Threads : \A f \in AtLarge(EndOf(t)) :
    thr[t].pc = "wait" /\ f.id = thr[t].id => f.call = ThisCall(t)

\* Each attempt leaves one frame, which is run at most once and lost at most
\* once.
QuestionsOf(c) == {f \in Asking(EndOf(c[1])) : f.call = c}
FramesOf(c) == {f \in AtLarge(EndOf(c[1])) : f.call = c}
Counted(c) == /\ runs[c] + Cardinality(QuestionsOf(c)) <= Attempts(c)
              /\ lost[c] + Cardinality(FramesOf(c)) <= Attempts(c)
CountInv == \A c \in Calls : Counted(c)

IInv == TypeOK /\ PlaceInv /\ ThreadInv /\ SetInv /\ WaitInv /\ CountInv

-----------------------------------------------------------------------------
(* One end: the line towards it, its slots and its callback.               *)

\* An empty slot holds no frame.
LEMMA NoFrameApart == NoFrame \notin Frames /\ NoFrame.type \notin Questions \cup Answers
BY DEF NoFrame, Frames, Questions, Answers

\* A frame is sent to the end.
LEMMA Sent ==
  ASSUME NEW W, NEW N, NEW A, NEW F, Sorted(W, N, A, F), Alone(W, N, A, F),
         NEW x \in Frames, x \notin Range(W) \cup Range(N) \cup Range(A) \cup {F}
  PROVE  /\ Sorted(Append(W, x), N, A, F) /\ Alone(Append(W, x), N, A, F)
         /\ Range(Append(W, x)) = Range(W) \cup {x}
<1>1. W \in Seq(Frames)
  BY Zenon DEF Sorted
<1>2. /\ Append(W, x) \in Seq(Frames) /\ DOMAIN Append(W, x) = DOMAIN W \cup {Len(W) + 1}
      /\ Len(W) + 1 \notin DOMAIN W /\ Append(W, x)[Len(W) + 1] = x
      /\ \A i \in DOMAIN W : Append(W, x)[i] = W[i]
  BY <1>1
<1>3. Range(Append(W, x)) = Range(W) \cup {x}
  BY <1>2, ZenonT(30) DEF Range
<1>4. Single(Append(W, x))
  BY <1>2, ZenonT(30) DEF Alone, Single, Range
<1>5. \A i \in DOMAIN Append(W, x) : Append(W, x)[i] \notin Range(N) \cup Range(A) \cup {F}
  BY <1>2, Zenon DEF Alone
<1> QED
  BY <1>2, <1>3, <1>4, <1>5, Zenon DEF Sorted, Alone

\* The first frame of the line is taken from it.
LEMMA Received ==
  ASSUME NEW W, NEW N, NEW A, NEW F, Sorted(W, N, A, F), Alone(W, N, A, F), W # << >>
  PROVE  /\ Sorted(Tail(W), N, A, F) /\ Alone(Tail(W), N, A, F)
         /\ Head(W) \in Frames /\ Head(W) \in Range(W)
         /\ Head(W) \notin Range(N) \cup Range(A) \cup {F}
         /\ Range(Tail(W)) = Range(W) \ {Head(W)}
<1>1. W \in Seq(Frames)
  BY Zenon DEF Sorted
<1>2. /\ 1 \in DOMAIN W /\ Head(W) = W[1] /\ W[1] \in Frames
      /\ Tail(W) \in Seq(Frames)
      /\ \A i \in DOMAIN Tail(W) : i + 1 \in DOMAIN W /\ i + 1 # 1 /\ Tail(W)[i] = W[i + 1]
      /\ \A i \in DOMAIN W : i # 1 => i - 1 \in DOMAIN Tail(W) /\ Tail(W)[i - 1] = W[i]
      /\ \A i, j \in DOMAIN Tail(W) : i + 1 = j + 1 => i = j
  BY <1>1
<1>3. NoFrame \notin Range(W) /\ \A i \in DOMAIN W : W[i] # NoFrame
  <2>1. \A i \in DOMAIN W : W[i] \in Frames
    BY <1>1
  <2> QED
    BY <2>1, NoFrameApart, Zenon DEF Range
<1>4. Single(Tail(W))
  <2> SUFFICES ASSUME NEW i \in DOMAIN Tail(W), NEW j \in DOMAIN Tail(W), Tail(W)[i] = Tail(W)[j]
               PROVE  i = j
    BY Zenon DEF Single
  <2>1. W[i + 1] = W[j + 1] /\ W[i + 1] # NoFrame
    BY <1>2, <1>3, Zenon
  <2> QED
    BY <1>2, <2>1, Zenon DEF Alone, Single
<1>5. \A i \in DOMAIN Tail(W) : Tail(W)[i] \notin Range(N) \cup Range(A) \cup {F}
  BY <1>2, Zenon DEF Alone
<1>6. Range(Tail(W)) = Range(W) \ {Head(W)}
  <2>1. \A i \in DOMAIN W : W[i] = W[1] => i = 1
    BY <1>2, <1>3, Zenon DEF Alone, Single
  <2>2. ASSUME NEW y \in Range(Tail(W)) PROVE y \in Range(W) \ {W[1]}
    <3>1. PICK i \in DOMAIN Tail(W) : y = Tail(W)[i]
      BY Zenon DEF Range
    <3>2. i + 1 \in DOMAIN W /\ y = W[i + 1] /\ i + 1 # 1
      BY <1>2, <3>1, Zenon
    <3> QED
      BY <2>1, <3>2, Zenon DEF Range
  <2>3. ASSUME NEW y \in Range(W) \ {W[1]} PROVE y \in Range(Tail(W))
    <3>1. PICK i \in DOMAIN W : y = W[i] /\ i # 1
      BY Zenon DEF Range
    <3>2. i - 1 \in DOMAIN Tail(W) /\ y = Tail(W)[i - 1]
      BY <1>2, <3>1, Zenon
    <3> QED
      BY <3>2, Zenon DEF Range
  <2> QED
    BY <1>2, <2>2, <2>3, Zenon
<1>7. Head(W) \in Range(W) /\ Head(W) \notin Range(N) \cup Range(A) \cup {F}
  BY <1>2, Zenon DEF Alone, Range
<1> QED
  BY <1>2, <1>4, <1>5, <1>6, <1>7, Zenon DEF Sorted, Alone

\* A question is stored in an empty slot.
LEMMA Stored ==
  ASSUME NEW W, NEW N, NEW A, NEW F, Sorted(W, N, A, F), Alone(W, N, A, F),
         NEW x \in Frames, x.type \in Questions, x \notin Range(W) \cup Range(N) \cup {F},
         NEW i \in DOMAIN N, N[i] = NoFrame
  PROVE  /\ Sorted(W, [N EXCEPT ![i] = x], A, F) /\ Alone(W, [N EXCEPT ![i] = x], A, F)
         /\ Asked(W, [N EXCEPT ![i] = x], F) = Asked(W, N, F) \cup {x}
<1> DEFINE N2 == [N EXCEPT ![i] = x]
<1>1. /\ DOMAIN N2 = DOMAIN N /\ N2[i] = x
      /\ \A j \in DOMAIN N : j # i => N2[j] = N[j]
      /\ N2 \in [1..NotifyDepth -> {NoFrame} \cup {f \in Frames : f.type \in Questions}]
  BY DEF Sorted
<1> HIDE DEF N2
<1>2. Range(N2) \cup {NoFrame} = Range(N) \cup {NoFrame, x}
  BY <1>1, Zenon DEF Range
<1>3. Single(N2)
  BY <1>1, Zenon DEF Single, Alone, Range
<1>4. NoFrame \notin Range(W)
  <2>1. \A j \in DOMAIN W : W[j] \in Frames
    BY DEF Sorted
  <2> QED
    BY <2>1, NoFrameApart, Zenon DEF Range
<1>5. \A j \in DOMAIN W : W[j] \notin Range(N2) \cup Range(A) \cup {F}
  BY <1>2, <1>4, Zenon DEF Alone, Range
<1>6. F # NoFrame => F \notin Range(N2)
  BY <1>2, Zenon DEF Alone
<1>7. Asked(W, N2, F) = Asked(W, N, F) \cup {x}
  BY <1>2, NoFrameApart, Zenon DEF Asked
<1>8. Sorted(W, N2, A, F) /\ Alone(W, N2, A, F)
  BY <1>1, <1>3, <1>5, <1>6, Zenon DEF Sorted, Alone
<1> QED
  BY <1>7, <1>8, Zenon DEF N2

\* An answer is stored in an empty slot.
LEMMA StoredAnswer ==
  ASSUME NEW W, NEW N, NEW A, NEW F, Sorted(W, N, A, F), Alone(W, N, A, F),
         NEW x \in Frames, x.type \in Answers, x \notin Range(W) \cup Range(A),
         NEW i \in DOMAIN A, A[i] = NoFrame
  PROVE  /\ Sorted(W, N, [A EXCEPT ![i] = x], F) /\ Alone(W, N, [A EXCEPT ![i] = x], F)
         /\ Answered(W, [A EXCEPT ![i] = x]) = Answered(W, A) \cup {x}
<1> DEFINE A2 == [A EXCEPT ![i] = x]
<1>1. /\ DOMAIN A2 = DOMAIN A /\ A2[i] = x
      /\ \A j \in DOMAIN A : j # i => A2[j] = A[j]
      /\ A2 \in [1..AckSlots -> {NoFrame} \cup {f \in Frames : f.type \in Answers}]
  BY DEF Sorted
<1> HIDE DEF A2
<1>2. Range(A2) \cup {NoFrame} = Range(A) \cup {NoFrame, x}
  <2>1. Range(A2) \subseteq Range(A) \cup {x}
    BY <1>1, Zenon DEF Range
  <2>2. Range(A) \subseteq Range(A2) \cup {NoFrame} /\ x \in Range(A2)
    BY <1>1, Zenon DEF Range
  <2> QED
    BY <2>1, <2>2, Zenon
<1>3. Single(A2)
  BY <1>1, ZenonT(30) DEF Single, Alone, Range
<1>4. NoFrame \notin Range(W)
  <2>1. \A j \in DOMAIN W : W[j] \in Frames
    BY DEF Sorted
  <2> QED
    BY <2>1, NoFrameApart, Zenon DEF Range
<1>5. \A j \in DOMAIN W : W[j] \notin Range(N) \cup Range(A2) \cup {F}
  BY <1>2, <1>4, Zenon DEF Alone, Range
<1>6. Answered(W, A2) = Answered(W, A) \cup {x}
  BY <1>2, NoFrameApart, Zenon DEF Answered
<1>7. Sorted(W, N, A2, F) /\ Alone(W, N, A2, F)
  BY <1>1, <1>3, <1>5, Zenon DEF Sorted, Alone
<1> QED
  BY <1>6, <1>7, Zenon DEF A2

\* Slots S of answers are emptied.
Clears(S, A, A2) == /\ S \in SUBSET DOMAIN A /\ \A i \in S : A[i] # NoFrame
                    /\ A2 = [i \in DOMAIN A |-> IF i \in S THEN NoFrame ELSE A[i]]
Gone(S, A) == {A[i] : i \in S}
LEMMA Cleared ==
  ASSUME NEW W, NEW N, NEW A, NEW F, Sorted(W, N, A, F), Alone(W, N, A, F),
         NEW S, NEW A2, Clears(S, A, A2)
  PROVE  /\ Sorted(W, N, A2, F) /\ Alone(W, N, A2, F)
         /\ Answered(W, A2) = Answered(W, A) \ Gone(S, A)
<1>1. /\ DOMAIN A2 = DOMAIN A /\ S \in SUBSET DOMAIN A /\ \A i \in S : A[i] # NoFrame
      /\ \A i \in DOMAIN A : A2[i] = IF i \in S THEN NoFrame ELSE A[i]
      /\ A2 \in [1..AckSlots -> {NoFrame} \cup {f \in Frames : f.type \in Answers}]
  BY DEF Sorted, Clears
<1>2. Single(A2)
  BY <1>1, Zenon DEF Single, Alone
<1>3. Range(A2) \ {NoFrame} = (Range(A) \ {NoFrame}) \ {A[i] : i \in S}
  <2>1. \A i, j \in DOMAIN A : A[i] = A[j] /\ A[i] # NoFrame => i = j
    BY Zenon DEF Alone, Single
  <2>2. ASSUME NEW y \in Range(A2) \ {NoFrame}
        PROVE  y \in Range(A) /\ y \notin {A[i] : i \in S}
    <3>1. PICK i \in DOMAIN A : i \notin S /\ y = A[i]
      BY <1>1, Zenon DEF Range
    <3> QED
      BY <1>1, <2>1, <2>2, <3>1, Zenon DEF Range
  <2>3. ASSUME NEW y \in Range(A) \ {NoFrame}, y \notin {A[i] : i \in S} PROVE y \in Range(A2)
    <3>1. PICK i \in DOMAIN A : i \notin S /\ y = A[i]
      BY <2>3, Zenon DEF Range
    <3> QED
      BY <1>1, <3>1, Zenon DEF Range
  <2> QED
    BY <2>2, <2>3, Zenon
<1>4. Range(W) \subseteq Frames /\ \A j \in DOMAIN W : W[j] \in Frames
  <2>1. \A j \in DOMAIN W : W[j] \in Frames
    BY DEF Sorted
  <2> QED
    BY <2>1, Zenon DEF Range
<1>5. \A j \in DOMAIN W : W[j] \notin Range(N) \cup Range(A2) \cup {F}
  BY <1>3, <1>4, NoFrameApart, Zenon DEF Alone
<1>6. \A i \in S : A[i] \notin Range(W)
  BY <1>1, Zenon DEF Alone, Range
<1>7. Answered(W, A2) = Answered(W, A) \ {A[i] : i \in S}
  BY <1>3, <1>6, NoFrameApart, Zenon DEF Answered
<1> QED
  BY <1>1, <1>2, <1>5, <1>7, Zenon DEF Sorted, Alone, Gone

\* A notify slot is emptied into the callback.
LEMMA Fetched ==
  ASSUME NEW W, NEW N, NEW A, Sorted(W, N, A, NoFrame), Alone(W, N, A, NoFrame), NEW i \in DOMAIN N
  PROVE  /\ Sorted(W, [N EXCEPT ![i] = NoFrame], A, N[i])
         /\ Alone(W, [N EXCEPT ![i] = NoFrame], A, N[i])
         /\ Asked(W, [N EXCEPT ![i] = NoFrame], N[i]) = Asked(W, N, NoFrame)
<1> DEFINE N2 == [N EXCEPT ![i] = NoFrame]
<1>1. /\ DOMAIN N2 = DOMAIN N /\ N2[i] = NoFrame
      /\ \A j \in DOMAIN N : j # i => N2[j] = N[j]
      /\ N2 \in [1..NotifyDepth -> {NoFrame} \cup {f \in Frames : f.type \in Questions}]
      /\ N[i] \in {NoFrame} \cup {f \in Frames : f.type \in Questions}
  BY DEF Sorted
<1> HIDE DEF N2
<1>2. Range(N2) \cup {N[i], NoFrame} = Range(N) \cup {NoFrame}
  BY <1>1, Zenon DEF Range
<1>3. Single(N2)
  BY <1>1, Zenon DEF Single, Alone
<1>4. N[i] # NoFrame => N[i] \notin Range(N2)
  BY <1>1, Zenon DEF Range, Single, Alone
<1>5. \A j \in DOMAIN W : W[j] \notin Range(N2) \cup Range(A) \cup {N[i]}
  BY <1>2, Zenon DEF Alone
<1>6. Asked(W, N2, N[i]) = Asked(W, N, NoFrame)
  BY <1>2, NoFrameApart, Zenon DEF Asked
<1>7. Sorted(W, N2, A, N[i]) /\ Alone(W, N2, A, N[i])
  BY <1>1, <1>3, <1>4, <1>5, Zenon DEF Sorted, Alone
<1> QED
  BY <1>6, <1>7, Zenon DEF N2

\* The callback returns.
LEMMA CalledBack ==
  ASSUME NEW W, NEW N, NEW A, NEW F, Sorted(W, N, A, F), Alone(W, N, A, F), F # NoFrame
  PROVE  /\ Sorted(W, N, A, NoFrame) /\ Alone(W, N, A, NoFrame)
         /\ Asked(W, N, NoFrame) = Asked(W, N, F) \ {F}
         /\ F \in Asked(W, N, F)
<1>1. F \notin Range(W) \cup Range(N) /\ F.type \in Questions
  BY Zenon DEF Alone, Range, Sorted
<1>2. \A j \in DOMAIN W : W[j] # NoFrame
  <2>1. \A j \in DOMAIN W : W[j] \in Frames
    BY DEF Sorted
  <2> QED
    BY <2>1, NoFrameApart, Zenon
<1> QED
  BY <1>1, <1>2, NoFrameApart, Zenon DEF Sorted, Alone, Asked

\* Every set of numbers has a least one.
LEMMA LeastNat == ASSUME NEW T \in SUBSET Nat, T # {} PROVE \E i \in T : \A j \in T : i <= j
<1> DEFINE R == {ss \in Nat \X Nat : ss[1] < ss[2]}
<1>1. IsWellFoundedOn(R, Nat)
  BY NatLessThanWellFounded, Zenon DEF OpToRel
<1> HIDE DEF R
<1>2. PICK i \in T : \A j \in T : <<j, i>> \notin R
  BY <1>1, WFMin, Zenon
<1>3. ASSUME NEW j \in T PROVE i <= j
  <2>1. i \in Nat /\ j \in Nat /\ <<j, i>> \notin R
    BY <1>2, Zenon
  <2>2. ~(j < i)
    BY <2>1, Zenon DEF R
  <2> QED
    BY <2>1, <2>2
<1> QED
  BY <1>3, Zenon

\* A frame goes to the first empty slot; when there is none, nothing changes.
Store(N, x) == [i \in DOMAIN N |-> IF i \in FirstFree(N) THEN x ELSE N[i]]
Stores(N, x) ==
    \/ Store(N, x) = N /\ \A i \in DOMAIN N : N[i] # NoFrame
    \/ \E i \in DOMAIN N : N[i] = NoFrame /\ Store(N, x) = [N EXCEPT ![i] = x]
LEMMA StoreIs ==
  ASSUME NEW n \in Nat, NEW S, NEW N \in [1..n -> S], NEW x
  PROVE  Stores(N, x)
<1>1. CASE \A i \in DOMAIN N : N[i] # NoFrame
  BY <1>1 DEF Stores, Store, FirstFree
<1>2. CASE \E i \in DOMAIN N : N[i] = NoFrame
  <2>1. {i \in DOMAIN N : N[i] = NoFrame} \in SUBSET Nat
    OBVIOUS
  <2>2. PICK i \in DOMAIN N : N[i] = NoFrame /\ \A j \in DOMAIN N : N[j] = NoFrame => i <= j
    BY <1>2, <2>1, LeastNat, Zenon
  <2>3. \A k \in DOMAIN N : k \in FirstFree(N) <=> k = i
    BY <2>2 DEF FirstFree
  <2>4. Store(N, x) = [N EXCEPT ![i] = x]
    BY <2>2, <2>3, Zenon DEF Store
  <2> QED
    BY <2>2, <2>4, Zenon DEF Stores
<1> QED
  BY <1>1, <1>2, Zenon DEF Stores

-----------------------------------------------------------------------------
(* What a step does to one end, and to the frames at large.                *)

\* Each end has the other as its peer.
LEMMA TwoEnds ==
  /\ \A e \in Ends : Peer(e) \in Ends /\ Peer(e) # e /\ Peer(Peer(e)) = e
  /\ \A e, d \in Ends : d = e \/ d = Peer(e)
  /\ \A t \in Threads : EndOf(t) \in Ends
BY DEF Ends, Peer, EndOf

\* The questions that reached end e or are on the way to it.
Heard(e) == Asked(wire[e], notify[e], poll[e].fr)

\* The questions of an end are the ones its peer hears.
LEMMA HeardIs ==
  ASSUME NEW e \in Ends
  PROVE  /\ Asking(e) = Heard(Peer(e)) /\ Asking(e)' = Heard(Peer(e))'
         /\ Asking(Peer(e)) = Heard(e) /\ Asking(Peer(e))' = Heard(e)'
         /\ Answering(e) = Answered(wire[e], ack[e]) /\ Answering(e)' = Answered(wire'[e], ack'[e])
<1>1. Peer(Peer(e)) = e
  BY TwoEnds, Zenon
<1> QED
  BY <1>1, Zenon DEF Asking, Answering, Heard, Asked, Answered, Questions, Answers

\* Nothing happens at the end.
LEMMA EndSame ==
  ASSUME NEW e \in Ends, Placed(e), wire'[e] = wire[e], notify'[e] = notify[e], ack'[e] = ack[e],
         poll'[e].fr = poll[e].fr
  PROVE  Placed(e)' /\ Heard(e)' = Heard(e) /\ Answering(e)' = Answering(e)
BY HeardIs, Zenon DEF Placed, Heard

\* A new frame is put on the line towards the end.
LEMMA EndSent ==
  ASSUME NEW e \in Ends, Placed(e), NEW x \in Frames, x \notin Heard(e) \cup Answering(e),
         wire'[e] = Append(wire[e], x), notify'[e] = notify[e], ack'[e] = ack[e],
         poll'[e].fr = poll[e].fr
  PROVE  /\ Placed(e)'
         /\ Heard(e)' = IF x.type \in Questions THEN Heard(e) \cup {x} ELSE Heard(e)
         /\ Answering(e)' = IF x.type \in Answers THEN Answering(e) \cup {x} ELSE Answering(e)
<1> DEFINE W == wire[e] N == notify[e] A == ack[e] F == poll[e].fr
<1>1. Sorted(W, N, A, F) /\ Alone(W, N, A, F)
  BY Zenon DEF Placed
<1>2. x \notin Asked(W, N, F) \cup Answered(W, A)
  BY HeardIs, Zenon DEF Heard
<1> HIDE DEF W, N, A, F
<1>3. x.type \in Questions \cup Answers /\ Questions \cap Answers = {}
  BY DEF Frames, Questions, Answers
<1>4. x \notin Range(W) \cup Range(N) \cup Range(A) \cup {F}
  <2>1. CASE x.type \in Questions
    <3>1. \A i \in DOMAIN A : A[i] # x
      BY <1>1, <1>3, <2>1, NoFrameApart, Zenon DEF Sorted
    <3> QED
      BY <1>2, <2>1, <3>1, Zenon DEF Asked, Range
  <2>2. CASE x.type \in Answers
    <3>1. F # x /\ \A i \in DOMAIN N : N[i] # x
      BY <1>1, <1>3, <2>2, NoFrameApart, Zenon DEF Sorted
    <3> QED
      BY <1>2, <2>2, <3>1, Zenon DEF Answered, Range
  <2> QED
    BY <1>3, <2>1, <2>2, Zenon
<1>5. /\ Sorted(Append(W, x), N, A, F) /\ Alone(Append(W, x), N, A, F)
      /\ Range(Append(W, x)) = Range(W) \cup {x}
  BY <1>1, <1>4, Sent
<1>6. /\ Asked(Append(W, x), N, F) = IF x.type \in Questions THEN Asked(W, N, F) \cup {x}
                                                             ELSE Asked(W, N, F)
      /\ Answered(Append(W, x), A) = IF x.type \in Answers THEN Answered(W, A) \cup {x}
                                                           ELSE Answered(W, A)
  BY <1>5, Zenon DEF Asked, Answered
<1> QED
  BY <1>5, <1>6, HeardIs, Zenon DEF Placed, Heard, W, N, A, F

\* The callback of the end returns.
LEMMA EndCalled ==
  ASSUME NEW e \in Ends, Placed(e), poll[e].fr # NoFrame, wire'[e] = wire[e],
         notify'[e] = notify[e], ack'[e] = ack[e], poll'[e].fr = NoFrame
  PROVE  /\ Placed(e)' /\ Heard(e)' = Heard(e) \ {poll[e].fr} /\ Answering(e)' = Answering(e)
         /\ poll[e].fr \in Heard(e)
<1> DEFINE W == wire[e] N == notify[e] A == ack[e] F == poll[e].fr
<1>1. Sorted(W, N, A, F) /\ Alone(W, N, A, F) /\ F # NoFrame
  BY Zenon DEF Placed
<1> HIDE DEF W, N, A, F
<1>2. /\ Sorted(W, N, A, NoFrame) /\ Alone(W, N, A, NoFrame)
      /\ Asked(W, N, NoFrame) = Asked(W, N, F) \ {F} /\ F \in Asked(W, N, F)
  BY <1>1, CalledBack, Zenon
<1> QED
  BY <1>2, HeardIs, Zenon DEF Placed, Heard, W, N, A, F

\* The end takes the first frame from the line and drops it.
LEMMA EndLost ==
  ASSUME NEW e \in Ends, Placed(e), wire[e] # << >>, wire'[e] = Tail(wire[e]),
         notify'[e] = notify[e], ack'[e] = ack[e], poll'[e].fr = poll[e].fr,
         NEW x, x = Head(wire[e])
  PROVE  /\ Placed(e)' /\ x \in Frames /\ x \in Heard(e) \cup Answering(e)
         /\ Heard(e)' = Heard(e) \ {x} /\ Answering(e)' = Answering(e) \ {x}
<1> DEFINE W == wire[e] N == notify[e] A == ack[e] F == poll[e].fr
<1>1. Sorted(W, N, A, F) /\ Alone(W, N, A, F) /\ W # << >> /\ x = Head(W)
  BY Zenon DEF Placed
<1> HIDE DEF W, N, A, F
<1>2. /\ Sorted(Tail(W), N, A, F) /\ Alone(Tail(W), N, A, F)
      /\ x \in Frames /\ x \in Range(W) /\ x \notin Range(N) \cup Range(A) \cup {F}
      /\ Range(Tail(W)) = Range(W) \ {x}
  <2>1. /\ Sorted(Tail(W), N, A, F) /\ Alone(Tail(W), N, A, F)
        /\ Head(W) \in Frames /\ Head(W) \in Range(W)
        /\ Head(W) \notin Range(N) \cup Range(A) \cup {F}
        /\ Range(Tail(W)) = Range(W) \ {Head(W)}
    BY <1>1, Received, Zenon
  <2> QED
    BY <1>1, <2>1, Zenon
<1>3. x.type \in Questions \cup Answers
  BY <1>2 DEF Frames
<1>4. /\ Asked(Tail(W), N, F) = Asked(W, N, F) \ {x}
      /\ Answered(Tail(W), A) = Answered(W, A) \ {x}
      /\ x \in Asked(W, N, F) \cup Answered(W, A)
  BY <1>2, <1>3, Zenon DEF Asked, Answered
<1> QED
  BY <1>2, <1>4, HeardIs, Zenon DEF Placed, Heard, W, N, A, F

\* ... or puts it into a slot of its kind, unless all of them are taken.
LEMMA EndStored ==
  ASSUME NEW e \in Ends, Placed(e), wire[e] # << >>, wire'[e] = Tail(wire[e]),
         poll'[e].fr = poll[e].fr, NEW x, x = Head(wire[e]),
         \/ x.type \in Questions /\ notify'[e] = Store(notify[e], x) /\ ack'[e] = ack[e]
         \/ x.type \in Answers /\ ack'[e] = Store(ack[e], x) /\ notify'[e] = notify[e]
  PROVE  /\ Placed(e)' /\ x \in Frames /\ x \in Heard(e) \cup Answering(e)
         /\ \/ Heard(e)' = Heard(e) /\ Answering(e)' = Answering(e)
            \/ /\ Heard(e)' = Heard(e) \ {x} /\ Answering(e)' = Answering(e) \ {x}
               /\ \/ x.type \in Questions /\ \A i \in 1..NotifyDepth : notify[e][i] # NoFrame
                  \/ x.type \in Answers /\ \A i \in 1..AckSlots : ack[e][i] # NoFrame
<1> DEFINE W == wire[e] N == notify[e] A == ack[e] F == poll[e].fr
<1>1. Sorted(W, N, A, F) /\ Alone(W, N, A, F) /\ W # << >> /\ x = Head(W)
  BY Zenon DEF Placed
<1>2. /\ Heard(e) = Asked(W, N, F) /\ Heard(e)' = Asked(wire'[e], notify'[e], F)
      /\ Answering(e) = Answered(W, A) /\ Answering(e)' = Answered(wire'[e], ack'[e])
      /\ Placed(e)' <=> /\ Sorted(wire'[e], notify'[e], ack'[e], F)
                        /\ Alone(wire'[e], notify'[e], ack'[e], F)
      /\ wire'[e] = Tail(W)
  BY HeardIs, Zenon DEF Placed, Heard
<1>3. \/ x.type \in Questions /\ notify'[e] = Store(N, x) /\ ack'[e] = A
      \/ x.type \in Answers /\ ack'[e] = Store(A, x) /\ notify'[e] = N
  BY Zenon
<1> SUFFICES /\ Placed(e)' /\ x \in Frames /\ x \in Asked(W, N, F) \cup Answered(W, A)
             /\ \/ Heard(e)' = Asked(W, N, F) /\ Answering(e)' = Answered(W, A)
                \/ /\ Heard(e)' = Asked(W, N, F) \ {x} /\ Answering(e)' = Answered(W, A) \ {x}
                   /\ \/ x.type \in Questions /\ \A i \in 1..NotifyDepth : N[i] # NoFrame
                      \/ x.type \in Answers /\ \A i \in 1..AckSlots : A[i] # NoFrame
  BY <1>2, Zenon
<1> HIDE DEF W, N, A, F
<1>4. /\ Sorted(Tail(W), N, A, F) /\ Alone(Tail(W), N, A, F)
      /\ x \in Frames /\ x \in Range(W) /\ x \notin Range(N) \cup Range(A) \cup {F}
      /\ Range(Tail(W)) = Range(W) \ {x}
  <2>1. /\ Sorted(Tail(W), N, A, F) /\ Alone(Tail(W), N, A, F)
        /\ Head(W) \in Frames /\ Head(W) \in Range(W)
        /\ Head(W) \notin Range(N) \cup Range(A) \cup {F}
        /\ Range(Tail(W)) = Range(W) \ {Head(W)}
    BY <1>1, Received, Zenon
  <2> QED
    BY <1>1, <2>1, Zenon
<1>5. x.type \in Questions \cup Answers /\ Questions \cap Answers = {}
  BY <1>4 DEF Frames, Questions, Answers
<1>6. /\ Asked(Tail(W), N, F) = Asked(W, N, F) \ {x}
      /\ Answered(Tail(W), A) = Answered(W, A) \ {x}
      /\ x \in Asked(W, N, F) \cup Answered(W, A)
      /\ x.type \in Questions => x \in Asked(W, N, F) /\ x \notin Answered(W, A)
      /\ x.type \in Answers => x \in Answered(W, A) /\ x \notin Asked(W, N, F)
  BY <1>4, <1>5, Zenon DEF Asked, Answered
<1>7. /\ DOMAIN N = 1..NotifyDepth /\ DOMAIN A = 1..AckSlots
      /\ \/ Store(N, x) = N /\ \A i \in DOMAIN N : N[i] # NoFrame
         \/ \E i \in DOMAIN N : N[i] = NoFrame /\ Store(N, x) = [N EXCEPT ![i] = x]
      /\ \/ Store(A, x) = A /\ \A i \in DOMAIN A : A[i] # NoFrame
         \/ \E i \in DOMAIN A : A[i] = NoFrame /\ Store(A, x) = [A EXCEPT ![i] = x]
  <2>1. NotifyDepth \in Nat /\ AckSlots \in Nat
    BY HostLinkAssumption
  <2>2. PICK S, T : N \in [1..NotifyDepth -> S] /\ A \in [1..AckSlots -> T]
    BY <1>1, Zenon DEF Sorted
  <2>3. Stores(N, x)
    BY <2>1, <2>2, StoreIs, Zenon
  <2>4. Stores(A, x)
    BY <2>1, <2>2, StoreIs, Zenon
  <2> QED
    BY <2>2, <2>3, <2>4, Zenon DEF Stores
<1>8. CASE x.type \in Questions /\ notify'[e] = Store(N, x) /\ ack'[e] = A
  <2>1. CASE Store(N, x) = N /\ \A i \in DOMAIN N : N[i] # NoFrame
    BY <1>2, <1>4, <1>6, <1>7, <1>8, <2>1, ZenonT(30)
  <2>2. CASE \E i \in DOMAIN N : N[i] = NoFrame /\ Store(N, x) = [N EXCEPT ![i] = x]
    <3>1. PICK i \in DOMAIN N : N[i] = NoFrame /\ Store(N, x) = [N EXCEPT ![i] = x]
      BY <2>2, Zenon
    <3>2. x \notin Range(Tail(W)) \cup Range(N) \cup {F}
      BY <1>4, Zenon
    <3>3. /\ Sorted(Tail(W), Store(N, x), A, F) /\ Alone(Tail(W), Store(N, x), A, F)
          /\ Asked(Tail(W), Store(N, x), F) = Asked(Tail(W), N, F) \cup {x}
      BY <1>4, <1>8, <3>1, <3>2, Stored
    <3>4. Asked(Tail(W), Store(N, x), F) = Asked(W, N, F) /\ Answered(Tail(W), A) = Answered(W, A)
      BY <1>6, <1>8, <3>3, ZenonT(30)
    <3>5. Heard(e)' = Asked(W, N, F) /\ Answering(e)' = Answered(W, A) /\ Placed(e)'
      BY <1>2, <1>8, <3>3, <3>4, Zenon
    <3> QED
      BY <1>4, <1>6, <3>5, Zenon
  <2> QED
    BY <1>7, <2>1, <2>2, Zenon
<1>9. CASE x.type \in Answers /\ ack'[e] = Store(A, x) /\ notify'[e] = N
  <2>1. CASE Store(A, x) = A /\ \A i \in DOMAIN A : A[i] # NoFrame
    BY <1>2, <1>4, <1>6, <1>7, <1>9, <2>1, ZenonT(30)
  <2>2. CASE \E i \in DOMAIN A : A[i] = NoFrame /\ Store(A, x) = [A EXCEPT ![i] = x]
    <3>1. PICK i \in DOMAIN A : A[i] = NoFrame /\ Store(A, x) = [A EXCEPT ![i] = x]
      BY <2>2, Zenon
    <3>2. x \notin Range(Tail(W)) \cup Range(A)
      BY <1>4, Zenon
    <3>3. /\ Sorted(Tail(W), N, Store(A, x), F) /\ Alone(Tail(W), N, Store(A, x), F)
          /\ Answered(Tail(W), Store(A, x)) = Answered(Tail(W), A) \cup {x}
      BY <1>4, <1>9, <3>1, <3>2, StoredAnswer
    <3>4. Asked(Tail(W), N, F) = Asked(W, N, F) /\ Answered(Tail(W), Store(A, x)) = Answered(W, A)
      BY <1>6, <1>9, <3>3, ZenonT(30)
    <3>5. Heard(e)' = Asked(W, N, F) /\ Answering(e)' = Answered(W, A) /\ Placed(e)'
      BY <1>2, <1>9, <3>3, <3>4, Zenon
    <3> QED
      BY <1>4, <1>6, <3>5, Zenon
  <2> QED
    BY <1>7, <2>1, <2>2, Zenon
<1> QED
  BY <1>3, <1>8, <1>9, Zenon

\* The answers in the slots S are taken or thrown away.
LEMMA EndCleared ==
  ASSUME NEW e \in Ends, Placed(e), wire'[e] = wire[e], notify'[e] = notify[e],
         poll'[e].fr = poll[e].fr,
         NEW S, Clears(S, ack[e], ack'[e])
  PROVE  /\ Placed(e)' /\ Heard(e)' = Heard(e)
         /\ Answering(e)' = Answering(e) \ Gone(S, ack[e])
<1> DEFINE W == wire[e] N == notify[e] A == ack[e] F == poll[e].fr A2 == ack'[e]
<1>1. Sorted(W, N, A, F) /\ Alone(W, N, A, F)
  BY Zenon DEF Placed
<1>2. Clears(S, A, A2)
  BY Zenon
<1> HIDE DEF W, N, A, A2, F
<1>3. /\ Sorted(W, N, A2, F) /\ Alone(W, N, A2, F)
      /\ Answered(W, A2) = Answered(W, A) \ Gone(S, A)
  BY <1>1, <1>2, Cleared
<1> QED
  BY <1>3, HeardIs, Zenon DEF Placed, Heard, W, N, A, A2, F

\* The poll thread fetches a notify slot, and old answers are thrown away.
LEMMA EndFetched ==
  ASSUME NEW e \in Ends, Placed(e), wire'[e] = wire[e], poll[e].fr = NoFrame,
         NEW k \in DOMAIN notify[e], notify'[e] = [notify[e] EXCEPT ![k] = NoFrame],
         poll'[e].fr = notify[e][k],
         NEW S, Clears(S, ack[e], ack'[e])
  PROVE  /\ Placed(e)' /\ Heard(e)' = Heard(e)
         /\ Answering(e)' = Answering(e) \ Gone(S, ack[e])
<1> DEFINE W == wire[e] N == notify[e] A == ack[e] A2 == ack'[e]
           N2 == [N EXCEPT ![k] = NoFrame]
<1>1. /\ Sorted(W, N, A, NoFrame) /\ Alone(W, N, A, NoFrame)
      /\ k \in DOMAIN N
  BY Zenon DEF Placed
<1>2. Clears(S, A, A2)
  BY Zenon
<1> HIDE DEF W, N, A, A2
<1>3. /\ Sorted(W, N2, A, N[k]) /\ Alone(W, N2, A, N[k])
      /\ Asked(W, N2, N[k]) = Asked(W, N, NoFrame)
  BY <1>1, Fetched, Zenon
<1> HIDE DEF N2
<1>4. /\ Sorted(W, N2, A2, N[k]) /\ Alone(W, N2, A2, N[k])
      /\ Answered(W, A2) = Answered(W, A) \ Gone(S, A)
  BY <1>1, <1>2, <1>3, Cleared
<1> QED
  BY <1>3, <1>4, HeardIs, Zenon DEF Placed, Heard, W, N, A, A2, N2

-----------------------------------------------------------------------------
(* What each step does to the frames at large.                             *)

Same(d) == Asking(d)' = Asking(d) /\ Answering(d)' = Answering(d)
Drop(d, x) == /\ Asking(d)' = Asking(d) \ {x} /\ Answering(d)' = Answering(d) \ {x}
              /\ Same(Peer(d))

\* The state is a function of the end.
LEMMA OnEnds ==
  ASSUME TypeOK
  PROVE  /\ DOMAIN wire = Ends /\ DOMAIN notify = Ends /\ DOMAIN ack = Ends /\ DOMAIN poll = Ends
         /\ \A e \in Ends : /\ DOMAIN notify[e] = 1..NotifyDepth /\ DOMAIN ack[e] = 1..AckSlots
                            /\ poll[e].idx \in 1..NotifyDepth
                            /\ poll[e] = [idx |-> poll[e].idx, fr |-> poll[e].fr]
BY DEF TypeOK

\* A step that touches neither line nor slots moves no frame.
LEMMA QuietIs ==
  ASSUME PlaceInv, UNCHANGED <<wire, notify, ack, poll>>
  PROVE  PlaceInv' /\ \A d \in Ends : Same(d)
<1>1. \A d \in Ends : Placed(d)' /\ Heard(d)' = Heard(d) /\ Answering(d)' = Answering(d)
  BY EndSame, Zenon DEF PlaceInv
<1> QED
  BY <1>1, HeardIs, TwoEnds, Zenon DEF PlaceInv, Same

\* The frame host_link_send builds is a question.
LEMMA QuestionIs ==
  ASSUME TypeOK, ThreadInv, NEW t \in Threads, thr[t].pc = "send"
  PROVE  /\ Frame(CallType(t), nextId[EndOf(t)], ThisCall(t), 0) \in Frames
         /\ CallType(t) \in Questions /\ CallType(t) \notin Answers
<1>1. thr[t].n \in 1..NCalls /\ nextId[EndOf(t)] \in 0..IdMod-1 /\ 0 \in 0..Retry
  BY TwoEnds, HostLinkAssumption DEF TypeOK, ThreadInv
<1>2. ThisCall(t) \in Calls
  BY <1>1, Zenon DEF ThisCall, Calls
<1>3. CallType(t) \in Questions /\ CallType(t) \notin Answers
  BY DEF CallType, Questions, Answers
<1> QED
  BY <1>1, <1>2, <1>3 DEF Frame, Frames

\* A question with an id no frame at large has is put on the line.
LEMMA SendIs ==
  ASSUME TypeOK, PlaceInv, NEW e \in Ends, NEW x \in Frames, x.type \in Questions,
         \A f \in AtLarge(e) : f.id # x.id,
         wire' = [wire EXCEPT ![Peer(e)] = Append(@, x)], UNCHANGED <<notify, ack, poll>>
  PROVE  /\ PlaceInv' /\ Same(Peer(e))
         /\ Asking(e)' = Asking(e) \cup {x} /\ Answering(e)' = Answering(e)
         /\ x \notin AtLarge(e)
<1>1. /\ Peer(e) \in Ends /\ Peer(e) # e /\ Peer(Peer(e)) = e
      /\ \A d \in Ends : d = e \/ d = Peer(e)
  BY TwoEnds, Zenon
<1>2. x.type \notin Answers /\ x \notin AtLarge(e)
  BY DEF Questions, Answers
<1>3. x \notin Heard(Peer(e)) \cup Answering(Peer(e))
  BY <1>1, <1>2, HeardIs, Zenon DEF AtLarge, Answered
<1>4. wire'[e] = wire[e] /\ wire'[Peer(e)] = Append(wire[Peer(e)], x)
  BY <1>1, OnEnds, Zenon
<1>5. Placed(e)' /\ Heard(e)' = Heard(e) /\ Answering(e)' = Answering(e)
  BY <1>4, EndSame, Zenon DEF PlaceInv
<1>6. /\ Placed(Peer(e))' /\ Heard(Peer(e))' = Heard(Peer(e)) \cup {x}
      /\ Answering(Peer(e))' = Answering(Peer(e))
  BY <1>1, <1>2, <1>3, <1>4, EndSent, Zenon DEF PlaceInv
<1>7. PlaceInv'
  BY <1>1, <1>5, <1>6, Zenon DEF PlaceInv
<1> QED
  BY <1>1, <1>2, <1>5, <1>6, <1>7, HeardIs, Zenon DEF Same

\* The types of the frames at large.
LEMMA Kinds ==
  ASSUME NEW e \in Ends
  PROVE  /\ \A f \in Asking(e) : f.type \in Questions /\ f.type \notin Answers
         /\ \A f \in Answering(e) : f.type \in Answers /\ f.type \notin Questions
         /\ \A f \in Asking(e) : f \notin Answering(e) /\ f \notin Answering(Peer(e))
         /\ Asking(e) \subseteq AtLarge(e) /\ Answering(e) \subseteq AtLarge(e)
BY DEF Asking, Answering, AtLarge, Questions, Answers

\* A question disappears ...
LEMMA DropQuestion ==
  ASSUME NEW d \in Ends, NEW x, x \in Asking(d), Asking(d)' = Asking(d) \ {x},
         Answering(d)' = Answering(d), Same(Peer(d))
  PROVE  Drop(d, x)
BY Kinds, Zenon DEF Drop

\* ... or an answer does.
LEMMA DropAnswer ==
  ASSUME NEW d \in Ends, NEW x, x \in Answering(d), Answering(d)' = Answering(d) \ {x},
         Asking(d)' = Asking(d), Same(Peer(d))
  PROVE  Drop(d, x)
BY Kinds, Zenon DEF Drop

\* One slot is emptied.
LEMMA ClearOne ==
  ASSUME NEW A, NEW i \in DOMAIN A, A[i] # NoFrame
  PROVE  Clears({i}, A, [A EXCEPT ![i] = NoFrame]) /\ Gone({i}, A) = {A[i]}
<1>1. [A EXCEPT ![i] = NoFrame] = [j \in DOMAIN A |-> IF j \in {i} THEN NoFrame ELSE A[j]]
  OBVIOUS
<1>2. \A j \in {i} : A[j] # NoFrame
  OBVIOUS
<1>3. {i} \in SUBSET DOMAIN A
  OBVIOUS
<1>4. Gone({i}, A) = {A[i]}
  BY Zenon DEF Gone
<1> QED
  BY <1>1, <1>2, <1>3, <1>4 DEF Clears

\* A waiting thread takes the answer that has its id.
LEMMA TakeIs ==
  ASSUME TypeOK, PlaceInv, NEW t \in Threads, TakeAck(t)
  PROVE  /\ PlaceInv'
         /\ \E x \in Answering(EndOf(t)) :
               /\ Matches(t, x) /\ Drop(EndOf(t), x)
               /\ answer' = [answer EXCEPT ![ThisCall(t)] = x.run]
<1> DEFINE e == EndOf(t)
<1>1. PICK i \in 1..AckSlots : /\ Matches(t, ack[e][i])
                               /\ answer' = [answer EXCEPT ![ThisCall(t)] = ack[e][i].run]
                               /\ ack' = [ack EXCEPT ![e][i] = NoFrame]
  BY Zenon DEF TakeAck
<1>2. e \in Ends /\ UNCHANGED <<wire, notify, poll>>
  BY TwoEnds, Zenon DEF TakeAck
<1> HIDE DEF e
<1>3. /\ Peer(e) \in Ends /\ Peer(e) # e /\ Peer(Peer(e)) = e
      /\ \A d \in Ends : d = e \/ d = Peer(e)
  BY <1>2, TwoEnds, Zenon
<1> DEFINE x == ack[e][i]
<1>4. x.type \in Answers /\ x # NoFrame
  <2>1. x.type \in Answers
    BY <1>1 DEF Matches, AckType, Answers
  <2> QED
    BY <2>1, NoFrameApart, Zenon
<1>5. /\ ack'[Peer(e)] = ack[Peer(e)] /\ DOMAIN ack[e] = 1..AckSlots
      /\ ack'[e] = [ack[e] EXCEPT ![i] = NoFrame]
  BY <1>1, <1>2, <1>3, OnEnds, Zenon
<1>6. Clears({i}, ack[e], ack'[e]) /\ Gone({i}, ack[e]) = {x}
  <2> DEFINE A == ack[e]
  <2>1. i \in DOMAIN A /\ A[i] # NoFrame /\ x = A[i] /\ ack'[e] = [A EXCEPT ![i] = NoFrame]
    BY <1>4, <1>5, Zenon
  <2> HIDE DEF A, x
  <2>2. Clears({i}, A, [A EXCEPT ![i] = NoFrame]) /\ Gone({i}, A) = {A[i]}
    BY <2>1, ClearOne
  <2> QED
    BY <2>1, <2>2, Zenon DEF A
<1>7. Placed(Peer(e))' /\ Heard(Peer(e))' = Heard(Peer(e)) /\ Answering(Peer(e))' = Answering(Peer(e))
  BY <1>2, <1>3, <1>5, EndSame, Zenon DEF PlaceInv
<1>8. Placed(e)' /\ Heard(e)' = Heard(e) /\ Answering(e)' = Answering(e) \ Gone({i}, ack[e])
  <2>1. Placed(e) /\ wire'[e] = wire[e] /\ notify'[e] = notify[e] /\ poll'[e].fr = poll[e].fr
    BY <1>2, Zenon DEF PlaceInv
  <2> QED
    BY <1>2, <1>6, <2>1, EndCleared
<1>9. x \in Answering(e)
  BY <1>2, <1>4, <1>5, HeardIs, Zenon DEF Answered, Range
<1>10. PlaceInv'
  BY <1>3, <1>7, <1>8, Zenon DEF PlaceInv
<1>11. Drop(e, x)
  BY <1>2, <1>3, <1>6, <1>7, <1>8, <1>9, HeardIs, DropAnswer, Zenon DEF Same
<1> QED
  BY <1>1, <1>9, <1>10, <1>11, Zenon DEF e

\* A frame that disappears at end e was a question of its peer or an answer to e.
LEMMA DropAt ==
  ASSUME NEW e \in Ends, NEW x, Heard(e)' = Heard(e) \ {x}, Answering(e)' = Answering(e) \ {x},
         Heard(Peer(e))' = Heard(Peer(e)), Answering(Peer(e))' = Answering(Peer(e))
  PROVE  /\ x \in Heard(e) => x \in Asking(Peer(e)) /\ Drop(Peer(e), x)
         /\ x \in Answering(e) => Drop(e, x)
<1>1. Peer(e) \in Ends /\ Peer(Peer(e)) = e
  BY TwoEnds, Zenon
<1>2. /\ Asking(e) = Heard(Peer(e)) /\ Asking(e)' = Heard(Peer(e))'
      /\ Asking(Peer(e)) = Heard(e) /\ Asking(Peer(e))' = Heard(e)'
  BY HeardIs, Zenon
<1>3. CASE x \in Heard(e)
  <2>1. x \in Asking(Peer(e)) /\ x \notin Answering(e)
    BY <1>1, <1>2, <1>3, Kinds, Zenon
  <2>2. Same(e)
    BY <1>2, <2>1, Zenon DEF Same
  <2> QED
    BY <1>1, <1>2, <2>1, <2>2, DropQuestion, Zenon
<1>4. CASE x \in Answering(e)
  <2>1. x \notin Heard(e)
    BY <1>1, <1>2, <1>4, Kinds, Zenon
  <2>2. Same(Peer(e))
    BY <1>2, <2>1, Zenon DEF Same
  <2> QED
    BY <1>2, <1>4, <2>1, <2>2, DropAnswer, Zenon
<1> QED
  BY <1>3, <1>4, Zenon

\* The frame that end e receives, x, is lost or kept, or it finds all slots taken.
Full(e, d) == \/ d = Peer(e) /\ \A i \in 1..NotifyDepth : notify[e][i] # NoFrame
              \/ d = e /\ \A i \in 1..AckSlots : ack[e][i] # NoFrame
LEMMA ReceiveIs ==
  ASSUME TypeOK, PlaceInv, NEW e \in Ends, Receive(e), NEW x, x = Head(wire[e])
  PROVE  /\ PlaceInv' /\ x \in Frames
         /\ \E d \in Ends : /\ x \in AtLarge(d)
                            /\ \/ Drop(d, x) /\ lost' = [lost EXCEPT ![x.call] = @ + 1]
                               \/ lost' = lost /\ Same(d) /\ Same(Peer(d))
                               \/ lost' = lost /\ Drop(d, x) /\ Full(e, d)
<1>1. /\ Peer(e) \in Ends /\ Peer(e) # e /\ Peer(Peer(e)) = e
      /\ \A d \in Ends : d = e \/ d = Peer(e)
  BY TwoEnds, Zenon
<1>2. /\ wire[e] # << >> /\ wire'[e] = Tail(wire[e]) /\ wire'[Peer(e)] = wire[Peer(e)]
      /\ poll' = poll
      /\ \/ notify' = notify /\ ack' = ack /\ lost' = [lost EXCEPT ![x.call] = @ + 1]
         \/ /\ x.type \in Questions /\ notify' = [notify EXCEPT ![e] = Store(notify[e], x)]
            /\ ack' = ack /\ lost' = lost
         \/ /\ x.type \in Answers /\ ack' = [ack EXCEPT ![e] = Store(ack[e], x)]
            /\ notify' = notify /\ lost' = lost
  BY <1>1, OnEnds, Zenon DEF Receive, Questions, Answers, Store
<1>3. notify'[Peer(e)] = notify[Peer(e)] /\ ack'[Peer(e)] = ack[Peer(e)]
  BY <1>1, <1>2, OnEnds, Zenon
<1>4. /\ Placed(Peer(e))' /\ Heard(Peer(e))' = Heard(Peer(e))
      /\ Answering(Peer(e))' = Answering(Peer(e))
  BY <1>1, <1>2, <1>3, EndSame, Zenon DEF PlaceInv
<1>5. Placed(e) /\ poll'[e].fr = poll[e].fr
  BY <1>2, Zenon DEF PlaceInv
<1>6. \A d \in Ends : Asking(d) \subseteq AtLarge(d) /\ Answering(d) \subseteq AtLarge(d)
  BY Kinds, Zenon
<1>7. CASE notify' = notify /\ ack' = ack /\ lost' = [lost EXCEPT ![x.call] = @ + 1]
  <2>1. /\ Placed(e)' /\ x \in Frames /\ x \in Heard(e) \cup Answering(e)
        /\ Heard(e)' = Heard(e) \ {x} /\ Answering(e)' = Answering(e) \ {x}
    BY <1>2, <1>5, <1>7, EndLost, Zenon
  <2>2. /\ x \in Heard(e) => x \in Asking(Peer(e)) /\ Drop(Peer(e), x)
        /\ x \in Answering(e) => Drop(e, x)
    BY <1>4, <2>1, DropAt, Zenon
  <2>3. PlaceInv'
    BY <1>1, <1>4, <2>1, Zenon DEF PlaceInv
  <2> QED
    BY <1>1, <1>6, <1>7, <2>1, <2>2, <2>3, Zenon
<1>8. CASE /\ \/ /\ x.type \in Questions /\ notify' = [notify EXCEPT ![e] = Store(notify[e], x)]
                 /\ ack' = ack
              \/ /\ x.type \in Answers /\ ack' = [ack EXCEPT ![e] = Store(ack[e], x)]
                 /\ notify' = notify
           /\ lost' = lost
  <2>1. \/ x.type \in Questions /\ notify'[e] = Store(notify[e], x) /\ ack'[e] = ack[e]
        \/ x.type \in Answers /\ ack'[e] = Store(ack[e], x) /\ notify'[e] = notify[e]
    BY <1>8, OnEnds, Zenon
  <2>2. /\ Placed(e)' /\ x \in Frames /\ x \in Heard(e) \cup Answering(e)
        /\ \/ Heard(e)' = Heard(e) /\ Answering(e)' = Answering(e)
           \/ /\ Heard(e)' = Heard(e) \ {x} /\ Answering(e)' = Answering(e) \ {x}
              /\ \/ x.type \in Questions /\ \A i \in 1..NotifyDepth : notify[e][i] # NoFrame
                 \/ x.type \in Answers /\ \A i \in 1..AckSlots : ack[e][i] # NoFrame
    BY <1>2, <1>5, <2>1, EndStored, Zenon
  <2>3. PlaceInv'
    BY <1>1, <1>4, <2>2, Zenon DEF PlaceInv
  <2>4. x \in Asking(Peer(e)) \/ x \in Answering(e)
    BY <2>2, HeardIs, Zenon
  <2>5. CASE Heard(e)' = Heard(e) /\ Answering(e)' = Answering(e)
    <3>1. Same(e) /\ Same(Peer(e))
      BY <1>4, <2>5, HeardIs, Zenon DEF Same
    <3> QED
      BY <1>1, <1>6, <1>8, <2>2, <2>3, <2>4, <3>1, Zenon
  <2>6. CASE /\ Heard(e)' = Heard(e) \ {x} /\ Answering(e)' = Answering(e) \ {x}
             /\ \/ x.type \in Questions /\ \A i \in 1..NotifyDepth : notify[e][i] # NoFrame
                \/ x.type \in Answers /\ \A i \in 1..AckSlots : ack[e][i] # NoFrame
    <3>1. /\ x \in Heard(e) => x \in Asking(Peer(e)) /\ Drop(Peer(e), x)
          /\ x \in Answering(e) => Drop(e, x)
      BY <1>4, <2>6, DropAt, Zenon
    <3>2. /\ x.type \in Questions => x \notin Answering(e)
          /\ x.type \in Answers => x \notin Asking(Peer(e))
      BY <1>1, Kinds, Zenon
    <3>3. x \in Heard(e) <=> x \in Asking(Peer(e))
      BY HeardIs, Zenon
    <3> QED
      BY <1>1, <1>6, <1>8, <2>2, <2>3, <2>4, <2>6, <3>1, <3>2, <3>3, ZenonT(30) DEF Full
  <2> QED
    BY <2>2, <2>5, <2>6, Zenon
<1> QED
  BY <1>2, <1>7, <1>8, Zenon

\* A pass of host_link_poll moves a question on, and frees only answers that
\* have grown old.
LEMMA PollIs ==
  ASSUME TypeOK, PlaceInv, NEW e \in Ends, PollSlot(e)
  PROVE  /\ PlaceInv' /\ Same(Peer(e)) /\ Asking(e)' = Asking(e)
         /\ Answering(e)' \subseteq Answering(e)
         /\ timely => \A f \in Answering(e) \ Answering(e)' : ~Awaited(e, f)
<1>1. /\ Peer(e) \in Ends /\ Peer(e) # e /\ Peer(Peer(e)) = e
      /\ \A d \in Ends : d = e \/ d = Peer(e)
  BY TwoEnds, Zenon
<1> DEFINE k == poll[e].idx
<1>3. PICK S : /\ Clears(S, ack[e], ack'[e]) /\ ack'[Peer(e)] = ack[Peer(e)]
               /\ timely => \A i \in S : ~Awaited(e, ack[e][i])
  <2>1. CASE ack' = ack
    <3>1. ack[e] = [i \in DOMAIN ack[e] |-> ack[e][i]]
      BY DEF TypeOK
    <3>2. Clears({}, ack[e], ack'[e])
      BY <2>1, <3>1, Zenon DEF Clears
    <3>3. \A i \in {} : ~Awaited(e, ack[e][i])
      OBVIOUS
    <3>4. ack'[Peer(e)] = ack[Peer(e)]
      BY <2>1, Zenon
    <3> QED
      BY <3>2, <3>3, <3>4
  <2>2. CASE ExpireAcks(e)
    <3>1. PICK S \in SUBSET {i \in 1..AckSlots : ack[e][i] # NoFrame} :
             /\ timely => \A i \in S : ~Awaited(e, ack[e][i])
             /\ ack' = [ack EXCEPT ![e] =
                   [i \in DOMAIN ack[e] |-> IF i \in S THEN NoFrame ELSE ack[e][i]]]
      BY <2>2, Zenon DEF ExpireAcks
    <3>2. Clears(S, ack[e], ack'[e]) /\ ack'[Peer(e)] = ack[Peer(e)]
      BY <1>1, <3>1, OnEnds, Zenon DEF Clears
    <3> QED
      BY <3>1, <3>2, Zenon
  <2> QED
    BY <2>1, <2>2, Zenon DEF PollSlot
<1>4. /\ poll[e].fr = NoFrame /\ wire' = wire /\ k \in DOMAIN notify[e]
      /\ notify'[e] = [notify[e] EXCEPT ![k] = NoFrame] /\ notify'[Peer(e)] = notify[Peer(e)]
      /\ poll'[e] = [idx |-> (k % NotifyDepth) + 1, fr |-> notify[e][k]]
      /\ poll'[Peer(e)] = poll[Peer(e)]
  BY <1>1, OnEnds, Zenon DEF PollSlot
<1>5. poll'[e].fr = notify[e][k]
  BY <1>4
<1> HIDE DEF k
<1>6. /\ Placed(Peer(e))' /\ Heard(Peer(e))' = Heard(Peer(e))
      /\ Answering(Peer(e))' = Answering(Peer(e))
  BY <1>1, <1>3, <1>4, EndSame, Zenon DEF PlaceInv
<1>7. Placed(e) /\ wire'[e] = wire[e]
  BY <1>4, Zenon DEF PlaceInv
<1>8. Placed(e)' /\ Heard(e)' = Heard(e) /\ Answering(e)' = Answering(e) \ Gone(S, ack[e])
  BY <1>3, <1>4, <1>5, <1>7, EndFetched, Zenon
<1>9. PlaceInv'
  BY <1>1, <1>6, <1>8, Zenon DEF PlaceInv
<1>10. timely => \A f \in Gone(S, ack[e]) : ~Awaited(e, f)
  BY <1>3, Zenon DEF Gone
<1> QED
  BY <1>1, <1>6, <1>8, <1>9, <1>10, HeardIs, Zenon DEF Same

\* The answer to a question at large; no other frame with its id is at large.
LEMMA HandleIs ==
  ASSUME TypeOK, PlaceInv, NEW e \in Ends, poll[e].fr # NoFrame,
         poll' = [poll EXCEPT ![e].fr = NoFrame], UNCHANGED <<notify, ack>>,
         NEW x, x = poll[e].fr, NEW y,
         \/ wire' = wire
         \/ /\ wire' = [wire EXCEPT ![Peer(e)] = Append(@, y)]
            /\ y \in Frames /\ y.type \in Answers /\ y \notin Answering(Peer(e))
  PROVE  /\ PlaceInv' /\ x \in Asking(Peer(e)) /\ Same(e)
         /\ Asking(Peer(e))' = Asking(Peer(e)) \ {x}
         /\ wire' = wire => Drop(Peer(e), x)
         /\ wire' # wire => Answering(Peer(e))' = Answering(Peer(e)) \cup {y}
<1>1. /\ Peer(e) \in Ends /\ Peer(e) # e /\ Peer(Peer(e)) = e
      /\ \A d \in Ends : d = e \/ d = Peer(e)
  BY TwoEnds, Zenon
<1>2. /\ wire'[e] = wire[e] /\ poll'[e].fr = NoFrame /\ poll'[Peer(e)].fr = poll[Peer(e)].fr
      /\ Placed(e) /\ Placed(Peer(e))
  <2>1. wire'[e] = wire[e] /\ poll'[Peer(e)] = poll[Peer(e)] /\ Placed(e) /\ Placed(Peer(e))
    BY <1>1, OnEnds, Zenon DEF PlaceInv
  <2>2. poll'[e].fr = NoFrame
    BY DEF TypeOK
  <2> QED
    BY <2>1, <2>2, Zenon
<1>3. /\ Placed(e)' /\ Heard(e)' = Heard(e) \ {x} /\ Answering(e)' = Answering(e)
      /\ x \in Heard(e)
  BY <1>2, EndCalled, Zenon
<1>4. CASE wire' = wire
  <2>1. /\ Placed(Peer(e))' /\ Heard(Peer(e))' = Heard(Peer(e))
        /\ Answering(Peer(e))' = Answering(Peer(e))
    BY <1>1, <1>2, <1>4, EndSame, Zenon
  <2>2. PlaceInv' /\ Same(e)
    BY <1>1, <1>3, <2>1, HeardIs, Zenon DEF PlaceInv, Same
  <2>3. x \in Asking(Peer(e)) /\ Asking(Peer(e))' = Asking(Peer(e)) \ {x}
    BY <1>3, HeardIs, Zenon
  <2> QED
    BY <1>1, <1>4, <2>1, <2>2, <2>3, DropQuestion, Zenon
<1>5. CASE wire' # wire
  <2>1. /\ wire'[Peer(e)] = Append(wire[Peer(e)], y)
        /\ y \in Frames /\ y.type \in Answers /\ y \notin Answering(Peer(e))
    BY <1>1, <1>5, OnEnds, Zenon
  <2>2. y.type \notin Questions
    BY <2>1 DEF Answers, Questions
  <2>3. y \notin Heard(Peer(e)) \cup Answering(Peer(e))
    BY <2>1, <2>2, Zenon DEF Heard, Asked
  <2>4. /\ Placed(Peer(e))' /\ Heard(Peer(e))' = Heard(Peer(e))
        /\ Answering(Peer(e))' = Answering(Peer(e)) \cup {y}
    BY <1>1, <1>2, <2>1, <2>2, <2>3, EndSent, Zenon
  <2>5. PlaceInv' /\ Same(e)
    BY <1>1, <1>3, <2>4, HeardIs, Zenon DEF PlaceInv, Same
  <2> QED
    BY <1>3, <1>5, <2>4, <2>5, HeardIs, Zenon
<1> QED
  BY <1>4, <1>5, Zenon

-----------------------------------------------------------------------------
(* The invariant of the frames at large.                                   *)

\* The fields of a frame.
LEMMA FrameParts ==
  ASSUME NEW f \in Frames
  PROVE  /\ f.type \in Questions \cup Answers /\ f.id \in 0..IdMod-1 /\ f.call \in Calls
         /\ f.call[1] \in Threads /\ f.call[2] \in 1..NCalls /\ f.call = <<f.call[1], f.call[2]>>
         /\ f.run \in 0..Retry
<1>1. /\ f.type \in Questions \cup Answers /\ f.id \in 0..IdMod-1 /\ f.call \in Calls
      /\ f.run \in 0..Retry
  BY DEF Frames
<1>2. \A c \in Calls : c[1] \in Threads /\ c[2] \in 1..NCalls /\ c = <<c[1], c[2]>>
  BY DEF Calls
<1> QED
  BY <1>1, <1>2, Zenon

\* What is at large are frames.
LEMMA AtLargeIs == ASSUME PlaceInv, NEW e \in Ends PROVE AtLarge(e) \subseteq Frames
<1>1. \A d \in Ends : /\ \A f \in Range(wire[d]) : f \in Frames
                      /\ \A f \in Range(notify[d]) : f \in Frames \cup {NoFrame}
                      /\ \A f \in Range(ack[d]) : f \in Frames \cup {NoFrame}
                      /\ poll[d].fr \in Frames \cup {NoFrame}
  <2> SUFFICES ASSUME NEW d \in Ends
               PROVE  /\ \A f \in Range(wire[d]) : f \in Frames
                      /\ \A f \in Range(notify[d]) : f \in Frames \cup {NoFrame}
                      /\ \A f \in Range(ack[d]) : f \in Frames \cup {NoFrame}
                      /\ poll[d].fr \in Frames \cup {NoFrame}
    BY Zenon
  <2>1. Sorted(wire[d], notify[d], ack[d], poll[d].fr)
    BY Zenon DEF PlaceInv, Placed
  <2>2. \A i \in DOMAIN wire[d] : wire[d][i] \in Frames
    BY <2>1 DEF Sorted
  <2>3. \A i \in DOMAIN notify[d] : notify[d][i] \in Frames \cup {NoFrame}
    BY <2>1, Zenon DEF Sorted
  <2>4. \A i \in DOMAIN ack[d] : ack[d][i] \in Frames \cup {NoFrame}
    BY <2>1, Zenon DEF Sorted
  <2>5. poll[d].fr \in Frames \cup {NoFrame}
    BY <2>1, Zenon DEF Sorted
  <2> QED
    BY <2>2, <2>3, <2>4, <2>5, Zenon DEF Range
<1>2. Peer(e) \in Ends
  BY TwoEnds, Zenon
<1>3. NoFrame.type \notin Questions \cup Answers
  BY NoFrameApart, Zenon
<1> QED
  BY <1>1, <1>2, <1>3, Zenon DEF AtLarge, Asking, Answering, Questions, Answers

\* No run is undone.
RunsGrow == \A c \in Calls : 1..runs[c] \subseteq 1..runs'[c]

\* What the frames say stays true when some of them disappear ...
LEMMA EndShrinks ==
  ASSUME PlaceInv, NEW e \in Ends, EndInv(e), RunsGrow,
         Asking(e)' \subseteq Asking(e), Answering(e)' \subseteq Answering(e)
  PROVE  EndInv(e)'
<1>1. AtLarge(e)' \subseteq AtLarge(e)
  BY Zenon DEF AtLarge
<1>2. \A f \in Answering(e) : f.call \in Calls
  BY AtLargeIs, FrameParts, Kinds, Zenon
<1>3. IsFiniteSet(AtLarge(e)')
  BY <1>1, FS_Subset, Zenon DEF EndInv
<1>4. \A f \in Answering(e)' : /\ EndOf(f.call[1]) = e /\ f.type = AckType(CallType(f.call[1]))
                               /\ f.run \in 1..runs'[f.call]
  BY <1>2, Zenon DEF EndInv, RunsGrow
<1>5. \A f \in Asking(e)' : EndOf(f.call[1]) = e /\ f.type = CallType(f.call[1])
  BY Zenon DEF EndInv
<1>6. \A f, g \in AtLarge(e)' : f.id = g.id => f = g
  BY <1>1, Zenon DEF EndInv
<1> QED
  BY <1>3, <1>4, <1>5, <1>6, Zenon DEF EndInv

\* ... at both ends ...
LEMMA SetShrinks ==
  ASSUME PlaceInv, SetInv, RunsGrow,
         \A e \in Ends : Asking(e)' \subseteq Asking(e) /\ Answering(e)' \subseteq Answering(e)
  PROVE  SetInv'
BY EndShrinks, Zenon DEF SetInv

\* ... and when one is added whose id no other frame has.
LEMMA EndGrows ==
  ASSUME PlaceInv, NEW e \in Ends, EndInv(e), RunsGrow, NEW y,
         Asking(e)' \subseteq Asking(e) \cup {y}, Answering(e)' \subseteq Answering(e) \cup {y},
         \A f \in AtLarge(e)' : f = y \/ f.id # y.id,
         EndOf(y.call[1]) = e,
         y \in Asking(e)' => y.type = CallType(y.call[1]),
         y \in Answering(e)' => y.type = AckType(CallType(y.call[1])) /\ y.run \in 1..runs'[y.call]
  PROVE  EndInv(e)'
<1>1. AtLarge(e)' \subseteq AtLarge(e) \cup {y}
  BY Zenon DEF AtLarge
<1>2. \A f \in Answering(e) : f.call \in Calls
  BY AtLargeIs, FrameParts, Kinds, Zenon
<1>3. IsFiniteSet(AtLarge(e)')
  <2>1. IsFiniteSet(AtLarge(e) \cup {y})
    BY FS_AddElement, Zenon DEF EndInv
  <2> QED
    BY <1>1, <2>1, FS_Subset, Zenon
<1>4. \A f \in Answering(e)' : /\ EndOf(f.call[1]) = e /\ f.type = AckType(CallType(f.call[1]))
                               /\ f.run \in 1..runs'[f.call]
  <2> SUFFICES ASSUME NEW f \in Answering(e)'
               PROVE  /\ EndOf(f.call[1]) = e /\ f.type = AckType(CallType(f.call[1]))
                      /\ f.run \in 1..runs'[f.call]
    BY Zenon
  <2>1. CASE f = y
    BY <2>1, Zenon
  <2>2. CASE f \in Answering(e)
    BY <1>2, <2>2, Zenon DEF EndInv, RunsGrow
  <2> QED
    BY <2>1, <2>2, Zenon
<1>5. \A f \in Asking(e)' : EndOf(f.call[1]) = e /\ f.type = CallType(f.call[1])
  BY Zenon DEF EndInv
<1>6. \A f, g \in AtLarge(e)' : f.id = g.id => f = g
  <2> SUFFICES ASSUME NEW f \in AtLarge(e)', NEW g \in AtLarge(e)', f.id = g.id PROVE f = g
    BY Zenon
  <2>1. CASE f \in AtLarge(e) /\ g \in AtLarge(e)
    BY <2>1, Zenon DEF EndInv
  <2> QED
    BY <1>1, <2>1, Zenon
<1> QED
  BY <1>3, <1>4, <1>5, <1>6, Zenon DEF EndInv

\* The frames of a call, and their number.
LEMMA OfCall ==
  ASSUME PlaceInv, SetInv, NEW c \in Calls
  PROVE  /\ c[1] \in Threads /\ EndOf(c[1]) \in Ends
         /\ IsFiniteSet(QuestionsOf(c)) /\ IsFiniteSet(FramesOf(c))
         /\ Cardinality(QuestionsOf(c)) \in Nat /\ Cardinality(FramesOf(c)) \in Nat
         /\ QuestionsOf(c) \subseteq FramesOf(c)
<1>1. c[1] \in Threads
  BY DEF Calls
<1>2. EndOf(c[1]) \in Ends
  BY <1>1, TwoEnds, Zenon
<1>3. QuestionsOf(c) \subseteq FramesOf(c) /\ FramesOf(c) \subseteq AtLarge(EndOf(c[1]))
  BY <1>2, Kinds, Zenon DEF QuestionsOf, FramesOf
<1>4. IsFiniteSet(AtLarge(EndOf(c[1])))
  BY <1>2, Zenon DEF SetInv, EndInv
<1>5. IsFiniteSet(FramesOf(c))
  BY <1>3, <1>4, FS_Subset, Zenon
<1>6. IsFiniteSet(QuestionsOf(c))
  BY <1>3, <1>5, FS_Subset, Zenon
<1> QED
  BY <1>1, <1>2, <1>3, <1>5, <1>6, FS_CardinalityType, ZenonT(30)

-----------------------------------------------------------------------------
(* The calling threads.                                                    *)

Locals == /\ thr \in [Threads -> [pc : {"idle", "send", "wait"}, n : 1..NCalls+1,
                                  id : 0..IdMod-1, retry : 0..Retry]]
          /\ outcome \in [Calls -> {"none", "ok", "err"}]

\* A call is a thread and the number of the call.
LEMMA CallParts == \A c \in Calls : c[1] \in Threads /\ c[2] \in 1..NCalls /\ c = <<c[1], c[2]>>
BY DEF Calls

\* The attempts of a call in terms of the thread's position.
Made(pc, n, r, k) == IF k < n THEN Retry ELSE IF k > n \/ pc = "idle" THEN 0
                     ELSE IF pc = "wait" THEN r + 1 ELSE r
LEMMA AttemptsAre ==
  /\ \A c : Attempts(c) = Made(thr[c[1]].pc, thr[c[1]].n, thr[c[1]].retry, c[2])
  /\ \A c : Attempts(c)' = Made(thr'[c[1]].pc, thr'[c[1]].n, thr'[c[1]].retry, c[2])
BY Zenon DEF Attempts, Made

\* The locals of a thread.
LEMMA ThrParts ==
  ASSUME Locals, NEW t \in Threads
  PROVE  /\ thr[t].pc \in {"idle", "send", "wait"} /\ thr[t].n \in 1..NCalls+1
         /\ thr[t].id \in 0..IdMod-1 /\ thr[t].retry \in 0..Retry
BY DEF Locals

\* No call is tried more than Retry times.
LEMMA AttemptsBound ==
  ASSUME Locals, ThreadInv, NEW c \in Calls
  PROVE  Attempts(c) \in 0..Retry
<1> DEFINE t == c[1] pc == thr[t].pc n == thr[t].n r == thr[t].retry
<1>1. t \in Threads /\ c[2] \in Nat /\ Attempts(c) = Made(pc, n, r, c[2])
  BY CallParts, AttemptsAre
<1>2. pc \in {"idle", "send", "wait"} /\ n \in Nat /\ r \in 0..Retry /\ (pc # "idle" => r < Retry)
  <2>1. pc \in {"idle", "send", "wait"} /\ n \in 1..NCalls+1 /\ r \in 0..Retry
    BY <1>1, ThrParts, Zenon
  <2>2. pc # "idle" => r < Retry
    BY <1>1, Zenon DEF ThreadInv
  <2> QED
    BY <2>1, <2>2, HostLinkAssumption
<1> HIDE DEF t, pc, n, r
<1> QED
  BY <1>1, <1>2, HostLinkAssumption DEF Made

\* The thread t moves on; the others stay.
Moves(t) == /\ \A s \in Threads : s # t => thr'[s] = thr[s]
            /\ \A c \in Calls : c[1] # t => outcome'[c] = outcome[c]
At(t, pc, n, r) == thr'[t].pc = pc /\ thr'[t].n = n /\ thr'[t].retry = r

\* A call returns: what the thread and the outcomes are then ...
LEMMA ReturnIs ==
  ASSUME Locals, ThreadInv, NEW t \in Threads, thr[t].pc # "idle", NEW res \in {"ok", "err"},
         Return(t, res)
  PROVE  /\ Locals' /\ Moves(t) /\ At(t, "idle", thr[t].n + 1, 0)
         /\ ThisCall(t) \in Calls
         /\ \A c \in Calls : outcome'[c] = IF c = ThisCall(t) THEN res ELSE outcome[c]
<1> DEFINE c0 == ThisCall(t)
           v == [pc |-> "idle", n |-> thr[t].n + 1, id |-> thr[t].id, retry |-> 0]
<1>1. thr[t].n \in 1..NCalls
  BY HostLinkAssumption DEF Locals, ThreadInv
<1>2. c0 \in Calls /\ c0[1] = t
  BY <1>1 DEF ThisCall, Calls
<1>3. thr' = [thr EXCEPT ![t] = v] /\ outcome' = [outcome EXCEPT ![c0] = res]
  BY Zenon DEF Return
<1>4. v \in [pc : {"idle", "send", "wait"}, n : 1..NCalls+1, id : 0..IdMod-1, retry : 0..Retry]
  <2>1. thr[t].n + 1 \in 1..NCalls+1 /\ thr[t].id \in 0..IdMod-1 /\ 0 \in 0..Retry
    BY <1>1, HostLinkAssumption, ThrParts
  <2> QED
    BY <2>1
<1>5. v.pc = "idle" /\ v.n = thr[t].n + 1 /\ v.retry = 0
  OBVIOUS
<1> HIDE DEF v, c0
<1>6. Locals'
  BY <1>2, <1>3, <1>4 DEF Locals
<1>7. thr'[t] = v /\ \A s \in Threads : s # t => thr'[s] = thr[s]
  BY <1>3, Zenon DEF Locals
<1>8. \A c \in Calls : outcome'[c] = IF c = c0 THEN res ELSE outcome[c]
  BY <1>2, <1>3, Zenon DEF Locals
<1>9. Moves(t)
  BY <1>2, <1>7, <1>8, Zenon DEF Moves
<1> QED
  BY <1>2, <1>5, <1>6, <1>7, <1>8, <1>9, Zenon DEF At, c0

\* What is left to show when thread t moves: its own part of the invariant and
\* the attempts of its own calls.
LEMMA MoveIs ==
  ASSUME ThreadInv, NEW t \in Threads, Moves(t), NEW pc, NEW n, NEW r, At(t, pc, n, r),
         pc = "idle" => r = 0, pc # "idle" => n <= NCalls /\ r < Retry,
         \A k \in 1..NCalls : outcome'[<<t, k>>] = "none" <=> n <= k
  PROVE  /\ ThreadInv'
         /\ \A c \in Calls : Attempts(c)' = IF c[1] = t THEN Made(pc, n, r, c[2]) ELSE Attempts(c)
<1>1. \A s \in Threads : \A k \in 1..NCalls : <<s, k>> \in Calls /\ <<s, k>>[1] = s
  BY DEF Calls
<1>2. \A s \in Threads : s # t => thr'[s] = thr[s]
  BY Zenon DEF Moves
<1>3. \A s \in Threads : s # t => \A k \in 1..NCalls : outcome'[<<s, k>>] = outcome[<<s, k>>]
  BY <1>1, Zenon DEF Moves
<1>4. thr'[t].pc = pc /\ thr'[t].n = n /\ thr'[t].retry = r
  BY Zenon DEF At
<1>5. ThreadInv'
  <2> SUFFICES ASSUME NEW s \in Threads
               PROVE  /\ thr'[s].pc = "idle" => thr'[s].retry = 0
                      /\ thr'[s].pc # "idle" => thr'[s].n <= NCalls /\ thr'[s].retry < Retry
                      /\ \A k \in 1..NCalls : outcome'[<<s, k>>] = "none" <=> thr'[s].n <= k
    BY Zenon DEF ThreadInv
  <2>1. CASE s = t
    BY <1>4, <2>1, Zenon
  <2>2. CASE s # t
    BY <1>2, <1>3, <2>2, Zenon DEF ThreadInv
  <2> QED
    BY <2>1, <2>2, Zenon
<1>6. \A c \in Calls : Attempts(c)' = IF c[1] = t THEN Made(pc, n, r, c[2]) ELSE Attempts(c)
  BY <1>2, <1>4, AttemptsAre, CallParts, Zenon
<1> QED
  BY <1>5, <1>6, Zenon

\* The call a thread is in.
LEMMA IsThisCall ==
  ASSUME NEW t \in Threads, NEW c \in Calls
  PROVE  c = ThisCall(t) <=> c[1] = t /\ c[2] = thr[t].n
<1>1. ThisCall(t)[1] = t /\ ThisCall(t)[2] = thr[t].n
  BY DEF ThisCall
<1>2. c = <<c[1], c[2]>>
  BY CallParts, Zenon
<1> QED
  BY <1>1, <1>2, Zenon DEF ThisCall

\* ... and what that makes of the invariant of the threads.
LEMMA ReturnKeeps ==
  ASSUME Locals, ThreadInv, NEW t \in Threads, thr[t].pc # "idle", NEW res \in {"ok", "err"},
         Return(t, res)
  PROVE  /\ Locals' /\ ThreadInv' /\ Moves(t) /\ thr'[t].pc = "idle" /\ ThisCall(t) \in Calls
         /\ \A c \in Calls : outcome'[c] = IF c = ThisCall(t) THEN res ELSE outcome[c]
         /\ \A c \in Calls : Attempts(c)' = IF c = ThisCall(t) THEN Retry ELSE Attempts(c)
<1> DEFINE n == thr[t].n
<1>1. /\ Locals' /\ Moves(t) /\ At(t, "idle", n + 1, 0) /\ ThisCall(t) \in Calls
      /\ \A c \in Calls : outcome'[c] = IF c = ThisCall(t) THEN res ELSE outcome[c]
  BY ReturnIs, Zenon
<1>2. n \in Nat /\ thr[t].pc # "idle" /\ \A c \in Calls : c[2] \in Nat
  BY ThrParts, CallParts, HostLinkAssumption
<1>3. \A k \in 1..NCalls : <<t, k>> \in Calls /\ (<<t, k>> = ThisCall(t) <=> k = n)
  BY DEF Calls, ThisCall
<1>4. \A k \in 1..NCalls : outcome[<<t, k>>] = "none" <=> n <= k
  BY Zenon DEF ThreadInv
<1>5. \A k \in 1..NCalls : outcome'[<<t, k>>] = IF k = n THEN res ELSE outcome[<<t, k>>]
  BY <1>1, <1>3, Zenon
<1>6. \A c \in Calls : c[1] = t => Attempts(c) = Made(thr[t].pc, n, thr[t].retry, c[2])
  BY AttemptsAre, Zenon
<1> HIDE DEF n
<1>7. \A k \in 1..NCalls : outcome'[<<t, k>>] = "none" <=> n + 1 <= k
  BY <1>2, <1>4, <1>5, HostLinkAssumption
<1>8. /\ ThreadInv'
      /\ \A c \in Calls : Attempts(c)' = IF c[1] = t THEN Made("idle", n + 1, 0, c[2]) ELSE Attempts(c)
  BY <1>1, <1>7, MoveIs, Zenon
<1>9. \A c \in Calls : c = ThisCall(t) <=> c[1] = t /\ c[2] = n
  BY IsThisCall, Zenon DEF n
<1>10. ASSUME NEW c \in Calls PROVE Attempts(c)' = IF c = ThisCall(t) THEN Retry ELSE Attempts(c)
  <2>1. CASE c[1] # t
    BY <1>8, <1>9, <2>1, Zenon
  <2>2. CASE c[1] = t
    <3>1. c[2] \in Nat /\ n \in Nat /\ Attempts(c) = Made(thr[t].pc, n, thr[t].retry, c[2])
      BY <1>2, <1>6, <2>2, Zenon
    <3>2. c[2] < n + 1 <=> c[2] < n \/ c[2] = n
      BY <3>1
    <3>3. c[2] > n <=> ~(c[2] < n) /\ c[2] # n
      BY <3>1
    <3> QED
      BY <1>8, <1>9, <2>2, <3>1, <3>2, <3>3, Zenon DEF Made
  <2> QED
    BY <2>1, <2>2, Zenon
<1> QED
  BY <1>1, <1>8, <1>10, Zenon DEF At

\* A thread in the middle of a call goes on with it.
InCall == {"send", "wait"}
Tries(pc, r) == IF pc = "wait" THEN r + 1 ELSE r
Locates(t, pc, id, r) ==
    thr' = [thr EXCEPT ![t] = [pc |-> pc, n |-> thr[t].n, id |-> id, retry |-> r]]
Located(t, pc, id, r) ==
    /\ Locals' /\ ThreadInv' /\ Moves(t) /\ ThisCall(t) \in Calls
    /\ thr'[t].pc = pc /\ thr'[t].n = thr[t].n /\ thr'[t].id = id
    /\ \A c \in Calls : Attempts(c)' = IF c = ThisCall(t) THEN Tries(pc, r) ELSE Attempts(c)
LEMMA GoesOn ==
  ASSUME Locals, ThreadInv, NEW t \in Threads, NEW pc \in InCall, thr[t].n <= NCalls,
         NEW id \in 0..IdMod-1, NEW r \in 0..Retry, r < Retry, outcome' = outcome,
         Locates(t, pc, id, r)
  PROVE  Located(t, pc, id, r)
<1> DEFINE n == thr[t].n
           v == [pc |-> pc, n |-> n, id |-> id, retry |-> r]
<1>1. n \in 1..NCalls+1 /\ n \in 1..NCalls
  BY HostLinkAssumption, ThrParts
<1>2. v \in [pc : {"idle", "send", "wait"}, n : 1..NCalls+1, id : 0..IdMod-1, retry : 0..Retry]
  BY <1>1 DEF InCall
<1>3. v.pc = pc /\ v.n = n /\ v.retry = r /\ v.id = id
  OBVIOUS
<1>4. thr' = [thr EXCEPT ![t] = v]
  BY Zenon DEF Locates
<1> HIDE DEF v
<1>5. Locals'
  BY <1>2, <1>4 DEF Locals
<1>6. thr'[t] = v /\ \A s \in Threads : s # t => thr'[s] = thr[s]
  BY <1>4, Zenon DEF Locals
<1>7. Moves(t) /\ At(t, pc, n, r)
  BY <1>3, <1>6, Zenon DEF Moves, At
<1>8. \A k \in 1..NCalls : outcome'[<<t, k>>] = "none" <=> n <= k
  BY Zenon DEF ThreadInv
<1>9. /\ ThreadInv'
      /\ \A c \in Calls : Attempts(c)' = IF c[1] = t THEN Made(pc, n, r, c[2]) ELSE Attempts(c)
  <2>1. pc # "idle" /\ n <= NCalls /\ r < Retry
    BY DEF InCall
  <2> HIDE DEF n
  <2> QED
    BY <1>7, <1>8, <2>1, MoveIs, Zenon
<1>10. ThisCall(t) \in Calls /\ \A c \in Calls : c = ThisCall(t) <=> c[1] = t /\ c[2] = n
  <2>1. ThisCall(t) \in Calls
    BY <1>1 DEF ThisCall, Calls
  <2> QED
    BY <2>1, IsThisCall, Zenon
<1>11. ASSUME NEW c \in Calls
       PROVE  Attempts(c)' = IF c = ThisCall(t) THEN Tries(pc, r) ELSE Attempts(c)
  <2>1. CASE c[1] # t
    BY <1>9, <1>10, <2>1, Zenon
  <2>2. CASE c[1] = t
    <3>1. /\ Attempts(c) = Made(thr[t].pc, n, thr[t].retry, c[2])
          /\ Attempts(c)' = Made(pc, n, r, c[2])
      BY <1>9, <2>2, AttemptsAre, Zenon
    <3>2. c[2] \in Nat /\ n \in Nat
      BY <1>1, CallParts, HostLinkAssumption
    <3> HIDE DEF n
    <3>3. CASE c[2] = n
      <4>1. ~(c[2] < n) /\ ~(c[2] > n) /\ pc # "idle"
        BY <3>2, <3>3 DEF InCall
      <4> QED
        BY <1>10, <2>2, <3>1, <3>3, <4>1, Zenon DEF Made, Tries
    <3>4. CASE c[2] < n
      BY <1>10, <2>2, <3>1, <3>2, <3>4 DEF Made
    <3>5. CASE c[2] > n
      BY <1>10, <2>2, <3>1, <3>2, <3>5 DEF Made
    <3> QED
      BY <3>2, <3>3, <3>4, <3>5
  <2> QED
    BY <2>1, <2>2, Zenon
<1> QED
  BY <1>3, <1>5, <1>6, <1>7, <1>9, <1>10, <1>11, Zenon DEF Located

\* An attempt failed: the thread makes another one or gives the call up.
LEMMA AttemptIs ==
  ASSUME Locals, ThreadInv, NEW t \in Threads, thr[t].pc # "idle", NextAttempt(t)
  PROVE  /\ Locals' /\ ThreadInv' /\ Moves(t) /\ thr'[t].pc # "wait" /\ ThisCall(t) \in Calls
         /\ \A c \in Calls : Attempts(c)' = IF c = ThisCall(t) THEN thr[t].retry + 1 ELSE Attempts(c)
         /\ \A c \in Calls : \/ outcome'[c] = outcome[c]
                             \/ /\ c = ThisCall(t) /\ outcome'[c] = "err" /\ thr'[t].pc = "idle"
                                /\ thr[t].retry + 1 = Retry
<1> DEFINE r == thr[t].retry
<1>1. r \in 0..Retry /\ r < Retry /\ thr[t].id \in 0..IdMod-1 /\ thr[t].n <= NCalls
  BY ThrParts, Zenon DEF ThreadInv
<1>2. CASE r + 1 < Retry
  <2>1. /\ outcome' = outcome
        /\ Locates(t, "send", thr[t].id, r + 1)
    BY <1>2, Zenon DEF NextAttempt, Locates
  <2>2. r + 1 \in 0..Retry
    BY <1>1, <1>2, HostLinkAssumption
  <2> HIDE DEF r
  <2>3. "send" \in InCall
    BY DEF InCall
  <2>4. /\ Locals' /\ ThreadInv' /\ Moves(t) /\ ThisCall(t) \in Calls /\ thr'[t].pc = "send"
        /\ \A c \in Calls : Attempts(c)' = IF c = ThisCall(t) THEN r + 1 ELSE Attempts(c)
    <3>1. Located(t, "send", thr[t].id, r + 1)
      BY <1>1, <1>2, <2>1, <2>2, <2>3, GoesOn, Zenon
    <3>2. Tries("send", r + 1) = r + 1
      BY DEF Tries
    <3> QED
      BY <3>1, <3>2, Zenon DEF Located
  <2> QED
    BY <2>1, <2>4, Zenon DEF r
<1>3. CASE ~(r + 1 < Retry)
  <2>1. Return(t, "err")
    BY <1>3, Zenon DEF NextAttempt
  <2>2. /\ Locals' /\ ThreadInv' /\ Moves(t) /\ thr'[t].pc = "idle" /\ ThisCall(t) \in Calls
        /\ \A c \in Calls : outcome'[c] = IF c = ThisCall(t) THEN "err" ELSE outcome[c]
        /\ \A c \in Calls : Attempts(c)' = IF c = ThisCall(t) THEN Retry ELSE Attempts(c)
    BY <2>1, ReturnKeeps, Zenon
  <2>3. r + 1 = Retry
    BY <1>1, <1>3, HostLinkAssumption
  <2> QED
    BY <2>2, <2>3, Zenon
<1> QED
  BY <1>2, <1>3, Zenon

-----------------------------------------------------------------------------
(* Waits and counts.                                                       *)

Shrinks == \A e \in Ends : Asking(e)' \subseteq Asking(e) /\ Answering(e)' \subseteq Answering(e)

\* Steps that add no frame.
LEMMA DropShrinks == ASSUME NEW d \in Ends, NEW x, Drop(d, x) PROVE Shrinks
BY TwoEnds, Zenon DEF Drop, Same, Shrinks

LEMMA SameShrinks == ASSUME \A d \in Ends : Same(d) PROVE Shrinks
BY Zenon DEF Same, Shrinks

\* The waits stay right when frames disappear and no thread begins to wait.
LEMMA WaitShrinks ==
  ASSUME WaitInv, Shrinks, \A t \in Threads : thr'[t].pc = "wait" => thr'[t] = thr[t]
  PROVE  WaitInv'
<1>1. \A e \in Ends : AtLarge(e)' \subseteq AtLarge(e)
  BY Zenon DEF AtLarge, Shrinks
<1> SUFFICES ASSUME NEW t \in Threads, NEW f \in AtLarge(EndOf(t))', thr'[t].pc = "wait",
                    f.id = thr'[t].id
             PROVE  f.call = <<t, thr'[t].n>>
  BY Zenon DEF WaitInv, ThisCall
<1>2. f \in AtLarge(EndOf(t)) /\ thr'[t] = thr[t]
  BY <1>1, TwoEnds, Zenon
<1> QED
  BY <1>2, Zenon DEF WaitInv, ThisCall

\* Cardinalities of sets that lose a member, gain one, or shrink.
LEMMA CardDrop ==
  ASSUME NEW T, IsFiniteSet(T), NEW x \in T, NEW S, S \subseteq T \ {x}
  PROVE  Cardinality(S) \in Nat /\ Cardinality(T) \in Nat /\ Cardinality(S) + 1 <= Cardinality(T)
<1>1. IsFiniteSet(T \ {x}) /\ Cardinality(T \ {x}) = Cardinality(T) - 1
  BY FS_RemoveElement, Zenon
<1>2. IsFiniteSet(S) /\ Cardinality(S) <= Cardinality(T \ {x})
  BY <1>1, FS_Subset, Zenon
<1>3. Cardinality(S) \in Nat /\ Cardinality(T) \in Nat
  BY <1>2, FS_CardinalityType, Zenon
<1> QED
  BY <1>1, <1>2, <1>3

LEMMA CardAdd ==
  ASSUME NEW T, IsFiniteSet(T), NEW x, NEW S, S \subseteq T \cup {x}
  PROVE  Cardinality(S) \in Nat /\ Cardinality(T) \in Nat /\ Cardinality(S) <= Cardinality(T) + 1
<1>1. IsFiniteSet(T \cup {x}) /\ (\/ Cardinality(T \cup {x}) = Cardinality(T)
                                  \/ Cardinality(T \cup {x}) = Cardinality(T) + 1)
  BY FS_AddElement, Zenon
<1>2. IsFiniteSet(S) /\ Cardinality(S) <= Cardinality(T \cup {x})
  BY <1>1, FS_Subset, Zenon
<1>3. Cardinality(S) \in Nat /\ Cardinality(T) \in Nat
  BY <1>2, FS_CardinalityType, Zenon
<1> QED
  BY <1>1, <1>2, <1>3

LEMMA CardLess ==
  ASSUME NEW T, IsFiniteSet(T), NEW S, S \subseteq T
  PROVE  Cardinality(S) \in Nat /\ Cardinality(T) \in Nat /\ Cardinality(S) <= Cardinality(T)
BY FS_Subset, FS_CardinalityType, Zenon

\* The counters.
Counters == runs \in [Calls -> 0..Retry] /\ lost \in [Calls -> 0..Retry]
LEMMA CountersAre == ASSUME Counters, NEW c \in Calls PROVE runs[c] \in Nat /\ lost[c] \in Nat
BY HostLinkAssumption DEF Counters

\* The frames of one call.
LEMMA OfShrinks ==
  ASSUME Shrinks, NEW c \in Calls
  PROVE  QuestionsOf(c)' \subseteq QuestionsOf(c) /\ FramesOf(c)' \subseteq FramesOf(c)
<1>1. EndOf(c[1]) \in Ends
  BY CallParts, TwoEnds, Zenon
<1> QED
  BY <1>1, Zenon DEF Shrinks, QuestionsOf, FramesOf, AtLarge

\* The counts of a call stay right when its frames disappear uncounted.
LEMMA CountKeeps ==
  ASSUME PlaceInv, SetInv, Counters, Counters', NEW c \in Calls, Counted(c),
         runs'[c] = runs[c], lost'[c] = lost[c],
         QuestionsOf(c)' \subseteq QuestionsOf(c), FramesOf(c)' \subseteq FramesOf(c),
         Attempts(c) \in Nat, Attempts(c)' \in Nat, Attempts(c) <= Attempts(c)'
  PROVE  Counted(c)'
<1>1. IsFiniteSet(QuestionsOf(c)) /\ IsFiniteSet(FramesOf(c))
  BY OfCall, Zenon
<1> DEFINE q == Cardinality(QuestionsOf(c)) f == Cardinality(FramesOf(c))
           q2 == Cardinality(QuestionsOf(c)') f2 == Cardinality(FramesOf(c)')
<1>2. q \in Nat /\ q2 \in Nat /\ q2 <= q /\ f \in Nat /\ f2 \in Nat /\ f2 <= f
  BY <1>1, CardLess, Zenon
<1>3. runs[c] \in Nat /\ lost[c] \in Nat /\ runs[c] + q <= Attempts(c) /\ lost[c] + f <= Attempts(c)
  BY CountersAre, Zenon DEF Counted
<1> SUFFICES runs'[c] + q2 <= Attempts(c)' /\ lost'[c] + f2 <= Attempts(c)'
  BY Zenon DEF Counted
<1> HIDE DEF q, f, q2, f2
<1> QED
  BY <1>2, <1>3

\* One more attempt, one more question.
LEMMA CountAdds ==
  ASSUME PlaceInv, SetInv, Counters, NEW c \in Calls, Counted(c), NEW x,
         runs'[c] = runs[c], lost'[c] = lost[c],
         QuestionsOf(c)' \subseteq QuestionsOf(c) \cup {x}, FramesOf(c)' \subseteq FramesOf(c) \cup {x},
         Attempts(c) \in Nat, Attempts(c)' = Attempts(c) + 1
  PROVE  Counted(c)'
<1>1. IsFiniteSet(QuestionsOf(c)) /\ IsFiniteSet(FramesOf(c))
  BY OfCall, Zenon
<1> DEFINE q == Cardinality(QuestionsOf(c)) f == Cardinality(FramesOf(c))
           q2 == Cardinality(QuestionsOf(c)') f2 == Cardinality(FramesOf(c)')
<1>2. q \in Nat /\ q2 \in Nat /\ q2 <= q + 1 /\ f \in Nat /\ f2 \in Nat /\ f2 <= f + 1
  BY <1>1, CardAdd, Zenon
<1>3. runs[c] \in Nat /\ lost[c] \in Nat /\ runs[c] + q <= Attempts(c) /\ lost[c] + f <= Attempts(c)
  BY CountersAre, Zenon DEF Counted
<1> SUFFICES runs'[c] + q2 <= Attempts(c)' /\ lost'[c] + f2 <= Attempts(c)'
  BY Zenon DEF Counted
<1> HIDE DEF q, f, q2, f2
<1> QED
  BY <1>2, <1>3

-----------------------------------------------------------------------------
(* The types.                                                              *)

Shape == /\ wire = [e \in Ends |-> wire[e]] /\ notify = [e \in Ends |-> notify[e]]
         /\ ack = [e \in Ends |-> ack[e]] /\ poll = [e \in Ends |-> poll[e]]
         /\ \A e \in Ends : /\ poll[e] = [idx |-> poll[e].idx, fr |-> poll[e].fr]
                            /\ poll[e].idx \in 1..NotifyDepth
Fixed == /\ <<timely, quota>> \in Scenarios
         /\ nextId \in [Ends -> 0..IdMod-1] /\ answer \in [Calls -> 0..Retry]

\* TypeOK taken apart, and put together again.
LEMMA TypeGives == ASSUME TypeOK PROVE Locals /\ Counters /\ Shape /\ Fixed
<1>1. Shape
  <2>1. /\ wire = [e \in Ends |-> wire[e]] /\ notify = [e \in Ends |-> notify[e]]
        /\ ack = [e \in Ends |-> ack[e]] /\ poll = [e \in Ends |-> poll[e]]
    BY DEF TypeOK
  <2> QED
    BY <2>1, OnEnds, Zenon DEF Shape
<1> QED
  BY <1>1, Zenon DEF TypeOK, Locals, Counters, Fixed

LEMMA TypeFrom == ASSUME Locals, Counters, Shape, Fixed, PlaceInv PROVE TypeOK
<1>1. FrameSet = {NoFrame} \cup Frames
  <2>1. {"REQUEST", "EVENT", "RESPONSE", "EVENT_ACK"} = Questions \cup Answers
    BY DEF Questions, Answers
  <2> QED
    BY <2>1, Zenon DEF FrameSet, Frames
<1>2. \A e \in Ends : Sorted(wire[e], notify[e], ack[e], poll[e].fr)
  BY Zenon DEF PlaceInv, Placed
<1>3. \A e \in Ends : wire[e] \in Seq(FrameSet)
  <2>1. \A e \in Ends : wire[e] \in Seq(Frames)
    BY <1>2, Zenon DEF Sorted
  <2> QED
    BY <1>1, <2>1
<1>4. \A e \in Ends : notify[e] \in [1..NotifyDepth -> FrameSet] /\ ack[e] \in [1..AckSlots -> FrameSet]
  BY <1>1, <1>2, Zenon DEF Sorted
<1>5. \A e \in Ends : poll[e] \in [idx : 1..NotifyDepth, fr : FrameSet]
  <2> SUFFICES ASSUME NEW e \in Ends PROVE poll[e] \in [idx : 1..NotifyDepth, fr : FrameSet]
    BY Zenon
  <2>1. poll[e].fr \in FrameSet /\ poll[e].idx \in 1..NotifyDepth
    BY <1>1, <1>2, Zenon DEF Sorted, Shape
  <2>2. poll[e] = [idx |-> poll[e].idx, fr |-> poll[e].fr]
    BY Zenon DEF Shape
  <2> QED
    BY <2>1, <2>2
<1>6. wire \in [Ends -> Seq(FrameSet)]
  BY <1>3 DEF Shape
<1>7. notify \in [Ends -> [1..NotifyDepth -> FrameSet]]
  BY <1>4 DEF Shape
<1>8. ack \in [Ends -> [1..AckSlots -> FrameSet]]
  BY <1>4 DEF Shape
<1>9. poll \in [Ends -> [idx : 1..NotifyDepth, fr : FrameSet]]
  BY <1>5 DEF Shape
<1> QED
  BY <1>6, <1>7, <1>8, <1>9, Zenon DEF TypeOK, Locals, Counters, Fixed

-----------------------------------------------------------------------------
(* Each action keeps the invariant.                                        *)

\* The invariant put together, and taken apart.
LEMMA InvFrom ==
  ASSUME Locals, Counters, Shape, Fixed, PlaceInv, ThreadInv, SetInv, WaitInv, CountInv
  PROVE  IInv
BY TypeFrom, Zenon DEF IInv

LEMMA InvGives ==
  ASSUME IInv
  PROVE  /\ TypeOK /\ Locals /\ Counters /\ Shape /\ Fixed
         /\ PlaceInv /\ ThreadInv /\ SetInv /\ WaitInv /\ CountInv
         /\ \A c \in Calls : Counted(c) /\ Attempts(c) \in 0..Retry
BY TypeGives, AttemptsBound, Zenon DEF IInv, CountInv

AttemptsIn == \A c \in Calls : Attempts(c) \in 0..Retry
LEMMA AttemptsAll == Locals /\ ThreadInv => AttemptsIn
BY AttemptsBound, Zenon DEF AttemptsIn
LEMMA AttemptsNext == ASSUME Locals', ThreadInv', NEW c \in Calls PROVE Attempts(c)' \in 0..Retry
<1>1. AttemptsIn'
  BY AttemptsAll, PTL
<1> QED
  BY <1>1, Zenon DEF AttemptsIn

\* A step that removes frames at large, and lets no counter grow.
LEMMA ShrinkKeeps ==
  ASSUME IInv, Locals', Shape', Fixed', PlaceInv', ThreadInv', Shrinks, UNCHANGED <<runs, lost>>,
         \A t \in Threads : thr'[t].pc = "wait" => thr'[t] = thr[t],
         \A c \in Calls : Attempts(c) <= Attempts(c)'
  PROVE  IInv'
<1>1. RunsGrow /\ Counters'
  BY InvGives, Zenon DEF RunsGrow, Counters
<1>2. SetInv'
  BY <1>1, InvGives, SetShrinks, Zenon DEF Shrinks
<1>3. WaitInv'
  BY InvGives, WaitShrinks, Zenon
<1>4. \A c \in Calls : Attempts(c) \in 0..Retry /\ Attempts(c)' \in 0..Retry
  BY InvGives, AttemptsNext, Zenon
<1>5. 0..Retry \subseteq Nat
  BY HostLinkAssumption
<1>6. \A c \in Calls : Counted(c)'
  <2> SUFFICES ASSUME NEW c \in Calls PROVE Counted(c)'
    BY Zenon
  <2>1. QuestionsOf(c)' \subseteq QuestionsOf(c) /\ FramesOf(c)' \subseteq FramesOf(c)
    BY OfShrinks, Zenon
  <2> QED
    BY <1>1, <1>4, <1>5, <2>1, InvGives, CountKeeps, Zenon
<1>7. CountInv'
  BY <1>6, Zenon DEF CountInv
<1> QED
  BY <1>1, <1>2, <1>3, <1>7, InvFrom, PTL

LEMMA ShapeSame == ASSUME Shape, UNCHANGED <<wire, notify, ack, poll>> PROVE Shape'
BY Zenon DEF Shape

\* A thread enters host_link_send.
LEMMA CallKeeps ==
  ASSUME IInv, NEW t \in Threads, Call(t)
  PROVE  IInv' /\ \A c \in Calls : Attempts(c)' = Attempts(c)
<1>1. /\ thr[t].pc = "idle" /\ thr[t].n <= quota[t] /\ thr' = [thr EXCEPT ![t].pc = "send"]
      /\ UNCHANGED <<timely, quota, nextId, wire, notify, ack, poll, outcome, runs, answer, lost>>
  BY Zenon DEF Call
<1>2. /\ thr[t].n \in 1..NCalls+1 /\ thr[t].id \in 0..IdMod-1 /\ thr[t].retry = 0
  BY <1>1, InvGives, ThrParts, Zenon DEF ThreadInv
<1>3. thr[t].n <= NCalls
  <2>1. quota \in [Threads -> 0..NCalls]
    BY InvGives, HostLinkAssumption, Zenon DEF Fixed, Threads
  <2> QED
    BY <1>1, <1>2, <2>1, HostLinkAssumption
<1> DEFINE r == thr[t].retry
<1>4. Locates(t, "send", thr[t].id, r)
  <2>1. [thr[t] EXCEPT !.pc = "send"] = [pc |-> "send", n |-> thr[t].n, id |-> thr[t].id, retry |-> r]
    BY InvGives DEF Locals
  <2> QED
    BY <1>1, <2>1, Zenon DEF Locates
<1>5. r = 0
  BY <1>2
<1>6. /\ Locals' /\ ThreadInv' /\ Moves(t) /\ thr'[t].pc = "send" /\ ThisCall(t) \in Calls
      /\ \A c \in Calls : Attempts(c)' = IF c = ThisCall(t) THEN r ELSE Attempts(c)
  <2>1. r \in 0..Retry /\ r < Retry /\ "send" \in InCall
    BY <1>5, HostLinkAssumption DEF InCall
  <2>2. Locals /\ ThreadInv /\ outcome' = outcome /\ thr[t].n <= NCalls /\ thr[t].id \in 0..IdMod-1
    BY <1>1, <1>2, <1>3, InvGives, Zenon
  <2> HIDE DEF r
  <2>3. Located(t, "send", thr[t].id, r)
    BY <1>4, <2>1, <2>2, GoesOn, Zenon
  <2>4. Tries("send", r) = r
    BY DEF Tries
  <2> QED
    BY <2>3, <2>4, Zenon DEF Located
<1> HIDE DEF r
<1>7. \A c \in Calls : Attempts(c)' \in 0..Retry /\ Attempts(c) \in 0..Retry
  BY <1>6, AttemptsNext, InvGives, Zenon
<1>8. Attempts(ThisCall(t)) = 0
  <2>1. ThisCall(t)[1] = t /\ ThisCall(t)[2] = thr[t].n
    BY DEF ThisCall
  <2>2. ~(thr[t].n < thr[t].n)
    BY <1>2, HostLinkAssumption
  <2> QED
    BY <1>1, <2>1, <2>2, AttemptsAre, ZenonT(30) DEF Made
<1>9. \A c \in Calls : Attempts(c) <= Attempts(c)'
  BY <1>5, <1>6, <1>7, <1>8, HostLinkAssumption, SMTT(30)
<1>10. \A s \in Threads : thr'[s].pc = "wait" => thr'[s] = thr[s]
  BY <1>6 DEF Moves
<1>11. PlaceInv' /\ Shrinks
  BY <1>1, InvGives, QuietIs, SameShrinks, Zenon
<1>12. Shape' /\ Fixed'
  BY <1>1, InvGives, ShapeSame, Zenon DEF Fixed
<1>13. IInv'
  BY <1>1, <1>6, <1>9, <1>10, <1>11, <1>12, ShrinkKeeps, ZenonT(30)
<1> QED
  BY <1>5, <1>6, <1>8, <1>13, Zenon

\* A thread stops waiting.
LEMMA TimeoutKeeps == ASSUME IInv, NEW t \in Threads, Timeout(t) PROVE IInv'
<1>1. /\ thr[t].pc = "wait" /\ NextAttempt(t)
      /\ UNCHANGED <<timely, quota, nextId, wire, notify, ack, poll, runs, answer, lost>>
  BY Zenon DEF Timeout
<1>2. thr[t].pc # "idle"
  BY <1>1
<1>3. /\ Locals' /\ ThreadInv' /\ Moves(t) /\ thr'[t].pc # "wait"
      /\ \A c \in Calls : Attempts(c)' = IF c = ThisCall(t) THEN thr[t].retry + 1 ELSE Attempts(c)
  BY <1>1, <1>2, InvGives, AttemptIs, Zenon
<1>4. Attempts(ThisCall(t)) = thr[t].retry + 1
  <2>1. ThisCall(t)[1] = t /\ ThisCall(t)[2] = thr[t].n
    BY DEF ThisCall
  <2>2. ~(thr[t].n < thr[t].n) /\ ~(thr[t].n > thr[t].n)
    BY InvGives, ThrParts, HostLinkAssumption
  <2> QED
    BY <1>1, <1>2, <2>1, <2>2, AttemptsAre, ZenonT(30) DEF Made
<1>5. \A c \in Calls : Attempts(c) <= Attempts(c)'
  <2>1. \A c \in Calls : Attempts(c)' = Attempts(c) /\ Attempts(c) \in 0..Retry
    BY <1>3, <1>4, InvGives, Zenon
  <2> QED
    BY <2>1, HostLinkAssumption
<1>6. \A s \in Threads : thr'[s].pc = "wait" => thr'[s] = thr[s]
  BY <1>3, Zenon DEF Moves
<1>7. PlaceInv' /\ Shrinks
  BY <1>1, InvGives, QuietIs, SameShrinks, ZenonT(30)
<1>8. Shape' /\ Fixed'
  BY <1>1, InvGives, ShapeSame, Zenon DEF Fixed
<1> QED
  BY <1>1, <1>3, <1>5, <1>6, <1>7, <1>8, ShrinkKeeps, ZenonT(30)

\* host_link_poll looks at the next notify slot.
LEMMA PollKeeps == ASSUME IInv, NEW e \in Ends, PollSlot(e) PROVE IInv'
<1>1. UNCHANGED <<timely, quota, nextId, wire, thr, outcome, runs, answer, lost>>
  BY Zenon DEF PollSlot
<1>2. PlaceInv' /\ Shrinks
  BY InvGives, PollIs, TwoEnds, ZenonT(30) DEF Shrinks, Same
<1>3. Shape'
  <2> DEFINE k == (poll[e].idx % NotifyDepth) + 1
  <2>1. poll' = [poll EXCEPT ![e] = [idx |-> k, fr |-> notify[e][poll[e].idx]]]
    BY Zenon DEF PollSlot
  <2>2. k \in 1..NotifyDepth
    BY InvGives, HostLinkAssumption DEF Shape
  <2>3. \A d \in Ends : /\ poll'[d] = [idx |-> poll'[d].idx, fr |-> poll'[d].fr]
                        /\ poll'[d].idx \in 1..NotifyDepth
    <3> HIDE DEF k
    <3> QED
      BY <2>1, <2>2, InvGives DEF Shape
  <2>4. poll' = [d \in Ends |-> poll'[d]] /\ notify' = [d \in Ends |-> notify'[d]]
    BY InvGives, ZenonT(30) DEF PollSlot, Shape
  <2>5. ack' = [d \in Ends |-> ack'[d]]
    BY InvGives DEF PollSlot, Shape, ExpireAcks
  <2> QED
    BY <1>1, <2>3, <2>4, <2>5, InvGives, Zenon DEF Shape
<1>4. Locals' /\ Fixed' /\ ThreadInv' /\ \A c \in Calls : Attempts(c)' = Attempts(c)
  BY <1>1, InvGives, ZenonT(30) DEF Locals, Fixed, ThreadInv, Attempts
<1>5. \A c \in Calls : Attempts(c) <= Attempts(c)'
  BY <1>4, InvGives, HostLinkAssumption, SMTT(30)
<1> QED
  BY <1>1, <1>2, <1>3, <1>4, <1>5, ShrinkKeeps, ZenonT(30)

\* The frame x of end d disappears.
LEMMA OfDropped ==
  ASSUME PlaceInv, SetInv, NEW d \in Ends, NEW x \in AtLarge(d), Drop(d, x)
  PROVE  /\ x.call \in Calls /\ x \in FramesOf(x.call) /\ FramesOf(x.call)' \subseteq FramesOf(x.call) \ {x}
         /\ QuestionsOf(x.call)' \subseteq QuestionsOf(x.call) \ {x}
         /\ x \in Asking(d) => x \in QuestionsOf(x.call)
<1>1. x.call \in Calls
  BY AtLargeIs, FrameParts, Zenon
<1>2. EndOf(x.call[1]) = d
  BY Zenon DEF SetInv, EndInv, AtLarge
<1> QED
  BY <1>1, <1>2, ZenonT(30) DEF Drop, FramesOf, QuestionsOf, AtLarge

\* The threads do not move.
LEMMA ThreadSame ==
  ASSUME IInv, UNCHANGED <<thr, outcome>>
  PROVE  /\ Locals' /\ ThreadInv' /\ \A c \in Calls : Attempts(c)' = Attempts(c)
         /\ \A t \in Threads : thr'[t].pc = "wait" => thr'[t] = thr[t]
BY InvGives, Zenon DEF Locals, ThreadInv, Attempts

\* ... and is counted as lost, before or after the call was run.
Loses(d, x) == /\ Drop(d, x) /\ lost' = [lost EXCEPT ![x.call] = @ + 1]
               /\ (runs' = runs \/ (x \in Asking(d) /\ runs' = [runs EXCEPT ![x.call] = @ + 1]))
LEMMA LossKeeps ==
  ASSUME IInv, NEW d \in Ends, NEW x \in AtLarge(d), Loses(d, x), UNCHANGED <<thr, outcome>>,
         Shape', Fixed', PlaceInv'
  PROVE  IInv'
<1> DEFINE c == x.call
           q == Cardinality(QuestionsOf(c)) f == Cardinality(FramesOf(c)) a == Attempts(c)
           q2 == Cardinality(QuestionsOf(c)') f2 == Cardinality(FramesOf(c)')
<1>1. /\ c \in Calls /\ x \in FramesOf(c) /\ FramesOf(c)' \subseteq FramesOf(c) \ {x}
      /\ QuestionsOf(c)' \subseteq QuestionsOf(c) \ {x}
      /\ x \in Asking(d) => x \in QuestionsOf(c)
  BY InvGives, OfDropped, Zenon DEF Loses
<1>2. Shrinks /\ \A b \in Calls : QuestionsOf(b)' \subseteq QuestionsOf(b) /\ FramesOf(b)' \subseteq FramesOf(b)
  BY DropShrinks, OfShrinks, Zenon DEF Loses
<1>3. /\ Locals' /\ ThreadInv' /\ \A b \in Calls : Attempts(b)' = Attempts(b)
      /\ \A t \in Threads : thr'[t].pc = "wait" => thr'[t] = thr[t]
  BY ThreadSame, Zenon
<1>4. IsFiniteSet(QuestionsOf(c)) /\ IsFiniteSet(FramesOf(c)) /\ QuestionsOf(c)' \subseteq QuestionsOf(c)
  BY <1>1, <1>2, InvGives, OfCall, ZenonT(30)
<1>5. /\ q \in Nat /\ q2 \in Nat /\ f \in Nat /\ f2 \in Nat /\ f2 + 1 <= f /\ q2 <= q
      /\ x \in Asking(d) => q2 + 1 <= q
  <2>1. f \in Nat /\ f2 \in Nat /\ f2 + 1 <= f
    BY <1>1, <1>4, CardDrop, ZenonT(30)
  <2>2. q \in Nat /\ q2 \in Nat /\ q2 <= q
    BY <1>4, CardLess, Zenon
  <2>3. ASSUME x \in Asking(d) PROVE q2 + 1 <= q
    BY <1>1, <1>4, <2>3, CardDrop, ZenonT(30)
  <2> QED
    BY <2>1, <2>2, <2>3, ZenonT(30)
<1>6. /\ runs[c] \in Nat /\ lost[c] \in Nat /\ a \in 0..Retry
      /\ runs[c] + q <= a /\ lost[c] + f <= a
  BY <1>1, InvGives, CountersAre, Zenon DEF Counted
<1>7. /\ lost' = [lost EXCEPT ![c] = lost[c] + 1]
      /\ (runs' = runs \/ (x \in Asking(d) /\ runs' = [runs EXCEPT ![c] = runs[c] + 1]))
  BY Zenon DEF Loses
<1>8. a' = a
  BY <1>1, <1>3, Zenon
<1>9. lost[c] + 1 \in 0..Retry /\ (x \in Asking(d) => runs[c] + 1 \in 0..Retry)
  <2> HIDE DEF c, q, f, a, q2, f2
  <2> QED
    BY <1>5, <1>6, HostLinkAssumption
<1>10. Counters' /\ RunsGrow
  <2> HIDE DEF c, q, f, a, q2, f2
  <2>1. Counters'
    BY <1>1, <1>7, <1>9, InvGives, SMTT(30) DEF Counters
  <2>2. \A b \in Calls : runs[b] \in Nat /\ (runs'[b] = runs[b] \/ runs'[b] = runs[b] + 1)
    BY <1>1, <1>7, InvGives, HostLinkAssumption DEF Counters
  <2>3. \A b \in Calls : 1..runs[b] \subseteq 1..runs'[b]
    BY <2>2
  <2> QED
    BY <2>1, <2>3, Zenon DEF RunsGrow
<1>11. SetInv' /\ WaitInv'
  BY <1>2, <1>3, <1>10, InvGives, SetShrinks, WaitShrinks, ZenonT(30) DEF Shrinks
<1>12. Counted(c)'
  <2>1. /\ lost'[c] = lost[c] + 1
        /\ (runs'[c] = runs[c] \/ (x \in Asking(d) /\ runs'[c] = runs[c] + 1))
    BY <1>1, <1>7, InvGives, Zenon DEF Counters
  <2> SUFFICES runs'[c] + q2 <= a' /\ lost'[c] + f2 <= a'
    BY Zenon DEF Counted
  <2> HIDE DEF c, q, f, a, q2, f2
  <2> QED
    BY <1>5, <1>6, <1>8, <2>1, HostLinkAssumption, SMTT(30)
<1>13. ASSUME NEW b \in Calls, b # c PROVE Counted(b)'
  <2>1. runs'[b] = runs[b] /\ lost'[b] = lost[b]
    BY <1>7, <1>13, InvGives, Zenon DEF Counters
  <2>2. Attempts(b) \in Nat /\ Attempts(b)' \in Nat /\ Attempts(b) <= Attempts(b)'
    BY <1>3, InvGives, HostLinkAssumption
  <2> QED
    BY <1>2, <1>10, <2>1, <2>2, InvGives, CountKeeps, ZenonT(30)
<1>14. CountInv'
  BY <1>12, <1>13, Zenon DEF CountInv
<1> QED
  BY <1>3, <1>10, <1>11, <1>14, InvFrom, PTL

\* A frame arrives.
LEMMA ReceiveKeeps == ASSUME IInv, NEW e \in Ends, Receive(e) PROVE IInv'
<1>0. PICK x : x = Head(wire[e])
  OBVIOUS
<1>1. /\ PlaceInv' /\ x \in Frames
      /\ \E d \in Ends : /\ x \in AtLarge(d)
                         /\ \/ Drop(d, x) /\ lost' = [lost EXCEPT ![x.call] = @ + 1]
                            \/ lost' = lost /\ Same(d) /\ Same(Peer(d))
                            \/ lost' = lost /\ Drop(d, x) /\ Full(e, d)
  BY <1>0, InvGives, ReceiveIs, Zenon
<1>2. UNCHANGED <<timely, quota, nextId, poll, thr, outcome, runs, answer>>
  BY Zenon DEF Receive
<1>3. Shape'
  <2>1. wire' = [d \in Ends |-> wire'[d]]
    BY InvGives, Zenon DEF Receive, Shape
  <2>2. notify' = [d \in Ends |-> notify'[d]] /\ ack' = [d \in Ends |-> ack'[d]]
    BY InvGives, Zenon DEF Receive, Shape
  <2> QED
    BY <1>2, <2>1, <2>2, InvGives, Zenon DEF Shape
<1>4. Fixed'
  BY <1>2, InvGives, Zenon DEF Fixed
<1>5. /\ Locals' /\ ThreadInv' /\ \A c \in Calls : Attempts(c)' = Attempts(c)
      /\ \A t \in Threads : thr'[t].pc = "wait" => thr'[t] = thr[t]
  BY <1>2, ThreadSame, Zenon
<1>6. \A c \in Calls : Attempts(c) <= Attempts(c)'
  BY <1>5, InvGives, HostLinkAssumption
<1>7. PICK d \in Ends : /\ x \in AtLarge(d)
                        /\ \/ Drop(d, x) /\ lost' = [lost EXCEPT ![x.call] = @ + 1]
                           \/ lost' = lost /\ Same(d) /\ Same(Peer(d))
                           \/ lost' = lost /\ Drop(d, x) /\ Full(e, d)
  BY <1>1, Zenon
<1>8. CASE Drop(d, x) /\ lost' = [lost EXCEPT ![x.call] = @ + 1]
  <2>1. Loses(d, x)
    BY <1>2, <1>8 DEF Loses
  <2> QED
    BY <1>1, <1>2, <1>3, <1>4, <1>7, <2>1, LossKeeps, ZenonT(30)
<1>9. CASE lost' = lost
  <2>1. Shrinks
    BY <1>7, <1>8, <1>9, DropShrinks, SameShrinks, TwoEnds, ZenonT(30) DEF Drop, Same, Shrinks
  <2> QED
    BY <1>1, <1>2, <1>3, <1>4, <1>5, <1>6, <1>9, <2>1, ShrinkKeeps, ZenonT(30)
<1> QED
  BY <1>7, <1>8, <1>9, Zenon

\* A thread takes an answer to its call.
LEMMA TakeKeeps ==
  ASSUME IInv, NEW t \in Threads, TakeAck(t)
  PROVE  /\ IInv' /\ ThisCall(t) \in Calls
         /\ \E r \in 1..runs[ThisCall(t)] : answer' = [answer EXCEPT ![ThisCall(t)] = r]
<1>1. /\ thr[t].pc = "wait" /\ Return(t, "ok")
      /\ UNCHANGED <<timely, quota, nextId, wire, notify, poll, runs, lost>>
  BY Zenon DEF TakeAck
<1>2. thr[t].pc # "idle" /\ "ok" \in {"ok", "err"}
  BY <1>1
<1>3. /\ Locals' /\ ThreadInv' /\ Moves(t) /\ thr'[t].pc = "idle" /\ ThisCall(t) \in Calls
      /\ \A c \in Calls : Attempts(c)' = IF c = ThisCall(t) THEN Retry ELSE Attempts(c)
  BY <1>1, <1>2, InvGives, ReturnKeeps, Zenon
<1>4. /\ PlaceInv'
      /\ \E x \in Answering(EndOf(t)) :
               /\ Matches(t, x) /\ Drop(EndOf(t), x)
               /\ answer' = [answer EXCEPT ![ThisCall(t)] = x.run]
  BY InvGives, TakeIs, Zenon
<1>5. PICK x \in Answering(EndOf(t)) : /\ Matches(t, x) /\ Drop(EndOf(t), x)
                                       /\ answer' = [answer EXCEPT ![ThisCall(t)] = x.run]
  BY <1>4, Zenon
<1>6. EndOf(t) \in Ends /\ x \in AtLarge(EndOf(t)) /\ x \in Frames
  BY TwoEnds, Kinds, AtLargeIs, InvGives, Zenon
<1>7. x.call = ThisCall(t)
  BY <1>1, <1>5, <1>6, InvGives, ZenonT(30) DEF WaitInv, Matches
<1>8. x.run \in 1..runs[ThisCall(t)] /\ x.run \in 0..Retry
  BY <1>6, <1>7, InvGives, FrameParts, Zenon DEF SetInv, EndInv
<1>9. Shape'
  <2>1. ack' = [d \in Ends |-> ack'[d]]
    BY InvGives, Zenon DEF TakeAck, Shape
  <2> QED
    BY <1>1, <2>1, InvGives, Zenon DEF Shape
<1>10. Fixed'
  <2>1. answer' \in [Calls -> 0..Retry]
    BY <1>3, <1>5, <1>8, InvGives DEF Fixed
  <2> QED
    BY <1>1, <2>1, InvGives, ZenonT(30) DEF Fixed
<1>11. Shrinks
  BY <1>5, <1>6, DropShrinks, ZenonT(30)
<1>12. \A s \in Threads : thr'[s].pc = "wait" => thr'[s] = thr[s]
  BY <1>3 DEF Moves
<1>13. \A c \in Calls : Attempts(c) <= Attempts(c)'
  BY <1>3, InvGives, HostLinkAssumption
<1>14. IInv'
  BY <1>1, <1>3, <1>4, <1>9, <1>10, <1>11, <1>12, <1>13, ShrinkKeeps, ZenonT(30)
<1> QED
  BY <1>3, <1>5, <1>8, <1>14, Zenon

\* The attempts of the call a thread is in.
LEMMA AttemptsHere ==
  ASSUME Locals, NEW t \in Threads
  PROVE  /\ thr[t].pc = "send" => Attempts(ThisCall(t)) = thr[t].retry
         /\ thr[t].pc = "wait" => Attempts(ThisCall(t)) = thr[t].retry + 1
<1>1. ThisCall(t)[1] = t /\ ThisCall(t)[2] = thr[t].n
  BY DEF ThisCall
<1>2. ~(thr[t].n < thr[t].n) /\ ~(thr[t].n > thr[t].n)
  BY ThrParts, HostLinkAssumption
<1>3. Attempts(ThisCall(t)) = Made(thr[t].pc, thr[t].n, thr[t].retry, thr[t].n)
  BY <1>1, AttemptsAre, Zenon
<1> QED
  BY <1>2, <1>3 DEF Made

\* alloc_frame_id moves on to the next id.
LEMMA NextIdIs ==
  ASSUME Fixed, NEW e \in Ends, nextId' = [nextId EXCEPT ![e] = (@ + 1) % IdMod],
         UNCHANGED <<timely, quota, answer>>
  PROVE  Fixed'
<1>1. (nextId[e] + 1) % IdMod \in 0..IdMod-1
  BY HostLinkAssumption DEF Fixed
<1>2. nextId' \in [Ends -> 0..IdMod-1]
  BY <1>1 DEF Fixed
<1> QED
  BY <1>2, Zenon DEF Fixed

\* send_fn fails.
LEMMA SendFails ==
  ASSUME IInv, NEW t \in Threads, Send(t), wire' = wire,
         lost' = [lost EXCEPT ![ThisCall(t)] = @ + 1], NextAttempt(t)
  PROVE  IInv'
<1>0. PICK c : c = ThisCall(t)
  OBVIOUS
<1> DEFINE a == Attempts(c)
           q == Cardinality(QuestionsOf(c)) f == Cardinality(FramesOf(c))
<1>1. /\ thr[t].pc = "send" /\ nextId' = [nextId EXCEPT ![EndOf(t)] = (@ + 1) % IdMod]
      /\ UNCHANGED <<timely, quota, notify, ack, poll, runs, answer>>
  BY Zenon DEF Send
<1>2. thr[t].pc # "idle"
  BY <1>1
<1>3. /\ Locals' /\ ThreadInv' /\ Moves(t) /\ thr'[t].pc # "wait" /\ c \in Calls
      /\ \A b \in Calls : Attempts(b)' = IF b = c THEN thr[t].retry + 1 ELSE Attempts(b)
  BY <1>0, <1>2, InvGives, AttemptIs, ZenonT(30)
<1>4. a = thr[t].retry /\ thr[t].retry < Retry
  BY <1>0, <1>1, <1>2, InvGives, AttemptsHere, ZenonT(30) DEF ThreadInv
<1>5. PlaceInv' /\ \A d \in Ends : Same(d)
  BY <1>1, InvGives, QuietIs, ZenonT(30)
<1>6. Shrinks /\ Shape' /\ Fixed'
  BY <1>1, <1>5, InvGives, SameShrinks, ShapeSame, NextIdIs, TwoEnds, ZenonT(30)
<1>7. runs[c] \in Nat /\ lost[c] \in Nat /\ a \in 0..Retry /\ q \in Nat /\ f \in Nat
  BY <1>3, InvGives, CountersAre, OfCall, ZenonT(30)
<1>8. runs[c] + q <= a /\ lost[c] + f <= a
  BY <1>3, InvGives, Zenon DEF Counted
<1>9. lost[c] + 1 \in 0..Retry
  <2> HIDE DEF a, q, f
  <2> QED
    BY <1>4, <1>7, <1>8, HostLinkAssumption
<1>10. Counters' /\ RunsGrow
  <2>1. lost' = [lost EXCEPT ![c] = lost[c] + 1]
    BY <1>0, Zenon
  <2>2. lost' \in [Calls -> 0..Retry]
    BY <1>3, <1>9, <2>1, InvGives DEF Counters
  <2> QED
    BY <1>1, <2>2, InvGives, ZenonT(30) DEF Counters, RunsGrow
<1>11. \A s \in Threads : thr'[s].pc = "wait" => thr'[s] = thr[s]
  BY <1>3, Zenon DEF Moves
<1>12. SetInv' /\ WaitInv'
  BY <1>6, <1>10, <1>11, InvGives, SetShrinks, WaitShrinks, ZenonT(30) DEF Shrinks
<1>13. \A b \in Calls : QuestionsOf(b)' = QuestionsOf(b) /\ FramesOf(b)' = FramesOf(b)
  <2>1. \A b \in Calls : EndOf(b[1]) \in Ends
    BY CallParts, TwoEnds, Zenon
  <2> QED
    BY <1>5, <2>1, Zenon DEF Same, QuestionsOf, FramesOf, AtLarge
<1>14. Counted(c)'
  <2>0. lost' = [lost EXCEPT ![c] = lost[c] + 1]
    BY <1>0, Zenon
  <2>1. runs'[c] = runs[c] /\ lost'[c] = lost[c] + 1 /\ Attempts(c)' = a + 1
    BY <1>1, <1>3, <1>4, <2>0, InvGives, ZenonT(30) DEF Counters
  <2> SUFFICES runs'[c] + q <= Attempts(c)' /\ lost'[c] + f <= Attempts(c)'
    BY <1>3, <1>13, Zenon DEF Counted
  <2> HIDE DEF a, q, f
  <2> QED
    BY <1>7, <1>8, <2>1, HostLinkAssumption, SMTT(30)
<1>15. ASSUME NEW b \in Calls, b # c PROVE Counted(b)'
  <2>1. runs'[b] = runs[b] /\ lost'[b] = lost[b] /\ Attempts(b)' = Attempts(b)
    BY <1>0, <1>1, <1>3, <1>15, InvGives, ZenonT(30) DEF Counters
  <2> QED
    BY <1>13, <2>1, InvGives, Zenon DEF Counted
<1>16. CountInv'
  BY <1>14, <1>15, Zenon DEF CountInv
<1> QED
  BY <1>3, <1>5, <1>6, <1>10, <1>12, <1>16, InvFrom, PTL

\* The question is on the line.
Adds(e, x) == AtLarge(e)' = AtLarge(e) \cup {x} /\ AtLarge(Peer(e))' = AtLarge(Peer(e))
LEMMA SendWorks ==
  ASSUME IInv, NEW t \in Threads, Send(t), NEW x,
         x = Frame(CallType(t), nextId[EndOf(t)], ThisCall(t), 0),
         wire' = [wire EXCEPT ![Peer(EndOf(t))] = Append(@, x)],
         thr' = [thr EXCEPT ![t] = [pc |-> "wait", n |-> @.n, id |-> nextId[EndOf(t)],
                                    retry |-> @.retry]],
         UNCHANGED <<outcome, lost>>
  PROVE  /\ IInv' /\ Adds(EndOf(t), x) /\ Moves(t)
         /\ thr'[t].pc = "wait" /\ thr'[t].n = thr[t].n /\ thr'[t].id = x.id
         /\ \A b \in Calls : Attempts(b)' = IF b = ThisCall(t) THEN Attempts(b) + 1 ELSE Attempts(b)
<1>0. PICK c, id, e : c = ThisCall(t) /\ id = nextId[EndOf(t)] /\ e = EndOf(t)
  BY Zenon
<1> DEFINE a == Attempts(c)
<1>1. /\ thr[t].pc = "send" /\ nextId' = [nextId EXCEPT ![e] = (@ + 1) % IdMod]
      /\ Fresh(e, id) /\ UNCHANGED <<timely, quota, notify, ack, poll, runs, answer, outcome, lost>>
  BY <1>0, Zenon DEF Send
<1>2. /\ x \in Frames /\ x.type \in Questions /\ x.id = id /\ x.call = c /\ x.type = CallType(t)
      /\ e \in Ends
  <2>1. x \in Frames /\ CallType(t) \in Questions /\ e \in Ends
    BY <1>0, <1>1, InvGives, QuestionIs, TwoEnds, ZenonT(30)
  <2>2. x.id = id /\ x.call = c /\ x.type = CallType(t)
    BY <1>0 DEF Frame
  <2> QED
    BY <2>1, <2>2, Zenon
<1>3. thr[t].pc # "idle"
  BY <1>1
<1>4. /\ thr[t].n <= NCalls /\ thr[t].retry < Retry /\ thr[t].retry \in 0..Retry
      /\ id \in 0..IdMod-1
  <2>1. id \in 0..IdMod-1
    BY <1>2, FrameParts, Zenon
  <2> QED
    BY <1>3, <2>1, InvGives, ThrParts, Zenon DEF ThreadInv
<1>5. /\ Locals' /\ ThreadInv' /\ Moves(t) /\ c \in Calls
      /\ thr'[t].pc = "wait" /\ thr'[t].n = thr[t].n /\ thr'[t].id = id
      /\ \A b \in Calls : Attempts(b)' = IF b = c THEN thr[t].retry + 1 ELSE Attempts(b)
  <2>1. PICK r : r = thr[t].retry
    OBVIOUS
  <2>2. Locates(t, "wait", id, r)
    BY <1>0, <2>1, Zenon DEF Locates
  <2>3. r \in 0..Retry /\ r < Retry /\ Locals /\ ThreadInv /\ outcome' = outcome
    BY <1>1, <1>4, <2>1, InvGives, ZenonT(30)
  <2>4. "wait" \in InCall /\ Tries("wait", r) = r + 1
    BY DEF InCall, Tries
  <2>5. Located(t, "wait", id, r)
    BY <1>4, <2>2, <2>3, <2>4, GoesOn, ZenonT(30)
  <2> QED
    BY <1>0, <2>1, <2>4, <2>5, ZenonT(30) DEF Located
<1>6. a = thr[t].retry
  BY <1>0, <1>1, InvGives, AttemptsHere, ZenonT(30)
<1>7. /\ \A g \in AtLarge(e) : g.id # x.id
      /\ \A s \in Threads : EndOf(s) = e /\ thr[s].pc = "wait" => thr[s].id # x.id
  BY <1>1, <1>2, Zenon DEF Fresh
<1>8. /\ PlaceInv' /\ Same(Peer(e)) /\ Asking(e)' = Asking(e) \cup {x} /\ Answering(e)' = Answering(e)
  BY <1>0, <1>1, <1>2, <1>7, InvGives, SendIs, ZenonT(30)
<1>9. AtLarge(e)' = AtLarge(e) \cup {x} /\ x \notin Answering(e) /\ AtLarge(Peer(e))' = AtLarge(Peer(e))
  <2>1. x \notin Answering(e)
    BY <1>2, Kinds, Zenon
  <2>2. AtLarge(e)' = Asking(e)' \cup Answering(e)' /\ AtLarge(e) = Asking(e) \cup Answering(e)
    BY Zenon DEF AtLarge
  <2>3. AtLarge(e)' = AtLarge(e) \cup {x}
    BY <1>8, <2>2, Zenon
  <2>4. AtLarge(Peer(e))' = AtLarge(Peer(e))
    BY <1>8, Zenon DEF AtLarge, Same
  <2> QED
    BY <2>1, <2>3, <2>4, Zenon
<1>10. Shape' /\ Fixed' /\ Counters' /\ RunsGrow
  <2>1. wire' = [d \in Ends |-> wire'[d]]
    BY InvGives, Zenon DEF Shape
  <2>2. Shape'
    BY <1>1, <2>1, InvGives, Zenon DEF Shape
  <2>3. Fixed'
    BY <1>1, <1>2, InvGives, NextIdIs, ZenonT(30)
  <2> QED
    BY <1>1, <2>2, <2>3, InvGives, ZenonT(30) DEF Counters, RunsGrow
<1>11. EndOf(x.call[1]) = e /\ x.type = CallType(x.call[1])
  <2>1. c[1] = t
    BY <1>0 DEF ThisCall
  <2> QED
    BY <1>0, <1>2, <2>1, Zenon
<1>12. SetInv'
  <2>1. EndInv(e)'
    <3>1. /\ Asking(e)' \subseteq Asking(e) \cup {x} /\ Answering(e)' \subseteq Answering(e) \cup {x}
          /\ \A g \in AtLarge(e)' : g = x \/ g.id # x.id
          /\ x \notin Answering(e)'
      BY <1>7, <1>8, <1>9, Zenon
    <3>2. PlaceInv /\ EndInv(e) /\ RunsGrow
      BY <1>2, <1>10, InvGives, Zenon DEF SetInv
    <3> QED
      BY <1>2, <1>11, <3>1, <3>2, EndGrows, ZenonT(30)
  <2>2. EndInv(Peer(e))'
    BY <1>2, <1>8, <1>10, InvGives, EndShrinks, TwoEnds, ZenonT(30) DEF SetInv, Same
  <2> QED
    BY <1>2, <2>1, <2>2, TwoEnds, ZenonT(30) DEF SetInv
<1>13. WaitInv'
  <2> SUFFICES ASSUME NEW s \in Threads, NEW g \in AtLarge(EndOf(s))', thr'[s].pc = "wait",
                      g.id = thr'[s].id
               PROVE  g.call = <<s, thr'[s].n>>
    BY Zenon DEF WaitInv, ThisCall
  <2>1. CASE s = t
    BY <1>0, <1>2, <1>5, <1>7, <1>9, <2>1, ZenonT(30) DEF ThisCall
  <2>2. CASE s # t
    <3>1. thr'[s] = thr[s]
      BY <1>5, <2>2, Zenon DEF Moves
    <3>2. g \in AtLarge(EndOf(s))
      BY <1>2, <1>7, <1>8, <1>9, <3>1, TwoEnds, ZenonT(30) DEF Same, AtLarge
    <3> QED
      BY <3>1, <3>2, InvGives, ZenonT(30) DEF WaitInv, ThisCall
  <2> QED
    BY <2>1, <2>2, Zenon
<1>14. /\ QuestionsOf(c)' \subseteq QuestionsOf(c) \cup {x} /\ FramesOf(c)' \subseteq FramesOf(c) \cup {x}
       /\ \A b \in Calls : b # c => /\ QuestionsOf(b)' \subseteq QuestionsOf(b)
                                    /\ FramesOf(b)' \subseteq FramesOf(b)
  <2>1. \A d \in Ends : Asking(d)' \subseteq Asking(d) \cup {x} /\ AtLarge(d)' \subseteq AtLarge(d) \cup {x}
    <3>1. Asking(e)' \subseteq Asking(e) \cup {x} /\ Asking(Peer(e))' \subseteq Asking(Peer(e)) \cup {x}
      BY <1>8, Zenon DEF Same
    <3>2. AtLarge(e)' \subseteq AtLarge(e) \cup {x} /\ AtLarge(Peer(e))' \subseteq AtLarge(Peer(e)) \cup {x}
      BY <1>9, Zenon
    <3> QED
      BY <1>2, <3>1, <3>2, TwoEnds, ZenonT(30)
  <2>2. \A b \in Calls : EndOf(b[1]) \in Ends
    BY CallParts, TwoEnds, Zenon
  <2>3. \A b \in Calls : /\ QuestionsOf(b)' \subseteq QuestionsOf(b) \cup {g \in {x} : g.call = b}
                         /\ FramesOf(b)' \subseteq FramesOf(b) \cup {g \in {x} : g.call = b}
    BY <2>1, <2>2, Zenon DEF QuestionsOf, FramesOf
  <2> QED
    BY <1>2, <1>5, <2>3, Zenon
<1>15. Counted(c)'
  <2>1. a \in Nat /\ Attempts(c)' = a + 1
    BY <1>5, <1>6, InvGives, HostLinkAssumption, SMTT(30)
  <2> QED
    BY <1>1, <1>5, <1>14, <2>1, InvGives, CountAdds, ZenonT(30)
<1>16. ASSUME NEW b \in Calls, b # c PROVE Counted(b)'
  <2>1. runs'[b] = runs[b] /\ lost'[b] = lost[b] /\ Attempts(b)' = Attempts(b) /\ Attempts(b) \in 0..Retry
    BY <1>1, <1>5, <1>16, InvGives, ZenonT(30)
  <2>2. Attempts(b) \in Nat /\ Attempts(b)' \in Nat /\ Attempts(b) <= Attempts(b)'
    BY <2>1, HostLinkAssumption
  <2> QED
    BY <1>10, <1>14, <1>16, <2>1, <2>2, InvGives, CountKeeps, ZenonT(30)
<1>17. CountInv'
  BY <1>15, <1>16, Zenon DEF CountInv
<1>18. IInv'
  BY <1>5, <1>8, <1>10, <1>12, <1>13, <1>17, InvFrom, PTL
<1>19. Adds(e, x)
  BY <1>9, Zenon DEF Adds
<1>20. \A b \in Calls : Attempts(b)' = IF b = c THEN Attempts(b) + 1 ELSE Attempts(b)
  BY <1>5, <1>6, ZenonT(30)
<1> QED
  BY <1>0, <1>2, <1>5, <1>18, <1>19, <1>20, ZenonT(30)

\* A thread makes an attempt.
LEMMA SendKeeps == ASSUME IInv, NEW t \in Threads, Send(t) PROVE IInv'
<1>1. PICK x : x = Frame(CallType(t), nextId[EndOf(t)], ThisCall(t), 0)
  OBVIOUS
<1>2. \/ /\ wire' = [wire EXCEPT ![Peer(EndOf(t))] = Append(@, x)]
         /\ thr' = [thr EXCEPT ![t] = [pc |-> "wait", n |-> @.n, id |-> nextId[EndOf(t)],
                                       retry |-> @.retry]]
         /\ UNCHANGED <<outcome, lost>>
      \/ /\ wire' = wire /\ lost' = [lost EXCEPT ![ThisCall(t)] = @ + 1] /\ NextAttempt(t)
  BY <1>1, Zenon DEF Send
<1> QED
  BY <1>1, <1>2, SendWorks, SendFails

\* The question x at end d turns into its answer y.
Turns(d, x, y) == /\ Asking(d)' = Asking(d) \ {x} /\ Answering(d)' = Answering(d) \cup {y}
                  /\ Same(Peer(d))
LEMMA TurnKeeps ==
  ASSUME IInv, NEW d \in Ends, NEW x \in Asking(d), NEW y \in Frames, Turns(d, x, y),
         y.id = x.id, y.call = x.call, y.type = AckType(x.type), y.run = runs[x.call] + 1,
         runs' = [runs EXCEPT ![x.call] = @ + 1], UNCHANGED <<thr, outcome, lost>>,
         Shape', Fixed', PlaceInv'
  PROVE  IInv'
<1> DEFINE c == x.call
           q == Cardinality(QuestionsOf(c)) f == Cardinality(FramesOf(c)) a == Attempts(c)
           q2 == Cardinality(QuestionsOf(c)') f2 == Cardinality(FramesOf(c)')
<1>1. /\ Locals' /\ ThreadInv' /\ \A b \in Calls : Attempts(b)' = Attempts(b)
  BY ThreadSame, Zenon
<1>2. x \in AtLarge(d) /\ c \in Calls /\ EndOf(c[1]) = d /\ x.type = CallType(c[1])
  <2>1. x \in AtLarge(d)
    BY Kinds, Zenon
  <2>2. c \in Calls
    BY <2>1, InvGives, AtLargeIs, FrameParts, ZenonT(30)
  <2>3. EndOf(c[1]) = d /\ x.type = CallType(c[1])
    BY InvGives, Zenon DEF SetInv, EndInv
  <2> QED
    BY <2>1, <2>2, <2>3, Zenon
<1>3. /\ \A g \in AtLarge(d) : g.id = x.id => g = x
      /\ AtLarge(d)' \subseteq (AtLarge(d) \ {x}) \cup {y}
  <2>1. \A g \in AtLarge(d) : g.id = x.id => g = x
    BY <1>2, InvGives, Zenon DEF SetInv, EndInv
  <2>2. x \notin Answering(d)
    BY Kinds, Zenon
  <2>3. AtLarge(d)' = Asking(d)' \cup Answering(d)' /\ AtLarge(d) = Asking(d) \cup Answering(d)
    BY Zenon DEF AtLarge
  <2>4. Asking(d)' = Asking(d) \ {x} /\ Answering(d)' = Answering(d) \cup {y}
    BY Zenon DEF Turns
  <2> QED
    BY <2>1, <2>2, <2>3, <2>4, ZenonT(30)
<1>4. IsFiniteSet(QuestionsOf(c)) /\ IsFiniteSet(FramesOf(c)) /\ x \in QuestionsOf(c) /\ x \in FramesOf(c)
  BY <1>2, InvGives, OfCall, Zenon DEF QuestionsOf, FramesOf
<1>5. QuestionsOf(c)' \subseteq QuestionsOf(c) \ {x} /\ FramesOf(c)' \subseteq (FramesOf(c) \ {x}) \cup {y}
  <2>1. QuestionsOf(c)' \subseteq QuestionsOf(c) \ {x}
    BY <1>2, Zenon DEF QuestionsOf, Turns
  <2> QED
    BY <1>2, <1>3, <2>1, Zenon DEF FramesOf
<1>6. /\ q \in Nat /\ q2 \in Nat /\ f \in Nat /\ f2 \in Nat /\ f2 <= f /\ q2 + 1 <= q
  <2>1. q \in Nat /\ q2 \in Nat /\ q2 + 1 <= q
    BY <1>4, <1>5, CardDrop, Zenon
  <2>2. IsFiniteSet(FramesOf(c) \ {x}) /\ f \in Nat /\ Cardinality(FramesOf(c) \ {x}) = f - 1
    BY <1>4, FS_RemoveElement, FS_CardinalityType, Zenon
  <2>3. f2 \in Nat /\ f2 <= Cardinality(FramesOf(c) \ {x}) + 1
    BY <1>5, <2>2, CardAdd, ZenonT(30)
  <2>4. f2 <= f
    <3> HIDE DEF f, f2
    <3> QED
      BY <2>2, <2>3
  <2> QED
    BY <2>1, <2>2, <2>3, <2>4, ZenonT(30)
<1>7. /\ runs[c] \in Nat /\ lost[c] \in Nat /\ a \in 0..Retry
      /\ runs[c] + q <= a /\ lost[c] + f <= a
  BY <1>2, InvGives, CountersAre, ZenonT(30) DEF Counted
<1>8. runs[c] + 1 \in 0..Retry
  <2> HIDE DEF c, q, f, a, q2, f2
  <2> QED
    BY <1>6, <1>7, HostLinkAssumption
<1>9. Counters' /\ RunsGrow
  <2>1. runs' = [runs EXCEPT ![c] = runs[c] + 1] /\ lost' = lost
    BY ZenonT(30)
  <2> HIDE DEF c, q, f, a, q2, f2
  <2>2. Counters'
    BY <1>2, <1>8, <2>1, InvGives, SMTT(30) DEF Counters
  <2>3. \A b \in Calls : runs[b] \in Nat /\ (runs'[b] = runs[b] \/ runs'[b] = runs[b] + 1)
    BY <1>2, <2>1, InvGives, HostLinkAssumption, SMTT(30) DEF Counters
  <2>4. \A b \in Calls : 1..runs[b] \subseteq 1..runs'[b]
    BY <2>3
  <2> QED
    BY <2>2, <2>4, Zenon DEF RunsGrow
<1>10. SetInv'
  <2>1. EndInv(d)'
    <3>1. /\ Asking(d)' \subseteq Asking(d) \cup {y} /\ Answering(d)' \subseteq Answering(d) \cup {y}
          /\ y \notin Asking(d)'
      <4>1. y.type \notin Questions
        BY <1>2 DEF AckType, Questions
      <4>2. y \notin Asking(d)
        BY <4>1, Kinds, Zenon
      <4> QED
        BY <4>2, Zenon DEF Turns
    <3>2. \A g \in AtLarge(d)' : g = y \/ g.id # y.id
      BY <1>3, Zenon
    <3>3. y.run \in 1..runs'[y.call] /\ y.type = AckType(CallType(y.call[1])) /\ EndOf(y.call[1]) = d
      <4>1. runs'[c] = runs[c] + 1
        BY <1>2, InvGives, ZenonT(30) DEF Counters
      <4>2. runs[c] + 1 \in 1..(runs[c] + 1)
        BY <1>7
      <4> QED
        BY <1>2, <4>1, <4>2, Zenon
    <3>4. PlaceInv /\ EndInv(d) /\ RunsGrow
      BY <1>9, InvGives, Zenon DEF SetInv
    <3> QED
      BY <3>1, <3>2, <3>3, <3>4, EndGrows, ZenonT(30)
  <2>2. EndInv(Peer(d))'
    BY <1>9, InvGives, EndShrinks, TwoEnds, ZenonT(30) DEF SetInv, Same, Turns
  <2> QED
    BY <2>1, <2>2, TwoEnds, Zenon DEF SetInv
<1>11. WaitInv'
  <2> SUFFICES ASSUME NEW s \in Threads, NEW g \in AtLarge(EndOf(s))', thr[s].pc = "wait",
                      g.id = thr[s].id
               PROVE  g.call = ThisCall(s)
    BY Zenon DEF WaitInv, ThisCall
  <2>1. AtLarge(Peer(d))' = AtLarge(Peer(d))
    BY Zenon DEF Turns, Same, AtLarge
  <2>2. g \in AtLarge(EndOf(s)) \/ (EndOf(s) = d /\ g = y)
    <3>1. CASE EndOf(s) = d
      <4>1. g \in (AtLarge(d) \ {x}) \cup {y}
        BY <1>3, <3>1, Zenon
      <4> QED
        BY <3>1, <4>1, Zenon
    <3>2. CASE EndOf(s) = Peer(d)
      BY <2>1, <3>2, Zenon
    <3> QED
      BY <3>1, <3>2, TwoEnds, Zenon
  <2> QED
    BY <1>2, <2>2, InvGives, Zenon DEF WaitInv
<1>12. Counted(c)'
  <2>1. runs'[c] = runs[c] + 1 /\ lost'[c] = lost[c] /\ Attempts(c)' = a
    BY <1>1, <1>2, InvGives, Zenon DEF Counters
  <2> SUFFICES runs'[c] + q2 <= Attempts(c)' /\ lost'[c] + f2 <= Attempts(c)'
    BY Zenon DEF Counted
  <2>2. a \in Nat
    BY <1>7, HostLinkAssumption
  <2> HIDE DEF c, q, f, a, q2, f2
  <2> QED
    BY <1>6, <1>7, <2>1, <2>2
<1>13. ASSUME NEW b \in Calls, b # c PROVE Counted(b)'
  <2>1. runs'[b] = runs[b] /\ lost'[b] = lost[b]
    BY <1>13, InvGives, ZenonT(30) DEF Counters
  <2>2. Attempts(b) \in Nat /\ Attempts(b)' \in Nat /\ Attempts(b) <= Attempts(b)'
    BY <1>1, InvGives, HostLinkAssumption
  <2>3. QuestionsOf(b)' \subseteq QuestionsOf(b) /\ FramesOf(b)' \subseteq FramesOf(b)
    <3>1. EndOf(b[1]) \in Ends
      BY CallParts, TwoEnds, Zenon
    <3>2. CASE EndOf(b[1]) = d
      BY <1>3, <1>13, <3>2, Zenon DEF QuestionsOf, FramesOf, Turns
    <3>3. CASE EndOf(b[1]) = Peer(d)
      BY <3>3, Zenon DEF QuestionsOf, FramesOf, Turns, Same, AtLarge
    <3> QED
      BY <3>1, <3>2, <3>3, TwoEnds, ZenonT(30)
  <2> QED
    BY <1>9, <2>1, <2>2, <2>3, InvGives, CountKeeps, ZenonT(30)
<1>14. CountInv'
  BY <1>12, <1>13, Zenon DEF CountInv
<1> QED
  BY <1>1, <1>9, <1>10, <1>11, <1>14, InvFrom, PTL

\* The frame in the callback of end e is lost with its answer, or answered.
Dealt(e, x) == \/ Loses(Peer(e), x)
                  \/ /\ lost' = lost
                     /\ \E y : Turns(Peer(e), x, y) /\ y.id = x.id /\ y.call = x.call
LEMMA HandleKeeps ==
  ASSUME IInv, NEW e \in Ends, Handle(e)
  PROVE  IInv' /\ \E x \in Asking(Peer(e)) : Dealt(e, x)
<1>0. PICK x, y : x = poll[e].fr /\ y = Frame(AckType(x.type), x.id, x.call, runs[x.call] + 1)
  BY Zenon
<1>1. /\ poll[e].fr # NoFrame /\ poll' = [poll EXCEPT ![e].fr = NoFrame]
      /\ runs' = [runs EXCEPT ![x.call] = @ + 1]
      /\ UNCHANGED <<timely, quota, nextId, notify, ack, thr, outcome, answer>>
      /\ \/ wire' = [wire EXCEPT ![Peer(e)] = Append(@, y)] /\ lost' = lost
         \/ wire' = wire /\ lost' = [lost EXCEPT ![x.call] = @ + 1]
  BY <1>0, Zenon DEF Handle
<1> DEFINE d == Peer(e)
<1>2. d \in Ends /\ Peer(d) = e /\ Peer(e) # e
  BY TwoEnds, Zenon
<1>3. x \in Frames /\ x.type \in Questions /\ x \in Asking(d)
  <2>1. x \in Frames /\ x.type \in Questions
    BY <1>0, <1>1, InvGives, Zenon DEF PlaceInv, Placed, Sorted
  <2> QED
    BY <1>0, <2>1, HeardIs, Zenon DEF Heard, Asked
<1>4. /\ x.call \in Calls /\ x.type = CallType(x.call[1]) /\ x.id \in 0..IdMod-1
      /\ \A g \in Answering(d) : g.id # x.id
  <2>1. x.call \in Calls /\ x.id \in 0..IdMod-1
    BY <1>3, FrameParts, Zenon
  <2>2. x.type = CallType(x.call[1]) /\ \A g \in AtLarge(d) : g.id = x.id => g = x
    BY <1>2, <1>3, InvGives, Kinds, Zenon DEF SetInv, EndInv
  <2> QED
    BY <1>2, <1>3, <2>1, <2>2, Kinds, ZenonT(30)
<1>5. runs[x.call] + 1 \in 0..Retry
  <2> DEFINE c == x.call q == Cardinality(QuestionsOf(c))
  <2>1. x \in QuestionsOf(c) /\ IsFiniteSet(QuestionsOf(c))
    BY <1>2, <1>3, <1>4, InvGives, OfCall, ZenonT(30) DEF QuestionsOf, SetInv, EndInv
  <2>2. q \in Nat /\ q # 0
    BY <2>1, FS_CardinalityType, FS_EmptySet, Zenon
  <2>3. runs[c] \in Nat /\ runs[c] + q <= Attempts(c) /\ Attempts(c) \in 0..Retry
    BY <1>4, InvGives, CountersAre, ZenonT(30) DEF Counted
  <2> HIDE DEF c, q
  <2>4. runs[c] + 1 \in 0..Retry
    BY <2>2, <2>3, HostLinkAssumption, SMTT(30)
  <2> QED
    BY <2>4, Zenon DEF c
<1>6. /\ y \in Frames /\ y.type = AckType(x.type) /\ y.id = x.id /\ y.call = x.call
      /\ y.run = runs[x.call] + 1 /\ y.type \in Answers
  <2>1. AckType(x.type) \in Answers
    BY DEF AckType, Answers
  <2> QED
    BY <1>0, <1>4, <1>5, <2>1 DEF Frame, Frames
<1>7. y \notin Answering(d)
  BY <1>4, <1>6, Zenon
<1>8. /\ PlaceInv' /\ Same(e) /\ Asking(d)' = Asking(d) \ {x}
      /\ wire' = wire => Drop(d, x)
      /\ wire' # wire => Answering(d)' = Answering(d) \cup {y}
  <2>1. \/ wire' = wire
        \/ /\ wire' = [wire EXCEPT ![Peer(e)] = Append(@, y)]
           /\ y \in Frames /\ y.type \in Answers /\ y \notin Answering(Peer(e))
    BY <1>1, <1>6, <1>7, Zenon
  <2> QED
    BY <1>0, <1>1, <2>1, InvGives, HandleIs, ZenonT(30)
<1>9. Shape' /\ Fixed'
  <2>1. wire' = [b \in Ends |-> wire'[b]] /\ poll' = [b \in Ends |-> poll'[b]]
    BY <1>1, InvGives, Zenon DEF Shape
  <2>2. \A b \in Ends : /\ poll'[b] = [idx |-> poll'[b].idx, fr |-> poll'[b].fr]
                        /\ poll'[b].idx \in 1..NotifyDepth
    BY <1>1, InvGives DEF Shape
  <2> QED
    BY <1>1, <2>1, <2>2, InvGives, Zenon DEF Shape, Fixed
<1>10. CASE wire' = [wire EXCEPT ![Peer(e)] = Append(@, y)] /\ lost' = lost
  <2>1. wire' # wire
    <3>1. wire'[d] = Append(wire[d], y) /\ wire[d] \in Seq(Frames)
      BY <1>2, <1>10, InvGives, OnEnds, ZenonT(30) DEF PlaceInv, Placed, Sorted
    <3>2. Append(wire[d], y) # wire[d]
      BY <1>6, <3>1
    <3> QED
      BY <3>1, <3>2, Zenon
  <2>2. Turns(d, x, y)
    BY <1>2, <1>8, <2>1, ZenonT(30) DEF Turns
  <2>3. Dealt(e, x)
    BY <1>6, <1>10, <2>2, ZenonT(30) DEF Dealt
  <2> HIDE DEF d
  <2>4. IInv'
    BY <1>1, <1>2, <1>3, <1>6, <1>8, <1>9, <1>10, <2>2, TurnKeeps, ZenonT(30)
  <2> QED
    BY <1>3, <2>3, <2>4, Zenon DEF d
<1>11. CASE wire' = wire /\ lost' = [lost EXCEPT ![x.call] = @ + 1]
  <2>1. Loses(d, x)
    BY <1>1, <1>3, <1>8, <1>11, ZenonT(30) DEF Loses
  <2>2. x \in AtLarge(d)
    BY <1>2, <1>3, Kinds, ZenonT(30)
  <2>3. Dealt(e, x)
    BY <2>1, Zenon DEF Dealt
  <2> HIDE DEF d
  <2>4. IInv'
    BY <1>1, <1>2, <1>8, <1>9, <2>1, <2>2, LossKeeps, ZenonT(30)
  <2> QED
    BY <1>3, <2>3, <2>4, Zenon DEF d
<1> QED
  BY <1>1, <1>10, <1>11, Zenon

\* In the initial states no frame is at large.
LEMMA InitKeeps == ASSUME Init PROVE IInv /\ \A e \in Ends : AtLarge(e) = {}
<1>1. <<timely, quota>> \in Scenarios
  <2>1. PICK s \in Scenarios : timely = s[1] /\ quota = s[2]
    BY Zenon DEF Init
  <2>2. s = <<s[1], s[2]>>
    BY HostLinkAssumption
  <2> QED
    BY <2>1, <2>2, Zenon
<1>2. /\ nextId \in [Ends -> 0..IdMod-1] /\ answer \in [Calls -> 0..Retry]
      /\ runs \in [Calls -> 0..Retry] /\ lost \in [Calls -> 0..Retry]
      /\ \A c \in Calls : runs[c] = 0 /\ lost[c] = 0
  BY HostLinkAssumption DEF Init
<1>3. Locals
  <2>1. [pc |-> "idle", n |-> 1, id |-> 0, retry |-> 0]
          \in [pc : {"idle", "send", "wait"}, n : 1..NCalls+1, id : 0..IdMod-1, retry : 0..Retry]
    BY HostLinkAssumption
  <2> QED
    BY <2>1 DEF Init, Locals
<1>4. \A e \in Ends : /\ wire[e] = << >> /\ poll[e] = [idx |-> 1, fr |-> NoFrame]
                      /\ notify[e] = [i \in 1..NotifyDepth |-> NoFrame]
                      /\ ack[e] = [i \in 1..AckSlots |-> NoFrame]
  BY Zenon DEF Init
<1>5. Shape
  <2>1. 1 \in 1..NotifyDepth
    BY HostLinkAssumption
  <2>2. /\ wire = [e \in Ends |-> wire[e]] /\ notify = [e \in Ends |-> notify[e]]
        /\ ack = [e \in Ends |-> ack[e]] /\ poll = [e \in Ends |-> poll[e]]
    BY DEF Init
  <2> QED
    BY <1>4, <2>1, <2>2 DEF Shape
<1>6. ASSUME NEW e \in Ends
      PROVE  /\ DOMAIN wire[e] = {} /\ poll[e].fr = NoFrame
             /\ \A i \in DOMAIN notify[e] : notify[e][i] = NoFrame
             /\ \A i \in DOMAIN ack[e] : ack[e][i] = NoFrame
  <2>1. DOMAIN wire[e] = {} /\ poll[e].fr = NoFrame
    BY <1>4
  <2> QED
    BY <1>4, <2>1, ZenonT(30)
<1>7. \A e \in Ends : Asking(e) = {} /\ Answering(e) = {} /\ AtLarge(e) = {}
  <2>1. NoFrame.type \notin Questions \cup Answers
    BY NoFrameApart, Zenon
  <2>2. \A e \in Ends : Asked(wire[e], notify[e], poll[e].fr) = {} /\ Answered(wire[e], ack[e]) = {}
    BY <1>6, <2>1, Zenon DEF Asked, Answered, Range
  <2>3. \A e \in Ends : Asking(e) = Heard(Peer(e)) /\ Answering(e) = Answered(wire[e], ack[e])
    BY HeardIs, Zenon
  <2>4. \A e \in Ends : Heard(e) = {} /\ Peer(e) \in Ends
    BY <2>2, TwoEnds, Zenon DEF Heard
  <2>5. \A e \in Ends : Asking(e) = {} /\ Answering(e) = {}
    BY <2>2, <2>3, <2>4, Zenon
  <2> QED
    BY <2>5 DEF AtLarge
<1>8. PlaceInv
  <2> SUFFICES ASSUME NEW e \in Ends PROVE Placed(e)
    BY Zenon DEF PlaceInv
  <2>1. Sorted(wire[e], notify[e], ack[e], poll[e].fr)
    <3>1. << >> \in Seq(Frames)
      OBVIOUS
    <3>2. wire[e] \in Seq(Frames)
      BY <1>4, <3>1, Zenon
    <3> QED
      BY <1>4, <1>6, <3>2, Zenon DEF Sorted
  <2>2. Alone(wire[e], notify[e], ack[e], poll[e].fr)
    BY <1>6, Zenon DEF Alone, Single
  <2> QED
    BY <2>1, <2>2, Zenon DEF Placed
<1>9. ThreadInv
  <2>1. \A t \in Threads : thr[t].pc = "idle" /\ thr[t].n = 1 /\ thr[t].retry = 0
    BY DEF Init
  <2>2. \A t \in Threads : \A k \in 1..NCalls : outcome[<<t, k>>] = "none" /\ 1 <= k
    BY HostLinkAssumption DEF Init, Calls
  <2> QED
    BY <2>1, <2>2, Zenon DEF ThreadInv
<1>10. SetInv /\ WaitInv
  BY <1>7, FS_EmptySet, TwoEnds, Zenon DEF SetInv, EndInv, WaitInv
<1>11. CountInv
  <2> SUFFICES ASSUME NEW c \in Calls PROVE Counted(c)
    BY Zenon DEF CountInv
  <2>1. QuestionsOf(c) = {} /\ FramesOf(c) = {}
    BY <1>7, CallParts, TwoEnds, Zenon DEF QuestionsOf, FramesOf
  <2>2. Cardinality(QuestionsOf(c)) = 0 /\ Cardinality(FramesOf(c)) = 0
    BY <2>1, FS_EmptySet, Zenon
  <2>3. Attempts(c) \in 0..Retry
    BY <1>3, <1>9, AttemptsBound, Zenon
  <2> QED
    BY <1>2, <2>2, <2>3, HostLinkAssumption DEF Counted
<1> QED
  BY <1>1, <1>2, <1>3, <1>5, <1>7, <1>8, <1>9, <1>10, <1>11, InvFrom, ZenonT(30) DEF Fixed, Counters

\* The invariant is inductive.
LEMMA Inductive == ASSUME IInv, [Next]_vars PROVE IInv'
<1>1. ASSUME NEW t \in Threads, Call(t) \/ Send(t) \/ TakeAck(t) \/ Timeout(t) PROVE IInv'
  BY <1>1, CallKeeps, SendKeeps, TakeKeeps, TimeoutKeeps, ZenonT(30)
<1>2. ASSUME NEW e \in Ends, Receive(e) \/ PollSlot(e) \/ Handle(e) PROVE IInv'
  BY <1>2, ReceiveKeeps, PollKeeps, HandleKeeps, Zenon
<1>3. CASE UNCHANGED vars
  <2>1. UNCHANGED <<timely, quota, nextId, wire, notify, ack, poll, thr, outcome, runs, answer, lost>>
    BY <1>3, Zenon DEF vars
  <2>2. PlaceInv' /\ Shrinks /\ Shape' /\ Fixed'
    BY <2>1, InvGives, QuietIs, SameShrinks, ShapeSame, Zenon DEF Fixed
  <2>3. /\ Locals' /\ ThreadInv' /\ \A c \in Calls : Attempts(c)' = Attempts(c)
        /\ \A t \in Threads : thr'[t].pc = "wait" => thr'[t] = thr[t]
    BY <2>1, ThreadSame, Zenon
  <2>4. \A c \in Calls : Attempts(c) <= Attempts(c)'
    BY <2>3, InvGives, HostLinkAssumption
  <2> QED
    BY <2>1, <2>2, <2>3, <2>4, ShrinkKeeps, ZenonT(30)
<1> QED
  BY <1>1, <1>2, <1>3, Zenon DEF Next

-----------------------------------------------------------------------------
\* The types hold for any threads, workloads, retries, slots and losses: an
\* identifier drawn by alloc_frame_id fits its field, and the peer never runs a
\* call, and the line never loses a frame of it, more often than it was sent.
THEOREM TypeCorrect == Spec => []TypeOK
<1>1. Init => IInv
  BY InitKeeps
<1>2. IInv /\ [Next]_vars => IInv'
  BY Inductive
<1>3. IInv => TypeOK
  BY DEF IInv
<1> QED
  BY <1>1, <1>2, <1>3, PTL DEF Spec

=============================================================================
