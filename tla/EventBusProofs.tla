--------------------------- MODULE EventBusProofs ---------------------------
(***************************************************************************)
(* For any set of streams, patterns, clients and publishers: the table is  *)
(* exact, no QuitCh is closed twice, every stream gets the events of a     *)
(* publisher in order and at most once, and DeliveredCount is exact.       *)
(*                                                                         *)
(* The order of events needs what the table promises: since a stream is    *)
(* listed once, under its own pattern, it is once in a snapshot, and as    *)
(* long as it is ahead in one, the event that is published has not reached *)
(* it.                                                                     *)
(***************************************************************************)
EXTENDS EventBus, FiniteSetTheorems, SequenceTheorems, TLAPS

\* Who is in a snapshot; nobody twice, and no list empty.
Members(snap) == {s \in Streams : \E i \in DOMAIN snap : s \in ToSet(snap[i])}
Proper(snap) ==
    /\ \A i \in DOMAIN snap : snap[i] # << >> /\ IsInjective(snap[i])
    /\ \A i, k \in DOMAIN snap : i # k => ToSet(snap[i]) \cap ToSet(snap[k]) = {}

\* A stream is listed under its own pattern.
OwnList == \A t \in Patterns : \A i \in DOMAIN table[t] : Pattern[table[t][i]] = t

\* What a publisher has counted and still has ahead are different streams.
SnapInv == \A p \in Publishers :
    \/ todo[p] = Idle /\ tally[p] = Zero
    \/ /\ Proper(todo[p]) /\ count[p] > 0
       /\ tally[p].delivered + tally[p].dropped + Cardinality(Members(todo[p]))
             <= Cardinality(Streams)

\* The numbers of p's events that s was sent or has queued are at most n.
UpTo(s, p, n) ==
    /\ \A i \in DOMAIN wire[s][p] : wire[s][p][i] <= n
    /\ \A k \in DOMAIN chan[s] : chan[s][k][1] = p => chan[s][k][2] \in 1..n

\* The event that p publishes has reached none of the streams it has ahead.
AheadInv == \A s \in Streams, p \in Publishers :
    /\ UpTo(s, p, count[p])
    /\ s \in Members(todo[p]) => UpTo(s, p, count[p] - 1)

\* Nobody has told a stream that has not begun to quit.
NotBegun == \A s \in Streams : loop[s] = "off" => quit[s] = 0

TableInv == QuitClosedOnce /\ TableExact /\ OwnList /\ NotBegun
IInv == TypeOK /\ TableInv /\ SnapInv /\ AheadInv /\ InOrderOnce

-----------------------------------------------------------------------------
(* Sequences.                                                              *)

\* A list without its entry i.
LEMMA RemoveAtIs ==
  ASSUME NEW S, NEW seq \in Seq(S), NEW i \in 1..Len(seq)
  PROVE  /\ RemoveAt(seq, i) \in Seq(S)
         /\ Len(RemoveAt(seq, i)) = Len(seq) - 1
         /\ \A k \in 1..(Len(seq) - 1) :
               RemoveAt(seq, i)[k] = IF k < i THEN seq[k] ELSE seq[k + 1]
<1> DEFINE a == SubSeq(seq, 1, i - 1)
           b == SubSeq(seq, i + 1, Len(seq))
<1>1. /\ a \in Seq(S) /\ Len(a) = i - 1
      /\ \A k \in 1..(i - 1) : a[k] = seq[k]
  OBVIOUS
<1>2. /\ b \in Seq(S) /\ Len(b) = Len(seq) - i
      /\ \A k \in 1..(Len(seq) - i) : b[k] = seq[i + k]
  OBVIOUS
<1>3. RemoveAt(seq, i) = a \o b
  BY Zenon DEF RemoveAt
<1> HIDE DEF a, b
<1>4. /\ a \o b \in Seq(S) /\ Len(a \o b) = Len(seq) - 1
  <2>1. a \o b \in Seq(S) /\ Len(a \o b) = Len(a) + Len(b)
    BY <1>1, <1>2, ConcatProperties, Zenon
  <2>2. Len(a) + Len(b) = Len(seq) - 1
    BY <1>1, <1>2
  <2> QED
    BY <2>1, <2>2, Zenon
<1>5. ASSUME NEW k \in 1..(Len(seq) - 1)
      PROVE  (a \o b)[k] = IF k < i THEN seq[k] ELSE seq[k + 1]
  <2>1. CASE k < i
    BY <1>1, <1>2, <2>1
  <2>2. CASE ~(k < i)
    <3>1. (a \o b)[k] = b[k - (i - 1)]
      BY <1>1, <1>2, <2>2
    <3>2. k - (i - 1) \in 1..(Len(seq) - i) /\ i + (k - (i - 1)) = k + 1
      BY <2>2
    <3> QED
      BY <1>2, <2>2, <3>1, <3>2, Zenon
  <2> QED
    BY <2>1, <2>2, Zenon
<1> QED
  BY <1>3, <1>4, <1>5, Zenon

\* A list of different entries loses exactly the one that is removed.
LEMMA RemoveAtLeaves ==
  ASSUME NEW S, NEW seq \in Seq(S), NEW i \in 1..Len(seq), IsInjective(seq)
  PROVE  /\ IsInjective(RemoveAt(seq, i))
         /\ ToSet(RemoveAt(seq, i)) = ToSet(seq) \ {seq[i]}
<1> DEFINE r == RemoveAt(seq, i)
<1>1. /\ r \in Seq(S) /\ Len(r) = Len(seq) - 1
      /\ \A k \in 1..(Len(seq) - 1) : r[k] = IF k < i THEN seq[k] ELSE seq[k + 1]
  BY RemoveAtIs, Zenon
<1>2. \A k, m \in DOMAIN seq : seq[k] = seq[m] => k = m
  BY Zenon DEF IsInjective
<1> HIDE DEF r
<1>3. ASSUME NEW k \in DOMAIN r
      PROVE  \E m \in DOMAIN seq : m # i /\ r[k] = seq[m] /\ m = IF k < i THEN k ELSE k + 1
  BY <1>1
<1>4. IsInjective(r)
  <2> SUFFICES ASSUME NEW k \in DOMAIN r, NEW m \in DOMAIN r, r[k] = r[m]
               PROVE  k = m
    BY Zenon DEF IsInjective
  <2>1. k \in Int /\ m \in Int
    BY <1>1
  <2> QED
    BY <1>2, <1>3, <2>1
<1>5. ASSUME NEW k \in DOMAIN seq, k # i
      PROVE  seq[k] \in ToSet(r)
  <2>1. CASE k < i
    BY <1>1, <2>1 DEF ToSet
  <2>2. CASE k > i
    <3>1. k - 1 \in DOMAIN r /\ r[k - 1] = seq[k]
      BY <1>1, <2>2
    <3> QED
      BY <3>1, Zenon DEF ToSet
  <2> QED
    BY <2>1, <2>2, <1>5
<1>6. ToSet(r) = ToSet(seq) \ {seq[i]}
  BY <1>2, <1>3, <1>5 DEF ToSet
<1> QED
  BY <1>4, <1>6, Zenon DEF r

\* A list to which a newcomer is appended.
LEMMA AppendAdds ==
  ASSUME NEW S, NEW seq \in Seq(S), NEW e \in S
  PROVE  /\ Append(seq, e) \in Seq(S)
         /\ ToSet(Append(seq, e)) = ToSet(seq) \cup {e}
         /\ IsInjective(seq) /\ e \notin ToSet(seq) => IsInjective(Append(seq, e))
<1> DEFINE r == Append(seq, e)
<1>1. /\ r \in Seq(S) /\ Len(r) = Len(seq) + 1 /\ r[Len(seq) + 1] = e
      /\ \A k \in 1..Len(seq) : r[k] = seq[k]
  OBVIOUS
<1> HIDE DEF r
<1>2. ToSet(r) = ToSet(seq) \cup {e}
  BY <1>1 DEF ToSet
<1>3. IsInjective(seq) /\ e \notin ToSet(seq) => IsInjective(r)
  BY <1>1 DEF ToSet, IsInjective
<1> QED
  BY <1>1, <1>2, <1>3, Zenon DEF r

\* The first of different entries goes.
LEMMA TailLeaves ==
  ASSUME NEW S, NEW seq \in Seq(S), seq # << >>, IsInjective(seq)
  PROVE  /\ Tail(seq) \in Seq(S)
         /\ Len(Tail(seq)) = Len(seq) - 1
         /\ IsInjective(Tail(seq))
         /\ ToSet(Tail(seq)) = ToSet(seq) \ {Head(seq)}
<1> DEFINE r == Tail(seq)
<1>1. /\ r \in Seq(S) /\ Len(r) = Len(seq) - 1 /\ Head(seq) = seq[1]
      /\ \A k \in 1..(Len(seq) - 1) : r[k] = seq[k + 1]
      /\ Len(seq) \in Nat \ {0} /\ DOMAIN seq = 1..Len(seq) /\ DOMAIN r = 1..(Len(seq) - 1)
  OBVIOUS
<1>2. \A k, m \in DOMAIN seq : seq[k] = seq[m] => k = m
  BY Zenon DEF IsInjective
<1> HIDE DEF r
<1>3. ASSUME NEW k \in DOMAIN r
      PROVE  k + 1 \in DOMAIN seq /\ k + 1 # 1 /\ r[k] = seq[k + 1]
  BY <1>1
<1>4. IsInjective(r)
  <2> SUFFICES ASSUME NEW k \in DOMAIN r, NEW m \in DOMAIN r, r[k] = r[m]
               PROVE  k = m
    BY Zenon DEF IsInjective
  <2>1. k + 1 = m + 1
    BY <1>2, <1>3, Zenon
  <2> QED
    BY <1>1, <2>1
<1>5. ASSUME NEW k \in DOMAIN seq, k # 1
      PROVE  k - 1 \in DOMAIN r /\ r[k - 1] = seq[k]
  BY <1>1, <1>5
<1>6. 1 \in DOMAIN seq
  BY <1>1
<1>7. ToSet(r) \subseteq ToSet(seq) \ {seq[1]}
  BY <1>2, <1>3, <1>6 DEF ToSet
<1>8. ToSet(seq) \ {seq[1]} \subseteq ToSet(r)
  BY <1>5 DEF ToSet
<1> QED
  BY <1>1, <1>4, <1>7, <1>8, Zenon DEF r

-----------------------------------------------------------------------------
(* Snapshots.                                                              *)

\* A snapshot lists nobody twice, because the table lists nobody twice.
LEMMA SnapshotProper ==
  ASSUME TypeOK, TableExact, OwnList, NEW p \in Publishers, NEW snap \in Snapshots(p)
  PROVE  snap \in Seq(Seq(Streams)) /\ Proper(snap)
<1> DEFINE T == {t \in Matched[p] \cap Patterns : table[t] # << >>}
<1>1. PICK order \in SetToSeqs(T) : snap = [i \in DOMAIN order |-> table[order[i]]]
  BY Zenon DEF Snapshots
<1>2. /\ order \in [1..Cardinality(T) -> T]
      /\ \A i, k \in 1..Cardinality(T) : i # k => order[i] # order[k]
  BY Zenon DEF SetToSeqs
<1>3. IsFiniteSet(T) /\ Cardinality(T) \in Nat
  <2>1. IsFiniteSet(Patterns)
    <3>1. Pattern \in Surjection(Streams, Patterns)
      BY BusAssumption, Zenon DEF Surjection, Patterns, Range
    <3> QED
      BY <3>1, BusAssumption, FS_Surjection, Zenon
  <2> QED
    BY <2>1, FS_Subset, BusAssumption, FS_CardinalityType
<1> DEFINE n == Cardinality(T)
<1> HIDE DEF T, n
<1>4. /\ DOMAIN snap = 1..n
      /\ \A i \in 1..n : order[i] \in Patterns /\ snap[i] = table[order[i]] /\ snap[i] # << >>
  BY <1>1, <1>2, Zenon DEF T, n
<1>5. snap \in Seq(Seq(Streams))
  <2>1. n \in Nat
    BY <1>3, Zenon DEF n
  <2>2. snap \in [1..n -> Seq(Streams)]
    BY <1>1, <1>2, <1>4 DEF TypeOK, n
  <2> QED
    BY <2>1, <2>2
<1>6. \A i \in DOMAIN snap : snap[i] # << >> /\ IsInjective(snap[i])
  BY <1>4, Zenon DEF TableExact
<1>7. ASSUME NEW i \in DOMAIN snap, NEW k \in DOMAIN snap, i # k
      PROVE  ToSet(snap[i]) \cap ToSet(snap[k]) = {}
  <2>1. order[i] # order[k]
    BY <1>2, <1>4, <1>7 DEF n
  <2> QED
    BY <1>4, <2>1 DEF OwnList, ToSet
<1> QED
  BY <1>5, <1>6, <1>7, Zenon DEF Proper

\* One turn of the delivery loop takes one subscriber out of the snapshot.
LEMMA RestProper ==
  ASSUME NEW snap \in Seq(Seq(Streams)), Proper(snap), snap # << >>
  PROVE  /\ Rest(snap) \in Seq(Seq(Streams)) /\ Proper(Rest(snap))
         /\ Head(Head(snap)) \in Members(snap)
         /\ Members(Rest(snap)) = Members(snap) \ {Head(Head(snap))}
<1> DEFINE l == snap[1]
           s == l[1]
<1>1. /\ Head(snap) = l /\ l \in Seq(Streams) /\ l # << >> /\ Len(l) \in Nat \ {0}
      /\ Head(l) = s /\ s \in Streams /\ DOMAIN l = 1..Len(l)
      /\ 1 \in DOMAIN snap /\ DOMAIN snap = 1..Len(snap) /\ Len(snap) \in Nat
  BY DEF Proper
<1>2. IsInjective(l)
  BY <1>1, Zenon DEF Proper
<1>3. s \in ToSet(l)
  <2>1. 1 \in DOMAIN l
    BY <1>1
  <2> QED
    BY <2>1, Zenon DEF ToSet
<1>4. /\ Tail(l) \in Seq(Streams) /\ Len(Tail(l)) = Len(l) - 1
      /\ IsInjective(Tail(l)) /\ ToSet(Tail(l)) = ToSet(l) \ {s}
  BY <1>1, <1>2, TailLeaves, Zenon
<1>5. \A i \in DOMAIN snap : i # 1 => s \notin ToSet(snap[i])
  BY <1>1, <1>3, Zenon DEF Proper
<1>6. s \in Members(snap)
  BY <1>1, <1>3, Zenon DEF Members
<1>7. CASE Len(l) = 1
  <2> DEFINE r == Tail(snap)
  <2>1. Rest(snap) = r
    BY <1>1, <1>7, Zenon DEF Rest
  <2>2. r \in Seq(Seq(Streams)) /\ DOMAIN r = 1..(Len(snap) - 1)
    BY <1>1
  <2>3. ASSUME NEW i \in DOMAIN r
        PROVE  i + 1 \in DOMAIN snap /\ i + 1 # 1 /\ r[i] = snap[i + 1]
    BY <1>1, <2>2
  <2>4. ASSUME NEW i \in DOMAIN snap, i # 1
        PROVE  i - 1 \in DOMAIN r /\ r[i - 1] = snap[i]
    BY <1>1, <2>2, <2>4
  <2>5. ToSet(l) = {s}
    BY <1>1, <1>7 DEF ToSet
  <2> HIDE DEF r, l, s
  <2>6. \A i \in DOMAIN r : r[i] # << >> /\ IsInjective(r[i])
    BY <2>3, Zenon DEF Proper
  <2>7. ASSUME NEW i \in DOMAIN r, NEW k \in DOMAIN r, i # k
        PROVE  ToSet(r[i]) \cap ToSet(r[k]) = {}
    <3>1. i + 1 # k + 1
      BY <1>1, <2>2, <2>7
    <3> QED
      BY <2>3, <3>1, Zenon DEF Proper
  <2>8. Members(r) \subseteq Members(snap) \ {s}
    BY <1>5, <2>3, Zenon DEF Members
  <2>9. Members(snap) \ {s} \subseteq Members(r)
    <3> SUFFICES ASSUME NEW x \in Members(snap), x # s
                 PROVE  x \in Members(r)
      BY Zenon
    <3>1. PICK i \in DOMAIN snap : x \in ToSet(snap[i])
      BY Zenon DEF Members
    <3>2. i # 1
      BY <2>5, <3>1, Zenon DEF l
    <3> QED
      BY <2>4, <3>1, <3>2, Zenon DEF Members
  <2> QED
    BY <1>1, <1>6, <2>1, <2>2, <2>6, <2>7, <2>8, <2>9, ZenonT(30) DEF Proper
<1>8. CASE Len(l) # 1
  <2> DEFINE r == [snap EXCEPT ![1] = Tail(l)]
  <2>1. Rest(snap) = r
    BY <1>1, <1>8, Zenon DEF Rest
  <2>2. /\ r \in Seq(Seq(Streams)) /\ DOMAIN r = DOMAIN snap /\ r[1] = Tail(l)
        /\ \A i \in DOMAIN snap : i # 1 => r[i] = snap[i]
    BY <1>1, <1>4
  <2>3. Tail(l) # << >>
    <3>1. Len(Tail(l)) # 0
      BY <1>1, <1>4, <1>8
    <3> QED
      BY <3>1, EmptySeq, Zenon
  <2> HIDE DEF r, s
  <2>4. \A i \in DOMAIN r : r[i] # << >> /\ IsInjective(r[i]) /\ ToSet(r[i]) = ToSet(snap[i]) \ {s}
    <3>1. r[1] # << >> /\ IsInjective(r[1]) /\ ToSet(r[1]) = ToSet(snap[1]) \ {s}
      BY <1>4, <2>2, <2>3, Zenon
    <3>2. ASSUME NEW i \in DOMAIN snap, i # 1
          PROVE  r[i] # << >> /\ IsInjective(r[i]) /\ ToSet(r[i]) = ToSet(snap[i]) \ {s}
      BY <1>5, <2>2, <3>2, Zenon DEF Proper
    <3> QED
      BY <2>2, <3>1, <3>2, Zenon
  <2>5. Proper(r)
    BY <2>2, <2>4, Zenon DEF Proper
  <2>6. Members(r) = Members(snap) \ {s}
    BY <2>2, <2>4 DEF Members
  <2> QED
    BY <1>1, <1>6, <2>1, <2>2, <2>5, <2>6, ZenonT(30)
<1> QED
  BY <1>7, <1>8, Zenon

-----------------------------------------------------------------------------
(* Publishers, one lemma for each step.                                    *)

\* The events ahead of a new one are older; its snapshot is a proper one.
LEMMA PublishKeeps ==
  ASSUME IInv, NEW p \in Publishers, Publish(p)
  PROVE  IInv'
<1>1. TypeOK /\ TableInv /\ SnapInv /\ AheadInv /\ InOrderOnce
  BY Zenon DEF IInv
<1>2. PICK snap \in Snapshots(p) : todo' = [todo EXCEPT ![p] = snap]
  BY Zenon DEF Publish
<1>3. snap \in Seq(Seq(Streams)) /\ Proper(snap)
  BY <1>1, SnapshotProper, Zenon DEF TableInv
<1>4. /\ count' = [count EXCEPT ![p] = @ + 1]
      /\ UNCHANGED <<lineup, table, loop, chan, quit, cancelled, stalled, wire, tally, stats>>
      /\ todo[p] = Idle
  BY Zenon DEF Publish
<1>5. count[p] \in Nat /\ count'[p] = count[p] + 1 /\ \A q \in Publishers : q # p => count'[q] = count[q]
  BY <1>1, <1>4, Zenon DEF TypeOK
<1>6. todo'[p] = snap /\ \A q \in Publishers : q # p => todo'[q] = todo[q]
  BY <1>1, <1>2, Zenon DEF TypeOK
<1>7. TypeOK'
  <2>1. (count \in [Publishers -> Nat] /\ todo \in [Publishers -> Seq(Seq(Streams))])'
    BY <1>1, <1>2, <1>3, <1>4 DEF TypeOK
  <2>2. (\A s \in Streams, q \in Publishers : \A i \in DOMAIN wire[s][q] : wire[s][q][i] \in 1..count[q])'
    BY <1>1, <1>4, <1>5, SMTT(30) DEF TypeOK
  <2> QED
    BY <1>1, <1>4, <2>1, <2>2, ZenonT(30) DEF TypeOK
<1>8. TableInv' /\ InOrderOnce'
  BY <1>1, <1>4 DEF TableInv, QuitClosedOnce, TableExact, OwnList, NotBegun, InOrderOnce, Listed
<1>9. SnapInv'
  <2>1. tally[p] = Zero
    BY <1>1, <1>4 DEF SnapInv, Proper, Idle
  <2>2. Cardinality(Members(snap)) <= Cardinality(Streams) /\ Cardinality(Members(snap)) \in Nat
    BY BusAssumption, FS_Subset, FS_CardinalityType DEF Members
  <2> QED
    BY <1>1, <1>3, <1>4, <1>5, <1>6, <2>1, <2>2, SMTT(30) DEF SnapInv, Zero
<1>10. AheadInv'
  <2> SUFFICES ASSUME NEW s \in Streams, NEW q \in Publishers
               PROVE  /\ UpTo(s, q, count[q])'
                      /\ (s \in Members(todo[q]) => UpTo(s, q, count[q] - 1))'
    BY Zenon DEF AheadInv
  <2>1. CASE q = p
    <3>1. UpTo(s, q, count[q])
      BY <1>1, Zenon DEF AheadInv
    <3>2. UpTo(s, q, count[q] + 1)
      BY <1>1, <1>5, <2>1, <3>1, SMTT(30) DEF UpTo, TypeOK
    <3>3. count'[q] = count[q] + 1 /\ count'[q] - 1 = count[q]
      BY <1>5, <2>1
    <3> QED
      BY <1>4, <3>1, <3>2, <3>3, ZenonT(30) DEF UpTo
  <2>2. CASE q # p
    BY <1>1, <1>4, <1>5, <1>6, <2>2, ZenonT(30) DEF AheadInv, UpTo
  <2> QED
    BY <2>1, <2>2
<1> QED
  BY <1>7, <1>8, <1>9, <1>10, ZenonT(30) DEF IInv

\* A publisher that has begun counts what it has not ahead any more.
LEMMA Busy ==
  ASSUME IInv, NEW p \in Publishers, todo[p] # Idle
  PROVE  /\ Proper(todo[p]) /\ count[p] > 0 /\ count[p] \in Nat
         /\ todo[p] \in Seq(Seq(Streams))
         /\ tally[p].delivered + tally[p].dropped + Cardinality(Members(todo[p]))
               <= Cardinality(Streams)
BY Zenon DEF IInv, TypeOK, SnapInv

\* The response resets the publisher.
LEMMA PublishesKeeps ==
  ASSUME IInv, NEW p \in Publishers, Publishes(p)
  PROVE  IInv'
<1>1. TypeOK /\ TableInv /\ SnapInv /\ AheadInv /\ InOrderOnce
  BY Zenon DEF IInv
<1>2. UNCHANGED <<lineup, table, loop, chan, quit, cancelled, stalled, wire, count>>
  BY Zenon DEF Publishes
<1>3. TypeOK'
  <2>1. (tally \in [Publishers -> Counts])' /\ (stats \in Counts)'
    BY <1>1 DEF Publishes, TypeOK, Counts, Zero
  <2>2. (todo \in [Publishers -> Seq(Seq(Streams))])'
    BY <1>1 DEF Publishes, TypeOK, Idle
  <2>3. (\A q \in Publishers : tally[q].delivered + tally[q].dropped <= Cardinality(Streams))'
    BY <1>1, BusAssumption, FS_CardinalityType, SMTT(30) DEF Publishes, TypeOK, Zero
  <2> QED
    BY <1>1, <1>2, <2>1, <2>2, <2>3, ZenonT(30) DEF TypeOK
<1>4. TableInv' /\ InOrderOnce'
  BY <1>1, <1>2 DEF TableInv, QuitClosedOnce, TableExact, OwnList, NotBegun, InOrderOnce, Listed
<1>5. SnapInv'
  BY <1>1, <1>2, ZenonT(30) DEF SnapInv, Publishes, TypeOK
<1>6. AheadInv'
  <2>1. Members(Idle) = {}
    BY DEF Members, ToSet, Idle
  <2>2. todo'[p] = Idle /\ \A q \in Publishers : q # p => todo'[q] = todo[q]
    BY <1>1, Zenon DEF Publishes, TypeOK
  <2> QED
    BY <1>1, <1>2, <2>1, <2>2, SMTT(30) DEF AheadInv, UpTo
<1> QED
  BY <1>3, <1>4, <1>5, <1>6, ZenonT(30) DEF IInv

\* The numbers on the wire.
LEMMA SentAre ==
  ASSUME TypeOK, NEW s \in Streams, NEW p \in Publishers, NEW i \in DOMAIN wire[s][p]
  PROVE  wire[s][p][i] \in 1..count[p] /\ wire[s][p][i] \in Nat /\ count[p] \in Nat
<1>1. wire[s][p][i] \in 1..count[p] /\ count[p] \in Nat
  BY Zenon DEF TypeOK
<1> QED
  BY <1>1

\* What a turn of the delivery loop does to the snapshot and to the counts.
LEMMA DeliverTurn ==
  ASSUME IInv, NEW p \in Publishers, Deliver(p), NEW s, s = Head(Head(todo[p]))
  PROVE  /\ s \in Streams /\ s \in Members(todo[p]) /\ s \notin Members(todo'[p])
         /\ (todo \in [Publishers -> Seq(Seq(Streams))])'
         /\ \A q \in Publishers : Members(todo'[q]) \subseteq Members(todo[q])
         /\ (tally \in [Publishers -> Counts])'
         /\ (\A q \in Publishers : tally[q].delivered + tally[q].dropped <= Cardinality(Streams))'
         /\ SnapInv'
<1>1. TypeOK /\ SnapInv
  BY Zenon DEF IInv
<1>2. /\ todo[p] \in Seq(Seq(Streams)) /\ Proper(todo[p]) /\ todo[p] # << >>
      /\ count[p] > 0
      /\ tally[p].delivered + tally[p].dropped + Cardinality(Members(todo[p]))
            <= Cardinality(Streams)
  BY Busy, Zenon DEF Deliver
<1>3. /\ Rest(todo[p]) \in Seq(Seq(Streams)) /\ Proper(Rest(todo[p]))
      /\ s \in Members(todo[p]) /\ Members(Rest(todo[p])) = Members(todo[p]) \ {s}
  BY <1>2, RestProper, Zenon
<1>4. s \in Streams
  BY <1>3, Zenon DEF Members
<1>5. todo'[p] = Rest(todo[p]) /\ \A q \in Publishers : q # p => todo'[q] = todo[q]
  BY <1>1, Zenon DEF Deliver, TypeOK
<1>6. (todo \in [Publishers -> Seq(Seq(Streams))])'
  BY <1>1, <1>3, Zenon DEF Deliver, TypeOK
<1>7. \A q \in Publishers : Members(todo'[q]) \subseteq Members(todo[q])
  BY <1>3, <1>5, Zenon
<1>8. /\ Cardinality(Members(todo[p])) \in Nat /\ Cardinality(Members(todo'[p])) \in Nat
      /\ Cardinality(Members(todo'[p])) = Cardinality(Members(todo[p])) - 1
  <2>1. IsFiniteSet(Members(todo[p]))
    BY BusAssumption, FS_Subset, Zenon DEF Members
  <2>2. IsFiniteSet(Members(todo[p]) \ {s})
        /\ Cardinality(Members(todo[p]) \ {s}) = Cardinality(Members(todo[p])) - 1
    BY <1>3, <2>1, FS_RemoveElement, ZenonT(30)
  <2>3. Members(todo'[p]) = Members(todo[p]) \ {s}
    BY <1>3, <1>5, ZenonT(30)
  <2> QED
    BY <2>1, <2>2, <2>3, FS_CardinalityType, ZenonT(30)
<1>9. /\ tally'[p] \in Counts
      /\ tally'[p].delivered + tally'[p].dropped <= tally[p].delivered + tally[p].dropped + 1
      /\ \A q \in Publishers : q # p => tally'[q] = tally[q]
      /\ (tally \in [Publishers -> Counts])'
  <2>1. tally \in [Publishers -> Counts] /\ tally[p].delivered \in Nat /\ tally[p].dropped \in Nat
    BY <1>1, Zenon DEF TypeOK, Counts
  <2>2. \/ tally' = tally
        \/ tally' = [tally EXCEPT ![p].delivered = @ + 1]
        \/ tally' = [tally EXCEPT ![p].dropped = @ + 1]
    BY Zenon DEF Deliver
  <2> QED
    BY <2>1, <2>2 DEF Counts
<1>10. /\ tally'[p].delivered + tally'[p].dropped + Cardinality(Members(todo'[p]))
              <= Cardinality(Streams)
       /\ tally'[p].delivered + tally'[p].dropped <= Cardinality(Streams)
  <2>1. Cardinality(Streams) \in Nat
    BY BusAssumption, FS_CardinalityType, Zenon
  <2>2. /\ tally[p].delivered \in Nat /\ tally[p].dropped \in Nat
        /\ tally'[p].delivered \in Nat /\ tally'[p].dropped \in Nat
    BY <1>1, <1>9, Zenon DEF TypeOK, Counts
  <2> DEFINE sum == tally[p].delivered + tally[p].dropped
             sum1 == tally'[p].delivered + tally'[p].dropped
             left == Cardinality(Members(todo[p]))
             left1 == Cardinality(Members(todo'[p]))
             max == Cardinality(Streams)
  <2>3. sum \in Nat /\ sum1 \in Nat
    BY <2>2
  <2>4. left \in Nat /\ left1 \in Nat /\ left1 = left - 1 /\ max \in Nat
    BY <1>8, <2>1, Zenon
  <2>5. sum + left <= max /\ sum1 <= sum + 1
    BY <1>2, <1>9, Zenon
  <2>6. sum1 + left1 <= max /\ sum1 <= max
    <3> HIDE DEF sum, sum1, left, left1, max
    <3> QED
      BY <2>3, <2>4, <2>5
  <2> QED
    BY <2>6, Zenon
<1>11. SnapInv'
  <2> SUFFICES ASSUME NEW q \in Publishers
               PROVE  (\/ todo[q] = Idle /\ tally[q] = Zero
                       \/ /\ Proper(todo[q]) /\ count[q] > 0
                          /\ tally[q].delivered + tally[q].dropped + Cardinality(Members(todo[q]))
                               <= Cardinality(Streams))'
    BY Zenon DEF SnapInv
  <2>1. UNCHANGED count
    BY Zenon DEF Deliver
  <2>2. CASE q # p
    BY <1>1, <1>5, <1>9, <2>1, <2>2, ZenonT(30) DEF SnapInv
  <2>3. CASE q = p
    BY <1>2, <1>3, <1>5, <1>10, <2>1, <2>3, ZenonT(30)
  <2> QED
    BY <2>2, <2>3, Zenon
<1>12. (\A q \in Publishers : tally[q].delivered + tally[q].dropped <= Cardinality(Streams))'
  <2> SUFFICES ASSUME NEW q \in Publishers
               PROVE  tally'[q].delivered + tally'[q].dropped <= Cardinality(Streams)
    BY Zenon
  <2>1. CASE q # p
    BY <1>1, <1>9, <2>1, Zenon DEF TypeOK
  <2>2. CASE q = p
    BY <1>10, <2>2, Zenon
  <2> QED
    BY <2>1, <2>2, Zenon
<1> QED
  BY <1>3, <1>4, <1>5, <1>6, <1>7, <1>9, <1>11, <1>12, ZenonT(30)

\* A channel takes the event that is published; the stream was ahead, so what
\* it had was older.
LEMMA QueueInOrder ==
  ASSUME IInv, NEW p \in Publishers, NEW s \in Streams, NEW n, n = count[p],
         todo[p] # Idle, s \in Members(todo[p]),
         UNCHANGED <<wire, count>>, Len(chan[s]) < QueueSize,
         chan' = [chan EXCEPT ![s] = Append(@, <<p, n>>)],
         s \notin Members(todo'[p]),
         \A q \in Publishers : Members(todo'[q]) \subseteq Members(todo[q])
  PROVE  /\ (chan \in [Streams -> Seq(Events)])'
         /\ (\A x \in Streams : Len(chan[x]) <= QueueSize)'
         /\ AheadInv' /\ InOrderOnce'
<1>1. TypeOK /\ AheadInv /\ InOrderOnce
  BY Zenon DEF IInv
<1>2. PICK c \in Seq(Events) : c = chan[s]
  BY <1>1, Zenon DEF TypeOK
<1>3. n \in Nat /\ <<p, n>> \in Events
  BY <1>1, Zenon DEF TypeOK, Events
<1>4. PICK d \in Seq(Events) : d = Append(c, <<p, n>>)
  BY <1>3, AppendProperties, ZenonT(30)
<1>5. /\ Len(c) \in Nat /\ Len(d) = Len(c) + 1
      /\ DOMAIN c = 1..Len(c) /\ DOMAIN d = 1..(Len(c) + 1)
      /\ d[Len(c) + 1] = <<p, n>>
      /\ \A k \in DOMAIN c : d[k] = c[k] /\ k < Len(c) + 1
      /\ \A k \in DOMAIN d : k \in DOMAIN c \/ k = Len(c) + 1
  BY <1>3, <1>4
<1>6. chan' = [chan EXCEPT ![s] = d]
  BY <1>2, <1>4, Zenon
<1>7. chan'[s] = d /\ \A x \in Streams : x # s => chan'[x] = chan[x]
  BY <1>1, <1>6, Zenon DEF TypeOK
<1>8. (chan \in [Streams -> Seq(Events)])'
  BY <1>1, <1>4, <1>6, SMTT(30) DEF TypeOK
<1>9. (\A x \in Streams : Len(chan[x]) <= QueueSize)'
  BY <1>1, <1>2, <1>5, <1>7, BusAssumption, SMTT(30) DEF TypeOK
<1>10. UpTo(s, p, n - 1)
  BY <1>1, Zenon DEF AheadInv
<1>11. AheadInv'
  <2> SUFFICES ASSUME NEW x \in Streams, NEW q \in Publishers
               PROVE  /\ UpTo(x, q, count[q])'
                      /\ (x \in Members(todo[q]) => UpTo(x, q, count[q] - 1))'
    BY Zenon DEF AheadInv
  <2>1. UpTo(x, q, count[q]) /\ (x \in Members(todo[q]) => UpTo(x, q, count[q] - 1))
    BY <1>1, Zenon DEF AheadInv
  <2>2. CASE x # s
    BY <1>7, <2>1, <2>2, Zenon DEF UpTo
  <2>3. CASE x = s /\ q # p
    <3>1. \A k \in DOMAIN d : d[k][1] = q => k \in DOMAIN c
      BY <1>5, <2>3
    <3> QED
      <4>1. chan'[x] = d /\ wire'[x] = wire[x] /\ count'[q] = count[q] /\ chan[x] = c
        BY <1>2, <1>7, <2>3
      <4>2. \A k \in DOMAIN d : d[k][1] = q => c[k][1] = q /\ d[k][2] = c[k][2]
        BY <1>5, <3>1
      <4>3. \A m : UpTo(x, q, m) => \A k \in DOMAIN d : d[k][1] = q => d[k][2] \in 1..m
        BY <3>1, <4>1, <4>2 DEF UpTo
      <4>4. x \in Members(todo'[q]) => x \in Members(todo[q])
        BY Zenon
      <4> QED
        BY <2>1, <2>3, <3>1, <4>1, <4>2, <4>3, <4>4, ZenonT(30) DEF UpTo
  <2>4. CASE x = s /\ q = p
    <3>1. n \in 1..n
      BY <1>3, Busy
    <3> QED
      BY <1>2, <1>5, <1>7, <2>1, <2>4, <3>1, SMTT(30) DEF UpTo
  <2> QED
    BY <2>2, <2>3, <2>4, Zenon
<1>12. InOrderOnce'
  <2> SUFFICES ASSUME NEW x \in Streams, NEW q \in Publishers
               PROVE  (/\ \A i, k \in DOMAIN wire[x][q] : i < k => wire[x][q][i] < wire[x][q][k]
                       /\ \A i, k \in DOMAIN chan[x] :
                             i < k /\ chan[x][i][1] = q /\ chan[x][k][1] = q =>
                               chan[x][i][2] < chan[x][k][2]
                       /\ \A i \in DOMAIN wire[x][q], k \in DOMAIN chan[x] :
                             chan[x][k][1] = q => wire[x][q][i] < chan[x][k][2])'
    BY ZenonT(30) DEF InOrderOnce
  <2>1. CASE x # s
    BY <1>1, <1>7, <2>1 DEF InOrderOnce
  <2>2. CASE x = s
    <3>1. ASSUME NEW k \in DOMAIN c, c[k][1] = p
          PROVE  c[k][2] < n
      BY <1>2, <1>3, <1>10, <3>1, SMTT(30) DEF UpTo
    <3>2. ASSUME NEW i \in DOMAIN wire[s][p]
          PROVE  wire[s][p][i] < n
      <4>1. wire[s][p][i] \in Nat /\ wire[s][p][i] <= n - 1
        BY <1>1, <1>10, SentAre, Zenon DEF UpTo
      <4> QED
        BY <1>3, <4>1
    <3>3. ASSUME NEW i \in DOMAIN d, NEW k \in DOMAIN d, i < k, d[i][1] = q, d[k][1] = q
          PROVE  d[i][2] < d[k][2]
      <4>1. i \in DOMAIN c
        BY <1>5, <3>3
      <4>2. CASE k \in DOMAIN c
        BY <1>1, <1>2, <1>5, <3>3, <4>1, <4>2, SMTT(30) DEF InOrderOnce
      <4>3. CASE k = Len(c) + 1
        BY <1>5, <3>1, <3>3, <4>1, <4>3, SMTT(30)
      <4> QED
        BY <1>5, <4>2, <4>3, ZenonT(30)
    <3>4. ASSUME NEW i \in DOMAIN wire[s][q], NEW k \in DOMAIN d, d[k][1] = q
          PROVE  wire[s][q][i] < d[k][2]
      <4>1. CASE k \in DOMAIN c
        BY <1>1, <1>2, <1>5, <3>4, <4>1, ZenonT(30) DEF InOrderOnce
      <4>2. CASE k = Len(c) + 1
        BY <1>5, <3>2, <3>4, <4>2, SMTT(30)
      <4> QED
        BY <1>5, <4>1, <4>2, ZenonT(30)
    <3> QED
      <4>1. chan'[x] = d /\ wire'[x] = wire[s]
        BY <1>7, <2>2, Zenon
      <4>2. \A i, k \in DOMAIN wire[s][q] : i < k => wire[s][q][i] < wire[s][q][k]
        BY <1>1, Zenon DEF InOrderOnce
      <4> QED
        BY <3>3, <3>4, <4>1, <4>2, ZenonT(30)
  <2> QED
    BY <2>1, <2>2, Zenon
<1> QED
  BY <1>8, <1>9, <1>11, <1>12, ZenonT(30)

\* One turn of the delivery loop.
LEMMA DeliverKeeps ==
  ASSUME IInv, NEW p \in Publishers, Deliver(p)
  PROVE  IInv'
<1>1. TypeOK /\ TableInv /\ SnapInv /\ AheadInv /\ InOrderOnce
  BY Zenon DEF IInv
<1>2. PICK s : s = Head(Head(todo[p]))
  BY Zenon
<1>3. /\ s \in Streams /\ s \in Members(todo[p]) /\ s \notin Members(todo'[p])
      /\ (todo \in [Publishers -> Seq(Seq(Streams))])'
      /\ \A q \in Publishers : Members(todo'[q]) \subseteq Members(todo[q])
      /\ (tally \in [Publishers -> Counts])'
      /\ (\A q \in Publishers : tally[q].delivered + tally[q].dropped <= Cardinality(Streams))'
      /\ SnapInv'
  BY <1>2, DeliverTurn, Zenon
<1>4. UNCHANGED <<lineup, table, loop, quit, cancelled, stalled, wire, count, stats>>
  BY Zenon DEF Deliver
<1>5. TableInv'
  BY <1>1, <1>4, Zenon DEF TableInv, QuitClosedOnce, TableExact, OwnList, NotBegun, Listed
<1>6. /\ (chan \in [Streams -> Seq(Events)])'
      /\ (\A x \in Streams : Len(chan[x]) <= QueueSize)'
      /\ AheadInv' /\ InOrderOnce'
  <2>1. CASE UNCHANGED chan
    <3>1. /\ (chan \in [Streams -> Seq(Events)])'
          /\ (\A x \in Streams : Len(chan[x]) <= QueueSize)'
      BY <1>1, <2>1, ZenonT(30) DEF TypeOK
    <3>2. AheadInv' /\ InOrderOnce'
      BY <1>1, <1>3, <1>4, <2>1, SMTT(30) DEF AheadInv, InOrderOnce, UpTo
    <3> QED
      BY <3>1, <3>2, Zenon
  <2>2. CASE Len(chan[s]) < QueueSize /\ chan' = [chan EXCEPT ![s] = Append(@, <<p, count[p]>>)]
    <3>1. todo[p] # Idle
      BY Zenon DEF Deliver
    <3> QED
      BY <1>3, <1>4, <2>2, <3>1, QueueInOrder, ZenonT(30)
  <2> QED
    BY <1>2, <2>1, <2>2, ZenonT(30) DEF Deliver
<1>7. TypeOK'
  BY <1>1, <1>3, <1>4, <1>6, ZenonT(30) DEF TypeOK
<1> QED
  BY <1>3, <1>5, <1>6, <1>7, ZenonT(30) DEF IInv

-----------------------------------------------------------------------------
(* The steps of the streams.                                               *)

\* A stream and its client's calls touch no publisher; without Receive, no event.
LEMMA StreamsOnly ==
  ASSUME IInv, UNCHANGED <<chan, wire, count, todo, tally>>
  PROVE  SnapInv' /\ AheadInv' /\ InOrderOnce'
BY DEF IInv, SnapInv, AheadInv, InOrderOnce, UpTo

\* Who is listed is listed under its own pattern.
LEMMA ListedIs ==
  ASSUME TypeOK, OwnList, NEW x \in Streams
  PROVE  x \in Listed <=> x \in ToSet(table[Pattern[x]])
<1>1. Pattern[x] \in Patterns
  BY BusAssumption, Zenon DEF Patterns, Range
<1>2. ASSUME NEW t \in Patterns, x \in ToSet(table[t])
      PROVE  t = Pattern[x]
  BY <1>2, Zenon DEF OwnList, ToSet
<1> QED
  BY <1>1, <1>2, ZenonT(30) DEF Listed

\* What a new list l for the pattern of stream s does to the table.
LEMMA TableStep ==
  ASSUME IInv, NEW s \in Streams, NEW l, l \in Seq(Streams), IsInjective(l),
         ToSet(l) \subseteq ToSet(table[Pattern[s]]) \cup {s},
         table' = [table EXCEPT ![Pattern[s]] = l]
  PROVE  /\ (table \in [Patterns -> Seq(Streams)])'
         /\ (\A t \in Patterns : IsInjective(table[t]))'
         /\ OwnList' /\ Listed' \subseteq Streams
         /\ \A x \in Streams : x \in Listed' <=>
               IF Pattern[x] = Pattern[s] THEN x \in ToSet(l) ELSE x \in Listed
<1>1. TypeOK /\ TableExact /\ OwnList
  BY Zenon DEF IInv, TableInv
<1>2. Pattern[s] \in Patterns
  BY BusAssumption, Zenon DEF Patterns, Range
<1>3. table \in [Patterns -> Seq(Streams)]
  BY <1>1, Zenon DEF TypeOK
<1>4. table'[Pattern[s]] = l /\ \A t \in Patterns : t # Pattern[s] => table'[t] = table[t]
  BY <1>2, <1>3, Zenon
<1>5. (table \in [Patterns -> Seq(Streams)])'
  BY <1>2, <1>3, Zenon
<1>6. (\A t \in Patterns : IsInjective(table[t]))'
  BY <1>1, <1>2, <1>4, ZenonT(30) DEF TableExact
<1>7. ASSUME NEW x \in ToSet(l)
      PROVE  Pattern[x] = Pattern[s]
  BY <1>1, <1>2, <1>7, SMTT(30) DEF OwnList, ToSet
<1>8. OwnList'
  <2> SUFFICES ASSUME NEW t \in Patterns, NEW i \in DOMAIN table'[t]
               PROVE  Pattern[table'[t][i]] = t
    BY Zenon DEF OwnList
  <2>1. CASE t = Pattern[s]
    BY <1>4, <1>7, <2>1, SMTT(30) DEF ToSet
  <2>2. CASE t # Pattern[s]
    BY <1>1, <1>4, <2>2, SMTT(30) DEF OwnList
  <2> QED
    BY <2>1, <2>2, Zenon
<1>9. ASSUME NEW x \in Streams
      PROVE  x \in Listed' <=> x \in ToSet(table'[Pattern[x]])
  <2>1. Pattern[x] \in Patterns
    BY BusAssumption, Zenon DEF Patterns, Range
  <2>2. ASSUME NEW t \in Patterns, x \in ToSet(table'[t])
        PROVE  t = Pattern[x]
    BY <1>8, <2>2 DEF OwnList, ToSet
  <2> QED
    BY <2>1, <2>2, ZenonT(30) DEF Listed
<1>10. ASSUME NEW x \in Streams
       PROVE  x \in Listed' <=> IF Pattern[x] = Pattern[s] THEN x \in ToSet(l) ELSE x \in Listed
  <2>1. Pattern[x] \in Patterns
    BY BusAssumption, Zenon DEF Patterns, Range
  <2>2. x \in Listed <=> x \in ToSet(table[Pattern[x]])
    BY <1>1, ListedIs, ZenonT(30)
  <2> QED
    BY <1>4, <1>9, <2>1, <2>2, ZenonT(30)
<1>11. Listed' \subseteq Streams
  BY <1>5 DEF Listed, ToSet
<1> QED
  BY <1>5, <1>6, <1>8, <1>10, <1>11, ZenonT(30)

\* A stream that starts is in no list.
LEMMA SubscribeKeeps ==
  ASSUME IInv, NEW s \in Streams, Subscribe(s)
  PROVE  IInv'
<1>1. TypeOK /\ QuitClosedOnce /\ TableExact /\ OwnList /\ NotBegun
  BY Zenon DEF IInv, TableInv
<1>2. PICK l : l = Append(table[Pattern[s]], s)
  BY Zenon
<1>3. table[Pattern[s]] \in Seq(Streams) /\ IsInjective(table[Pattern[s]])
  <2>1. Pattern[s] \in Patterns
    BY BusAssumption, Zenon DEF Patterns, Range
  <2> QED
    BY <1>1, <2>1, ZenonT(30) DEF TypeOK, TableExact
<1>4. s \notin ToSet(table[Pattern[s]])
  BY <1>1, ListedIs, Zenon DEF TableExact, Subscribe
<1>5. l \in Seq(Streams) /\ ToSet(l) = ToSet(table[Pattern[s]]) \cup {s} /\ IsInjective(l)
  BY <1>2, <1>3, <1>4, AppendAdds, ZenonT(30)
<1>6. /\ (table \in [Patterns -> Seq(Streams)])'
      /\ (\A t \in Patterns : IsInjective(table[t]))'
      /\ OwnList' /\ Listed' \subseteq Streams
      /\ \A x \in Streams : x \in Listed' <=>
            IF Pattern[x] = Pattern[s] THEN x \in ToSet(l) ELSE x \in Listed
  <2>1. ToSet(l) \subseteq ToSet(table[Pattern[s]]) \cup {s}
    BY <1>5, Zenon
  <2>2. table' = [table EXCEPT ![Pattern[s]] = l]
    BY <1>2, Zenon DEF Subscribe
  <2> QED
    BY <1>5, <2>1, <2>2, TableStep, Zenon
<1>7. TypeOK'
  BY <1>1, <1>6, Zenon DEF Subscribe, TypeOK
<1>8. ASSUME NEW x \in Streams
      PROVE  x \in Listed' <=> loop'[x] \notin {"off", "gone"} /\ quit'[x] = 0
  <2>1. x \in Listed <=> loop[x] \notin {"off", "gone"} /\ quit[x] = 0
    BY <1>1, Zenon DEF TableExact
  <2>2. x \in Listed <=> x \in ToSet(table[Pattern[x]])
    BY <1>1, ListedIs, Zenon
  <2>3. CASE x = s
    BY <1>1, <1>5, <1>6, <2>3, ZenonT(30) DEF Subscribe, TypeOK, NotBegun
  <2>4. CASE x # s
    <3>1. x \in Listed' <=> x \in Listed
      BY <1>5, <1>6, <2>2, <2>4, ZenonT(30)
    <3>2. loop'[x] = loop[x] /\ quit'[x] = quit[x]
      BY <1>1, <2>4, Zenon DEF Subscribe, TypeOK
    <3> QED
      BY <2>1, <3>1, <3>2, ZenonT(30)
  <2> QED
    BY <2>3, <2>4, Zenon
<1>9. TableExact'
  BY <1>6, <1>8, Zenon DEF TableExact
<1>10. QuitClosedOnce' /\ NotBegun'
  BY <1>1, Zenon DEF QuitClosedOnce, NotBegun, Subscribe, TypeOK
<1> QED
  BY <1>6, <1>7, <1>9, <1>10, StreamsOnly, ZenonT(30) DEF IInv, TableInv, Subscribe

\* What is left of the table when s is taken out of its list.
LEMMA RemovedFrom ==
  ASSUME IInv, NEW s \in Streams, NEW i \in DOMAIN table[Pattern[s]],
         table[Pattern[s]][i] = s,
         table' = [table EXCEPT ![Pattern[s]] = RemoveAt(@, i)]
  PROVE  /\ (table \in [Patterns -> Seq(Streams)])'
         /\ (\A t \in Patterns : IsInjective(table[t]))'
         /\ OwnList' /\ Listed' \subseteq Streams /\ s \in Listed
         /\ \A x \in Streams : x \in Listed' <=> x # s /\ x \in Listed
<1>1. TypeOK /\ TableExact /\ OwnList
  BY Zenon DEF IInv, TableInv
<1>2. Pattern[s] \in Patterns
  BY BusAssumption, Zenon DEF Patterns, Range
<1>3. PICK l \in Seq(Streams) : l = table[Pattern[s]] /\ IsInjective(l)
  BY <1>1, <1>2, Zenon DEF TypeOK, TableExact
<1>4. i \in 1..Len(l) /\ l[i] = s /\ s \in ToSet(l)
  BY <1>3 DEF ToSet
<1>5. PICK r : r = RemoveAt(l, i)
  BY Zenon
<1>6. r \in Seq(Streams)
  BY <1>3, <1>4, <1>5, RemoveAtIs, ZenonT(30)
<1>7. IsInjective(r) /\ ToSet(r) = ToSet(l) \ {s}
  BY <1>3, <1>4, <1>5, RemoveAtLeaves, ZenonT(30)
<1>8. ToSet(r) \subseteq ToSet(table[Pattern[s]]) \cup {s}
  BY <1>3, <1>7, Zenon
<1>9. table' = [table EXCEPT ![Pattern[s]] = r]
  BY <1>3, <1>5, Zenon
<1>10. /\ (table \in [Patterns -> Seq(Streams)])'
       /\ (\A t \in Patterns : IsInjective(table[t]))'
       /\ OwnList' /\ Listed' \subseteq Streams
       /\ \A x \in Streams : x \in Listed' <=>
             IF Pattern[x] = Pattern[s] THEN x \in ToSet(r) ELSE x \in Listed
  BY <1>6, <1>7, <1>8, <1>9, TableStep, ZenonT(30)
<1>11. \A x \in Streams : x \in Listed <=> x \in ToSet(table[Pattern[x]])
  BY <1>1, ListedIs, Zenon
<1> QED
  BY <1>3, <1>4, <1>7, <1>10, <1>11, ZenonT(30)

\* The cleanup of a stream takes it out of the table unless it has left.
LEMMA CleanupKeeps ==
  ASSUME IInv, NEW s \in Streams, Cleanup(s)
  PROVE  IInv'
<1>1. TypeOK /\ QuitClosedOnce /\ TableExact /\ OwnList /\ NotBegun
  BY Zenon DEF IInv, TableInv
<1>2. /\ loop[s] = "cleanup" /\ loop' = [loop EXCEPT ![s] = "gone"]
      /\ UNCHANGED <<lineup, chan, quit, cancelled, stalled, wire, count, todo, tally, stats>>
  BY Zenon DEF Cleanup
<1>3. /\ (table \in [Patterns -> Seq(Streams)])'
      /\ (\A t \in Patterns : IsInjective(table[t]))'
      /\ OwnList' /\ Listed' \subseteq Streams
      /\ \A x \in Streams : x \in Listed' <=> x # s /\ x \in Listed
  <2>1. CASE s \notin ToSet(table[Pattern[s]]) /\ UNCHANGED table
    <3>1. s \notin Listed
      BY <1>1, <2>1, ListedIs, Zenon
    <3>2. Listed' = Listed /\ Listed \subseteq Streams
      BY <1>1, <2>1 DEF Listed, TableExact
    <3> QED
      BY <1>1, <2>1, <3>1, <3>2, ZenonT(30) DEF TypeOK, TableExact, OwnList
  <2>2. CASE ~(s \notin ToSet(table[Pattern[s]]) /\ UNCHANGED table)
    <3>1. PICK i \in DOMAIN table[Pattern[s]] :
             table[Pattern[s]][i] = s /\ table' = [table EXCEPT ![Pattern[s]] = RemoveAt(@, i)]
      BY <2>2, Zenon DEF Cleanup
    <3> QED
      BY <3>1, RemovedFrom, Zenon
  <2> QED
    BY <2>1, <2>2, Zenon
<1>4. TypeOK'
  BY <1>1, <1>2, <1>3, Zenon DEF TypeOK
<1>5. ASSUME NEW x \in Streams
      PROVE  x \in Listed' <=> loop'[x] \notin {"off", "gone"} /\ quit'[x] = 0
  BY <1>1, <1>2, <1>3, Zenon DEF TableExact, TypeOK
<1>6. TableExact'
  BY <1>3, <1>5, Zenon DEF TableExact
<1>7. QuitClosedOnce' /\ NotBegun'
  BY <1>1, <1>2, Zenon DEF QuitClosedOnce, NotBegun, TypeOK
<1> QED
  BY <1>2, <1>3, <1>4, <1>6, <1>7, StreamsOnly, ZenonT(30) DEF IInv, TableInv

\* Unsubscribe tells a listed stream to quit, and then it is not listed.
LEMMA UnsubscribeKeeps ==
  ASSUME IInv, NEW s \in Streams, Unsubscribe(s)
  PROVE  IInv'
<1>1. TypeOK /\ QuitClosedOnce /\ TableExact /\ OwnList /\ NotBegun
  BY Zenon DEF IInv, TableInv
<1>2. /\ quit' = [quit EXCEPT ![s] = @ + 1]
      /\ UNCHANGED <<lineup, loop, chan, cancelled, stalled, wire, count, todo, tally, stats>>
  BY Zenon DEF Unsubscribe
<1>3. PICK i \in DOMAIN table[Pattern[s]] :
         table[Pattern[s]][i] = s /\ table' = [table EXCEPT ![Pattern[s]] = RemoveAt(@, i)]
  BY Zenon DEF Unsubscribe
<1>4. /\ (table \in [Patterns -> Seq(Streams)])'
      /\ (\A t \in Patterns : IsInjective(table[t]))'
      /\ OwnList' /\ Listed' \subseteq Streams /\ s \in Listed
      /\ \A x \in Streams : x \in Listed' <=> x # s /\ x \in Listed
  BY <1>3, RemovedFrom, Zenon
<1>5. quit[s] = 0 /\ loop[s] \notin {"off", "gone"}
  BY <1>1, <1>4, Zenon DEF TableExact
<1>6. quit'[s] = 1 /\ (quit \in [Streams -> Nat])' /\ \A x \in Streams : x # s => quit'[x] = quit[x]
  BY <1>1, <1>2, <1>5 DEF TypeOK
<1>7. TypeOK'
  BY <1>1, <1>2, <1>4, <1>6, ZenonT(30) DEF TypeOK
<1>8. ASSUME NEW x \in Streams
      PROVE  x \in Listed' <=> loop'[x] \notin {"off", "gone"} /\ quit'[x] = 0
  BY <1>1, <1>2, <1>4, <1>6, SMTT(30) DEF TableExact
<1>9. TableExact'
  BY <1>4, <1>8, Zenon DEF TableExact
<1>10. QuitClosedOnce' /\ NotBegun'
  BY <1>1, <1>2, <1>5, <1>6, SMTT(30) DEF QuitClosedOnce, NotBegun
<1> QED
  BY <1>2, <1>4, <1>7, <1>9, <1>10, StreamsOnly, ZenonT(30) DEF IInv, TableInv

\* Between its start and its end a stream stays in the table.
LEMMA LoopKeeps ==
  ASSUME IInv, NEW s \in Streams, loop[s] \in {"select", "send"},
         loop' = [loop EXCEPT ![s] = "select"] \/ loop' = [loop EXCEPT ![s] = "send"]
           \/ loop' = [loop EXCEPT ![s] = "cleanup"],
         UNCHANGED <<table, quit>>
  PROVE  (loop \in [Streams -> {"off", "select", "send", "cleanup", "gone"}])' /\ TableInv'
<1>1. TypeOK /\ TableInv
  BY Zenon DEF IInv
<1>2. (loop \in [Streams -> {"off", "select", "send", "cleanup", "gone"}])'
  BY <1>1, Zenon DEF TypeOK
<1>3. \A x \in Streams : loop'[x] \in {"off", "gone"} <=> loop[x] \in {"off", "gone"}
  BY <1>1, Zenon DEF TypeOK
<1>4. \A x \in Streams : loop'[x] = "off" => loop[x] = "off"
  BY <1>1, Zenon DEF TypeOK
<1> QED
  BY <1>1, <1>2, <1>3, <1>4 DEF TableInv, QuitClosedOnce, TableExact, OwnList, NotBegun, Listed

\* Quit and the return of Send only move the loop.
LEMMA QuitKeeps ==
  ASSUME IInv, NEW s \in Streams, Quit(s) \/ Sent(s)
  PROVE  IInv'
<1>1. /\ loop[s] \in {"select", "send"}
      /\ loop' = [loop EXCEPT ![s] = "select"] \/ loop' = [loop EXCEPT ![s] = "cleanup"]
      /\ UNCHANGED <<lineup, table, chan, quit, cancelled, stalled, wire, count, todo, tally, stats>>
  BY Zenon DEF Quit, Sent
<1>2. (loop \in [Streams -> {"off", "select", "send", "cleanup", "gone"}])' /\ TableInv'
  BY <1>1, LoopKeeps, Zenon
<1>3. TypeOK'
  BY <1>1, <1>2, Zenon DEF IInv, TypeOK
<1> QED
  BY <1>1, <1>2, <1>3, StreamsOnly, ZenonT(30) DEF IInv

\* A context that is done touches nothing else.
LEMMA CancelKeeps ==
  ASSUME IInv, NEW s \in Streams, Cancel(s)
  PROVE  IInv'
<1>1. TypeOK' /\ TableInv'
  BY SMTT(30) DEF IInv, Cancel, TypeOK, TableInv, QuitClosedOnce, TableExact, OwnList, NotBegun, Listed
<1> QED
  BY <1>1, StreamsOnly, ZenonT(30) DEF IInv, Cancel

\* The events of p in queue c come in order, after those in w, which do too.
Ordered(w, c, p) ==
    /\ \A i, k \in DOMAIN w : i < k => w[i] < w[k]
    /\ \A i, k \in DOMAIN c : i < k /\ c[i][1] = p /\ c[k][1] = p => c[i][2] < c[k][2]
    /\ \A i \in DOMAIN w, k \in DOMAIN c : c[k][1] = p => w[i] < c[k][2]

\* It stays so when the head of the queue is taken ...
LEMMA TailInOrder ==
  ASSUME NEW c \in Seq(Events), c # << >>, NEW p, NEW w, Ordered(w, c, p)
  PROVE  Ordered(w, Tail(c), p)
<1>1. PICK d : d = Tail(c)
  BY Zenon
<1>2. /\ Len(c) \in Nat /\ DOMAIN c = 1..Len(c) /\ DOMAIN d = 1..(Len(c) - 1)
      /\ \A k \in 1..(Len(c) - 1) : d[k] = c[k + 1]
  BY <1>1
<1>3. \A k \in DOMAIN d : k \in Int /\ k + 1 \in DOMAIN c /\ d[k] = c[k + 1]
  BY <1>2
<1>4. \A i, k \in DOMAIN d : i < k => i + 1 < k + 1
  BY <1>3
<1>5. ASSUME NEW i \in DOMAIN d, NEW k \in DOMAIN d, i < k, d[i][1] = p, d[k][1] = p
      PROVE  d[i][2] < d[k][2]
  <2>1. /\ i + 1 \in DOMAIN c /\ k + 1 \in DOMAIN c /\ i + 1 < k + 1
        /\ d[i] = c[i + 1] /\ d[k] = c[k + 1]
    BY <1>3, <1>4, <1>5, ZenonT(30)
  <2> QED
    BY <1>5, <2>1, Zenon DEF Ordered
<1>6. \A i \in DOMAIN w, k \in DOMAIN d : d[k][1] = p => w[i] < d[k][2]
  BY <1>3, ZenonT(30) DEF Ordered
<1> QED
  BY <1>1, <1>5, <1>6, Zenon DEF Ordered

\* ... and appended to what was sent.
LEMMA TakenInOrder ==
  ASSUME NEW c \in Seq(Events), c # << >>, NEW p \in Publishers, NEW n \in Nat, c[1] = <<p, n>>,
         NEW w \in Seq(Nat), Ordered(w, c, p)
  PROVE  Ordered(Append(w, n), Tail(c), p)
<1>1. PICK v, d : v = Append(w, n) /\ d = Tail(c)
  BY Zenon
<1>2. /\ 1 \in DOMAIN c /\ c[1][1] = p /\ c[1][2] = n
      /\ \A k \in DOMAIN d : k + 1 \in DOMAIN c /\ 1 < k + 1 /\ d[k] = c[k + 1]
  BY <1>1
<1>3. /\ Len(w) \in Nat /\ DOMAIN w = 1..Len(w) /\ DOMAIN v = 1..(Len(w) + 1)
      /\ v[Len(w) + 1] = n
      /\ \A i \in DOMAIN w : v[i] = w[i]
  BY <1>1
<1>4. \A i \in DOMAIN v : i \in DOMAIN w \/ i = Len(w) + 1
  BY <1>3
<1>5. \A i, k \in DOMAIN v : i < k => i \in DOMAIN w
  BY <1>3
<1>6. \A i \in DOMAIN w : w[i] < n
  BY <1>2, Zenon DEF Ordered
<1>7. \A k \in DOMAIN d : d[k][1] = p => n < d[k][2]
  BY <1>2, Zenon DEF Ordered
<1>8. Ordered(w, d, p)
  BY <1>1, TailInOrder, Zenon
<1>9. \A i, k \in DOMAIN v : i < k => v[i] < v[k]
  BY <1>3, <1>4, <1>5, <1>6, <1>8, ZenonT(30) DEF Ordered
<1>10. \A i \in DOMAIN v, k \in DOMAIN d : d[k][1] = p => v[i] < d[k][2]
  BY <1>3, <1>4, <1>7, <1>8, ZenonT(30) DEF Ordered
<1> QED
  BY <1>1, <1>8, <1>9, <1>10, ZenonT(30) DEF Ordered

\* The head of the channel goes to the wire: it is younger than what was sent
\* and older than what stays queued.
LEMMA ReceiveInOrder ==
  ASSUME IInv, NEW s \in Streams, chan[s] # << >>, UNCHANGED <<count, todo>>,
         chan' = [chan EXCEPT ![s] = Tail(@)],
         LET e == Head(chan[s]) IN wire' = [wire EXCEPT ![s][e[1]] = Append(@, e[2])]
  PROVE  /\ (chan \in [Streams -> Seq(Events)])'
         /\ (\A x \in Streams : Len(chan[x]) <= QueueSize)'
         /\ (wire \in [Streams -> [Publishers -> Seq(Nat)]])'
         /\ (\A x \in Streams, q \in Publishers :
               \A i \in DOMAIN wire[x][q] : wire[x][q][i] \in 1..count[q])'
         /\ AheadInv' /\ InOrderOnce'
<1>1. TypeOK /\ AheadInv /\ InOrderOnce
  BY Zenon DEF IInv
<1>2. PICK c \in Seq(Events) : c = chan[s]
  BY <1>1, Zenon DEF TypeOK
<1>3. PICK d \in Seq(Events) : d = Tail(c)
  BY <1>2, HeadTailProperties, ZenonT(30)
<1>4. /\ Len(c) \in Nat /\ DOMAIN c = 1..Len(c) /\ 1 \in DOMAIN c /\ Head(c) = c[1]
      /\ Len(d) = Len(c) - 1 /\ DOMAIN d = 1..(Len(c) - 1)
  BY <1>2, <1>3, SMTT(30)
<1>5. ASSUME NEW k \in DOMAIN d
      PROVE  k \in Int /\ k + 1 \in DOMAIN c /\ 1 < k + 1 /\ d[k] = c[k + 1]
  BY <1>2, <1>3, <1>4, SMTT(30)
<1>6. PICK p \in Publishers, n \in Nat : c[1] = <<p, n>>
  BY <1>4, SMTT(30) DEF Events
<1>7. PICK w \in Seq(Nat) : w = wire[s][p]
  BY <1>1 DEF TypeOK
<1>8. PICK v \in Seq(Nat) : v = Append(w, n)
  BY AppendProperties, ZenonT(30)
<1>9. /\ Len(w) \in Nat /\ DOMAIN w = 1..Len(w) /\ DOMAIN v = 1..(Len(w) + 1)
      /\ v[Len(w) + 1] = n
      /\ \A i \in DOMAIN w : v[i] = w[i] /\ i < Len(w) + 1
      /\ \A i \in DOMAIN v : i \in DOMAIN w \/ i = Len(w) + 1
  BY <1>8
<1>10. chan' = [chan EXCEPT ![s] = d] /\ wire' = [wire EXCEPT ![s] = [wire[s] EXCEPT ![p] = v]]
  <2>1. Head(chan[s])[1] = p /\ Head(chan[s])[2] = n
    BY <1>2, <1>4, <1>6, SMTT(30)
  <2>2. wire' = [wire EXCEPT ![s][Head(chan[s])[1]] = Append(@, Head(chan[s])[2])]
    BY Zenon
  <2>3. wire' = [wire EXCEPT ![s][p] = Append(@, n)]
    BY <2>1, <2>2, ZenonT(30)
  <2> QED
    BY <1>2, <1>3, <1>7, <1>8, <2>3, ZenonT(30)
<1>11. /\ chan'[s] = d /\ \A x \in Streams : x # s => chan'[x] = chan[x]
       /\ (chan \in [Streams -> Seq(Events)])'
  BY <1>1, <1>10 DEF TypeOK
<1>12. /\ wire'[s][p] = v
       /\ \A x \in Streams, q \in Publishers : x # s \/ q # p => wire'[x][q] = wire[x][q]
       /\ (wire \in [Streams -> [Publishers -> Seq(Nat)]])'
  <2>1. PICK f : f = [wire[s] EXCEPT ![p] = v]
    BY Zenon
  <2>2. wire \in [Streams -> [Publishers -> Seq(Nat)]]
    BY <1>1, Zenon DEF TypeOK
  <2>3. /\ f \in [Publishers -> Seq(Nat)] /\ f[p] = v
        /\ \A q \in Publishers : q # p => f[q] = wire[s][q]
    BY <2>1, <2>2, ZenonT(30)
  <2> QED
    <3>1. wire' = [wire EXCEPT ![s] = f]
      BY <1>10, <2>1, Zenon
    <3>2. wire'[s] = f /\ \A x \in Streams : x # s => wire'[x] = wire[x]
      BY <2>2, <3>1, Zenon
    <3>3. (wire \in [Streams -> [Publishers -> Seq(Nat)]])'
      BY <2>2, <2>3, <3>1, ZenonT(30)
    <3> QED
      BY <2>3, <3>2, <3>3, ZenonT(30)
<1>13. (\A x \in Streams : Len(chan[x]) <= QueueSize)'
  BY <1>1, <1>2, <1>4, <1>11, BusAssumption, SMTT(30) DEF TypeOK
<1>14. n \in 1..count[p] /\ (s \in Members(todo[p]) => n \in 1..(count[p] - 1))
  BY <1>1, <1>2, <1>4, <1>6, SMTT(30) DEF AheadInv, UpTo
<1>15. (\A x \in Streams, q \in Publishers :
          \A i \in DOMAIN wire[x][q] : wire[x][q][i] \in 1..count[q])'
  <2> SUFFICES ASSUME NEW x \in Streams, NEW q \in Publishers, NEW i \in DOMAIN wire'[x][q]
               PROVE  wire'[x][q][i] \in 1..count[q]
    BY ZenonT(30)
  <2>1. CASE x = s /\ q = p
    BY <1>1, <1>7, <1>9, <1>12, <1>14, <2>1, SentAre, ZenonT(30)
  <2>2. CASE x # s \/ q # p
    BY <1>1, <1>12, <2>2, SentAre, ZenonT(30)
  <2> QED
    BY <2>1, <2>2, Zenon
<1>16. AheadInv'
  <2> SUFFICES ASSUME NEW x \in Streams, NEW q \in Publishers
               PROVE  /\ UpTo(x, q, count[q])'
                      /\ (x \in Members(todo[q]) => UpTo(x, q, count[q] - 1))'
    BY Zenon DEF AheadInv
  <2>1. UpTo(x, q, count[q]) /\ (x \in Members(todo[q]) => UpTo(x, q, count[q] - 1))
    BY <1>1, Zenon DEF AheadInv
  <2>2. \A m : UpTo(s, q, m) => \A k \in DOMAIN d : d[k][1] = q => d[k][2] \in 1..m
    BY <1>2, <1>5, ZenonT(30) DEF UpTo
  <2>3. CASE x # s
    BY <1>11, <1>12, <2>1, <2>3, ZenonT(30) DEF UpTo
  <2>4. CASE x = s /\ q # p
    <3>1. chan'[x] = d /\ wire'[x][q] = wire[x][q]
      BY <1>11, <1>12, <2>4, ZenonT(30)
    <3> QED
      BY <2>1, <2>2, <2>4, <3>1, ZenonT(30) DEF UpTo
  <2>5. CASE x = s /\ q = p
    <3>1. chan'[x] = d /\ wire'[x][q] = v
      BY <1>11, <1>12, <2>5, ZenonT(30)
    <3>4. /\ \A i \in DOMAIN w : w[i] <= count[q]
          /\ x \in Members(todo[q]) => \A i \in DOMAIN w : w[i] <= count[q] - 1
      BY <1>7, <2>1, <2>5, ZenonT(30) DEF UpTo
    <3>5. n <= count[q] /\ (x \in Members(todo[q]) => n <= count[q] - 1)
      BY <1>14, <2>5
    <3>2. \A i \in DOMAIN v : v[i] <= count[q]
      BY <1>9, <3>4, <3>5, ZenonT(30)
    <3>3. x \in Members(todo[q]) => \A i \in DOMAIN v : v[i] <= count[q] - 1
      BY <1>9, <3>4, <3>5, ZenonT(30)
    <3> QED
      BY <2>1, <2>2, <2>5, <3>1, <3>2, <3>3, ZenonT(30) DEF UpTo
  <2> QED
    BY <2>3, <2>4, <2>5, ZenonT(30)
<1>17. InOrderOnce'
  <2>1. InOrderOnce <=> \A x \in Streams, q \in Publishers : Ordered(wire[x][q], chan[x], q)
    BY Zenon DEF InOrderOnce, Ordered
  <2>2. InOrderOnce' <=> \A x \in Streams, q \in Publishers : Ordered(wire'[x][q], chan'[x], q)
    BY Zenon DEF InOrderOnce, Ordered
  <2> SUFFICES ASSUME NEW x \in Streams, NEW q \in Publishers
               PROVE  Ordered(wire'[x][q], chan'[x], q)
    BY <2>2, Zenon
  <2>3. Ordered(wire[x][q], chan[x], q)
    BY <1>1, <2>1, Zenon
  <2>4. CASE x # s
    BY <1>11, <1>12, <2>3, <2>4, ZenonT(30)
  <2>5. CASE x = s /\ q # p
    BY <1>2, <1>3, <1>11, <1>12, <2>3, <2>5, TailInOrder, ZenonT(30)
  <2>6. CASE x = s /\ q = p
    <3>1. Ordered(w, c, p)
      BY <1>2, <1>7, <2>3, <2>6, ZenonT(30)
    <3>2. Ordered(v, d, p)
      BY <1>2, <1>3, <1>6, <1>8, <3>1, TakenInOrder, ZenonT(30)
    <3> QED
      BY <1>11, <1>12, <2>6, <3>2, ZenonT(30)
  <2> QED
    BY <2>4, <2>5, <2>6, ZenonT(30)
<1> QED
  BY <1>11, <1>12, <1>13, <1>15, <1>16, <1>17, ZenonT(30)

\* The select takes an event.
LEMMA ReceiveKeeps ==
  ASSUME IInv, NEW s \in Streams, Receive(s)
  PROVE  IInv'
<1>1. TypeOK /\ TableInv /\ SnapInv
  BY DEF IInv
<1>2. UNCHANGED <<lineup, table, quit, cancelled, stalled, count, todo, tally, stats>>
  BY Zenon DEF Receive
<1>3. /\ (chan \in [Streams -> Seq(Events)])'
      /\ (\A x \in Streams : Len(chan[x]) <= QueueSize)'
      /\ (wire \in [Streams -> [Publishers -> Seq(Nat)]])'
      /\ (\A x \in Streams, q \in Publishers :
            \A i \in DOMAIN wire[x][q] : wire[x][q][i] \in 1..count[q])'
      /\ AheadInv' /\ InOrderOnce'
  BY <1>2, ReceiveInOrder, Zenon DEF Receive
<1>4. (loop \in [Streams -> {"off", "select", "send", "cleanup", "gone"}])' /\ TableInv'
  BY <1>2, LoopKeeps, Zenon DEF Receive
<1>5. TypeOK'
  BY <1>1, <1>2, <1>3, <1>4, ZenonT(30) DEF TypeOK
<1>6. SnapInv'
  BY <1>1, <1>2, Zenon DEF SnapInv
<1> QED
  BY <1>3, <1>4, <1>5, <1>6, ZenonT(30) DEF IInv

-----------------------------------------------------------------------------
\* No stream has begun and nothing is published.
LEMMA InitIInv == Init => IInv
<1> SUFFICES ASSUME Init PROVE IInv
  BY Zenon
<1>1. Cardinality(Streams) \in Nat
  BY BusAssumption, FS_CardinalityType, ZenonT(30)
<1>2. TypeOK
  BY <1>1, BusAssumption DEF Init, TypeOK, Zero, Counts, Idle, Events
<1>3. Listed = {}
  BY DEF Init, Listed, ToSet
<1>4. TableInv
  BY <1>3 DEF Init, TableInv, QuitClosedOnce, TableExact, OwnList, NotBegun, IsInjective
<1>5. SnapInv /\ AheadInv /\ InOrderOnce
  BY DEF Init, SnapInv, AheadInv, UpTo, InOrderOnce, Members, ToSet, Idle
<1> QED
  BY <1>2, <1>4, <1>5, Zenon DEF IInv

\* No step of a publisher, of a stream or of a client leaves the invariant.
LEMMA Inductive == IInv /\ [Next]_vars => IInv'
<1> SUFFICES ASSUME IInv, [Next]_vars PROVE IInv'
  BY Zenon
<1>1. ASSUME NEW p \in Publishers, Publish(p) \/ Deliver(p) \/ Publishes(p)
      PROVE  IInv'
  BY <1>1, PublishKeeps, DeliverKeeps, PublishesKeeps, ZenonT(30)
<1>2. ASSUME NEW s \in Streams,
             \/ Subscribe(s) \/ Receive(s) \/ Quit(s) \/ Sent(s)
             \/ Cleanup(s) \/ Unsubscribe(s) \/ Cancel(s)
      PROVE  IInv'
  BY <1>2, SubscribeKeeps, ReceiveKeeps, QuitKeeps, CleanupKeeps, UnsubscribeKeeps, CancelKeeps, ZenonT(30)
<1>3. CASE UNCHANGED vars
  <2>1. TypeOK' /\ TableInv'
    BY <1>3 DEF IInv, vars, TypeOK, TableInv, QuitClosedOnce, TableExact, OwnList, NotBegun, Listed
  <2> QED
    BY <1>3, <2>1, StreamsOnly, ZenonT(30) DEF IInv, vars
<1> QED
  BY <1>1, <1>2, <1>3, Zenon DEF Next

\* The invariant holds in every reachable state.
LEMMA Invariant == Spec => []IInv
BY InitIInv, Inductive, PTL DEF Spec

\* For any streams, patterns and publishers: every variable keeps its type, no
\* channel overflows, and no snapshot counts more than there are streams.
THEOREM TypeCorrect == Spec => []TypeOK
<1>1. IInv => TypeOK
  BY Zenon DEF IInv
<1> QED
  BY <1>1, Invariant, PTL

\* No mix of Unsubscribe calls, shared ids and streams that end closes a QuitCh
\* twice.
THEOREM QuitOnce == Spec => []QuitClosedOnce
<1>1. IInv => QuitClosedOnce
  BY ZenonT(30) DEF IInv, TableInv
<1> QED
  BY <1>1, Invariant, PTL

\* The table lists exactly the streams that have begun, are not cleaned up and
\* were not unsubscribed, each once.
THEOREM TableIsExact == Spec => []TableExact
<1>1. IInv => TableExact
  BY ZenonT(30) DEF IInv, TableInv
<1> QED
  BY <1>1, Invariant, PTL

\* Every stream gets the events of a publisher in order and at most once.
THEOREM InOrder == Spec => []InOrderOnce
<1>1. IInv => InOrderOnce
  BY Zenon DEF IInv
<1> QED
  BY <1>1, Invariant, PTL

-----------------------------------------------------------------------------
(* The counters.                                                           *)

\* The units are finitely many.
LEMMA UnitsFinite ==
  ASSUME NEW D, IsFiniteSet(D), NEW f \in [D -> Nat]
  PROVE  IsFiniteSet(Units(f)) /\ Total(f) \in Nat
<1> DEFINE col == [x \in D |-> {x} \X (1..f[x])]
           cols == {{x} \X (1..f[x]) : x \in D}
<1>1. col \in Surjection(D, cols)
  BY Zenon DEF Surjection
<1>2. IsFiniteSet(cols)
  BY <1>1, FS_Surjection, Zenon DEF ExistsSurjection
<1>3. \A T \in cols : IsFiniteSet(T)
  <2> SUFFICES ASSUME NEW x \in D PROVE IsFiniteSet({x} \X (1..f[x]))
    BY Zenon
  <2>1. IsFiniteSet({x})
    BY FS_Singleton, Zenon
  <2>2. IsFiniteSet(1..f[x])
    <3>1. f[x] \in Int /\ 1 \in Int
      OBVIOUS
    <3> QED
      BY <3>1, FS_Interval, Zenon
  <2> QED
    BY <2>1, <2>2, FS_Product, Zenon
<1>4. IsFiniteSet(UNION cols)
  BY <1>2, <1>3, FS_UNION, Zenon
<1>5. Units(f) = UNION cols
  BY DEF Units
<1> QED
  BY <1>4, <1>5, FS_CardinalityType, Zenon DEF Total

\* The units of one value.
LEMMA UnitsSplit ==
  ASSUME NEW D, IsFiniteSet(D), NEW f \in [D -> Nat], NEW x \in D
  PROVE  Total(f) = Total([f EXCEPT ![x] = 0]) + f[x]
<1> DEFINE g == [f EXCEPT ![x] = 0]
           C == {x} \X (1..f[x])
<1>1. g \in [D -> Nat]
  OBVIOUS
<1>2. /\ IsFiniteSet(Units(f)) /\ Total(f) \in Nat /\ IsFiniteSet(Units(g)) /\ Total(g) \in Nat
  BY <1>1, UnitsFinite, Zenon
<1>3. IsFiniteSet(C) /\ Cardinality(C) = f[x]
  <2>1. IsFiniteSet({x}) /\ Cardinality({x}) = 1
    BY FS_Singleton, Zenon
  <2>2. f[x] \in Nat /\ 1 \in Int /\ f[x] \in Int
    OBVIOUS
  <2>3. IsFiniteSet(1..f[x]) /\ Cardinality(1..f[x]) = IF 1 > f[x] THEN 0 ELSE f[x] - 1 + 1
    BY <2>2, FS_Interval, Zenon
  <2>4. Cardinality(1..f[x]) = f[x]
    BY <2>2, <2>3
  <2>5. IsFiniteSet(C) /\ Cardinality(C) = Cardinality({x}) * Cardinality(1..f[x])
    BY <2>1, <2>3, FS_Product, ZenonT(30)
  <2>6. Cardinality(C) = 1 * f[x]
    BY <2>1, <2>4, <2>5, ZenonT(30)
  <2> QED
    BY <2>2, <2>5, <2>6
<1>4. Units(f) = Units(g) \cup C
  <2>1. ASSUME NEW u \in Units(f) PROVE u \in Units(g) \cup C
    BY <2>1 DEF Units
  <2>2. ASSUME NEW u \in Units(g) PROVE u \in Units(f)
    BY <2>2 DEF Units
  <2>3. ASSUME NEW u \in C PROVE u \in Units(f)
    BY <2>3 DEF Units
  <2> QED
    BY <2>1, <2>2, <2>3, ZenonT(30)
<1>5. Units(g) \cap C = {}
  <2> SUFFICES ASSUME NEW u \in Units(g), u \in C PROVE FALSE
    BY Zenon
  <2>1. PICK y \in D : u \in {y} \X (1..g[y])
    BY DEF Units
  <2>2. y = x /\ 1..g[x] # {}
    BY <2>1
  <2>3. g[x] = 0
    OBVIOUS
  <2> QED
    BY <2>2, <2>3
<1> HIDE DEF g, C
<1>6. /\ Cardinality(Units(g) \cup C)
            = Cardinality(Units(g)) + Cardinality(C) - Cardinality(Units(g) \cap C)
  BY <1>2, <1>3, FS_Union, Zenon
<1>7. Cardinality(Units(g) \cap C) = 0
  BY <1>5, FS_EmptySet, ZenonT(30)
<1>8. Total(f) = Total(g) + f[x]
  BY <1>2, <1>3, <1>4, <1>6, <1>7, SMTT(30) DEF Total
<1> QED
  BY <1>8 DEF g

\* One value changes.
Sums(D, f) == IsFiniteSet(D) /\ f \in [D -> Nat]
Beside(D, f, g, x) == x \in D /\ \A y \in D : y # x => g[y] = f[y]
Moved(f, g, x) == /\ Total(f) \in Nat /\ Total(g) \in Nat /\ f[x] \in Nat /\ g[x] \in Nat
                  /\ Total(g) + f[x] = Total(f) + g[x]
LEMMA TotalMoves ==
  ASSUME NEW D, NEW f, NEW g, NEW x, Sums(D, f), Sums(D, g), Beside(D, f, g, x)
  PROVE  Moved(f, g, x)
<1> USE DEF Sums, Beside, Moved
<1>1. [f EXCEPT ![x] = 0] = [g EXCEPT ![x] = 0] /\ [f EXCEPT ![x] = 0] \in [D -> Nat]
  OBVIOUS
<1>2. PICK h : h = [f EXCEPT ![x] = 0]
  BY Zenon
<1>3. Total(f) = Total(h) + f[x] /\ Total(g) = Total(h) + g[x]
  BY <1>1, <1>2, UnitsSplit, Zenon
<1>4. Total(f) \in Nat /\ Total(g) \in Nat /\ Total(h) \in Nat
  BY <1>1, <1>2, UnitsFinite, ZenonT(30)
<1> QED
  BY <1>3, <1>4

\* The three functions that are added up.
LEMMA SumTypes ==
  ASSUME TypeOK
  PROVE  /\ Owed \in [Publishers -> Nat] /\ Queued \in [Streams -> Nat]
         /\ SentOn \in [Streams \X Publishers -> Nat]
         /\ stats.delivered \in Nat
         /\ IsFiniteSet(Publishers) /\ IsFiniteSet(Streams) /\ IsFiniteSet(Streams \X Publishers)
<1>1. IsFiniteSet(Publishers) /\ IsFiniteSet(Streams)
  BY BusAssumption, Zenon
<1>2. IsFiniteSet(Streams \X Publishers)
  BY <1>1, FS_Product, Zenon
<1>3. Owed \in [Publishers -> Nat] /\ stats.delivered \in Nat
  BY DEF TypeOK, Owed, Counts
<1>4. Queued \in [Streams -> Nat]
  BY DEF TypeOK, Queued
<1>5. SentOn \in [Streams \X Publishers -> Nat]
  <2> SUFFICES ASSUME NEW s \in Streams, NEW p \in Publishers PROVE Len(wire[s][p]) \in Nat
    BY DEF SentOn
  <2> QED
    BY DEF TypeOK
<1> QED
  BY <1>1, <1>2, <1>3, <1>4, <1>5, ZenonT(30)

\* Steps that move no event and no count.
LEMMA SumSame ==
  ASSUME DeliveredExact, UNCHANGED <<chan, wire, tally, stats>>
  PROVE  DeliveredExact'
<1>1. Total(Owed)' = Total(Owed) /\ Total(Queued)' = Total(Queued)
  BY Zenon DEF Owed, Queued, Total, Units
<1>2. Total(SentOn)' = Total(SentOn)
  BY Zenon DEF SentOn, Total, Units
<1> QED
  BY <1>1, <1>2, Zenon DEF DeliveredExact

\* An event is queued and counted, or neither.
LEMMA DeliverCounts ==
  ASSUME IInv, IInv', DeliveredExact, NEW p \in Publishers, Deliver(p)
  PROVE  DeliveredExact'
<1>1. TypeOK /\ TypeOK'
  BY Zenon DEF IInv
<1>2. PICK s \in Streams : s = Head(Head(todo[p]))
  BY DeliverTurn, Zenon
<1>3. PICK a, b : a = Owed /\ b = Owed'
  BY Zenon
<1>4. PICK c, d : c = Queued /\ d = Queued'
  BY Zenon
<1>5. /\ a \in [Publishers -> Nat] /\ c \in [Streams -> Nat] /\ stats.delivered \in Nat
      /\ IsFiniteSet(Publishers) /\ IsFiniteSet(Streams) /\ Total(SentOn) \in Nat
  BY <1>1, <1>3, <1>4, SumTypes, UnitsFinite, ZenonT(30)
<1>6. b \in [Publishers -> Nat] /\ d \in [Streams -> Nat]
  BY <1>1, <1>3, <1>4, SMTT(30) DEF TypeOK, Owed, Queued, Counts
<1>7. UNCHANGED <<wire, stats>> /\ SentOn' = SentOn /\ Total(SentOn)' = Total(SentOn)
  BY ZenonT(30) DEF Deliver, SentOn, Total, Units
<1>8. \A q \in Publishers : q # p => b[q] = a[q]
  BY <1>1, <1>3 DEF Deliver, Owed, TypeOK, Counts
<1>9. \A x \in Streams : x # s => d[x] = c[x]
  BY <1>1, <1>2, <1>4, ZenonT(30) DEF Deliver, Queued, TypeOK
<1>10. \/ b[p] = a[p] /\ d[s] = c[s]
       \/ b[p] = a[p] + 1 /\ d[s] = c[s] + 1
  <2>1. CASE tally'[p].delivered = tally[p].delivered /\ chan' = chan
    BY <1>3, <1>4, <2>1, ZenonT(30) DEF Owed, Queued
  <2>2. CASE /\ tally' = [tally EXCEPT ![p].delivered = @ + 1]
             /\ chan' = [chan EXCEPT ![s] = Append(@, <<p, count[p]>>)]
    <3>1. tally'[p].delivered = tally[p].delivered + 1
      BY <1>1, <2>2 DEF TypeOK, Counts
    <3>2. Len(chan'[s]) = Len(chan[s]) + 1
      BY <1>1, <2>2 DEF TypeOK
    <3> QED
      BY <1>3, <1>4, <3>1, <3>2, ZenonT(30) DEF Owed, Queued
  <2>3. CASE tally' = [tally EXCEPT ![p].dropped = @ + 1] /\ chan' = chan
    <3>1. tally'[p].delivered = tally[p].delivered
      BY <1>1, <2>3 DEF TypeOK, Counts
    <3> QED
      BY <2>1, <2>3, <3>1, ZenonT(30)
  <2> QED
    BY <1>2, <2>1, <2>2, <2>3, Zenon DEF Deliver
<1>11. /\ Total(a) \in Nat /\ Total(b) \in Nat /\ a[p] \in Nat
       /\ Total(b) + a[p] = Total(a) + b[p]
  <2>1. Sums(Publishers, a) /\ Sums(Publishers, b) /\ Beside(Publishers, a, b, p)
    BY <1>5, <1>6, <1>8, ZenonT(30) DEF Sums, Beside
  <2>2. Moved(a, b, p)
    BY <2>1, TotalMoves, ZenonT(30)
  <2> QED
    BY <2>2, Zenon DEF Moved
<1>12. /\ Total(c) \in Nat /\ Total(d) \in Nat /\ c[s] \in Nat
       /\ Total(d) + c[s] = Total(c) + d[s]
  <2>1. Sums(Streams, c) /\ Sums(Streams, d) /\ Beside(Streams, c, d, s)
    BY <1>5, <1>6, <1>9, ZenonT(30) DEF Sums, Beside
  <2>2. Moved(c, d, s)
    BY <2>1, TotalMoves, Zenon
  <2> QED
    BY <2>2, Zenon DEF Moved
<1>13. stats.delivered + Total(a) = Total(c) + Total(SentOn)
  BY <1>3, <1>4, ZenonT(30) DEF DeliveredExact
<1>14. stats.delivered + Total(b) = Total(d) + Total(SentOn)
  BY <1>5, <1>10, <1>11, <1>12, <1>13, SMTT(30)
<1>15. Total(Owed)' = Total(b) /\ Total(Queued)' = Total(d)
  BY <1>3, <1>4, Zenon DEF Total, Units
<1> QED
  BY <1>7, <1>14, <1>15, ZenonT(30) DEF DeliveredExact

\* A publisher's count moves to the counter.
LEMMA PublishesCounts ==
  ASSUME IInv, IInv', DeliveredExact, NEW p \in Publishers, Publishes(p)
  PROVE  DeliveredExact'
<1>1. TypeOK /\ TypeOK'
  BY Zenon DEF IInv
<1>2. PICK a, b : a = Owed /\ b = Owed'
  BY Zenon
<1>3. /\ a \in [Publishers -> Nat] /\ stats.delivered \in Nat /\ IsFiniteSet(Publishers)
      /\ Total(SentOn) \in Nat /\ Total(Queued) \in Nat
  BY <1>1, <1>2, SumTypes, UnitsFinite, ZenonT(30)
<1>4. b \in [Publishers -> Nat]
  BY <1>1, <1>2 DEF TypeOK, Owed, Counts
<1>5. /\ Queued' = Queued /\ SentOn' = SentOn
      /\ Total(Queued)' = Total(Queued) /\ Total(SentOn)' = Total(SentOn)
  BY Zenon DEF Publishes, Queued, SentOn, Total, Units
<1>6. /\ b[p] = 0 /\ \A q \in Publishers : q # p => b[q] = a[q]
      /\ stats'.delivered = stats.delivered + a[p]
  BY <1>1, <1>2 DEF Publishes, Owed, TypeOK, Counts, Zero
<1>7. /\ Total(a) \in Nat /\ Total(b) \in Nat /\ a[p] \in Nat
      /\ Total(b) + a[p] = Total(a) + b[p]
  <2>1. Sums(Publishers, a) /\ Sums(Publishers, b) /\ Beside(Publishers, a, b, p)
    BY <1>3, <1>4, <1>6, Zenon DEF Sums, Beside
  <2>2. Moved(a, b, p)
    BY <2>1, TotalMoves, Zenon
  <2> QED
    BY <2>2, Zenon DEF Moved
<1>8. stats.delivered + Total(a) = Total(Queued) + Total(SentOn)
  BY <1>2, Zenon DEF DeliveredExact
<1>9. stats'.delivered + Total(b) = Total(Queued) + Total(SentOn)
  BY <1>3, <1>6, <1>7, <1>8
<1>10. Total(Owed)' = Total(b)
  BY <1>2, Zenon DEF Total, Units
<1> QED
  BY <1>5, <1>9, <1>10, ZenonT(30) DEF DeliveredExact

\* An event moves from the channel to Send.
LEMMA ReceiveCounts ==
  ASSUME IInv, IInv', DeliveredExact, NEW s \in Streams, Receive(s)
  PROVE  DeliveredExact'
<1>1. TypeOK /\ TypeOK'
  BY Zenon DEF IInv
<1>2. PICK c, d : c = Queued /\ d = Queued'
  BY Zenon
<1>3. PICK v, w : v = SentOn /\ w = SentOn'
  BY Zenon
<1>4. /\ c \in [Streams -> Nat] /\ v \in [Streams \X Publishers -> Nat] /\ stats.delivered \in Nat
      /\ IsFiniteSet(Streams) /\ IsFiniteSet(Streams \X Publishers) /\ Total(Owed) \in Nat
  BY <1>1, <1>2, <1>3, SumTypes, UnitsFinite, ZenonT(30)
<1>5. d \in [Streams -> Nat]
  BY <1>1, <1>2, SMTT(30) DEF TypeOK, Queued
<1>6. chan[s] \in Seq(Events) /\ chan[s] # << >> /\ chan'[s] = Tail(chan[s])
  BY <1>1 DEF TypeOK, Receive
<1>7. PICK p \in Publishers, n \in Nat : Head(chan[s]) = <<p, n>>
  BY <1>6 DEF Events
<1>8. w \in [Streams \X Publishers -> Nat]
  <2>1. \A x \in Streams, q \in Publishers : Len(wire'[x][q]) \in Nat
    BY <1>1 DEF TypeOK
  <2> QED
    BY <1>3, <2>1 DEF SentOn
<1>9. UNCHANGED <<tally, stats>> /\ Total(Owed)' = Total(Owed)
  BY Zenon DEF Receive, Owed, Total, Units
<1>10. d[s] + 1 = c[s] /\ \A x \in Streams : x # s => d[x] = c[x]
  <2>1. Len(Tail(chan[s])) + 1 = Len(chan[s])
    BY <1>6, SMTT(30)
  <2>2. \A x \in Streams : x # s => chan'[x] = chan[x]
    BY <1>1 DEF TypeOK, Receive
  <2> QED
    BY <1>2, <1>6, <2>1, <2>2, ZenonT(30) DEF Queued
<1>11. wire' = [wire EXCEPT ![s][p] = Append(@, n)]
  <2>1. LET e == Head(chan[s]) IN wire' = [wire EXCEPT ![s][e[1]] = Append(@, e[2])]
    BY Zenon DEF Receive
  <2>2. Head(chan[s])[1] = p /\ Head(chan[s])[2] = n
    BY <1>7
  <2> QED
    BY <2>1, <2>2, Zenon
<1>12. /\ Len(wire'[s][p]) = Len(wire[s][p]) + 1
       /\ \A x \in Streams, q \in Publishers : <<x, q>> # <<s, p>> => wire'[x][q] = wire[x][q]
  BY <1>1, <1>11 DEF TypeOK
<1>13. w[<<s, p>>] = v[<<s, p>>] + 1 /\ \A y \in Streams \X Publishers : y # <<s, p>> => w[y] = v[y]
  BY <1>3, <1>12 DEF SentOn
<1>14. /\ Total(c) \in Nat /\ Total(d) \in Nat /\ c[s] \in Nat /\ d[s] \in Nat
       /\ Total(d) + c[s] = Total(c) + d[s]
  <2>1. Sums(Streams, c) /\ Sums(Streams, d) /\ Beside(Streams, c, d, s)
    BY <1>4, <1>5, <1>10, Zenon DEF Sums, Beside
  <2>2. Moved(c, d, s)
    BY <2>1, TotalMoves, Zenon
  <2> QED
    BY <2>2, Zenon DEF Moved
<1>15. /\ Total(v) \in Nat /\ Total(w) \in Nat /\ v[<<s, p>>] \in Nat
       /\ Total(w) + v[<<s, p>>] = Total(v) + w[<<s, p>>]
  <2>1. <<s, p>> \in Streams \X Publishers
    BY Zenon
  <2>2. PICK D : D = Streams \X Publishers
    BY Zenon
  <2>3. Sums(D, v) /\ Sums(D, w) /\ Beside(D, v, w, <<s, p>>)
    BY <1>4, <1>8, <1>13, <2>1, <2>2, ZenonT(30) DEF Sums, Beside
  <2>4. Moved(v, w, <<s, p>>)
    BY <2>3, TotalMoves, Zenon
  <2> QED
    BY <2>4, Zenon DEF Moved
<1>16. stats.delivered + Total(Owed) = Total(c) + Total(v)
  BY <1>2, <1>3, ZenonT(30) DEF DeliveredExact
<1>17. stats.delivered + Total(Owed) = Total(d) + Total(w)
  BY <1>4, <1>10, <1>13, <1>14, <1>15, <1>16, SMTT(30)
<1>18. Total(Queued)' = Total(d) /\ Total(SentOn)' = Total(w)
  BY <1>2, <1>3, Zenon DEF Total, Units
<1> QED
  BY <1>9, <1>17, <1>18, ZenonT(30) DEF DeliveredExact

\* At first nothing was delivered.
LEMMA InitCounts == Init => DeliveredExact
<1> SUFFICES ASSUME Init PROVE DeliveredExact
  BY Zenon
<1>1. Units(Owed) = {}
  BY DEF Init, Owed, Units, Zero
<1>2. Units(Queued) = {}
  BY DEF Init, Queued, Units
<1>3. Units(SentOn) = {}
  <2>1. \A x \in Streams \X Publishers : SentOn[x] = 0
    BY DEF Init, SentOn
  <2> QED
    BY <2>1 DEF Units, SentOn
<1>4. Cardinality({}) = 0
  BY FS_EmptySet, Zenon
<1>5. stats.delivered = 0
  BY DEF Init, Zero
<1> QED
  BY <1>1, <1>2, <1>3, <1>4, <1>5, SMTT(30) DEF DeliveredExact, Total

\* For any streams, publishers and channel size: DeliveredCount, with what the
\* publishers have yet to add, is exactly what reached some channel.
THEOREM CountedExactly == Spec => []DeliveredExact
<1>1. IInv /\ IInv' /\ DeliveredExact /\ [Next]_vars => DeliveredExact'
  <2> SUFFICES ASSUME IInv, IInv', DeliveredExact, [Next]_vars PROVE DeliveredExact'
    BY Zenon
  <2>1. ASSUME NEW p \in Publishers, Publish(p) PROVE DeliveredExact'
    BY <2>1, SumSame, Zenon DEF Publish
  <2>2. ASSUME NEW p \in Publishers, Deliver(p) \/ Publishes(p) PROVE DeliveredExact'
    BY <2>2, DeliverCounts, PublishesCounts, Zenon
  <2>3. ASSUME NEW s \in Streams, Receive(s) PROVE DeliveredExact'
    BY <2>3, ReceiveCounts, Zenon
  <2>4. ASSUME NEW s \in Streams,
               Subscribe(s) \/ Quit(s) \/ Sent(s) \/ Cleanup(s) \/ Unsubscribe(s) \/ Cancel(s)
        PROVE  DeliveredExact'
    <3>1. UNCHANGED <<chan, wire, tally, stats>>
      BY <2>4, Zenon DEF Subscribe, Quit, Sent, Cleanup, Unsubscribe, Cancel
    <3> QED
      BY <3>1, SumSame, Zenon
  <2>5. CASE UNCHANGED vars
    BY <2>5, SumSame, Zenon DEF vars
  <2> QED
    BY <2>1, <2>2, <2>3, <2>4, <2>5, ZenonT(30) DEF Next
<1> QED
  BY <1>1, Invariant, InitCounts, PTL DEF Spec
=============================================================================
