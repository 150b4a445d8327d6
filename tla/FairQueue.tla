----------------------------- MODULE FairQueue -----------------------------
(***************************************************************************)
(* The scheduler's queue: one queue per session, and the weighted-deficit   *)
(* round robin by which a worker picks the next request.  A session's       *)
(* weight is 1 + the priority of its first request.  Each pick gives every  *)
(* waiting session its weight and takes the sum of the weights from the     *)
(* winner; a session whose queue is empty is forgotten, deficit included.   *)
(***************************************************************************)
EXTENDS Integers, Sequences, FiniteSetsExt

CONSTANTS Clients,        \* session ids
          Priorities,     \* the priorities requests carry: 0..7 in the comments
          QueueCapacity   \* queue_capacity_, over all sessions

ASSUME PrioritiesAssumption == Priorities \subseteq Nat
ASSUME CapacityAssumption == QueueCapacity \in Nat \ {0}

VARIABLES queues,    \* session_queues_[s]: the priorities of its requests
          deficits,  \* deficits_[s]; an absent entry counts as 0
          passed     \* history: picks since s waits and was not served

vars == <<queues, deficits, passed>>

Waiting == {s \in Clients : queues[s] # << >>}
TotalQueued == MapThenSumSet(LAMBDA s : Len(queues[s]), Clients)
Weight(s) == 1 + Head(queues[s])
TotalWeight == MapThenSumSet(Weight, Waiting)

Init ==
    /\ queues = [s \in Clients |-> << >>]
    /\ deficits = [s \in Clients |-> 0]
    /\ passed = [s \in Clients |-> 0]

\* submit: refused, and nothing changes, when the capacity is used up.
Submit(s, p) ==
    /\ TotalQueued < QueueCapacity
    /\ queues' = [queues EXCEPT ![s] = Append(@, p)]
    /\ UNCHANGED <<deficits, passed>>

\* Mutant: only the weight of the moment counts, nothing accumulates.
Mut_no_accumulation == [s \in Clients |-> IF s \in Waiting THEN Weight(s) ELSE 0]

\* Every waiting session's deficit after the first pass.
Bumped == [s \in Clients |-> IF s \in Waiting THEN deficits[s] + Weight(s) ELSE deficits[s]]

\* The winner has the highest deficit; the map's order decides among equals.
Best(s) == s \in Waiting /\ \A t \in Waiting : Bumped[t] <= Bumped[s]

MaxWeight == 1 + Max(Priorities)
Rivals == Cardinality(Clients) - 1

\* The history variable: s is served, the others that wait are passed over.  It
\* stops counting past the bound BoundedBypass states.
PassOver(s) ==
    [t \in Clients |-> IF t = s \/ t \notin Waiting THEN 0
                       ELSE Min({passed[t] + 1, 2 * Rivals * MaxWeight + 1})]

\* Mutant: the winner keeps its deficit.
Mut_winner_not_charged(s) ==
    /\ Best(s)
    /\ queues' = [queues EXCEPT ![s] = Tail(@)]
    /\ deficits' = [Bumped EXCEPT ![s] = IF Len(queues[s]) = 1 THEN 0 ELSE @]
    /\ passed' = PassOver(s)

\* Mutant: an emptied session leaves its deficit behind.
Mut_deficit_kept(s) ==
    /\ Best(s)
    /\ queues' = [queues EXCEPT ![s] = Tail(@)]
    /\ deficits' = [Bumped EXCEPT ![s] = @ - TotalWeight]
    /\ passed' = PassOver(s)

Pick(s) ==
    /\ Best(s)
    /\ queues' = [queues EXCEPT ![s] = Tail(@)]
    /\ deficits' = [Bumped EXCEPT ![s] = IF Len(queues[s]) = 1 THEN 0 ELSE @ - TotalWeight]
    /\ passed' = PassOver(s)

Next ==
    \/ \E s \in Clients, p \in Priorities : Submit(s, p)
    \/ \E s \in Clients : Pick(s)

\* Some worker is always coming back for the next request.
Spec == Init /\ [][Next]_vars /\ WF_vars(\E s \in Clients : Pick(s))

-----------------------------------------------------------------------------
\* Every variable keeps its type; a session without requests has no deficit.
TypeOK ==
    /\ queues \in [Clients -> Seq(Priorities)]
    /\ TotalQueued <= QueueCapacity
    /\ deficits \in [Clients -> Int]
    /\ passed \in [Clients -> Nat]
    /\ \A s \in Clients : queues[s] = << >> => deficits[s] = 0

\* "No session starves", with a number: while it waits, a session is passed
\* over at most 2 * MaxWeight times per rival, whatever the rivals submit,
\* sessions that empty and come back with a clean slate included.
BoundedBypass == \A s \in Clients : passed[s] <= 2 * Rivals * MaxWeight

\* A session that was passed over is served as long as workers pick.
NoStarvation == \A s \in Clients : passed[s] > 0 ~> passed[s] = 0
=============================================================================
