------------------------------ MODULE EventBus -----------------------------
(***************************************************************************)
(* event-bus: publishers, Subscribe streams and Unsubscribe calls over the  *)
(* table of subscribers.  The table is only touched under subMutex, but a   *)
(* publisher takes a snapshot of the matching subscribers and sends to      *)
(* their channels after it has unlocked, a stream that was removed keeps    *)
(* its channel, and the deferred cleanup of a stream runs after others may  *)
(* have removed it.  Events are numbered per publisher, in the order it     *)
(* publishes them (Publish or PublishBatch).                                *)
(***************************************************************************)
EXTENDS Naturals, SequencesExt, FiniteSetsExt, Functions

CONSTANTS Streams,       \* Subscribe calls
          Client,        \* Client[s]: SubscribeRequest.subscriber_id; may repeat
          Pattern,       \* Pattern[s]: the topic pattern of s
          Filtered,      \* Filtered[s]: the event numbers its filters reject
          Publishers,
          Matched,       \* Matched[p]: the patterns that match the topic p publishes to
          MaxEvents,     \* bound: MaxEvents[p], how many events p publishes
          QueueSize,     \* bus.queue_size
          Lineups        \* the sets of streams to explore

ASSUME BusAssumption ==
    /\ IsFiniteSet(Streams) /\ IsFiniteSet(Publishers)
    /\ Pattern \in [Streams -> Range(Pattern)]
    /\ Lineups \subseteq SUBSET Streams
    /\ MaxEvents \in [Publishers -> Nat]
    /\ QueueSize \in Nat \ {0}

VARIABLES lineup,   \* the streams that come in this behaviour
          table,    \* subscribers: pattern -> sequence of streams
          loop,     \* Subscribe: "off", "select", "send", "cleanup", "gone"
          chan,     \* EventCh: sequence of events <<publisher, number>>
          quit,     \* how often QuitCh was closed; twice is a panic
          cancelled,\* the stream's context is done
          stalled,  \* streams whose client neither reads nor disconnects: Send blocks
          wire,     \* history: wire[s][p], the numbers of p's events given to s's Send
          count,    \* count[p]: events p has published
          todo,     \* the rest of p's snapshot: the lists of the patterns, none empty
          tally,    \* p's local delivered and dropped
          stats     \* DeliveredCount and DroppedCount, summed over the topics

vars == <<lineup, table, loop, chan, quit, cancelled, stalled, wire, count, todo, tally, stats>>

Patterns == Range(Pattern)
Idle == << << >> >>   \* todo of a publisher that is not publishing: no snapshot
Counts == [delivered : Nat, dropped : Nat]
Zero == [delivered |-> 0, dropped |-> 0]
Listed == UNION {ToSet(table[t]) : t \in Patterns}
Events == Publishers \X Nat

TypeOK ==
    /\ table \in [Patterns -> Seq(Streams)]
    /\ loop \in [Streams -> {"off", "select", "send", "cleanup", "gone"}]
    /\ chan \in [Streams -> Seq(Events)]
    /\ \A s \in Streams : Len(chan[s]) <= QueueSize
    /\ quit \in [Streams -> Nat]
    /\ cancelled \subseteq Streams
    /\ lineup \in Lineups /\ stalled \subseteq lineup
    /\ wire \in [Streams -> [Publishers -> Seq(Nat)]]
    /\ count \in [Publishers -> Nat]
    /\ \A s \in Streams, p \in Publishers :
          \A i \in DOMAIN wire[s][p] : wire[s][p][i] \in 1..count[p]
    /\ todo \in [Publishers -> Seq(Seq(Streams))]
    /\ tally \in [Publishers -> Counts]
    /\ \A p \in Publishers : tally[p].delivered + tally[p].dropped <= Cardinality(Streams)
    /\ stats \in Counts

Init ==
    /\ table = [t \in Patterns |-> << >>]
    /\ loop = [s \in Streams |-> "off"]
    /\ chan = [s \in Streams |-> << >>]
    /\ quit = [s \in Streams |-> 0]
    /\ cancelled = {}
    /\ \E l \in Lineups : lineup = l /\ stalled \in SUBSET l
    /\ wire = [s \in Streams |-> [p \in Publishers |-> << >>]]
    /\ count = [p \in Publishers |-> 0]
    /\ todo = [p \in Publishers |-> Idle]
    /\ tally = [p \in Publishers |-> Zero]
    /\ stats = Zero

-----------------------------------------------------------------------------
(* Publish.                                                                 *)

\* The lists of the matching patterns, in the order the map is ranged over; a
\* pattern without subscribers is not in the map.
Snapshots(p) ==
    {[i \in DOMAIN order |-> table[order[i]]] :
        order \in SetToSeqs({t \in Matched[p] \cap Patterns : table[t] # << >>})}

\* The snapshot without its first subscriber.
Rest(snap) == IF Len(Head(snap)) = 1 THEN Tail(snap) ELSE [snap EXCEPT ![1] = Tail(@)]

\* publishEvent up to the RUnlock.
Publish(p) ==
    /\ todo[p] = Idle
    /\ count[p] < MaxEvents[p]
    /\ count' = [count EXCEPT ![p] = @ + 1]
    /\ \E snap \in Snapshots(p) : todo' = [todo EXCEPT ![p] = snap]
    /\ UNCHANGED <<lineup, table, loop, chan, quit, cancelled, stalled, wire, tally, stats>>

\* Mutant: the channel has no bound.
Mut_unbounded_channel(p) ==
    /\ todo[p] \notin {Idle, << >>}
    /\ LET s == Head(Head(todo[p])) IN
       IF count[p] \in Filtered[s]
       THEN UNCHANGED <<chan, tally>>
       ELSE IF TRUE
       THEN /\ chan' = [chan EXCEPT ![s] = Append(@, <<p, count[p]>>)]
            /\ tally' = [tally EXCEPT ![p].delivered = @ + 1]
       ELSE /\ tally' = [tally EXCEPT ![p].dropped = @ + 1]
            /\ UNCHANGED chan
    /\ todo' = [todo EXCEPT ![p] = Rest(@)]
    /\ UNCHANGED <<lineup, table, loop, quit, cancelled, stalled, wire, count, stats>>

\* Mutant: the send has no default branch.
Mut_blocking_send(p) ==
    /\ todo[p] \notin {Idle, << >>}
    /\ LET s == Head(Head(todo[p])) IN
       IF count[p] \in Filtered[s]
       THEN UNCHANGED <<chan, tally>>
       ELSE IF Len(chan[s]) < QueueSize
       THEN /\ chan' = [chan EXCEPT ![s] = Append(@, <<p, count[p]>>)]
            /\ tally' = [tally EXCEPT ![p].delivered = @ + 1]
       ELSE FALSE
    /\ todo' = [todo EXCEPT ![p] = Rest(@)]
    /\ UNCHANGED <<lineup, table, loop, quit, cancelled, stalled, wire, count, stats>>

\* One turn of the delivery loop: filtered out, queued, or dropped at once.
Deliver(p) ==
    /\ todo[p] \notin {Idle, << >>}
    /\ LET s == Head(Head(todo[p])) IN
       IF count[p] \in Filtered[s]
       THEN UNCHANGED <<chan, tally>>
       ELSE IF Len(chan[s]) < QueueSize
       THEN /\ chan' = [chan EXCEPT ![s] = Append(@, <<p, count[p]>>)]
            /\ tally' = [tally EXCEPT ![p].delivered = @ + 1]
       ELSE /\ tally' = [tally EXCEPT ![p].dropped = @ + 1]
            /\ UNCHANGED chan
    /\ todo' = [todo EXCEPT ![p] = Rest(@)]
    /\ UNCHANGED <<lineup, table, loop, quit, cancelled, stalled, wire, count, stats>>

\* Mutant: a dropped event counts as delivered.
Mut_drops_delivered(p) ==
    /\ todo[p] = << >>
    /\ stats' = [delivered |-> stats.delivered + tally[p].delivered + tally[p].dropped,
                 dropped |-> stats.dropped + tally[p].dropped]
    /\ tally' = [tally EXCEPT ![p] = Zero]
    /\ todo' = [todo EXCEPT ![p] = Idle]
    /\ UNCHANGED <<lineup, table, loop, chan, quit, cancelled, stalled, wire, count>>

\* The counters, and the response.
Publishes(p) ==
    /\ todo[p] = << >>
    /\ stats' = [delivered |-> stats.delivered + tally[p].delivered,
                 dropped |-> stats.dropped + tally[p].dropped]
    /\ tally' = [tally EXCEPT ![p] = Zero]
    /\ todo' = [todo EXCEPT ![p] = Idle]
    /\ UNCHANGED <<lineup, table, loop, chan, quit, cancelled, stalled, wire, count>>

-----------------------------------------------------------------------------
(* Subscribe.                                                               *)

Subscribe(s) ==
    /\ s \in lineup
    /\ loop[s] = "off"
    /\ table' = [table EXCEPT ![Pattern[s]] = Append(@, s)]
    /\ loop' = [loop EXCEPT ![s] = "select"]
    /\ UNCHANGED <<lineup, chan, quit, cancelled, stalled, wire, count, todo, tally, stats>>

\* Mutant: the event stays in the channel.
Mut_peek(s) ==
    /\ loop[s] = "select"
    /\ chan[s] # << >>
    /\ UNCHANGED chan
    /\ LET e == Head(chan[s]) IN wire' = [wire EXCEPT ![s][e[1]] = Append(@, e[2])]
    /\ loop' = [loop EXCEPT ![s] = "send"]
    /\ UNCHANGED <<lineup, table, quit, cancelled, stalled, count, todo, tally, stats>>

\* The select takes an event and calls Send ...
Receive(s) ==
    /\ loop[s] = "select"
    /\ chan[s] # << >>
    /\ chan' = [chan EXCEPT ![s] = Tail(@)]
    /\ LET e == Head(chan[s]) IN wire' = [wire EXCEPT ![s][e[1]] = Append(@, e[2])]
    /\ loop' = [loop EXCEPT ![s] = "send"]
    /\ UNCHANGED <<lineup, table, quit, cancelled, stalled, count, todo, tally, stats>>

\* Mutant: the loop does not watch QuitCh.
Mut_quit_ignored(s) ==
    /\ loop[s] = "select"
    /\ s \in cancelled
    /\ loop' = [loop EXCEPT ![s] = "cleanup"]
    /\ UNCHANGED <<lineup, table, chan, quit, cancelled, stalled, wire, count, todo, tally, stats>>

\* ... or sees QuitCh or the context, whichever of the ready ones.
Quit(s) ==
    /\ loop[s] = "select"
    /\ quit[s] > 0 \/ s \in cancelled
    /\ loop' = [loop EXCEPT ![s] = "cleanup"]
    /\ UNCHANGED <<lineup, table, chan, quit, cancelled, stalled, wire, count, todo, tally, stats>>

\* Send returns: done, or failed because the stream is gone.  A client that
\* stalls keeps it inside.
Sent(s) ==
    /\ loop[s] = "send"
    /\ s \notin stalled
    /\ \/ loop' = [loop EXCEPT ![s] = "select"]
       \/ s \in cancelled /\ loop' = [loop EXCEPT ![s] = "cleanup"]
    /\ UNCHANGED <<lineup, table, chan, quit, cancelled, stalled, wire, count, todo, tally, stats>>

\* Mutant: removal by subscriber id.
Mut_cleanup_by_id(s) ==
    /\ loop[s] = "cleanup"
    /\ table' = [table EXCEPT ![Pattern[s]] = SelectSeq(@, LAMBDA x : Client[x] # Client[s])]
    /\ loop' = [loop EXCEPT ![s] = "gone"]
    /\ UNCHANGED <<lineup, chan, quit, cancelled, stalled, wire, count, todo, tally, stats>>

\* removeSubscriber: by pointer, if it is still there.
Cleanup(s) ==
    /\ loop[s] = "cleanup"
    /\ \/ /\ s \notin ToSet(table[Pattern[s]])
          /\ UNCHANGED table
       \/ \E i \in DOMAIN table[Pattern[s]] :
             /\ table[Pattern[s]][i] = s
             /\ \A k \in 1..(i - 1) : table[Pattern[s]][k] # s
             /\ table' = [table EXCEPT ![Pattern[s]] = RemoveAt(@, i)]
    /\ loop' = [loop EXCEPT ![s] = "gone"]
    /\ UNCHANGED <<lineup, chan, quit, cancelled, stalled, wire, count, todo, tally, stats>>

\* Mutant: the stream is left to remove itself.
Mut_not_removed(s) ==
    /\ \E i \in DOMAIN table[Pattern[s]] :
          /\ table[Pattern[s]][i] = s
          /\ \A k \in 1..(i - 1) : Client[table[Pattern[s]][k]] # Client[s]
    /\ quit' = [quit EXCEPT ![s] = @ + 1]
    /\ UNCHANGED <<lineup, table, loop, chan, cancelled, stalled, wire, count, todo, tally, stats>>

\* Unsubscribe: the first stream of that client on that pattern is told to quit
\* and leaves the table, in one critical section.
Unsubscribe(s) ==
    /\ \E i \in DOMAIN table[Pattern[s]] :
          /\ table[Pattern[s]][i] = s
          /\ \A k \in 1..(i - 1) : Client[table[Pattern[s]][k]] # Client[s]
          /\ table' = [table EXCEPT ![Pattern[s]] = RemoveAt(@, i)]
    /\ quit' = [quit EXCEPT ![s] = @ + 1]
    /\ UNCHANGED <<lineup, loop, chan, cancelled, stalled, wire, count, todo, tally, stats>>

\* The client disconnects, or the server is stopped.
Cancel(s) ==
    /\ loop[s] \notin {"off", "gone"}
    /\ s \notin cancelled
    /\ s \notin stalled
    /\ cancelled' = cancelled \cup {s}
    /\ UNCHANGED <<lineup, table, loop, chan, quit, stalled, wire, count, todo, tally, stats>>

Next ==
    \/ \E p \in Publishers : Publish(p) \/ Deliver(p) \/ Publishes(p)
    \/ \E s \in Streams : \/ Subscribe(s) \/ Receive(s) \/ Quit(s) \/ Sent(s)
                          \/ Cleanup(s) \/ Unsubscribe(s) \/ Cancel(s)

\* A publisher that has begun goes on, and so does a stream's goroutine, whose
\* Send returns to clients that do not stall.
Fairness ==
    /\ \A p \in Publishers : WF_vars(Deliver(p) \/ Publishes(p))
    /\ \A s \in Streams : WF_vars(Receive(s) \/ Quit(s) \/ Sent(s) \/ Cleanup(s))

Spec == Init /\ [][Next]_vars /\ Fairness

-----------------------------------------------------------------------------
(* Properties.                                                              *)

\* QuitCh is closed at most once, by whatever mix of Unsubscribe calls,
\* streams that share a subscriber id, and streams that end by themselves: a
\* second close would panic the service.
QuitClosedOnce == \A s \in Streams : quit[s] <= 1

\* The table lists exactly the streams that have begun, are not cleaned up and
\* were not unsubscribed, each once: nothing leaks when a stream ends after
\* its Unsubscribe, and nobody's cleanup removes another stream with its id.
TableExact ==
    /\ Listed = {s \in Streams : loop[s] \notin {"off", "gone"} /\ quit[s] = 0}
    /\ \A t \in Patterns : IsInjective(table[t])

\* Each stream gets the events of a publisher at most once and in the order
\* they were published, gaps being drops, however snapshots of several
\* publishers, resubscriptions and removals interleave: so it is of what was
\* sent, of what is queued, and of the one after the other.
InOrderOnce ==
    \A s \in Streams, p \in Publishers :
       /\ \A i, k \in DOMAIN wire[s][p] : i < k => wire[s][p][i] < wire[s][p][k]
       /\ \A i, k \in DOMAIN chan[s] :
             i < k /\ chan[s][i][1] = p /\ chan[s][k][1] = p => chan[s][i][2] < chan[s][k][2]
       /\ \A i \in DOMAIN wire[s][p], k \in DOMAIN chan[s] :
             chan[s][k][1] = p => wire[s][p][i] < chan[s][k][2]

\* The sum of f over its domain, as the number of units below its values.
Units(f) == UNION {{x} \X (1..f[x]) : x \in DOMAIN f}
Total(f) == Cardinality(Units(f))

\* DeliveredCount, with what publishers have yet to add, is what reached some
\* channel: the events sent on and those queued, streams that left included.
Owed == [p \in Publishers |-> tally[p].delivered]
Queued == [s \in Streams |-> Len(chan[s])]
SentOn == [sp \in Streams \X Publishers |-> Len(wire[sp[1]][sp[2]])]
DeliveredExact == stats.delivered + Total(Owed) = Total(Queued) + Total(SentOn)

\* A publisher gets its response, whichever subscribers have stalled.
PublishReturns == \A p \in Publishers : todo[p] # Idle ~> todo[p] = Idle

\* A stream that is unsubscribed or cancelled ends, events in its channel or
\* on their way to it notwithstanding, unless its client has stalled.
StreamEnds ==
    \A s \in Streams : (quit[s] > 0 \/ s \in cancelled) /\ s \notin stalled ~> loop[s] = "gone"
=============================================================================
