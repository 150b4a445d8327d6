-------------------------- MODULE InferRuntimeJobs --------------------------
(***************************************************************************)
(* The inductive invariant of InferRuntime, and that every step of a       *)
(* request keeps it (those that leave the registry alone, and those that   *)
(* take a reference to a model or give it back), and of the shutdown.      *)
(***************************************************************************)
EXTENDS InferRuntime, TLAPS

\* Where the completion of a request stands: held until it ran, and run once.
Ahead(j, hd, n) == j \in {"complete", "pooled", "inline"} /\ hd /\ n = 0
Behind(j, hd, n) == j \in {"tail", "pooltail", "over"} /\ ~hd /\ n = 1

\* The places an Infer can be in: submitter s, HAL h, gate p, completion j,
\* owners of the callback state k, reference held hd, completions run n,
\* session i.
Worked(s, h, p, j, k, hd, n, i) ==
    LET owners2 == IF s = "over" THEN 1 ELSE 2 IN
    \/ /\ s \in {"none", "queued", "taken"} /\ h = "none" /\ p = "Submitting" /\ j = "none"
       /\ k = 0 /\ ~hd /\ n = 0 /\ i = 0
    \/ /\ s = "run" /\ j = "none" /\ k = 2 /\ hd /\ n = 0
       /\ (h = "none" /\ p = "Submitting") \/ (h = "fired" /\ p = "CallbackDeferred")
    \/ s = "sync" /\ h = "none" /\ p = "Cancelled" /\ j = "none" /\ k = 0 /\ hd /\ n = 0
    \/ s = "busy" /\ h = "none" /\ j = "complete" /\ k = 0 /\ n = 0 /\ (hd \/ i = 0)
    \/ s \in {"busy", "over"} /\ h = "none" /\ j = "over" /\ k = 0 /\ ~hd /\ n = 1
    \/ /\ s \in {"unref", "over"} /\ h = "due" /\ p = "Submitted" /\ j = "none"
       /\ k = owners2 /\ hd /\ n = 0
    \/ /\ s \in {"busy", "unref", "over"} /\ h = "fired" /\ p = "Completing"
       /\ \/ j = "complete" /\ k = owners2 /\ hd /\ n = 0
          \/ j = "release" /\ k = owners2 /\ ~hd /\ n = 1
          \/ j = "over" /\ k = owners2 - 1 /\ ~hd /\ n = 1
          \/ j = "tail" /\ s = "over" /\ k = 0 /\ ~hd /\ n = 1

\* ... a batch item ...
Itemised(s, h, p, j, hd, n) ==
    \/ s = "none" /\ h = "none" /\ p = "Submitting" /\ j = "none" /\ n = 0
    \/ /\ s = "run" /\ j = "none" /\ hd /\ n = 0
       /\ (h = "none" /\ p = "Submitting") \/ (h = "fired" /\ p = "CallbackDeferred")
    \/ s = "over" /\ h = "none" /\ j = "none" /\ ~hd /\ n = 1
    \/ s = "over" /\ h = "due" /\ p = "Submitted" /\ j = "none" /\ hd /\ n = 0
    \/ /\ s \in {"busy", "over"} /\ h = "fired" /\ p = "Completing"
       /\ Ahead(j, hd, n) \/ Behind(j, hd, n)

\* ... and a group, which has no gate.
Grouped(s, h, p, j, hd, n) ==
    /\ p = "Submitting"
    /\ \/ s = "none" /\ h = "none" /\ j = "none" /\ n = 0
       \/ s = "run" /\ h = "none" /\ j = "none" /\ hd /\ n = 0
       \/ s = "over" /\ h = "none" /\ j = "none" /\ ~hd /\ n = 1
       \/ s = "over" /\ h = "due" /\ j = "none" /\ hd /\ n = 0
       \/ s \in {"run", "over"} /\ h = "fired" /\ (Ahead(j, hd, n) \/ Behind(j, hd, n))

\* The RPC c of an Infer holds the guard's reference g while it waits; the RPC
\* of a batch waits for its submission.
Called(c, g, s) == /\ g <=> c \in {"ready", "wait"}
                   /\ c \in {"idle", "ready"} => s = "none"
                   /\ c = "wait" => s # "none"
Batched(c, g, s, hd) == /\ ~g /\ c # "wait"
                        /\ c = "idle" => s = "none"
                        /\ c = "gone" => s \in {"none", "over"}
                        /\ s = "none" => (hd <=> c = "ready")

\* A request is in one of the places of its kind.
Life(r) ==
    \/ /\ Kind(r) = "infer"
       /\ Worked(sub[r], hal[r], phase[r], job[r], refs[r], held[r], fired[r], infer[r])
       /\ Called(call[r], guard[r], sub[r])
    \/ /\ Kind(r) # "infer" /\ refs[r] = 0
       /\ Batched(call[r], guard[r], sub[r], held[r])
       /\ IF Kind(r) = "item" THEN Itemised(sub[r], hal[r], phase[r], job[r], held[r], fired[r])
                              ELSE Grouped(sub[r], hal[r], phase[r], job[r], held[r], fired[r])
Lives == \A r \in Requests : Life(r)

\* The completion of an Infer runs: its reference is given back.
LEMMA WorkedDone ==
  ASSUME NEW s, NEW h, NEW p, NEW k, NEW hd, NEW n, NEW i,
         Worked(s, h, p, "complete", k, hd, n, i)
  PROVE  /\ s # "none"
         /\ Worked(s, h, p, IF k = 0 THEN "over" ELSE "release", k, FALSE, n + 1, i)
<1>1. CASE s = "busy" /\ h = "none" /\ k = 0 /\ n = 0
  BY <1>1 DEF Worked
<1>2. CASE /\ s \in {"busy", "unref", "over"} /\ h = "fired" /\ p = "Completing" /\ n = 0
           /\ k = IF s = "over" THEN 1 ELSE 2
  BY <1>2 DEF Worked
<1> QED
  BY <1>1, <1>2, Zenon DEF Worked

\* What async_in_flight_ counts.
Counts(r) == IF Kind(r) = "infer" THEN refs[r] > 0
             ELSE Kind(r) = "item" /\ held[r] /\ sub[r] # "none"
Counted == inFlight = Cardinality({r \in Requests : Counts(r)})

\* The queue lists the queued requests, each once; a submission under way has its
\* worker.
Lines ==
    /\ \A i \in DOMAIN queue : sub[queue[i]] = "queued"
    /\ \A i, k \in DOMAIN queue : queue[i] = queue[k] => i = k
    /\ \A r \in Requests : sub[r] = "queued" => \E i \in DOMAIN queue : queue[i] = r
    /\ \A r \in Requests : Kind(r) = "infer" /\ sub[r] \notin {"none", "queued", "over"} =>
          \E w \in Workers : worker[w] = r

\* What shutdown_runtime has waited for at each of its steps.
Stages ==
    /\ stage \notin {"serving", "closing"} => \A r \in Requests : call[r] \in {"idle", "gone"}
    /\ stage \notin {"serving", "closing", "stopping"} =>
          \A r \in Requests : sub[r] \in {"none", "over"}
    /\ stage \in {"pooling", "destroyed"} => \A r \in Requests : ~Counts(r)
    /\ stage = "destroyed" => \A r \in Requests : job[r] \notin {"pooled", "pooltail"}

\* The registry names sessions that were created; a reference keeps the inference
\* session that was captured under it.
Known == \A id \in DOMAIN models : models[id].infer <= made /\ models[id].post <= made
Captured == \A r \in Requests : held[r] => models[Model(r)].infer = infer[r]

\* With one owner, the postprocess session is set once, before anybody captures it,
\* and a reference keeps it.
Sole == Cardinality(plan.who) = 1
SoleOwner == Sole => \A o \in plan.who :
    /\ DOMAIN models \subseteq {Offer[o].id}
    /\ reg[o] = "init" /\ Registered(Offer[o].id) => models[Offer[o].id].post = 0
PostKept == Sole => \A r \in Requests :
    post[r] # 0 /\ (guard[r] \/ (held[r] /\ Kind(r) # "infer")) => models[Model(r)].post = post[r]

\* The inductive invariant.  After the destructors nothing is said of the registry.
RegInv == ~Ended => (Known /\ Captured /\ SoleOwner /\ PostKept)
JobInv == Lives /\ Counted /\ Lines /\ Stages
IInv == TypeOK /\ JobInv /\ RefsBalanced /\ SessionsShared /\ RegInv

\* What the proofs use of finite sets; InferRuntimeProofs has it from the library.
SetFacts ==
    /\ \A S : IsFiniteSet(S) => /\ Cardinality(S) \in Nat
                                /\ \A T \in SUBSET S : IsFiniteSet(T)
                                /\ Cardinality(S) = 0 <=> S = {}
                                /\ Cardinality(S) = 1 => \E x : S = {x}
    /\ \A S, x : IsFiniteSet(S) /\ x \notin S =>
          IsFiniteSet(S \cup {x}) /\ Cardinality(S \cup {x}) = Cardinality(S) + 1
    /\ IsFiniteSet({})

-----------------------------------------------------------------------------
(* Finite sets.                                                            *)

\* SetFacts, one fact at a time.
LEMMA FinSubset ==
  ASSUME SetFacts, NEW S, IsFiniteSet(S), NEW T \in SUBSET S
  PROVE  IsFiniteSet(T)
BY Zenon DEF SetFacts

LEMMA FinCard ==
  ASSUME SetFacts, NEW S, IsFiniteSet(S)
  PROVE  Cardinality(S) \in Nat
BY Zenon DEF SetFacts

LEMMA FinEmpty ==
  ASSUME SetFacts
  PROVE  /\ Cardinality({}) = 0
         /\ \A S : IsFiniteSet(S) => (Cardinality(S) = 0 <=> S = {})
BY Zenon DEF SetFacts

LEMMA FinOne ==
  ASSUME SetFacts, NEW S, IsFiniteSet(S), Cardinality(S) = 1
  PROVE  \E x : S = {x}
BY Zenon DEF SetFacts

LEMMA FinAdd ==
  ASSUME SetFacts, NEW S, IsFiniteSet(S), NEW x, x \notin S
  PROVE  Cardinality(S \cup {x}) = Cardinality(S) + 1
BY Zenon DEF SetFacts

\* A set loses a member.
LEMMA FinRemove ==
  ASSUME SetFacts, NEW S, IsFiniteSet(S), NEW x \in S
  PROVE  Cardinality(S \ {x}) = Cardinality(S) - 1
<1>1. PICK T : T = S \ {x}
  BY Zenon
<1>2. S = T \cup {x} /\ x \notin T /\ T \in SUBSET S
  BY <1>1, Zenon
<1>3. IsFiniteSet(T) /\ Cardinality(T) \in Nat
  BY <1>2, FinSubset, FinCard, Zenon
<1>4. Cardinality(S) = Cardinality(T) + 1
  BY <1>2, <1>3, FinAdd, Zenon
<1> QED
  BY <1>1, <1>3, <1>4

-----------------------------------------------------------------------------
(* One request moves.                                                      *)

\* Nothing about request x changes.
Same(x) ==
    /\ call'[x] = call[x] /\ guard'[x] = guard[x] /\ held'[x] = held[x] /\ sub'[x] = sub[x]
    /\ hal'[x] = hal[x] /\ phase'[x] = phase[x] /\ job'[x] = job[x] /\ refs'[x] = refs[x]
    /\ fired'[x] = fired[x] /\ infer'[x] = infer[x]

\* async_in_flight_ follows what r counts for.
Tallied(r) ==
    \/ (Counts(r)' <=> Counts(r)) /\ inFlight' = inFlight
    \/ Counts(r)' /\ ~Counts(r) /\ inFlight' = inFlight + 1
    \/ ~Counts(r)' /\ Counts(r) /\ inFlight' = inFlight - 1

\* A request is of one of three kinds and names a model.
LEMMA Kinds ==
  ASSUME TypeOK, NEW r \in Requests
  PROVE  Kind(r) \in {"infer", "item", "group"} /\ Model(r) \in Ids
BY RuntimeAssumption DEF TypeOK, Kind, Model

\* A request nothing happens to stays what it is.
LEMMA LifeSame ==
  ASSUME NEW x, plan' = plan, Same(x)
  PROVE  (Life(x) => Life(x)') /\ (Counts(x)' <=> Counts(x)) /\ Kind(x)' = Kind(x)
BY Zenon DEF Same, Life, Counts, Kind

\* The counter stays the number of requests it counts.
LEMMA CountedStep ==
  ASSUME SetFacts, TypeOK, Counted, plan' = plan, NEW r \in Requests,
         \A x \in Requests \ {r} : Same(x), Tallied(r)
  PROVE  Counted'
<1>1. PICK S : S = {x \in Requests : Counts(x)}
  BY Zenon
<1>2. PICK T : T = {x \in Requests : Counts(x)'}
  BY Zenon
<1>3. \A x \in Requests \ {r} : Counts(x)' <=> Counts(x)
  BY LifeSame, Zenon
<1>4. IsFiniteSet(S) /\ Cardinality(S) \in Nat
  BY <1>1, RuntimeAssumption, FinSubset, FinCard, Zenon
<1>5. inFlight = Cardinality(S)
  BY <1>1, Zenon DEF Counted
<1>6. inFlight' = Cardinality(T)
  <2>1. CASE (Counts(r)' <=> Counts(r)) /\ inFlight' = inFlight
    <3>1. S = T
      BY <1>1, <1>2, <1>3, <2>1, Zenon
    <3> QED
      BY <1>5, <2>1, <3>1, Zenon
  <2>2. CASE Counts(r)' /\ ~Counts(r) /\ inFlight' = inFlight + 1
    <3>1. T = S \cup {r} /\ r \notin S
      BY <1>1, <1>2, <1>3, <2>2, Zenon
    <3> QED
      BY <1>4, <1>5, <2>2, <3>1, FinAdd, Zenon
  <2>3. CASE ~Counts(r)' /\ Counts(r) /\ inFlight' = inFlight - 1
    <3>1. T = S \ {r} /\ r \in S
      BY <1>1, <1>2, <1>3, <2>3, Zenon
    <3> QED
      BY <1>4, <1>5, <2>3, <3>1, FinRemove, Zenon
  <2> QED
    BY <2>1, <2>2, <2>3, Zenon DEF Tallied
<1> QED
  BY <1>2, <1>6, Zenon DEF Counted

\* It is never negative.
LEMMA CountNat ==
  ASSUME SetFacts, JobInv'
  PROVE  inFlight' \in Nat
<1>1. PICK T : T = {x \in Requests : Counts(x)'}
  BY Zenon
<1>2. IsFiniteSet(T) /\ Cardinality(T) \in Nat
  BY <1>1, RuntimeAssumption, FinSubset, FinCard, Zenon
<1> QED
  BY <1>1, <1>2, Zenon DEF JobInv, Counted

\* What is left to show when one request moves: that it lives on, is counted,
\* and respects the shutdown ...
LEMMA LivesStep ==
  ASSUME SetFacts, TypeOK, JobInv, NEW r \in Requests, UNCHANGED <<plan, stage>>,
         \A x \in Requests \ {r} : Same(x), Life(r)', Tallied(r),
         stage # "destroyed",
         stage \notin {"serving", "closing"} => call'[r] \in {"idle", "gone"},
         stage \notin {"serving", "closing", "stopping"} => sub'[r] \in {"none", "over"},
         stage = "pooling" => ~Counts(r)'
  PROVE  Lives' /\ Counted' /\ Stages'
<1>1. Lives /\ Counted /\ Stages
  BY Zenon DEF JobInv
<1>2. \A x \in Requests \ {r} : /\ Life(x) => Life(x)'
                                /\ Counts(x)' <=> Counts(x)
                                /\ sub'[x] = sub[x] /\ call'[x] = call[x]
  BY LifeSame, Zenon DEF Same
<1>3. Lives'
  BY <1>1, <1>2, Zenon DEF Lives
<1>4. Counted'
  BY <1>1, CountedStep, Zenon
<1>5. Stages'
  BY <1>1, <1>2, Zenon DEF Stages
<1> QED
  BY <1>3, <1>4, <1>5, Zenon

\* ... and, unless it is queued or taken, that an Infer is with a worker.
LEMMA JobStep ==
  ASSUME SetFacts, TypeOK, JobInv, NEW r \in Requests, UNCHANGED <<plan, stage, queue, worker>>,
         \A x \in Requests \ {r} : Same(x), Life(r)', Tallied(r),
         \/ sub'[r] = sub[r]
         \/ /\ sub[r] # "queued" /\ sub'[r] # "queued"
            /\ Kind(r) = "infer" => sub[r] \notin {"none", "over"},
         stage # "destroyed",
         stage \notin {"serving", "closing"} => call'[r] \in {"idle", "gone"},
         stage \notin {"serving", "closing", "stopping"} => sub'[r] \in {"none", "over"},
         stage = "pooling" => ~Counts(r)'
  PROVE  JobInv'
<1>1. Lines /\ \A x \in Requests \ {r} : sub'[x] = sub[x]
  BY Zenon DEF JobInv, Same
<1>2. queue' = queue /\ worker' = worker /\ \A x : Kind(x)' = Kind(x)
  BY Zenon DEF Kind
<1>3. \A i \in DOMAIN queue : queue[i] \in Requests
  BY DEF TypeOK
<1>4. \A i \in DOMAIN queue : sub[queue[i]] = "queued"
  BY <1>1, Zenon DEF Lines
<1>5. \A x \in Requests : sub'[x] = "queued" <=> sub[x] = "queued"
  BY <1>1, Zenon
<1>6. ASSUME NEW x \in Requests, Kind(x) = "infer", sub'[x] \notin {"none", "queued", "over"}
      PROVE  sub[x] \notin {"none", "queued", "over"}
  BY <1>1, <1>6, Zenon
<1>7. \A i \in DOMAIN queue : sub'[queue[i]] = "queued"
  BY <1>3, <1>4, <1>5, Zenon
<1>8. \A x \in Requests : sub'[x] = "queued" => \E i \in DOMAIN queue : queue[i] = x
  BY <1>1, <1>5, Zenon DEF Lines
<1>9. ASSUME NEW x \in Requests, Kind(x) = "infer", sub'[x] \notin {"none", "queued", "over"}
      PROVE  \E w \in Workers : worker[w] = x
  BY <1>1, <1>6, <1>9, Zenon DEF Lines
<1>10. Lines'
  BY <1>1, <1>2, <1>7, <1>8, <1>9 DEF Lines
<1> QED
  BY <1>10, LivesStep, Zenon DEF JobInv

\* The registry and what the requests hold of it do not change.
LEMMA RegistrySame ==
  ASSUME UNCHANGED <<registry, plan, guard, held, infer, post>>, Ended' <=> Ended,
         RefsBalanced, SessionsShared, RegInv
  PROVE  RefsBalanced' /\ SessionsShared' /\ RegInv'
<1>1. UNCHANGED <<models, owners, made, inferRefs, postRefs, reg>>
  BY Zenon DEF registry
<1>2. RefsBalanced'
  BY <1>1, Zenon DEF RefsBalanced, Count, Registered, Model
<1>3. SessionsShared'
  BY <1>1, Zenon DEF SessionsShared, Count
<1>4. RegInv'
  BY <1>1, Zenon DEF RegInv, Known, Captured, SoleOwner, PostKept, Sole, Registered, Model, Kind
<1> QED
  BY <1>2, <1>3, <1>4, Zenon

-----------------------------------------------------------------------------
(* Steps that leave the registry alone.                                    *)

\* run_async returns HAL_OK.
LEMMA AcceptedKeeps ==
  ASSUME SetFacts, IInv, ~Ended, NEW r \in Requests, Accepted(r)
  PROVE  IInv'
<1>1. TypeOK /\ JobInv /\ Life(r) /\ Stages
  BY Zenon DEF IInv, JobInv, Lives
<1>2. TypeOK'
  BY <1>1, Zenon DEF Accepted, TypeOK, RegistryTypeOK, registry
<1>3. \A x \in Requests \ {r} : Same(x)
  BY <1>1 DEF Accepted, TypeOK, Same
<1>4. /\ phase'[r] = IF Gated(r) THEN "Submitted" ELSE phase[r]
      /\ hal'[r] = IF hal[r] = "none" THEN "due" ELSE hal[r]
      /\ sub'[r] = IF Kind(r) = "infer" THEN "unref" ELSE "over"
      /\ sub[r] = "run" /\ phase[r] = "Submitting"
      /\ UNCHANGED <<plan, stage, queue, worker, call, guard, held, job, refs, inFlight, fired, infer>>
  BY <1>1 DEF Accepted, TypeOK
<1>5. Life(r)'
  <2>1. CASE Kind(r) = "infer"
    BY <1>1, <1>4, <2>1, Zenon DEF Life, Worked, Called, Kind, Gated
  <2>2. CASE Kind(r) = "item"
    BY <1>1, <1>4, <2>2, Zenon DEF Life, Itemised, Batched, Kind, Gated
  <2>3. CASE Kind(r) = "group"
    BY <1>1, <1>4, <2>3, Zenon DEF Life, Grouped, Batched, Kind, Gated
  <2> QED
    BY <1>1, <2>1, <2>2, <2>3, Kinds, Zenon
<1>6. Tallied(r)
  BY <1>4, Zenon DEF Tallied, Counts, Kind
<1>7. JobInv'
  BY <1>1, <1>3, <1>4, <1>5, <1>6, JobStep, Zenon DEF Stages, Ended
<1> QED
  BY <1>1, <1>2, <1>7, RegistrySame, Zenon DEF Accepted, IInv, Ended

\* run_async returns after its callback was deferred.
LEMMA CompleteHereKeeps ==
  ASSUME SetFacts, IInv, ~Ended, NEW r \in Requests, CompleteHere(r)
  PROVE  IInv'
<1>1. TypeOK /\ JobInv /\ Life(r) /\ Stages
  BY Zenon DEF IInv, JobInv, Lives
<1>2. TypeOK'
  BY <1>1, Zenon DEF CompleteHere, TypeOK, RegistryTypeOK, registry
<1>3. \A x \in Requests \ {r} : Same(x)
  BY <1>1 DEF CompleteHere, TypeOK, Same
<1>4. /\ sub[r] = "run" /\ phase[r] = "CallbackDeferred"
      /\ phase'[r] = "Completing" /\ job'[r] = "complete" /\ sub'[r] = "busy"
      /\ UNCHANGED <<plan, stage, queue, worker, call, guard, held, hal, refs, inFlight, fired, infer>>
  BY <1>1 DEF CompleteHere, TypeOK
<1>5. Life(r)'
  <2>1. CASE Kind(r) = "infer"
    BY <1>1, <1>4, <2>1, Zenon DEF Life, Worked, Called, Kind
  <2>2. CASE Kind(r) = "item"
    BY <1>1, <1>4, <2>2, Zenon DEF Life, Itemised, Batched, Ahead, Kind
  <2>3. CASE Kind(r) = "group"
    BY <1>1, <1>4, <2>3, Zenon DEF Life, Grouped
  <2> QED
    BY <1>1, <2>1, <2>2, <2>3, Kinds, Zenon
<1>6. Tallied(r)
  BY <1>4, Zenon DEF Tallied, Counts, Kind
<1>7. JobInv'
  BY <1>1, <1>3, <1>4, <1>5, <1>6, JobStep, Zenon DEF Stages, Ended
<1> QED
  BY <1>1, <1>2, <1>4, <1>7, RegistrySame, Zenon DEF CompleteHere, IInv, Ended

\* The synchronous call.
LEMMA RunSyncKeeps ==
  ASSUME SetFacts, IInv, ~Ended, NEW r \in Requests, RunSync(r)
  PROVE  IInv'
<1>1. TypeOK /\ JobInv /\ Life(r) /\ Stages
  BY Zenon DEF IInv, JobInv, Lives
<1>2. TypeOK'
  BY <1>1 DEF RunSync, TypeOK, RegistryTypeOK, registry
<1>3. \A x \in Requests \ {r} : Same(x)
  BY <1>1 DEF RunSync, TypeOK, Same
<1>4. /\ sub[r] = "sync" /\ job'[r] = "complete" /\ sub'[r] = "busy"
      /\ UNCHANGED <<plan, stage, queue, worker, call, guard, held, hal, phase, refs, inFlight,
                     fired, infer>>
  BY <1>1 DEF RunSync, TypeOK
<1>5. Life(r)'
  <2>1. CASE Kind(r) = "infer"
    BY <1>1, <1>4, <2>1, Zenon DEF Life, Worked, Called, Kind
  <2>2. CASE Kind(r) # "infer"
    BY <1>1, <1>4, <2>2, Zenon DEF Life, Itemised, Grouped
  <2> QED
    BY <2>1, <2>2, Zenon
<1>6. Tallied(r)
  BY <1>4, Zenon DEF Tallied, Counts, Kind
<1>7. JobInv'
  BY <1>1, <1>3, <1>4, <1>5, <1>6, JobStep, Zenon DEF Stages, Ended
<1> QED
  BY <1>1, <1>2, <1>4, <1>7, RegistrySame, Zenon DEF RunSync, IInv, Ended

\* The HAL calls back.
LEMMA HalCallbackKeeps ==
  ASSUME SetFacts, IInv, ~Ended, NEW r \in Requests, HalCallback(r)
  PROVE  IInv'
<1>1. TypeOK /\ JobInv /\ Life(r) /\ Stages
  BY Zenon DEF IInv, JobInv, Lives
<1>2. TypeOK'
  <2>1. \A x \in Requests : /\ hal'[x] \in {"none", "due", "fired"} /\ status'[x] \in BOOLEAN
                            /\ phase'[x] \in {"Submitting", "Submitted", "CallbackDeferred",
                                              "Completing", "Cancelled"}
                            /\ job'[x] \in {"none", "complete", "pooled", "inline", "release",
                                            "tail", "pooltail", "over"}
    BY <1>1 DEF HalCallback, TypeOK
  <2> QED
    BY <1>1, <2>1 DEF HalCallback, TypeOK, RegistryTypeOK, registry
<1>3. \A x \in Requests \ {r} : Same(x)
  BY <1>1 DEF HalCallback, TypeOK, Same
<1>4. /\ hal[r] = "due" \/ (sub[r] = "run" /\ hal[r] = "none")
      /\ hal'[r] = "fired"
      /\ phase'[r] = IF ~Gated(r) THEN phase[r]
                     ELSE IF phase[r] = "Submitting" THEN "CallbackDeferred"
                     ELSE IF phase[r] = "Submitted" THEN "Completing" ELSE phase[r]
      /\ job'[r] = IF ~Gated(r) \/ phase[r] = "Submitted" THEN "complete" ELSE job[r]
      /\ UNCHANGED <<plan, stage, queue, worker, call, guard, held, sub, refs, inFlight, fired, infer>>
  BY <1>1 DEF HalCallback, TypeOK
<1>5. Life(r)'
  <2>1. CASE Kind(r) = "infer"
    BY <1>1, <1>4, <2>1, Zenon DEF Life, Worked, Called, Kind, Gated
  <2>2. CASE Kind(r) = "item"
    BY <1>1, <1>4, <2>2, Zenon DEF Life, Itemised, Batched, Ahead, Kind, Gated
  <2>3. CASE Kind(r) = "group"
    BY <1>1, <1>4, <2>3, Zenon DEF Life, Grouped, Batched, Ahead, Kind, Gated
  <2> QED
    BY <1>1, <2>1, <2>2, <2>3, Kinds, Zenon
<1>6. Tallied(r) /\ (Counts(r)' <=> Counts(r))
  BY <1>4, Zenon DEF Tallied, Counts, Kind
<1>7. JobInv'
  BY <1>1, <1>3, <1>4, <1>5, <1>6, JobStep, Zenon DEF Stages, Ended
<1> QED
  BY <1>1, <1>2, <1>4, <1>7, RegistrySame, Zenon DEF HalCallback, IInv, Ended

\* To the pool, or not.
LEMMA OffloadKeeps ==
  ASSUME SetFacts, IInv, ~Ended, NEW r \in Requests, Offload(r)
  PROVE  IInv'
<1>1. TypeOK /\ JobInv /\ Life(r) /\ Stages
  BY Zenon DEF IInv, JobInv, Lives
<1>2. TypeOK'
  <2>1. (job \in [Requests -> {"none", "complete", "pooled", "inline", "release", "tail",
                               "pooltail", "over"}])'
    <3>1. PICK j \in {"pooled", "inline"} : job' = [job EXCEPT ![r] = j]
      BY Zenon DEF Offload
    <3> QED
      BY <1>1, <3>1, Zenon DEF TypeOK
  <2> QED
    BY <1>1, <2>1, Zenon DEF Offload, TypeOK, RegistryTypeOK, registry
<1>3. \A x \in Requests \ {r} : Same(x)
  BY <1>1 DEF Offload, TypeOK, Same
<1>4. /\ job[r] = "complete" /\ Kind(r) # "infer" /\ job'[r] \in {"pooled", "inline"}
      /\ UNCHANGED <<plan, stage, queue, worker, call, guard, held, sub, hal, phase, refs, inFlight,
                     fired, infer>>
  BY <1>1 DEF Offload, TypeOK
<1>5. Life(r)'
  BY <1>1, <1>4, Zenon DEF Life, Itemised, Grouped, Batched, Ahead, Behind, Kind
<1>6. Tallied(r) /\ (Counts(r)' <=> Counts(r))
  BY <1>4, Zenon DEF Tallied, Counts, Kind
<1>7. JobInv'
  BY <1>1, <1>3, <1>4, <1>5, <1>6, JobStep, Zenon DEF Stages, Ended
<1> QED
  BY <1>1, <1>2, <1>4, <1>7, RegistrySame, Zenon DEF Offload, IInv, Ended

\* The last cleanup.
LEMMA TidyKeeps ==
  ASSUME SetFacts, IInv, ~Ended, NEW r \in Requests, Tidy(r)
  PROVE  IInv'
<1>1. TypeOK /\ JobInv /\ Life(r) /\ Stages
  BY Zenon DEF IInv, JobInv, Lives
<1>2. TypeOK'
  BY <1>1, Zenon DEF Tidy, TypeOK, RegistryTypeOK, registry
<1>3. \A x \in Requests \ {r} : Same(x)
  BY <1>1, Zenon DEF Tidy, TypeOK, Same
<1>4. /\ job[r] \in {"tail", "pooltail"} /\ job'[r] = "over"
      /\ UNCHANGED <<plan, stage, queue, worker, call, guard, held, sub, hal, phase, refs, inFlight,
                     fired, infer>>
  BY <1>1, Zenon DEF Tidy, TypeOK
<1>5. Life(r)'
  <2>1. CASE Kind(r) = "infer"
    BY <1>1, <1>4, <2>1 DEF Life, Worked, Called, Kind
  <2>2. CASE Kind(r) # "infer"
    BY <1>1, <1>4, <2>2, Zenon DEF Life, Itemised, Grouped, Batched, Ahead, Behind, Kind
  <2> QED
    BY <2>1, <2>2, Zenon
<1>6. Tallied(r) /\ (Counts(r)' <=> Counts(r))
  BY <1>4, Zenon DEF Tallied, Counts, Kind
<1>7. JobInv'
  BY <1>1, <1>3, <1>4, <1>5, <1>6, JobStep, Zenon DEF Stages, Ended
<1> QED
  BY <1>1, <1>2, <1>4, <1>7, RegistrySame, Zenon DEF Tidy, IInv, Ended

\* InferBatch submits; an item is counted.
LEMMA SubmitBatchKeeps ==
  ASSUME SetFacts, IInv, ~Ended, NEW r \in Requests, SubmitBatch(r)
  PROVE  IInv'
<1>1. TypeOK /\ JobInv /\ Life(r) /\ Stages
  BY Zenon DEF IInv, JobInv, Lives
<1>2. TypeOK'
  BY <1>1 DEF SubmitBatch, TypeOK, RegistryTypeOK, registry
<1>3. \A x \in Requests \ {r} : Same(x)
  BY <1>1, Zenon DEF SubmitBatch, TypeOK, Same
<1>4. /\ Kind(r) # "infer" /\ call[r] = "ready" /\ sub[r] = "none" /\ sub'[r] = "run"
      /\ inFlight' = IF Kind(r) # "group" THEN inFlight + 1 ELSE inFlight
      /\ UNCHANGED <<plan, stage, queue, worker, call, guard, held, hal, phase, job, refs, fired,
                     infer>>
  BY <1>1, Zenon DEF SubmitBatch, TypeOK, Tracked
<1>5. Life(r)'
  BY <1>1, <1>4, Zenon DEF Life, Itemised, Grouped, Batched, Ahead, Behind, Kind
<1>6. held[r]
  BY <1>1, <1>4, Zenon DEF Life, Batched
<1>7. Tallied(r)
  BY <1>1, <1>4, <1>6, Kinds, Zenon DEF Tallied, Counts, Kind
<1>8. stage \in {"serving", "closing"}
  BY <1>1, <1>4, Zenon DEF Stages
<1>9. JobInv'
  BY <1>1, <1>3, <1>4, <1>5, <1>7, <1>8, JobStep, Zenon
<1> QED
  BY <1>1, <1>2, <1>4, <1>9, RegistrySame, Zenon DEF SubmitBatch, IInv, Ended

\* The callback gives its ownership back.
LEMMA CallbackReleaseKeeps ==
  ASSUME SetFacts, IInv, ~Ended, NEW r \in Requests, CallbackRelease(r)
  PROVE  IInv'
<1>1. TypeOK /\ JobInv /\ Life(r) /\ Stages
  BY Zenon DEF IInv, JobInv, Lives
<1>2. /\ job[r] = "release" /\ refs'[r] = refs[r] - 1
      /\ inFlight' = IF refs[r] = 1 THEN inFlight - 1 ELSE inFlight
      /\ job'[r] = IF refs[r] = 1 THEN "tail" ELSE "over"
      /\ UNCHANGED <<plan, stage, queue, worker, call, guard, held, sub, hal, phase, fired, infer>>
  BY <1>1 DEF CallbackRelease, TypeOK
<1>3. \A x \in Requests \ {r} : Same(x)
  BY <1>1 DEF CallbackRelease, TypeOK, Same
<1>4. Kind(r) = "infer" /\ refs[r] \in {1, 2}
  BY <1>1, <1>2, Zenon DEF Life, Worked, Itemised, Grouped, Ahead, Behind
<1>5. Life(r)'
  BY <1>1, <1>2, <1>4 DEF Life, Worked, Called, Kind
<1>6. Tallied(r) /\ (Counts(r)' => Counts(r))
  BY <1>2, <1>4 DEF Tallied, Counts, Kind
<1>7. JobInv'
  BY <1>1, <1>2, <1>3, <1>5, <1>6, JobStep, Zenon DEF Stages, Ended
<1>8. TypeOK'
  <2>1. (inFlight \in Nat)'
    BY <1>7, CountNat, Zenon
  <2> QED
    BY <1>1, <1>4, <2>1 DEF CallbackRelease, TypeOK, RegistryTypeOK, registry
<1> QED
  BY <1>1, <1>2, <1>7, <1>8, RegistrySame, Zenon DEF CallbackRelease, IInv, Ended

\* The submitter gives its ownership back.
LEMMA SubmitterReleaseKeeps ==
  ASSUME SetFacts, IInv, ~Ended, NEW r \in Requests, SubmitterRelease(r)
  PROVE  IInv'
<1>1. TypeOK /\ JobInv /\ Life(r) /\ Stages
  BY Zenon DEF IInv, JobInv, Lives
<1>2. /\ sub[r] = "unref" \/ (sub[r] = "busy" /\ job[r] \in {"pooled", "pooltail", "over"})
      /\ sub'[r] = "over" /\ refs'[r] = IF refs[r] = 0 THEN 0 ELSE refs[r] - 1
      /\ inFlight' = IF refs[r] = 1 THEN inFlight - 1 ELSE inFlight
      /\ UNCHANGED <<plan, stage, queue, worker, call, guard, held, hal, phase, job, fired, infer>>
  BY <1>1 DEF SubmitterRelease, TypeOK
<1>3. \A x \in Requests \ {r} : Same(x)
  BY <1>1 DEF SubmitterRelease, TypeOK, Same
<1>4. Kind(r) # "infer" => refs[r] = 0
  BY <1>1, Zenon DEF Life
<1>5. Life(r)'
  <2>1. CASE Kind(r) = "infer"
    BY <1>1, <1>2, <2>1 DEF Life, Worked, Called, Kind
  <2>2. CASE Kind(r) # "infer"
    BY <1>1, <1>2, <1>4, <2>2, Zenon DEF Life, Itemised, Grouped, Batched, Ahead, Behind, Kind
  <2> QED
    BY <2>1, <2>2, Zenon
<1>6. Tallied(r)
  <2>1. refs[r] \in 0..2
    BY <1>1, Zenon DEF TypeOK
  <2> QED
    BY <1>2, <1>4, <2>1 DEF Tallied, Counts, Kind
<1>7. JobInv'
  BY <1>1, <1>2, <1>3, <1>5, <1>6, JobStep, Zenon DEF Stages, Ended
<1>8. TypeOK'
  <2>1. (inFlight \in Nat)'
    BY <1>7, CountNat, Zenon
  <2>2. (refs \in [Requests -> 0..2])'
    BY <1>1 DEF SubmitterRelease, TypeOK
  <2> QED
    BY <1>1, <2>1, <2>2, Zenon DEF SubmitterRelease, TypeOK, RegistryTypeOK, registry
<1> QED
  BY <1>1, <1>2, <1>7, <1>8, RegistrySame, Zenon DEF SubmitterRelease, IInv, Ended

-----------------------------------------------------------------------------
(* The queue.                                                              *)

\* A request joins the queue.
LEMMA SubmitKeeps ==
  ASSUME SetFacts, IInv, ~Ended, NEW r \in Requests, Submit(r)
  PROVE  IInv'
<1>1. TypeOK /\ JobInv /\ Life(r) /\ Stages /\ Lines
  BY Zenon DEF IInv, JobInv, Lives
<1>2. PICK q \in Seq(Requests) : q = queue
  BY <1>1, Zenon DEF TypeOK
<1>3. PICK v \in Seq(Requests) : v = Append(q, r)
  <2>1. Append(q, r) \in Seq(Requests)
    OBVIOUS
  <2> QED
    BY <2>1, Zenon
<1>4. /\ Len(q) \in Nat /\ DOMAIN q = 1..Len(q) /\ DOMAIN v = 1..(Len(q) + 1)
      /\ Len(v) = Len(q) + 1 /\ v[Len(q) + 1] = r
      /\ \A i \in DOMAIN q : v[i] = q[i]
      /\ \A i \in DOMAIN v : i \in DOMAIN q \/ i = Len(q) + 1
  BY <1>3
<1>5. /\ Kind(r) = "infer" /\ call[r] = "ready" /\ sub'[r] = "queued" /\ call'[r] = "wait"
      /\ queue' = v /\ Len(q) < QueueCapacity
      /\ UNCHANGED <<plan, stage, worker, guard, held, hal, phase, job, refs, inFlight, fired, infer>>
  BY <1>1, <1>2, <1>3, Zenon DEF Submit, TypeOK
<1>6. TypeOK'
  <2>1. (queue \in Seq(Requests) /\ Len(queue) <= QueueCapacity)'
    BY <1>4, <1>5, RuntimeAssumption
  <2> QED
    BY <1>1, <2>1, Zenon DEF Submit, TypeOK, RegistryTypeOK, registry
<1>7. \A x \in Requests \ {r} : Same(x)
  BY <1>1 DEF Submit, TypeOK, Same
<1>8. sub[r] = "none" /\ Life(r)'
  BY <1>1, <1>5, Zenon DEF Life, Worked, Called, Kind
<1>9. Tallied(r)
  BY <1>5, Zenon DEF Tallied, Counts, Kind
<1>10. stage \in {"serving", "closing"}
  BY <1>1, <1>5, Zenon DEF Stages
<1>11. Lives' /\ Counted' /\ Stages'
  BY <1>1, <1>5, <1>7, <1>8, <1>9, <1>10, LivesStep, Zenon
<1>12. Lines'
  <2>1. \A x \in Requests \ {r} : sub'[x] = sub[x]
    BY <1>7, Zenon DEF Same
  <2>2. /\ \A i \in DOMAIN q : sub[q[i]] = "queued" /\ q[i] \in Requests
        /\ \A i, k \in DOMAIN q : q[i] = q[k] => i = k
    BY <1>1, <1>2 DEF Lines
  <2>3. \A i \in DOMAIN q : q[i] # r
    BY <1>8, <2>2, Zenon
  <2>4. \A i \in DOMAIN v : sub'[v[i]] = "queued"
    BY <1>4, <1>5, <2>1, <2>2, <2>3
  <2>5. \A i, k \in DOMAIN v : v[i] = v[k] => i = k
    BY <1>4, <2>2, <2>3, Zenon
  <2>6. ASSUME NEW x \in Requests, sub'[x] = "queued"
        PROVE  \E i \in DOMAIN v : v[i] = x
    <3>1. CASE x = r
      BY <1>4, <3>1
    <3>2. CASE x # r
      <4>1. PICK i \in DOMAIN q : q[i] = x
        BY <1>1, <1>2, <2>1, <2>6, <3>2, Zenon DEF Lines
      <4> QED
        BY <1>4, <4>1
    <3> QED
      BY <3>1, <3>2, Zenon
  <2>7. ASSUME NEW x \in Requests, Kind(x) = "infer", sub'[x] \notin {"none", "queued", "over"}
        PROVE  \E w \in Workers : worker[w] = x
    BY <1>1, <1>5, <2>1, <2>7, Zenon DEF Lines
  <2> QED
    BY <1>5, <2>4, <2>5, <2>6, <2>7, Zenon DEF Lines, Kind
<1> QED
  BY <1>1, <1>5, <1>6, <1>11, <1>12, RegistrySame, Zenon DEF Submit, IInv, JobInv, Ended

\* A worker takes the head.
LEMMA TakeKeeps ==
  ASSUME SetFacts, IInv, ~Ended, NEW w \in Workers, Take(w)
  PROVE  IInv'
<1>1. TypeOK /\ JobInv /\ Stages /\ Lines
  BY Zenon DEF IInv, JobInv
<1>2. PICK q \in Seq(Requests) : q = queue
  BY <1>1, Zenon DEF TypeOK
<1>3. q # << >>
  BY <1>2, Zenon DEF Take
<1>4. PICK r \in Requests, t \in Seq(Requests) : r = Head(q) /\ t = Tail(q)
  <2>1. Head(q) \in Requests /\ Tail(q) \in Seq(Requests)
    BY <1>3
  <2> QED
    BY <2>1, Zenon
<1>5. /\ Len(q) \in Nat /\ DOMAIN q = 1..Len(q) /\ 1 \in DOMAIN q /\ q[1] = r
      /\ Len(t) = Len(q) - 1 /\ DOMAIN t = 1..(Len(q) - 1)
      /\ \A i \in DOMAIN t : i + 1 \in DOMAIN q /\ i + 1 # 1 /\ t[i] = q[i + 1]
      /\ \A i \in DOMAIN q : i = 1 \/ (i - 1 \in DOMAIN t /\ t[i - 1] = q[i])
      /\ \A i, k \in DOMAIN t : i + 1 = k + 1 => i = k
  BY <1>3, <1>4
<1>6. /\ \A i \in DOMAIN q : sub[q[i]] = "queued" /\ q[i] \in Requests
      /\ \A i, k \in DOMAIN q : q[i] = q[k] => i = k
  BY <1>1, <1>2 DEF Lines
<1>7. /\ sub[r] = "queued" /\ sub'[r] = "taken" /\ queue' = t
      /\ worker[w] = "none" /\ worker' = [worker EXCEPT ![w] = r]
      /\ UNCHANGED <<plan, stage, call, guard, held, hal, phase, job, refs, inFlight, fired, infer>>
  BY <1>1, <1>2, <1>4, <1>5, <1>6 DEF Take, TypeOK
<1>8. TypeOK'
  <2>1. (queue \in Seq(Requests) /\ Len(queue) <= QueueCapacity)'
    BY <1>1, <1>2, <1>5, <1>7, RuntimeAssumption DEF TypeOK
  <2>2. (worker \in [Workers -> Requests \cup {"none"}])'
    BY <1>1, <1>7, Zenon DEF TypeOK
  <2>3. sub' = [sub EXCEPT ![r] = "taken"]
    BY <1>2, <1>4, Zenon DEF Take
  <2> QED
    BY <1>1, <2>1, <2>2, <2>3, SMTT(30) DEF Take, TypeOK, RegistryTypeOK, registry
<1>9. \A x \in Requests \ {r} : Same(x)
  BY <1>1, <1>2, <1>4, Zenon DEF Take, TypeOK, Same
<1>10. Life(r)' /\ Kind(r) = "infer"
  <2>1. Life(r)
    BY <1>1, Zenon DEF JobInv, Lives
  <2> QED
    BY <1>7, <2>1, Zenon DEF Life, Worked, Called, Kind, Itemised, Grouped
<1>11. Tallied(r)
  BY <1>7, <1>10, Zenon DEF Tallied, Counts, Kind
<1>12. stage \in {"serving", "closing", "stopping"}
  BY <1>1, <1>7, Zenon DEF Stages
<1>13. stage \notin {"serving", "closing"} => call'[r] \in {"idle", "gone"}
  BY <1>1, <1>7, Zenon DEF Stages
<1>14. Lives' /\ Counted' /\ Stages'
  BY <1>1, <1>7, <1>9, <1>10, <1>11, <1>12, <1>13, LivesStep, Zenon
<1>15. Lines'
  <2>1. \A x \in Requests \ {r} : sub'[x] = sub[x]
    BY <1>9, Zenon DEF Same
  <2>2. \A i \in DOMAIN t : t[i] # r /\ t[i] \in Requests
    BY <1>5, <1>6
  <2>3. \A i \in DOMAIN t : sub'[t[i]] = "queued"
    BY <1>5, <1>6, <2>1, <2>2
  <2>4. \A i, k \in DOMAIN t : t[i] = t[k] => i = k
    BY <1>5, <1>6
  <2>5. ASSUME NEW x \in Requests, sub'[x] = "queued"
        PROVE  \E i \in DOMAIN t : t[i] = x
    <3>1. x # r
      BY <1>7, <2>5, Zenon
    <3>2. PICK i \in DOMAIN q : q[i] = x
      BY <1>1, <1>2, <2>1, <2>5, <3>1, Zenon DEF Lines
    <3> QED
      BY <1>5, <3>1, <3>2, Zenon
  <2>6. ASSUME NEW x \in Requests, Kind(x) = "infer", sub'[x] \notin {"none", "queued", "over"}
        PROVE  \E y \in Workers : worker'[y] = x
    <3>1. CASE x = r
      BY <1>1, <1>7, <3>1, Zenon DEF TypeOK
    <3>2. CASE x # r
      <4>1. PICK y \in Workers : worker[y] = x
        BY <1>1, <2>1, <2>6, <3>2, Zenon DEF Lines
      <4>2. y # w
        BY <1>7, <4>1, RuntimeAssumption, Zenon
      <4> QED
        BY <1>1, <1>7, <4>1, <4>2, Zenon DEF TypeOK
    <3> QED
      BY <3>1, <3>2, Zenon
  <2> QED
    BY <1>7, <2>3, <2>4, <2>5, <2>6, Zenon DEF Lines, Kind
<1> QED
  BY <1>1, <1>7, <1>8, <1>14, <1>15, RegistrySame, Zenon DEF Take, IInv, JobInv, Ended

\* A worker goes round its loop.
LEMMA FreeKeeps ==
  ASSUME SetFacts, IInv, ~Ended, NEW w \in Workers, Free(w)
  PROVE  IInv'
<1>1. TypeOK /\ Lives /\ Counted /\ Stages /\ Lines
  BY Zenon DEF IInv, JobInv
<1>2. TypeOK'
  BY <1>1, Zenon DEF Free, TypeOK, RegistryTypeOK, registry
<1>3. UNCHANGED <<plan, stage, queue, call, guard, held, sub, hal, phase, job, refs, inFlight,
                  fired, infer>>
  BY Zenon DEF Free
<1>4. Lives' /\ Counted' /\ Stages'
  BY <1>1, <1>3, Zenon DEF Lives, Life, Counted, Counts, Stages, Kind
<1>5. \A y \in Workers : worker[y] \in Requests /\ sub[worker[y]] # "over" => worker'[y] = worker[y]
  BY <1>1 DEF Free, TypeOK
<1>6. ASSUME NEW x \in Requests, Kind(x) = "infer", sub[x] \notin {"none", "queued", "over"}
      PROVE  \E y \in Workers : worker'[y] = x
  <2>1. PICK y \in Workers : worker[y] = x
    BY <1>1, <1>6, Zenon DEF Lines
  <2> QED
    BY <1>5, <1>6, <2>1, Zenon
<1>7. Lines'
  BY <1>1, <1>3, <1>6, Zenon DEF Lines, Kind
<1> QED
  BY <1>1, <1>2, <1>3, <1>4, <1>7, RegistrySame, Zenon DEF Free, IInv, JobInv, Ended

-----------------------------------------------------------------------------
(* References.                                                             *)

\* A reference count is set: the entry stays what it was otherwise.
LEMMA RefSet ==
  ASSUME RegistryTypeOK, NEW id \in DOMAIN models, NEW n \in Nat,
         models' = [models EXCEPT ![id].ref = n]
  PROVE  /\ DOMAIN models' = DOMAIN models /\ models' \in [DOMAIN models' -> Entries]
         /\ models'[id].ref = n
         /\ \A x \in DOMAIN models : /\ models'[x].infer = models[x].infer
                                     /\ models'[x].post = models[x].post
                                     /\ x # id => models'[x].ref = models[x].ref
<1>1. PICK e : e = [models[id] EXCEPT !.ref = n]
  BY Zenon
<1>2. models \in [DOMAIN models -> Entries] /\ models[id] \in Entries
  BY Zenon DEF RegistryTypeOK
<1>3. /\ e \in Entries /\ e.ref = n /\ e.infer = models[id].infer /\ e.post = models[id].post
  BY <1>1, <1>2, Zenon DEF Entries
<1>4. models' = [models EXCEPT ![id] = e]
  BY <1>1, Zenon
<1> QED
  BY <1>2, <1>3, <1>4, Zenon

\* What is counted is a number.
LEMMA Counting ==
  ASSUME SetFacts, NEW A, A \subseteq Requests
  PROVE  IsFiniteSet(A) /\ Cardinality(A) \in Nat
BY RuntimeAssumption, FinSubset, FinCard, Zenon

\* Requests count in RefsBalanced by the model they name.
LEMMA BalancedIs ==
  /\ RefsBalanced <=>
       (~Ended =>
          /\ \A r \in Requests : guard[r] \/ held[r] => plan.id[r] \in DOMAIN models
          /\ \A id \in DOMAIN models :
                models[id].ref = Cardinality({r \in Requests : guard[r] /\ plan.id[r] = id})
                               + Cardinality({r \in Requests : held[r] /\ plan.id[r] = id}))
  /\ RefsBalanced' <=>
       (~Ended =>
          /\ \A r \in Requests : guard[r] \/ held[r] => plan.id[r] \in DOMAIN models
          /\ \A id \in DOMAIN models :
                models[id].ref = Cardinality({r \in Requests : guard[r] /\ plan.id[r] = id})
                               + Cardinality({r \in Requests : held[r] /\ plan.id[r] = id}))'
BY Zenon DEF RefsBalanced, Count, Registered, Model

\* Only reference counts change: sessions, and who may replace them, do not.
LEMMA OnlyRefs ==
  ASSUME IInv, ~Ended, DOMAIN models' = DOMAIN models, models' \in [DOMAIN models' -> Entries],
         \A x \in DOMAIN models : /\ models'[x].infer = models[x].infer
                                  /\ models'[x].post = models[x].post,
         UNCHANGED <<owners, made, inferRefs, postRefs, reg, plan>>
  PROVE  RegistryTypeOK' /\ SessionsShared' /\ Known' /\ SoleOwner'
<1>1. RegistryTypeOK /\ SessionsShared /\ Known /\ SoleOwner
  BY Zenon DEF IInv, TypeOK, RegInv
<1>2. RegistryTypeOK'
  BY <1>1, Zenon DEF RegistryTypeOK
<1>3. ASSUME NEW s
      PROVE  /\ {id \in DOMAIN models' : models'[id].infer = s} = {id \in DOMAIN models : models[id].infer = s}
             /\ {id \in DOMAIN models' : models'[id].post = s} = {id \in DOMAIN models : models[id].post = s}
  BY Zenon
<1>4. SessionsShared'
  BY <1>1, <1>3, Zenon DEF SessionsShared, Count, Ended
<1>5. Known' /\ SoleOwner'
  BY <1>1, Zenon DEF Known, SoleOwner, Sole, Registered
<1> QED
  BY <1>2, <1>4, <1>5, Zenon

\* A request takes a reference to its model.
LEMMA RefTaken ==
  ASSUME SetFacts, IInv, ~Ended, ~Ended', NEW r \in Requests, Registered(Model(r)),
         models' = AcquireModel(Model(r)), UNCHANGED <<owners, made, inferRefs, postRefs, reg, plan>>,
         \/ ~guard[r] /\ guard' = [guard EXCEPT ![r] = TRUE] /\ held' = held
         \/ ~held[r] /\ held' = [held EXCEPT ![r] = TRUE] /\ guard' = guard
  PROVE  /\ RegistryTypeOK' /\ RefsBalanced' /\ SessionsShared' /\ Known' /\ SoleOwner'
         /\ \A id \in DOMAIN models : /\ models'[id].infer = models[id].infer
                                      /\ models'[id].post = models[id].post
<1>1. RegistryTypeOK /\ RefsBalanced /\ guard \in [Requests -> BOOLEAN] /\ held \in [Requests -> BOOLEAN]
  BY Zenon DEF IInv, TypeOK
<1>2. PICK m \in DOMAIN models : m = plan.id[r]
  BY Zenon DEF Registered, Model
<1>3. models[m].ref \in Nat /\ models[m].ref + 1 \in Nat
  BY <1>1 DEF RegistryTypeOK, Entries
<1>4. models' = [models EXCEPT ![m].ref = models[m].ref + 1]
  BY <1>2, Zenon DEF AcquireModel, Model
<1>5. /\ DOMAIN models' = DOMAIN models /\ models' \in [DOMAIN models' -> Entries]
      /\ models'[m].ref = models[m].ref + 1
      /\ \A x \in DOMAIN models : /\ models'[x].infer = models[x].infer
                                  /\ models'[x].post = models[x].post
                                  /\ x # m => models'[x].ref = models[x].ref
  BY <1>1, <1>3, <1>4, RefSet, Zenon
<1>6. RegistryTypeOK' /\ SessionsShared' /\ Known' /\ SoleOwner'
  BY <1>5, OnlyRefs, Zenon
<1>7. \A x \in Requests : guard'[x] \/ held'[x] => plan'.id[x] \in DOMAIN models'
  BY <1>1, <1>2, <1>5, BalancedIs, Zenon
<1>8. ASSUME NEW id \in DOMAIN models
      PROVE  models'[id].ref = Cardinality({x \in Requests : guard'[x] /\ plan.id[x] = id})
                             + Cardinality({x \in Requests : held'[x] /\ plan.id[x] = id})
  <2>1. PICK A, B : /\ A = {x \in Requests : guard[x] /\ plan.id[x] = id}
                    /\ B = {x \in Requests : held[x] /\ plan.id[x] = id}
    BY Zenon
  <2>2. PICK C, D : /\ C = {x \in Requests : guard'[x] /\ plan.id[x] = id}
                    /\ D = {x \in Requests : held'[x] /\ plan.id[x] = id}
    BY Zenon
  <2>3. models[id].ref = Cardinality(A) + Cardinality(B)
    BY <1>1, <2>1, BalancedIs, Zenon
  <2>4. /\ IsFiniteSet(A) /\ Cardinality(A) \in Nat
        /\ IsFiniteSet(B) /\ Cardinality(B) \in Nat
    BY <2>1, Counting, Zenon
  <2>5. models'[id].ref = Cardinality(C) + Cardinality(D)
    <3>1. CASE ~guard[r] /\ guard' = [guard EXCEPT ![r] = TRUE] /\ held' = held
      <4>1. D = B
        BY <2>1, <2>2, <3>1, Zenon
      <4>2. (m = id => C = A \cup {r} /\ r \notin A) /\ (m # id => C = A)
        BY <1>1, <1>2, <2>1, <2>2, <3>1, Zenon
      <4>3. m = id => Cardinality(C) = Cardinality(A) + 1
        BY <2>4, <4>2, FinAdd, Zenon
      <4> QED
        BY <1>5, <2>3, <2>4, <4>1, <4>2, <4>3
    <3>2. CASE ~held[r] /\ held' = [held EXCEPT ![r] = TRUE] /\ guard' = guard
      <4>1. C = A
        BY <2>1, <2>2, <3>2, Zenon
      <4>2. (m = id => D = B \cup {r} /\ r \notin B) /\ (m # id => D = B)
        BY <1>1, <1>2, <2>1, <2>2, <3>2, Zenon
      <4>3. m = id => Cardinality(D) = Cardinality(B) + 1
        BY <2>4, <4>2, FinAdd, Zenon
      <4> QED
        BY <1>5, <2>3, <2>4, <4>1, <4>2, <4>3
    <3> QED
      BY <3>1, <3>2, Zenon
  <2> QED
    BY <2>2, <2>5, Zenon
<1>9. RefsBalanced'
  BY <1>5, <1>7, <1>8, BalancedIs
<1> QED
  BY <1>5, <1>6, <1>9, Zenon

\* A request gives its reference back; since it has one, the count is not zero.
LEMMA RefGiven ==
  ASSUME SetFacts, IInv, ~Ended, ~Ended', NEW r \in Requests, models' = ReleaseModel(Model(r)),
         UNCHANGED <<owners, made, inferRefs, postRefs, reg, plan>>,
         \/ guard[r] /\ guard' = [guard EXCEPT ![r] = FALSE] /\ held' = held
         \/ held[r] /\ held' = [held EXCEPT ![r] = FALSE] /\ guard' = guard
  PROVE  /\ RegistryTypeOK' /\ RefsBalanced' /\ SessionsShared' /\ Known' /\ SoleOwner'
         /\ \A id \in DOMAIN models : /\ models'[id].infer = models[id].infer
                                      /\ models'[id].post = models[id].post
<1>1. RegistryTypeOK /\ RefsBalanced /\ guard \in [Requests -> BOOLEAN] /\ held \in [Requests -> BOOLEAN]
  BY Zenon DEF IInv, TypeOK
<1>2. PICK m \in DOMAIN models : m = plan.id[r]
  BY <1>1, BalancedIs, Zenon
<1>3. PICK n \in Nat : n = IF models[m].ref > 0 THEN models[m].ref - 1 ELSE 0
  <2>1. models[m].ref \in Nat
    BY <1>1, Zenon DEF RegistryTypeOK, Entries
  <2> QED
    BY <2>1
<1>4. models' = [models EXCEPT ![m].ref = n]
  BY <1>2, <1>3, Zenon DEF ReleaseModel, Model
<1>5. /\ DOMAIN models' = DOMAIN models /\ models' \in [DOMAIN models' -> Entries]
      /\ models'[m].ref = n
      /\ \A x \in DOMAIN models : /\ models'[x].infer = models[x].infer
                                  /\ models'[x].post = models[x].post
                                  /\ x # m => models'[x].ref = models[x].ref
  BY <1>1, <1>4, RefSet, Zenon
<1>6. RegistryTypeOK' /\ SessionsShared' /\ Known' /\ SoleOwner'
  BY <1>5, OnlyRefs, Zenon
<1>7. \A x \in Requests : guard'[x] \/ held'[x] => plan'.id[x] \in DOMAIN models'
  BY <1>1, <1>5, BalancedIs, Zenon
<1>8. ASSUME NEW id \in DOMAIN models
      PROVE  models'[id].ref = Cardinality({x \in Requests : guard'[x] /\ plan.id[x] = id})
                             + Cardinality({x \in Requests : held'[x] /\ plan.id[x] = id})
  <2>1. PICK A, B : /\ A = {x \in Requests : guard[x] /\ plan.id[x] = id}
                    /\ B = {x \in Requests : held[x] /\ plan.id[x] = id}
    BY Zenon
  <2>2. PICK C, D : /\ C = {x \in Requests : guard'[x] /\ plan.id[x] = id}
                    /\ D = {x \in Requests : held'[x] /\ plan.id[x] = id}
    BY Zenon
  <2>3. models[id].ref = Cardinality(A) + Cardinality(B)
    BY <1>1, <2>1, BalancedIs, Zenon
  <2>4. /\ IsFiniteSet(C) /\ Cardinality(C) \in Nat
        /\ IsFiniteSet(D) /\ Cardinality(D) \in Nat
    BY <2>2, Counting, Zenon
  <2>5. models'[id].ref = Cardinality(C) + Cardinality(D)
    <3>1. CASE guard[r] /\ guard' = [guard EXCEPT ![r] = FALSE] /\ held' = held
      <4>1. D = B
        BY <2>1, <2>2, <3>1, Zenon
      <4>2. (m = id => A = C \cup {r} /\ r \notin C) /\ (m # id => C = A)
        BY <1>1, <1>2, <2>1, <2>2, <3>1, Zenon
      <4>3. m = id => Cardinality(A) = Cardinality(C) + 1
        BY <2>4, <4>2, FinAdd, Zenon
      <4> QED
        BY <1>3, <1>5, <2>3, <2>4, <4>1, <4>2, <4>3
    <3>2. CASE held[r] /\ held' = [held EXCEPT ![r] = FALSE] /\ guard' = guard
      <4>1. C = A
        BY <2>1, <2>2, <3>2, Zenon
      <4>2. (m = id => B = D \cup {r} /\ r \notin D) /\ (m # id => D = B)
        BY <1>1, <1>2, <2>1, <2>2, <3>2, Zenon
      <4>3. m = id => Cardinality(B) = Cardinality(D) + 1
        BY <2>4, <4>2, FinAdd, Zenon
      <4> QED
        BY <1>3, <1>5, <2>3, <2>4, <4>1, <4>2, <4>3
    <3> QED
      BY <3>1, <3>2, Zenon
  <2> QED
    BY <2>2, <2>5, Zenon
<1>9. RefsBalanced'
  BY <1>5, <1>7, <1>8, BalancedIs
<1> QED
  BY <1>5, <1>6, <1>9, Zenon

\* What a request has of its model's sessions is what the entry names: it took
\* it from there, and the entry does not change under a reference.
LEMMA SessionsKept ==
  ASSUME IInv, ~Ended, plan' = plan,
         \A id \in DOMAIN models : /\ models'[id].infer = models[id].infer
                                   /\ models'[id].post = models[id].post,
         \A x \in Requests :
            held'[x] => \/ held[x] /\ infer'[x] = infer[x]
                        \/ Registered(Model(x)) /\ infer'[x] = models[Model(x)].infer,
         \A x \in Requests :
            guard'[x] \/ (held'[x] /\ Kind(x) # "infer") =>
               \/ (guard[x] \/ (held[x] /\ Kind(x) # "infer")) /\ post'[x] = post[x]
               \/ Registered(Model(x)) /\ post'[x] = models[Model(x)].post
  PROVE  Captured' /\ PostKept'
<1>1. Captured /\ PostKept
  BY Zenon DEF IInv, RegInv
<1>2. \A x \in Requests : guard[x] \/ held[x] => Model(x) \in DOMAIN models
  BY Zenon DEF IInv, RefsBalanced, Registered
<1>3. \A x : Model(x)' = Model(x) /\ Kind(x)' = Kind(x)
  BY Zenon DEF Model, Kind
<1>4. Captured'
  BY <1>1, <1>2, <1>3, Zenon DEF Captured, Registered
<1>5. PostKept'
  BY <1>1, <1>2, <1>3, Zenon DEF PostKept, Sole, Registered
<1> QED
  BY <1>4, <1>5, Zenon

-----------------------------------------------------------------------------
(* Requests that take or give back a reference.                            *)

\* Infer and InferBatch take their snapshot.
LEMMA AcquireKeeps ==
  ASSUME SetFacts, IInv, ~Ended, NEW r \in Requests, Acquire(r)
  PROVE  IInv'
<1>1. TypeOK /\ JobInv /\ Life(r) /\ Stages
  BY Zenon DEF IInv, JobInv, Lives
<1>2. /\ call[r] = "idle" /\ stage = "serving"
      /\ UNCHANGED <<owners, made, inferRefs, postRefs, reg, plan, queue, worker, sub, hal, phase,
                     status, job, refs, inFlight, fired, stage>>
  BY Zenon DEF Acquire
<1>3. sub[r] = "none" /\ ~guard[r] /\ ~held[r]
  BY <1>1, <1>2, Zenon DEF Life, Called, Batched, Worked
<1>4. \A x \in Requests \ {r} : Same(x)
  BY <1>1 DEF Acquire, TypeOK, Same
<1>5. CASE ~Registered(Model(r))
  <2>1. /\ call' = [call EXCEPT ![r] = "gone"] /\ UNCHANGED <<models, post, guard, held, infer>>
    BY <1>5, Zenon DEF Acquire
  <2>2. call'[r] = "gone"
    BY <1>1, <2>1, Zenon DEF TypeOK
  <2>3. TypeOK'
    BY <1>1, <1>2, <2>1, Zenon DEF TypeOK, RegistryTypeOK
  <2>4. Life(r)'
    BY <1>1, <1>2, <1>3, <2>1, <2>2, Zenon DEF Life, Called, Batched, Kind
  <2>5. Tallied(r)
    BY <1>2, <2>1, Zenon DEF Tallied, Counts, Kind
  <2>6. JobInv'
    BY <1>1, <1>2, <1>4, <2>2, <2>4, <2>5, JobStep, Zenon
  <2> QED
    BY <1>2, <2>1, <2>3, <2>6, RegistrySame, Zenon DEF IInv, Ended, registry
<1>6. CASE Registered(Model(r)) /\ Kind(r) = "infer"
  <2>1. /\ models' = AcquireModel(Model(r)) /\ post' = [post EXCEPT ![r] = models[Model(r)].post]
        /\ call' = [call EXCEPT ![r] = "ready"] /\ guard' = [guard EXCEPT ![r] = TRUE]
        /\ UNCHANGED <<held, infer>>
    BY <1>6, Zenon DEF Acquire
  <2>2. /\ RegistryTypeOK' /\ RefsBalanced' /\ SessionsShared' /\ Known' /\ SoleOwner'
        /\ \A id \in DOMAIN models : /\ models'[id].infer = models[id].infer
                                     /\ models'[id].post = models[id].post
    BY <1>2, <1>3, <1>6, <2>1, RefTaken, Zenon DEF Ended
  <2>3. TypeOK'
    <3>1. models[Model(r)].post \in {0} \cup Sessions
      BY <1>1, <1>6 DEF TypeOK, RegistryTypeOK, Entries, Registered
    <3> QED
      BY <1>1, <1>2, <2>1, <2>2, <3>1, Zenon DEF TypeOK
  <2>4. Captured' /\ PostKept'
    BY <1>1, <1>2, <1>6, <2>1, <2>2, SessionsKept DEF TypeOK
  <2>5. call'[r] = "ready" /\ guard'[r]
    BY <1>1, <2>1, Zenon DEF TypeOK
  <2>6. Life(r)'
    BY <1>1, <1>2, <1>3, <1>6, <2>1, <2>5, Zenon DEF Life, Called, Kind
  <2>7. Tallied(r)
    BY <1>2, <2>1, Zenon DEF Tallied, Counts, Kind
  <2>8. JobInv'
    BY <1>1, <1>2, <1>4, <2>6, <2>7, JobStep, Zenon
  <2> QED
    BY <2>2, <2>3, <2>4, <2>8, Zenon DEF IInv, RegInv
<1>7. CASE Registered(Model(r)) /\ Kind(r) # "infer"
  <2>1. /\ models' = AcquireModel(Model(r)) /\ post' = [post EXCEPT ![r] = models[Model(r)].post]
        /\ call' = [call EXCEPT ![r] = "ready"] /\ held' = [held EXCEPT ![r] = TRUE]
        /\ infer' = [infer EXCEPT ![r] = models[Model(r)].infer]
        /\ UNCHANGED guard
    BY <1>7, Zenon DEF Acquire
  <2>2. /\ RegistryTypeOK' /\ RefsBalanced' /\ SessionsShared' /\ Known' /\ SoleOwner'
        /\ \A id \in DOMAIN models : /\ models'[id].infer = models[id].infer
                                     /\ models'[id].post = models[id].post
    BY <1>2, <1>3, <1>7, <2>1, RefTaken, Zenon DEF Ended
  <2>3. TypeOK'
    <3>1. models[Model(r)].post \in {0} \cup Sessions /\ models[Model(r)].infer \in Sessions
      BY <1>1, <1>7, SMTT(30) DEF TypeOK, RegistryTypeOK, Entries, Registered
    <3> QED
      BY <1>1, <1>2, <2>1, <2>2, <3>1, Zenon DEF TypeOK
  <2>4. Captured' /\ PostKept'
    BY <1>1, <1>2, <1>7, <2>1, <2>2, SessionsKept, SMTT(30) DEF TypeOK
  <2>5. call'[r] = "ready" /\ held'[r]
    BY <1>1, <2>1 DEF TypeOK
  <2>6. Life(r)'
    BY <1>1, <1>2, <1>3, <1>7, <2>1, <2>5, Zenon DEF Life, Batched, Itemised, Grouped, Kind
  <2>7. Tallied(r)
    BY <1>2, <1>3, <1>7, <2>1, Zenon DEF Tallied, Counts, Kind
  <2>8. JobInv'
    BY <1>1, <1>2, <1>4, <2>6, <2>7, JobStep, Zenon
  <2> QED
    BY <2>2, <2>3, <2>4, <2>8, Zenon DEF IInv, RegInv
<1> QED
  BY <1>5, <1>6, <1>7, Zenon

\* The RPC returns, rejected, answered or timed out.
LEMMA LeaveKeeps ==
  ASSUME SetFacts, IInv, ~Ended, NEW r \in Requests, Leave(r), UNCHANGED <<queue, sub>>,
         Kind(r) = "infer" \/ sub[r] = "over"
  PROVE  IInv'
<1>1. TypeOK /\ JobInv /\ Life(r) /\ Stages
  BY Zenon DEF IInv, JobInv, Lives
<1>2. /\ call' = [call EXCEPT ![r] = "gone"] /\ guard' = [guard EXCEPT ![r] = FALSE]
      /\ UNCHANGED <<owners, made, inferRefs, postRefs, reg, plan, held, post, infer, queue, worker,
                     sub, hal, phase, status, job, refs, inFlight, fired, stage>>
  BY Zenon DEF Leave
<1>3. \A x \in Requests \ {r} : Same(x)
  BY <1>1, <1>2 DEF TypeOK, Same
<1>4. call'[r] = "gone" /\ guard'[r] = FALSE
  BY <1>1, <1>2 DEF TypeOK
<1>5. Life(r)'
  BY <1>1, <1>2, <1>4, Zenon DEF Life, Called, Batched, Kind
<1>6. Tallied(r) /\ (Counts(r)' <=> Counts(r))
  BY <1>2, Zenon DEF Tallied, Counts, Kind
<1>7. JobInv'
  BY <1>1, <1>2, <1>3, <1>4, <1>5, <1>6, JobStep, Zenon DEF Stages, Ended
<1>8. CASE ~guard[r]
  <2>1. models' = models /\ guard' = guard
    BY <1>1, <1>2, <1>8 DEF Leave, TypeOK
  <2>2. TypeOK'
    BY <1>1, <1>2, <2>1 DEF TypeOK, RegistryTypeOK
  <2> QED
    BY <1>2, <1>7, <2>1, <2>2, RegistrySame, Zenon DEF IInv, Ended, registry
<1>9. CASE guard[r]
  <2>1. models' = ReleaseModel(Model(r)) /\ ~Ended'
    BY <1>2, <1>9, Zenon DEF Leave, Ended
  <2>2. /\ RegistryTypeOK' /\ RefsBalanced' /\ SessionsShared' /\ Known' /\ SoleOwner'
        /\ \A id \in DOMAIN models : /\ models'[id].infer = models[id].infer
                                     /\ models'[id].post = models[id].post
    BY <1>2, <1>9, <2>1, RefGiven, Zenon
  <2>3. TypeOK'
    BY <1>1, <1>2, <2>2 DEF TypeOK
  <2>4. Captured' /\ PostKept'
    BY <1>1, <1>2, <2>2, SessionsKept DEF TypeOK
  <2> QED
    BY <1>7, <2>2, <2>3, <2>4, Zenon DEF IInv, RegInv
<1> QED
  BY <1>8, <1>9, Zenon

\* A batch item's inputs do not fit.
LEMMA ItemFailedKeeps ==
  ASSUME SetFacts, IInv, ~Ended, NEW r \in Requests, ItemFailed(r)
  PROVE  IInv'
<1>1. TypeOK /\ JobInv /\ Life(r) /\ Stages
  BY Zenon DEF IInv, JobInv, Lives
<1>2. /\ Kind(r) # "infer" /\ call[r] = "ready" /\ sub[r] = "none"
      /\ models' = ReleaseModel(Model(r))
      /\ held' = [held EXCEPT ![r] = FALSE] /\ fired' = [fired EXCEPT ![r] = @ + 1]
      /\ sub' = [sub EXCEPT ![r] = "over"]
      /\ UNCHANGED <<owners, made, inferRefs, postRefs, reg, plan, call, guard, post, infer, queue,
                     worker, hal, phase, status, job, refs, inFlight, stage>>
  BY Zenon DEF ItemFailed
<1>3. \A x \in Requests \ {r} : Same(x)
  BY <1>1, <1>2, Zenon DEF TypeOK, Same
<1>4. held'[r] = FALSE /\ fired'[r] = fired[r] + 1 /\ sub'[r] = "over" /\ held[r] /\ ~Ended'
  BY <1>1, <1>2 DEF TypeOK, Life, Batched, Ended
<1>5. Life(r)'
  <2>1. /\ ~guard[r] /\ refs[r] = 0 /\ hal[r] = "none" /\ job[r] = "none" /\ fired[r] = 0
        /\ phase[r] = "Submitting"
    BY <1>1, <1>2, Kinds, ZenonT(30) DEF Life, Itemised, Grouped, Batched
  <2>2. /\ ~held'[r] /\ fired'[r] = 1 /\ sub'[r] = "over" /\ call'[r] = "ready" /\ ~guard'[r]
        /\ refs'[r] = 0 /\ hal'[r] = "none" /\ job'[r] = "none" /\ phase'[r] = "Submitting"
        /\ Kind(r)' # "infer"
    BY <1>2, <1>4, <2>1 DEF Kind
  <2> QED
    BY <2>2, Zenon DEF Life, Itemised, Grouped, Batched
<1>6. Tallied(r) /\ ~Counts(r)'
  BY <1>2, <1>4, Zenon DEF Tallied, Counts, Kind
<1>7. JobInv'
  BY <1>1, <1>2, <1>3, <1>4, <1>5, <1>6, JobStep, Zenon DEF Stages, Ended
<1>8. /\ RegistryTypeOK' /\ RefsBalanced' /\ SessionsShared' /\ Known' /\ SoleOwner'
      /\ \A id \in DOMAIN models : /\ models'[id].infer = models[id].infer
                                   /\ models'[id].post = models[id].post
  BY <1>2, <1>4, RefGiven, ZenonT(30)
<1>9. TypeOK'
  BY <1>1, <1>2, <1>8 DEF TypeOK
<1>10. Captured' /\ PostKept'
  BY <1>1, <1>2, <1>8, SessionsKept DEF TypeOK
<1> QED
  BY <1>7, <1>8, <1>9, <1>10, Zenon DEF IInv, RegInv

\* The worker's snapshot of the model, or its failure to find it.
LEMMA WorkerAcquireKeeps ==
  ASSUME SetFacts, IInv, ~Ended, NEW r \in Requests, WorkerAcquire(r)
  PROVE  IInv'
<1>1. TypeOK /\ JobInv /\ Life(r) /\ Stages
  BY Zenon DEF IInv, JobInv, Lives
<1>2. /\ sub[r] = "taken"
      /\ UNCHANGED <<owners, made, inferRefs, postRefs, reg, plan, call, guard, post, queue, worker,
                     hal, phase, fired, stage>>
  BY Zenon DEF WorkerAcquire
<1>3. Kind(r) = "infer" /\ refs[r] = 0 /\ ~held[r]
  BY <1>1, <1>2, Zenon DEF Life, Itemised, Grouped, Worked
<1>4. \A x \in Requests \ {r} : Same(x)
  BY <1>1 DEF WorkerAcquire, TypeOK, Same
<1>5. CASE ~Registered(Model(r))
  <2>1. /\ job' = [job EXCEPT ![r] = "complete"] /\ status' = [status EXCEPT ![r] = FALSE]
        /\ sub' = [sub EXCEPT ![r] = "busy"] /\ UNCHANGED <<models, held, infer, inFlight, refs>>
    BY <1>5, Zenon DEF WorkerAcquire
  <2>2. job'[r] = "complete" /\ sub'[r] = "busy"
    BY <1>1, <2>1 DEF TypeOK
  <2>3. TypeOK'
    BY <1>1, <1>2, <2>1, Zenon DEF TypeOK, RegistryTypeOK
  <2>4. Life(r)'
    BY <1>1, <1>2, <1>3, <2>1, <2>2, Zenon DEF Life, Worked, Called, Kind
  <2>5. Tallied(r)
    BY <1>2, <1>3, <2>1, Zenon DEF Tallied, Counts, Kind
  <2>6. JobInv'
    BY <1>1, <1>2, <1>4, <2>2, <2>4, <2>5, JobStep, Zenon DEF Stages, Ended
  <2> QED
    BY <1>2, <2>1, <2>3, <2>6, RegistrySame, Zenon DEF IInv, Ended, registry
<1>6. CASE Registered(Model(r))
  <2>1. /\ models' = AcquireModel(Model(r)) /\ held' = [held EXCEPT ![r] = TRUE]
        /\ infer' = [infer EXCEPT ![r] = models[Model(r)].infer] /\ inFlight' = inFlight + 1
        /\ refs' = [refs EXCEPT ![r] = 2] /\ sub' = [sub EXCEPT ![r] = "run"]
        /\ UNCHANGED <<job, status>>
    BY <1>6, Zenon DEF WorkerAcquire
  <2>2. held'[r] /\ refs'[r] = 2 /\ sub'[r] = "run" /\ ~Ended'
    BY <1>1, <1>2, <2>1 DEF TypeOK, Ended
  <2>3. Life(r)'
    BY <1>1, <1>2, <1>3, <2>1, <2>2, ZenonT(30) DEF Life, Worked, Called, Kind
  <2>4. Tallied(r)
    BY <1>2, <1>3, <2>1, <2>2 DEF Tallied, Counts, Kind
  <2>5. JobInv'
    BY <1>1, <1>2, <1>4, <2>2, <2>3, <2>4, JobStep, Zenon DEF Stages, Ended
  <2>6. /\ RegistryTypeOK' /\ RefsBalanced' /\ SessionsShared' /\ Known' /\ SoleOwner'
        /\ \A id \in DOMAIN models : /\ models'[id].infer = models[id].infer
                                     /\ models'[id].post = models[id].post
    BY <1>2, <1>3, <1>6, <2>1, <2>2, RefTaken, ZenonT(30)
  <2>7. TypeOK'
    <3>1. models[Model(r)].infer \in Sessions
      BY <1>1, <1>6, SMTT(30) DEF TypeOK, RegistryTypeOK, Entries, Registered
    <3> QED
      BY <1>1, <1>2, <2>1, <2>6, <3>1 DEF TypeOK
  <2>8. Captured' /\ PostKept'
    BY <1>1, <1>2, <1>3, <1>6, <2>1, <2>6, SessionsKept DEF TypeOK
  <2> QED
    BY <2>5, <2>6, <2>7, <2>8, Zenon DEF IInv, RegInv
<1> QED
  BY <1>5, <1>6, Zenon

\* run_async refuses: a worker falls back to the synchronous call ...
LEMMA WorkerRefused ==
  ASSUME SetFacts, IInv, ~Ended, NEW r \in Requests, Refused(r), Kind(r) = "infer"
  PROVE  IInv'
<1>1. TypeOK /\ JobInv /\ Life(r) /\ Stages
  BY Zenon DEF IInv, JobInv, Lives
<1>2. /\ sub[r] = "run" /\ hal[r] = "none"
      /\ phase' = [phase EXCEPT ![r] = IF Gated(r) THEN "Cancelled" ELSE @]
      /\ inFlight' = IF Tracked(r) THEN inFlight - 1 ELSE inFlight
      /\ refs' = [refs EXCEPT ![r] = 0] /\ sub' = [sub EXCEPT ![r] = "sync"]
      /\ UNCHANGED <<models, held, fired>>
      /\ UNCHANGED <<owners, made, inferRefs, postRefs, reg, plan, call, guard, post, infer, queue,
                     worker, hal, status, job, stage>>
  BY Zenon DEF Refused
<1>3. \A x \in Requests \ {r} : Same(x)
  BY <1>1, <1>2 DEF TypeOK, Same
<1>4. phase'[r] = "Cancelled" /\ refs'[r] = 0 /\ sub'[r] = "sync" /\ inFlight' = inFlight - 1
  BY <1>1, <1>2 DEF TypeOK, Gated, Tracked
<1>5. job[r] = "none" /\ refs[r] = 2 /\ held[r] /\ fired[r] = 0 /\ Called(call[r], guard[r], "run")
  BY <1>1, <1>2, Zenon DEF Life, Worked
<1>6. Life(r)'
  BY <1>2, <1>4, <1>5, ZenonT(30) DEF Life, Worked, Called, Kind
<1>7. Tallied(r) /\ ~Counts(r)'
  BY <1>2, <1>4, <1>5 DEF Tallied, Counts, Kind
<1>8. JobInv'
  BY <1>1, <1>2, <1>3, <1>4, <1>6, <1>7, JobStep, Zenon DEF Stages, Ended
<1>9. TypeOK'
  <2>1. /\ phase' \in [Requests -> {"Submitting", "Submitted", "CallbackDeferred", "Completing",
                                    "Cancelled"}]
        /\ refs' \in [Requests -> 0..2]
    BY <1>1, <1>2 DEF TypeOK
  <2> QED
    BY <1>1, <1>2, <1>8, <2>1, CountNat, Zenon DEF TypeOK, RegistryTypeOK
<1> QED
  BY <1>2, <1>8, <1>9, RegistrySame, Zenon DEF IInv, Ended, registry

\* ... and a batch item or a group fails.
LEMMA BatchRefused ==
  ASSUME SetFacts, IInv, ~Ended, NEW r \in Requests, Refused(r), Kind(r) # "infer"
  PROVE  IInv'
<1>1. TypeOK /\ JobInv /\ Life(r) /\ Stages
  BY Zenon DEF IInv, JobInv, Lives
<1>2. /\ sub[r] = "run" /\ hal[r] = "none"
      /\ phase' = [phase EXCEPT ![r] = IF Gated(r) THEN "Cancelled" ELSE @]
      /\ inFlight' = IF Tracked(r) THEN inFlight - 1 ELSE inFlight
      /\ models' = ReleaseModel(Model(r)) /\ held' = [held EXCEPT ![r] = FALSE]
      /\ fired' = [fired EXCEPT ![r] = @ + 1] /\ sub' = [sub EXCEPT ![r] = "over"]
      /\ UNCHANGED refs
      /\ UNCHANGED <<owners, made, inferRefs, postRefs, reg, plan, call, guard, post, infer, queue,
                     worker, hal, status, job, stage>>
  BY Zenon DEF Refused
<1>3. \A x \in Requests \ {r} : Same(x)
  BY <1>1, <1>2 DEF TypeOK, Same
<1>4. phase[r] = "Submitting" /\ job[r] = "none" /\ held[r] /\ fired[r] = 0 /\ refs[r] = 0
  BY <1>1, <1>2, Kinds, Zenon DEF Life, Itemised, Grouped, Ahead, Behind
<1>5. /\ phase'[r] = (IF Kind(r) # "group" THEN "Cancelled" ELSE "Submitting")
      /\ fired'[r] = 1 /\ sub'[r] = "over" /\ ~held'[r] /\ ~Ended'
  BY <1>1, <1>2, <1>4 DEF TypeOK, Gated, Ended
<1>6. Life(r)'
  <2>1. /\ Kind(r)' = Kind(r) /\ refs'[r] = 0 /\ hal'[r] = "none" /\ job'[r] = "none"
        /\ guard'[r] = guard[r] /\ call'[r] = call[r]
    BY <1>2, <1>4, Zenon DEF Kind
  <2>2. Batched(call[r], guard[r], "over", FALSE)
    BY <1>1, <1>2, Zenon DEF Life, Batched
  <2> QED
    BY <1>1, <1>5, <2>1, <2>2, Kinds, Zenon DEF Life, Itemised, Grouped, Batched
<1>7. Tallied(r) /\ ~Counts(r)'
  BY <1>1, <1>2, <1>4, <1>5, Kinds, Zenon DEF Tallied, Counts, Kind, Tracked
<1>8. JobInv'
  BY <1>1, <1>2, <1>3, <1>5, <1>6, <1>7, JobStep, Zenon DEF Stages, Ended
<1>9. /\ RegistryTypeOK' /\ RefsBalanced' /\ SessionsShared' /\ Known' /\ SoleOwner'
      /\ \A id \in DOMAIN models : /\ models'[id].infer = models[id].infer
                                   /\ models'[id].post = models[id].post
  BY <1>2, <1>4, <1>5, RefGiven, Zenon
<1>10. TypeOK'
  <2>1. /\ phase' \in [Requests -> {"Submitting", "Submitted", "CallbackDeferred", "Completing",
                                    "Cancelled"}]
        /\ fired' \in [Requests -> Nat]
    BY <1>1, <1>2, SMTT(30) DEF TypeOK
  <2> QED
    BY <1>1, <1>2, <1>8, <1>9, <2>1, CountNat, Zenon DEF TypeOK
<1>11. Captured' /\ PostKept'
  BY <1>1, <1>2, <1>9, SessionsKept DEF TypeOK
<1> QED
  BY <1>5, <1>8, <1>9, <1>10, <1>11, Zenon DEF IInv, RegInv

\* The completion tells the caller and gives the job's reference back.
LEMMA FinishKeeps ==
  ASSUME SetFacts, IInv, ~Ended, NEW r \in Requests, Finish(r)
  PROVE  IInv'
<1>1. TypeOK /\ JobInv /\ Life(r) /\ Stages
  BY Zenon DEF IInv, JobInv, Lives
<1>2. /\ job[r] \in {"pooled", "inline", "complete"}
      /\ models' = IF held[r] THEN ReleaseModel(Model(r)) ELSE models
      /\ held' = [held EXCEPT ![r] = FALSE] /\ fired' = [fired EXCEPT ![r] = @ + 1]
      /\ inFlight' = IF Kind(r) = "item" THEN inFlight - 1 ELSE inFlight
      /\ job' = [job EXCEPT ![r] = AfterFinish(r)]
      /\ UNCHANGED <<owners, made, inferRefs, postRefs, reg, plan, call, guard, post, infer, queue,
                     worker, sub, hal, phase, status, refs, stage>>
  BY Zenon DEF Finish
<1>3. \A x \in Requests \ {r} : Same(x)
  BY <1>1, <1>2 DEF TypeOK, Same
<1>4. PICK j \in {"pooltail", "tail", "over", "release"} : j = AfterFinish(r)
  BY Zenon DEF AfterFinish
<1>5. ~held'[r] /\ fired'[r] = fired[r] + 1 /\ job'[r] = j /\ ~Ended'
  BY <1>1, <1>2, <1>4 DEF TypeOK, Ended
<1>6. /\ Kind(r)' = Kind(r) /\ refs'[r] = refs[r] /\ hal'[r] = hal[r] /\ sub'[r] = sub[r]
      /\ phase'[r] = phase[r] /\ guard'[r] = guard[r] /\ call'[r] = call[r] /\ infer'[r] = infer[r]
  BY <1>2, Zenon DEF Kind
<1>7. Life(r)' /\ sub[r] # "none"
  <2>1. CASE Kind(r) = "infer"
    <3>1. j = IF refs[r] = 0 THEN "over" ELSE "release"
      BY <1>1, <1>2, <1>4, <2>1, Zenon DEF AfterFinish, Life, Worked
    <3>2. /\ Called(call[r], guard[r], sub[r])
          /\ Worked(sub[r], hal[r], phase[r], job[r], refs[r], held[r], fired[r], infer[r])
      BY <1>1, <2>1, Zenon DEF Life
    <3>3. job[r] = "complete"
      BY <1>2, <3>2, Zenon DEF Worked
    <3>4. /\ sub[r] # "none"
          /\ Worked(sub[r], hal[r], phase[r], j, refs[r], FALSE, fired[r] + 1, infer[r])
      BY <3>1, <3>2, <3>3, WorkedDone, Zenon
    <3>5. held'[r] = FALSE
      BY <1>1, <1>2, Zenon DEF TypeOK
    <3>6. /\ Worked(sub'[r], hal'[r], phase'[r], job'[r], refs'[r], held'[r], fired'[r], infer'[r])
          /\ Called(call'[r], guard'[r], sub'[r])
      BY <1>5, <1>6, <3>2, <3>4, <3>5, Zenon
    <3> QED
      BY <1>6, <2>1, <3>4, <3>6, Zenon DEF Life
  <2>2. CASE Kind(r) # "infer"
    <3>1. j \in {"tail", "pooltail"}
      BY <1>4, <2>2, SMTT(30) DEF AfterFinish
    <3>2. fired[r] = 0 /\ hal[r] = "fired" /\ sub[r] # "none" /\ held[r] /\ refs[r] = 0
      BY <1>1, <1>2, <2>2, Kinds DEF Life, Itemised, Grouped, Ahead, Behind
    <3>3. Batched(call[r], guard[r], sub[r], held[r])
      BY <1>1, <2>2, Zenon DEF Life
    <3>4. Batched(call'[r], guard'[r], sub'[r], held'[r])
      BY <1>6, <3>2, <3>3, ZenonT(30) DEF Batched
    <3>5. Behind(job'[r], held'[r], fired'[r])
      BY <1>5, <3>1, <3>2 DEF Behind
    <3>6. CASE Kind(r) = "item"
      <4>1. sub[r] \in {"busy", "over"} /\ phase[r] = "Completing"
        BY <1>1, <1>2, <3>2, <3>6, Zenon DEF Life, Itemised
      <4>2. Itemised(sub'[r], hal'[r], phase'[r], job'[r], held'[r], fired'[r])
        BY <1>6, <3>2, <3>5, <4>1, Zenon DEF Itemised
      <4> QED
        BY <1>6, <2>2, <3>2, <3>4, <3>6, <4>2, Zenon DEF Life
    <3>7. CASE Kind(r) = "group"
      <4>1. sub[r] \in {"run", "over"} /\ phase[r] = "Submitting"
        BY <1>1, <1>2, <3>2, <3>7, Zenon DEF Life, Grouped
      <4>2. Grouped(sub'[r], hal'[r], phase'[r], job'[r], held'[r], fired'[r])
        BY <1>6, <3>2, <3>5, <4>1, ZenonT(30) DEF Grouped
      <4> QED
        BY <1>6, <2>2, <3>2, <3>4, <3>7, <4>2, Zenon DEF Life
    <3> QED
      BY <1>1, <2>2, <3>6, <3>7, Kinds
  <2> QED
    BY <2>1, <2>2, Zenon
<1>8. Kind(r) # "infer" => held[r]
  BY <1>1, <1>2, Kinds DEF Life, Itemised, Grouped, Ahead, Behind
<1>9. Tallied(r) /\ (Counts(r)' => Counts(r))
  BY <1>1, <1>2, <1>5, <1>6, <1>7, <1>8, ZenonT(30) DEF Tallied, Counts
<1>10. JobInv'
  BY <1>1, <1>2, <1>3, <1>6, <1>7, <1>9, JobStep DEF Stages, Ended
<1>11. /\ RegistryTypeOK' /\ RefsBalanced' /\ SessionsShared' /\ Known' /\ SoleOwner'
       /\ Captured' /\ PostKept'
  <2>1. CASE held[r]
    <3>1. /\ RegistryTypeOK' /\ RefsBalanced' /\ SessionsShared' /\ Known' /\ SoleOwner'
          /\ \A id \in DOMAIN models : /\ models'[id].infer = models[id].infer
                                       /\ models'[id].post = models[id].post
      BY <1>2, <1>5, <2>1, RefGiven, ZenonT(30)
    <3>2. Captured' /\ PostKept'
      BY <1>1, <1>2, <3>1, SessionsKept, ZenonT(30) DEF TypeOK
    <3> QED
      BY <3>1, <3>2
  <2>2. CASE ~held[r]
    <3>1. models' = models /\ held' = held
      BY <1>1, <1>2, <2>2 DEF TypeOK
    <3>2. RefsBalanced' /\ SessionsShared' /\ RegInv'
      BY <1>2, <3>1, RegistrySame DEF IInv, Ended, registry
    <3>3. RegistryTypeOK'
      BY <1>1, <1>2, <3>1, SMTT(30) DEF TypeOK, RegistryTypeOK
    <3> QED
      BY <1>5, <3>2, <3>3 DEF RegInv
  <2> QED
    BY <2>1, <2>2, ZenonT(30)
<1>12. TypeOK'
  <2>1. /\ job' \in [Requests -> {"none", "complete", "pooled", "inline", "release", "tail",
                                  "pooltail", "over"}]
        /\ fired' \in [Requests -> Nat] /\ held' \in [Requests -> BOOLEAN]
    BY <1>1, <1>2, <1>4 DEF TypeOK
  <2> QED
    BY <1>1, <1>2, <1>10, <1>11, <2>1, CountNat, SMTT(30) DEF TypeOK
<1> QED
  BY <1>5, <1>10, <1>11, <1>12, Zenon DEF IInv, RegInv

-----------------------------------------------------------------------------
(* The shutdown.                                                           *)

\* It goes from one stage to the next: what must be shown is what the new one
\* promises.
LEMMA AdvanceKeeps ==
  ASSUME IInv, NEW from, NEW to, Advance(from, to), Stages',
         to \in {"closing", "stopping", "draining", "pooling", "destroyed", "exited"}
  PROVE  JobInv' /\ (RegistryTypeOK' => TypeOK')
<1>1. TypeOK /\ Lives /\ Counted /\ Lines
  BY Zenon DEF IInv, JobInv
<1>2. /\ stage' = to
      /\ UNCHANGED <<plan, call, guard, held, post, infer, queue, worker, sub, hal, phase, status,
                     job, refs, inFlight, fired>>
  BY Zenon DEF Advance
<1>3. Lives' /\ Counted' /\ Lines'
  BY <1>1, <1>2, Zenon DEF Lives, Life, Counted, Counts, Lines, Kind
<1>4. RegistryTypeOK' => TypeOK'
  BY <1>1, <1>2, Zenon DEF TypeOK
<1> QED
  BY <1>3, <1>4, Zenon DEF JobInv

\* The server is told to stop, has stopped, and the workers are joined.
LEMMA StopKeeps ==
  ASSUME SetFacts, IInv, Shutdown \/ ServerDown \/ WorkersJoined
  PROVE  IInv'
<1>1. TypeOK /\ Lives /\ Stages /\ Lines /\ RegistryTypeOK
  BY Zenon DEF IInv, JobInv, TypeOK
<1>2. UNCHANGED <<registry, plan, guard, held, infer, post, call, sub>>
  BY Zenon DEF Shutdown, ServerDown, WorkersJoined, Advance
<1>3. RegistryTypeOK' /\ RefsBalanced' /\ SessionsShared' /\ RegInv'
  <2>1. Ended' <=> Ended
    BY Zenon DEF Shutdown, ServerDown, WorkersJoined, Advance, Ended
  <2> QED
    BY <1>1, <1>2, <2>1, RegistrySame, Zenon DEF IInv, RegistryTypeOK, registry
<1>4. CASE Shutdown
  <2>1. Advance("serving", "closing") /\ Stages'
    BY <1>4, Zenon DEF Shutdown, Advance, Stages
  <2> QED
    BY <1>3, <2>1, AdvanceKeeps, Zenon DEF IInv
<1>5. CASE ServerDown
  <2>1. Advance("closing", "stopping") /\ Stages'
    BY <1>5, Zenon DEF ServerDown, Advance, Stages
  <2> QED
    BY <1>3, <2>1, AdvanceKeeps, Zenon DEF IInv
<1>6. CASE WorkersJoined
  <2>1. Advance("stopping", "draining") /\ queue = << >> /\ \A w \in Workers : worker[w] = "none"
    BY <1>6, Zenon DEF WorkersJoined
  <2>2. ASSUME NEW r \in Requests
        PROVE  sub[r] \in {"none", "over"} /\ call[r] \in {"idle", "gone"}
    <3>1. call[r] \in {"idle", "gone"} /\ Life(r)
      BY <1>1, <2>1, Zenon DEF Advance, Stages, Lives
    <3>2. CASE Kind(r) = "infer"
      BY <1>1, <2>1, <3>1, <3>2, RuntimeAssumption DEF Lines
    <3>3. CASE Kind(r) # "infer"
      BY <3>1, <3>3, Zenon DEF Life, Batched
    <3> QED
      BY <3>1, <3>2, <3>3, Zenon
  <2>3. Stages'
    BY <1>2, <2>1, <2>2, Zenon DEF Advance, Stages
  <2> QED
    BY <1>3, <2>1, <2>3, AdvanceKeeps, Zenon DEF IInv
<1> QED
  BY <1>4, <1>5, <1>6, Zenon

\* The asynchronous work is drained, or the wait for it ends.
LEMMA DrainKeeps ==
  ASSUME SetFacts, IInv, Drained \/ Orphaned
  PROVE  IInv'
<1>1. TypeOK /\ Counted /\ Stages /\ RegistryTypeOK
  BY Zenon DEF IInv, JobInv, TypeOK
<1>2. UNCHANGED <<registry, plan, guard, held, infer, post, call, sub, refs>> /\ stage = "draining"
  BY Zenon DEF Drained, Orphaned, Advance
<1>3. RegistryTypeOK'
  BY <1>1, <1>2, Zenon DEF RegistryTypeOK, registry
<1>4. CASE Drained
  <2>1. Advance("draining", "pooling") /\ inFlight <= 0
    BY <1>4, Zenon DEF Drained
  <2>2. \A r \in Requests : ~Counts(r)
    <3>1. PICK S : S = {r \in Requests : Counts(r)}
      BY Zenon
    <3>2. IsFiniteSet(S) /\ Cardinality(S) \in Nat
      BY <3>1, RuntimeAssumption, FinSubset, FinCard, Zenon
    <3>3. Cardinality(S) = 0
      BY <1>1, <2>1, <3>1, <3>2 DEF Counted
    <3>4. S = {}
      BY <3>2, <3>3, FinEmpty, Zenon
    <3> QED
      BY <3>1, <3>4, Zenon
  <2>3. Stages'
    BY <1>1, <1>2, <2>1, <2>2, Zenon DEF Advance, Stages, Counts, Kind
  <2>4. Ended' <=> Ended
    BY <2>1, Zenon DEF Advance, Ended
  <2>5. RefsBalanced' /\ SessionsShared' /\ RegInv'
    BY <1>2, <2>4, RegistrySame, Zenon DEF IInv
  <2> QED
    BY <1>3, <2>1, <2>3, <2>5, AdvanceKeeps, Zenon DEF IInv
<1>5. CASE Orphaned
  <2>1. Advance("draining", "exited")
    BY <1>5, Zenon DEF Orphaned
  <2>2. Stages'
    BY <1>1, <1>2, <2>1, Zenon DEF Advance, Stages
  <2>3. RefsBalanced' /\ SessionsShared' /\ RegInv'
    BY <2>1, Zenon DEF Advance, Ended, RefsBalanced, SessionsShared, RegInv
  <2> QED
    BY <1>3, <2>1, <2>2, <2>3, AdvanceKeeps, Zenon DEF IInv
<1> QED
  BY <1>4, <1>5, Zenon

\* The destructors run.
LEMMA PoolStoppedKeeps ==
  ASSUME IInv, PoolStopped
  PROVE  IInv'
<1>1. TypeOK /\ Stages /\ RegistryTypeOK
  BY Zenon DEF IInv, JobInv, TypeOK
<1>2. Advance("pooling", "destroyed") /\ \A r \in Requests : job[r] \notin {"pooled", "pooltail"}
  BY Zenon DEF PoolStopped
<1>3. RegistryTypeOK'
  <2>1. /\ models' = << >> /\ owners' = << >> /\ UNCHANGED <<made, reg>>
        /\ inferRefs' = [s \in Sessions |-> 0] /\ postRefs' = [s \in Sessions |-> 0]
    BY Zenon DEF PoolStopped
  <2> QED
    BY <1>1, <2>1 DEF RegistryTypeOK
<1>4. Stages'
  BY <1>1, <1>2, Zenon DEF Advance, Stages, Counts, Kind
<1>5. RefsBalanced' /\ SessionsShared' /\ RegInv'
  BY <1>2, Zenon DEF Advance, Ended, RefsBalanced, SessionsShared, RegInv
<1> QED
  BY <1>2, <1>3, <1>4, <1>5, AdvanceKeeps, Zenon DEF IInv

-----------------------------------------------------------------------------
(* The registry.                                                           *)

\* counts tells, for every session, how many of the ids of D the map g sends
\* there: SessionsShared, for the inference and for the postprocess sessions.
Tally(counts, D, g) == \A s \in Sessions : counts[s] = Cardinality({x \in D : g[x] = s})
Infers(m) == [x \in DOMAIN m |-> m[x].infer]
Posts(m) == [x \in DOMAIN m |-> m[x].post]

\* SessionsShared as two tallies of the entries, one per kind of session.
LEMMA SharedIs ==
  /\ SessionsShared <=> (~Ended => /\ Tally(inferRefs, DOMAIN models, Infers(models))
                                   /\ Tally(postRefs, DOMAIN models, Posts(models)))
  /\ SessionsShared' <=> (~Ended => /\ Tally(inferRefs, DOMAIN models, Infers(models))
                                    /\ Tally(postRefs, DOMAIN models, Posts(models)))'
<1>1. ASSUME NEW s
      PROVE  /\ {x \in DOMAIN models : models[x].infer = s} = {x \in DOMAIN models : Infers(models)[x] = s}
             /\ {x \in DOMAIN models : models[x].post = s} = {x \in DOMAIN models : Posts(models)[x] = s}
  BY Zenon DEF Infers, Posts
<1>2. ASSUME NEW s
      PROVE  /\ {x \in DOMAIN models' : models'[x].infer = s} = {x \in DOMAIN models' : Infers(models')[x] = s}
             /\ {x \in DOMAIN models' : models'[x].post = s} = {x \in DOMAIN models' : Posts(models')[x] = s}
  BY Zenon DEF Infers, Posts
<1>3. SessionsShared <=> (~Ended => /\ Tally(inferRefs, DOMAIN models, Infers(models))
                                    /\ Tally(postRefs, DOMAIN models, Posts(models)))
  BY <1>1, Zenon DEF SessionsShared, Count, Tally
<1>4. SessionsShared' <=> (~Ended => /\ Tally(inferRefs, DOMAIN models, Infers(models))
                                     /\ Tally(postRefs, DOMAIN models, Posts(models)))'
  BY <1>2, Zenon DEF SessionsShared, Count, Tally
<1> QED
  BY <1>3, <1>4, Zenon

\* add_*_locked for a new user of a session ...
LEMMA TallyAdd ==
  ASSUME SetFacts, NEW D, IsFiniteSet(D), NEW g, NEW h, NEW id, id \notin D,
         \A x \in D : h[x] = g[x], h[id] \in {0} \cup Sessions,
         NEW counts \in [Sessions -> Nat], Tally(counts, D, g)
  PROVE  /\ AddRef(counts, h[id]) \in [Sessions -> Nat]
         /\ Tally(AddRef(counts, h[id]), D \cup {id}, h)
<1>1. PICK k : k = AddRef(counts, h[id])
  BY Zenon
<1>2. k \in [Sessions -> Nat] /\ \A s \in Sessions : k[s] = counts[s] + (IF s = h[id] THEN 1 ELSE 0)
  BY <1>1 DEF AddRef, Sessions
<1>3. ASSUME NEW s \in Sessions
      PROVE  k[s] = Cardinality({x \in D \cup {id} : h[x] = s})
  <2>1. PICK S, T : S = {x \in D : g[x] = s} /\ T = {x \in D \cup {id} : h[x] = s}
    BY Zenon
  <2>2. IsFiniteSet(S) /\ Cardinality(S) \in Nat /\ counts[s] = Cardinality(S)
    BY <2>1, FinSubset, FinCard, Zenon DEF Tally
  <2>3. CASE s = h[id]
    <3>1. T = S \cup {id} /\ id \notin S
      BY <2>1, <2>3, Zenon
    <3>2. Cardinality(T) = Cardinality(S) + 1
      BY <2>2, <3>1, FinAdd, Zenon
    <3>3. k[s] = Cardinality(S) + 1
      BY <1>2, <2>2, <2>3, Zenon
    <3> QED
      BY <2>1, <3>2, <3>3, Zenon
  <2>4. CASE s # h[id]
    <3>1. T = S
      BY <2>1, <2>4, Zenon
    <3>2. k[s] = Cardinality(S)
      BY <1>2, <2>2, <2>4
    <3> QED
      BY <2>1, <3>1, <3>2, Zenon
  <2> QED
    BY <2>3, <2>4, Zenon
<1> QED
  BY <1>1, <1>2, <1>3, Zenon DEF Tally

\* ... and release_*_locked when one goes.
LEMMA TallyDrop ==
  ASSUME SetFacts, NEW D, IsFiniteSet(D), NEW g, NEW h, NEW id \in D,
         \A x \in D \ {id} : h[x] = g[x], g[id] \in {0} \cup Sessions,
         NEW counts \in [Sessions -> Nat], Tally(counts, D, g)
  PROVE  /\ DropRef(counts, g[id]) \in [Sessions -> Nat]
         /\ Tally(DropRef(counts, g[id]), D \ {id}, h)
<1>1. PICK k : k = DropRef(counts, g[id])
  BY Zenon
<1>2. /\ k \in [Sessions -> Nat]
      /\ \A s \in Sessions : k[s] = IF s = g[id] /\ counts[s] # 0 THEN counts[s] - 1 ELSE counts[s]
  BY <1>1 DEF DropRef, Sessions
<1>3. ASSUME NEW s \in Sessions
      PROVE  k[s] = Cardinality({x \in D \ {id} : h[x] = s})
  <2>1. PICK S, T : S = {x \in D : g[x] = s} /\ T = {x \in D \ {id} : h[x] = s}
    BY Zenon
  <2>2. /\ IsFiniteSet(S) /\ IsFiniteSet(T) /\ Cardinality(T) \in Nat
        /\ counts[s] = Cardinality(S)
    BY <2>1, FinSubset, FinCard, Zenon DEF Tally
  <2>3. CASE s = g[id]
    <3>1. S = T \cup {id} /\ id \notin T
      BY <2>1, <2>3, Zenon
    <3>2. Cardinality(S) = Cardinality(T) + 1
      BY <2>2, <3>1, FinAdd, Zenon
    <3> QED
      BY <1>2, <2>1, <2>2, <2>3, <3>2
  <2>4. CASE s # g[id]
    <3>1. T = S
      BY <2>1, <2>4, Zenon
    <3> QED
      BY <1>2, <2>1, <2>2, <2>4, <3>1, Zenon
  <2> QED
    BY <2>3, <2>4, Zenon
<1> QED
  BY <1>1, <1>2, <1>3, Zenon DEF Tally

\* The requests do not move.
LEMMA JobSame ==
  ASSUME JobInv, UNCHANGED <<plan, jobvars>>
  PROVE  JobInv' /\ (Ended' <=> Ended)
<1>1. UNCHANGED <<call, guard, held, post, infer, queue, worker, sub, hal, phase, status, job,
                  refs, inFlight, fired, stage>>
  BY ZenonT(30) DEF jobvars
<1>2. Lives' /\ Counted'
  BY <1>1 DEF JobInv, Lives, Life, Counted, Counts, Kind
<1>3. Lines' /\ Stages'
  BY <1>1 DEF JobInv, Lines, Stages, Counts, Kind
<1> QED
  BY <1>1, <1>2, <1>3, Zenon DEF JobInv, Ended

\* Types of what the requests have.
LEMMA TypesSame ==
  ASSUME TypeOK, UNCHANGED <<plan, jobvars>>, RegistryTypeOK'
  PROVE  TypeOK'
BY Zenon DEF TypeOK, jobvars

\* Only the owners change.
LEMMA OwnersOnly ==
  ASSUME SetFacts, IInv, ~Ended, UNCHANGED <<models, inferRefs, postRefs, plan, jobvars>>,
         owners' \in [DOMAIN models -> SUBSET Owners], made' \in 0..MaxSessions, made <= made',
         reg' \in [Owners -> {"out", "init", "in"}], \A p \in Owners : reg'[p] = "init" => reg[p] = "init"
  PROVE  IInv'
<1>1. TypeOK /\ JobInv /\ RefsBalanced /\ SessionsShared /\ RegistryTypeOK /\ plan.who \subseteq Owners
  BY RuntimeAssumption, Zenon DEF IInv, TypeOK
<1>2. Known /\ Captured /\ SoleOwner /\ PostKept
  BY Zenon DEF IInv, RegInv
<1>3. JobInv' /\ ~Ended'
  BY <1>1, JobSame, Zenon
<1>4. UNCHANGED <<guard, held, infer, post>>
  BY Zenon DEF jobvars
<1>5. TypeOK'
  BY <1>1, TypesSame, Zenon DEF RegistryTypeOK
<1>6. RefsBalanced'
  BY <1>1, <1>3, <1>4, Zenon DEF RefsBalanced, Count, Registered, Model
<1>7. SessionsShared'
  BY <1>1, <1>3, Zenon DEF SessionsShared, Count
<1>8. Known'
  <2>1. \A id \in DOMAIN models : models[id].infer \in Nat /\ models[id].post \in Nat /\ made \in Nat
    BY <1>1, RegistryAssumption DEF RegistryTypeOK, Entries, Sessions
  <2> QED
    BY <1>2, <2>1 DEF Known
<1>9. Captured' /\ PostKept'
  BY <1>2, <1>4, Zenon DEF Captured, PostKept, Sole, Model, Kind
<1>10. SoleOwner'
  BY <1>1, <1>2, Zenon DEF SoleOwner, Sole, Registered
<1> QED
  BY <1>3, <1>5, <1>6, <1>7, <1>8, <1>9, <1>10, Zenon DEF IInv, RegInv
=============================================================================
