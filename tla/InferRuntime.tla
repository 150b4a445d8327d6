---------------------------- MODULE InferRuntime ---------------------------
(***************************************************************************)
(* Inference requests in ai-runtime, from the gRPC call to the last touch   *)
(* of its job, over the registry of ModelManager and down to the ordered    *)
(* shutdown of main.cpp.  Three kinds of request reach the NPU:             *)
(*   infer   Infer: a guard reference, the scheduler queue, a worker that   *)
(*           takes its own snapshot, run_async or the synchronous fallback; *)
(*   item    InferBatch, one frame: run_async on the RPC thread, tracked by *)
(*           the scheduler's async_in_flight_ until its last step;          *)
(*   group   InferBatch, a batch model: run_async on the RPC thread with a  *)
(*           group context, outside that accounting.                        *)
(* The HAL calls back once for every call it accepts, possibly before       *)
(* run_async returns, and not at all for one it refuses; it may also call   *)
(* back and then report an error, which AsyncSubmissionGate arbitrates for  *)
(* infer and item.                                                          *)
(***************************************************************************)
EXTENDS ModelManager, Sequences

CONSTANTS Requests, Workers,
          QueueCapacity,  \* queue_capacity_
          Plans           \* the workloads to explore, see plan

ASSUME RuntimeAssumption ==
    /\ IsFiniteSet(Requests) /\ "none" \notin Requests
    /\ QueueCapacity \in Nat
    /\ \A p \in Plans :
          /\ p.kind \in [Requests -> {"infer", "item", "group"}]
          /\ p.id \in [Requests -> Ids]
          /\ p.who \subseteq Owners

VARIABLES plan,      \* the workload, fixed: kind[r] and id[r], the requests that come
                     \* (ask), the owners that register models (who), and a
                     \* bound on the sessions they create (load)
          call,      \* the RPC: "idle", "ready" (snapshot taken), "wait" (infer only), "gone"
          guard,     \* TRUE: Infer's ModelGuard holds a reference
          held,      \* TRUE: the job holds a reference (worker, or batch item)
          post,      \* the postprocess session the RPC's snapshot captured; 0: none
          infer,     \* the inference session the job runs on; 0: none yet
          queue,     \* queued infer requests, in service order
          worker,    \* worker[w]: the request worker w is at; "none": waiting
          sub,       \* the submitter's place: "none", "queued", "taken", "run", "sync",
                     \* "busy" (completing itself), "unref", "over"
          hal,       \* the HAL's callback for the call: "none", "due", "fired"
          phase,     \* AsyncSubmissionGate::phase_
          status,    \* callback_status = 0, or rc = 0 of the synchronous call
          job,       \* the completion: "none", "complete", "pooled", "inline", "release",
                     \* "tail" and "pooltail" (caller and counter told, last cleanup
                     \* to come, on its own or on a pool thread), "over"
          refs,      \* WorkerCallbackState::owners; 0: no such state
          inFlight,  \* async_in_flight_
          fired,     \* how often the completion ran to its end
          stage      \* shutdown_runtime: "serving", "closing", "stopping", "draining",
                     \* "pooling", "destroyed", "exited"

jobvars == <<call, guard, held, post, infer, queue, worker, sub, hal, phase, status, job,
             refs, inFlight, fired, stage>>
vars == <<registry, plan, jobvars>>

Kind(r) == plan.kind[r]
Model(r) == plan.id[r]
Gated(r) == Kind(r) # "group"
Tracked(r) == Kind(r) # "group"

TypeOK ==
    /\ RegistryTypeOK
    /\ plan \in Plans
    /\ call \in [Requests -> {"idle", "ready", "wait", "gone"}]
    /\ guard \in [Requests -> BOOLEAN]
    /\ held \in [Requests -> BOOLEAN]
    /\ post \in [Requests -> {0} \cup Sessions]
    /\ infer \in [Requests -> {0} \cup Sessions]
    /\ queue \in Seq(Requests) /\ Len(queue) <= QueueCapacity
    /\ worker \in [Workers -> Requests \cup {"none"}]
    /\ sub \in [Requests -> {"none", "queued", "taken", "run", "sync", "busy", "unref",
                             "over"}]
    /\ hal \in [Requests -> {"none", "due", "fired"}]
    /\ phase \in [Requests -> {"Submitting", "Submitted", "CallbackDeferred", "Completing",
                               "Cancelled"}]
    /\ status \in [Requests -> BOOLEAN]
    /\ job \in [Requests -> {"none", "complete", "pooled", "inline", "release", "tail",
                             "pooltail", "over"}]
    /\ refs \in [Requests -> 0..2]
    /\ inFlight \in Nat
    /\ fired \in [Requests -> Nat]
    /\ stage \in {"serving", "closing", "stopping", "draining", "pooling", "destroyed",
                  "exited"}

Init ==
    /\ RegistryInit
    /\ plan \in Plans
    /\ call = [r \in Requests |-> "idle"]
    /\ guard = [r \in Requests |-> FALSE]
    /\ held = [r \in Requests |-> FALSE]
    /\ post = [r \in Requests |-> 0]
    /\ infer = [r \in Requests |-> 0]
    /\ queue = << >>
    /\ worker = [w \in Workers |-> "none"]
    /\ sub = [r \in Requests |-> "none"]
    /\ hal = [r \in Requests |-> "none"]
    /\ phase = [r \in Requests |-> "Submitting"]
    /\ status = [r \in Requests |-> FALSE]
    /\ job = [r \in Requests |-> "none"]
    /\ refs = [r \in Requests |-> 0]
    /\ inFlight = 0
    /\ fired = [r \in Requests |-> 0]
    /\ stage = "serving"

-----------------------------------------------------------------------------
(* The RPC threads.                                                         *)

\* RegisterModel, UnregisterModel and the GenAI eviction, while the server
\* serves; only the plan's owners register.
Administer ==
    /\ stage = "serving"
    /\ \/ \E o \in plan.who :
             CoOwn(o) \/ Alias(o) \/ Load(o) \/ InitPost(o) \/ InitPostFails(o) \/ Unregister(o)
       \/ \E id \in Ids : Evict(id)
       \/ EvictAll
    /\ made' <= plan.load
    /\ UNCHANGED <<plan, jobvars>>

\* acquire_model_snapshot at the start of Infer or of an InferBatch item.
Acquire(r) ==
    /\ stage = "serving"
    /\ r \in plan.ask
    /\ call[r] = "idle"
    /\ IF Registered(Model(r))
       THEN /\ models' = AcquireModel(Model(r))
            /\ post' = [post EXCEPT ![r] = models[Model(r)].post]
            /\ call' = [call EXCEPT ![r] = "ready"]
            /\ IF Kind(r) = "infer"
               THEN guard' = [guard EXCEPT ![r] = TRUE] /\ UNCHANGED <<held, infer>>
               ELSE /\ held' = [held EXCEPT ![r] = TRUE]
                    /\ infer' = [infer EXCEPT ![r] = models[Model(r)].infer]
                    /\ UNCHANGED guard
       ELSE /\ call' = [call EXCEPT ![r] = "gone"]
            /\ UNCHANGED <<models, post, guard, held, infer>>
    /\ UNCHANGED <<owners, made, inferRefs, postRefs, reg, plan, queue, worker, sub, hal, phase,
                   status, job, refs, inFlight, fired, stage>>

\* The RPC returns and, for Infer, ModelGuard releases its reference.
Leave(r) ==
    /\ call' = [call EXCEPT ![r] = "gone"]
    /\ guard' = [guard EXCEPT ![r] = FALSE]
    /\ models' = IF guard[r] THEN ReleaseModel(Model(r)) ELSE models
    /\ UNCHANGED <<owners, made, inferRefs, postRefs, reg, plan, held, post, infer, worker, hal,
                   phase, status, job, refs, inFlight, fired, stage>>

\* Mutant: no capacity check.
Mut_queue_unbounded(r) ==
    /\ Kind(r) = "infer" /\ call[r] = "ready"
    /\ queue' = Append(queue, r)
    /\ sub' = [sub EXCEPT ![r] = "queued"]
    /\ call' = [call EXCEPT ![r] = "wait"]
    /\ UNCHANGED <<registry, plan, guard, held, post, infer, worker, hal, phase, status, job,
                   refs, inFlight, fired, stage>>

\* InferenceScheduler::submit: room in the queue ...
Submit(r) ==
    /\ Kind(r) = "infer" /\ call[r] = "ready"
    /\ Len(queue) < QueueCapacity
    /\ queue' = Append(queue, r)
    /\ sub' = [sub EXCEPT ![r] = "queued"]
    /\ call' = [call EXCEPT ![r] = "wait"]
    /\ UNCHANGED <<registry, plan, guard, held, post, infer, worker, hal, phase, status, job,
                   refs, inFlight, fired, stage>>

\* ... or "Scheduler queue full".  An Infer whose inputs do not fit the model
\* returns in the same way before it gets there.
Rejected(r) ==
    /\ Kind(r) = "infer" /\ call[r] = "ready"
    /\ Leave(r)
    /\ UNCHANGED <<queue, sub>>

\* A batch item whose inputs do not fit gives its reference back and is done.
ItemFailed(r) ==
    /\ Kind(r) # "infer" /\ call[r] = "ready" /\ sub[r] = "none"
    /\ models' = ReleaseModel(Model(r))
    /\ held' = [held EXCEPT ![r] = FALSE]
    /\ fired' = [fired EXCEPT ![r] = @ + 1]
    /\ sub' = [sub EXCEPT ![r] = "over"]
    /\ UNCHANGED <<owners, made, inferRefs, postRefs, reg, plan, call, guard, post, infer, queue,
                   worker, hal, phase, status, job, refs, inFlight, stage>>

\* Mutant: begin_external_async is missing.
Mut_item_not_counted(r) ==
    /\ Kind(r) # "infer" /\ call[r] = "ready" /\ sub[r] = "none"
    /\ sub' = [sub EXCEPT ![r] = "run"]
    /\ UNCHANGED inFlight
    /\ UNCHANGED <<registry, plan, call, guard, held, post, infer, queue, worker, hal, phase,
                   status, job, refs, fired, stage>>

\* InferBatch calls run_async itself; an item is counted first.
SubmitBatch(r) ==
    /\ Kind(r) # "infer" /\ call[r] = "ready" /\ sub[r] = "none"
    /\ sub' = [sub EXCEPT ![r] = "run"]
    /\ inFlight' = IF Tracked(r) THEN inFlight + 1 ELSE inFlight
    /\ UNCHANGED <<registry, plan, call, guard, held, post, infer, queue, worker, hal, phase,
                   status, job, refs, fired, stage>>

\* The wait ends with the completion, or with the request's timeout.
Waiting(r) == call[r] = "wait" \/ (call[r] = "ready" /\ sub[r] = "over")
Answered(r) == Waiting(r) /\ fired[r] > 0 /\ Leave(r) /\ UNCHANGED <<queue, sub>>
TimedOut(r) == Waiting(r) /\ fired[r] = 0 /\ Leave(r) /\ UNCHANGED <<queue, sub>>

-----------------------------------------------------------------------------
(* The scheduler's workers.                                                 *)

\* The critical section of worker_loop; which queue it serves is FairQueue's.
Take(w) ==
    /\ worker[w] = "none"
    /\ queue # << >>
    /\ worker' = [worker EXCEPT ![w] = Head(queue)]
    /\ sub' = [sub EXCEPT ![Head(queue)] = "taken"]
    /\ queue' = Tail(queue)
    /\ UNCHANGED <<registry, plan, call, guard, held, post, infer, hal, phase, status, job, refs,
                   inFlight, fired, stage>>

\* Mutant: without its model a worker tries again instead of failing the request.
Mut_retry_snapshot(r) ==
    /\ sub[r] = "taken"
    /\ IF Registered(Model(r))
       THEN /\ models' = AcquireModel(Model(r))
            /\ held' = [held EXCEPT ![r] = TRUE]
            /\ infer' = [infer EXCEPT ![r] = models[Model(r)].infer]
            /\ inFlight' = inFlight + 1
            /\ refs' = [refs EXCEPT ![r] = 2]
            /\ sub' = [sub EXCEPT ![r] = "run"]
            /\ UNCHANGED <<job, status>>
       ELSE UNCHANGED <<models, held, infer, inFlight, refs, sub, job, status>>
    /\ UNCHANGED <<owners, made, inferRefs, postRefs, reg, plan, call, guard, post, queue, worker,
                   hal, phase, fired, stage>>

\* The worker's own snapshot, by model id.  No such model: on_complete(-1),
\* without a reference to give back.
WorkerAcquire(r) ==
    /\ sub[r] = "taken"
    /\ IF Registered(Model(r))
       THEN /\ models' = AcquireModel(Model(r))
            /\ held' = [held EXCEPT ![r] = TRUE]
            /\ infer' = [infer EXCEPT ![r] = models[Model(r)].infer]
            /\ inFlight' = inFlight + 1
            /\ refs' = [refs EXCEPT ![r] = 2]
            /\ sub' = [sub EXCEPT ![r] = "run"]
            /\ UNCHANGED <<job, status>>
       ELSE /\ job' = [job EXCEPT ![r] = "complete"]
            /\ status' = [status EXCEPT ![r] = FALSE]
            /\ sub' = [sub EXCEPT ![r] = "busy"]
            /\ UNCHANGED <<models, held, infer, inFlight, refs>>
    /\ UNCHANGED <<owners, made, inferRefs, postRefs, reg, plan, call, guard, post, queue, worker,
                   hal, phase, fired, stage>>

\* The worker is done with its request and goes round its loop.
Free(w) ==
    /\ worker[w] # "none"
    /\ sub[worker[w]] = "over"
    /\ worker' = [worker EXCEPT ![w] = "none"]
    /\ UNCHANGED <<registry, plan, call, guard, held, post, infer, queue, sub, hal, phase, status,
                   job, refs, inFlight, fired, stage>>

-----------------------------------------------------------------------------
(* The HAL call and its callback.                                           *)

\* Mutant: an inline callback is not deferred to the submitter.
Mut_not_deferred(r) ==
    /\ hal[r] = "due" \/ (sub[r] = "run" /\ hal[r] = "none")
    /\ hal' = [hal EXCEPT ![r] = "fired"]
    /\ \E ok \in BOOLEAN : status' = [status EXCEPT ![r] = ok]
    /\ phase' = [phase EXCEPT ![r] = IF ~Gated(r) THEN @
                                     ELSE IF @ = "Submitting" THEN "CallbackDeferred"
                                     ELSE IF @ = "Submitted" THEN "Completing" ELSE @]
    /\ job' = [job EXCEPT ![r] = "complete"]
    /\ UNCHANGED <<registry, plan, call, guard, held, post, infer, queue, worker, sub, refs,
                   inFlight, fired, stage>>

\* on_callback, or infer_batch_group_callback which has no gate.  A call
\* accepted earlier may be answered at any time, one still running inline.
HalCallback(r) ==
    /\ hal[r] = "due" \/ (sub[r] = "run" /\ hal[r] = "none")
    /\ hal' = [hal EXCEPT ![r] = "fired"]
    /\ \E ok \in BOOLEAN : status' = [status EXCEPT ![r] = ok]
    /\ phase' = [phase EXCEPT ![r] = IF ~Gated(r) THEN @
                                     ELSE IF @ = "Submitting" THEN "CallbackDeferred"
                                     ELSE IF @ = "Submitted" THEN "Completing" ELSE @]
    /\ job' = [job EXCEPT ![r] = IF ~Gated(r) \/ phase[r] = "Submitted" THEN "complete" ELSE @]
    /\ UNCHANGED <<registry, plan, call, guard, held, post, infer, queue, worker, sub, refs,
                   inFlight, fired, stage>>

\* run_async returns HAL_OK: wait for the callback.
Accepted(r) ==
    /\ sub[r] = "run"
    /\ phase[r] = "Submitting"
    /\ phase' = [phase EXCEPT ![r] = IF Gated(r) THEN "Submitted" ELSE @]
    /\ hal' = [hal EXCEPT ![r] = IF @ = "none" THEN "due" ELSE @]
    /\ sub' = [sub EXCEPT ![r] = IF Kind(r) = "infer" THEN "unref" ELSE "over"]
    /\ UNCHANGED <<registry, plan, call, guard, held, post, infer, queue, worker, status, job,
                   refs, inFlight, fired, stage>>

\* run_async returns, with either code, after its callback was deferred: the
\* submitter completes the job.
CompleteHere(r) ==
    /\ sub[r] = "run"
    /\ phase[r] = "CallbackDeferred"
    /\ phase' = [phase EXCEPT ![r] = "Completing"]
    /\ job' = [job EXCEPT ![r] = "complete"]
    /\ sub' = [sub EXCEPT ![r] = "busy"]
    /\ UNCHANGED <<registry, plan, call, guard, held, post, infer, queue, worker, hal, status,
                   refs, inFlight, fired, stage>>

\* Mutant: a refused submission is not run synchronously.
Mut_no_fallback(r) ==
    /\ sub[r] = "run"
    /\ hal[r] = "none"
    /\ phase' = [phase EXCEPT ![r] = IF Gated(r) THEN "Cancelled" ELSE @]
    /\ inFlight' = IF Tracked(r) THEN inFlight - 1 ELSE inFlight
    /\ IF Kind(r) = "infer"
       THEN /\ refs' = [refs EXCEPT ![r] = 0]
            /\ sub' = [sub EXCEPT ![r] = "over"]
            /\ UNCHANGED <<models, held, fired>>
       ELSE /\ models' = ReleaseModel(Model(r))
            /\ held' = [held EXCEPT ![r] = FALSE]
            /\ fired' = [fired EXCEPT ![r] = @ + 1]
            /\ sub' = [sub EXCEPT ![r] = "over"]
            /\ UNCHANGED refs
    /\ UNCHANGED <<owners, made, inferRefs, postRefs, reg, plan, call, guard, post, infer, queue,
                   worker, hal, status, job, stage>>

\* run_async refuses and no callback came.  The worker drops both owners of
\* its state and falls back to the synchronous call; a batch item fails here.
Refused(r) ==
    /\ sub[r] = "run"
    /\ hal[r] = "none"
    /\ phase' = [phase EXCEPT ![r] = IF Gated(r) THEN "Cancelled" ELSE @]
    /\ inFlight' = IF Tracked(r) THEN inFlight - 1 ELSE inFlight
    /\ IF Kind(r) = "infer"
       THEN /\ refs' = [refs EXCEPT ![r] = 0]
            /\ sub' = [sub EXCEPT ![r] = "sync"]
            /\ UNCHANGED <<models, held, fired>>
       ELSE /\ models' = ReleaseModel(Model(r))
            /\ held' = [held EXCEPT ![r] = FALSE]
            /\ fired' = [fired EXCEPT ![r] = @ + 1]
            /\ sub' = [sub EXCEPT ![r] = "over"]
            /\ UNCHANGED refs
    /\ UNCHANGED <<owners, made, inferRefs, postRefs, reg, plan, call, guard, post, infer, queue,
                   worker, hal, status, job, stage>>

\* The synchronous inference call of the worker.
RunSync(r) ==
    /\ sub[r] = "sync"
    /\ \E ok \in BOOLEAN : status' = [status EXCEPT ![r] = ok]
    /\ job' = [job EXCEPT ![r] = "complete"]
    /\ sub' = [sub EXCEPT ![r] = "busy"]
    /\ UNCHANGED <<registry, plan, call, guard, held, post, infer, queue, worker, hal, phase,
                   refs, inFlight, fired, stage>>

-----------------------------------------------------------------------------
(* Completion.                                                              *)

\* A successful batch item goes to the postprocess pool, or runs here when the
\* pool is stopped or full (other work shares it: it may be full at any time).
PoolOpen == stage \in {"serving", "closing", "stopping", "draining"}

Offload(r) ==
    /\ job[r] = "complete"
    /\ Kind(r) # "infer"
    /\ status[r]
    /\ \/ PoolOpen /\ job' = [job EXCEPT ![r] = "pooled"]
       \/ job' = [job EXCEPT ![r] = "inline"]
    /\ UNCHANGED <<registry, plan, call, guard, held, post, infer, queue, worker, sub, hal,
                   phase, status, refs, inFlight, fired, stage>>

\* Where the completion goes once the caller is told.
AfterFinish(r) ==
    IF job[r] = "pooled" THEN "pooltail"
    ELSE IF Kind(r) # "infer" THEN "tail"
    ELSE IF refs[r] = 0 THEN "over" ELSE "release"

\* Mutant: on_complete ignores model_acquired.
Mut_acquired_ignored(r) ==
    /\ \/ job[r] \in {"pooled", "inline"}
       \/ job[r] = "complete" /\ (Kind(r) = "infer" \/ ~status[r])
    /\ models' = IF Registered(Model(r)) THEN ReleaseModel(Model(r)) ELSE models
    /\ held' = [held EXCEPT ![r] = FALSE]
    /\ fired' = [fired EXCEPT ![r] = @ + 1]
    /\ inFlight' = IF Kind(r) = "item" THEN inFlight - 1 ELSE inFlight
    /\ job' = [job EXCEPT ![r] = AfterFinish(r)]
    /\ UNCHANGED <<owners, made, inferRefs, postRefs, reg, plan, call, guard, post, infer, queue,
                   worker, sub, hal, phase, status, refs, stage>>

\* on_complete of Infer, finish_batch_item, or infer_batch_item_post: use the
\* postprocess session, release the model, tell the caller; an item is
\* uncounted (its tail is the rest of notify_async_complete).
Finish(r) ==
    /\ \/ job[r] \in {"pooled", "inline"}
       \/ job[r] = "complete" /\ (Kind(r) = "infer" \/ ~status[r])
    /\ models' = IF held[r] THEN ReleaseModel(Model(r)) ELSE models
    /\ held' = [held EXCEPT ![r] = FALSE]
    /\ fired' = [fired EXCEPT ![r] = @ + 1]
    /\ inFlight' = IF Kind(r) = "item" THEN inFlight - 1 ELSE inFlight
    /\ job' = [job EXCEPT ![r] = AfterFinish(r)]
    /\ UNCHANGED <<owners, made, inferRefs, postRefs, reg, plan, call, guard, post, infer, queue,
                   worker, sub, hal, phase, status, refs, stage>>

\* release_owner of the callback's ownership; the last owner uncounts the job.
CallbackRelease(r) ==
    /\ job[r] = "release"
    /\ refs' = [refs EXCEPT ![r] = @ - 1]
    /\ inFlight' = IF refs[r] = 1 THEN inFlight - 1 ELSE inFlight
    /\ job' = [job EXCEPT ![r] = IF refs[r] = 1 THEN "tail" ELSE "over"]
    /\ UNCHANGED <<registry, plan, call, guard, held, post, infer, queue, worker, sub, hal,
                   phase, status, fired, stage>>

\* release_owner of the submitter's ownership, after its own completion if it
\* had one to run.
SubmitterRelease(r) ==
    /\ sub[r] = "unref" \/ (sub[r] = "busy" /\ job[r] \in {"pooled", "pooltail", "over"})
    /\ sub' = [sub EXCEPT ![r] = "over"]
    /\ refs' = [refs EXCEPT ![r] = IF @ = 0 THEN 0 ELSE @ - 1]
    /\ inFlight' = IF refs[r] = 1 THEN inFlight - 1 ELSE inFlight
    /\ UNCHANGED <<registry, plan, call, guard, held, post, infer, queue, worker, hal, phase,
                   status, job, fired, stage>>

\* The end of notify_async_complete, or of the group's teardown.
Tidy(r) ==
    /\ job[r] \in {"tail", "pooltail"}
    /\ job' = [job EXCEPT ![r] = "over"]
    /\ UNCHANGED <<registry, plan, call, guard, held, post, infer, queue, worker, sub, hal,
                   phase, status, refs, inFlight, fired, stage>>

-----------------------------------------------------------------------------
(* shutdown_runtime.                                                        *)

Advance(from, to) ==
    /\ stage = from
    /\ stage' = to
    /\ UNCHANGED <<plan, call, guard, held, post, infer, queue, worker, sub, hal, phase, status,
                   job, refs, inFlight, fired>>

\* server->Shutdown, which returns when every call has returned.
Shutdown == Advance("serving", "closing") /\ UNCHANGED registry
ServerDown ==
    /\ \A r \in Requests : call[r] \in {"idle", "gone"}
    /\ Advance("closing", "stopping")
    /\ UNCHANGED registry

\* scheduler.stop: the workers empty the queue and are joined.
WorkersJoined ==
    /\ queue = << >>
    /\ \A w \in Workers : worker[w] = "none"
    /\ Advance("stopping", "draining")
    /\ UNCHANGED registry

\* drain_async(5000): the counter reaches zero, or the wait times out and the
\* process ends without destructors.
Drained == inFlight <= 0 /\ Advance("draining", "pooling") /\ UNCHANGED registry
Orphaned == inFlight > 0 /\ Advance("draining", "exited") /\ UNCHANGED registry

\* postprocess_pool.stop, then the destructors: every session goes.
PoolStopped ==
    /\ \A r \in Requests : job[r] \notin {"pooled", "pooltail"}
    /\ Advance("pooling", "destroyed")
    /\ models' = << >> /\ owners' = << >>
    /\ inferRefs' = [s \in Sessions |-> 0]
    /\ postRefs' = [s \in Sessions |-> 0]
    /\ UNCHANGED <<made, reg>>

Ended == stage \in {"destroyed", "exited"}

-----------------------------------------------------------------------------
Rpc(r) ==
    \/ Submit(r) \/ Rejected(r) \/ SubmitBatch(r) \/ ItemFailed(r)
    \/ Answered(r) \/ TimedOut(r)
Submission(r) ==
    \/ WorkerAcquire(r) \/ Accepted(r) \/ CompleteHere(r) \/ Refused(r)
    \/ RunSync(r) \/ SubmitterRelease(r)
Completion(r) == Offload(r) \/ Finish(r) \/ CallbackRelease(r) \/ Tidy(r)
ShutdownStep == ServerDown \/ WorkersJoined \/ Drained \/ Orphaned \/ PoolStopped

Next ==
    \/ Administer
    \/ Shutdown
    \/ /\ ~Ended
       /\ \/ \E r \in Requests :
                Acquire(r) \/ Rpc(r) \/ Submission(r) \/ HalCallback(r) \/ Completion(r)
          \/ \E w \in Workers : Take(w) \/ Free(w)
          \/ ShutdownStep
    \/ Ended /\ UNCHANGED vars

\* Every thread runs, the HAL answers what it accepted, and the waits have
\* timeouts; nobody has to register models, send requests or stop the service.
Fairness ==
    /\ \A r \in Requests :
          /\ WF_vars(~Ended /\ Rpc(r))
          /\ WF_vars(~Ended /\ Submission(r))
          /\ WF_vars(~Ended /\ hal[r] = "due" /\ HalCallback(r))
          /\ WF_vars(~Ended /\ Completion(r))
    /\ \A w \in Workers : WF_vars(~Ended /\ (Take(w) \/ Free(w)))
    /\ WF_vars(ShutdownStep)

Spec == Init /\ [][Next]_vars /\ Fairness

-----------------------------------------------------------------------------
(* Properties.                                                              *)

Count(S, P(_)) == Cardinality({x \in S : P(x)})

\* ref_count is exactly the guards plus the jobs that hold the model, so that
\* release_model, which finds the entry by name, never gives back the
\* reference of another registration of that name.
RefsBalanced ==
    ~Ended =>
       /\ \A r \in Requests : guard[r] \/ held[r] => Registered(Model(r))
       /\ \A id \in DOMAIN models :
             models[id].ref = Count(Requests, LAMBDA r : guard[r] /\ Model(r) = id)
                            + Count(Requests, LAMBDA r : held[r] /\ Model(r) = id)

\* A session lives exactly as long as some id, alias or not, names it.
SessionsShared ==
    ~Ended => \A s \in Sessions :
       /\ inferRefs[s] = Count(DOMAIN models, LAMBDA id : models[id].infer = s)
       /\ postRefs[s] = Count(DOMAIN models, LAMBDA id : models[id].post = s)

\* A job is in the HAL, or owes its completion.  A group's callback may finish
\* before its run_async returns; destroying the session then waits for that
\* call inside the HAL (AsyncProvider).
Flying(r) ==
    \/ sub[r] = "run" /\ (Gated(r) \/ hal[r] = "none")
    \/ sub[r] = "sync"
    \/ hal[r] = "due"
    \/ job[r] \in {"complete", "pooled", "inline"}

\* While a job the runtime accounts for flies, the inference session it was
\* submitted on exists, whatever is unregistered, evicted or shut down.
JobSessionLive ==
    \A r \in Requests :
       Flying(r) /\ infer[r] # 0 /\ (Tracked(r) \/ stage # "destroyed") /\ stage # "exited"
          => inferRefs[infer[r]] > 0

\* The completion of a request is about to use its captured postprocess session.
UsesPost(r) ==
    /\ ~Ended
    /\ post[r] # 0
    /\ job[r] \in {"pooled", "inline"} \/ (job[r] = "complete" /\ status[r])

\* With one owner registering one id, a completion that uses the postprocess
\* session finds it alive as long as the request still holds the reference its
\* snapshot was taken under: a batch item always does, an Infer until it
\* stops waiting.
PostSessionHeld ==
    \A r \in Requests :
       /\ UsesPost(r)
       /\ Cardinality(plan.who) = 1
       /\ Kind(r) = "infer" => guard[r]
       => postRefs[post[r]] > 0

\* A completion runs once: never twice, and by the end of an orderly shutdown
\* for every accepted request the runtime accounts for.
CompletesOnce ==
    \A r \in Requests :
       /\ fired[r] <= 1
       /\ stage = "destroyed" /\ sub[r] # "none" /\ Tracked(r) => fired[r] = 1

\* When the destructors run, accounted work is over, but for a notifier that
\* has decremented async_in_flight_ and not left notify_async_complete yet.
DrainedQuiet ==
    stage = "destroyed" =>
       /\ inFlight = 0
       /\ \A r \in Requests :
             Tracked(r) => /\ sub[r] \in {"none", "over"}
                           /\ hal[r] # "due"
                           /\ job[r] \in {"none", "tail", "over"}

\* An accepted request is completed, unless the process exits on orphans, and
\* a shutdown that begins ends.
AcceptedCompletes == \A r \in Requests : sub[r] = "queued" ~> (fired[r] > 0 \/ Ended)
ShutdownEnds == stage = "closing" ~> Ended

\* grpc_service.cpp: "a rc==1 is an identical same-id/path/config co-owner: its
\* shared postprocess session is already initialized".  When nobody is between
\* the two steps of RegisterModel, a typed owner whose RegisterModel succeeded
\* has a postprocess session as long as its model is registered.
OwnersHavePost ==
    \A o \in Owners :
       LET id == Offer[o].id IN
       /\ reg[o] = "in" /\ Offer[o].typed
       /\ Registered(id) /\ o \in owners[id]
       /\ \A p \in Owners : reg[p] # "init"
       => models[id].post # 0

\* grpc_service.cpp: on_complete "is self-sufficient even if the gRPC thread
\* times out and returns early": the session it captured is alive when used,
\* even with a single owner that registers a single id.
SelfSufficient ==
    \A r \in Requests :
       Kind(r) = "infer" /\ Cardinality(plan.who) = 1 /\ UsesPost(r) => postRefs[post[r]] > 0

\* main.cpp: the shutdown must "quiesce async HAL callbacks" or terminate
\* without destructors.
CallbacksQuiesced == stage = "destroyed" => \A r \in Requests : hal[r] # "due"
=============================================================================
