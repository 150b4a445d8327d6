---------------------------- MODULE ModelManager ---------------------------
(***************************************************************************)
(* The model registry of ai-runtime: ModelManager and the RegisterModel    *)
(* and UnregisterModel handlers that drive it.  An entry names a HAL       *)
(* inference session and, once init_post_process has run, a postprocess    *)
(* session; an id registered for a file that is already loaded becomes an  *)
(* alias that shares both.  RegisterModel is not atomic: the entry is      *)
(* visible between register_model and init_post_process.                   *)
(***************************************************************************)
EXTENDS Naturals, FiniteSets, Functions

CONSTANTS Ids,          \* model ids
          Owners,       \* owner_ids: apps, and "<system>"
          Offer,        \* Offer[o]: the registration owner o asks for: [id, path, cfg, typed]
          MaxSessions   \* bound: HAL sessions created in one behaviour

ASSUME RegistryAssumption ==
    /\ IsFiniteSet(Ids) /\ IsFiniteSet(Owners)
    /\ \A o \in Owners : Offer[o].id \in Ids
    /\ MaxSessions \in Nat

VARIABLES models,      \* models_: id -> [path, cfg, ref, infer, post]; post = 0: none yet
          owners,      \* owners_: id -> set of owners
          made,        \* how many HAL sessions were created; they are numbered
          inferRefs,   \* infer_refs_[s]; 0: destroyed or never created
          postRefs,    \* post_refs_[s]
          reg          \* reg[o]: o's RegisterModel: "out", "init" (between its two steps), "in"

registry == <<models, owners, made, inferRefs, postRefs, reg>>

Sessions == 1..MaxSessions
Registered(id) == id \in DOMAIN models

Entries == [path : {Offer[o].path : o \in Owners}, cfg : {Offer[o].cfg : o \in Owners},
            ref : Nat, infer : Sessions, post : {0} \cup Sessions]

RegistryTypeOK ==
    /\ DOMAIN models \subseteq Ids
    /\ models \in [DOMAIN models -> Entries]
    /\ owners \in [DOMAIN models -> SUBSET Owners]
    /\ made \in 0..MaxSessions
    /\ inferRefs \in [Sessions -> Nat]
    /\ postRefs \in [Sessions -> Nat]
    /\ reg \in [Owners -> {"out", "init", "in"}]

\* Empty when ai-runtime starts without preloaded models.
RegistryInit ==
    /\ models = << >>
    /\ owners = << >>
    /\ made = 0
    /\ inferRefs = [s \in Sessions |-> 0]
    /\ postRefs = [s \in Sessions |-> 0]
    /\ reg = [o \in Owners |-> "out"]

\* f with the pair x -> v added or replaced; f without x.
With(f, x, v) == [y \in DOMAIN f \cup {x} |-> IF y = x THEN v ELSE f[y]]
Without(f, x) == Restrict(f, DOMAIN f \ {x})

\* add_*_locked and release_*_locked; the session is destroyed at zero.
AddRef(refs, s) == IF s = 0 THEN refs ELSE [refs EXCEPT ![s] = @ + 1]
DropRef(refs, s) == IF s = 0 \/ refs[s] = 0 THEN refs ELSE [refs EXCEPT ![s] = @ - 1]

\* acquire_model_snapshot and release_model, on models_.
AcquireModel(id) == [models EXCEPT ![id].ref = @ + 1]
ReleaseModel(id) == [models EXCEPT ![id].ref = IF @ > 0 THEN @ - 1 ELSE 0]

-----------------------------------------------------------------------------
\* The entry goes: its sessions lose one reference each.
Remove(id) ==
    /\ postRefs' = DropRef(postRefs, models[id].post)
    /\ inferRefs' = DropRef(inferRefs, models[id].infer)
    /\ models' = Without(models, id)
    /\ owners' = Without(owners, id)

\* Mutant: the last owner need not wait for inferences.
Mut_in_use_ignored(id, o) ==
    IF ~Registered(id) \/ o \notin owners[id]
    THEN UNCHANGED <<models, owners, inferRefs, postRefs>>
    ELSE IF Cardinality(owners[id]) > 1
    THEN /\ owners' = [owners EXCEPT ![id] = @ \ {o}]
         /\ UNCHANGED <<models, inferRefs, postRefs>>
    ELSE Remove(id)

\* unregister_model for an owner: not registered, or not one of several
\* owners, or refused while the model is in use, or unloaded.
ScopedUnregister(id, o) ==
    IF ~Registered(id) \/ o \notin owners[id]
    THEN UNCHANGED <<models, owners, inferRefs, postRefs>>
    ELSE IF Cardinality(owners[id]) > 1
    THEN /\ owners' = [owners EXCEPT ![id] = @ \ {o}]
         /\ UNCHANGED <<models, inferRefs, postRefs>>
    ELSE IF models[id].ref > 0
    THEN UNCHANGED <<models, owners, inferRefs, postRefs>>
    ELSE Remove(id)

\* register_model: the same id again is a co-owner when path and configuration
\* agree (a clash is refused and changes nothing)...
CoOwn(o) ==
    LET f == Offer[o] IN
    /\ reg[o] # "init"
    /\ Registered(f.id)
    /\ models[f.id].path = f.path
    /\ models[f.id].cfg = f.cfg
    /\ owners' = [owners EXCEPT ![f.id] = @ \cup {o}]
    /\ reg' = [reg EXCEPT ![o] = "in"]
    /\ UNCHANGED <<models, made, inferRefs, postRefs>>

\* Mutant: an alias does not count as a user of the postprocess session.
Mut_alias_not_counted(o) ==
    LET f == Offer[o] IN
    /\ reg[o] # "init"
    /\ ~Registered(f.id)
    /\ \E e \in DOMAIN models :
          /\ models[e].path = f.path
          /\ models' = With(models, f.id, [models[e] EXCEPT !.cfg = f.cfg, !.ref = 0])
          /\ inferRefs' = AddRef(inferRefs, models[e].infer)
          /\ UNCHANGED postRefs
    /\ owners' = With(owners, f.id, {o})
    /\ reg' = [reg EXCEPT ![o] = IF f.typed THEN "init" ELSE "in"]
    /\ UNCHANGED made

\* ... a new id for a file that is loaded is an alias of the entry found ...
Alias(o) ==
    LET f == Offer[o] IN
    /\ reg[o] # "init"
    /\ ~Registered(f.id)
    /\ \E e \in DOMAIN models :
          /\ models[e].path = f.path
          /\ models' = With(models, f.id, [models[e] EXCEPT !.cfg = f.cfg, !.ref = 0])
          /\ inferRefs' = AddRef(inferRefs, models[e].infer)
          /\ postRefs' = AddRef(postRefs, models[e].post)
    /\ owners' = With(owners, f.id, {o})
    /\ reg' = [reg EXCEPT ![o] = IF f.typed THEN "init" ELSE "in"]
    /\ UNCHANGED made

\* ... and anything else is loaded.
Load(o) ==
    LET f == Offer[o]
        s == made + 1
    IN
    /\ reg[o] # "init"
    /\ ~Registered(f.id)
    /\ \A e \in DOMAIN models : models[e].path # f.path
    /\ s \in Sessions
    /\ made' = s
    /\ inferRefs' = AddRef(inferRefs, s)
    /\ models' = With(models, f.id,
          [path |-> f.path, cfg |-> f.cfg, ref |-> 0, infer |-> s, post |-> 0])
    /\ owners' = With(owners, f.id, {o})
    /\ reg' = [reg EXCEPT ![o] = IF f.typed THEN "init" ELSE "in"]
    /\ UNCHANGED postRefs

\* init_post_process, after register_model returned 0 for a typed model.
InitPost(o) ==
    LET id == Offer[o].id
        s == made + 1
    IN
    /\ reg[o] = "init"
    /\ s \in Sessions
    /\ made' = s
    /\ IF Registered(id)
       THEN /\ postRefs' = AddRef(DropRef(postRefs, models[id].post), s)
            /\ models' = [models EXCEPT ![id].post = s]
            /\ reg' = [reg EXCEPT ![o] = "in"]
       ELSE /\ reg' = [reg EXCEPT ![o] = "out"]
            /\ UNCHANGED <<models, postRefs>>
    /\ UNCHANGED <<owners, inferRefs>>

\* The backend cannot create the postprocess session: RegisterModel rolls back.
InitPostFails(o) ==
    /\ reg[o] = "init"
    /\ ScopedUnregister(Offer[o].id, o)
    /\ reg' = [reg EXCEPT ![o] = "out"]
    /\ UNCHANGED made

\* UnregisterModel by an owner; the owner knows when it is refused.
Unregister(o) ==
    LET id == Offer[o].id
        refused == Registered(id) /\ owners[id] = {o} /\ models[id].ref > 0
    IN
    /\ reg[o] = "in"
    /\ ScopedUnregister(id, o)
    /\ reg' = [reg EXCEPT ![o] = IF refused THEN "in" ELSE "out"]
    /\ UNCHANGED made

\* Mutant: the forced unload does not look at ref_count.
Mut_evict_in_use(id) ==
    /\ Registered(id)
    /\ Remove(id)
    /\ UNCHANGED <<made, reg>>

\* UnregisterModel without an owner, and force_unregister_all for GenAI.
Evict(id) ==
    /\ Registered(id)
    /\ models[id].ref = 0
    /\ Remove(id)
    /\ UNCHANGED <<made, reg>>

EvictAll ==
    /\ DOMAIN models # {}
    /\ \A id \in DOMAIN models : models[id].ref = 0
    /\ models' = << >>
    /\ owners' = << >>
    /\ inferRefs' = [s \in Sessions |-> 0]
    /\ postRefs' = [s \in Sessions |-> 0]
    /\ UNCHANGED <<made, reg>>
=============================================================================
