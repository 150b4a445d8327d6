------------------------- MODULE InferRuntimeProofs -------------------------
(***************************************************************************)
(* For any requests, workers, models, owners and plans: the references and *)
(* the sessions of the registry are balanced, a job never outlives the     *)
(* session it runs on, a completion runs once, and the shutdown ends with  *)
(* nothing the runtime counts still running.  First the steps of the       *)
(* registry.                                                               *)
(***************************************************************************)
EXTENDS InferRuntimeJobs, FiniteSetTheorems

\* A new id is registered: nobody uses it yet, and its sessions gain a user.
LEMMA EntryAdded ==
  ASSUME SetFacts, IInv, ~Ended, UNCHANGED <<plan, jobvars>>, NEW id \in Ids, ~Registered(id),
         NEW o \in Owners, owners' = With(owners, id, {o}),
         NEW v \in Entries, v.ref = 0, models' = With(models, id, v),
         inferRefs' = AddRef(inferRefs, v.infer), postRefs' = AddRef(postRefs, v.post),
         made' \in 0..MaxSessions, reg' \in [Owners -> {"out", "init", "in"}]
  PROVE  /\ TypeOK' /\ JobInv' /\ ~Ended' /\ RefsBalanced' /\ SessionsShared' /\ Captured' /\ PostKept'
         /\ DOMAIN models' = DOMAIN models \cup {id} /\ models'[id] = v
         /\ \A x \in DOMAIN models : models'[x] = models[x]
<1>1. TypeOK /\ JobInv /\ RefsBalanced /\ SessionsShared /\ RegistryTypeOK
  BY Zenon DEF IInv, TypeOK
<1>2. Captured /\ PostKept
  BY Zenon DEF IInv, RegInv
<1>3. JobInv' /\ ~Ended'
  BY <1>1, JobSame, Zenon
<1>4. UNCHANGED <<guard, held, infer, post>>
  BY Zenon DEF jobvars
<1>5. /\ DOMAIN models' = DOMAIN models \cup {id} /\ models'[id] = v
      /\ \A x \in DOMAIN models : models'[x] = models[x]
      /\ id \notin DOMAIN models
  BY Zenon DEF With, Registered
<1>6. IsFiniteSet(DOMAIN models)
  BY <1>1, RegistryAssumption, FinSubset, Zenon DEF RegistryTypeOK
<1>7. /\ inferRefs' \in [Sessions -> Nat]
      /\ Tally(inferRefs, DOMAIN models, Infers(models))' /\ Tally(postRefs, DOMAIN models, Posts(models))'
      /\ postRefs' \in [Sessions -> Nat]
  <2>1. PICK g, h, p, q : g = Infers(models) /\ h = Infers(models') /\ p = Posts(models) /\ q = Posts(models')
    BY Zenon
  <2>2. Tally(inferRefs, DOMAIN models, g) /\ Tally(postRefs, DOMAIN models, p)
    BY <1>1, <2>1, SharedIs, Zenon
  <2>3. /\ \A x \in DOMAIN models : h[x] = g[x] /\ q[x] = p[x]
        /\ h[id] = v.infer /\ q[id] = v.post /\ h[id] \in {0} \cup Sessions /\ q[id] \in {0} \cup Sessions
    BY <1>5, <2>1, Zenon DEF Infers, Posts, Entries
  <2>4. inferRefs \in [Sessions -> Nat] /\ postRefs \in [Sessions -> Nat]
    BY <1>1, Zenon DEF RegistryTypeOK
  <2>5. /\ AddRef(inferRefs, h[id]) \in [Sessions -> Nat]
        /\ Tally(AddRef(inferRefs, h[id]), DOMAIN models \cup {id}, h)
    BY <1>5, <1>6, <2>2, <2>3, <2>4, TallyAdd, Zenon
  <2>6. /\ AddRef(postRefs, q[id]) \in [Sessions -> Nat]
        /\ Tally(AddRef(postRefs, q[id]), DOMAIN models \cup {id}, q)
    BY <1>5, <1>6, <2>2, <2>3, <2>4, TallyAdd, ZenonT(30)
  <2> QED
    BY <1>5, <2>1, <2>3, <2>5, <2>6, Zenon
<1>8. SessionsShared'
  BY <1>7, SharedIs, Zenon
<1>9. TypeOK'
  <2>1. models' \in [DOMAIN models' -> Entries] /\ owners' \in [DOMAIN models' -> SUBSET Owners]
    <3>1. models \in [DOMAIN models -> Entries] /\ owners \in [DOMAIN models -> SUBSET Owners]
      BY <1>1, Zenon DEF RegistryTypeOK
    <3> QED
      BY <1>5, <3>1, Zenon DEF With
  <2> QED
    BY <1>1, <1>5, <1>7, <2>1, TypesSame, Zenon DEF RegistryTypeOK
<1>10. RefsBalanced'
  <2>1. \A x \in Requests : guard[x] \/ held[x] => plan.id[x] \in DOMAIN models
    BY <1>1, BalancedIs, Zenon
  <2>2. PICK A, B : /\ A = {x \in Requests : guard[x] /\ plan.id[x] = id}
                    /\ B = {x \in Requests : held[x] /\ plan.id[x] = id}
    BY Zenon
  <2>3. models'[id].ref = Cardinality({x \in Requests : guard[x] /\ plan.id[x] = id})
                        + Cardinality({x \in Requests : held[x] /\ plan.id[x] = id})
    <3>1. A = {} /\ B = {}
      BY <1>5, <2>1, <2>2, Zenon
    <3>2. models'[id].ref = Cardinality(A) + Cardinality(B)
      BY <1>5, <3>1, FinEmpty
    <3> QED
      BY <2>2, <3>2, Zenon
  <2>4. ASSUME NEW x \in DOMAIN models
        PROVE  models'[x].ref = Cardinality({y \in Requests : guard[y] /\ plan.id[y] = x})
                              + Cardinality({y \in Requests : held[y] /\ plan.id[y] = x})
    BY <1>1, <1>5, BalancedIs, Zenon
  <2>5. \A x \in Requests : guard'[x] \/ held'[x] => plan'.id[x] \in DOMAIN models'
    BY <1>4, <1>5, <2>1, Zenon
  <2>6. \A x \in DOMAIN models' :
           models'[x].ref = Cardinality({y \in Requests : guard[y] /\ plan.id[y] = x})
                          + Cardinality({y \in Requests : held[y] /\ plan.id[y] = x})
    BY <1>5, <2>3, <2>4, Zenon
  <2>7. \A x \in DOMAIN models' :
           models'[x].ref = Cardinality({y \in Requests : guard'[y] /\ plan'.id[y] = x})
                          + Cardinality({y \in Requests : held'[y] /\ plan'.id[y] = x})
    BY <1>4, <2>6, Zenon
  <2> QED
    BY <2>5, <2>7, BalancedIs, Zenon
<1>11. Captured' /\ PostKept'
  <2>1. \A x \in Requests : guard[x] \/ held[x] => Model(x) \in DOMAIN models
    BY <1>1, Zenon DEF RefsBalanced, Registered
  <2> QED
    BY <1>2, <1>4, <1>5, <2>1 DEF Captured, PostKept, Sole, Model, Kind
<1> QED
  BY <1>3, <1>5, <1>8, <1>9, <1>10, <1>11, Zenon

\* An entry no request has a reference to is removed.
LEMMA EntryRemoved ==
  ASSUME SetFacts, IInv, ~Ended, UNCHANGED <<plan, jobvars, made>>,
         NEW id, Registered(id), models[id].ref = 0, Remove(id),
         reg' \in [Owners -> {"out", "init", "in"}], \A p \in Owners : reg'[p] = "init" => reg[p] = "init"
  PROVE  IInv'
<1>1. TypeOK /\ JobInv /\ RefsBalanced /\ SessionsShared /\ RegistryTypeOK /\ plan.who \subseteq Owners
  BY RuntimeAssumption, Zenon DEF IInv, TypeOK
<1>2. Known /\ Captured /\ SoleOwner /\ PostKept
  BY Zenon DEF IInv, RegInv
<1>3. JobInv' /\ ~Ended'
  BY <1>1, JobSame, Zenon
<1>4. UNCHANGED <<guard, held, infer, post>>
  BY Zenon DEF jobvars
<1>5. /\ models \in [DOMAIN models -> Entries] /\ owners \in [DOMAIN models -> SUBSET Owners]
      /\ inferRefs \in [Sessions -> Nat] /\ postRefs \in [Sessions -> Nat]
      /\ IsFiniteSet(DOMAIN models) /\ id \in DOMAIN models
  BY <1>1, RegistryAssumption, FinSubset, Zenon DEF RegistryTypeOK, Registered
<1>6. /\ DOMAIN models' = DOMAIN models \ {id}
      /\ \A x \in DOMAIN models' : models'[x] = models[x]
      /\ models' \in [DOMAIN models' -> Entries] /\ owners' \in [DOMAIN models' -> SUBSET Owners]
  BY <1>5, Zenon DEF Remove, Without, Restrict
<1>7. /\ inferRefs' \in [Sessions -> Nat]
      /\ Tally(inferRefs, DOMAIN models, Infers(models))' /\ Tally(postRefs, DOMAIN models, Posts(models))'
      /\ postRefs' \in [Sessions -> Nat]
  <2>1. PICK g, h, p, q : g = Infers(models) /\ h = Infers(models') /\ p = Posts(models) /\ q = Posts(models')
    BY Zenon
  <2>2. Tally(inferRefs, DOMAIN models, g) /\ Tally(postRefs, DOMAIN models, p)
    BY <1>1, <2>1, SharedIs, Zenon
  <2>3. /\ \A x \in DOMAIN models \ {id} : h[x] = g[x] /\ q[x] = p[x]
        /\ g[id] = models[id].infer /\ p[id] = models[id].post
        /\ g[id] \in {0} \cup Sessions /\ p[id] \in {0} \cup Sessions
    BY <1>5, <1>6, <2>1, Zenon DEF Infers, Posts, Entries
  <2>4. /\ DropRef(inferRefs, g[id]) \in [Sessions -> Nat]
        /\ Tally(DropRef(inferRefs, g[id]), DOMAIN models \ {id}, h)
    BY <1>5, <2>2, <2>3, TallyDrop, ZenonT(30)
  <2>5. /\ DropRef(postRefs, p[id]) \in [Sessions -> Nat]
        /\ Tally(DropRef(postRefs, p[id]), DOMAIN models \ {id}, q)
    BY <1>5, <2>2, <2>3, TallyDrop, ZenonT(30)
  <2> QED
    BY <1>6, <2>1, <2>3, <2>4, <2>5 DEF Remove
<1>8. SessionsShared'
  BY <1>7, SharedIs, Zenon
<1>9. TypeOK'
  <2>1. RegistryTypeOK'
    BY <1>1, <1>6, <1>7, Zenon DEF RegistryTypeOK
  <2> QED
    BY <1>1, <2>1, TypesSame, Zenon
<1>10. \A x \in Requests : guard[x] \/ held[x] => plan.id[x] \in DOMAIN models'
  <2>1. PICK A, B : /\ A = {x \in Requests : guard[x] /\ plan.id[x] = id}
                    /\ B = {x \in Requests : held[x] /\ plan.id[x] = id}
    BY Zenon
  <2>2. models[id].ref = Cardinality(A) + Cardinality(B)
    BY <1>1, <1>5, <2>1, BalancedIs, Zenon
  <2>3. IsFiniteSet(A) /\ IsFiniteSet(B) /\ Cardinality(A) \in Nat /\ Cardinality(B) \in Nat
    BY <2>1, Counting, Zenon
  <2>4. Cardinality(A) = 0 /\ Cardinality(B) = 0
    BY <2>2, <2>3
  <2>5. A = {} /\ B = {}
    BY <2>3, <2>4, FinEmpty, Zenon
  <2>6. \A x \in Requests : guard[x] \/ held[x] => plan.id[x] \in DOMAIN models
    BY <1>1, BalancedIs, Zenon
  <2> QED
    BY <1>6, <2>1, <2>5, <2>6, Zenon
<1>11. RefsBalanced'
  <2>1. \A x \in DOMAIN models' :
           models'[x].ref = Cardinality({y \in Requests : guard[y] /\ plan.id[y] = x})
                          + Cardinality({y \in Requests : held[y] /\ plan.id[y] = x})
    <3>1. ASSUME NEW x \in DOMAIN models'
          PROVE  x \in DOMAIN models /\ models'[x].ref = models[x].ref
      BY <1>6, Zenon
    <3> QED
      BY <1>1, <3>1, BalancedIs, Zenon
  <2>2. \A x \in DOMAIN models' :
           models'[x].ref = Cardinality({y \in Requests : guard'[y] /\ plan'.id[y] = x})
                          + Cardinality({y \in Requests : held'[y] /\ plan'.id[y] = x})
    BY <1>4, <2>1, Zenon
  <2>3. \A x \in Requests : guard'[x] \/ held'[x] => plan'.id[x] \in DOMAIN models'
    BY <1>4, <1>10, Zenon
  <2> QED
    BY <2>2, <2>3, BalancedIs, Zenon
<1>12. Captured' /\ PostKept'
  BY <1>2, <1>4, <1>6, <1>10 DEF Captured, PostKept, Sole, Model, Kind
<1>13. Known' /\ SoleOwner'
  BY <1>1, <1>2, <1>6, Zenon DEF Known, SoleOwner, Sole, Registered
<1> QED
  BY <1>3, <1>8, <1>9, <1>11, <1>12, <1>13, Zenon DEF IInv, RegInv

\* unregister_model for an owner.
LEMMA ScopedKeeps ==
  ASSUME SetFacts, IInv, ~Ended, UNCHANGED <<plan, jobvars, made>>, NEW id, NEW o, ScopedUnregister(id, o),
         reg' \in [Owners -> {"out", "init", "in"}], \A p \in Owners : reg'[p] = "init" => reg[p] = "init"
  PROVE  IInv'
<1>1. RegistryTypeOK
  BY Zenon DEF IInv, TypeOK
<1>2. made' \in 0..MaxSessions /\ made <= made' /\ owners \in [DOMAIN models -> SUBSET Owners]
  BY <1>1, RegistryAssumption DEF RegistryTypeOK
<1>3. CASE UNCHANGED <<models, owners, inferRefs, postRefs>>
  BY <1>2, <1>3, OwnersOnly, Zenon
<1>4. CASE /\ Registered(id) /\ owners' = [owners EXCEPT ![id] = @ \ {o}]
           /\ UNCHANGED <<models, inferRefs, postRefs>>
  <2>1. owners' \in [DOMAIN models -> SUBSET Owners]
    BY <1>2, <1>4, Zenon
  <2> QED
    BY <1>2, <1>4, <2>1, OwnersOnly, Zenon
<1>5. CASE Registered(id) /\ models[id].ref = 0 /\ Remove(id)
  BY <1>5, EntryRemoved, Zenon
<1>6. Registered(id) => models[id].ref \in Nat
  BY <1>1, Zenon DEF RegistryTypeOK, Entries, Registered
<1>7. \/ UNCHANGED <<models, owners, inferRefs, postRefs>>
      \/ /\ Registered(id) /\ owners' = [owners EXCEPT ![id] = @ \ {o}]
         /\ UNCHANGED <<models, inferRefs, postRefs>>
      \/ Registered(id) /\ models[id].ref = 0 /\ Remove(id)
  BY <1>6 DEF ScopedUnregister
<1> QED
  BY <1>3, <1>4, <1>5, <1>7, Zenon

\* The owners of a plan are owners; when it has one, there is no other.
LEMMA Owning ==
  ASSUME SetFacts, TypeOK, NEW o \in plan.who
  PROVE  o \in Owners /\ Offer[o].id \in Ids /\ (Sole => plan.who = {o})
<1>1. plan.who \subseteq Owners
  BY RuntimeAssumption, Zenon DEF TypeOK
<1>2. IsFiniteSet(plan.who)
  BY <1>1, RegistryAssumption, FinSubset, Zenon
<1>3. Sole => \E x : plan.who = {x}
  BY <1>2, FinOne, Zenon DEF Sole
<1> QED
  BY <1>1, <1>3, RegistryAssumption, Zenon

\* RegisterModel of a registered id ...
LEMMA CoOwnKeeps ==
  ASSUME SetFacts, IInv, ~Ended, UNCHANGED <<plan, jobvars>>, NEW o \in plan.who, CoOwn(o)
  PROVE  IInv'
<1>1. TypeOK /\ RegistryTypeOK /\ o \in Owners
  BY Owning, Zenon DEF IInv, TypeOK
<1>2. /\ made' \in 0..MaxSessions /\ made <= made'
      /\ owners' \in [DOMAIN models -> SUBSET Owners]
      /\ reg' \in [Owners -> {"out", "init", "in"}] /\ \A p \in Owners : reg'[p] = "init" => reg[p] = "init"
  BY <1>1, RegistryAssumption DEF RegistryTypeOK, CoOwn, Registered
<1> QED
  BY <1>2, OwnersOnly, Zenon DEF CoOwn

\* ... of a new id for a loaded file, which a sole owner never does ...
LEMMA AliasKeeps ==
  ASSUME SetFacts, IInv, ~Ended, UNCHANGED <<plan, jobvars>>, NEW o \in plan.who, Alias(o)
  PROVE  IInv'
<1>1. TypeOK /\ RegistryTypeOK /\ o \in Owners /\ Offer[o].id \in Ids /\ Known /\ SoleOwner
  BY Owning, Zenon DEF IInv, TypeOK, RegInv
<1>2. PICK e \in DOMAIN models :
         /\ models' = With(models, Offer[o].id, [models[e] EXCEPT !.cfg = Offer[o].cfg, !.ref = 0])
         /\ inferRefs' = AddRef(inferRefs, models[e].infer)
         /\ postRefs' = AddRef(postRefs, models[e].post)
  BY Zenon DEF Alias
<1>3. PICK v : v = [models[e] EXCEPT !.cfg = Offer[o].cfg, !.ref = 0]
  BY Zenon
<1>4. v \in Entries /\ v.ref = 0 /\ v.infer = models[e].infer /\ v.post = models[e].post
  <2>1. models[e] \in Entries
    BY <1>1, Zenon DEF RegistryTypeOK
  <2> QED
    BY <1>1, <1>3, <2>1, Zenon DEF Entries
<1>5. made' \in 0..MaxSessions /\ reg' \in [Owners -> {"out", "init", "in"}]
  <2>1. PICK t \in {"init", "in"} : reg' = [reg EXCEPT ![o] = t]
    BY Zenon DEF Alias
  <2> QED
    BY <1>1, <2>1, Zenon DEF RegistryTypeOK, Alias
<1>6. /\ TypeOK' /\ JobInv' /\ ~Ended' /\ RefsBalanced' /\ SessionsShared' /\ Captured' /\ PostKept'
      /\ DOMAIN models' = DOMAIN models \cup {Offer[o].id} /\ models'[Offer[o].id] = v
      /\ \A x \in DOMAIN models : models'[x] = models[x]
  <2>1. ~Registered(Offer[o].id) /\ owners' = With(owners, Offer[o].id, {o})
    BY Zenon DEF Alias
  <2>2. models' = With(models, Offer[o].id, v) /\ inferRefs' = AddRef(inferRefs, v.infer)
        /\ postRefs' = AddRef(postRefs, v.post)
    BY <1>2, <1>3, <1>4, Zenon
  <2> QED
    BY <1>1, <1>4, <1>5, <2>1, <2>2, EntryAdded, Zenon
<1>7. Known'
  BY <1>1, <1>4, <1>6, Zenon DEF Known, Alias
<1>8. SoleOwner'
  BY <1>1, Zenon DEF SoleOwner, Sole, Alias, Registered
<1> QED
  BY <1>6, <1>7, <1>8, Zenon DEF IInv, RegInv

\* ... and of a file to load, on a session nobody has had before.
LEMMA LoadKeeps ==
  ASSUME SetFacts, IInv, ~Ended, UNCHANGED <<plan, jobvars>>, NEW o \in plan.who, Load(o)
  PROVE  IInv'
<1>1. TypeOK /\ RegistryTypeOK /\ o \in Owners /\ Offer[o].id \in Ids /\ Known /\ SoleOwner
  BY Owning, Zenon DEF IInv, TypeOK, RegInv
<1>2. PICK v : v = [path |-> Offer[o].path, cfg |-> Offer[o].cfg, ref |-> 0, infer |-> made + 1, post |-> 0]
  BY Zenon
<1>3. /\ made' = made + 1 /\ made + 1 \in Sessions /\ ~Registered(Offer[o].id)
      /\ owners' = With(owners, Offer[o].id, {o}) /\ models' = With(models, Offer[o].id, v)
      /\ inferRefs' = AddRef(inferRefs, made + 1) /\ postRefs' = postRefs
  BY <1>2, Zenon DEF Load
<1>4. v \in Entries /\ v.ref = 0 /\ v.infer = made + 1 /\ v.post = 0
  BY <1>1, <1>2, <1>3, Zenon DEF Entries
<1>5. PICK t \in {"init", "in"} : reg' = [reg EXCEPT ![o] = t]
  BY Zenon DEF Load
<1>6. /\ TypeOK' /\ JobInv' /\ ~Ended' /\ RefsBalanced' /\ SessionsShared' /\ Captured' /\ PostKept'
      /\ DOMAIN models' = DOMAIN models \cup {Offer[o].id} /\ models'[Offer[o].id] = v
      /\ \A x \in DOMAIN models : models'[x] = models[x]
  <2>1. made' \in 0..MaxSessions /\ reg' \in [Owners -> {"out", "init", "in"}]
    BY <1>1, <1>3, <1>5, RegistryAssumption DEF RegistryTypeOK, Sessions
  <2>2. inferRefs' = AddRef(inferRefs, v.infer) /\ postRefs' = AddRef(postRefs, v.post)
    BY <1>3, <1>4, Zenon DEF AddRef
  <2> QED
    BY <1>1, <1>3, <1>4, <2>1, <2>2, EntryAdded, Zenon
<1>7. Known'
  <2>1. \A id \in DOMAIN models : models[id].infer \in Nat /\ models[id].post \in Nat /\ made \in Nat
    BY <1>1, RegistryAssumption DEF RegistryTypeOK, Entries, Sessions
  <2>2. made \in Nat
    BY <1>1, RegistryAssumption DEF RegistryTypeOK
  <2>3. \A id \in DOMAIN models : models'[id].infer <= made' /\ models'[id].post <= made'
    BY <1>1, <1>3, <1>6, <2>1 DEF Known
  <2>4. v.infer <= made' /\ v.post <= made'
    BY <1>3, <1>4, <2>2
  <2> QED
    BY <1>6, <2>3, <2>4, Zenon DEF Known
<1>8. SoleOwner'
  <2>1. ASSUME Sole
        PROVE  DOMAIN models = {} /\ plan.who = {o}
    <3>1. plan.who = {o}
      BY <1>1, <2>1, Owning, Zenon
    <3>2. DOMAIN models \subseteq {Offer[o].id}
      BY <1>1, <2>1, Zenon DEF SoleOwner
    <3> QED
      BY <1>3, <3>1, <3>2, Zenon DEF Registered
  <2> QED
    BY <1>4, <1>6, <2>1, Zenon DEF SoleOwner, Sole
<1> QED
  BY <1>6, <1>7, <1>8, Zenon DEF IInv, RegInv

\* init_post_process replaces the entry's postprocess session; when there is
\* one owner, that session was not there for any request to capture.
LEMMA InitPostKeeps ==
  ASSUME SetFacts, IInv, ~Ended, UNCHANGED <<plan, jobvars>>, NEW o \in plan.who, InitPost(o), Registered(Offer[o].id)
  PROVE  IInv'
<1>1. /\ TypeOK /\ JobInv /\ RegistryTypeOK /\ RefsBalanced /\ SessionsShared /\ o \in Owners
      /\ Known /\ Captured /\ SoleOwner /\ PostKept
  BY Owning, Zenon DEF IInv, TypeOK, RegInv
<1>2. JobInv' /\ ~Ended' /\ UNCHANGED <<guard, held, infer, post>>
  BY <1>1, JobSame, Zenon DEF jobvars
<1>3. PICK id \in DOMAIN models : id = Offer[o].id
  BY Zenon DEF Registered
<1>4. PICK s \in Sessions : s = made + 1
  BY Zenon DEF InitPost
<1>5. /\ made' = s /\ postRefs' = AddRef(DropRef(postRefs, models[id].post), s)
      /\ models' = [models EXCEPT ![id].post = s] /\ reg' = [reg EXCEPT ![o] = "in"] /\ reg[o] = "init"
      /\ owners' = owners /\ inferRefs' = inferRefs
  BY <1>3, <1>4, Zenon DEF InitPost
<1>6. /\ models \in [DOMAIN models -> Entries] /\ made \in Nat /\ IsFiniteSet(DOMAIN models)
      /\ postRefs \in [Sessions -> Nat]
  BY <1>1, RegistryAssumption, FinSubset DEF RegistryTypeOK
<1>7. /\ DOMAIN models' = DOMAIN models /\ models' \in [DOMAIN models' -> Entries] /\ models'[id].post = s
      /\ \A x \in DOMAIN models : /\ models'[x].infer = models[x].infer /\ models'[x].ref = models[x].ref
                                  /\ x # id => models'[x].post = models[x].post
  <2>1. PICK e : e = [models[id] EXCEPT !.post = s]
    BY Zenon
  <2>2. e \in Entries /\ e.post = s /\ e.infer = models[id].infer /\ e.ref = models[id].ref
    BY <1>6, <2>1, Zenon DEF Entries
  <2>3. models' = [models EXCEPT ![id] = e]
    BY <1>5, <2>1, Zenon
  <2> QED
    BY <1>6, <2>2, <2>3, Zenon
<1>8. Tally(postRefs, DOMAIN models, Posts(models))' /\ postRefs' \in [Sessions -> Nat]
  <2>1. PICK p, q, D : p = Posts(models) /\ q = Posts(models') /\ D = DOMAIN models \ {id}
    BY Zenon
  <2>2. Tally(postRefs, DOMAIN models, p)
    BY <1>1, <2>1, SharedIs, Zenon
  <2>3. /\ \A x \in DOMAIN models \ {id} : q[x] = p[x]
        /\ p[id] = models[id].post /\ p[id] \in {0} \cup Sessions /\ q[id] = s
    BY <1>6, <1>7, <2>1, Zenon DEF Posts, Entries
  <2>4. PICK k : k = DropRef(postRefs, p[id])
    BY Zenon
  <2>5. DropRef(postRefs, p[id]) \in [Sessions -> Nat] /\ Tally(DropRef(postRefs, p[id]), DOMAIN models \ {id}, q)
    BY <1>6, <2>2, <2>3, TallyDrop, Zenon
  <2>6. IsFiniteSet(D) /\ id \notin D /\ D \cup {id} = DOMAIN models /\ q[id] \in {0} \cup Sessions
    BY <1>6, <2>1, <2>3, FinSubset, Zenon
  <2>7. k \in [Sessions -> Nat] /\ Tally(k, D, q) /\ \A x \in D : q[x] = q[x]
    BY <2>1, <2>4, <2>5, Zenon
  <2>8. AddRef(k, q[id]) \in [Sessions -> Nat] /\ Tally(AddRef(k, q[id]), D \cup {id}, q)
    BY <2>6, <2>7, TallyAdd, Zenon
  <2> QED
    BY <1>5, <1>7, <2>1, <2>3, <2>4, <2>6, <2>8, ZenonT(30)
<1>9. SessionsShared'
  <2>1. Tally(inferRefs, DOMAIN models, Infers(models))
    BY <1>1, SharedIs, Zenon
  <2>2. Infers(models') = Infers(models)
    BY <1>7, Zenon DEF Infers
  <2> QED
    BY <1>5, <1>7, <1>8, <2>1, <2>2, SharedIs, Zenon
<1>10. TypeOK'
  <2>1. made' \in 0..MaxSessions /\ reg' \in [Owners -> {"out", "init", "in"}]
    BY <1>1, <1>5, RegistryAssumption DEF RegistryTypeOK, Sessions
  <2>2. RegistryTypeOK'
    BY <1>1, <1>5, <1>7, <1>8, <2>1, Zenon DEF RegistryTypeOK
  <2> QED
    BY <1>1, <2>2, TypesSame, Zenon
<1>11. \A x \in Requests : guard[x] \/ held[x] => Model(x) \in DOMAIN models
  BY <1>1, Zenon DEF RefsBalanced, Registered
<1>12. RefsBalanced'
  BY <1>1, <1>2, <1>7 DEF RefsBalanced, Count, Registered, Model
<1>13. Known' /\ Captured'
  <2>1. \A x \in DOMAIN models : models[x].infer \in Nat /\ models[x].post \in Nat
    BY <1>6, RegistryAssumption DEF Entries, Sessions
  <2>2. Known'
    BY <1>1, <1>4, <1>5, <1>6, <1>7, <2>1 DEF Known, Sessions
  <2> QED
    BY <1>1, <1>2, <1>7, <1>11, <2>2 DEF Captured, Model
<1>14. SoleOwner' /\ PostKept'
  <2>1. ASSUME Sole
        PROVE  plan.who = {o} /\ DOMAIN models \subseteq {id} /\ models[id].post = 0
    <3>1. plan.who = {o}
      BY <1>1, <2>1, Owning, Zenon
    <3> QED
      BY <1>1, <1>3, <1>5, <2>1, <3>1, Zenon DEF SoleOwner, Registered
  <2>2. reg'[o] = "in" /\ Sole' = Sole
    BY <1>1, <1>5, Zenon DEF RegistryTypeOK, Sole
  <2>3. SoleOwner'
    BY <1>3, <1>7, <2>1, <2>2, Zenon DEF SoleOwner
  <2>4. ASSUME Sole, NEW r \in Requests, guard[r] \/ (held[r] /\ Kind(r) # "infer")
        PROVE  post[r] = 0
    BY <1>1, <1>11, <2>1, <2>4, Zenon DEF PostKept
  <2>5. PostKept'
    BY <1>2, <2>2, <2>4, Zenon DEF PostKept, Kind
  <2> QED
    BY <2>3, <2>5, Zenon
<1> QED
  BY <1>2, <1>9, <1>10, <1>12, <1>13, <1>14, Zenon DEF IInv, RegInv

\* force_unregister_all with no reference out.
LEMMA EvictAllKeeps ==
  ASSUME SetFacts, IInv, ~Ended, UNCHANGED <<plan, jobvars>>, EvictAll
  PROVE  IInv'
<1>1. TypeOK /\ JobInv /\ RegistryTypeOK /\ RefsBalanced
  BY Zenon DEF IInv, TypeOK
<1>2. JobInv' /\ ~Ended' /\ UNCHANGED <<guard, held, infer, post>>
  BY <1>1, JobSame, Zenon DEF jobvars
<1>3. /\ DOMAIN models' = {} /\ DOMAIN owners' = {} /\ models' = << >> /\ owners' = << >>
      /\ inferRefs' = [s \in Sessions |-> 0] /\ postRefs' = [s \in Sessions |-> 0]
      /\ made' = made /\ reg' = reg /\ \A id \in DOMAIN models : models[id].ref = 0
  BY DEF EvictAll
<1>4. \A x \in Requests : ~guard[x] /\ ~held[x]
  <2>1. SUFFICES ASSUME NEW x \in Requests, guard[x] \/ held[x]
                 PROVE  FALSE
    BY Zenon
  <2>2. PICK id \in DOMAIN models : id = plan.id[x]
    BY <1>1, <2>1, BalancedIs, Zenon
  <2>3. PICK A, B : /\ A = {y \in Requests : guard[y] /\ plan.id[y] = id}
                    /\ B = {y \in Requests : held[y] /\ plan.id[y] = id}
    BY Zenon
  <2>4. models[id].ref = Cardinality(A) + Cardinality(B)
    BY <1>1, <2>3, BalancedIs, Zenon
  <2>5. IsFiniteSet(A) /\ IsFiniteSet(B) /\ Cardinality(A) \in Nat /\ Cardinality(B) \in Nat
    BY <2>3, Counting, Zenon
  <2>6. Cardinality(A) = 0 /\ Cardinality(B) = 0
    BY <1>3, <2>4, <2>5
  <2>7. A = {} /\ B = {}
    BY <2>5, <2>6, FinEmpty, Zenon
  <2> QED
    BY <2>1, <2>2, <2>3, <2>7, Zenon
<1>5. RefsBalanced'
  BY <1>2, <1>3, <1>4, Zenon DEF RefsBalanced
<1>6. SessionsShared'
  <2>1. ASSUME NEW s PROVE {id \in DOMAIN models' : models'[id].infer = s} = {}
                        /\ {id \in DOMAIN models' : models'[id].post = s} = {}
    BY <1>3, Zenon
  <2>2. \A s \in Sessions : inferRefs'[s] = 0 /\ postRefs'[s] = 0
    BY <1>3, Zenon
  <2> QED
    BY <2>1, <2>2, FinEmpty, Zenon DEF SessionsShared, Count
<1>7. TypeOK'
  <2>1. RegistryTypeOK'
    BY <1>1, <1>3 DEF RegistryTypeOK
  <2> QED
    BY <1>1, <2>1, TypesSame, Zenon
<1>8. Known' /\ Captured' /\ SoleOwner' /\ PostKept'
  BY <1>2, <1>3, <1>4, Zenon DEF Known, Captured, SoleOwner, PostKept, Registered
<1> QED
  BY <1>2, <1>5, <1>6, <1>7, <1>8, Zenon DEF IInv, RegInv

\* The registry's handlers, while the server serves.
LEMMA AdministerKeeps ==
  ASSUME SetFacts, IInv, Administer
  PROVE  IInv'
<1>1. ~Ended /\ UNCHANGED <<plan, jobvars>> /\ RegistryTypeOK /\ TypeOK
  BY Zenon DEF Administer, Ended, IInv, TypeOK
<1>2. ASSUME NEW o \in plan.who, InitPost(o) PROVE IInv'
  <2>1. CASE Registered(Offer[o].id)
    BY <1>1, <1>2, <2>1, InitPostKeeps, Zenon
  <2>2. CASE ~Registered(Offer[o].id)
    <3>1. o \in Owners
      BY <1>1, Owning, Zenon
    <3>2. /\ made' \in 0..MaxSessions /\ made <= made' /\ owners' \in [DOMAIN models -> SUBSET Owners]
          /\ reg' \in [Owners -> {"out", "init", "in"}] /\ \A p \in Owners : reg'[p] = "init" => reg[p] = "init"
          /\ UNCHANGED <<models, inferRefs, postRefs>>
      BY <1>1, <1>2, <2>2, <3>1, RegistryAssumption DEF RegistryTypeOK, InitPost, Sessions
    <3> QED
      BY <1>1, <3>2, OwnersOnly, Zenon
  <2> QED
    BY <2>1, <2>2, Zenon
<1>3. ASSUME NEW o \in plan.who, InitPostFails(o) \/ Unregister(o) PROVE IInv'
  <2>1. PICK t \in {"out", "in"} : reg' = [reg EXCEPT ![o] = t]
    BY <1>3, Zenon DEF InitPostFails, Unregister
  <2>2. ScopedUnregister(Offer[o].id, o) /\ made' = made
    BY <1>3, Zenon DEF InitPostFails, Unregister
  <2>3. reg' \in [Owners -> {"out", "init", "in"}] /\ \A p \in Owners : reg'[p] = "init" => reg[p] = "init"
    BY <1>1, <2>1, Zenon DEF RegistryTypeOK
  <2> QED
    BY <1>1, <2>2, <2>3, ScopedKeeps, Zenon
<1>4. ASSUME NEW id \in Ids, Evict(id) PROVE IInv'
  <2>1. Registered(id) /\ models[id].ref = 0 /\ Remove(id) /\ made' = made /\ reg' = reg
    BY <1>4, Zenon DEF Evict
  <2>2. reg' \in [Owners -> {"out", "init", "in"}] /\ \A p \in Owners : reg'[p] = "init" => reg[p] = "init"
    BY <1>1, <2>1, Zenon DEF RegistryTypeOK
  <2> QED
    BY <1>1, <2>1, <2>2, EntryRemoved, Zenon
<1>5. \/ \E o \in plan.who :
            CoOwn(o) \/ Alias(o) \/ Load(o) \/ InitPost(o) \/ InitPostFails(o) \/ Unregister(o)
      \/ \E id \in Ids : Evict(id)
      \/ EvictAll
  BY Zenon DEF Administer
<1> QED
  BY <1>1, <1>2, <1>3, <1>4, <1>5, CoOwnKeeps, AliasKeeps, LoadKeeps, EvictAllKeeps, ZenonT(30)

-----------------------------------------------------------------------------
(* The invariant.                                                          *)

\* The invariant holds initially ...
LEMMA InitIInv ==
  ASSUME SetFacts, Init
  PROVE  IInv
<1>1. /\ models = << >> /\ owners = << >> /\ made = 0 /\ DOMAIN models = {} /\ DOMAIN owners = {}
      /\ inferRefs = [s \in Sessions |-> 0] /\ postRefs = [s \in Sessions |-> 0]
      /\ reg = [o \in Owners |-> "out"]
  BY DEF Init, RegistryInit
<1>2. RegistryTypeOK
  BY <1>1, RegistryAssumption DEF RegistryTypeOK
<1>3. TypeOK
  BY <1>2, RuntimeAssumption DEF Init, TypeOK
<1>4. \A r \in Requests : /\ call[r] = "idle" /\ ~guard[r] /\ ~held[r] /\ infer[r] = 0 /\ sub[r] = "none"
                          /\ hal[r] = "none" /\ phase[r] = "Submitting" /\ job[r] = "none"
                          /\ refs[r] = 0 /\ fired[r] = 0
  BY Zenon DEF Init
<1>5. stage = "serving" /\ queue = << >> /\ inFlight = 0
  BY Zenon DEF Init
<1>6. Lives
  BY <1>4 DEF Lives, Life, Worked, Itemised, Grouped, Called, Batched
<1>7. Counted
  <2>1. PICK S : S = {r \in Requests : Counts(r)}
    BY Zenon
  <2>2. S = {}
    BY <1>4, <2>1 DEF Counts
  <2> QED
    BY <1>5, <2>1, <2>2, FinEmpty, Zenon DEF Counted
<1>8. Lines /\ Stages
  BY <1>4, <1>5 DEF Lines, Stages
<1>9. RefsBalanced /\ RegInv
  BY <1>1, <1>4, Zenon DEF RefsBalanced, RegInv, Known, Captured, SoleOwner, PostKept, Registered
<1>10. SessionsShared
  <2>1. ASSUME NEW s PROVE {id \in DOMAIN models : models[id].infer = s} = {}
                        /\ {id \in DOMAIN models : models[id].post = s} = {}
    BY <1>1, Zenon
  <2>2. \A s \in Sessions : inferRefs[s] = 0 /\ postRefs[s] = 0
    BY <1>1, Zenon
  <2> QED
    BY <2>1, <2>2, FinEmpty, Zenon DEF SessionsShared, Count
<1> QED
  BY <1>3, <1>6, <1>7, <1>8, <1>9, <1>10, Zenon DEF IInv, JobInv

\* A step of a request.
LEMMA RequestKeeps ==
  ASSUME SetFacts, IInv, ~Ended, NEW r \in Requests,
         Acquire(r) \/ Rpc(r) \/ Submission(r) \/ HalCallback(r) \/ Completion(r)
  PROVE  IInv'
<1>1. ASSUME Rejected(r) \/ Answered(r) \/ TimedOut(r) PROVE IInv'
  <2>1. Life(r) /\ Leave(r) /\ UNCHANGED <<queue, sub>>
    BY <1>1, Zenon DEF Rejected, Answered, TimedOut, IInv, JobInv, Lives
  <2>2. Kind(r) = "infer" \/ sub[r] = "over"
    BY <1>1, <2>1, Zenon DEF Rejected, Answered, TimedOut, Waiting, Life, Batched
  <2> QED
    BY <2>1, <2>2, LeaveKeeps, Zenon
<1>2. ASSUME Refused(r) PROVE IInv'
  BY <1>2, WorkerRefused, BatchRefused, Zenon
<1>3. ASSUME Rpc(r) PROVE IInv'
  BY <1>1, <1>3, SubmitKeeps, SubmitBatchKeeps, ItemFailedKeeps, ZenonT(30) DEF Rpc
<1>4. ASSUME Submission(r) PROVE IInv'
  BY <1>2, <1>4, WorkerAcquireKeeps, AcceptedKeeps, CompleteHereKeeps, RunSyncKeeps,
     SubmitterReleaseKeeps, ZenonT(30) DEF Submission
<1>5. ASSUME Completion(r) PROVE IInv'
  BY <1>5, OffloadKeeps, FinishKeeps, CallbackReleaseKeeps, TidyKeeps, ZenonT(30) DEF Completion
<1> QED
  BY <1>3, <1>4, <1>5, AcquireKeeps, HalCallbackKeeps, ZenonT(30)

\* ... is kept by every step ...
LEMMA Inductive ==
  ASSUME SetFacts, IInv, [Next]_vars
  PROVE  IInv'
<1>1. ASSUME UNCHANGED vars PROVE IInv'
  <2>1. UNCHANGED <<registry, plan, jobvars>> /\ UNCHANGED <<models, owners, made, inferRefs, postRefs, reg>>
        /\ UNCHANGED <<guard, held, infer, post>>
    BY <1>1, Zenon DEF vars, registry, jobvars
  <2>2. JobInv' /\ (Ended' <=> Ended)
    BY <1>1, <2>1, JobSame, Zenon DEF IInv
  <2>3. TypeOK'
    BY <1>1, <2>1, TypesSame, ZenonT(30) DEF IInv, TypeOK, RegistryTypeOK
  <2> QED
    BY <1>1, <2>1, <2>2, <2>3, RegistrySame, ZenonT(30) DEF IInv
<1>2. ASSUME Next PROVE IInv'
  <2>1. ASSUME ~Ended, NEW w \in Workers, Take(w) \/ Free(w) PROVE IInv'
    BY <1>2, <2>1, TakeKeeps, FreeKeeps, Zenon
  <2>2. ASSUME ShutdownStep PROVE IInv'
    BY <1>2, <2>2, StopKeeps, DrainKeeps, PoolStoppedKeeps, ZenonT(30) DEF ShutdownStep
  <2>3. ASSUME Shutdown PROVE IInv'
    BY <1>2, <2>3, StopKeeps, Zenon
  <2>4. \/ Administer \/ Shutdown
        \/ /\ ~Ended
           /\ \/ \E r \in Requests :
                    Acquire(r) \/ Rpc(r) \/ Submission(r) \/ HalCallback(r) \/ Completion(r)
              \/ \E w \in Workers : Take(w) \/ Free(w)
              \/ ShutdownStep
        \/ UNCHANGED vars
    BY <1>2, Zenon DEF Next
  <2> QED
    BY <1>1, <1>2, <2>1, <2>2, <2>3, <2>4, AdministerKeeps, RequestKeeps, ZenonT(30)
<1> QED
  BY <1>1, <1>2, Zenon

-----------------------------------------------------------------------------
(* What follows from it.                                                   *)

\* The sessions an entry names are in use.
LEMMA NamedInUse ==
  ASSUME SetFacts, IInv, ~Ended, NEW id \in DOMAIN models
  PROVE  /\ inferRefs[models[id].infer] > 0
         /\ models[id].post # 0 => postRefs[models[id].post] > 0
<1>1. RegistryTypeOK /\ SessionsShared
  BY Zenon DEF IInv, TypeOK
<1>2. IsFiniteSet(DOMAIN models) /\ models[id] \in Entries
  BY <1>1, RegistryAssumption, FinSubset, Zenon DEF RegistryTypeOK
<1>3. PICK s, t : s = models[id].infer /\ t = models[id].post
  BY Zenon
<1>4. s \in Sessions /\ (t # 0 => t \in Sessions)
  BY <1>2, <1>3, Zenon DEF Entries
<1>5. PICK A, B : A = {x \in DOMAIN models : models[x].infer = s} /\ B = {x \in DOMAIN models : models[x].post = t}
  BY Zenon
<1>6. inferRefs[s] = Cardinality(A) /\ (t # 0 => postRefs[t] = Cardinality(B))
  BY <1>1, <1>4, <1>5, Zenon DEF SessionsShared, Count
<1>7. IsFiniteSet(A) /\ IsFiniteSet(B) /\ A # {} /\ B # {}
  BY <1>2, <1>3, <1>5, FinSubset, Zenon
<1>8. Cardinality(A) \in Nat /\ Cardinality(A) # 0 /\ Cardinality(B) \in Nat /\ Cardinality(B) # 0
  BY <1>7, FinCard, FinEmpty, Zenon
<1> QED
  BY <1>3, <1>6, <1>8

\* A request whose completion is to come has its reference, unless it failed
\* to find its model.
LEMMA FlyingHeld ==
  ASSUME TypeOK, NEW r \in Requests, Life(r)
  PROVE  /\ Flying(r) => held[r] \/ (Kind(r) = "infer" /\ infer[r] = 0)
         /\ Kind(r) # "infer" /\ job[r] \in {"complete", "pooled", "inline"} => held[r]
<1>1. CASE Kind(r) = "infer"
  BY <1>1, Zenon DEF Life, Worked, Flying
<1>2. CASE Kind(r) = "item"
  BY <1>2, Zenon DEF Life, Itemised, Ahead, Behind, Flying
<1>3. CASE Kind(r) = "group"
  BY <1>3, Zenon DEF Life, Grouped, Ahead, Behind, Flying, Gated
<1> QED
  BY <1>1, <1>2, <1>3, Kinds, Zenon

\* A counted request that is not counted any more has nothing left to do.
LEMMA UncountedQuiet ==
  ASSUME TypeOK, NEW r \in Requests, Life(r), Tracked(r), ~Counts(r), sub[r] \in {"none", "over"},
         job[r] \notin {"pooled", "pooltail"}
  PROVE  /\ hal[r] # "due" /\ job[r] \in {"none", "tail", "over"} /\ ~Flying(r)
         /\ sub[r] # "none" => fired[r] = 1
<1>1. refs[r] \in 0..2
  BY ZenonT(30) DEF TypeOK
<1>2. CASE Kind(r) = "infer"
  <2>1. refs[r] = 0
    BY <1>1, <1>2 DEF Counts
  <2> QED
    BY <1>2, <2>1 DEF Life, Worked, Flying
<1>3. CASE Kind(r) = "item"
  BY <1>3, Zenon DEF Life, Itemised, Batched, Ahead, Behind, Flying, Counts
<1> QED
  BY <1>2, <1>3, Kinds, Zenon DEF Tracked

\* ... and implies what the runs check.
LEMMA InvariantSays ==
  ASSUME SetFacts, IInv
  PROVE  /\ TypeOK /\ RefsBalanced /\ SessionsShared /\ JobSessionLive /\ PostSessionHeld
         /\ CompletesOnce /\ DrainedQuiet
<1> SUFFICES JobSessionLive /\ PostSessionHeld /\ CompletesOnce /\ DrainedQuiet
  BY Zenon DEF IInv
<1>1. TypeOK /\ Lives /\ Counted /\ Stages /\ RefsBalanced /\ RegInv
  BY Zenon DEF IInv, JobInv
<1>2. ASSUME NEW r \in Requests, stage = "destroyed", Tracked(r)
      PROVE  /\ hal[r] # "due" /\ job[r] \in {"none", "tail", "over"} /\ ~Flying(r)
             /\ sub[r] # "none" => fired[r] = 1
             /\ sub[r] \in {"none", "over"}
  <2>1. Life(r) /\ ~Counts(r) /\ sub[r] \in {"none", "over"} /\ job[r] \notin {"pooled", "pooltail"}
    BY <1>1, <1>2, Zenon DEF Lives, Stages
  <2> QED
    BY <1>1, <1>2, <2>1, UncountedQuiet, Zenon
<1>3. ASSUME ~Ended, NEW r \in Requests, held[r] \/ guard[r]
      PROVE  Model(r) \in DOMAIN models
  BY <1>1, <1>3, Zenon DEF RefsBalanced, Registered
<1>4. JobSessionLive
  <2> SUFFICES ASSUME NEW r \in Requests, Flying(r), infer[r] # 0, Tracked(r) \/ stage # "destroyed",
                      stage # "exited"
               PROVE  inferRefs[infer[r]] > 0
    BY Zenon DEF JobSessionLive
  <2>1. ~Ended
    BY <1>2, Zenon DEF Ended
  <2>2. held[r]
    BY <1>1, FlyingHeld, Zenon DEF Lives
  <2>3. Model(r) \in DOMAIN models /\ models[Model(r)].infer = infer[r]
    BY <1>1, <1>3, <2>1, <2>2, Zenon DEF RegInv, Captured
  <2> QED
    BY <2>1, <2>3, NamedInUse, Zenon
<1>5. PostSessionHeld
  <2> SUFFICES ASSUME NEW r \in Requests, UsesPost(r), Sole, Kind(r) = "infer" => guard[r]
               PROVE  postRefs[post[r]] > 0
    BY Zenon DEF PostSessionHeld, Sole
  <2>1. ~Ended /\ post[r] # 0 /\ job[r] \in {"complete", "pooled", "inline"}
    BY Zenon DEF UsesPost
  <2>2. guard[r] \/ (held[r] /\ Kind(r) # "infer")
    BY <1>1, <2>1, FlyingHeld, Zenon DEF Lives
  <2>3. Model(r) \in DOMAIN models /\ models[Model(r)].post = post[r]
    BY <1>1, <1>3, <2>1, <2>2, Zenon DEF RegInv, PostKept
  <2> QED
    BY <2>1, <2>3, NamedInUse, Zenon
<1>6. CompletesOnce
  <2>1. ASSUME NEW r \in Requests PROVE fired[r] <= 1
    <3>1. Life(r)
      BY <1>1, Zenon DEF Lives
    <3>2. fired[r] \in {0, 1}
      BY <1>1, <3>1, Kinds, Zenon DEF Life, Worked, Itemised, Grouped, Ahead, Behind
    <3> QED
      BY <3>2
  <2> QED
    BY <1>2, <2>1, Zenon DEF CompletesOnce
<1>7. DrainedQuiet
  <2>1. ASSUME stage = "destroyed" PROVE inFlight = 0
    <3>1. PICK S : S = {r \in Requests : Counts(r)}
      BY Zenon
    <3>2. S = {}
      BY <1>1, <2>1, <3>1, Zenon DEF Stages
    <3> QED
      BY <1>1, <3>1, <3>2, FinEmpty, Zenon DEF Counted
  <2> QED
    BY <1>2, <2>1, Zenon DEF DrainedQuiet
<1> QED
  BY <1>4, <1>5, <1>6, <1>7, ZenonT(30)

\* The facts about finite sets are theorems of the library.
LEMMA FiniteSetFacts == SetFacts
<1>1. ASSUME NEW S, IsFiniteSet(S)
      PROVE  /\ Cardinality(S) \in Nat
             /\ \A T \in SUBSET S : IsFiniteSet(T)
             /\ Cardinality(S) = 0 <=> S = {}
             /\ Cardinality(S) = 1 => \E x : S = {x}
  BY <1>1, FS_CardinalityType, FS_Subset, FS_EmptySet, FS_Singleton, Zenon
<1>2. ASSUME NEW S, NEW x, IsFiniteSet(S), x \notin S
      PROVE  IsFiniteSet(S \cup {x}) /\ Cardinality(S \cup {x}) = Cardinality(S) + 1
  BY <1>2, FS_AddElement, Zenon
<1>3. IsFiniteSet({})
  BY FS_EmptySet, Zenon
<1> QED
  BY <1>1, <1>2, <1>3, Zenon DEF SetFacts

\* IInv always holds, and with it what InferRuntimeRegistry draws from it.
LEMMA Invariant ==
  Spec => []( /\ TypeOK /\ RefsBalanced /\ SessionsShared /\ JobSessionLive /\ PostSessionHeld
              /\ CompletesOnce /\ DrainedQuiet )
<1>1. Init => IInv
  BY FiniteSetFacts, InitIInv, Zenon
<1>2. IInv /\ [Next]_vars => IInv'
  BY FiniteSetFacts, Inductive, Zenon
<1>3. IInv => /\ TypeOK /\ RefsBalanced /\ SessionsShared /\ JobSessionLive /\ PostSessionHeld
              /\ CompletesOnce /\ DrainedQuiet
  BY FiniteSetFacts, InvariantSays, Zenon
<1> QED
  BY <1>1, <1>2, <1>3, PTL DEF Spec

-----------------------------------------------------------------------------
(* The theorems.                                                           *)

\* Every variable keeps its type, async_in_flight_ stays a natural number and
\* the scheduler's queue within its capacity.
THEOREM TypeCorrect == Spec => []TypeOK
BY Invariant, PTL

\* ref_count of an entry is the number of guards and jobs that hold it, and
\* what they hold is registered.
THEOREM RefsAreBalanced == Spec => []RefsBalanced
BY Invariant, PTL

\* infer_refs_ and post_refs_ count the entries that name a session, through
\* loading, aliasing, replacing and unloading.
THEOREM SessionsAreShared == Spec => []SessionsShared
BY Invariant, PTL

\* A job the runtime accounts for never outlives its inference session.
THEOREM SessionOutlivesJob == Spec => []JobSessionLive
BY Invariant, PTL

\* With one owner, the postprocess session a request captured is alive when
\* its completion uses it under a reference.
THEOREM PostOutlivesUse == Spec => []PostSessionHeld
BY Invariant, PTL

\* The completion of a request runs at most once, and once by the end of an
\* orderly shutdown.
THEOREM CompletedOnce == Spec => []CompletesOnce
BY Invariant, PTL

\* The destructors find async_in_flight_ at zero and nothing it counted left.
THEOREM QuietWhenDestroyed == Spec => []DrainedQuiet
BY Invariant, PTL
=============================================================================
