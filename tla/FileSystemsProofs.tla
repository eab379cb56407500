-------------------------- MODULE FileSystemsProofs -------------------------
(***************************************************************************)
(* Proofs about FileSystems for every set of threads, file systems,        *)
(* controls, identities and budgets.                                       *)
(***************************************************************************)
EXTENDS FileSystems, TLAPS

USE ConstantsAssumption

Inv == TypeOK /\ BuildInv /\ GeneratedIdsUnique /\ LimitsOfItsOwn

(***************************************************************************)
(* Policies and identities.                                                *)
(***************************************************************************)

\* LocalResourcePolicy::unbounded is a policy, and so is that of no job.
LEMMA UnboundedSound == Unbounded \in Policies /\ Sound(Unbounded)
  BY DEF Unbounded, Policies, Sound, Reopening

LEMMA IdleJob == Idle \in Jobs /\ Idle.stage = "idle"
  BY UnboundedSound DEF Idle, Jobs

\* LocalResourcePolicy::bounded gives every family limits that it accepts.
LEMMA BoundedSound ==
    ASSUME NEW list \in Limits, NEW copy \in Limits, NEW delete \in Limits,
           ValidLimits("list", list), ValidLimits("copy", copy), ValidLimits("delete", delete)
    PROVE  BoundedBy(list, copy, delete) \in Policies /\ Sound(BoundedBy(list, copy, delete))
  <1> DEFINE p == BoundedBy(list, copy, delete)
  <1>1. /\ p \in Policies /\ p.limits["list"] = list /\ p.limits["copy"] = copy
        /\ p.limits["delete"] = delete /\ p.limits["open"] = None /\ p.limits["temp"] = None
    BY UnboundedSound DEF BoundedBy, Unbounded, Policies, Families, Recursive
  <1> HIDE DEF p
  <1>2. ASSUME NEW d \in Families, p.limits[d] # None PROVE ValidLimits(d, p.limits[d])
    BY <1>1, <1>2 DEF Families, Recursive
  <1> QED BY <1>1, <1>2 DEF Sound, p

\* The defaults of a policy, family by family.
LEMMA DefaultsOf ==
    ASSUME NEW p \in Policies
    PROVE  /\ NativeDefaults(p) \in Defaults /\ NativeDefaults(p).reopen = p.reopen
           /\ \A d \in Families : NativeDefaults(p).limits[d] = OrNoLimit(p.limits[d])
  BY DEF NativeDefaults, Defaults, Policies, OrNoLimit

LEMMA ApartBoth ==
    ASSUME NEW a, NEW b, Apart(a, b)
    PROVE  Apart(b, a)
  BY DEF Apart

\* An identity drawn now is nobody's yet.
LEMMA FreshApart ==
    ASSUME TypeOK, NEW id, NEW other, Drawn(other), id.kind = "generated" => id.value = counter
    PROVE  Apart(id, other)
  BY DEF TypeOK, Drawn, Apart

(***************************************************************************)
(* Steps that leave the built file systems alone.                          *)
(***************************************************************************)

\* A file system that is there is not changed by a step that writes only
\* where there was none, and what was served stays as it should be.
LEMMA ServedFrame ==
    ASSUME ServedOK, LimitsOfItsOwn, UNCHANGED served,
           \A f \in Systems : system[f] # None => system'[f] = system[f]
    PROVE  ServedOK' /\ LimitsOfItsOwn'
  BY DEF ServedOK, LimitsOfItsOwn

\* The standard of policies and systems does not read the other variables.
LEMMA SystemFrame ==
    ASSUME NEW f \in Systems, SystemOK(f), system'[f] = system[f], counter \in Nat,
           counter' \in Nat, counter <= counter'
    PROVE  SystemOK(f)'
  BY DEF SystemOK, Drawn, Sound

\* The policies that threads hold change freely.
LEMMA DeriveInv ==
    ASSUME Inv, NEW t \in Threads, NEW p \in Policies, Sound(p), Derive(t, p)
    PROVE  Inv'
  <1>1. TypeOK'
    BY DEF Inv, TypeOK, Derive
  <1>2. \A u \in Threads : Sound(policy'[u])
    BY DEF Inv, TypeOK, BuildInv, Derive
  <1>3. UNCHANGED <<counter, builds, job, system, control, served>>
    BY DEF Derive
  <1>4. \A u \in Threads : JobOK(u)'
    BY <1>3 DEF Inv, BuildInv, JobOK, Active, Drawn, Apart, Sound
  <1>5. \A f \in Systems : SystemOK(f)'
    BY <1>3, SystemFrame DEF Inv, BuildInv, TypeOK
  <1>6. ServedOK' /\ LimitsOfItsOwn'
    BY <1>3, ServedFrame DEF Inv, BuildInv
  <1>7. GeneratedIdsUnique'
    BY <1>3 DEF Inv, GeneratedIdsUnique
  <1>8. \A u \in Threads : Sound(policy[u])'
    BY <1>2 DEF Sound
  <1> QED BY <1>1, <1>4, <1>5, <1>6, <1>7, <1>8 DEF Inv, BuildInv

\* The constructors of policies preserve the invariant.
LEMMA ConfigureInv ==
    ASSUME Inv, NEW t \in Threads, Configure(t)
    PROVE  Inv'
  <1>1. policy[t] \in Policies /\ Sound(policy[t])
    BY DEF Inv, TypeOK, BuildInv
  <1>2. ASSUME NEW list \in Limits, NEW copy \in Limits, NEW delete \in Limits,
               Bounded(t, list, copy, delete)
        PROVE  Inv'
    BY <1>2, BoundedSound, DeriveInv DEF Bounded
  <1>3. ASSUME NEW d \in Families, NEW limit \in Limits \cup {None}, With(t, d, limit) PROVE Inv'
    <2> DEFINE p == [policy[t] EXCEPT !.limits[d] = limit]
    <2>1. /\ p \in Policies /\ p.limits[d] = limit
          /\ \A e \in Families \ {d} : p.limits[e] = policy[t].limits[e]
      BY <1>1 DEF Policies
    <2>2. Derive(t, p) /\ (limit # None => ValidLimits(d, limit))
      BY <1>3 DEF With
    <2> HIDE DEF p
    <2>3. Sound(p)
      BY <1>1, <2>1, <2>2 DEF Sound
    <2> QED BY <2>1, <2>2, <2>3, DeriveInv
  <1>4. ASSUME NEW reopen \in Reopening, WithReopen(t, reopen) PROVE Inv'
    <2> DEFINE p == [policy[t] EXCEPT !.reopen = reopen]
    <2>1. p \in Policies /\ p.limits = policy[t].limits
      BY <1>1 DEF Policies
    <2>2. Derive(t, p)
      BY <1>4 DEF WithReopen
    <2> HIDE DEF p
    <2>3. Sound(p)
      BY <1>1, <2>1 DEF Sound
    <2> QED BY <2>1, <2>2, <2>3, DeriveInv
  <1> QED BY <1>2, <1>3, <1>4 DEF Configure

(***************************************************************************)
(* Constructions.                                                          *)
(***************************************************************************)

\* A constructor starts: its identity is not one that was drawn before.
LEMMA StartInv ==
    ASSUME Inv, NEW t \in Threads, NEW f \in Systems, NEW scope \in {"Host", "Rooted"},
           NEW id \in Identities, NEW c \in Controls \cup {None}, Start(t, f, scope, id, c),
           counter' \in Nat, counter <= counter',
           id.kind = "generated" => id.value = counter /\ counter < counter'
    PROVE  Inv'
  <1> DEFINE new == [stage |-> "opening", fs |-> f, scope |-> scope, id |-> id,
                     policy |-> policy[t], control |-> c]
  <1>1. /\ job[t].stage = "idle" /\ system[f] = None /\ \A u \in Threads : job[u].fs # f
        /\ job' = [job EXCEPT ![t] = new]
        /\ UNCHANGED <<policy, system, served>>
    BY DEF Start
  <1>2. TypeOK /\ policy[t] \in Policies /\ Sound(policy[t])
    BY DEF Inv, TypeOK, BuildInv
  <1>3. /\ new \in Jobs /\ new.stage = "opening" /\ new.fs = f /\ new.id = id
        /\ new.policy = policy[t]
    BY <1>2 DEF Jobs
  <1> HIDE DEF new
  <1>4. TypeOK'
    BY <1>1, <1>2, <1>3 DEF TypeOK, Start
  <1>5. job'[t] = new /\ \A u \in Threads \ {t} : job'[u] = job[u]
    BY <1>1, <1>2 DEF TypeOK
  <1>6. \A u \in Threads \ {t} : Active(u) => Apart(id, job[u].id) /\ Apart(job[u].id, id)
    <2>1. ASSUME NEW u \in Threads \ {t}, Active(u) PROVE Apart(id, job[u].id)
      BY <1>2, <2>1, FreshApart DEF Inv, BuildInv, JobOK
    <2> QED BY <2>1, ApartBoth
  <1>7. \A g \in Systems : system[g] # None => Apart(id, system[g].id)
    BY <1>2, FreshApart DEF Inv, BuildInv, SystemOK
  <1>8. Drawn(id)'
    <2>1. id.kind = "generated" => id.value \in Nat /\ id.value < counter'
      BY <1>2 DEF TypeOK
    <2> QED BY <2>1 DEF Drawn
  <1>9. JobOK(t)'
    <2>1. system'[f] = None /\ Sound(policy[t]) /\ job'[t].fs = f /\ job'[t].id = id
      BY <1>1, <1>2, <1>3, <1>5
    <2>2. \A u \in Threads \ {t} : Active(u)' => job'[u].fs # f /\ Apart(id, job'[u].id)
      BY <1>1, <1>5, <1>6 DEF Active
    <2>3. Drawn(job[t].id)' /\ Sound(job[t].policy)'
      BY <1>2, <1>3, <1>5, <1>8 DEF Drawn, Sound
    <2> QED BY <1>1, <1>7, <2>1, <2>2, <2>3 DEF JobOK, Apart
  <1>10. ASSUME NEW u \in Threads \ {t} PROVE JobOK(u)'
    <2> SUFFICES ASSUME Active(u)' PROVE JobOK(u)'
      BY DEF JobOK
    <2>1. job'[u] = job[u] /\ Active(u) /\ JobOK(u)
      BY <1>5, <1>10 DEF Active, Inv, BuildInv
    <2>2. Drawn(job[u].id)'
      BY <1>2, <2>1 DEF JobOK, Drawn, TypeOK
    <2>3. Sound(job[u].policy)'
      BY <2>1 DEF JobOK, Sound
    <2>4. ASSUME NEW w \in Threads \ {u}, Active(w)'
          PROVE  job'[w].fs # job'[u].fs /\ Apart(job'[u].id, job'[w].id)
      <3>1. CASE w = t
        BY <1>1, <1>3, <1>5, <1>6, <2>1, <3>1
      <3>2. CASE w # t
        <4>1. job'[w] = job[w] /\ Active(w)
          BY <1>5, <2>4, <3>2 DEF Active
        <4> QED BY <2>1, <2>4, <4>1 DEF JobOK
      <3> QED BY <3>1, <3>2
    <2> QED BY <1>1, <2>1, <2>2, <2>3, <2>4 DEF JobOK, Apart
  <1>11. \A g \in Systems : SystemOK(g)'
    BY <1>1, <1>2, SystemFrame DEF Inv, BuildInv, TypeOK
  <1>12. ServedOK' /\ LimitsOfItsOwn' /\ GeneratedIdsUnique'
    BY <1>1, ServedFrame DEF Inv, BuildInv, GeneratedIdsUnique
  <1>13. \A u \in Threads : Sound(policy[u])'
    BY <1>1 DEF Inv, BuildInv, Sound
  <1> QED BY <1>4, <1>9, <1>10, <1>11, <1>12, <1>13 DEF Inv, BuildInv

\* A construction that goes on, or gives up, on one thread.
LEMMA JobStep ==
    ASSUME Inv, NEW t \in Threads, NEW new \in Jobs, job' = [job EXCEPT ![t] = new],
           UNCHANGED <<policy, changes, counter, builds, system, control, served>>,
           \/ new.stage = "idle"
           \/ Active(t) /\ new.fs = job[t].fs /\ new.id = job[t].id /\ new.policy = job[t].policy
    PROVE  Inv'
  <1>1. TypeOK'
    BY DEF Inv, TypeOK
  <1>2. job'[t] = new /\ \A u \in Threads \ {t} : job'[u] = job[u]
    BY DEF Inv, TypeOK
  <1>3. \A u \in Threads : Active(u)' => /\ Active(u) /\ job'[u].fs = job[u].fs
                                         /\ job'[u].id = job[u].id /\ job'[u].policy = job[u].policy
    BY <1>2 DEF Active
  <1>4. \A u \in Threads : JobOK(u)'
    BY <1>3 DEF Inv, BuildInv, JobOK, Drawn, Sound, Apart
  <1>5. \A f \in Systems : SystemOK(f)'
    BY SystemFrame DEF Inv, BuildInv, TypeOK
  <1>6. ServedOK' /\ LimitsOfItsOwn' /\ GeneratedIdsUnique'
    BY ServedFrame DEF Inv, BuildInv, GeneratedIdsUnique
  <1>7. \A u \in Threads : Sound(policy[u])'
    BY DEF Inv, BuildInv, Sound
  <1> QED BY <1>1, <1>4, <1>5, <1>6, <1>7 DEF Inv, BuildInv

\* A construction finishes: its file system gets an identity of its own and
\* the defaults of its policy.
LEMMA FinishInv ==
    ASSUME Inv, NEW t \in Threads, Finish(t)
    PROVE  Inv'
  <1> DEFINE j == job[t]
             new == [scope |-> j.scope, id |-> j.id, given |-> j.policy,
                     defaults |-> NativeDefaults(j.policy), control |-> j.control]
  <1>1. TypeOK /\ BuildInv /\ JobOK(t) /\ Active(t)
    BY DEF Inv, BuildInv, Finish, Active
  <1>2. /\ j \in Jobs /\ j.fs \in Systems /\ system[j.fs] = None /\ j.id \in Identities
        /\ Drawn(j.id) /\ Sound(j.policy)
    BY <1>1 DEF TypeOK, JobOK
  <1>3. /\ j.policy \in Policies /\ j.scope \in {"Host", "Rooted"} /\ j.control \in Controls \cup {None}
    BY <1>2 DEF Jobs
  <1>4. NativeDefaults(j.policy) \in Defaults
    BY <1>3, DefaultsOf
  <1>5. /\ new \in Built /\ new.id = j.id /\ new.given = j.policy
        /\ new.defaults = NativeDefaults(new.given)
    BY <1>2, <1>3, <1>4 DEF Built
  <1>6. /\ system' = [system EXCEPT ![j.fs] = new] /\ job' = [job EXCEPT ![t] = Idle]
        /\ UNCHANGED <<policy, changes, counter, builds, control, served>>
    BY DEF Finish
  <1> HIDE DEF new
  <1>7. TypeOK'
    BY <1>1, <1>5, <1>6, IdleJob DEF TypeOK
  <1>8. /\ system'[j.fs] = new /\ \A g \in Systems \ {j.fs} : system'[g] = system[g]
        /\ job'[t] = Idle /\ \A u \in Threads \ {t} : job'[u] = job[u]
    BY <1>1, <1>2, <1>6 DEF TypeOK
  <1>9. \A u \in Threads : JobOK(u)'
    <2> SUFFICES ASSUME NEW u \in Threads, Active(u)' PROVE JobOK(u)'
      BY DEF JobOK
    <2>1. u # t /\ job'[u] = job[u] /\ Active(u) /\ JobOK(u)
      BY <1>1, <1>8, IdleJob DEF Active, BuildInv
    <2>2. job[u].fs # j.fs /\ Apart(job[u].id, new.id)
      BY <1>1, <1>5, <2>1 DEF JobOK
    <2>3. system'[job'[u].fs] = None
      BY <1>8, <2>1, <2>2 DEF JobOK
    <2>4. \A g \in Systems : system'[g] # None => Apart(job'[u].id, system'[g].id)
      BY <1>8, <2>1, <2>2 DEF JobOK
    <2>5. \A w \in Threads \ {u} : Active(w)' =>
             job'[w].fs # job'[u].fs /\ Apart(job'[u].id, job'[w].id)
      BY <1>8, <2>1, IdleJob DEF Active, JobOK
    <2>6. Drawn(job[u].id)' /\ Sound(job[u].policy)'
      BY <1>6, <2>1 DEF JobOK, Drawn, Sound
    <2> QED BY <2>1, <2>3, <2>4, <2>5, <2>6 DEF JobOK, Apart
  <1>10. \A g \in Systems : SystemOK(g)'
    <2>1. ASSUME NEW g \in Systems, g = j.fs PROVE SystemOK(g)'
      BY <1>2, <1>5, <1>6, <1>8, <2>1 DEF SystemOK, Drawn, Sound
    <2>2. ASSUME NEW g \in Systems, g # j.fs PROVE SystemOK(g)'
      BY <1>1, <1>6, <1>8, <2>2, SystemFrame DEF TypeOK, BuildInv
    <2> QED BY <2>1, <2>2
  <1>11. ServedOK' /\ LimitsOfItsOwn'
    BY <1>1, <1>2, <1>6, <1>8, ServedFrame DEF Inv, BuildInv
  <1>12. GeneratedIdsUnique'
    <2>1. \A g \in Systems : system[g] # None => Apart(new.id, system[g].id)
      BY <1>1, <1>5 DEF JobOK
    <2>2. \A g \in Systems : system[g] # None => Apart(system[g].id, new.id)
      BY <2>1, ApartBoth
    <2>3. ASSUME NEW f \in Systems, NEW g \in Systems, f # g, system'[f] # None,
                 system'[g] # None, system'[f].id.kind = "generated"
          PROVE  system'[g].id # system'[f].id
      <3>1. CASE f = j.fs
        BY <1>8, <2>1, <2>3, <3>1 DEF Apart
      <3>2. CASE g = j.fs
        BY <1>8, <2>2, <2>3, <3>2 DEF Apart
      <3>3. CASE f # j.fs /\ g # j.fs
        BY <1>8, <2>3, <3>3 DEF Inv, GeneratedIdsUnique
      <3> QED BY <3>1, <3>2, <3>3
    <2> QED BY <2>3 DEF GeneratedIdsUnique
  <1>13. \A u \in Threads : Sound(policy[u])'
    BY <1>1, <1>6 DEF BuildInv, Sound
  <1> QED BY <1>7, <1>9, <1>10, <1>11, <1>12, <1>13 DEF Inv, BuildInv

\* The constructors preserve the invariant.
LEMMA ConstructInv ==
    ASSUME Inv, NEW t \in Threads, Construct(t)
    PROVE  Inv'
  <1>1. counter \in Nat /\ job \in [Threads -> Jobs]
    BY DEF Inv, TypeOK
  <1>2. ASSUME NEW f \in Systems, NEW c \in Controls \cup {None}, Host(t, f, c) PROVE Inv'
    <2>1. [kind |-> "host", value |-> 0] \in Identities
      BY DEF Identities
    <2> QED BY <1>1, <1>2, <2>1, StartInv DEF Host
  <1>3. ASSUME NEW f \in Systems, NEW c \in Controls \cup {None}, NEW id \in ChosenIds,
               RootedWithId(t, f, id, c)
        PROVE  Inv'
    <2>1. [kind |-> "chosen", value |-> id] \in Identities
      BY DEF Identities
    <2> QED BY <1>1, <1>3, <2>1, StartInv DEF RootedWithId
  <1>4. ASSUME NEW f \in Systems, Rooted(t, f) PROVE Inv'
    <2>1. [kind |-> "generated", value |-> counter] \in Identities
      BY <1>1 DEF Identities
    <2>2. counter' = counter + 1 /\ counter' \in Nat
      BY <1>1, <1>4 DEF Rooted, CounterAfter
    <2> QED BY <1>1, <1>4, <2>1, <2>2, StartInv DEF Rooted
  <1>5. CASE Open(t)
    <2> DEFINE new == [job[t] EXCEPT !.stage = "opened"]
    <2>1. /\ new \in Jobs /\ new.fs = job[t].fs /\ new.id = job[t].id
          /\ new.policy = job[t].policy
      BY <1>1 DEF Jobs
    <2>2. Active(t) /\ job' = [job EXCEPT ![t] = new]
      BY <1>1, <1>5 DEF Open, Active
    <2> HIDE DEF new
    <2> QED BY <1>5, <2>1, <2>2, JobStep DEF Open
  <1>6. CASE Fail(t)
    BY <1>6, IdleJob, JobStep DEF Fail
  <1> QED BY <1>2, <1>3, <1>4, <1>5, <1>6, FinishInv DEF Construct

(***************************************************************************)
(* Requests.                                                               *)
(***************************************************************************)

\* A step that serves a request, or sets a budget, leaves the rest alone.
LEMMA UseFrame ==
    ASSUME Inv, UNCHANGED <<policy, changes, counter, builds, job, system>>,
           control' \in [Controls -> Work \cup {Unlimited}], ServedOK', LimitsOfItsOwn'
    PROVE  Inv'
  <1>1. TypeOK'
    BY DEF Inv, TypeOK
  <1>2. \A u \in Threads : Sound(policy[u])' /\ JobOK(u)'
    BY DEF Inv, BuildInv, JobOK, Active, Drawn, Sound, Apart
  <1>3. \A f \in Systems : SystemOK(f)'
    BY SystemFrame DEF Inv, BuildInv, TypeOK
  <1>4. GeneratedIdsUnique'
    BY DEF Inv, GeneratedIdsUnique
  <1> QED BY <1>1, <1>2, <1>3, <1>4 DEF Inv, BuildInv

\* Whatever the family, a request tightens the limit its file system has for
\* it; one that cannot name a budget leaves it as it is.
LEMMA EffectiveTightened ==
    ASSUME NEW f \in Systems, NEW d \in Families, NEW asked \in Work \cup {Unlimited},
           NEW given \in Policies, system[f].defaults.limits[d] = OrNoLimit(given.limits[d]),
           d \notin RequestBudgeted => asked = Unlimited
    PROVE  LET limit == Effective(f, d, asked)
               own == OrNoLimit(given.limits[d])
           IN /\ limit = [work |-> limit.work, handles |-> limit.handles]
              /\ limit.handles = own.handles /\ limit.work = Least(asked, own.work)
  <1> DEFINE own == OrNoLimit(given.limits[d])
  <1>1. own \in [work : 0..Unlimited, handles : {0, 1, Unlimited}]
    <2>1. given.limits[d] \in Limits \cup {None}
      BY DEF Policies
    <2>2. NoLimit \in [work : 0..Unlimited, handles : {0, 1, Unlimited}]
      BY DEF NoLimit
    <2>3. Limits \subseteq [work : 0..Unlimited, handles : {0, 1, Unlimited}]
      BY DEF Limits
    <2> QED BY <2>1, <2>2, <2>3 DEF OrNoLimit
  <1>2. system[f].defaults.limits[d] = own
    OBVIOUS
  <1> HIDE DEF own
  <1>3. /\ Tightened(asked, own) = [work |-> Least(asked, own.work), handles |-> own.handles]
        /\ own = [work |-> own.work, handles |-> own.handles]
        /\ asked = Unlimited => Least(asked, own.work) = own.work
    BY <1>1 DEF Tightened, Least
  <1>4. Effective(f, d, asked) = Tightened(asked, own)
    <2>1. CASE d \in RequestBudgeted
      BY <1>2, <2>1 DEF Effective, RequestBudgeted, ListLimit, CopyLimit
    <2>2. CASE d = "delete"
      BY <1>2, <2>2 DEF Effective, RequestBudgeted, DeleteLimit
    <2>3. CASE d \in {"open", "temp"}
      BY <1>2, <1>3, <2>3 DEF Effective, RequestBudgeted
    <2> QED BY <2>1, <2>2, <2>3 DEF Families, Recursive, RequestBudgeted
  <1> QED BY <1>3, <1>4 DEF own

\* A request runs under the limits of its own file system.
LEMMA RequestInv ==
    ASSUME Inv, NEW f \in Systems, NEW d \in Families, NEW asked \in Work \cup {Unlimited},
           Request(f, d, asked)
    PROVE  Inv'
  <1> DEFINE given == system[f].given
             limit == Effective(f, d, asked)
             new == [fs |-> f, family |-> d, asked |-> asked, limit |-> limit,
                     reopen |-> EffectiveReopen(f)]
  <1>1. /\ system[f] # None /\ (d \notin RequestBudgeted => asked = Unlimited)
        /\ served' = new /\ UNCHANGED <<policy, changes, counter, builds, job, system, control>>
    BY DEF Request
  <1>2. /\ TypeOK /\ SystemOK(f) /\ system[f] \in Built
    BY <1>1 DEF Inv, BuildInv, TypeOK
  <1>3. /\ given \in Policies /\ Sound(given) /\ system[f].defaults = NativeDefaults(given)
    BY <1>1, <1>2 DEF SystemOK, Built
  <1>4. /\ EffectiveReopen(f) = given.reopen
        /\ system[f].defaults.limits[d] = OrNoLimit(given.limits[d])
    BY <1>3, DefaultsOf DEF EffectiveReopen
  <1>5. /\ limit.handles = OrNoLimit(given.limits[d]).handles
        /\ limit = [work |-> limit.work, handles |-> limit.handles]
        /\ limit.work = Least(asked, OrNoLimit(given.limits[d]).work)
    BY <1>1, <1>3, <1>4, EffectiveTightened
  <1>6. asked \in 0..Unlimited /\ given.limits[d] \in Limits \cup {None}
    BY <1>3 DEF Policies
  <1>7. /\ new.fs = f /\ new.family = d /\ new.asked = asked /\ new.limit = limit
        /\ new.reopen = given.reopen
    BY <1>4
  <1> HIDE DEF limit, new
  <1>8. given.limits[d] = None => limit = [NoLimit EXCEPT !.work = asked]
    <2> SUFFICES ASSUME given.limits[d] = None PROVE limit = [NoLimit EXCEPT !.work = asked]
      OBVIOUS
    <2>1. limit.handles = Unlimited /\ limit.work = Least(asked, Unlimited)
      BY <1>5 DEF OrNoLimit, NoLimit
    <2>2. Least(asked, Unlimited) = asked
      BY <1>6 DEF Least
    <2> QED BY <1>5, <2>1, <2>2 DEF NoLimit
  <1>9. given.limits[d] # None =>
          /\ limit.handles = given.limits[d].handles /\ given.limits[d].handles # 0
          /\ limit.work = IF given.limits[d].work <= asked THEN given.limits[d].work ELSE asked
    <2> SUFFICES ASSUME given.limits[d] # None
                 PROVE  /\ limit.handles = given.limits[d].handles /\ given.limits[d].handles # 0
                        /\ limit.work = IF given.limits[d].work <= asked
                                        THEN given.limits[d].work ELSE asked
      OBVIOUS
    <2> DEFINE l == given.limits[d]
    <2>1. l \in Limits /\ ValidLimits(d, l)
      BY <1>3, <1>6 DEF Sound
    <2>2. limit.handles = l.handles /\ limit.work = Least(asked, l.work)
      BY <1>5 DEF OrNoLimit
    <2>3. l.work \in Nat /\ asked \in Nat
      <3>1. l.work \in Work
        BY <2>1 DEF Limits
      <3>2. \A w \in Work \cup {Unlimited} : w \in Nat
        OBVIOUS
      <3> QED BY <3>1, <3>2
    <2>4. l.handles # 0
      BY <2>1 DEF ValidLimits
    <2> HIDE DEF l
    <2>5. Least(asked, l.work) = IF l.work <= asked THEN l.work ELSE asked
      BY <2>3 DEF Least
    <2> QED BY <2>2, <2>4, <2>5 DEF l
  <1>10. d # "cleanup"
    BY DEF Families, Recursive
  <1>11. ServedOK' /\ LimitsOfItsOwn'
    BY <1>1, <1>7, <1>8, <1>9, <1>10 DEF ServedOK, LimitsOfItsOwn
  <1> QED BY <1>1, <1>2, <1>11, UseFrame DEF TypeOK

\* Cleanup runs under what its control says.
LEMMA CleanupInv ==
    ASSUME Inv, NEW f \in Systems, Cleanup(f)
    PROVE  Inv'
  <1> DEFINE budget == IF system[f].control = None THEN Unlimited ELSE control[system[f].control]
             new == [fs |-> f, family |-> "cleanup", asked |-> budget,
                     limit |-> [NoLimit EXCEPT !.work = budget], reopen |-> "Reopen"]
  <1>1. /\ system[f] # None /\ served' = new
        /\ UNCHANGED <<policy, changes, counter, builds, job, system, control>>
    BY DEF Cleanup, CleanupBudget
  <1>2. /\ new.fs = f /\ new.family = "cleanup"
        /\ new.limit = [NoLimit EXCEPT !.work = new.asked]
    OBVIOUS
  <1> HIDE DEF new
  <1>3. ServedOK' /\ LimitsOfItsOwn'
    BY <1>1, <1>2 DEF ServedOK, LimitsOfItsOwn
  <1> QED BY <1>1, <1>3, UseFrame DEF Inv, TypeOK

\* set_limits changes no request that was served.
LEMMA SetLimitsInv ==
    ASSUME Inv, NEW c \in Controls, NEW budget \in Work \cup {Unlimited}, SetLimits(c, budget)
    PROVE  Inv'
  <1>1. /\ control' = [control EXCEPT ![c] = budget]
        /\ UNCHANGED <<policy, changes, counter, builds, job, system, served>>
    BY DEF SetLimits
  <1>2. control' \in [Controls -> Work \cup {Unlimited}]
    BY <1>1 DEF Inv, TypeOK
  <1>3. ServedOK' /\ LimitsOfItsOwn'
    BY <1>1, ServedFrame DEF Inv, BuildInv
  <1> QED BY <1>1, <1>2, <1>3, UseFrame

LEMMA InitInv == Init => Inv
  <1> SUFFICES ASSUME Init PROVE Inv
    OBVIOUS
  <1>1. TypeOK
    BY UnboundedSound, IdleJob DEF Init, TypeOK
  <1>2. \A t \in Threads : policy[t] = Unbounded /\ job[t] = Idle
    BY DEF Init
  <1>3. \A f \in Systems : system[f] = None
    BY DEF Init
  <1>4. served = None
    BY DEF Init
  <1>5. BuildInv
    BY <1>2, <1>3, <1>4, UnboundedSound, IdleJob DEF BuildInv, JobOK, Active, SystemOK, ServedOK
  <1> QED BY <1>1, <1>3, <1>4, <1>5 DEF Inv, GeneratedIdsUnique, LimitsOfItsOwn

LEMMA NextInv == Inv /\ [Next]_vars => Inv'
  <1> SUFFICES ASSUME Inv, [Next]_vars PROVE Inv'
    OBVIOUS
  <1>1. CASE UNCHANGED vars
    <2>1. ServedOK' /\ LimitsOfItsOwn'
      BY <1>1, ServedFrame DEF vars, Inv, BuildInv
    <2> QED BY <1>1, <2>1, UseFrame DEF vars, Inv, TypeOK
  <1>2. CASE Use
    BY <1>2, RequestInv, CleanupInv, SetLimitsInv DEF Use
  <1> QED BY <1>1, <1>2, ConstructInv, ConfigureInv DEF Next

(***************************************************************************)
(* The theorems.                                                           *)
(***************************************************************************)

\* The inductive invariant holds: constructions that overlap work on file
\* systems and identities of their own (LocalFileSystems, LocalFileSystemSpi).
THEOREM BuildCorrect == Spec => []Inv
  BY InitInv, NextInv, PTL DEF Spec

\* Every variable keeps its type.
THEOREM TypeCorrect == Spec => []TypeOK
  <1>1. Inv => TypeOK
    BY DEF Inv
  <1> QED BY <1>1, BuildCorrect, PTL

\* No two file systems made by rooted share an identity, in whatever order
\* any number of constructions overlap, fail and finish (rooted).
THEOREM IdsCorrect == Spec => []GeneratedIdsUnique
  <1>1. Inv => GeneratedIdsUnique
    BY DEF Inv
  <1> QED BY <1>1, BuildCorrect, PTL

\* A request runs under the limits its own file system was built with, for its
\* own family, whatever policies are derived since (from_native,
\* local_options_mapper, cleanup_limits).
THEOREM LimitsCorrect == Spec => []LimitsOfItsOwn
  <1>1. Inv => LimitsOfItsOwn
    BY DEF Inv
  <1> QED BY <1>1, BuildCorrect, PTL
=============================================================================
