---------------------------- MODULE FileSystems -----------------------------
(***************************************************************************)
(* Building file systems: LocalResourcePolicy and its limits, the          *)
(* constructors of LocalFileSystems and LocalFileSystemSpi, and what the   *)
(* requests made of the finished file systems inherit from them.           *)
(*                                                                         *)
(* Threads configure policies and build host and rooted file systems at    *)
(* the same time; a construction may fail at any of its steps.             *)
(* The budgets of one operation family are abstracted to one number for    *)
(* the work and one for the directory handles.                             *)
(***************************************************************************)
EXTENDS Naturals, FiniteSets

CONSTANTS
    Threads,     \* the threads that build file systems
    Systems,     \* the file systems that may be built
    Controls,    \* the cleanup controls that callers pass
    ChosenIds,   \* identities chosen by callers
    Work,        \* the budgets that limits and requests may name
    Unlimited,   \* the budget that is no budget
    MaxChanges,  \* bound: derivations of policies
    MaxBuilds,   \* bound: constructions started
    None

ASSUME ConstantsAssumption ==
    /\ Unlimited \in Nat \ {0} /\ Work \subseteq 0..Unlimited
    /\ MaxChanges \in Nat /\ MaxBuilds \in Nat

\* The operation families with a budget of their own.
Recursive == {"list", "copy", "delete"}
Families == Recursive \cup {"open", "temp"}

VARIABLES
    policy,    \* policy[t]: the policy value thread t holds
    changes,   \* how many policies have been derived
    counter,   \* ROOTED_COUNTER
    builds,    \* how many constructions have been started
    job,       \* job[t]: the construction t is in
    system,    \* system[f]: the file system, once built
    control,   \* control[c]: the cleanup budget set on it
    served     \* the last request and what became of it

vars == <<policy, changes, counter, builds, job, system, control, served>>

(***************************************************************************)
(* Policies.  A limit is [work, handles]; a family without limits has None.*)
(* An open-retry timeout and a temporary-name attempt limit are work.      *)
(***************************************************************************)

NoLimit == [work |-> Unlimited, handles |-> Unlimited]
Limits == [work : Work, handles : {0, 1, Unlimited}]
Reopening == {"Reopen", "Fail"}

\* LocalResourcePolicy::unbounded
Unbounded == [limits |-> [d \in Families |-> None], reopen |-> "Reopen"]

\* The limit constructors: listing and copying need a directory handle; only
\* they limit handles.
ValidLimits(d, limit) ==
    /\ d \in {"list", "copy"} => limit.handles \notin {0, Unlimited}
    /\ d \notin {"list", "copy"} => limit.handles = Unlimited
    /\ d = "temp" => limit.work # 0

\* LocalResourcePolicy::bounded, of which standard is one: a limit for each of
\* the recursive families and nothing for the others.
BoundedBy(list, copy, delete) ==
    [Unbounded EXCEPT !.limits["list"] = list, !.limits["copy"] = copy,
                      !.limits["delete"] = delete]

(***************************************************************************)
(* LocalFileSystemSpi::from_native                                         *)
(***************************************************************************)

OrNoLimit(limit) == IF limit = None THEN NoLimit ELSE limit

\* list_options, copy_options, delete_options and the two values kept beside
\* them: a family without limits gets the unlimited options of the engine.
NativeDefaults(p) ==
    [limits |-> [d \in Families |-> OrNoLimit(p.limits[d])], reopen |-> p.reopen]

(***************************************************************************)
(* What a request runs under.                                              *)
(***************************************************************************)

Least(a, b) == IF a < b THEN a ELSE b

\* The families whose requests carry budgets of their own.
RequestBudgeted == {"list", "copy"}

\* tighten_resource_limits, of options that name no directory handles.
Tightened(asked, limit) == [limit EXCEPT !.work = Least(asked, limit.work)]

\* local_options_mapper::list, without a filter (Listing has the filters).
ListLimit(f, asked) == Tightened(asked, system[f].defaults.limits["list"])

\* Mutant: a copy that names a budget is not tightened.
RequestReplaces(f, asked) ==
    IF asked = Unlimited THEN system[f].defaults.limits["copy"] ELSE [NoLimit EXCEPT !.work = asked]

\* local_options_mapper::copy
CopyLimit(f, asked) == Tightened(asked, system[f].defaults.limits["copy"])

\* local_options_mapper::delete: the request has no budgets.
DeleteLimit(f) == Tightened(Unlimited, system[f].defaults.limits["delete"])

\* The native limits of a request.  The retry timeout of an open and the
\* attempts of a temporary name are those kept in the file system.
Effective(f, d, asked) ==
    CASE d = "list"             -> ListLimit(f, asked)
      [] d = "copy"             -> CopyLimit(f, asked)
      [] d = "delete"           -> DeleteLimit(f)
      [] d \in {"open", "temp"} -> system[f].defaults.limits[d]

\* The reopening of a listing is not in the request: it is taken over.
EffectiveReopen(f) == system[f].defaults.reopen

\* cleanup_limits: those of the control now, the native default without one.
CleanupBudget(f) == IF system[f].control # None THEN control[system[f].control] ELSE Unlimited

(***************************************************************************)
(* Actions.                                                                *)
(***************************************************************************)

Idle == [stage |-> "idle", fs |-> None, scope |-> "Host", id |-> None, policy |-> Unbounded,
         control |-> None]

Derive(t, p) ==
    /\ job[t].stage = "idle" /\ changes < MaxChanges
    /\ policy' = [policy EXCEPT ![t] = p]
    /\ changes' = changes + 1
    /\ UNCHANGED <<counter, builds, job, system, control, served>>

\* standard, bounded: the recursive families at once, each with its own limit.
Bounded(t, list, copy, delete) ==
    /\ ValidLimits("list", list) /\ ValidLimits("copy", copy) /\ ValidLimits("delete", delete)
    /\ Derive(t, BoundedBy(list, copy, delete))

\* with_list_limits ... with_temp_max_attempts: one family is set or cleared.
With(t, d, limit) ==
    /\ limit # policy[t].limits[d]
    /\ limit # None => ValidLimits(d, limit)
    /\ Derive(t, [policy[t] EXCEPT !.limits[d] = limit])

\* with_directory_reopen_policy
WithReopen(t, reopen) ==
    /\ policy[t].reopen # reopen
    /\ Derive(t, [policy[t] EXCEPT !.reopen = reopen])

Start(t, f, scope, id, c) ==
    /\ job[t].stage = "idle" /\ builds < MaxBuilds
    /\ system[f] = None /\ \A u \in Threads : job[u].fs # f
    /\ job' = [job EXCEPT ![t] = [stage |-> "opening", fs |-> f, scope |-> scope, id |-> id,
                                  policy |-> policy[t], control |-> c]]
    /\ builds' = builds + 1
    /\ UNCHANGED <<policy, changes, system, control, served>>

\* host, host_with_temp_cleanup: one static identity.
Host(t, f, c) == Start(t, f, "Host", [kind |-> "host", value |-> 0], c) /\ UNCHANGED counter

\* Mutant: the counter moves only when a file system is finished.
CountedLater == counter

\* ROOTED_COUNTER.fetch_add
CounterAfter == counter + 1

\* rooted: the identity is drawn from the counter before anything is opened.
Rooted(t, f) ==
    /\ Start(t, f, "Rooted", [kind |-> "generated", value |-> counter], None)
    /\ counter' = CounterAfter

\* rooted_with_id, rooted_with_id_and_temp_cleanup.
RootedWithId(t, f, id, c) == Start(t, f, "Rooted", [kind |-> "chosen", value |-> id], c) /\ UNCHANGED counter

\* open_rooted or LocalFileSystem::host, then the defaults in from_native: any
\* of them may fail, and the call with it.
Fail(t) ==
    /\ job[t].stage # "idle"
    /\ job' = [job EXCEPT ![t] = Idle]
    /\ UNCHANGED <<policy, changes, counter, builds, system, control, served>>

Open(t) ==
    /\ job[t].stage = "opening"
    /\ job' = [job EXCEPT ![t].stage = "opened"]
    /\ UNCHANGED <<policy, changes, counter, builds, system, control, served>>

\* from_native, with_temp_cleanup_control, FileSystem::from_spi.
Finish(t) ==
    /\ job[t].stage = "opened"
    /\ system' = [system EXCEPT ![job[t].fs] =
         [scope |-> job[t].scope, id |-> job[t].id, given |-> job[t].policy,
          defaults |-> NativeDefaults(job[t].policy), control |-> job[t].control]]
    /\ job' = [job EXCEPT ![t] = Idle]
    /\ UNCHANGED <<policy, changes, counter, builds, control, served>>

\* An operation of one family.
Request(f, d, asked) ==
    /\ system[f] # None
    /\ d \notin RequestBudgeted => asked = Unlimited
    /\ served' = [fs |-> f, family |-> d, asked |-> asked, limit |-> Effective(f, d, asked),
                  reopen |-> EffectiveReopen(f)]
    /\ UNCHANGED <<policy, changes, counter, builds, job, system, control>>

\* A temporary directory is cleaned up.
Cleanup(f) ==
    /\ system[f] # None
    /\ served' = [fs |-> f, family |-> "cleanup",
                  asked |-> IF system[f].control = None THEN Unlimited ELSE control[system[f].control],
                  limit |-> [NoLimit EXCEPT !.work = CleanupBudget(f)], reopen |-> "Reopen"]
    /\ UNCHANGED <<policy, changes, counter, builds, job, system, control>>

\* LocalTempCleanupControl::set_limits
SetLimits(c, budget) ==
    /\ control[c] # budget
    /\ control' = [control EXCEPT ![c] = budget]
    /\ UNCHANGED <<policy, changes, counter, builds, job, system, served>>

Init ==
    /\ policy = [t \in Threads |-> Unbounded] /\ changes = 0
    /\ counter = 0 /\ builds = 0
    /\ job = [t \in Threads |-> Idle]
    /\ system = [f \in Systems |-> None]
    /\ control = [c \in Controls |-> Unlimited]
    /\ served = None

Construct(t) ==
    \/ \E f \in Systems :
         \/ \E c \in Controls \cup {None} :
              Host(t, f, c) \/ \E id \in ChosenIds : RootedWithId(t, f, id, c)
         \/ Rooted(t, f)
    \/ Open(t)
    \/ Finish(t)
    \/ Fail(t)

Configure(t) ==
    \/ \E list, copy, delete \in Limits : Bounded(t, list, copy, delete)
    \/ \E d \in Families, limit \in Limits \cup {None} : With(t, d, limit)
    \/ \E reopen \in Reopening : WithReopen(t, reopen)

Use ==
    \/ \E f \in Systems, d \in Families, asked \in Work \cup {Unlimited} : Request(f, d, asked)
    \/ \E f \in Systems : Cleanup(f)
    \/ \E c \in Controls, budget \in Work \cup {Unlimited} : SetLimits(c, budget)

Next == Use \/ \E t \in Threads : Construct(t) \/ Configure(t)

Spec == Init /\ [][Next]_vars

(***************************************************************************)
(* Properties.                                                             *)
(***************************************************************************)

\* No two file systems made by rooted have the same generated identity, in
\* whatever order their constructions overlap, fail and finish.
GeneratedIdsUnique ==
    \A f, g \in Systems :
        f # g /\ system[f] # None /\ system[g] # None /\ system[f].id.kind = "generated" =>
            system[g].id # system[f].id

\* A request runs under the limits its own file system was built with for its
\* own family, tightened by the request, and a listing reopens directories as
\* its file system was told; limits of other families and of policies derived
\* since do not matter, and cleanup runs under what its control says and under
\* no limit of the policy.  Whatever the policy, there is a directory handle
\* to walk with (from_native, list, copy, delete, cleanup_limits).
LimitsOfItsOwn ==
    served # None =>
        LET given == IF served.family = "cleanup" THEN None
                     ELSE system[served.fs].given.limits[served.family] IN
        /\ given = None => served.limit = [NoLimit EXCEPT !.work = served.asked]
        /\ given # None =>
              /\ served.limit.handles = given.handles /\ given.handles # 0
              /\ served.limit.work = IF given.work <= served.asked THEN given.work ELSE served.asked
        /\ served.family = "list" => served.reopen = system[served.fs].given.reopen

(***************************************************************************)
(* The inductive strengthening of the invariants above.                    *)
(***************************************************************************)

Policies == [limits : [Families -> Limits \cup {None}], reopen : Reopening]
Identities ==
    [kind : {"host", "generated"}, value : Nat] \cup [kind : {"chosen"}, value : ChosenIds]
Jobs == [stage : {"idle", "opening", "opened"}, fs : Systems \cup {None},
         scope : {"Host", "Rooted"}, id : Identities \cup {None}, policy : Policies,
         control : Controls \cup {None}]
Defaults == [limits : [Families -> Limits \cup {NoLimit}], reopen : Reopening]
Built == [scope : {"Host", "Rooted"}, id : Identities, given : Policies, defaults : Defaults,
          control : Controls \cup {None}]

TypeOK ==
    /\ policy \in [Threads -> Policies] /\ changes \in 0..MaxChanges
    /\ counter \in Nat /\ builds \in 0..MaxBuilds
    /\ job \in [Threads -> Jobs]
    /\ system \in [Systems -> Built \cup {None}]
    /\ control \in [Controls -> Work \cup {Unlimited}]

\* Only limits that their constructors accept get into a policy.
Sound(p) == \A d \in Families : p.limits[d] # None => ValidLimits(d, p.limits[d])

\* A generated identity has been drawn from the counter.
Drawn(id) == id.kind = "generated" => id.value \in Nat /\ id.value < counter
Apart(id, other) == id.kind = "generated" => id # other

Active(t) == job[t].stage # "idle"

\* A construction works on a file system that does not exist yet and that no
\* other thread works on, under an identity that is nobody else's.
JobOK(t) ==
    Active(t) =>
        /\ job[t].fs \in Systems /\ system[job[t].fs] = None
        /\ job[t].id \in Identities /\ Drawn(job[t].id) /\ Sound(job[t].policy)
        /\ \A u \in Threads \ {t} : Active(u) => job[u].fs # job[t].fs /\ Apart(job[t].id, job[u].id)
        /\ \A f \in Systems : system[f] # None => Apart(job[t].id, system[f].id)

\* A file system keeps the defaults of the policy it was given.
SystemOK(f) ==
    system[f] # None =>
        /\ Drawn(system[f].id) /\ Sound(system[f].given)
        /\ system[f].defaults = NativeDefaults(system[f].given)

\* The last request was made of a file system that was there.
ServedOK == served # None => served.fs \in Systems /\ system[served.fs] # None

BuildInv ==
    /\ \A t \in Threads : Sound(policy[t]) /\ JobOK(t)
    /\ \A f \in Systems : SystemOK(f)
    /\ ServedOK
=============================================================================
