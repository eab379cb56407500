--------------------------- MODULE ProviderProofs ---------------------------
(***************************************************************************)
(* Proofs about Provider, and about its composition with the temporary     *)
(* directories in CleanupFamily, for every set of threads, provider        *)
(* instances, controls, directories and temporary resources.               *)
(***************************************************************************)
EXTENDS CleanupFamily, TLAPS

USE ConstantsAssumption

\* TypeOK is not inductive alone: a clone in the making must run on a
\* provider that exists for its family to be one.
Inv == TypeOK /\ ProviderInv

(***************************************************************************)
(* decode_config and the jobs of the threads.                              *)
(***************************************************************************)

\* The checks of a configuration accept exactly the sound one, and call only
\* another scheme unsupported.
LEMMA DecodeExact ==
    ASSUME NEW c \in Config
    PROVE  /\ DecodeFailure(c) \in Failures \ {"InitializationFailed"}
           /\ DecodeFailure(c) = "None" <=> c = SoundConfig
           /\ DecodeFailure(c) = "Unsupported" <=> ~c.file
  BY DEF Config, DecodeFailure, Failures, SoundConfig

\* Starting a call changes the job of its thread and no other.
LEMMA StartJob ==
    ASSUME TypeOK, NEW t \in Threads, NEW call \in {"resolve", "clone", "control"},
           NEW p \in Providers, NEW q \in Providers \cup {None}, Start(t, call, p, q)
    PROVE  /\ job' \in [Threads -> Jobs]
           /\ \A u \in Threads \ {t} : job'[u] = job[u]
           /\ job'[t].call = call /\ job'[t].on = p /\ job'[t].new = q
           /\ job'[t].making = FALSE /\ job'[t].got = None
  BY DEF TypeOK, Start, Idle, Jobs

\* Returning from one too.
LEMMA ReturnJob ==
    ASSUME TypeOK, NEW t \in Threads, Return(t)
    PROVE  /\ job' \in [Threads -> Jobs]
           /\ \A u \in Threads \ {t} : job'[u] = job[u]
           /\ job'[t] = Idle
  BY DEF TypeOK, Return, Idle, Jobs

\* An idle thread is in no call, and holds and makes nothing.
LEMMA IdleJob ==
    /\ Idle.call = "idle" /\ Idle.on = None /\ Idle.new = None
    /\ Idle.making = FALSE /\ Idle.got = None
  BY DEF Idle

\* A thread that learns or makes the control changes only that of its job.
LEMMA GotJob ==
    ASSUME TypeOK, NEW t \in Threads, NEW c \in Controls, NEW b \in BOOLEAN,
           job' = [job EXCEPT ![t].got = c, ![t].making = b]
    PROVE  /\ job' \in [Threads -> Jobs]
           /\ \A u \in Threads \ {t} : job'[u] = job[u]
           /\ job'[t].call = job[t].call /\ job'[t].on = job[t].on /\ job'[t].new = job[t].new
           /\ job'[t].making = b /\ job'[t].got = c
  <1> DEFINE new == [job[t] EXCEPT !.got = c, !.making = b]
  <1>1. job \in [Threads -> Jobs] /\ job[t] \in Jobs
    BY DEF TypeOK
  <1>2. /\ new \in Jobs /\ new.call = job[t].call /\ new.on = job[t].on
        /\ new.new = job[t].new /\ new.making = b /\ new.got = c
    BY <1>1 DEF Jobs
  <1>3. job' = [job EXCEPT ![t] = new]
    BY <1>1
  <1> HIDE DEF new
  <1> QED BY <1>1, <1>2, <1>3

\* The fields of a job.
LEMMA JobType ==
    ASSUME TypeOK, NEW t \in Threads
    PROVE  /\ job[t].call \in {"idle", "resolve", "clone", "control"}
           /\ job[t].on \in Providers \cup {None} /\ job[t].new \in Providers \cup {None}
           /\ job[t].making \in BOOLEAN /\ job[t].got \in Controls \cup {None}
  BY DEF TypeOK, Jobs

\* A call in progress knows a provider that exists.
LEMMA CallOn ==
    ASSUME Inv, NEW t \in Threads, job[t].call # "idle"
    PROVE  /\ job[t].on \in Providers /\ Exists(job[t].on) /\ family[job[t].on] \in Providers
           /\ family[family[job[t].on]] = family[job[t].on]
           /\ job[t].got # None =>
                 job[t].got \in Controls /\ job[t].got = cell[job[t].on]
                 /\ job[t].got = cell[family[job[t].on]]
  <1>1. job[t].on \in Providers /\ Exists(job[t].on)
    BY DEF Inv, ProviderInv, CallsOK, CallOK
  <1>2. /\ family[job[t].on] \in Providers
        /\ family[family[job[t].on]] = family[job[t].on]
        /\ family[job[t].on] # job[t].on => cell[job[t].on] = cell[family[job[t].on]]
    BY <1>1 DEF Inv, ProviderInv, Families, Exists, TypeOK
  <1>3. job[t].got # None => job[t].got \in Controls /\ job[t].got = cell[job[t].on]
    BY JobType DEF Inv, ProviderInv, CallsOK, CallOK
  <1> QED BY <1>1, <1>2, <1>3

(***************************************************************************)
(* Steps that change no provider.                                          *)
(***************************************************************************)

\* What the providers hold is as sound as before when nothing of it changes.
LEMMA SameProviders ==
    ASSUME Inv, UNCHANGED <<family, retained, cell, allocated>>
    PROVE  Families' /\ Cells' /\ (UNCHANGED handles => Handed')
  BY DEF Inv, ProviderInv, Families, Cells, Handed, Exists, IsHost

\* A call keeps its invariant while its thread does not move and its
\* provider, its clone's name and its control stay what they are.
LEMMA CallFrame ==
    ASSUME NEW u \in Threads, CallOK(u), job'[u] = job[u], resolution'[u] = resolution[u],
           job[u].call # "idle" =>
               family'[job[u].on] = family[job[u].on] /\ cell'[job[u].on] = cell[job[u].on],
           job[u].new \in Providers => family'[job[u].new] = family[job[u].new]
    PROVE  CallOK(u)'
  BY IdleJob DEF CallOK, Exists

\* One thread moves: the calls stay sound and apart if its own call is sound
\* and takes neither the cell nor the name of another.
LEMMA CallsStep ==
    ASSUME CallsOK, CallsApart, NEW t \in Threads, CallOK(t)',
           \A u \in Threads \ {t} : job'[u] = job[u] /\ CallOK(u)',
           job'[t].making => \A u \in Threads \ {t} :
                                 ~(job[u].making /\ job[u].on = job'[t].on),
           job'[t].new # None => \A u \in Threads \ {t} : job[u].new # job'[t].new
    PROVE  CallsOK' /\ CallsApart'
  <1>1. CallsOK'
    BY DEF CallsOK
  <1>2. CallsApart'
    BY DEF CallsApart
  <1> QED BY <1>1, <1>2

\* The record of a sound resolution.
LEMMA SoundResolution ==
    LET r == [file |-> TRUE, sound |-> TRUE, failure |-> "None"]
    IN  r \in Resolution /\ r.file /\ r.sound /\ r.failure = "None"
  BY DEF Resolution, Failures

\* Asking for the control preserves the invariant.
LEMMA StartControlInv ==
    ASSUME Inv, NEW t \in Threads, NEW p \in Providers, StartControl(t, p)
    PROVE  Inv'
  <1>1. /\ Exists(p) /\ Start(t, "control", p, None)
        /\ UNCHANGED <<family, retained, cell, allocated, root, resolution, handles>>
    BY DEF StartControl
  <1>2. TypeOK /\ TypeOK'
    BY <1>1, StartJob DEF Inv, TypeOK
  <1>3. /\ \A u \in Threads \ {t} : job'[u] = job[u]
        /\ job'[t].call = "control" /\ job'[t].on = p /\ job'[t].new = None
        /\ job'[t].making = FALSE /\ job'[t].got = None
    BY <1>1, <1>2, StartJob
  <1>4. CallsOK' /\ CallsApart'
    <2>1. CallsOK /\ CallsApart
      BY DEF Inv, ProviderInv
    <2>2. \A u \in Threads \ {t} : CallOK(u)'
      BY <1>1, <1>3, <2>1, CallFrame DEF CallsOK
    <2>3. CallOK(t)'
      BY <1>1, <1>3 DEF CallOK, Exists
    <2> QED BY <1>1, <1>3, <2>1, <2>2, <2>3, CallsStep
  <1>5. FallbackOnlyForeign'
    BY <1>1 DEF Inv, ProviderInv, FallbackOnlyForeign
  <1> QED BY <1>1, <1>2, <1>4, <1>5, SameProviders DEF Inv, ProviderInv

\* Starting a clone reserves a name that no provider and no call has.
LEMMA StartCloneInv ==
    ASSUME Inv, NEW t \in Threads, NEW p \in Providers, NEW q \in Providers,
           StartClone(t, p, q)
    PROVE  Inv'
  <1>1. /\ Exists(p) /\ Free(q) /\ Start(t, "clone", p, q)
        /\ UNCHANGED <<family, retained, cell, allocated, root, resolution, handles>>
    BY DEF StartClone
  <1>2. TypeOK /\ TypeOK'
    BY <1>1, StartJob DEF Inv, TypeOK
  <1>3. /\ \A u \in Threads \ {t} : job'[u] = job[u]
        /\ job'[t].call = "clone" /\ job'[t].on = p /\ job'[t].new = q
        /\ job'[t].making = FALSE /\ job'[t].got = None
    BY <1>1, <1>2, StartJob
  <1>4. CallsOK' /\ CallsApart'
    <2>1. CallsOK /\ CallsApart
      BY DEF Inv, ProviderInv
    <2>2. \A u \in Threads \ {t} : CallOK(u)'
      BY <1>1, <1>3, <2>1, CallFrame DEF CallsOK
    <2>3. CallOK(t)'
      BY <1>1, <1>3 DEF CallOK, Exists, Free
    <2> QED BY <1>1, <1>3, <2>1, <2>2, <2>3, CallsStep DEF Free
  <1>5. FallbackOnlyForeign'
    BY <1>1 DEF Inv, ProviderInv, FallbackOnlyForeign
  <1> QED BY <1>1, <1>2, <1>4, <1>5, SameProviders DEF Inv, ProviderInv

\* A resolution starts for a sound configuration only, and a refusal says
\* Unsupported for another scheme only.
LEMMA StartResolveInv ==
    ASSUME Inv, NEW t \in Threads, NEW p \in Providers, NEW c \in Config,
           StartResolve(t, p, c)
    PROVE  Inv'
  <1> DEFINE answer == [file |-> c.file, sound |-> c = SoundConfig,
                        failure |-> DecodeFailure(c)]
  <1>1. /\ Exists(p) /\ job[t] = Idle
        /\ resolution' = [resolution EXCEPT ![t] = answer]
        /\ UNCHANGED <<family, retained, cell, allocated, root, handles>>
        /\ DecodeFailure(c) = "None" => Start(t, "resolve", p, None)
        /\ DecodeFailure(c) # "None" => job' = job
    BY DEF StartResolve
  <1>2. /\ answer.file = c.file /\ answer.sound = (c = SoundConfig)
        /\ answer.failure = DecodeFailure(c)
    OBVIOUS
  <1>3. answer \in Resolution
    BY DecodeExact DEF Resolution, Config
  <1>4. c = SoundConfig => answer = [file |-> TRUE, sound |-> TRUE, failure |-> "None"]
    BY DecodeExact DEF SoundConfig
  <1> HIDE DEF answer
  <1>5. /\ resolution' \in [Threads -> Resolution] /\ resolution'[t] = answer
        /\ \A u \in Threads \ {t} : resolution'[u] = resolution[u]
    BY <1>1, <1>3 DEF Inv, TypeOK
  <1>6. TypeOK /\ job' \in [Threads -> Jobs]
    BY <1>1, StartJob DEF Inv, TypeOK
  <1>7. TypeOK'
    BY <1>1, <1>5, <1>6 DEF TypeOK
  <1>8. CallsOK' /\ CallsApart'
    <2>1. CallsOK /\ CallsApart
      BY DEF Inv, ProviderInv
    <2>2. \A u \in Threads \ {t} : job'[u] = job[u]
      BY <1>1, <1>6, StartJob
    <2>3. job'[t].making = FALSE /\ job'[t].new = None
      BY <1>1, <1>6, StartJob, IdleJob
    <2>4. \A u \in Threads \ {t} : CallOK(u)'
      BY <1>1, <1>5, <2>1, <2>2, CallFrame DEF CallsOK
    <2>5. CallOK(t)'
      <3>1. CASE DecodeFailure(c) = "None"
        <4>1. /\ job'[t].call = "resolve" /\ job'[t].on = p /\ job'[t].got = None
          BY <1>1, <1>6, <3>1, StartJob
        <4> QED BY <1>1, <1>4, <1>5, <2>3, <3>1, <4>1, DecodeExact DEF CallOK, Exists
      <3>2. CASE DecodeFailure(c) # "None"
        BY <1>1, <3>2, IdleJob DEF CallOK
      <3> QED BY <3>1, <3>2
    <2> QED BY <2>1, <2>2, <2>3, <2>4, <2>5, CallsStep
  <1>9. FallbackOnlyForeign'
    BY <1>2, <1>5, DecodeExact DEF Inv, ProviderInv, FallbackOnlyForeign, Failures
  <1> QED BY <1>1, <1>7, <1>8, <1>9, SameProviders DEF Inv, ProviderInv

(***************************************************************************)
(* OnceLock::get_or_init.                                                  *)
(***************************************************************************)

\* Reading a cell that is set preserves the invariant.
LEMMA ReadCellInv ==
    ASSUME Inv, NEW t \in Threads, ReadCell(t)
    PROVE  Inv'
  <1> DEFINE c == cell[job[t].on]
  <1>1. /\ job[t].call # "idle" /\ ~job[t].making /\ c \in Controls
        /\ job' = [job EXCEPT ![t].got = c]
        /\ UNCHANGED <<family, retained, cell, allocated, root, resolution, handles>>
    BY DEF ReadCell, WantsControl
  <1> HIDE DEF c
  <1>2. /\ job' \in [Threads -> Jobs]
        /\ \A u \in Threads \ {t} : job'[u] = job[u]
        /\ job'[t].call = job[t].call /\ job'[t].on = job[t].on /\ job'[t].new = job[t].new
        /\ job'[t].making = job[t].making /\ job'[t].got = c
    BY <1>1 DEF Inv, TypeOK, Jobs
  <1>3. TypeOK'
    BY <1>1, <1>2 DEF Inv, TypeOK
  <1>4. CallsOK' /\ CallsApart'
    <2>1. CallsOK /\ CallsApart
      BY DEF Inv, ProviderInv
    <2>2. \A u \in Threads \ {t} : CallOK(u)'
      BY <1>1, <1>2, <2>1, CallFrame DEF CallsOK
    <2>3. CallOK(t)'
      BY <1>1, <1>2, <2>1 DEF CallsOK, CallOK, Exists, c
    <2> QED BY <1>1, <1>2, <2>1, <2>2, <2>3, CallsStep DEF CallsApart
  <1>5. FallbackOnlyForeign'
    BY <1>1 DEF Inv, ProviderInv, FallbackOnlyForeign
  <1> QED BY <1>1, <1>3, <1>4, <1>5, SameProviders DEF Inv, ProviderInv

\* A cell that is not set belongs to a host provider without clones and
\* without handles, so that what is put there is new to everyone.
LEMMA UnsetCell ==
    ASSUME Inv, NEW p \in Providers, Exists(p), cell[p] \notin Controls
    PROVE  /\ family[p] = p /\ IsHost(p)
           /\ \A q \in Providers : family[q] = p => q = p
           /\ \A h \in handles : h.family # p
           /\ \A t \in Threads : job[t].call # "idle" /\ job[t].on = p => job[t].got = None
  <1>1. family[p] = p
    BY DEF Inv, ProviderInv, Families
  <1>2. IsHost(p)
    BY DEF Inv, ProviderInv, Cells, IsHost, TypeOK, FileSystem
  <1>3. \A q \in Providers : family[q] = p => q = p
    BY DEF Inv, ProviderInv, Families, Exists
  <1>4. \A h \in handles : h.family # p
    BY DEF Inv, ProviderInv, Handed, TypeOK, Handle
  <1>5. \A t \in Threads : job[t].call # "idle" /\ job[t].on = p => job[t].got = None
    BY CallOn
  <1> QED BY <1>1, <1>2, <1>3, <1>4, <1>5

\* Claiming or filling such a cell keeps what the providers hold sound.
LEMMA SetCell ==
    ASSUME Inv, NEW p \in Providers, Exists(p), cell[p] \notin Controls,
           NEW v \in (Controls \ allocated) \cup {Busy}, cell' = [cell EXCEPT ![p] = v],
           allocated' = allocated \cup ({v} \cap Controls),
           UNCHANGED <<family, retained, handles>>
    PROVE  /\ Families' /\ Cells' /\ Handed'
           /\ cell' \in [Providers -> Controls \cup {Busy, None}] /\ allocated' \subseteq Controls
  <1>1. /\ cell' \in [Providers -> Controls \cup {Busy, None}] /\ allocated' \subseteq Controls
        /\ \A q \in Providers : cell'[q] = IF q = p THEN v ELSE cell[q]
    BY DEF Inv, TypeOK
  <1>2. Families'
    BY <1>1, UnsetCell DEF Inv, ProviderInv, Families, Exists
  <1>3. Cells'
    <2>1. Cells
      BY DEF Inv, ProviderInv
    <2>2. \A q \in Providers : /\ cell'[q] \in Controls => cell'[q] \in allocated'
                               /\ ~IsHost(q)' => retained'[q].control = cell'[q]
      BY <1>1, <2>1, UnsetCell DEF Cells, IsHost
    <2>3. ASSUME NEW q \in Providers, NEW r \in Providers, family'[q] = q, family'[r] = r,
                 cell'[q] = cell'[r], cell'[q] \in Controls
          PROVE  q = r
      <3>1. family[q] = q /\ family[r] = r
        BY <2>3
      <3>2. CASE q # p /\ r # p
        BY <1>1, <2>1, <2>3, <3>1, <3>2 DEF Cells
      <3>3. CASE q = p \/ r = p
        <4>1. v \in Controls /\ v \notin allocated
          BY <1>1, <2>3, <3>3
        <4> QED BY <1>1, <2>1, <2>3, <3>3, <4>1 DEF Cells
      <3> QED BY <3>2, <3>3
    <2> QED BY <2>2, <2>3 DEF Cells
  <1>4. Handed'
    BY <1>1, UnsetCell DEF Inv, ProviderInv, Handed, TypeOK, Handle, IsHost
  <1> QED BY <1>1, <1>2, <1>3, <1>4

\* Claiming an empty cell preserves the invariant: no one else had it.
LEMMA ClaimCellInv ==
    ASSUME Inv, NEW t \in Threads, ClaimCell(t)
    PROVE  Inv'
  <1> DEFINE p == job[t].on
  <1>1. /\ job[t].call # "idle" /\ job[t].got = None /\ cell[p] = None
        /\ cell' = [cell EXCEPT ![p] = Busy]
        /\ job' = [job EXCEPT ![t].making = TRUE]
        /\ UNCHANGED <<family, retained, allocated, root, resolution, handles>>
    BY DEF ClaimCell, WantsControl, MayInitialise
  <1>2. p \in Providers /\ Exists(p) /\ cell[p] \notin Controls
    BY <1>1, CallOn
  <1>3. /\ job' \in [Threads -> Jobs]
        /\ \A u \in Threads \ {t} : job'[u] = job[u]
        /\ job'[t].call = job[t].call /\ job'[t].on = p /\ job'[t].new = job[t].new
        /\ job'[t].making = TRUE /\ job'[t].got = None
    <2> DEFINE new == [job[t] EXCEPT !.making = TRUE]
    <2>1. job \in [Threads -> Jobs] /\ job[t] \in Jobs
      BY DEF Inv, TypeOK
    <2>2. /\ new \in Jobs /\ new.call = job[t].call /\ new.on = job[t].on
          /\ new.new = job[t].new /\ new.making = TRUE /\ new.got = job[t].got
      BY <2>1 DEF Jobs
    <2>3. job' = [job EXCEPT ![t] = new]
      BY <1>1, <2>1
    <2> HIDE DEF new
    <2> QED BY <1>1, <2>1, <2>2, <2>3
  <1> HIDE DEF p
  <1>4. /\ Families' /\ Cells' /\ Handed'
        /\ cell' \in [Providers -> Controls \cup {Busy, None}]
    BY <1>1, <1>2, SetCell
  <1>5. TypeOK'
    BY <1>1, <1>3, <1>4 DEF Inv, TypeOK
  <1>6. CallsOK' /\ CallsApart'
    <2>1. CallsOK /\ CallsApart
      BY DEF Inv, ProviderInv
    <2>2. \A q \in Providers : cell'[q] = IF q = p THEN Busy ELSE cell[q]
      BY <1>1 DEF Inv, TypeOK
    <2>3. ASSUME NEW u \in Threads, u # t PROVE CallOK(u)'
      <3>1. CASE job[u].call # "idle" /\ job[u].on = p
        <4>1. job[u].got = None /\ ~job[u].making
          BY <1>1, <1>2, <2>1, <3>1, UnsetCell DEF CallsOK, CallOK
        <4> QED BY <1>1, <1>3, <2>1, <2>3, <3>1, <4>1, IdleJob DEF CallsOK, CallOK, Exists
      <3>2. CASE ~(job[u].call # "idle" /\ job[u].on = p)
        BY <1>1, <1>3, <2>1, <2>2, <2>3, <3>2, CallFrame, CallOn DEF CallsOK
      <3> QED BY <3>1, <3>2
    <2>4. CallOK(t)'
      BY <1>1, <1>2, <1>3, <2>1, <2>2 DEF CallsOK, CallOK, Exists
    <2>5. \A u \in Threads \ {t} : ~(job[u].making /\ job[u].on = p)
      BY <1>1, <2>1 DEF CallsOK, CallOK
    <2>6. job[t].new # None => \A u \in Threads \ {t} : job[u].new # job[t].new
      BY <2>1 DEF CallsApart
    <2> QED BY <1>3, <2>1, <2>3, <2>4, <2>5, <2>6, CallsStep
  <1>7. FallbackOnlyForeign'
    BY <1>1 DEF Inv, ProviderInv, FallbackOnlyForeign
  <1> QED BY <1>4, <1>5, <1>6, <1>7 DEF Inv, ProviderInv

\* The thread that claimed the cell is the only one to fill it.
LEMMA FillCellInv ==
    ASSUME Inv, NEW t \in Threads, FillCell(t)
    PROVE  Inv'
  <1> DEFINE p == job[t].on
  <1>1. PICK c \in Controls \ allocated :
          /\ allocated' = allocated \cup {c}
          /\ cell' = [cell EXCEPT ![p] = c]
          /\ job' = [job EXCEPT ![t].got = c, ![t].making = FALSE]
    BY DEF FillCell, Initialised
  <1>2. job[t].making /\ UNCHANGED <<family, retained, root, resolution, handles>>
    BY DEF FillCell
  <1>3. job[t].call # "idle" /\ cell[p] = Busy
    BY <1>2 DEF Inv, ProviderInv, CallsOK, CallOK
  <1>4. p \in Providers /\ Exists(p) /\ cell[p] \notin Controls
    BY <1>3, CallOn
  <1>5. /\ job' \in [Threads -> Jobs]
        /\ \A u \in Threads \ {t} : job'[u] = job[u]
        /\ job'[t].call = job[t].call /\ job'[t].on = p /\ job'[t].new = job[t].new
        /\ job'[t].making = FALSE /\ job'[t].got = c
    BY <1>1, GotJob DEF Inv
  <1> HIDE DEF p
  <1>6. /\ Families' /\ Cells' /\ Handed'
        /\ cell' \in [Providers -> Controls \cup {Busy, None}] /\ allocated' \subseteq Controls
    BY <1>1, <1>2, <1>4, SetCell
  <1>7. TypeOK'
    BY <1>2, <1>5, <1>6 DEF Inv, TypeOK
  <1>8. CallsOK' /\ CallsApart'
    <2>1. CallsOK /\ CallsApart
      BY DEF Inv, ProviderInv
    <2>2. \A q \in Providers : cell'[q] = IF q = p THEN c ELSE cell[q]
      BY <1>1 DEF Inv, TypeOK
    <2>3. ASSUME NEW u \in Threads, u # t PROVE CallOK(u)'
      <3>1. CASE job[u].call # "idle" /\ job[u].on = p
        <4>1. ~job[u].making
          BY <1>2, <2>1, <2>3, <3>1 DEF CallsApart, p
        <4>2. job[u].got = None
          BY <1>4, <3>1, UnsetCell
        <4> QED BY <1>2, <1>5, <2>1, <2>3, <3>1, <4>1, <4>2, IdleJob DEF CallsOK, CallOK, Exists
      <3>2. CASE ~(job[u].call # "idle" /\ job[u].on = p)
        BY <1>2, <1>5, <2>1, <2>2, <2>3, <3>2, CallFrame, CallOn DEF CallsOK
      <3> QED BY <3>1, <3>2
    <2>4. CallOK(t)'
      BY <1>2, <1>3, <1>4, <1>5, <2>1, <2>2 DEF CallsOK, CallOK, Exists
    <2>5. job[t].new # None => \A u \in Threads \ {t} : job[u].new # job[t].new
      BY <2>1 DEF CallsApart
    <2> QED BY <1>5, <2>1, <2>3, <2>4, <2>5, CallsStep
  <1>9. FallbackOnlyForeign'
    BY <1>2 DEF Inv, ProviderInv, FallbackOnlyForeign
  <1> QED BY <1>6, <1>7, <1>8, <1>9 DEF Inv, ProviderInv

(***************************************************************************)
(* Construction, and the ends of the calls.                                *)
(***************************************************************************)

\* No family, handle or call has the name of a provider that does not exist.
LEMMA FreshName ==
    ASSUME Inv, NEW p \in Providers, ~Exists(p)
    PROVE  /\ cell[p] = None /\ retained[p] = None
           /\ \A q \in Providers : family[q] # p
           /\ \A h \in handles : h.family # p
           /\ \A t \in Threads : job[t].call # "idle" => job[t].on # p
  <1>1. cell[p] = None /\ retained[p] = None /\ \A q \in Providers : family[q] # p
    BY DEF Inv, ProviderInv, Families, Exists
  <1>2. \A h \in handles : h.family # p
    BY DEF Inv, ProviderInv, Handed, TypeOK, Handle, Exists
  <1>3. \A t \in Threads : job[t].call # "idle" => job[t].on # p
    BY CallOn
  <1> QED BY <1>1, <1>2, <1>3

\* A new provider whose cell is empty or holds a control of its own keeps
\* what the providers hold sound.
LEMMA NewProvider ==
    ASSUME Inv, NEW p \in Providers, ~Exists(p),
           NEW v \in (Controls \ allocated) \cup {None}, NEW fs \in FileSystem \cup {None},
           fs # None => fs.control = v,
           family' = [family EXCEPT ![p] = p], cell' = [cell EXCEPT ![p] = v],
           retained' = [retained EXCEPT ![p] = fs],
           allocated' = allocated \cup ({v} \cap Controls), UNCHANGED handles
    PROVE  /\ Families' /\ Cells' /\ Handed'
           /\ family' \in [Providers -> Providers \cup {None}]
           /\ retained' \in [Providers -> FileSystem \cup {None}]
           /\ cell' \in [Providers -> Controls \cup {Busy, None}] /\ allocated' \subseteq Controls
  <1>1. /\ family' \in [Providers -> Providers \cup {None}]
        /\ retained' \in [Providers -> FileSystem \cup {None}]
        /\ cell' \in [Providers -> Controls \cup {Busy, None}] /\ allocated' \subseteq Controls
        /\ \A q \in Providers : /\ family'[q] = IF q = p THEN p ELSE family[q]
                                /\ cell'[q] = IF q = p THEN v ELSE cell[q]
                                /\ retained'[q] = IF q = p THEN fs ELSE retained[q]
    BY DEF Inv, TypeOK
  <1>2. family \in [Providers -> Providers \cup {None}]
    BY DEF Inv, TypeOK
  <1>3. Families'
    <2>1. Families
      BY DEF Inv, ProviderInv
    <2> QED BY <1>1, <1>2, <2>1, FreshName DEF Families, Exists
  <1>4. Cells'
    <2>1. Cells
      BY DEF Inv, ProviderInv
    <2>2. \A q \in Providers : /\ cell'[q] \in Controls => cell'[q] \in allocated'
                               /\ ~IsHost(q)' => retained'[q].control = cell'[q]
      BY <1>1, <2>1 DEF Cells, IsHost
    <2>3. ASSUME NEW q \in Providers, NEW r \in Providers, family'[q] = q, family'[r] = r,
                 cell'[q] = cell'[r], cell'[q] \in Controls
          PROVE  q = r
      <3>1. CASE q # p /\ r # p
        BY <1>1, <2>1, <2>3, <3>1 DEF Cells
      <3>2. CASE q = p \/ r = p
        <4>1. v \in Controls /\ v \notin allocated
          BY <1>1, <2>3, <3>2
        <4> QED BY <1>1, <2>1, <2>3, <3>2, <4>1 DEF Cells
      <3> QED BY <3>1, <3>2
    <2> QED BY <2>2, <2>3 DEF Cells
  <1>5. Handed'
    BY <1>1, FreshName DEF Inv, ProviderInv, Handed, TypeOK, Handle, IsHost
  <1> QED BY <1>1, <1>3, <1>4, <1>5

\* Calls do not notice a new provider with a free name.
LEMMA NewProviderCalls ==
    ASSUME Inv, NEW p \in Providers, Free(p),
           \A q \in Providers \ {p} : family'[q] = family[q] /\ cell'[q] = cell[q],
           UNCHANGED <<job, resolution>>
    PROVE  CallsOK' /\ CallsApart' /\ FallbackOnlyForeign'
  <1>1. CallsOK /\ CallsApart /\ FallbackOnlyForeign
    BY DEF Inv, ProviderInv
  <1>2. ASSUME NEW t \in Threads PROVE CallOK(t)'
    <2>1. job[t].call # "idle" => job[t].on \in Providers \ {p}
      BY FreshName, CallOn DEF Free
    <2>2. job[t].new \in Providers => job[t].new \in Providers \ {p}
      BY DEF Free
    <2> QED BY <1>1, <2>1, <2>2, CallFrame DEF CallsOK
  <1> QED BY <1>1, <1>2 DEF CallsOK, CallsApart, FallbackOnlyForeign

\* host preserves the invariant.
LEMMA NewHostInv ==
    ASSUME Inv, NEW p \in Providers, NewHost(p)
    PROVE  Inv'
  <1>1. /\ Free(p) /\ ~Exists(p) /\ family' = [family EXCEPT ![p] = p]
        /\ UNCHANGED <<retained, cell, allocated, root, job, resolution, handles>>
    BY DEF NewHost, Free
  <1>2. cell[p] = None /\ retained[p] = None
    BY <1>1, FreshName
  <1>3. /\ cell' = [cell EXCEPT ![p] = None] /\ retained' = [retained EXCEPT ![p] = None]
        /\ allocated' = allocated \cup ({None} \cap Controls)
    BY <1>1, <1>2 DEF Inv, TypeOK
  <1>4. /\ Families' /\ Cells' /\ Handed'
        /\ family' \in [Providers -> Providers \cup {None}]
    BY <1>1, <1>3, NewProvider
  <1>5. TypeOK'
    BY <1>1, <1>4 DEF Inv, TypeOK
  <1>6. \A q \in Providers \ {p} : family'[q] = family[q] /\ cell'[q] = cell[q]
    BY <1>1 DEF Inv, TypeOK
  <1> QED BY <1>1, <1>4, <1>5, <1>6, NewProviderCalls DEF Inv, ProviderInv

\* rooted_with_descriptor preserves the invariant.
LEMMA NewRootedInv ==
    ASSUME Inv, NEW p \in Providers, NewRooted(p)
    PROVE  Inv'
  <1>1. /\ Free(p) /\ ~Exists(p) /\ family' = [family EXCEPT ![p] = p] /\ root # None
        /\ UNCHANGED <<root, job, resolution, handles>>
    BY DEF NewRooted, Free
  <1>2. PICK c \in Controls \ allocated :
          /\ cell' = [cell EXCEPT ![p] = c]
          /\ allocated' = allocated \cup {c}
          /\ retained' = [retained EXCEPT ![p] = [dir |-> root, control |-> c]]
    BY DEF NewRooted
  <1> DEFINE fs == [dir |-> root, control |-> c]
  <1>3. fs \in FileSystem /\ fs.control = c
    BY <1>1 DEF Inv, TypeOK, FileSystem
  <1>4. retained' = [retained EXCEPT ![p] = fs]
    BY <1>2
  <1> HIDE DEF fs
  <1>5. allocated' = allocated \cup ({c} \cap Controls)
    BY <1>2
  <1>6. /\ Families' /\ Cells' /\ Handed'
        /\ family' \in [Providers -> Providers \cup {None}]
        /\ retained' \in [Providers -> FileSystem \cup {None}]
        /\ cell' \in [Providers -> Controls \cup {Busy, None}] /\ allocated' \subseteq Controls
    BY <1>1, <1>2, <1>3, <1>4, <1>5, NewProvider
  <1>7. TypeOK'
    BY <1>1, <1>6 DEF Inv, TypeOK
  <1>8. \A q \in Providers \ {p} : family'[q] = family[q] /\ cell'[q] = cell[q]
    BY <1>1, <1>2 DEF Inv, TypeOK
  <1> QED BY <1>1, <1>6, <1>7, <1>8, NewProviderCalls DEF Inv, ProviderInv

\* What a call hands out is what its family holds.
LEMMA HandOutHanded ==
    ASSUME Inv, NEW p \in Providers, Exists(p), NEW c \in Controls, c = cell[p],
           NEW d \in Dirs \cup {None}, d # None => ~IsHost(p) /\ retained[p].dir = d,
           HandOut(p, c, d), UNCHANGED <<family, retained, cell>>
    PROVE  Handed' /\ handles' \subseteq Handle
  <1> DEFINE new == [family |-> family[p], control |-> c, dir |-> d]
  <1>1. /\ family[p] \in Providers /\ family[family[p]] = family[p]
        /\ cell[family[p]] = c /\ retained[family[p]] = retained[p]
    BY DEF Inv, ProviderInv, Families, TypeOK, Exists
  <1>2. new \in Handle /\ new.family = family[p] /\ new.control = c /\ new.dir = d
    BY <1>1 DEF Handle
  <1>3. handles' = handles \cup {new}
    BY DEF HandOut
  <1> HIDE DEF new
  <1>4. handles' \subseteq Handle
    BY <1>2, <1>3 DEF Inv, TypeOK
  <1>5. ASSUME NEW h \in handles'
        PROVE  /\ family'[h.family] = h.family /\ cell'[h.family] = h.control
               /\ h.dir # None => ~IsHost(h.family)' /\ retained'[h.family].dir = h.dir
    <2>1. CASE h = new
      BY <1>1, <1>2, <2>1 DEF IsHost
    <2>2. CASE h \in handles
      BY <2>2 DEF Inv, ProviderInv, Handed, IsHost
    <2> QED BY <1>3, <2>1, <2>2
  <1> QED BY <1>4, <1>5 DEF Handed

\* A thread that returns leaves the calls of the others alone.
LEMMA ReturnCalls ==
    ASSUME Inv, NEW t \in Threads, Return(t),
           \A u \in Threads \ {t} : resolution'[u] = resolution[u],
           \A q \in Providers : Exists(q) => family'[q] = family[q] /\ cell'[q] = cell[q],
           \A u \in Threads \ {t} : job[u].new \in Providers =>
                                      family'[job[u].new] = family[job[u].new]
    PROVE  CallsOK' /\ CallsApart'
  <1>1. CallsOK /\ CallsApart /\ TypeOK
    BY DEF Inv, ProviderInv
  <1>2. job'[t] = Idle /\ \A u \in Threads \ {t} : job'[u] = job[u]
    BY <1>1, ReturnJob
  <1>3. CallOK(t)'
    BY <1>2, IdleJob DEF CallOK
  <1>4. \A u \in Threads \ {t} : CallOK(u)'
    BY <1>1, <1>2, CallFrame, CallOn DEF CallsOK
  <1> QED BY <1>1, <1>2, <1>3, <1>4, IdleJob, CallsStep

\* Returning the control preserves the invariant.
LEMMA ReturnControlInv ==
    ASSUME Inv, NEW t \in Threads, ReturnControl(t)
    PROVE  Inv'
  <1>1. /\ job[t].call # "idle" /\ job[t].got # None
        /\ HandOut(job[t].on, job[t].got, None) /\ Return(t)
        /\ UNCHANGED <<family, retained, cell, allocated, root, resolution>>
    BY DEF ReturnControl
  <1>2. /\ job[t].on \in Providers /\ Exists(job[t].on)
        /\ job[t].got \in Controls /\ job[t].got = cell[job[t].on]
    BY <1>1, CallOn
  <1>3. Handed' /\ handles' \subseteq Handle
    BY <1>1, <1>2, HandOutHanded
  <1>4. CallsOK' /\ CallsApart'
    BY <1>1, ReturnCalls
  <1>5. job' \in [Threads -> Jobs]
    BY <1>1, ReturnJob DEF Inv
  <1>6. TypeOK'
    BY <1>1, <1>3, <1>5 DEF Inv, TypeOK
  <1>7. FallbackOnlyForeign'
    BY <1>1 DEF Inv, ProviderInv, FallbackOnlyForeign
  <1> QED BY <1>1, <1>3, <1>4, <1>6, <1>7, SameProviders DEF Inv, ProviderInv

\* A resolution that hands out a file system, or fails to initialise one,
\* keeps the answers honest.
LEMMA ResolvedAnswer ==
    ASSUME Inv, NEW t \in Threads, job[t].call = "resolve",
           \/ UNCHANGED resolution
           \/ resolution' = [resolution EXCEPT ![t].failure = "InitializationFailed"]
    PROVE  /\ resolution' \in [Threads -> Resolution] /\ FallbackOnlyForeign'
           /\ \A u \in Threads \ {t} : resolution'[u] = resolution[u]
  <1>1. resolution \in [Threads -> Resolution] /\ FallbackOnlyForeign
    BY DEF Inv, ProviderInv, TypeOK
  <1>2. CASE UNCHANGED resolution
    BY <1>1, <1>2 DEF FallbackOnlyForeign
  <1>3. CASE resolution' = [resolution EXCEPT ![t].failure = "InitializationFailed"]
    <2>1. resolution[t] = [file |-> TRUE, sound |-> TRUE, failure |-> "None"]
      BY DEF Inv, ProviderInv, CallsOK, CallOK
    <2>2. resolution[t].file = TRUE /\ resolution[t].sound = TRUE
      BY <2>1
    <2>3. /\ resolution' \in [Threads -> Resolution]
          /\ resolution'[t].failure = "InitializationFailed"
          /\ resolution'[t].file = resolution[t].file
          /\ resolution'[t].sound = resolution[t].sound
          /\ \A u \in Threads \ {t} : resolution'[u] = resolution[u]
      BY <1>1, <1>3 DEF Resolution, Failures
    <2>4. FallbackOnlyForeign'
      BY <1>1, <2>2, <2>3 DEF FallbackOnlyForeign
    <2> QED BY <2>3, <2>4
  <1> QED BY <1>2, <1>3

\* Resolving against a host provider preserves the invariant.
LEMMA ResolveHostInv ==
    ASSUME Inv, NEW t \in Threads, ResolveHost(t)
    PROVE  Inv'
  <1>1. /\ job[t].call = "resolve" /\ job[t].got # None /\ Return(t)
        /\ UNCHANGED <<family, retained, cell, allocated, root>>
        /\ \/ HandOut(job[t].on, job[t].got, None) /\ UNCHANGED resolution
           \/ /\ resolution' = [resolution EXCEPT ![t].failure = "InitializationFailed"]
              /\ UNCHANGED handles
    BY DEF ResolveHost, InitializationFails
  <1>2. /\ job[t].on \in Providers /\ Exists(job[t].on)
        /\ job[t].got \in Controls /\ job[t].got = cell[job[t].on]
    BY <1>1, CallOn
  <1>3. Handed' /\ handles' \subseteq Handle
    <2>1. CASE HandOut(job[t].on, job[t].got, None)
      BY <1>1, <1>2, <2>1, HandOutHanded
    <2>2. CASE UNCHANGED handles
      BY <1>1, <2>2, SameProviders DEF Inv, TypeOK
    <2> QED BY <1>1, <2>1, <2>2
  <1>4. /\ resolution' \in [Threads -> Resolution] /\ FallbackOnlyForeign'
        /\ \A u \in Threads \ {t} : resolution'[u] = resolution[u]
    BY <1>1, ResolvedAnswer
  <1>5. CallsOK' /\ CallsApart'
    BY <1>1, <1>4, ReturnCalls
  <1>6. job' \in [Threads -> Jobs]
    BY <1>1, ReturnJob DEF Inv
  <1>7. TypeOK'
    BY <1>1, <1>3, <1>4, <1>6 DEF Inv, TypeOK
  <1> QED BY <1>1, <1>3, <1>4, <1>5, <1>7, SameProviders DEF Inv, ProviderInv

\* Resolving against a rooted provider preserves the invariant: what it
\* retains was built around the control in its cell.
LEMMA ResolveRootedInv ==
    ASSUME Inv, NEW t \in Threads, ResolveRooted(t)
    PROVE  Inv'
  <1> DEFINE p == job[t].on
  <1>1. /\ job[t].call = "resolve" /\ ~IsHost(p) /\ Return(t)
        /\ UNCHANGED <<family, retained, cell, allocated, root>>
        /\ \/ HandOut(p, retained[p].control, retained[p].dir) /\ UNCHANGED resolution
           \/ /\ resolution' = [resolution EXCEPT ![t].failure = "InitializationFailed"]
              /\ UNCHANGED handles
    BY DEF ResolveRooted, InitializationFails, ResolvedDir
  <1>2. p \in Providers /\ Exists(p)
    BY <1>1, CallOn
  <1> HIDE DEF p
  <1>3. /\ retained[p].control \in Controls /\ retained[p].control = cell[p]
        /\ retained[p].dir \in Dirs
    BY <1>1, <1>2 DEF Inv, ProviderInv, Cells, IsHost, TypeOK, FileSystem
  <1>4. Handed' /\ handles' \subseteq Handle
    <2>1. CASE HandOut(p, retained[p].control, retained[p].dir)
      BY <1>1, <1>2, <1>3, <2>1, HandOutHanded
    <2>2. CASE UNCHANGED handles
      BY <1>1, <2>2, SameProviders DEF Inv, TypeOK
    <2> QED BY <1>1, <2>1, <2>2
  <1>5. /\ resolution' \in [Threads -> Resolution] /\ FallbackOnlyForeign'
        /\ \A u \in Threads \ {t} : resolution'[u] = resolution[u]
    BY <1>1, ResolvedAnswer
  <1>6. CallsOK' /\ CallsApart'
    BY <1>1, <1>5, ReturnCalls
  <1>7. job' \in [Threads -> Jobs]
    BY <1>1, ReturnJob DEF Inv
  <1>8. TypeOK'
    BY <1>1, <1>4, <1>5, <1>7 DEF Inv, TypeOK
  <1> QED BY <1>1, <1>4, <1>5, <1>6, <1>8, SameProviders DEF Inv, ProviderInv

\* A finished clone joins the family of its original with the same control
\* and the same retained file system.
LEMMA FinishCloneInv ==
    ASSUME Inv, NEW t \in Threads, FinishClone(t)
    PROVE  Inv'
  <1> DEFINE p == job[t].on
             q == job[t].new
             c == job[t].got
  <1>1. /\ job[t].call = "clone" /\ c # None /\ Return(t)
        /\ family' = [family EXCEPT ![q] = family[p]]
        /\ retained' = [retained EXCEPT ![q] = retained[p]]
        /\ cell' = [cell EXCEPT ![q] = c]
        /\ UNCHANGED <<allocated, root, resolution, handles>>
    BY DEF FinishClone, ClonedCell
  <1>2. /\ p \in Providers /\ Exists(p) /\ family[p] \in Providers
        /\ family[family[p]] = family[p]
        /\ c \in Controls /\ c = cell[p] /\ c = cell[family[p]]
    BY <1>1, CallOn
  <1>3. q \in Providers /\ ~Exists(q)
    BY <1>1 DEF Inv, ProviderInv, CallsOK, CallOK
  <1>4. \A u \in Threads \ {t} : job[u].new # q
    BY <1>3 DEF Inv, ProviderInv, CallsApart
  <1> HIDE DEF p, q, c
  <1>5. /\ family' \in [Providers -> Providers \cup {None}]
        /\ retained' \in [Providers -> FileSystem \cup {None}]
        /\ cell' \in [Providers -> Controls \cup {Busy, None}]
        /\ \A r \in Providers : /\ family'[r] = IF r = q THEN family[p] ELSE family[r]
                                /\ cell'[r] = IF r = q THEN c ELSE cell[r]
                                /\ retained'[r] = IF r = q THEN retained[p] ELSE retained[r]
    BY <1>1, <1>2, <1>3 DEF Inv, TypeOK
  <1>6. /\ p # q /\ family[p] # q /\ \A r \in Providers : family[r] # q
        /\ \A h \in handles : h.family # q
    BY <1>2, <1>3, FreshName
  <1>7. Families'
    <2>1. Families /\ family \in [Providers -> Providers \cup {None}]
      BY DEF Inv, ProviderInv, TypeOK
    <2>2. retained[p] = retained[family[p]]
      BY <1>2, <2>1 DEF Families
    <2> QED BY <1>2, <1>5, <1>6, <2>1, <2>2 DEF Families, Exists
  <1>8. Cells'
    <2>1. Cells
      BY DEF Inv, ProviderInv
    <2>2. \A r \in Providers : /\ cell'[r] \in Controls => cell'[r] \in allocated'
                               /\ ~IsHost(r)' => retained'[r].control = cell'[r]
      <3> SUFFICES ASSUME NEW r \in Providers
                   PROVE  /\ cell'[r] \in Controls => cell'[r] \in allocated
                          /\ retained'[r] # None => retained'[r].control = cell'[r]
        BY <1>1 DEF IsHost
      <3>1. CASE r # q
        BY <1>5, <2>1, <3>1 DEF Cells, IsHost
      <3>2. CASE r = q
        <4>1. cell'[r] = cell[p] /\ retained'[r] = retained[p]
          BY <1>2, <1>5, <3>2
        <4> QED BY <1>2, <2>1, <4>1 DEF Cells, IsHost
      <3> QED BY <3>1, <3>2
    <2>3. family'[q] # q
      BY <1>3, <1>5, <1>6
    <2> QED BY <1>5, <2>1, <2>2, <2>3 DEF Cells
  <1>9. Handed'
    BY <1>1, <1>5, <1>6 DEF Inv, ProviderInv, Handed, TypeOK, Handle, IsHost
  <1>10. CallsOK' /\ CallsApart'
    <2>1. \A r \in Providers : Exists(r) => family'[r] = family[r] /\ cell'[r] = cell[r]
      BY <1>3, <1>5
    <2>2. \A u \in Threads \ {t} : job[u].new \in Providers =>
                                    family'[job[u].new] = family[job[u].new]
      BY <1>4, <1>5
    <2> QED BY <1>1, <2>1, <2>2, ReturnCalls
  <1>11. job' \in [Threads -> Jobs]
    BY <1>1, ReturnJob DEF Inv
  <1>12. TypeOK'
    BY <1>1, <1>5, <1>11 DEF Inv, TypeOK
  <1>13. FallbackOnlyForeign'
    BY <1>1 DEF Inv, ProviderInv, FallbackOnlyForeign
  <1> QED BY <1>7, <1>8, <1>9, <1>10, <1>12, <1>13 DEF Inv, ProviderInv

\* A change at the root path, or no change at all, preserves the invariant.
LEMMA ChangeRootInv ==
    ASSUME Inv, root' \in Dirs \cup {None},
           UNCHANGED <<family, retained, cell, allocated, job, resolution, handles>>
    PROVE  Inv'
  <1>1. TypeOK'
    BY DEF Inv, TypeOK
  <1>2. CallsOK' /\ CallsApart' /\ FallbackOnlyForeign'
    BY DEF Inv, ProviderInv, CallsOK, CallOK, CallsApart, FallbackOnlyForeign, Exists
  <1> QED BY <1>1, <1>2, SameProviders DEF Inv, ProviderInv

\* The invariant holds initially.
LEMMA InitInv == Init => Inv
  <1> SUFFICES ASSUME Init PROVE Inv
    OBVIOUS
  <1>1. /\ \A t \in Threads : job[t] = Idle
        /\ \A t \in Threads :
              resolution[t] = [file |-> TRUE, sound |-> TRUE, failure |-> "None"]
    BY DEF Init
  <1>2. TypeOK
    <2>1. Idle \in Jobs
      BY DEF Idle, Jobs
    <2> QED BY <2>1, SoundResolution DEF Init, TypeOK
  <1>3. Families /\ Cells /\ Handed
    BY DEF Init, Families, Cells, Handed, Exists, IsHost
  <1>4. CallsOK /\ CallsApart
    BY <1>1, IdleJob DEF CallsOK, CallOK, CallsApart
  <1>5. FallbackOnlyForeign
    BY <1>1, SoundResolution DEF FallbackOnlyForeign
  <1> QED BY <1>2, <1>3, <1>4, <1>5 DEF Inv, ProviderInv

(***************************************************************************)
(* The theorems.                                                           *)
(***************************************************************************)

\* Every step keeps the types and the inductive invariant.
LEMMA StepInv ==
    ASSUME Inv, [Next]_vars
    PROVE  Inv'
  <1>1. CASE \E p \in Providers : NewHost(p) \/ NewRooted(p)
    BY <1>1, NewHostInv, NewRootedInv
  <1>2. CASE \E t \in Threads : Begin(t)
    BY <1>2, StartControlInv, StartCloneInv, StartResolveInv DEF Begin
  <1>3. CASE \E t \in Threads : Proceed(t)
    BY <1>3, ReadCellInv, ClaimCellInv, FillCellInv, ReturnControlInv, FinishCloneInv,
       ResolveHostInv, ResolveRootedInv DEF Proceed
  <1>4. CASE \E d \in Dirs \cup {None} : ChangeRoot(d)
    BY <1>4, ChangeRootInv DEF ChangeRoot
  <1>5. CASE UNCHANGED vars
    BY <1>5, ChangeRootInv DEF vars, Inv, TypeOK
  <1> QED BY <1>1, <1>2, <1>3, <1>4, <1>5 DEF Next

\* Every interleaving of the calls of all threads, of the construction of
\* providers and of changes at the root path keeps the types and the
\* inductive invariant.
THEOREM ProviderCorrect == Spec => []Inv
  <1>1. Inv /\ [Next]_vars => Inv'
    BY StepInv
  <1> QED BY <1>1, InitInv, PTL DEF Spec

\* Every variable keeps its type.
THEOREM TypeCorrect == Spec => []TypeOK
  <1>1. Inv => TypeOK
    BY DEF Inv
  <1> QED BY <1>1, ProviderCorrect, PTL

\* What a family has, in a cell, a handle, a call or a retained file system,
\* is the control in the cell of the provider it was built as.
LEMMA FamilyControl ==
    ASSUME Inv, NEW f \in Providers, NEW c \in ControlsOf(f)
    PROVE  family[f] = f /\ cell[f] = c /\ c \in Controls
  <1>1. ASSUME NEW p \in Providers, family[p] = f, cell[p] \in Controls
        PROVE  family[f] = f /\ cell[f] = cell[p]
    BY <1>1 DEF Inv, ProviderInv, Families, Exists
  <1>2. CASE c \in {cell[p] : p \in {q \in Providers : family[q] = f}} \cap Controls
    BY <1>1, <1>2
  <1>3. CASE c \in {h.control : h \in {g \in handles : g.family = f}}
    BY <1>3 DEF Inv, ProviderInv, Handed, TypeOK, Handle
  <1>4. CASE c \in {job[t].got : t \in {u \in Threads : job[u].on # None
                                                   /\ family[job[u].on] = f}} \ {None}
    <2>1. PICK t \in Threads : job[t].on # None /\ family[job[t].on] = f /\ c = job[t].got
      BY <1>4
    <2>2. job[t].call # "idle"
      BY <2>1, IdleJob DEF Inv, ProviderInv, CallsOK, CallOK
    <2> QED BY <1>4, <2>1, <2>2, CallOn
  <1>5. CASE c \in {retained[p].control : p \in {q \in Providers : family[q] = f /\ ~IsHost(q)}}
    <2>1. PICK p \in Providers : family[p] = f /\ ~IsHost(p) /\ c = retained[p].control
      BY <1>5
    <2>2. c = cell[p] /\ c \in Controls
      BY <2>1 DEF Inv, ProviderInv, Cells, IsHost, TypeOK, FileSystem
    <2> QED BY <1>1, <2>1, <2>2
  <1> QED BY <1>2, <1>3, <1>4, <1>5 DEF ControlsOf

\* For any number of threads and clones, a family has one control and no two
\* families share one, however the first uses race.
THEOREM OneControlCorrect == Spec => []OneControl
  <1>1. Inv => OneControl
    <2> SUFFICES ASSUME Inv, NEW f \in Providers, NEW g \in Providers,
                        NEW c \in ControlsOf(f), NEW d \in ControlsOf(g)
                 PROVE  c = d <=> f = g
      BY DEF OneControl
    <2>1. /\ family[f] = f /\ cell[f] = c /\ c \in Controls
          /\ family[g] = g /\ cell[g] = d
      BY FamilyControl
    <2> QED BY <2>1 DEF Inv, ProviderInv, Cells
  <1> QED BY <1>1, ProviderCorrect, PTL

\* A rooted family resolves against the directory opened when it was built,
\* whatever other programs do at the root path.
THEOREM RootCorrect == Spec => []RootKept
  <1>1. Inv => RootKept
    <2> SUFFICES ASSUME Inv, NEW p \in Providers, NEW h \in handles,
                        Exists(p), h.family = family[p], h.dir # None
                 PROVE  ~IsHost(p) /\ h.dir = retained[p].dir
      BY DEF RootKept
    <2>1. retained[p] = retained[h.family]
      BY DEF Inv, ProviderInv, Families
    <2> QED BY <2>1 DEF Inv, ProviderInv, Handed, IsHost
  <1> QED BY <1>1, ProviderCorrect, PTL

\* A registry falls back to another provider only for another scheme, and a
\* sound file: request is refused only by the native engine.
THEOREM FallbackCorrect == Spec => []FallbackOnlyForeign
  <1>1. Inv => FallbackOnlyForeign
    BY DEF Inv, ProviderInv
  <1> QED BY <1>1, ProviderCorrect, PTL

(***************************************************************************)
(* The composition with temporary directories.                             *)
(***************************************************************************)

\* A family keeps the control it has, and one that gets a control gets a new
\* one.
ControlsLast ==
    /\ allocated \subseteq allocated'
    /\ \A f \in Providers :
          /\ family[f] = f => family'[f] = f /\ (cell[f] \in Controls => cell'[f] = cell[f])
          /\ family'[f] = f /\ cell'[f] \in Controls =>
                \/ family[f] = f /\ cell[f] \in Controls
                \/ cell'[f] \notin allocated

\* So does every step of the registry.
LEMMA RegistryStep ==
    ASSUME Inv, [Next]_vars
    PROVE  ControlsLast
  <1> USE DEF ControlsLast
  <1>1. TypeOK /\ Families /\ CallsOK
    BY DEF Inv, ProviderInv
  <1>2. CASE UNCHANGED <<family, cell, allocated>>
    BY <1>2
  <1>3. ASSUME NEW p \in Providers, NewHost(p) PROVE ControlsLast
    <2>1. /\ family[p] = None /\ cell[p] = None
          /\ family' = [family EXCEPT ![p] = p] /\ UNCHANGED <<cell, allocated>>
      BY <1>1, <1>3 DEF NewHost, Free, Families, Exists
    <2>2. \A f \in Providers : family'[f] = IF f = p THEN p ELSE family[f]
      BY <1>1, <2>1 DEF TypeOK
    <2> QED BY <2>1, <2>2, ConstantsAssumption
  <1>4. ASSUME NEW p \in Providers, NewRooted(p) PROVE ControlsLast
    <2>1. PICK c \in Controls \ allocated :
             cell' = [cell EXCEPT ![p] = c] /\ allocated' = allocated \cup {c}
      BY <1>4 DEF NewRooted
    <2>2. family[p] = None /\ family' = [family EXCEPT ![p] = p]
      BY <1>4 DEF NewRooted, Free, Exists
    <2>3. \A f \in Providers : /\ family'[f] = IF f = p THEN p ELSE family[f]
                               /\ cell'[f] = IF f = p THEN c ELSE cell[f]
      BY <1>1, <2>1, <2>2 DEF TypeOK
    <2> QED BY <2>1, <2>2, <2>3, ConstantsAssumption
  <1>5. ASSUME NEW t \in Threads, ClaimCell(t) PROVE ControlsLast
    <2> DEFINE p == job[t].on
    <2>1. /\ cell[p] = None /\ cell' = [cell EXCEPT ![p] = Busy]
          /\ UNCHANGED <<family, allocated>>
      BY <1>5 DEF ClaimCell, MayInitialise
    <2>2. \A f \in Providers : cell'[f] = IF f = p THEN Busy ELSE cell[f]
      BY <1>1, <2>1 DEF TypeOK
    <2> HIDE DEF p
    <2> QED BY <2>1, <2>2, ConstantsAssumption
  <1>6. ASSUME NEW t \in Threads, FillCell(t) PROVE ControlsLast
    <2> DEFINE p == job[t].on
    <2>1. cell[p] = Busy /\ family' = family
      BY <1>1, <1>6 DEF FillCell, CallsOK, CallOK
    <2>2. PICK c \in Controls \ allocated :
             cell' = [cell EXCEPT ![p] = c] /\ allocated' = allocated \cup {c}
      BY <1>6 DEF FillCell, Initialised
    <2> HIDE DEF p
    <2>3. \A f \in Providers : cell'[f] = IF f = p THEN c ELSE cell[f]
      BY <1>1, <2>2 DEF TypeOK
    <2> QED BY <2>1, <2>2, <2>3, ConstantsAssumption
  <1>7. ASSUME NEW t \in Threads, FinishClone(t) PROVE ControlsLast
    <2> DEFINE p == job[t].on
               q == job[t].new
    <2>1. /\ p \in Providers /\ Exists(p) /\ q \in Providers /\ family[q] = None
          /\ family' = [family EXCEPT ![q] = family[p]]
          /\ cell' = [cell EXCEPT ![q] = ClonedCell(t)] /\ allocated' = allocated
      BY <1>1, <1>7 DEF FinishClone, CallsOK, CallOK, Exists
    <2> HIDE DEF p, q
    <2>2. family[p] # q
      BY <1>1, <2>1 DEF Families, Exists
    <2>3. \A f \in Providers : /\ f = q => family'[f] = family[p]
                               /\ f # q => family'[f] = family[f] /\ cell'[f] = cell[f]
      BY <1>1, <2>1 DEF TypeOK
    <2> QED BY <2>1, <2>2, <2>3, ConstantsAssumption
  <1>8. CASE \E t \in Threads : Begin(t)
    BY <1>2, <1>8 DEF Begin, StartControl, StartClone, StartResolve
  <1>9. CASE \E t \in Threads : Proceed(t)
    <2>1. PICK t \in Threads : Proceed(t)
      BY <1>9
    <2>2. CASE ReadCell(t) \/ ReturnControl(t) \/ ResolveHost(t) \/ ResolveRooted(t)
      BY <1>2, <2>2 DEF ReadCell, ReturnControl, ResolveHost, ResolveRooted
    <2> QED BY <1>5, <1>6, <1>7, <2>1, <2>2 DEF Proceed
  <1> QED BY <1>2, <1>3, <1>4, <1>8, <1>9 DEF Next, ChangeRoot, vars

\* Every step of the composition is one of the registry, or leaves it alone.
LEMMA ComposedStep ==
    ASSUME [FamilyNext]_familyVars
    PROVE  [Next]_vars
  <1>1. SoundConfig \in Config
    BY DEF SoundConfig, Config
  <1>2. CASE UseRegistry
    <2>1. UseRegistry => Next
      BY <1>1 DEF UseRegistry, Next, Begin
    <2> QED BY <1>2, <2>1
  <1>3. CASE ~UseRegistry
    BY <1>3 DEF FamilyNext, SetLimits, Create, BeginRemoval, Continue, familyVars
  <1> QED BY <1>2, <1>3

\* What a handle of a family holds is what that family is set to.
LEMMA HandleSetting ==
    ASSUME Inv, SharedTypeOK, Settings, NEW h \in handles
    PROVE  /\ h.family \in Providers /\ family[h.family] = h.family
           /\ h.control \in Controls /\ h.control = cell[h.family] /\ h.control \in allocated
           /\ setting[h.family] = limits[h.control]
  <1>1. h \in Handle /\ Handed /\ Cells
    BY DEF Inv, TypeOK, ProviderInv
  <1>2. h.family \in Providers /\ h.control \in Controls
    BY <1>1 DEF Handle
  <1>3. family[h.family] = h.family /\ cell[h.family] = h.control
    BY <1>1 DEF Handed
  <1>4. h.control \in allocated
    BY <1>1, <1>2, <1>3 DEF Cells
  <1> QED BY <1>2, <1>3, <1>4 DEF Settings

\* Calls of the registry change no limit, and no family's control.
LEMMA UseRegistryInv ==
    ASSUME Inv, FamilyInv, UseRegistry
    PROVE  FamilyInv'
  <1>1. ControlsLast
    <2>1. [FamilyNext]_familyVars
      BY DEF FamilyNext
    <2> QED BY <2>1, ComposedStep, RegistryStep
  <1>2. UNCHANGED <<limits, pc, kind, control, slot, cap, setting, member, inForce>>
    BY DEF UseRegistry, temp
  <1>3. SharedTypeOK'
    BY <1>2 DEF FamilyInv, SharedTypeOK
  <1>4. Settings'
    <2>1. \A f \in Providers :
             setting[f] = IF family'[f] = f /\ cell'[f] \in Controls
                          THEN limits[cell'[f]] ELSE Unbounded
      BY <1>1 DEF FamilyInv, Settings, ControlsLast
    <2>2. \A c \in Controls \ allocated' : limits[c] = Unbounded
      BY <1>1 DEF FamilyInv, Settings, ControlsLast
    <2> QED BY <1>2, <2>1, <2>2 DEF Settings
  <1>5. Members'
    BY <1>1, <1>2 DEF FamilyInv, Members, Member, ControlsLast
  <1>6. FamilyLimits'
    BY <1>2 DEF FamilyInv, FamilyLimits
  <1> QED BY <1>3, <1>4, <1>5, <1>6 DEF FamilyInv

\* Limits set through a handle reach its family and no other.
LEMMA SetLimitsInv ==
    ASSUME Inv, FamilyInv, NEW h \in handles, NEW l \in Temp!Limits, SetLimits(h, l)
    PROVE  FamilyInv'
  <1>1. /\ limits' = [limits EXCEPT ![h.control] = l]
        /\ setting' = [setting EXCEPT ![h.family] = l]
        /\ inForce' = [r \in Resources |->
              IF member[r] = h.family /\ pc[r] \in Temp!Calls THEN inForce[r] \cup {l} ELSE inForce[r]]
        /\ UNCHANGED <<pc, kind, control, slot, cap, member, family, cell, allocated>>
    BY DEF SetLimits, Temp!SetLimits, Temp!adapterVars, vars
  <1>2. SharedTypeOK /\ Settings /\ Members /\ FamilyLimits
    BY DEF FamilyInv
  <1>3. /\ h.family \in Providers /\ family[h.family] = h.family
        /\ h.control \in Controls /\ h.control = cell[h.family] /\ h.control \in allocated
    BY <1>2, HandleSetting
  <1>4. \A r \in Resources : inForce[r] \subseteq inForce'[r] /\ inForce'[r] \in SUBSET Temp!Limits
    BY <1>1, <1>2 DEF SharedTypeOK
  <1>5. SharedTypeOK'
    BY <1>1, <1>2, <1>4 DEF SharedTypeOK
  <1>6. Settings'
    <2>1. \A f \in Providers \ {h.family} :
             family[f] = f /\ cell[f] \in Controls => cell[f] # h.control
      BY <1>3 DEF Inv, ProviderInv, Cells
    <2>2. /\ \A c \in Controls : limits'[c] = IF c = h.control THEN l ELSE limits[c]
          /\ \A f \in Providers : setting'[f] = IF f = h.family THEN l ELSE setting[f]
      BY <1>1, <1>2 DEF SharedTypeOK
    <2> QED BY <1>1, <1>2, <1>3, <2>1, <2>2 DEF Settings
  <1>7. Members'
    BY <1>1, <1>2 DEF Members, Member
  <1>8. FamilyLimits'
    BY <1>1, <1>2, <1>4 DEF FamilyLimits
  <1> QED BY <1>5, <1>6, <1>7, <1>8 DEF FamilyInv

\* A directory is made under the limits of the family it is made in.
LEMMA CreateInv ==
    ASSUME Inv, FamilyInv, NEW r \in Resources, NEW h \in handles, Create(r, h)
    PROVE  FamilyInv'
  <1>1. /\ pc[r] = "unborn"
        /\ pc' = [pc EXCEPT ![r] = "creating"]
        /\ kind' = [kind EXCEPT ![r] = "directory"]
        /\ control' = [control EXCEPT ![r] = h.control]
        /\ cap' = [cap EXCEPT ![r] = Temp!CurrentLimit(h.control)]
        /\ member' = [member EXCEPT ![r] = h.family]
        /\ inForce' = [inForce EXCEPT ![r] = {setting[h.family]}]
        /\ UNCHANGED <<limits, slot, setting, family, cell, allocated>>
    BY DEF Create, Temp!BeginCreate, vars
  <1>2. SharedTypeOK /\ Settings /\ Members /\ FamilyLimits
    BY DEF FamilyInv
  <1>3. /\ h.family \in Providers /\ family[h.family] = h.family
        /\ h.control \in Controls /\ h.control = cell[h.family]
        /\ setting[h.family] = limits[h.control]
    BY <1>2, HandleSetting
  <1>4. Temp!CurrentLimit(h.control) = setting[h.family] /\ setting[h.family] \in Temp!Limits
    BY <1>2, <1>3, FamilyAssumption DEF Temp!CurrentLimit, SharedTypeOK
  <1>5. /\ \A q \in Resources \ {r} :
              /\ pc'[q] = pc[q] /\ kind'[q] = kind[q] /\ control'[q] = control[q]
              /\ cap'[q] = cap[q] /\ member'[q] = member[q] /\ inForce'[q] = inForce[q]
        /\ pc'[r] = "creating" /\ kind'[r] = "directory" /\ control'[r] = h.control
        /\ cap'[r] = setting[h.family] /\ member'[r] = h.family
        /\ inForce'[r] = {setting[h.family]}
    BY <1>1, <1>2, <1>4 DEF SharedTypeOK
  <1>6. SharedTypeOK'
    <2>1. "creating" \in Temp!Calls
      BY DEF Temp!Calls
    <2> QED BY <1>1, <1>2, <1>3, <1>4, <2>1 DEF SharedTypeOK
  <1>7. Settings'
    BY <1>1, <1>2 DEF Settings
  <1>8. Members'
    BY <1>1, <1>2, <1>3, <1>5 DEF Members, Member
  <1>9. FamilyLimits'
    BY <1>1, <1>2, <1>5 DEF FamilyLimits
  <1> QED BY <1>6, <1>7, <1>8, <1>9 DEF FamilyInv

\* A cleanup, or the drop of a directory, reads the limits of its family.
LEMMA BeginRemovalInv ==
    ASSUME Inv, FamilyInv, NEW r \in Resources, BeginRemoval(r)
    PROVE  FamilyInv'
  <1>1. /\ pc[r] = "idle"
        /\ \E call \in {"idle", "cleanup", "drop"} : pc' = [pc EXCEPT ![r] = call]
        /\ cap' = [cap EXCEPT ![r] = Temp!RefreshedCap(r)]
        /\ inForce' = [inForce EXCEPT ![r] = {setting[member[r]]}]
        /\ UNCHANGED <<limits, kind, control, slot, setting, member, family, cell, allocated>>
    <2>1. Temp!BeginCleanup(r) \/ Temp!BeginDrop(r)
      BY DEF BeginRemoval
    <2>2. pc[r] = "idle" /\ UNCHANGED <<limits, kind, control, slot>>
      BY <2>1 DEF Temp!BeginCleanup, Temp!BeginDrop
    <2>3. pc' = pc \/ pc' = [pc EXCEPT ![r] = "cleanup"] \/ pc' = [pc EXCEPT ![r] = "drop"]
      BY <2>1 DEF Temp!BeginCleanup, Temp!BeginDrop, Temp!Enter
    <2>4. cap' = [cap EXCEPT ![r] = Temp!RefreshedCap(r)]
      BY <2>1 DEF Temp!BeginCleanup, Temp!BeginDrop
    <2>5. pc = [pc EXCEPT ![r] = "idle"]
      BY <2>2 DEF FamilyInv, SharedTypeOK
    <2> QED BY <2>2, <2>3, <2>4, <2>5 DEF BeginRemoval, Begins, vars
  <1>2. SharedTypeOK /\ Settings /\ Members /\ FamilyLimits
    BY DEF FamilyInv
  <1>3. /\ kind[r] = "directory" /\ member[r] \in Providers /\ control[r] \in Controls
        /\ setting[member[r]] = limits[control[r]] /\ setting[member[r]] \in Temp!Limits
    BY <1>1, <1>2 DEF Members, Member, Settings, SharedTypeOK
  <1>4. /\ slot[r] => Temp!RefreshedCap(r) = setting[member[r]]
        /\ Temp!RefreshedCap(r) \in Temp!Limits
    BY <1>2, <1>3, FamilyAssumption DEF Temp!RefreshedCap, SharedTypeOK
  <1>5. /\ \A q \in Resources \ {r} :
              pc'[q] = pc[q] /\ cap'[q] = cap[q] /\ inForce'[q] = inForce[q]
        /\ pc'[r] \in {"idle", "cleanup", "drop"}
        /\ cap'[r] = Temp!RefreshedCap(r) /\ inForce'[r] = {setting[member[r]]}
    BY <1>1, <1>2 DEF SharedTypeOK
  <1>6. SharedTypeOK'
    <2>1. {"idle", "cleanup", "drop"} \subseteq Temp!Calls \cup {"unborn", "idle", "dropped"}
      BY DEF Temp!Calls
    <2> QED BY <1>1, <1>2, <1>3, <1>4, <2>1 DEF SharedTypeOK
  <1>7. Settings'
    BY <1>1, <1>2 DEF Settings
  <1>8. Members'
    BY <1>1, <1>2, <1>5 DEF Members, Member
  <1>9. FamilyLimits'
    BY <1>1, <1>2, <1>4, <1>5 DEF FamilyLimits
  <1> QED BY <1>6, <1>7, <1>8, <1>9 DEF FamilyInv

\* The rest of a call goes on under the limits it has read.
LEMMA ContinueInv ==
    ASSUME Inv, FamilyInv, NEW r \in Resources, Continue(r)
    PROVE  FamilyInv'
  <1>1. SharedTypeOK /\ Settings /\ Members /\ FamilyLimits
    BY DEF FamilyInv
  <1>2. UNCHANGED <<limits, kind, control, cap, setting, member, inForce, family, cell, allocated>>
    <2>1. UNCHANGED <<limits, kind, control, cap>>
      BY DEF Continue, Temp!CreateReturns, Temp!EndCleanup, Temp!EndDrop
    <2> QED BY <2>1 DEF Continue, vars
  <1>3. /\ pc[r] # "unborn"
        /\ slot' \in [Resources -> BOOLEAN]
        /\ \A q \in Resources \ {r} : slot'[q] = slot[q]
        /\ pc' \in [Resources -> Temp!Calls \cup {"unborn", "idle", "dropped"}]
        /\ \A q \in Resources \ {r} : pc'[q] = pc[q]
        /\ \/ pc[r] = "creating" /\ pc'[r] = "abandoning"
           \/ pc'[r] \in {"idle", "dropped"}
    <2>1. CASE \E mappable \in BOOLEAN : Temp!CreateReturns(r, mappable)
      <3>1. PICK mappable \in BOOLEAN : Temp!CreateReturns(r, mappable)
        BY <2>1
      <3>2. "abandoning" \in Temp!Calls
        BY DEF Temp!Calls
      <3> QED BY <1>1, <3>1, <3>2 DEF Temp!CreateReturns, SharedTypeOK
    <2>2. CASE Temp!EndCleanup(r)
      BY <1>1, <2>2 DEF Temp!EndCleanup, SharedTypeOK
    <2>3. CASE Temp!EndDrop(r)
      BY <1>1, <2>3 DEF Temp!EndDrop, SharedTypeOK
    <2> QED BY <2>1, <2>2, <2>3 DEF Continue
  <1>4. SharedTypeOK'
    BY <1>1, <1>2, <1>3 DEF SharedTypeOK
  <1>5. Settings'
    BY <1>1, <1>2 DEF Settings
  <1>6. Members'
    BY <1>1, <1>2, <1>3 DEF Members, Member
  <1>7. FamilyLimits'
    BY <1>1, <1>2, <1>3 DEF FamilyLimits
  <1> QED BY <1>4, <1>5, <1>6, <1>7 DEF FamilyInv

\* The inductive invariants of the registry and of the directories hold
\* together in the composition.
THEOREM FamilyCorrect == FamilySpec => [](Inv /\ FamilyInv)
  <1>1. FamilyInit => Inv /\ FamilyInv
    <2> SUFFICES ASSUME FamilyInit PROVE Inv /\ FamilyInv
      OBVIOUS
    <2>1. Inv
      BY InitInv DEF FamilyInit
    <2>2. SharedTypeOK
      BY DEF FamilyInit, Temp!Init, SharedTypeOK, Temp!Limits
    <2>3. Settings /\ Members /\ FamilyLimits
      BY ConstantsAssumption DEF FamilyInit, Init, Temp!Init, Settings, Members, Member, FamilyLimits
    <2> QED BY <2>1, <2>2, <2>3 DEF FamilyInv
  <1>2. (Inv /\ FamilyInv) /\ [FamilyNext]_familyVars => (Inv /\ FamilyInv)'
    <2> SUFFICES ASSUME Inv, FamilyInv, [FamilyNext]_familyVars PROVE Inv' /\ FamilyInv'
      OBVIOUS
    <2>1. Inv'
      BY ComposedStep, StepInv
    <2>2. CASE UseRegistry
      BY <2>1, <2>2, UseRegistryInv
    <2>3. CASE \E h \in handles, l \in Budgets \cup {Unbounded} : SetLimits(h, l)
      BY <2>1, <2>3, SetLimitsInv DEF Temp!Limits
    <2>4. CASE \E r \in Resources, h \in handles : Create(r, h)
      BY <2>1, <2>4, CreateInv
    <2>5. CASE \E r \in Resources : BeginRemoval(r) \/ Continue(r)
      BY <2>1, <2>5, BeginRemovalInv, ContinueInv
    <2>6. CASE UNCHANGED familyVars
      <3>1. UNCHANGED <<limits, pc, kind, control, slot, cap, setting, member, inForce,
                        family, cell, allocated>>
        BY <2>6 DEF familyVars, temp, vars
      <3>2. SharedTypeOK'
        BY <3>1 DEF FamilyInv, SharedTypeOK
      <3>3. Settings'
        BY <3>1 DEF FamilyInv, Settings
      <3>4. Members'
        BY <3>1 DEF FamilyInv, Members, Member
      <3>5. FamilyLimits'
        BY <3>1 DEF FamilyInv, FamilyLimits
      <3> QED BY <2>1, <3>2, <3>3, <3>4, <3>5 DEF FamilyInv
    <2> QED BY <2>1, <2>2, <2>3, <2>4, <2>5, <2>6 DEF FamilyNext
  <1> QED BY <1>1, <1>2, PTL DEF FamilySpec

\* Whichever clone, file system or control of a family limits are set
\* through, the cleanup and the drop of every directory of that family run
\* under limits that were in force during the call (set_limits, cleanup,
\* Drop::drop, LocalFileSystemProvider::clone).
THEOREM FamilyLimitsCorrect == FamilySpec => []FamilyLimits
  <1>1. FamilyInv => FamilyLimits
    BY DEF FamilyInv
  <1> QED BY <1>1, FamilyCorrect, PTL
=============================================================================
