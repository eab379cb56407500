------------------------------ MODULE Provider ------------------------------
(***************************************************************************)
(* The registry provider, LocalFileSystemProvider.                         *)
(*                                                                         *)
(* Providers are shared between threads: every call takes &self.  A host   *)
(* provider creates its cleanup control lazily in a OnceLock, so that the  *)
(* first uses of several threads race; cloning a provider initialises the  *)
(* control first, so that a family of clones shares one.  A rooted provider*)
(* opens its directory once, when it is built, and hands out clones of the *)
(* file system it retains.                                                 *)
(***************************************************************************)

CONSTANTS
    Threads,     \* the threads of the process
    Providers,   \* the provider instances that may exist
    Controls,    \* the LocalTempCleanupControls that may be allocated
    Dirs,        \* the directories that the root path may name over time
    None,        \* an empty cell, no object, no value
    Busy         \* a cell that a thread is initialising

ASSUME ConstantsAssumption ==
    /\ None \notin Providers \cup Controls \cup Dirs
    /\ Busy \notin Controls \cup {None}

VARIABLES
    family,    \* family[p]: the provider p descends from (itself if built)
    retained,  \* retained[p]: the file system a rooted p retains, or None
    cell,      \* cell[p]: temp_cleanup_control, a OnceLock
    allocated, \* the controls in use
    root,      \* the directory the root path names now
    job,       \* job[t]: the call thread t is in
    resolution,\* resolution[t]: what t last asked to resolve, and the answer
    handles    \* the controls handed out, in file systems or to callers

vars == <<family, retained, cell, allocated, root, job, resolution, handles>>

Exists(p) == family[p] # None
IsHost(p) == retained[p] = None

(***************************************************************************)
(* decode_config                                                           *)
(***************************************************************************)

\* What the checks of a configuration tell apart: whether the scheme is
\* file, the URI can be parsed, options, metadata or a credential are given,
\* an authority or a query is present, and the path decodes and is absolute.
Config == [file : BOOLEAN, parses : BOOLEAN, extras : BOOLEAN, remote : BOOLEAN,
           query : BOOLEAN, decodes : BOOLEAN, absolute : BOOLEAN]

\* Mutant: refuses options before it looks at the scheme.
OptionsFirst(c) ==
    CASE c.extras     -> "InvalidOptions"
      [] ~c.file      -> "Unsupported"
      [] ~c.parses    -> "InvalidUri"
      [] OTHER        -> "None"

\* Mutant: an undecodable path is reported by the codec's own kind.
RawPathFailure(c) == IF c.file /\ ~c.decodes THEN "InvalidEncoding" ELSE "None"

\* The first check that fails decides.
DecodeFailure(c) ==
    CASE ~c.file                         -> "Unsupported"
      [] c.file /\ ~c.parses             -> "InvalidUri"
      [] c.file /\ c.parses /\ (c.extras \/ c.remote \/ c.query) -> "InvalidOptions"
      [] c.file /\ c.parses /\ ~(c.extras \/ c.remote \/ c.query)
            /\ ~(c.decodes /\ c.absolute) -> "InvalidPath"
      [] OTHER                           -> "None"

Failures == {"None", "Unsupported", "InvalidUri", "InvalidOptions", "InvalidPath",
             "InitializationFailed"}

\* A configuration nothing is wrong with.
SoundConfig == [file |-> TRUE, parses |-> TRUE, extras |-> FALSE, remote |-> FALSE,
                query |-> FALSE, decodes |-> TRUE, absolute |-> TRUE]
Resolution == [file : BOOLEAN, sound : BOOLEAN, failure : Failures]

Idle == [call |-> "idle", on |-> None, new |-> None, making |-> FALSE, got |-> None]
Jobs == [call : {"idle", "resolve", "clone", "control"},
         on : Providers \cup {None}, new : Providers \cup {None},
         making : BOOLEAN, got : Controls \cup {None}]

FileSystem == [dir : Dirs, control : Controls]
Handle == [family : Providers, control : Controls, dir : Dirs \cup {None}]

TypeOK ==
    /\ family \in [Providers -> Providers \cup {None}]
    /\ retained \in [Providers -> FileSystem \cup {None}]
    /\ cell \in [Providers -> Controls \cup {Busy, None}]
    /\ allocated \in SUBSET Controls
    /\ root \in Dirs \cup {None}
    /\ job \in [Threads -> Jobs]
    /\ resolution \in [Threads -> Resolution]
    /\ handles \in SUBSET Handle

Start(t, call, p, q) ==
    /\ job[t] = Idle
    /\ job' = [job EXCEPT ![t] = [Idle EXCEPT !.call = call, !.on = p, !.new = q]]

Return(t) == job' = [job EXCEPT ![t] = Idle]

HandOut(p, c, d) == handles' = handles \cup {[family |-> family[p], control |-> c, dir |-> d]}

\* No provider of this name exists, and none is being made.
Free(p) == ~Exists(p) /\ \A t \in Threads : job[t].new # p

(***************************************************************************)
(* Construction.                                                           *)
(***************************************************************************)

\* host: a constant with an empty cell.
NewHost(p) ==
    /\ Free(p)
    /\ family' = [family EXCEPT ![p] = p]
    /\ UNCHANGED <<retained, cell, allocated, root, job, resolution, handles>>

\* rooted_with_descriptor: the control is made first, the directory opened
\* at once, and the file system built around both is retained.
NewRooted(p) ==
    /\ Free(p)
    /\ root # None
    /\ \E c \in Controls \ allocated :
         /\ cell' = [cell EXCEPT ![p] = c]
         /\ allocated' = allocated \cup {c}
         /\ retained' = [retained EXCEPT ![p] = [dir |-> root, control |-> c]]
    /\ family' = [family EXCEPT ![p] = p]
    /\ UNCHANGED <<root, job, resolution, handles>>

(***************************************************************************)
(* temp_cleanup_control: OnceLock::get_or_init.                            *)
(***************************************************************************)

\* The calls that ask for the control; a rooted resolution does not.
WantsControl(t) ==
    /\ job[t].call # "idle" /\ job[t].got = None /\ ~job[t].making
    /\ job[t].call = "resolve" => IsHost(job[t].on)

\* The cell is set: its control is cloned.
ReadCell(t) ==
    /\ WantsControl(t)
    /\ cell[job[t].on] \in Controls
    /\ job' = [job EXCEPT ![t].got = cell[job[t].on]]
    /\ UNCHANGED <<family, retained, cell, allocated, root, resolution, handles>>

\* Mutant: a thread that finds another one initialising does not wait.
NoWaiting(p) == cell[p] \in {None, Busy}

\* A thread may initialise only an empty cell; the others wait for it.
MayInitialise(p) == cell[p] = None

ClaimCell(t) ==
    /\ WantsControl(t)
    /\ MayInitialise(job[t].on)
    /\ cell' = [cell EXCEPT ![job[t].on] = Busy]
    /\ job' = [job EXCEPT ![t].making = TRUE]
    /\ UNCHANGED <<family, retained, allocated, root, resolution, handles>>

\* Mutant: the new control is used but never stored.
NotStored(c) == Busy

\* What the initialising thread leaves in the cell.
Initialised(c) == c

FillCell(t) ==
    /\ job[t].making
    /\ \E c \in Controls \ allocated :
         /\ allocated' = allocated \cup {c}
         /\ cell' = [cell EXCEPT ![job[t].on] = Initialised(c)]
         /\ job' = [job EXCEPT ![t].got = c, ![t].making = FALSE]
    /\ UNCHANGED <<family, retained, root, resolution, handles>>

(***************************************************************************)
(* The calls of a provider.                                                *)
(***************************************************************************)

\* A caller asks for the control, to change its limits.
StartControl(t, p) ==
    /\ Exists(p) /\ Start(t, "control", p, None)
    /\ UNCHANGED <<family, retained, cell, allocated, root, resolution, handles>>

ReturnControl(t) ==
    /\ job[t].call = "control" /\ job[t].got # None
    /\ HandOut(job[t].on, job[t].got, None)
    /\ Return(t)
    /\ UNCHANGED <<family, retained, cell, allocated, root, resolution>>

\* Clone::clone initialises the control of the original first.
StartClone(t, p, q) ==
    /\ Exists(p) /\ Free(q) /\ Start(t, "clone", p, q)
    /\ UNCHANGED <<family, retained, cell, allocated, root, resolution, handles>>

\* Mutant: the clone starts with an empty cell of its own.
EmptyClone(t) == None

\* The cell of a new clone.
ClonedCell(t) == job[t].got

FinishClone(t) ==
    /\ job[t].call = "clone" /\ job[t].got # None
    /\ family' = [family EXCEPT ![job[t].new] = family[job[t].on]]
    /\ retained' = [retained EXCEPT ![job[t].new] = retained[job[t].on]]
    /\ cell' = [cell EXCEPT ![job[t].new] = ClonedCell(t)]
    /\ Return(t)
    /\ UNCHANGED <<allocated, root, resolution, handles>>

\* create_configured decodes the configuration before anything else.
StartResolve(t, p, c) ==
    /\ Exists(p) /\ job[t] = Idle
    /\ resolution' = [resolution EXCEPT ![t] =
          [file |-> c.file, sound |-> c = SoundConfig, failure |-> DecodeFailure(c)]]
    /\ IF DecodeFailure(c) = "None" THEN Start(t, "resolve", p, None) ELSE UNCHANGED job
    /\ UNCHANGED <<family, retained, cell, allocated, root, handles>>

\* The native engine or FileSystemResolution::try_new may refuse.
InitializationFails(t) ==
    /\ resolution' = [resolution EXCEPT ![t].failure = "InitializationFailed"]
    /\ UNCHANGED handles

\* A host provider builds a new file system around the shared control.
ResolveHost(t) ==
    /\ job[t].call = "resolve" /\ job[t].got # None
    /\ \/ HandOut(job[t].on, job[t].got, None) /\ UNCHANGED resolution
       \/ InitializationFails(t)
    /\ Return(t)
    /\ UNCHANGED <<family, retained, cell, allocated, root>>

\* Mutant: opens the root path again.
ReopenedRoot(p) == root

\* The directory a rooted provider resolves against.
ResolvedDir(p) == retained[p].dir

\* A rooted provider hands out a clone of the file system it retains.
ResolveRooted(t) ==
    /\ job[t].call = "resolve" /\ ~IsHost(job[t].on)
    /\ \/ /\ HandOut(job[t].on, retained[job[t].on].control, ResolvedDir(job[t].on))
          /\ UNCHANGED resolution
       \/ InitializationFails(t)
    /\ Return(t)
    /\ UNCHANGED <<family, retained, cell, allocated, root>>

\* Another program removes or replaces the directory at the root path.
ChangeRoot(d) ==
    /\ root' = d
    /\ UNCHANGED <<family, retained, cell, allocated, job, resolution, handles>>

Init ==
    /\ family = [p \in Providers |-> None]
    /\ retained = [p \in Providers |-> None]
    /\ cell = [p \in Providers |-> None]
    /\ allocated = {}
    /\ root \in Dirs \cup {None}
    /\ job = [t \in Threads |-> Idle]
    /\ resolution = [t \in Threads |-> [file |-> TRUE, sound |-> TRUE, failure |-> "None"]]
    /\ handles = {}

\* The steps of a call in progress.
Proceed(t) ==
    \/ ReadCell(t) \/ ClaimCell(t) \/ FillCell(t)
    \/ ReturnControl(t) \/ FinishClone(t) \/ ResolveHost(t) \/ ResolveRooted(t)

Begin(t) ==
    \E p \in Providers :
        \/ StartControl(t, p)
        \/ \E q \in Providers : StartClone(t, p, q)
        \/ \E c \in Config : StartResolve(t, p, c)

Next ==
    \/ \E p \in Providers : NewHost(p) \/ NewRooted(p)
    \/ \E t \in Threads : Begin(t) \/ Proceed(t)
    \/ \E d \in Dirs \cup {None} : ChangeRoot(d)

Spec == Init /\ [][Next]_vars

\* Threads run; nothing says that a thread starts another call.
CallsAdvance == \A t \in Threads : WF_vars(Proceed(t))

(***************************************************************************)
(* Properties.                                                             *)
(***************************************************************************)

\* The controls that a provider, a call in progress, a retained file system
\* or a holder outside of it has for a family f.
ControlsOf(f) ==
    ({cell[p] : p \in {q \in Providers : family[q] = f}} \cap Controls)
    \cup {h.control : h \in {g \in handles : g.family = f}}
    \cup ({job[t].got : t \in {u \in Threads : job[u].on # None /\ family[job[u].on] = f}}
            \ {None})
    \cup {retained[p].control : p \in {q \in Providers : family[q] = f /\ ~IsHost(q)}}

\* However the first uses of a provider and of its clones race, all of them,
\* every file system resolved through them and every caller of
\* temp_cleanup_control share one control, so that a change of limits
\* reaches every session of the family; and no other family has it.
OneControl ==
    \A f, g \in Providers : \A c \in ControlsOf(f), d \in ControlsOf(g) : c = d <=> f = g

\* A rooted provider and its clones keep resolving against the directory
\* opened when the first of them was built, whatever has become of the path.
RootKept ==
    \A p \in Providers, h \in handles :
        (Exists(p) /\ h.family = family[p] /\ h.dir # None) =>
            ~IsHost(p) /\ h.dir = retained[p].dir

\* Only a request for another scheme is reported as unsupported, which lets
\* a registry fall back to the next provider; one for a file: URI, however
\* malformed, is not, and is accepted exactly if nothing is wrong with it.
FallbackOnlyForeign ==
    \A t \in Threads :
        /\ resolution[t].failure = "Unsupported" <=> ~resolution[t].file
        /\ resolution[t].failure \in {"None", "InitializationFailed"} <=> resolution[t].sound

(***************************************************************************)
(* The inductive strengthening of the invariants above.                    *)
(***************************************************************************)

\* A family is known by the provider it was built as; its clones retain the
\* same file system and hold the same control, which is set before the
\* first clone exists.  A provider that does not exist holds nothing.
Families ==
    \A p \in Providers :
        /\ Exists(p) => /\ family[family[p]] = family[p]
                        /\ retained[p] = retained[family[p]]
                        /\ family[p] # p => cell[p] \in Controls /\ cell[p] = cell[family[p]]
        /\ ~Exists(p) => cell[p] = None /\ retained[p] = None

\* A control is in the cell of one family, and a retained file system was
\* built around it.
Cells ==
    /\ \A p \in Providers :
          /\ cell[p] \in Controls => cell[p] \in allocated
          /\ ~IsHost(p) => retained[p].control = cell[p]
    /\ \A p, q \in Providers :
          (family[p] = p /\ family[q] = q /\ cell[p] = cell[q] /\ cell[p] \in Controls) => p = q

\* A call runs on a provider that exists, has what the cell holds, and is
\* the only one that initialises the cell; a clone in the making has a name
\* of its own; and a resolution in progress was asked for soundly.
CallOK(t) ==
    /\ job[t].call = "idle" => job[t] = Idle
    /\ job[t].call # "idle" => job[t].on \in Providers /\ Exists(job[t].on)
    /\ job[t].got # None => job[t].got = cell[job[t].on]
    /\ job[t].making => cell[job[t].on] = Busy /\ job[t].call # "idle"
    /\ job[t].call = "clone" => job[t].new \in Providers
    /\ job[t].new \in Providers => ~Exists(job[t].new)
    /\ job[t].call = "resolve" =>
          resolution[t] = [file |-> TRUE, sound |-> TRUE, failure |-> "None"]
CallsOK == \A t \in Threads : CallOK(t)

CallsApart ==
    \A t, u \in Threads :
        \/ job[t].making /\ job[u].making /\ job[t].on = job[u].on
        \/ job[t].new = job[u].new /\ job[t].new # None
        => t = u

\* What was handed out is what the family holds.
Handed ==
    \A h \in handles :
        /\ family[h.family] = h.family /\ cell[h.family] = h.control
        /\ h.dir # None => ~IsHost(h.family) /\ retained[h.family].dir = h.dir

ProviderInv == Families /\ Cells /\ CallsOK /\ CallsApart /\ Handed /\ FallbackOnlyForeign

\* Every call ends: a thread that waits for another one to initialise the
\* cell is not left waiting.
CallsEnd == \A t \in Threads : (job[t] # Idle) ~> (job[t] = Idle)
=============================================================================
