---------------------------- MODULE TempResource ----------------------------
(***************************************************************************)
(* The temporary-resource sessions of the local provider: the adapter      *)
(* LocalTempResourceSpi, the creation handlers of LocalFileSystemSpi that  *)
(* build it, and the LocalTempCleanupControl shared by the sessions of one *)
(* file system.                                                            *)
(*                                                                         *)
(* A session is used by one thread at a time (every call takes &mut self), *)
(* but sessions run concurrently with each other, with the threads that    *)
(* replace the shared limits, and with other programs on the same disk.    *)
(* Every call is therefore two steps: Begin, which refreshes the limits    *)
(* from the control, checks, and takes the native resource out of its      *)
(* slot; and End, in which the native engine acts on the disk and the      *)
(* adapter restores the slot and reports.                                  *)
(*                                                                         *)
(* The native engine (qubit-local-files) is external.  NativePublish and   *)
(* NativeCleanup say what the adapter relies on: a publication or cleanup  *)
(* may fail for any reason, but what the engine says of it is true.        *)
(***************************************************************************)
EXTENDS Naturals

CONSTANTS
    Resources,   \* the temporary resources that may be created
    Controls,    \* the LocalTempCleanupControls of the file systems
    NoControl,   \* a file system built without a control
    Names,       \* the public names a resource can be published under
    KeepName,    \* KeepName[r]: the sibling name keep() generates for r
    Vacant,      \* no object at a name
    Foreign,     \* an object of another program at a name
    Budgets,     \* the entry counts a control can be limited to
    Unbounded,   \* no cleanup limit (None)
    MaxEntries,  \* bound: entries of one temporary tree, root included
    MaxFaults    \* bound: I/O faults of a behaviour

Limits == Budgets \cup {Unbounded}

ASSUME ConstantsAssumption ==
    /\ Controls # {} /\ NoControl \notin Controls
    /\ KeepName \in [Resources -> Names]
    /\ Vacant \notin Resources /\ Foreign \notin Resources /\ Vacant # Foreign
    /\ Budgets \subseteq Nat /\ Unbounded \notin Nat
    /\ MaxEntries \in Nat \ {0} /\ MaxFaults \in Nat

VARIABLES
    limits,   \* limits[c]: the contents of the control's RwLock
    pc,       \* pc[r]: the call r's session is in
    kind,     \* kind[r]: the File or the Directory variant
    control,  \* control[r]: cleanup_control of the Directory variant
    slot,     \* slot[r]: resource is Some(..)
    source,   \* source[r]: source_state() of the native resource
    cap,      \* cap[r]: the cleanup limits the native resource holds
    request,  \* request[r]: target and overwrite policy of the call
    disk,     \* disk[r]: what r's private source path names
    size,     \* size[r]: entries of r's private tree
    names,    \* names[n]: the object at public name n
    faults,   \* the I/O faults so far
    report,   \* report[r]: what r's last call returned
    \* History: what really happened, and what the owner was told.
    published,\* the resources ever installed at a public name
    truth,    \* truth[r]: what r's last call did to the disk
    told,     \* told[r]: the authority that the reports to r's owner admit
    window    \* window[r]: the limits in force since r's call began

adapterVars == <<pc, kind, control, slot, cap, request, report>>
nativeVars  == <<source, disk, size, names, faults>>
historyVars == <<published, truth, told, window>>
vars == <<limits, adapterVars, nativeVars, historyVars>>

(***************************************************************************)
(* The values of the state machine.                                        *)
(***************************************************************************)

\* LocalTempSourceState and LocalPersistFailureState of the native engine.
Source      == {"Owned", "CleanupRequired", "Indeterminate", "Released"}
Publication == {"NotPublished", "Published", "Indeterminate"}

\* PersistFailureState and FsEffectState of the facade.
FailureState ==
    {"NotPublished", "NotPublishedSourceReleased",
     "NotPublishedSourceIndeterminate", "NotPublishedSourceCleanupRequired",
     "PublishedSourceRetained", "PublishedSourceReleased",
     "PublishedSourceIndeterminate", "Indeterminate"}
Effect == {"None", "Unchanged", "PartiallyApplied", "Applied", "Indeterminate"}

\* The native error kinds the lifecycle calls meet, and the facade kinds the
\* adapter turns them into.
NativeKind == {"NotFound", "InvalidPath", "InvalidState", "AlreadyExists",
               "ResourceLimit", "PermissionDenied", "PublicationIncomplete",
               "Indeterminate"}
Kind == {"None", "NotFound", "InvalidPath", "InvalidState", "AlreadyExists",
         "ResourceLimitExceeded", "PermissionDenied", "Io", "Indeterminate",
         "NotDirectory", "ProviderContractViolation"}

\* ours: the private tree; sandbox: only its empty container; foreign: an
\* object another program put at the path; missing: nothing.
Disk == {"ours", "sandbox", "foreign", "missing"}

Report == [op     : {"None", "Create", "Persist", "Keep", "Cleanup"},
           ok     : BOOLEAN,
           kind   : Kind,
           state  : FailureState \cup {"None"},
           effect : Effect,
           residue : BOOLEAN]   \* ResidualTemporaryContainer

Calls == {"creating", "abandoning", "persist", "keep", "cleanup", "drop"}
Open  == {"idle", "persist", "keep", "cleanup", "drop"}

Success(op) == [op |-> op, ok |-> TRUE, kind |-> "None",
                state |-> "None", effect |-> "None", residue |-> FALSE]
Failure(op, k, st, eff) ==
    [op |-> op, ok |-> FALSE, kind |-> k, state |-> st, effect |-> eff,
     residue |-> FALSE]

\* What a call did to the disk, and whether the engine could tell.
Deed == [installed : BOOLEAN, removed : {"none", "some", "all"}, residue : BOOLEAN,
         known : BOOLEAN]
Nothing == [installed |-> FALSE, removed |-> "none", residue |-> FALSE, known |-> TRUE]

TypeOK ==
    /\ limits \in [Controls -> Limits]
    /\ pc \in [Resources -> Calls \cup {"unborn", "idle", "dropped"}]
    /\ kind \in [Resources -> {"file", "directory"}]
    /\ control \in [Resources -> Controls \cup {NoControl}]
    /\ slot \in [Resources -> BOOLEAN]
    /\ source \in [Resources -> Source]
    /\ cap \in [Resources -> Limits]
    /\ request \in [Resources -> [name : Names, overwrite : BOOLEAN]]
    /\ disk \in [Resources -> Disk]
    /\ size \in [Resources -> 0..MaxEntries]
    /\ names \in [Names -> Resources \cup {Vacant, Foreign}]
    /\ faults \in 0..MaxFaults
    /\ report \in [Resources -> Report]
    /\ published \in SUBSET Resources
    /\ truth \in [Resources -> Deed]
    /\ told \in [Resources -> SUBSET Source]
    /\ window \in [Resources -> SUBSET Limits]

(***************************************************************************)
(* The mapping tables of the adapter.                                      *)
(***************************************************************************)

\* The portable failure state of a native publication and source state.
PersistFailureState(pub, src) ==
    CASE pub = "NotPublished" /\ src = "Owned"           -> "NotPublished"
      [] pub = "NotPublished" /\ src = "Released"        -> "NotPublishedSourceReleased"
      [] pub = "NotPublished" /\ src = "Indeterminate"   -> "NotPublishedSourceIndeterminate"
      [] pub = "NotPublished" /\ src = "CleanupRequired" -> "NotPublishedSourceCleanupRequired"
      [] pub = "Published"    /\ src = "CleanupRequired" -> "PublishedSourceRetained"
      [] pub = "Published"    /\ src = "Released"        -> "PublishedSourceReleased"
      [] pub = "Published"    /\ src = "Indeterminate"   -> "PublishedSourceIndeterminate"
      [] OTHER                                           -> "Indeterminate"

\* The effect on the target that a failure state confirms.
PersistEffectState(st) ==
    CASE st \in {"NotPublished", "NotPublishedSourceReleased",
                 "NotPublishedSourceIndeterminate",
                 "NotPublishedSourceCleanupRequired"}       -> "Unchanged"
      [] st \in {"PublishedSourceRetained", "PublishedSourceReleased",
                 "PublishedSourceIndeterminate"}            -> "Applied"
      [] OTHER                                              -> "Indeterminate"

\* native_effect_state and attach_native_effect: an effect the engine states
\* is passed on, and one it does not state is not made up.
NativeEffectState(eff) == eff

\* error_mapper on an error with no separate cause.
MappedKind(k) ==
    CASE k = "PublicationIncomplete" -> "Io"
      [] k = "ResourceLimit"         -> "ResourceLimitExceeded"
      [] OTHER                       -> k

\* Mutant: takes a lost source for a removal that never started.
LostIsUnchanged(k, eff, src) ==
    IF src = "Indeterminate"
    THEN Failure("Cleanup", "Indeterminate", "None", "Unchanged")
    ELSE Failure("Cleanup", MappedKind(k), "None", NativeEffectState(eff))

\* cleanup_error: a lost source identity outranks the native kind, and
\* without a stronger native claim it means nothing was deleted.
CleanupError(k, eff, src) ==
    IF src = "Indeterminate"
    THEN Failure("Cleanup", "Indeterminate", "None",
                 IF eff = "None" THEN "Unchanged" ELSE eff)
    ELSE Failure("Cleanup", MappedKind(k), "None", NativeEffectState(eff))

\* directory_cleanup_error, which states no effect of a directory that is
\* none any more, and file_cleanup_error.
KindCleanupError(r, k, eff, src) ==
    IF kind[r] = "directory" /\ src # "Indeterminate" /\ k = "InvalidPath"
    THEN Failure("Cleanup", "NotDirectory", "None", "None")
    ELSE CleanupError(k, eff, src)

(***************************************************************************)
(* The native engine (external), in the terms the adapter depends on.      *)
(***************************************************************************)

\* Whether the engine's check of a cleanup limit admits a tree of n entries.
\* Zero is a valid limit, and admits nothing because the root counts.
Admits(l, n) == l = Unbounded \/ n <= l

PublishOutcome == [ok : BOOLEAN, pub : Publication, src : Source,
                   installed : BOOLEAN, disk : Disk, kind : NativeKind \cup {"None"}]

\* Nothing but an I/O fault explains this outcome.
PublishFault(r, o) == ~o.ok /\ disk[r] = "ours" /\ o.kind # "AlreadyExists"

\* persist_with and keep on an owned source.  The engine verifies that the
\* path still names the source it created, never replaces an object unless
\* told to, and reports truthfully: Owned means the private source is still
\* in place and unpublished, CleanupRequired that its container remains.
TruthfulPublish(r, n, overwrite, o) ==
    /\ o.ok <=> o.kind = "None"
    /\ o.ok => o.pub = "Published" /\ o.src = "Released"
    /\ o.pub = "Published" => o.installed
    /\ o.pub = "NotPublished" => ~o.installed
    /\ o.installed => (names[n] = Vacant \/ overwrite)
    /\ disk[r] # "ours" =>
          /\ ~o.ok /\ o.pub = "NotPublished" /\ o.src = "Indeterminate"
          /\ o.disk = disk[r]
          /\ o.kind = IF disk[r] = "missing" THEN "NotFound" ELSE "InvalidPath"
    /\ disk[r] = "ours" =>
          /\ o.kind \in {"None", "AlreadyExists", "PermissionDenied", "Indeterminate"}
          /\ o.kind = "Indeterminate" => o.pub = "Indeterminate"
          /\ o.kind = "AlreadyExists" =>
                /\ names[n] # Vacant /\ ~overwrite
                /\ o.pub = "NotPublished" /\ o.src = "Owned"
          /\ o.ok => o.disk \in {"missing", "sandbox"}
          /\ o.src = "Owned" => o.disk = "ours" /\ ~o.installed
          /\ o.src = "CleanupRequired" => o.disk = "sandbox"
          /\ (o.src = "Released" /\ ~o.ok) => o.disk = "missing"
          /\ o.src = "Indeterminate" =>
                o.disk = IF o.installed THEN "missing" ELSE "ours"

\* The engine promises nothing for a source it does not own.
NativePublish(r, n, overwrite) ==
    {o \in PublishOutcome :
        source[r] = "Owned" => TruthfulPublish(r, n, overwrite, o)}

\* How much of r's private tree is gone when left entries are in place.
Removed(r, left) ==
    IF left = size[r] THEN "none" ELSE IF left = 0 THEN "all" ELSE "some"

\* A true statement about a removal.  One that is not made (None) promises
\* that the engine did not begin, and Indeterminate says nothing.
TrueOfRemoval(eff, removed) ==
    /\ eff \in {"None", "Unchanged"} => removed = "none"
    /\ eff = "PartiallyApplied"      => removed = "some"
    /\ eff = "Applied"               => removed = "all"

\* A cleanup that leaves the tree alone.
Untouched(r, src, kinds) ==
    [src : {src}, left : {size[r]}, kind : kinds, effect : {"None", "Unchanged"}]

\* A fault in the middle of a removal.  Any part of the tree may be gone,
\* and the engine may know which, keep its authority or lose it.
BrokenRemovals(r) ==
    {o \in [src : {source[r], "Indeterminate"}, left : 0..size[r],
            kind : {"PermissionDenied", "InvalidPath", "PublicationIncomplete",
                    "Indeterminate"},
            effect : Effect] :
        /\ TrueOfRemoval(o.effect, Removed(r, o.left))
        /\ o.kind = "PublicationIncomplete" => o.effect = "PartiallyApplied"
        /\ o.kind = "InvalidPath" => o.effect \in {"None", "Unchanged"}}

\* cleanup, or the drop of the native resource, under the limits it holds.
\* What the engine does not own, does not find in its place or has measured
\* to be over the limit is left alone.
NativeCleanup(r) ==
    CASE source[r] = "Released"      -> Untouched(r, "Released", {"None", "InvalidState"})
      [] source[r] = "Indeterminate" -> Untouched(r, "Indeterminate", {"InvalidState"})
      [] OTHER ->
           CASE disk[r] = "missing" -> Untouched(r, "Indeterminate", {"NotFound"})
             [] disk[r] = "foreign" -> Untouched(r, "Indeterminate", {"InvalidPath"})
             [] OTHER ->
                  IF Admits(cap[r], size[r])
                  THEN [src : {"Released"}, left : {0}, kind : {"None"}, effect : {"None"}]
                         \cup BrokenRemovals(r)
                  ELSE Untouched(r, source[r], {"ResourceLimit"})

\* A cleanup outcome that only an I/O fault explains.
CleanupFault(r, o) ==
    /\ source[r] \in {"Owned", "CleanupRequired"} /\ disk[r] \in {"ours", "sandbox"}
    /\ o.kind \notin {"None", "ResourceLimit"}

FaultStep(faulty) ==
    IF faulty THEN faults < MaxFaults /\ faults' = faults + 1 ELSE UNCHANGED faults

(***************************************************************************)
(* Shared helpers of the adapter.                                          *)
(***************************************************************************)

\* The limits the session's file system asks for at this moment.
CurrentLimit(c) == IF c = NoControl THEN Unbounded ELSE limits[c]

\* Mutant: keeps the limits read when the directory was created.
CreationCap(r) == cap[r]

\* refresh_directory_cleanup_limits: only a directory that still holds its
\* native resource and was created under a control is refreshed.
RefreshedCap(r) ==
    IF kind[r] = "directory" /\ slot[r] /\ control[r] # NoControl
    THEN limits[control[r]]
    ELSE cap[r]

\* The authority the adapter sees: an empty slot counts as released.
Authority(r) == IF slot[r] THEN source[r] ELSE "Released"

\* The authorities that a failure state leaves its owner to reckon with.
ToldBy(st) ==
    CASE st = "NotPublished" -> {"Owned"}
      [] st \in {"NotPublishedSourceReleased", "PublishedSourceReleased"} -> {"Released"}
      [] st \in {"NotPublishedSourceIndeterminate",
                 "PublishedSourceIndeterminate"} -> {"Indeterminate"}
      [] st \in {"NotPublishedSourceCleanupRequired",
                 "PublishedSourceRetained"} -> {"CleanupRequired"}
      [] OTHER -> Source

\* What the owner reckons with after a report, given what it did before.  A
\* cleanup error of the Indeterminate kind may have cost it the source; any
\* other cleanup error has not.
Learn(before, rep) ==
    CASE rep.op \in {"Persist", "Keep"} /\ rep.ok  -> {"Released"}
      [] rep.op \in {"Persist", "Keep"} /\ ~rep.ok -> ToldBy(rep.state)
      [] rep.op = "Cleanup" /\ rep.ok              -> {"Released"}
      [] rep.op = "Cleanup" /\ ~rep.ok /\ rep.kind = "Indeterminate"
                                                   -> before \cup {"Indeterminate"}
      [] OTHER -> before

\* The arguments of a session that is in no call.
NoRequest(r) == [name |-> KeepName[r], overwrite |-> FALSE]

\* The call of r returns rep, having done what happened says.
Return(r, rep, happened) ==
    /\ report' = [report EXCEPT ![r] = rep]
    /\ truth' = [truth EXCEPT ![r] = happened]
    /\ told' = [told EXCEPT ![r] = Learn(@, rep)]

\* A call of r starts: the limits in force are those of this moment on.
OpenWindow(r, c) == window' = [window EXCEPT ![r] = {CurrentLimit(c)}]

\* The call of r goes on to its native step, taking the resource or not.
Enter(r, call) ==
    /\ pc' = [pc EXCEPT ![r] = call]
    /\ UNCHANGED <<report, truth, told>>

(***************************************************************************)
(* The shared control.                                                     *)
(***************************************************************************)

\* set_limits replaces what later attempts read; it interrupts none.
SetLimits(c, l) ==
    /\ limits' = [limits EXCEPT ![c] = l]
    /\ window' = [r \in Resources |->
                    IF control[r] = c /\ pc[r] \in Calls
                    THEN window[r] \cup {l} ELSE window[r]]
    /\ UNCHANGED <<adapterVars, nativeVars, published, truth, told>>

(***************************************************************************)
(* Creation: create_temp_file and create_temp_directory.                   *)
(***************************************************************************)

\* The limits are read before the native creation.  A file has no control.
\* (A parent that cannot be mapped is rejected before anything happens.)
BeginCreate(r, k, c) ==
    /\ pc[r] = "unborn"
    /\ k = "file" => c = NoControl
    /\ pc' = [pc EXCEPT ![r] = "creating"]
    /\ kind' = [kind EXCEPT ![r] = k]
    /\ control' = [control EXCEPT ![r] = c]
    /\ cap' = [cap EXCEPT ![r] = CurrentLimit(c)]
    /\ OpenWindow(r, c)
    /\ UNCHANGED <<limits, slot, request, report, nativeVars,
                   published, truth, told>>

CreateFails(r) ==
    /\ pc[r] = "creating"
    /\ FaultStep(TRUE)
    /\ pc' = [pc EXCEPT ![r] = "unborn"]
    /\ window' = [window EXCEPT ![r] = {}]
    /\ UNCHANGED <<limits, kind, control, slot, cap, request, report,
                   source, disk, size, names, published, truth, told>>

\* The native resource exists.  If its path can be projected and mapped the
\* session opens; otherwise the handler returns early and Rust drops the
\* native resource, still holding the limits read when the call began.
CreateReturns(r, mappable) ==
    /\ pc[r] = "creating"
    /\ source' = [source EXCEPT ![r] = "Owned"]
    /\ disk' = [disk EXCEPT ![r] = "ours"]
    /\ size' = [size EXCEPT ![r] = 1]
    /\ slot' = [slot EXCEPT ![r] = mappable]
    /\ pc' = [pc EXCEPT ![r] = IF mappable THEN "idle" ELSE "abandoning"]
    /\ report' = [report EXCEPT ![r] =
                    IF mappable THEN Success("Create")
                    ELSE Failure("Create", "ProviderContractViolation", "None", "None")]
    /\ told' = [told EXCEPT ![r] = {IF mappable THEN "Owned" ELSE "Released"}]
    /\ window' = [window EXCEPT ![r] = IF mappable THEN {} ELSE @]
    /\ UNCHANGED <<limits, kind, control, cap, request, names, faults,
                   published, truth>>

(***************************************************************************)
(* Publication: persist and keep.                                          *)
(***************************************************************************)

\* Mutant: takes an occupied slot for an owned source.
SlotOccupied(r) == slot[r]

\* require_owned fails with the authority the adapter sees, and this call
\* certainly published nothing.
RequireOwned(r) == Authority(r) = "Owned"
NotOwnedFailure(op, src) ==
    LET st == PersistFailureState("NotPublished", src)
    IN Failure(op, "InvalidState", st, PersistEffectState(st))

\* Mutant: maps the path first.
PathFailureFirst(r, mappable) ==
    IF ~mappable
    THEN Failure("Persist", "InvalidPath", "NotPublished", "None")
    ELSE NotOwnedFailure("Persist", Authority(r))

\* target(): authority is checked before the path is mapped, so that a path
\* error can say NotPublished without misreporting a lost source.
TargetFailure(r, mappable) ==
    IF RequireOwned(r)
    THEN Failure("Persist", "InvalidPath", "NotPublished", "None")
    ELSE NotOwnedFailure("Persist", Authority(r))

\* The resource leaves its slot for the native call; an empty slot is the
\* terminal_persist_error that the ownership check makes unreachable.
TakeFor(r, call, op, n, overwrite) ==
    IF slot[r]
    THEN /\ Enter(r, call)
         /\ slot' = [slot EXCEPT ![r] = FALSE]
         /\ request' = [request EXCEPT ![r] = [name |-> n, overwrite |-> overwrite]]
         /\ OpenWindow(r, control[r])
    ELSE /\ Return(r, Failure(op, "InvalidState", "NotPublishedSourceReleased", "None"), Nothing)
         /\ UNCHANGED <<pc, slot, request, window>>

BeginPersist(r, n, overwrite, mappable) ==
    /\ pc[r] = "idle"
    /\ cap' = [cap EXCEPT ![r] = RefreshedCap(r)]
    /\ \/ /\ ~RequireOwned(r) \/ ~mappable
          /\ Return(r, TargetFailure(r, mappable), Nothing)
          /\ UNCHANGED <<pc, slot, request, window>>
       \/ /\ RequireOwned(r) /\ mappable
          /\ TakeFor(r, "persist", "Persist", n, overwrite)
    /\ UNCHANGED <<limits, kind, control, nativeVars, published>>

BeginKeep(r) ==
    /\ pc[r] = "idle"
    /\ cap' = [cap EXCEPT ![r] = RefreshedCap(r)]
    /\ \/ /\ ~RequireOwned(r)
          /\ Return(r, NotOwnedFailure("Keep", Authority(r)), Nothing)
          /\ UNCHANGED <<pc, slot, request, window>>
       \/ /\ RequireOwned(r)
          /\ TakeFor(r, "keep", "Keep", KeepName[r], FALSE)
    /\ UNCHANGED <<limits, kind, control, nativeVars, published>>

\* What the native publication does to the disk and to its own state.
PublishEffect(r, o) ==
    /\ source' = [source EXCEPT ![r] = o.src]
    /\ disk' = [disk EXCEPT ![r] = o.disk]
    /\ size' = [size EXCEPT ![r] = CASE o.disk = "sandbox" -> 1
                                     [] o.disk = "missing" -> 0
                                     [] OTHER -> @]
    /\ names' = IF o.installed THEN [names EXCEPT ![request[r].name] = r] ELSE names
    /\ FaultStep(PublishFault(r, o))
    /\ published' = IF o.installed THEN published \cup {r} ELSE published

\* Mutant: the resource returned inside a native error is not put back.
ErrorDropsResource(o) == FALSE

\* A consumed resource leaves the slot empty; a failed one is put back.
RestoredSlot(o) == ~o.ok

\* The common end of persist and keep.
FinishPublish(r, o, rep) ==
    /\ PublishEffect(r, o)
    /\ slot' = [slot EXCEPT ![r] = RestoredSlot(o)]
    /\ pc' = [pc EXCEPT ![r] = "idle"]
    /\ Return(r, rep, [Nothing EXCEPT !.installed = o.installed,
                              !.residue = o.disk = "sandbox",
                              !.known = o.pub # "Indeterminate"])
    /\ window' = [window EXCEPT ![r] = {}]
    /\ request' = [request EXCEPT ![r] = NoRequest(r)]
    /\ UNCHANGED <<limits, kind, control, cap>>

\* map_persist_outcome: the outcome says whether the container was left.
MapPersistOutcome(op, o) == [Success(op) EXCEPT !.residue = o.disk = "sandbox"]

PublishFailure(op, k, o) ==
    LET st == PersistFailureState(o.pub, o.src)
    IN Failure(op, k, st, PersistEffectState(st))

EndPersist(r) ==
    /\ pc[r] = "persist"
    /\ \E o \in NativePublish(r, request[r].name, request[r].overwrite) :
         FinishPublish(r, o,
            IF o.ok THEN MapPersistOutcome("Persist", o)
                    ELSE PublishFailure("Persist", MappedKind(o.kind), o))

\* A generated target that cannot be written as a logical path turns a
\* finished publication into a failure that still confirms it, and a failed
\* one into a provider-contract violation with the same state.
EndKeep(r, mappable) ==
    /\ pc[r] = "keep"
    /\ \E o \in NativePublish(r, request[r].name, request[r].overwrite) :
         FinishPublish(r, o,
            IF o.ok
            THEN IF mappable THEN MapPersistOutcome("Keep", o)
                 ELSE Failure("Keep", "ProviderContractViolation",
                              "PublishedSourceReleased", "Applied")
            ELSE PublishFailure("Keep",
                    IF mappable THEN MappedKind(o.kind)
                    ELSE "ProviderContractViolation", o))

(***************************************************************************)
(* Removal: cleanup and drop.                                              *)
(***************************************************************************)

CleanupEffect(r, o) ==
    /\ source' = [source EXCEPT ![r] = o.src]
    /\ size' = [size EXCEPT ![r] = o.left]
    /\ disk' = [disk EXCEPT ![r] = IF Removed(r, o.left) = "all" THEN "missing" ELSE @]
    /\ FaultStep(CleanupFault(r, o))
    /\ UNCHANGED names

BeginCleanup(r) ==
    /\ pc[r] = "idle"
    /\ cap' = [cap EXCEPT ![r] = RefreshedCap(r)]
    /\ \/ /\ ~slot[r]
          /\ Return(r, Failure("Cleanup", "InvalidState", "None", "None"), Nothing)
          /\ UNCHANGED <<pc, window>>
       \/ /\ slot[r]
          /\ Enter(r, "cleanup")
          /\ OpenWindow(r, control[r])
    /\ UNCHANGED <<limits, kind, control, slot, request, nativeVars, published>>

\* cleanup keeps the native resource in its slot whatever happens.
EndCleanup(r) ==
    /\ pc[r] = "cleanup"
    /\ \E o \in NativeCleanup(r) :
         /\ CleanupEffect(r, o)
         /\ Return(r, IF o.kind = "None" THEN Success("Cleanup")
                              ELSE KindCleanupError(r, o.kind, o.effect, o.src),
                   [Nothing EXCEPT !.removed = Removed(r, o.left),
                                   !.known = o.effect # "Indeterminate"])
    /\ pc' = [pc EXCEPT ![r] = "idle"]
    /\ window' = [window EXCEPT ![r] = {}]
    /\ UNCHANGED <<limits, kind, control, slot, cap, request, published>>

\* Drop::drop refreshes the limits; the field is dropped after it returns.
BeginDrop(r) ==
    /\ pc[r] = "idle"
    /\ cap' = [cap EXCEPT ![r] = RefreshedCap(r)]
    /\ Enter(r, "drop")
    /\ OpenWindow(r, control[r])
    /\ UNCHANGED <<limits, kind, control, slot, request, nativeVars, published>>

\* The native drop removes what it may and reports nothing.
EndDrop(r) ==
    /\ pc[r] \in {"drop", "abandoning"}
    /\ IF slot[r] \/ pc[r] = "abandoning"
       THEN \E o \in NativeCleanup(r) : CleanupEffect(r, o)
       ELSE UNCHANGED nativeVars
    /\ pc' = [pc EXCEPT ![r] = "dropped"]
    /\ slot' = [slot EXCEPT ![r] = FALSE]
    /\ window' = [window EXCEPT ![r] = {}]
    /\ UNCHANGED <<limits, kind, control, cap, request, report, published, truth, told>>

(***************************************************************************)
(* The owner's use of the directory, and other programs on the disk.       *)
(***************************************************************************)

AddEntry(r) ==
    /\ pc[r] \in Open /\ kind[r] = "directory" /\ disk[r] = "ours"
    /\ size[r] < MaxEntries
    /\ size' = [size EXCEPT ![r] = @ + 1]
    /\ UNCHANGED <<limits, adapterVars, source, disk, names, faults, historyVars>>

\* Another program moves the private tree away from its path.
Displace(r) ==
    /\ pc[r] \in Open /\ disk[r] \in {"ours", "sandbox"}
    /\ disk' = [disk EXCEPT ![r] = "missing"]
    /\ size' = [size EXCEPT ![r] = 0]
    /\ UNCHANGED <<limits, adapterVars, source, names, faults, historyVars>>

\* Another program creates an object at the vacated private path.
Replace(r) ==
    /\ pc[r] \in Open /\ disk[r] = "missing"
    /\ disk' = [disk EXCEPT ![r] = "foreign"]
    /\ UNCHANGED <<limits, adapterVars, source, size, names, faults, historyVars>>

\* Another program creates or removes an object at a public name.
ChangeName(n) ==
    /\ names' = [names EXCEPT ![n] = IF @ = Vacant THEN Foreign ELSE Vacant]
    /\ UNCHANGED <<limits, adapterVars, source, disk, size, faults, historyVars>>

Init ==
    /\ limits \in [Controls -> Limits]
    /\ pc = [r \in Resources |-> "unborn"]
    /\ kind = [r \in Resources |-> "file"]
    /\ control = [r \in Resources |-> NoControl]
    /\ slot = [r \in Resources |-> FALSE]
    /\ source = [r \in Resources |-> "Released"]
    /\ cap = [r \in Resources |-> Unbounded]
    /\ request = [r \in Resources |-> NoRequest(r)]
    /\ disk = [r \in Resources |-> "missing"]
    /\ size = [r \in Resources |-> 0]
    /\ names \in [Names -> {Vacant, Foreign}]
    /\ faults = 0
    /\ report = [r \in Resources |-> Success("None")]
    /\ published = {}
    /\ truth = [r \in Resources |-> Nothing]
    /\ told = [r \in Resources |-> {"Released"}]
    /\ window = [r \in Resources |-> {}]

Session(r) ==
    \/ \E k \in {"file", "directory"}, c \in Controls \cup {NoControl} : BeginCreate(r, k, c)
    \/ CreateFails(r)
    \/ \E mappable \in BOOLEAN : CreateReturns(r, mappable)
    \/ \E n \in Names, overwrite, mappable \in BOOLEAN :
          BeginPersist(r, n, overwrite, mappable)
    \/ EndPersist(r)
    \/ BeginKeep(r)
    \/ \E mappable \in BOOLEAN : EndKeep(r, mappable)
    \/ BeginCleanup(r)
    \/ EndCleanup(r)
    \/ BeginDrop(r)
    \/ EndDrop(r)

Environment ==
    \/ \E c \in Controls, l \in Limits : SetLimits(c, l)
    \/ \E r \in Resources : AddEntry(r) \/ Displace(r) \/ Replace(r)
    \/ \E n \in Names : ChangeName(n)

Next == Environment \/ \E r \in Resources : Session(r)

Spec == Init /\ [][Next]_vars

(***************************************************************************)
(* Properties.                                                             *)
(***************************************************************************)

\* What a report says of the call's effect is what the call did: a failure
\* of persist or keep that says Unchanged (or carries no effect) installed
\* nothing, one that says Applied did, and so did every success, which also
\* says whether the private container was left behind.  A cleanup failure
\* says how much is gone, or nothing; it says that nothing is gone only when
\* that is so.  And no failure says Indeterminate of what the engine could
\* tell.  (map_persist_error, map_keep_error, logical_persist_error,
\* cleanup_error, native_effect_state.)
Truthful(rep, did) ==
    /\ rep.op \in {"Persist", "Keep"} =>
          /\ (rep.ok \/ rep.effect = "Applied") => did.installed
          /\ (~rep.ok /\ rep.effect \in {"None", "Unchanged"}) => ~did.installed
          /\ rep.ok => rep.residue = did.residue
    /\ (rep.op = "Cleanup" /\ ~rep.ok) => TrueOfRemoval(rep.effect, did.removed)
    /\ rep.effect = "Indeterminate" => ~did.known
EffectTruthful == \A r \in Resources : Truthful(report[r], truth[r])

\* An owner who follows the reports knows its authority: it is among those
\* that the failure states and cleanup kinds admit, so that NotPublished
\* really can be retried and a lost source is never reported as still owned,
\* not even by a rejected or unmappable target or by a cleanup error of an
\* ordinary kind.
AuthorityReported ==
    \A r \in Resources : pc[r] = "idle" => Authority(r) \in told[r]

\* No path loses the native resource: while it owns a source or a container
\* it is in its slot, except during the call that took it out.
HandleRetained ==
    \A r \in Resources :
        (pc[r] = "idle" /\ source[r] \in {"Owned", "CleanupRequired"}) => slot[r]

\* The inductive strengthening of the invariants above.  A publication in
\* progress still owns a source that was never published and is out of its
\* slot; the owner's knowledge also holds while its cleanup runs; and the
\* limits an attempt runs under were in force since it began.
SessionOK(r) ==
    /\ pc[r] \in {"persist", "keep"} => source[r] = "Owned" /\ ~slot[r]
    /\ pc[r] = "cleanup" => slot[r]
    /\ (pc[r] \in {"idle", "cleanup", "drop"} /\ source[r] \in {"Owned", "CleanupRequired"})
          => slot[r]
    /\ (source[r] = "Owned" \/ pc[r] \in {"unborn", "creating"}) => r \notin published
    /\ pc[r] \in {"idle", "cleanup"} => Authority(r) \in told[r]
    /\ kind[r] = "file" => control[r] = NoControl
    /\ control[r] = NoControl => cap[r] = Unbounded
    /\ pc[r] \in {"creating", "abandoning"} => cap[r] \in window[r]
    /\ (pc[r] \in {"cleanup", "drop"} /\ slot[r]) => cap[r] \in window[r]
SessionInv == \A r \in Resources : SessionOK(r)

\* An attempt to remove the private tree (cleanup, drop, or the drop of a
\* creation that failed late) obeys the limits in force while it ran: it
\* removes nothing that every one of them forbids, and without a fault it
\* removes what all of them allow.  A stale snapshot breaks both halves.
WithinLimits(r) ==
    (pc[r] \in {"cleanup", "drop", "abandoning"} /\ pc'[r] # pc[r]) =>
       /\ size'[r] < size[r] => \E l \in window[r] : Admits(l, size[r])
       /\ (/\ source[r] \in {"Owned", "CleanupRequired"}
           /\ disk[r] \in {"ours", "sandbox"}
           /\ faults' = faults
           /\ \A l \in window[r] : Admits(l, size[r]))
          => disk'[r] = "missing"
LimitsInForce == [][\A r \in Resources : WithinLimits(r)]_vars

\* A private tree in place has at least its root, so that removing all of it
\* is never mistaken for removing nothing.
TreeInv == \A r \in Resources : disk[r] \in {"ours", "sandbox"} => size[r] > 0

\* The session implements the contract of its owner: one publication at
\* most, only while the source is held, and no authority regained.
Phase(r) ==
    CASE pc[r] \in {"unborn", "creating"} -> "unborn"
      [] pc[r] = "dropped"                -> "gone"
      [] OTHER -> CASE source[r] = "Owned"           -> "held"
                    [] source[r] = "CleanupRequired" -> "leftover"
                    [] source[r] = "Indeterminate"   -> "uncertain"
                    [] source[r] = "Released"        -> "released"

Contract == INSTANCE TempContract WITH phase <- [r \in Resources |-> Phase(r)]
ContractSpec == Contract!Spec

\* A call in progress ends; whether one begins is up to the owner, here one
\* that keeps retrying cleanup.
CallsEnd == \A r \in Resources :
    /\ WF_vars(EndPersist(r))
    /\ WF_vars(\E mappable \in BOOLEAN : EndKeep(r, mappable))
    /\ WF_vars(EndCleanup(r)) /\ WF_vars(EndDrop(r))
RetryingOwner == \A r \in Resources : SF_vars(BeginCleanup(r))
RetrySpec == Spec /\ CallsEnd /\ RetryingOwner

\* Recovery through the same handle: once the limits stay high enough, an
\* owner that keeps calling cleanup is eventually rid of its source (or
\* learns that it has lost track of it), however small the limits were when
\* the directory was created and whatever failed in between.
Recovery ==
    (<>[](\A c \in Controls : Admits(limits[c], MaxEntries))) =>
        \A r \in Resources :
            [](pc[r] = "idle" =>
                  <>(pc[r] = "dropped" \/ Authority(r) \in {"Released", "Indeterminate"}))
=============================================================================
