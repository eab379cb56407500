----------------------------- MODULE Namespace -----------------------------
(***************************************************************************)
(* The namespace operations of LocalFileSystemSpi: try_copy, rename,       *)
(* create_directory, delete_file and delete_directory, with the option,    *)
(* outcome and error mappers they go through.                              *)
(*                                                                         *)
(* Every operation takes &self, so clients call it concurrently.  A call   *)
(* is two steps: the adapter converts the paths and the options (and may   *)
(* refuse), then the native engine acts and the adapter translates its     *)
(* answer.  A client follows the reports: it repeats a request only when   *)
(* it was told that nothing changed.                                       *)
(*                                                                         *)
(* The native engine (qubit-local-files) is external: it may fail in any   *)
(* way, but it keeps to the options it is given and does not lie.          *)
(***************************************************************************)
EXTENDS Naturals

CONSTANTS
    Clients,   \* the callers that share the file system
    Paths,     \* the logical paths
    Files,     \* the regular files there are at first
    Trees,     \* the directory trees with entries there are at first
    NewDir,    \* a directory made by create_directory
    Other,     \* an object another program creates
    Absent,    \* no object at a path
    Requests,  \* the requests the clients send
    MaxTries   \* bound: how often a client sends its request

VARIABLES
    disk,      \* disk[p]: the object at p, Absent if there is none
    pc,        \* pc[c]: idle, native (inside the engine) or returned
    request,   \* request[c]: what c asks for
    options,   \* options[c]: the native options it was translated to
    report,    \* report[c]: what the last call of c returned
    \* History.
    deed,      \* deed[c]: what the last call of c did
    tries,     \* tries[c]: how often c has sent its request
    applied    \* applied[c]: how many of these calls changed the disk

vars == <<disk, pc, request, options, report, deed, tries, applied>>

(***************************************************************************)
(* Values.                                                                 *)
(***************************************************************************)

Names   == Files \cup Trees \cup {NewDir, Other}
\* whole is false for a tree that was copied or deleted in part.
Object  == [name : Names, whole : BOOLEAN]
Nothing == [name |-> Absent, whole |-> TRUE]

IsTree(o) == o.name \in Trees
\* The entries a copy of o publishes; a tree counts for two.
Entries(o) == IF IsTree(o) THEN 2 ELSE 1

Requirement == {"Required", "Preferred", "NotRequired"}
Conflict    == {"Fail", "Overwrite", "Skip"}

\* exotic: continue_on_error, a required server-side copy, a symlink policy
\* the adapter does not know, or user metadata for a new directory.
CopyRequest == [op : {"copy"}, source : Paths, target : Paths, conflict : Conflict,
                preserve : {"None", "Portable", "All"}, atomicity : Requirement,
                durability : Requirement, exotic : BOOLEAN]
RenameRequest == [op : {"rename"}, source : Paths, target : Paths,
                  overwrite : BOOLEAN, durability : Requirement]
CreateRequest == [op : {"create"}, target : Paths, recursive : BOOLEAN,
                  exists_ok : BOOLEAN, exotic : BOOLEAN]
DeleteRequest == [op : {"delete_file", "delete_directory"}, target : Paths,
                  recursive : BOOLEAN, missing_ok : BOOLEAN]
Request == CopyRequest \cup RenameRequest \cup CreateRequest \cup DeleteRequest
NoRequest == [op |-> "none"]

ASSUME ConstantsAssumption ==
    /\ Absent \notin Names /\ NewDir \notin Trees /\ Other \notin Trees
    /\ Requests \subseteq Request
    /\ MaxTries \in Nat \ {0}

\* LocalCopyFailureState and LocalRenameFailureState, and their portable
\* counterparts; FsEffectState.
NativeState == {"None", "Unchanged", "PartiallyPublished", "Published", "Renamed",
                "Indeterminate"}
Effect == {"None", "Unchanged", "PartiallyApplied", "Applied", "Indeterminate"}

\* What a native call did, and what it says of it: copy and rename have
\* states, the other operations errors with an optional effect.
Extent == {"none", "some", "all"}
CopyAnswer == [ok : BOOLEAN, effect : {"None"}, done : Extent, atomic : BOOLEAN,
               state : {"None", "Unchanged", "PartiallyPublished", "Published",
                        "Indeterminate"},
               durable : BOOLEAN, permissions : BOOLEAN, entries : 0..2]
RenameAnswer == [ok : BOOLEAN, effect : {"None"}, done : {"none", "all"}, atomic : {TRUE},
                 state : {"None", "Unchanged", "Renamed", "Indeterminate"},
                 durable : BOOLEAN, permissions : {FALSE}, entries : {0}]
PlainAnswer == [ok : BOOLEAN, effect : Effect, done : Extent, atomic : {FALSE},
                state : {"None"}, durable : {FALSE}, permissions : {FALSE}, entries : {0}]

Report == [ok : BOOLEAN,
           kind : {"None", "InvalidPath", "RequirementNotMet", "Native",
                   "ProviderContractViolation"},
           state : NativeState, effect : Effect, entries : 0..2,
           already : BOOLEAN,  \* already absent (delete), already existed (create)
           atomic : BOOLEAN, durable : BOOLEAN, preserved : {"None", "Portable"}]

Deed == [done : Extent, entries : 0..2, atomic : BOOLEAN,
         durable : BOOLEAN, permissions : BOOLEAN]
Idle == [done |-> "none", entries |-> 0, atomic |-> FALSE, durable |-> FALSE,
         permissions |-> FALSE]

Success == [ok |-> TRUE, kind |-> "None", state |-> "None", effect |-> "None",
            entries |-> 0, already |-> FALSE, atomic |-> FALSE, durable |-> FALSE,
            preserved |-> "None"]
Failure(kind, st, eff, n) ==
    [Success EXCEPT !.ok = FALSE, !.kind = kind, !.state = st, !.effect = eff, !.entries = n]

(***************************************************************************)
(* local_options_mapper.                                                   *)
(***************************************************************************)

\* The native options of a request.
NativeOptions == [conflict : Conflict, type_conflict : {"Fail", "Replace", "Skip"},
                  permissions : BOOLEAN, atomicity : Requirement, durability : Requirement,
                  overwrite : BOOLEAN, lenient : BOOLEAN, recursive : BOOLEAN]
Defaults == [conflict |-> "Fail", type_conflict |-> "Fail", permissions |-> FALSE,
             atomicity |-> "Preferred", durability |-> "Preferred",
             overwrite |-> FALSE, lenient |-> FALSE, recursive |-> FALSE]

\* The options the native engine cannot express.
Inexpressible(q) ==
    CASE q.op = "copy"   -> q.exotic \/ q.preserve = "All"
      [] q.op = "create" -> q.exotic
      [] OTHER           -> FALSE

\* Mutant: a requirement is passed on as a wish.
Softened(v) == IF v = "Required" THEN "Preferred" ELSE v

\* atomicity and durability translate the requirement one to one.
NativeRequirement(v) == v

\* Mutant: skipping is requested as overwriting.
SkipOverwrites(v) == IF v = "Fail" THEN "Fail" ELSE "Overwrite"

\* copy_conflict, and the policy for a target of another type: one that may
\* be overwritten may be replaced, one that is skipped is skipped.
CopyConflict(v) == v
TypeConflict(v) == IF v = "Overwrite" THEN "Replace" ELSE v

\* copy, rename, create_directory and delete: the native options are built
\* from the request alone.  create_directory's exists_ok and delete's
\* missing_ok are one native leniency here; a copy's source mode, budgets
\* and create_parent only add ways in which the engine may fail.
OptionsOf(q) ==
    CASE q.op = "copy" ->
           [Defaults EXCEPT !.conflict = CopyConflict(q.conflict),
                            !.type_conflict = TypeConflict(q.conflict),
                            !.permissions = q.preserve = "Portable",
                            !.atomicity = NativeRequirement(q.atomicity),
                            !.durability = NativeRequirement(q.durability)]
      [] q.op = "rename" ->
           [Defaults EXCEPT !.overwrite = q.overwrite,
                            !.durability = NativeRequirement(q.durability)]
      [] q.op = "create" ->
           [Defaults EXCEPT !.lenient = q.exists_ok, !.recursive = q.recursive]
      [] OTHER -> [Defaults EXCEPT !.lenient = q.missing_ok, !.recursive = q.recursive]

(***************************************************************************)
(* local_outcome_mapper and error_mapper.                                  *)
(***************************************************************************)

\* Mutant: a rename that failed to become durable is taken to be undone.
DurabilityUndoes(st) ==
    CASE st \in {"Unchanged", "Renamed"} -> "Unchanged"
      [] st = "PartiallyPublished"       -> "PartiallyApplied"
      [] st = "Published"                -> "Applied"
      [] OTHER                           -> "Indeterminate"

\* copy_failure_state and rename_failure_state keep the native state;
\* copy_effect_state and rename_effect_state say what it means.
EffectState(st) ==
    CASE st = "Unchanged"               -> "Unchanged"
      [] st = "PartiallyPublished"      -> "PartiallyApplied"
      [] st \in {"Published", "Renamed"} -> "Applied"
      [] OTHER                          -> "Indeterminate"

\* native_effect_state: an error that says nothing of its effect keeps
\* saying nothing.
NativeEffectState(eff) == eff

\* copy and rename: a rename is reported as atomic whatever happened.
CopyOutcome(a) ==
    [Success EXCEPT !.entries = a.entries, !.atomic = a.atomic, !.durable = a.durable,
                    !.preserved = IF a.permissions THEN "Portable" ELSE "None"]
RenameOutcome(a) == [Success EXCEPT !.atomic = TRUE, !.durable = a.durable]

\* CreateDirectoryOutcome and DeleteOutcome negate created() and deleted().
Already(a) == a.done # "all"

(***************************************************************************)
(* The native engine (external).                                           *)
(***************************************************************************)

\* Whatever the operation, what an answer says is true.  (Guarantees are
\* recorded for successes only.)
Truthful(a) ==
    /\ a.ok => a.state = "None" /\ a.effect = "None" /\ a.done # "some"
    /\ (a.state = "Unchanged" \/ a.effect = "Unchanged") => a.done = "none"
    /\ (a.state = "PartiallyPublished" \/ a.effect = "PartiallyApplied") => a.done = "some"
    /\ (a.state \in {"Published", "Renamed"} \/ a.effect = "Applied") => a.done = "all"

\* Whether the target of a copy may be replaced, or makes it a no-op.
SameType(q) == IsTree(disk[q.source]) = IsTree(disk[q.target])
MayReplace(q, no) ==
    IF SameType(q) THEN no.conflict = "Overwrite" ELSE no.type_conflict = "Replace"
MaySkip(q, no) == (IF SameType(q) THEN no.conflict ELSE no.type_conflict) = "Skip"

NativeCopy(q, no) ==
    {a \in CopyAnswer :
        /\ Truthful(a)
        /\ ~a.ok => a.state # "None" /\ ~a.atomic /\ ~a.durable
        /\ a.done # "none" =>
              /\ disk[q.source] # Nothing /\ q.source # q.target
              /\ disk[q.target] # Nothing => MayReplace(q, no)
        /\ a.done = "some" => IsTree(disk[q.source]) /\ ~a.atomic
        /\ a.entries = (CASE a.done = "none" -> 0
                          [] a.done = "some" -> 1
                          [] a.done = "all"  -> Entries(disk[q.source]))
        /\ (a.ok /\ a.done = "none") =>
              disk[q.source] # Nothing /\ disk[q.target] # Nothing /\ MaySkip(q, no)
        /\ a.ok => /\ no.atomicity = "Required" => a.atomic
                   /\ no.durability = "Required" => a.durable
        /\ a.permissions = (no.permissions /\ a.done = "all")}

\* A rename moves the object in one step; what may fail after it is the
\* durability of the move.
NativeRename(q, no) ==
    {a \in RenameAnswer :
        /\ Truthful(a)
        /\ ~a.ok => a.state # "None" /\ ~a.durable
        /\ a.ok => a.done = "all"
        /\ a.done = "all" =>
              /\ disk[q.source] # Nothing /\ q.source # q.target
              /\ disk[q.target] # Nothing => no.overwrite
        /\ (a.ok /\ no.durability = "Required") => a.durable}

\* A recursive create may fail after it has made some of the parents.
NativeCreate(q, no) ==
    {a \in PlainAnswer :
        /\ Truthful(a)
        /\ a.done = "all" => disk[q.target] = Nothing
        /\ a.done = "some" => no.recursive
        /\ (a.ok /\ a.done = "none") => disk[q.target] # Nothing /\ no.lenient}

\* A recursive delete may fail after it has removed some of the entries.
NativeDelete(q, no) ==
    {a \in PlainAnswer :
        /\ Truthful(a)
        /\ a.done # "none" =>
              /\ disk[q.target] # Nothing
              /\ (q.op = "delete_directory") = (disk[q.target].name \in Trees \cup {NewDir})
              /\ IsTree(disk[q.target]) => no.recursive
        /\ a.done = "some" => IsTree(disk[q.target])
        /\ (a.ok /\ a.done = "none") => disk[q.target] = Nothing /\ no.lenient}

NativeAnswers(q, no) ==
    CASE q.op = "copy"   -> NativeCopy(q, no)
      [] q.op = "rename" -> NativeRename(q, no)
      [] q.op = "create" -> NativeCreate(q, no)
      [] OTHER           -> NativeDelete(q, no)

\* The namespace after answer a to request q.
DiskAfter(q, a) ==
    CASE a.done = "none" -> disk
      [] a.done # "none" /\ q.op = "copy" ->
           [disk EXCEPT ![q.target] =
               [disk[q.source] EXCEPT !.whole = @ /\ a.done = "all"]]
      [] a.done # "none" /\ q.op = "rename" ->
           [disk EXCEPT ![q.target] = disk[q.source], ![q.source] = Nothing]
      [] a.done # "none" /\ q.op = "create" ->
           IF a.done = "all" THEN [disk EXCEPT ![q.target] = [name |-> NewDir, whole |-> TRUE]]
                             ELSE disk
      [] OTHER ->
           [disk EXCEPT ![q.target] =
               IF a.done = "all" THEN Nothing ELSE [@ EXCEPT !.whole = FALSE]]

(***************************************************************************)
(* The handlers.                                                           *)
(***************************************************************************)

\* The typed failures of copy and rename say that nothing was touched; the
\* rejections of the other two carry no effect.
RejectedState(q) == IF q.op \in {"copy", "rename"} THEN "Unchanged" ELSE "None"

\* try_copy looks at its options before the paths, the others the other way
\* round; whatever is wrong, nothing has been touched.
Rejection(q, mappable) ==
    IF Inexpressible(q) /\ (q.op = "copy" \/ mappable)
    THEN Failure("RequirementNotMet", RejectedState(q), "None", 0)
    ELSE Failure("InvalidPath", RejectedState(q), "None", 0)

\* A client sends a request whose paths can be mapped or not.
Call(c, q, mappable) ==
    /\ tries' = [tries EXCEPT ![c] = @ + 1]
    /\ request' = [request EXCEPT ![c] = q]
    /\ deed' = [deed EXCEPT ![c] = Idle]
    /\ IF mappable /\ ~Inexpressible(q)
       THEN /\ pc' = [pc EXCEPT ![c] = "native"]
            /\ options' = [options EXCEPT ![c] = OptionsOf(q)]
            /\ UNCHANGED report
       ELSE /\ pc' = [pc EXCEPT ![c] = "returned"]
            /\ report' = [report EXCEPT ![c] = Rejection(q, mappable)]
            /\ UNCHANGED options
    /\ UNCHANGED <<disk, applied>>

Send(c, q, mappable) == pc[c] = "idle" /\ Call(c, q, mappable)

\* The client was told that nothing changed.
ToldUnchanged(rep) == ~rep.ok /\ (rep.state = "Unchanged" \/ rep.effect = "Unchanged")

Retry(c, mappable) ==
    /\ pc[c] = "returned" /\ ToldUnchanged(report[c]) /\ tries[c] < MaxTries
    /\ Call(c, request[c], mappable)

\* Mutant: a failure path that cannot be written down hides the state.
ViolationHidesState(a) == Failure("ProviderContractViolation", "Unchanged", "Unchanged", 0)

\* The failure of a copy whose own failure path has no logical form keeps
\* the state and the statistics.
UnmappableCopyFailure(a) ==
    Failure("ProviderContractViolation", a.state, EffectState(a.state), a.entries)

CopyFailure(a, mappable) ==
    IF mappable THEN Failure("Native", a.state, EffectState(a.state), a.entries)
                ELSE UnmappableCopyFailure(a)

\* What the handler returns for answer a.
Reported(q, a, mappable) ==
    CASE a.ok /\ q.op = "copy"    -> CopyOutcome(a)
      [] a.ok /\ q.op = "rename"  -> RenameOutcome(a)
      [] a.ok /\ q.op \notin {"copy", "rename"} -> [Success EXCEPT !.already = Already(a)]
      [] ~a.ok /\ q.op = "copy"   -> CopyFailure(a, mappable)
      [] ~a.ok /\ q.op = "rename" -> Failure("Native", a.state, EffectState(a.state), 0)
      [] OTHER -> Failure("Native", "None", NativeEffectState(a.effect), 0)

Return(c, mappable) ==
    /\ pc[c] = "native"
    /\ \E a \in NativeAnswers(request[c], options[c]) :
         /\ disk' = DiskAfter(request[c], a)
         /\ report' = [report EXCEPT ![c] = Reported(request[c], a, mappable)]
         /\ deed' = [deed EXCEPT ![c] =
               [done |-> a.done, entries |-> a.entries, atomic |-> a.atomic,
                durable |-> a.durable, permissions |-> a.permissions]]
         /\ applied' = [applied EXCEPT ![c] = IF a.done = "none" THEN @ ELSE @ + 1]
    /\ pc' = [pc EXCEPT ![c] = "returned"]
    /\ UNCHANGED <<request, options, tries>>

\* Another program creates or removes an object.
Interfere(p) ==
    /\ disk' = [disk EXCEPT ![p] = IF @ = Nothing THEN [name |-> Other, whole |-> TRUE]
                                                 ELSE Nothing]
    /\ UNCHANGED <<pc, request, options, report, deed, tries, applied>>

Init ==
    /\ disk \in [Paths -> {[name |-> n, whole |-> TRUE] : n \in Files \cup Trees \cup {Absent}}]
    /\ pc = [c \in Clients |-> "idle"]
    /\ request = [c \in Clients |-> NoRequest]
    /\ options = [c \in Clients |-> Defaults]
    /\ report = [c \in Clients |-> Success]
    /\ deed = [c \in Clients |-> Idle]
    /\ tries = [c \in Clients |-> 0]
    /\ applied = [c \in Clients |-> 0]

Next ==
    \/ \E c \in Clients, mappable \in BOOLEAN :
          \/ \E q \in Requests : Send(c, q, mappable)
          \/ Retry(c, mappable)
          \/ Return(c, mappable)
    \/ \E p \in Paths : Interfere(p)

Spec == Init /\ [][Next]_vars

(***************************************************************************)
(* Properties.                                                             *)
(***************************************************************************)

TypeOK ==
    /\ disk \in [Paths -> Object \cup {Nothing}]
    /\ pc \in [Clients -> {"idle", "native", "returned"}]
    /\ request \in [Clients -> Requests \cup {NoRequest}]
    /\ options \in [Clients -> NativeOptions]
    /\ report \in [Clients -> Report]
    /\ deed \in [Clients -> Deed]
    /\ tries \in [Clients -> 0..MaxTries]
    /\ applied \in [Clients -> 0..MaxTries]

\* What a report says of the namespace is what its call did: a failure that
\* says Unchanged touched nothing, PartiallyApplied and Applied mean what
\* they say, the statistics of a copy count what it published, and of all
\* the clients that create or delete an object only the one whose call did
\* it is told so.  (copy_effect_state, rename_effect_state,
\* native_effect_state, CreateDirectoryOutcome, DeleteOutcome.)
Honest(c) ==
    LET rep == report[c]
        did == deed[c]
    IN pc[c] = "returned" =>
          /\ ToldUnchanged(rep) => did.done = "none"
          /\ rep.effect = "PartiallyApplied" => did.done = "some"
          /\ rep.effect = "Applied" => did.done = "all"
          /\ rep.entries = did.entries
          /\ (rep.ok /\ request[c].op \notin {"copy", "rename"}) =>
                (rep.already <=> did.done = "none")
EffectTruthful == \A c \in Clients : Honest(c)

\* A request whose success is reported got what it required: atomicity,
\* durability, permissions; and the outcome claims none of them for a copy
\* or rename that did not have it.
Kept(c) ==
    LET q   == request[c]
        rep == report[c]
        did == deed[c]
    IN (pc[c] = "returned" /\ rep.ok /\ q.op \in {"copy", "rename"}) =>
          /\ q.durability = "Required" => did.durable
          /\ q.op = "copy" =>
                /\ q.atomicity = "Required" => did.atomic
                /\ (q.preserve = "Portable" /\ did.done = "all") => did.permissions
          /\ rep.atomic => did.atomic
          /\ rep.durable => did.durable
          /\ rep.preserved = "Portable" => did.permissions
GuaranteeKept == \A c \in Clients : Kept(c)

\* A client that repeats its request only when it is told that nothing
\* changed has it carried out at most once, whatever fails and whoever else
\* changes the namespace in between.
AtMostOnce == \A c \in Clients : applied[c] <= 1

\* The inductive strengthening: a call in the engine runs under the options
\* of its request and has not been carried out before, and neither has one
\* whose last call did nothing.
CallOK(c) ==
    /\ pc[c] = "native" => request[c] \in Requests /\ options[c] = OptionsOf(request[c])
    /\ pc[c] = "idle" => tries[c] = 0
    /\ (pc[c] # "returned" \/ deed[c].done = "none") => applied[c] = 0
    /\ applied[c] <= 1
    /\ pc[c] = "returned" => request[c] \in Requests
    /\ Honest(c) /\ Kept(c)
CallInv == \A c \in Clients : CallOK(c)

\* The objects a request may replace or remove.
Licensed(q, p) ==
    CASE q.op = "copy"   -> p = q.target /\ q.conflict = "Overwrite"
      [] q.op = "rename" -> p = q.source \/ (p = q.target /\ q.overwrite)
      [] q.op = "create" -> FALSE
      [] OTHER           -> p = q.target

\* No call replaces or removes an object its request does not license, not
\* even one that appeared at the target while the call was under way.
NoClobber ==
    [][\A c \in Clients, p \in Paths :
          (pc[c] = "native" /\ pc'[c] = "returned" /\ disk[p] # Nothing /\ disk'[p] # disk[p])
             => Licensed(request[c], p)]_vars
=============================================================================
