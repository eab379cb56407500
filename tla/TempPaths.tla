----------------------------- MODULE TempPaths ------------------------------
(***************************************************************************)
(* The paths of temporary resources: native_temp_parent, the creation of a *)
(* temporary file or directory below a parent, LocalTempPathProjection, and*)
(* the target that keep reports (logical_keep_target).                     *)
(*                                                                         *)
(* A caller may name the parent through a link, or relative to the current *)
(* directory of a rooted file system.  The native engine works on the      *)
(* directory it found behind that name, and answers with native paths.     *)
(* Other programs turn the link elsewhere at any time.                     *)
(* A native path is a sequence of components below the root; a logical     *)
(* path is [absolute, components].                                         *)
(***************************************************************************)
EXTENDS Naturals, Sequences, SequencesExt

CONSTANTS
    Dirs,      \* the directories below the root, by name
    Alias,     \* the name of a link to one of them
    Layouts,   \* what the engine generates below a creation parent
    BadNames,  \* generated names that have no logical form
    Default,   \* the directory used when no parent is given
    None

Names == STRING
Paths == Seq(Names)
LogicalPaths == [absolute : BOOLEAN, components : Paths]

\* The native path of something that was found is its own: no link is named.
Canonical(path) == path # <<>> /\ path[1] # Alias

ASSUME ConstantsAssumption ==
    /\ Dirs \subseteq Names /\ Alias \in Names \ Dirs
    /\ Default \in Dirs
    /\ Layouts \subseteq Paths /\ \A l \in Layouts : Canonical(l)
    /\ None \notin Paths /\ None \notin LogicalPaths
    /\ None \notin [parent : Paths, path : Paths]

VARIABLES
    scope,     \* Host or Rooted
    cwd,       \* the current directory of a rooted file system
    target,    \* the directory the link leads to
    stage,     \* new, creating, made, open, kept, refused
    parent,    \* the parent the caller asked for
    spelled,   \* that parent made absolute, or None without one
    resource,  \* what the engine created: [parent, path]
    kept,      \* the native path that keep established
    public,    \* the logical path answered by the creation
    final,     \* the logical path answered by keep
    answer,    \* the outcome of the last call
    moved      \* the link was turned after the parent was resolved

vars == <<scope, cwd, target, stage, parent, spelled, resource, kept, public, final, answer, moved>>

Parents == {None} \cup [absolute : BOOLEAN, components : {<<n>> : n \in Dirs \cup {Alias}}]
Cwds == {<<>>} \cup {<<n>> : n \in Dirs \cup {Alias}}

\* Where a native path leads.
Resolved(p, link) ==
    IF p # <<>> /\ p[1] = Alias THEN <<link>> \o Tail(p) ELSE p

(***************************************************************************)
(* The code.                                                               *)
(***************************************************************************)

\* Mutant: a relative parent is used as if it began at the root.
FromRoot(p) == p.components

\* native_temp_parent: relative parents begin at the current directory, and
\* links keep their names.
NativeTempParent(p) == IF p.absolute THEN p.components ELSE cwd \o p.components

\* LocalTempPathProjection::project, from the native parent to the requested.
Project(from, to, path) ==
    IF IsPrefix(from, path) THEN to \o SubSeq(path, Len(from) + 1, Len(path)) ELSE None

\* local_path_mapper::logical: always absolute.
Logical(path) ==
    IF \E i \in 1..Len(path) : path[i] \in BadNames THEN None
    ELSE [absolute |-> TRUE, components |-> path]

\* Mutant: the projection is forgotten after the creation.
NativeTarget(path) == path

\* The namespace of the caller; without a parent there is no projection.
Projected(path) ==
    IF spelled = None THEN path ELSE Project(resource.parent, spelled, path)

\* logical_keep_target
LogicalKeepTarget(path) == Projected(path)

\* What a call answers for a native path already projected.
Outcome(projected) ==
    CASE projected = None                                  -> "ProviderContractViolation"
      [] projected # None /\ Logical(projected) = None     -> "InvalidPath"
      [] projected # None /\ Logical(projected) # None     -> "ok"

\* create_temp_file, create_temp_directory: the parent is converted.  The host
\* refuses relative ones; any parent may have a component without a native
\* form; a rooted file system may not know its current directory.
Create(p) ==
    /\ stage = "new"
    /\ parent' = p
    /\ \/ /\ p # None => p.absolute \/ scope = "Rooted"
          /\ stage' = "creating" /\ answer' = "none"
          /\ spelled' = IF p = None THEN None ELSE NativeTempParent(p)
       \/ /\ p # None
          /\ stage' = "refused"
          /\ \/ answer' = "InvalidPath"
             \/ answer' = "NativeFailure" /\ ~p.absolute /\ scope = "Rooted"
          /\ UNCHANGED spelled
    /\ UNCHANGED <<scope, cwd, target, resource, kept, public, final, moved>>

\* The end of the creation: the answer names the projected path, and an error
\* drops the resource.
EndCreate ==
    /\ stage = "made"
    /\ answer' = Outcome(Projected(resource.path))
    /\ stage' = IF answer' = "ok" THEN "open" ELSE "refused"
    /\ public' = IF answer' = "ok" THEN Logical(Projected(resource.path)) ELSE None
    /\ UNCHANGED <<scope, cwd, target, parent, spelled, resource, kept, final, moved>>

\* keep_file, keep_directory, once the engine has kept the resource at a path.
Keep(path) ==
    /\ stage = "open"
    /\ stage' = "kept"
    /\ kept' = path
    /\ answer' = Outcome(LogicalKeepTarget(path))
    /\ final' = IF answer' = "ok" THEN Logical(LogicalKeepTarget(path)) ELSE None
    /\ UNCHANGED <<scope, cwd, target, parent, spelled, resource, public, moved>>

(***************************************************************************)
(* The native engine and other programs.                                   *)
(***************************************************************************)

\* The engine creates below the directory it finds now, or fails.  The paths
\* it answers with should lie there; the adapter does not rely on that.
NativeCreate(layout, stray) ==
    /\ stage = "creating"
    /\ LET at == IF spelled = None THEN <<Default>> ELSE Resolved(spelled, target)
       IN \/ /\ resource' = [parent |-> at, path |-> (IF stray THEN <<>> ELSE at) \o layout]
             /\ stage' = "made" /\ moved' = FALSE
             /\ UNCHANGED answer
          \/ /\ stage' = "refused" /\ answer' = "NativeFailure"
             /\ UNCHANGED <<resource, moved>>
    /\ UNCHANGED <<scope, cwd, target, parent, spelled, kept, public, final>>

\* The paths keep may establish: where the resource is, or beside it.
KeepPaths ==
    {resource.path} \cup {resource.parent \o l : l \in Layouts} \cup Layouts

Retarget(d) ==
    /\ d # target
    /\ target' = d
    /\ moved' = TRUE
    /\ UNCHANGED <<scope, cwd, stage, parent, spelled, resource, kept, public, final, answer>>

Init ==
    /\ scope \in {"Host", "Rooted"}
    /\ cwd \in Cwds
    /\ target \in Dirs
    /\ stage = "new" /\ parent = None /\ spelled = None /\ resource = None /\ kept = None
    /\ public = None /\ final = None /\ answer = "none" /\ moved = FALSE

Next ==
    \/ \E p \in Parents : Create(p)
    \/ \E l \in Layouts, stray \in BOOLEAN : NativeCreate(l, stray)
    \/ EndCreate
    \/ stage = "open" /\ \E path \in KeepPaths : Keep(path)
    \/ \E d \in Dirs : Retarget(d)

Spec == Init /\ [][Next]_vars

(***************************************************************************)
(* Properties.                                                             *)
(***************************************************************************)

\* The parent the caller named, made absolute.
Named == IF parent.absolute THEN parent.components ELSE cwd \o parent.components

\* An answered path lies below the parent as the caller spelled it, link and
\* all, and leads to the native path for as long as the link stands
\* (create_temp_file, create_temp_directory, keep).
Faithful(logical, path) ==
    logical # None =>
        /\ logical.absolute
        /\ parent # None => IsPrefix(Named, logical.components)
        /\ moved \/ Resolved(logical.components, target) = path

\* Both answers of a resource are faithful, and no path outside the creation
\* parent is ever translated into one below the parent of the caller: that
\* would name a different object (LocalTempPathProjection::project).
PathsLeadToResource ==
    resource # None =>
        /\ Faithful(public, resource.path) /\ Faithful(final, kept)
        /\ parent # None =>
              /\ public # None => IsPrefix(resource.parent, resource.path)
              /\ final # None => IsPrefix(resource.parent, kept)

\* A resource kept where it was created is reported under the path it was
\* given at creation, although the link may lead elsewhere by now.
KeepAgrees == final # None /\ kept = resource.path => final = public

(***************************************************************************)
(* The inductive strengthening of the invariants above.                    *)
(***************************************************************************)

TypeOK ==
    /\ scope \in {"Host", "Rooted"} /\ cwd \in Cwds /\ target \in Dirs /\ moved \in BOOLEAN
    /\ stage \in {"new", "creating", "made", "open", "kept", "refused"}
    /\ parent \in Parents /\ spelled \in Paths \cup {None} /\ kept \in Paths \cup {None}
    /\ resource \in [parent : Paths, path : Paths] \cup {None}
    /\ public \in LogicalPaths \cup {None} /\ final \in LogicalPaths \cup {None}
    /\ answer \in {"none", "ok", "InvalidPath", "NativeFailure", "ProviderContractViolation"}

\* The projection is to the parent as the caller named it.
SpelledOK ==
    stage = "creating" \/ resource # None => spelled = IF parent = None THEN None ELSE Named

\* The creation parent is where that name led, and still leads unless the link
\* was turned.
ResourceOK ==
    resource # None =>
        /\ Canonical(resource.parent) /\ Canonical(resource.path)
        /\ moved \/ resource.parent = IF spelled = None THEN <<Default>> ELSE Resolved(spelled, target)

\* An answered path is the projection of a native one; both calls use one
\* projection.
Answered(logical, path) ==
    Canonical(path) /\ Projected(path) # None /\ logical = Logical(Projected(path))
AnswersOK ==
    /\ stage \in {"new", "creating"} => resource = None
    /\ stage \in {"made", "open", "kept"} => resource # None
    /\ IF stage \in {"open", "kept"} THEN Answered(public, resource.path) ELSE public = None
    /\ stage # "kept" => final = None
    /\ final # None => kept # None /\ Answered(final, kept)

PathInv == SpelledOK /\ ResourceOK /\ AnswersOK
=============================================================================
