--------------------------- MODULE CleanupFamily ----------------------------
(***************************************************************************)
(* The registry provider and the temporary directories made through the    *)
(* file systems it resolves, composed over the cleanup controls they share.*)
(*                                                                         *)
(* Provider says which control every clone, file system and caller of a    *)
(* family of providers gets; TempResource says which limits a cleanup reads*)
(* from the control it was created with.  Here limits are set through any  *)
(* control that a family hands out and directories are made through any    *)
(* file system of it: the owner thinks of one setting per family.          *)
(***************************************************************************)
EXTENDS Provider

CONSTANTS Resources, NoControl, Names, KeepName, Vacant, Foreign, Budgets, Unbounded,
          MaxEntries, MaxFaults

\* Every file system of a family is built with a control.
ASSUME FamilyAssumption == NoControl \notin Controls

VARIABLES limits, pc, kind, control, slot, source, cap, request, disk, size, names, faults,
          report, published, truth, told, window
VARIABLES
    setting,  \* setting[f]: the limits last set for the family f
    member,   \* member[r]: the family whose file system made r, or None
    inForce   \* inForce[r]: the settings of that family since r's call began

Temp == INSTANCE TempResource

temp == <<limits, pc, kind, control, slot, source, cap, request, disk, size, names, faults,
          report, published, truth, told, window>>
familyVars == <<vars, temp, setting, member, inForce>>

Begins(r) == inForce' = [inForce EXCEPT ![r] = {setting[member[r]]}]

\* Providers are built, cloned, asked for their control and resolved.
UseRegistry ==
    /\ \/ \E p \in Providers : NewHost(p) \/ NewRooted(p)
       \/ \E t \in Threads :
            \/ Proceed(t)
            \/ \E p \in Providers :
                 \/ StartControl(t, p)
                 \/ StartResolve(t, p, SoundConfig)
                 \/ \E q \in Providers : StartClone(t, p, q)
    /\ UNCHANGED <<temp, setting, member, inForce>>

\* set_limits on a control that a family handed out.
SetLimits(h, l) ==
    /\ Temp!SetLimits(h.control, l)
    /\ setting' = [setting EXCEPT ![h.family] = l]
    /\ inForce' = [r \in Resources |->
          IF member[r] = h.family /\ pc[r] \in Temp!Calls THEN inForce[r] \cup {l} ELSE inForce[r]]
    /\ UNCHANGED <<vars, member>>

\* create_temp_directory of a file system that a family handed out.
Create(r, h) ==
    /\ Temp!BeginCreate(r, "directory", h.control)
    /\ member' = [member EXCEPT ![r] = h.family]
    /\ inForce' = [inForce EXCEPT ![r] = {setting[h.family]}]
    /\ UNCHANGED <<vars, setting>>

BeginRemoval(r) ==
    /\ Temp!BeginCleanup(r) \/ Temp!BeginDrop(r)
    /\ Begins(r)
    /\ UNCHANGED <<vars, setting, member>>

Continue(r) ==
    /\ \/ Temp!CreateReturns(r, TRUE) \/ Temp!CreateReturns(r, FALSE)
       \/ Temp!EndCleanup(r) \/ Temp!EndDrop(r)
    /\ UNCHANGED <<vars, setting, member, inForce>>

FamilyInit ==
    /\ Init /\ root # None
    /\ Temp!Init
    /\ limits = [c \in Controls |-> Unbounded]
    /\ names = [n \in Names |-> Vacant]
    /\ setting = [f \in Providers |-> Unbounded]
    /\ member = [r \in Resources |-> None]
    /\ inForce = [r \in Resources |-> {}]

FamilyNext ==
    \/ UseRegistry
    \/ \E h \in handles, l \in Budgets \cup {Unbounded} : SetLimits(h, l)
    \/ \E r \in Resources, h \in handles : Create(r, h)
    \/ \E r \in Resources : BeginRemoval(r) \/ Continue(r)

FamilySpec == FamilyInit /\ [][FamilyNext]_familyVars

\* Limits set through any provider of a family, through any clone of it or
\* any control it handed out, before or after, are those that the cleanup of
\* every directory of that family runs under; limits set for another family
\* are not.
FamilyLimits ==
    \A r \in Resources :
        (pc[r] \in {"creating", "abandoning"} \/ (pc[r] \in {"cleanup", "drop"} /\ slot[r])) =>
            cap[r] \in inForce[r]

(***************************************************************************)
(* The inductive strengthening of FamilyLimits.                            *)
(***************************************************************************)

\* The parts of the session state that the limits depend on.
SharedTypeOK ==
    /\ limits \in [Controls -> Temp!Limits]
    /\ pc \in [Resources -> Temp!Calls \cup {"unborn", "idle", "dropped"}]
    /\ kind \in [Resources -> {"file", "directory"}]
    /\ control \in [Resources -> Controls \cup {NoControl}]
    /\ slot \in [Resources -> BOOLEAN]
    /\ cap \in [Resources -> Temp!Limits]
    /\ setting \in [Providers -> Temp!Limits]
    /\ member \in [Resources -> Providers \cup {None}]
    /\ inForce \in [Resources -> SUBSET Temp!Limits]

\* The setting of a family is what its control holds, and a family without
\* a control has never been given one; a control that is not in use yet
\* holds the default.
Settings ==
    /\ \A f \in Providers :
          setting[f] = IF family[f] = f /\ cell[f] \in Controls
                       THEN limits[cell[f]] ELSE Unbounded
    /\ \A c \in Controls \ allocated : limits[c] = Unbounded

\* A directory was made under the control of its family.
Member(r) ==
    pc[r] # "unborn" =>
        /\ kind[r] = "directory"
        /\ member[r] \in Providers /\ family[member[r]] = member[r]
        /\ control[r] \in Controls /\ control[r] = cell[member[r]]
Members == \A r \in Resources : Member(r)

FamilyInv == SharedTypeOK /\ Settings /\ Members /\ FamilyLimits
=============================================================================
