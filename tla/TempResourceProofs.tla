------------------------- MODULE TempResourceProofs -------------------------
(***************************************************************************)
(* Proofs about TempResource for every set of resources, controls, names   *)
(* and limits, and every bound.                                            *)
(***************************************************************************)
EXTENDS TempResource, TLAPS

USE ConstantsAssumption

(***************************************************************************)
(* Typing of the operators the actions are built from.                     *)
(***************************************************************************)

\* The portable failure state and its effect are always defined.
LEMMA FailureStateType ==
    \A pub, src : /\ PersistFailureState(pub, src) \in FailureState
                  /\ PersistEffectState(PersistFailureState(pub, src)) \in Effect
  BY DEF PersistFailureState, PersistEffectState, FailureState, Effect

\* Reports are reports.
LEMMA ReportType ==
    /\ \A op \in {"None", "Create", "Persist", "Keep", "Cleanup"} : Success(op) \in Report
    /\ \A op \in {"None", "Create", "Persist", "Keep", "Cleanup"}, k \in Kind,
          st \in FailureState \cup {"None"}, eff \in Effect : Failure(op, k, st, eff) \in Report
  BY DEF Success, Failure, Report, Kind, Effect

\* What an owner reckons with after a report are authorities.
LEMMA LearnType ==
    ASSUME NEW before \in SUBSET Source, NEW rep \in Report
    PROVE  Learn(before, rep) \in SUBSET Source
  <1>1. ToldBy(rep.state) \in SUBSET Source
    BY DEF ToldBy, Source
  <1> QED BY <1>1 DEF Learn, Source

\* The cleanup failures are reports.
LEMMA CleanupErrorType ==
    ASSUME NEW k \in NativeKind \cup {"None"}, NEW eff \in Effect, NEW src \in Source, NEW r
    PROVE  KindCleanupError(r, k, eff, src) \in Report
  <1>1. MappedKind(k) \in Kind /\ NativeEffectState(eff) \in Effect
    BY DEF MappedKind, NativeEffectState, Kind, NativeKind
  <1>2. CleanupError(k, eff, src) \in Report
    BY <1>1, ReportType DEF CleanupError, Kind, Effect
  <1> QED BY <1>2, ReportType DEF KindCleanupError, Kind, Effect

\* The outcomes of the native engine have typed fields.
LEMMA PublishOutcomeType ==
    ASSUME NEW r, NEW n, NEW overwrite, NEW o \in NativePublish(r, n, overwrite)
    PROVE  /\ o.ok \in BOOLEAN /\ o.pub \in Publication /\ o.src \in Source
           /\ o.installed \in BOOLEAN /\ o.disk \in Disk
           /\ o.kind \in NativeKind \cup {"None"}
           /\ source[r] = "Owned" => TruthfulPublish(r, n, overwrite, o)
  BY DEF NativePublish, PublishOutcome

\* The outcomes of a native cleanup have typed fields, and remove at most
\* what is there.
LEMMA CleanupOutcomeType ==
    ASSUME TypeOK, NEW r \in Resources, NEW o \in NativeCleanup(r)
    PROVE  /\ o.src \in Source /\ o.left \in 0..MaxEntries
           /\ o.kind \in NativeKind \cup {"None"} /\ o.effect \in Effect
  <1>1. source[r] \in Source /\ size[r] \in 0..MaxEntries
    BY DEF TypeOK
  <1> QED BY <1>1 DEF NativeCleanup, Untouched, BrokenRemovals, Source, NativeKind, Effect

(***************************************************************************)
(* Type correctness.                                                       *)
(***************************************************************************)

\* A return keeps the report, the deed and the owner's conclusion typed.
LEMMA ReturnType ==
    ASSUME TypeOK, NEW r \in Resources, NEW rep \in Report, NEW did \in Deed,
           Return(r, rep, did)
    PROVE  /\ report' \in [Resources -> Report]
           /\ truth' \in [Resources -> Deed]
           /\ told' \in [Resources -> SUBSET Source]
  <1>1. told[r] \in SUBSET Source
    BY DEF TypeOK
  <1>2. Learn(told[r], rep) \in SUBSET Source
    BY <1>1, LearnType
  <1> QED BY <1>2 DEF Return, TypeOK

\* A refresh installs limits.
LEMMA RefreshType ==
    ASSUME TypeOK, NEW r \in Resources
    PROVE  RefreshedCap(r) \in Limits /\ CurrentLimit(control[r]) \in Limits
  BY DEF RefreshedCap, CurrentLimit, TypeOK, Limits

\* A fault is counted up to its bound.
LEMMA FaultType ==
    ASSUME TypeOK, NEW b, FaultStep(b)
    PROVE  faults' \in 0..MaxFaults
  BY DEF FaultStep, TypeOK

\* The initial states are typed.
LEMMA InitType == Init => TypeOK
  BY ReportType DEF Init, TypeOK, Limits, Source, Disk, NoRequest, Deed, Nothing

\* TakeFor and the early returns of persist and keep.
LEMMA TakeForType ==
    ASSUME TypeOK, NEW r \in Resources, NEW call \in {"persist", "keep"},
           NEW op \in {"Persist", "Keep"}, NEW n \in Names, NEW overwrite \in BOOLEAN,
           TakeFor(r, call, op, n, overwrite)
    PROVE  /\ pc' \in [Resources -> Calls \cup {"unborn", "idle", "dropped"}]
           /\ slot' \in [Resources -> BOOLEAN]
           /\ request' \in [Resources -> [name : Names, overwrite : BOOLEAN]]
           /\ report' \in [Resources -> Report]
           /\ truth' \in [Resources -> Deed]
           /\ told' \in [Resources -> SUBSET Source]
           /\ window' \in [Resources -> SUBSET Limits]
  <1>1. CASE slot[r]
    <2>1. /\ pc' = [pc EXCEPT ![r] = call]
          /\ slot' = [slot EXCEPT ![r] = FALSE]
          /\ request' = [request EXCEPT ![r] = [name |-> n, overwrite |-> overwrite]]
          /\ window' = [window EXCEPT ![r] = {CurrentLimit(control[r])}]
          /\ UNCHANGED <<report, truth, told>>
      BY <1>1 DEF TakeFor, Enter, OpenWindow
    <2>2. {CurrentLimit(control[r])} \in SUBSET Limits
      BY RefreshType
    <2>3. [name |-> n, overwrite |-> overwrite] \in [name : Names, overwrite : BOOLEAN]
      OBVIOUS
    <2>4. call \in Calls
      BY DEF Calls
    <2> QED BY <2>1, <2>2, <2>3, <2>4 DEF TypeOK
  <1>2. CASE ~slot[r]
    <2>1. Failure(op, "InvalidState", "NotPublishedSourceReleased", "None") \in Report
      BY ReportType DEF Kind, NativeKind, FailureState, Effect
    <2>2. Nothing \in Deed
      BY DEF Nothing, Deed
    <2>3. Return(r, Failure(op, "InvalidState", "NotPublishedSourceReleased", "None"), Nothing)
      BY <1>2 DEF TakeFor
    <2>4. UNCHANGED <<pc, slot, request, window>>
      BY <1>2 DEF TakeFor
    <2> QED BY <2>1, <2>2, <2>3, <2>4, ReturnType DEF TypeOK
  <1> QED BY <1>1, <1>2

\* Every step of the program, of its users and of other programs keeps the
\* state typed.
LEMMA SetLimitsType ==
    ASSUME TypeOK, NEW c \in Controls, NEW l \in Limits, SetLimits(c, l)
    PROVE  TypeOK'
  <1>1. window' \in [Resources -> SUBSET Limits]
    BY DEF SetLimits, TypeOK
  <1>2. limits' \in [Controls -> Limits]
    BY DEF SetLimits, TypeOK
  <1>3. UNCHANGED <<adapterVars, nativeVars, published, truth, told>>
    BY DEF SetLimits
  <1> QED BY <1>1, <1>2, <1>3 DEF TypeOK, adapterVars, nativeVars

\* Starting a creation preserves the type invariant.
LEMMA BeginCreateType ==
    ASSUME TypeOK, NEW r \in Resources, NEW k \in {"file", "directory"},
           NEW c \in Controls \cup {NoControl}, BeginCreate(r, k, c)
    PROVE  TypeOK'
  <1>1. CurrentLimit(c) \in Limits
    BY DEF CurrentLimit, Limits, TypeOK
  <1>2. /\ cap' \in [Resources -> Limits]
        /\ window' \in [Resources -> SUBSET Limits]
    BY <1>1 DEF BeginCreate, OpenWindow, TypeOK
  <1>3. /\ pc' \in [Resources -> Calls \cup {"unborn", "idle", "dropped"}]
        /\ kind' \in [Resources -> {"file", "directory"}]
        /\ control' \in [Resources -> Controls \cup {NoControl}]
    BY DEF BeginCreate, TypeOK, Calls
  <1>4. UNCHANGED <<limits, slot, request, report, nativeVars, published, truth, told>>
    BY DEF BeginCreate
  <1> QED BY <1>2, <1>3, <1>4 DEF TypeOK, nativeVars

\* A failed native creation preserves it.
LEMMA CreateFailsType ==
    ASSUME TypeOK, NEW r \in Resources, CreateFails(r)
    PROVE  TypeOK'
  <1>1. faults' \in 0..MaxFaults
    BY FaultType DEF CreateFails
  <1>2. /\ pc' \in [Resources -> Calls \cup {"unborn", "idle", "dropped"}]
        /\ window' \in [Resources -> SUBSET Limits]
    BY DEF CreateFails, TypeOK
  <1>3. UNCHANGED <<limits, kind, control, slot, cap, request, report,
                    source, disk, size, names, published, truth, told>>
    BY DEF CreateFails
  <1> QED BY <1>1, <1>2, <1>3 DEF TypeOK

\* A finished native creation preserves it.
LEMMA CreateReturnsType ==
    ASSUME TypeOK, NEW r \in Resources, NEW mappable \in BOOLEAN,
           CreateReturns(r, mappable)
    PROVE  TypeOK'
  <1>1. /\ source' \in [Resources -> Source]
        /\ disk' \in [Resources -> Disk]
        /\ size' \in [Resources -> 0..MaxEntries]
        /\ slot' \in [Resources -> BOOLEAN]
    BY DEF CreateReturns, TypeOK, Source, Disk
  <1>2. /\ pc' \in [Resources -> Calls \cup {"unborn", "idle", "dropped"}]
        /\ told' \in [Resources -> SUBSET Source]
        /\ window' \in [Resources -> SUBSET Limits]
    BY DEF CreateReturns, TypeOK, Source, Calls
  <1>3. /\ Success("Create") \in Report
        /\ Failure("Create", "ProviderContractViolation", "None", "None") \in Report
    BY ReportType DEF Kind, Effect
  <1>4. report' \in [Resources -> Report]
    BY <1>3 DEF CreateReturns, TypeOK
  <1>5. UNCHANGED <<limits, kind, control, cap, request, names, faults, published, truth>>
    BY DEF CreateReturns
  <1> QED BY <1>1, <1>2, <1>4, <1>5 DEF TypeOK

\* A call that is rejected before the native step preserves it.
LEMMA RejectType ==
    ASSUME TypeOK, NEW r \in Resources, NEW rep \in Report, Return(r, rep, Nothing),
           UNCHANGED <<pc, slot, request, window>>
    PROVE  /\ pc' \in [Resources -> Calls \cup {"unborn", "idle", "dropped"}]
           /\ slot' \in [Resources -> BOOLEAN]
           /\ request' \in [Resources -> [name : Names, overwrite : BOOLEAN]]
           /\ report' \in [Resources -> Report]
           /\ truth' \in [Resources -> Deed]
           /\ told' \in [Resources -> SUBSET Source]
           /\ window' \in [Resources -> SUBSET Limits]
  <1>1. Nothing \in Deed
    BY DEF Nothing, Deed
  <1> QED BY <1>1, ReturnType DEF TypeOK

\* The failure of require_owned is a report.
LEMMA NotOwnedFailureType ==
    ASSUME NEW op \in {"Persist", "Keep"}, NEW src
    PROVE  NotOwnedFailure(op, src) \in Report
  BY FailureStateType, ReportType DEF NotOwnedFailure, Kind, NativeKind

\* Starting or rejecting a persist preserves the type invariant.
LEMMA BeginPersistType ==
    ASSUME TypeOK, NEW r \in Resources, NEW n \in Names, NEW overwrite \in BOOLEAN,
           NEW mappable \in BOOLEAN, BeginPersist(r, n, overwrite, mappable)
    PROVE  TypeOK'
  <1>1. cap' \in [Resources -> Limits]
    BY RefreshType DEF BeginPersist, TypeOK
  <1>2. UNCHANGED <<limits, kind, control, nativeVars, published>>
    BY DEF BeginPersist
  <1>3. TargetFailure(r, mappable) \in Report
    BY NotOwnedFailureType, ReportType DEF TargetFailure, Kind, NativeKind, FailureState, Effect
  <1>4. CASE /\ Return(r, TargetFailure(r, mappable), Nothing)
             /\ UNCHANGED <<pc, slot, request, window>>
    BY <1>1, <1>2, <1>3, <1>4, RejectType DEF TypeOK, nativeVars
  <1>5. CASE TakeFor(r, "persist", "Persist", n, overwrite)
    BY <1>1, <1>2, <1>5, TakeForType DEF TypeOK, nativeVars
  <1> QED BY <1>4, <1>5 DEF BeginPersist

\* Starting or rejecting a keep preserves it.
LEMMA BeginKeepType ==
    ASSUME TypeOK, NEW r \in Resources, BeginKeep(r)
    PROVE  TypeOK'
  <1>1. cap' \in [Resources -> Limits]
    BY RefreshType DEF BeginKeep, TypeOK
  <1>2. UNCHANGED <<limits, kind, control, nativeVars, published>>
    BY DEF BeginKeep
  <1>3. NotOwnedFailure("Keep", Authority(r)) \in Report
    BY NotOwnedFailureType
  <1>4. CASE /\ Return(r, NotOwnedFailure("Keep", Authority(r)), Nothing)
             /\ UNCHANGED <<pc, slot, request, window>>
    BY <1>1, <1>2, <1>3, <1>4, RejectType DEF TypeOK, nativeVars
  <1>5. CASE TakeFor(r, "keep", "Keep", KeepName[r], FALSE)
    BY <1>1, <1>2, <1>5, TakeForType DEF TypeOK, nativeVars
  <1> QED BY <1>4, <1>5 DEF BeginKeep

\* The common end of persist and keep preserves it.
LEMMA FinishPublishType ==
    ASSUME TypeOK, NEW r \in Resources, NEW rep \in Report,
           NEW o \in NativePublish(r, request[r].name, request[r].overwrite),
           FinishPublish(r, o, rep)
    PROVE  TypeOK'
  <1> USE PublishOutcomeType
  <1>1. PublishEffect(r, o)
    BY DEF FinishPublish
  <1>2. /\ source' \in [Resources -> Source]
        /\ disk' \in [Resources -> Disk]
    BY <1>1 DEF PublishEffect, TypeOK
  <1>3. size' \in [Resources -> 0..MaxEntries]
    BY <1>1 DEF PublishEffect, TypeOK
  <1>4. request[r].name \in Names
    BY DEF TypeOK
  <1>5. names' \in [Names -> Resources \cup {Vacant, Foreign}] /\ published' \in SUBSET Resources
    BY <1>1, <1>4 DEF PublishEffect, TypeOK
  <1>6. faults' \in 0..MaxFaults
    BY <1>1, FaultType DEF PublishEffect
  <1>7. slot' \in [Resources -> BOOLEAN]
    BY DEF FinishPublish, RestoredSlot, TypeOK
  <1>8. [Nothing EXCEPT !.installed = o.installed, !.residue = o.disk = "sandbox",
                          !.known = o.pub # "Indeterminate"] \in Deed
    BY DEF Nothing, Deed
  <1>9. /\ report' \in [Resources -> Report]
        /\ truth' \in [Resources -> Deed]
        /\ told' \in [Resources -> SUBSET Source]
    BY <1>8, ReturnType DEF FinishPublish
  <1>10. /\ pc' \in [Resources -> Calls \cup {"unborn", "idle", "dropped"}]
         /\ window' \in [Resources -> SUBSET Limits]
    BY DEF FinishPublish, TypeOK
  <1>11. NoRequest(r) \in [name : Names, overwrite : BOOLEAN]
    BY DEF NoRequest
  <1>12. request' \in [Resources -> [name : Names, overwrite : BOOLEAN]]
    BY <1>11 DEF FinishPublish, TypeOK
  <1>13. UNCHANGED <<limits, kind, control, cap>>
    BY DEF FinishPublish
  <1> QED BY <1>2, <1>3, <1>5, <1>6, <1>7, <1>9, <1>10, <1>12, <1>13 DEF TypeOK

\* What persist and keep report is a report.
LEMMA PublishReportType ==
    ASSUME NEW op \in {"Persist", "Keep"}, NEW k \in Kind, NEW o
    PROVE  /\ MapPersistOutcome(op, o) \in Report
           /\ PublishFailure(op, k, o) \in Report
  <1>1. MapPersistOutcome(op, o) \in Report
    <2>1. Success(op) \in Report
      BY ReportType
    <2> QED BY <2>1 DEF MapPersistOutcome, Report
  <1>2. PublishFailure(op, k, o) \in Report
    BY FailureStateType, ReportType DEF PublishFailure
  <1> QED BY <1>1, <1>2

\* Every native kind has a portable one.
LEMMA MappedKindType ==
    ASSUME NEW k \in NativeKind \cup {"None"}
    PROVE  MappedKind(k) \in Kind
  BY DEF MappedKind, Kind, NativeKind

\* The end of a persist preserves the type invariant.
LEMMA EndPersistType ==
    ASSUME TypeOK, NEW r \in Resources, EndPersist(r)
    PROVE  TypeOK'
  <1>1. PICK o \in NativePublish(r, request[r].name, request[r].overwrite) :
          FinishPublish(r, o, IF o.ok THEN MapPersistOutcome("Persist", o)
                              ELSE PublishFailure("Persist", MappedKind(o.kind), o))
    BY DEF EndPersist
  <1>2. MappedKind(o.kind) \in Kind
    BY PublishOutcomeType, MappedKindType
  <1>3. (IF o.ok THEN MapPersistOutcome("Persist", o)
         ELSE PublishFailure("Persist", MappedKind(o.kind), o)) \in Report
    BY <1>2, PublishReportType
  <1> QED BY <1>1, <1>3, FinishPublishType

\* The end of a keep preserves it.
LEMMA EndKeepType ==
    ASSUME TypeOK, NEW r \in Resources, NEW mappable \in BOOLEAN, EndKeep(r, mappable)
    PROVE  TypeOK'
  <1> DEFINE Rep(o) ==
        IF o.ok
        THEN IF mappable THEN MapPersistOutcome("Keep", o)
             ELSE Failure("Keep", "ProviderContractViolation",
                          "PublishedSourceReleased", "Applied")
        ELSE PublishFailure("Keep", IF mappable THEN MappedKind(o.kind)
                                    ELSE "ProviderContractViolation", o)
  <1>1. PICK o \in NativePublish(r, request[r].name, request[r].overwrite) :
          FinishPublish(r, o, Rep(o))
    BY DEF EndKeep
  <1>2. MappedKind(o.kind) \in Kind /\ "ProviderContractViolation" \in Kind
    BY PublishOutcomeType, MappedKindType DEF Kind
  <1>3. Failure("Keep", "ProviderContractViolation", "PublishedSourceReleased", "Applied") \in Report
    BY <1>2, ReportType DEF FailureState, Effect
  <1>4. Rep(o) \in Report
    BY <1>2, <1>3, PublishReportType
  <1> HIDE DEF Rep
  <1> QED BY <1>1, <1>4, FinishPublishType

\* What a native cleanup does to the disk is typed.
LEMMA CleanupEffectType ==
    ASSUME TypeOK, NEW r \in Resources, NEW o \in NativeCleanup(r), CleanupEffect(r, o)
    PROVE  /\ source' \in [Resources -> Source]
           /\ disk' \in [Resources -> Disk]
           /\ size' \in [Resources -> 0..MaxEntries]
           /\ names' \in [Names -> Resources \cup {Vacant, Foreign}]
           /\ faults' \in 0..MaxFaults
  <1>1. faults' \in 0..MaxFaults
    BY FaultType DEF CleanupEffect
  <1> QED BY <1>1, CleanupOutcomeType DEF CleanupEffect, TypeOK, Disk

\* Starting or rejecting a cleanup preserves the type invariant.
LEMMA BeginCleanupType ==
    ASSUME TypeOK, NEW r \in Resources, BeginCleanup(r)
    PROVE  TypeOK'
  <1>1. cap' \in [Resources -> Limits]
    BY RefreshType DEF BeginCleanup, TypeOK
  <1>2. UNCHANGED <<limits, kind, control, slot, request, nativeVars, published>>
    BY DEF BeginCleanup
  <1>3. Failure("Cleanup", "InvalidState", "None", "None") \in Report
    BY ReportType DEF Kind, NativeKind, Effect
  <1>4. CASE /\ Return(r, Failure("Cleanup", "InvalidState", "None", "None"), Nothing)
             /\ UNCHANGED <<pc, window>>
    BY <1>1, <1>2, <1>3, <1>4, RejectType DEF TypeOK, nativeVars
  <1>5. CASE Enter(r, "cleanup") /\ OpenWindow(r, control[r])
    <2>1. /\ pc' \in [Resources -> Calls \cup {"unborn", "idle", "dropped"}]
          /\ window' \in [Resources -> SUBSET Limits]
      BY <1>5, RefreshType DEF Enter, OpenWindow, TypeOK, Calls
    <2> QED BY <1>1, <1>2, <1>5, <2>1 DEF TypeOK, nativeVars, Enter
  <1> QED BY <1>4, <1>5 DEF BeginCleanup

\* The end of a cleanup preserves it.
LEMMA EndCleanupType ==
    ASSUME TypeOK, NEW r \in Resources, EndCleanup(r)
    PROVE  TypeOK'
  <1> DEFINE Rep(o) == IF o.kind = "None" THEN Success("Cleanup")
                       ELSE KindCleanupError(r, o.kind, o.effect, o.src)
             Did(o) == [Nothing EXCEPT !.removed = Removed(r, o.left),
                                       !.known = o.effect # "Indeterminate"]
  <1>1. PICK o \in NativeCleanup(r) : CleanupEffect(r, o) /\ Return(r, Rep(o), Did(o))
    BY DEF EndCleanup
  <1>2. Rep(o) \in Report
    BY CleanupOutcomeType, CleanupErrorType, ReportType
  <1>3. Did(o) \in Deed
    BY DEF Nothing, Deed, Removed
  <1> HIDE DEF Rep, Did
  <1>4. /\ report' \in [Resources -> Report]
        /\ truth' \in [Resources -> Deed]
        /\ told' \in [Resources -> SUBSET Source]
    BY <1>1, <1>2, <1>3, ReturnType
  <1>5. /\ pc' \in [Resources -> Calls \cup {"unborn", "idle", "dropped"}]
        /\ window' \in [Resources -> SUBSET Limits]
        /\ UNCHANGED <<limits, kind, control, slot, cap, request, published>>
    BY DEF EndCleanup, TypeOK
  <1> QED BY <1>1, <1>4, <1>5, CleanupEffectType DEF TypeOK

\* Starting a drop preserves it.
LEMMA BeginDropType ==
    ASSUME TypeOK, NEW r \in Resources, BeginDrop(r)
    PROVE  TypeOK'
  <1>1. cap' \in [Resources -> Limits]
    BY RefreshType DEF BeginDrop, TypeOK
  <1>2. /\ pc' \in [Resources -> Calls \cup {"unborn", "idle", "dropped"}]
        /\ window' \in [Resources -> SUBSET Limits]
    BY RefreshType DEF BeginDrop, Enter, OpenWindow, TypeOK, Calls
  <1>3. UNCHANGED <<limits, kind, control, slot, request, nativeVars, published, report, truth, told>>
    BY DEF BeginDrop, Enter
  <1> QED BY <1>1, <1>2, <1>3 DEF TypeOK, nativeVars

\* The end of a drop preserves it.
LEMMA EndDropType ==
    ASSUME TypeOK, NEW r \in Resources, EndDrop(r)
    PROVE  TypeOK'
  <1>1. /\ source' \in [Resources -> Source]
        /\ disk' \in [Resources -> Disk]
        /\ size' \in [Resources -> 0..MaxEntries]
        /\ names' \in [Names -> Resources \cup {Vacant, Foreign}]
        /\ faults' \in 0..MaxFaults
    <2>1. CASE \E o \in NativeCleanup(r) : CleanupEffect(r, o)
      BY <2>1, CleanupEffectType
    <2>2. CASE UNCHANGED nativeVars
      BY <2>2 DEF TypeOK, nativeVars
    <2> QED BY <2>1, <2>2 DEF EndDrop
  <1>2. /\ pc' \in [Resources -> Calls \cup {"unborn", "idle", "dropped"}]
        /\ slot' \in [Resources -> BOOLEAN]
        /\ window' \in [Resources -> SUBSET Limits]
        /\ UNCHANGED <<limits, kind, control, cap, request, report, published, truth, told>>
    BY DEF EndDrop, TypeOK
  <1> QED BY <1>1, <1>2 DEF TypeOK

\* The owner's and other programs' changes to a private tree preserve it.
LEMMA DiskType ==
    ASSUME TypeOK, NEW r \in Resources, AddEntry(r) \/ Displace(r) \/ Replace(r)
    PROVE  TypeOK'
  <1>1. /\ size' \in [Resources -> 0..MaxEntries]
        /\ disk' \in [Resources -> Disk]
    <2>1. CASE AddEntry(r)
      <3>1. size[r] \in Nat /\ size[r] + 1 \in 0..MaxEntries
        BY <2>1 DEF AddEntry, TypeOK
      <3> QED BY <2>1, <3>1 DEF AddEntry, TypeOK
    <2>2. CASE Displace(r) \/ Replace(r)
      <3>1. size \in [Resources -> 0..MaxEntries] /\ disk \in [Resources -> Disk]
        BY DEF TypeOK
      <3>2. 0 \in 0..MaxEntries /\ "missing" \in Disk /\ "foreign" \in Disk
        BY DEF Disk
      <3> QED BY <2>2, <3>1, <3>2 DEF Displace, Replace
    <2> QED BY <2>1, <2>2
  <1>2. UNCHANGED <<limits, adapterVars, source, names, faults, historyVars>>
    BY DEF AddEntry, Displace, Replace
  <1> QED BY <1>1, <1>2 DEF TypeOK, adapterVars, historyVars

\* Other programs' changes to the public names preserve it.
LEMMA ChangeNameType ==
    ASSUME TypeOK, NEW n \in Names, ChangeName(n)
    PROVE  TypeOK'
  <1>1. names' \in [Names -> Resources \cup {Vacant, Foreign}]
    BY DEF ChangeName, TypeOK
  <1>2. UNCHANGED <<limits, adapterVars, source, disk, size, faults, historyVars>>
    BY DEF ChangeName
  <1> QED BY <1>1, <1>2 DEF TypeOK, adapterVars, historyVars

\* Every variable keeps its type through every interleaving of the calls of
\* all sessions, the changes of their limits and the other programs' steps.
THEOREM TypeCorrect == Spec => []TypeOK
  <1>1. TypeOK /\ [Next]_vars => TypeOK'
    <2> SUFFICES ASSUME TypeOK, [Next]_vars PROVE TypeOK'
      OBVIOUS
    <2>1. CASE Environment
      BY <2>1, SetLimitsType, DiskType, ChangeNameType DEF Environment
    <2>2. CASE \E r \in Resources : Session(r)
      <3>1. PICK r \in Resources : Session(r)
        BY <2>2
      <3> QED
        BY <3>1, BeginCreateType, CreateFailsType, CreateReturnsType, BeginPersistType,
           EndPersistType, BeginKeepType, EndKeepType, BeginCleanupType, EndCleanupType,
           BeginDropType, EndDropType DEF Session
    <2>3. CASE UNCHANGED vars
      BY <2>3 DEF TypeOK, vars, adapterVars, nativeVars, historyVars
    <2> QED BY <2>1, <2>2, <2>3 DEF Next
  <1> QED BY <1>1, InitType, PTL DEF Spec

(***************************************************************************)
(* The inductive invariant.                                                *)
(***************************************************************************)

\* The inductive invariant holds initially.
LEMMA InitSession == Init => SessionInv
  <1> SUFFICES ASSUME Init, NEW r \in Resources
               PROVE  /\ pc[r] = "unborn" /\ source[r] = "Released" /\ r \notin published
                      /\ control[r] = NoControl /\ cap[r] = Unbounded
    BY DEF SessionInv, SessionOK
  <1> QED BY DEF Init

\* A rejected persist, keep or cleanup tells the authority it found.
LEMMA NotOwnedTold ==
    ASSUME NEW op \in {"Persist", "Keep"}, NEW src \in Source \ {"Owned"}, NEW before
    PROVE  Learn(before, NotOwnedFailure(op, src)) = {src}
  <1>1. PersistFailureState("NotPublished", src) =
          CASE src = "Released" -> "NotPublishedSourceReleased"
            [] src = "Indeterminate" -> "NotPublishedSourceIndeterminate"
            [] src = "CleanupRequired" -> "NotPublishedSourceCleanupRequired"
    BY DEF PersistFailureState, Source
  <1> DEFINE st == PersistFailureState("NotPublished", src)
  <1>2. ToldBy(st) = {src}
    BY <1>1 DEF ToldBy, Source
  <1>3. /\ NotOwnedFailure(op, src).op = op
        /\ NotOwnedFailure(op, src).ok = FALSE
        /\ NotOwnedFailure(op, src).state = st
    BY DEF NotOwnedFailure, Failure
  <1> HIDE DEF st
  <1> QED BY <1>2, <1>3 DEF Learn

\* A failed publication admits the authority it left.
LEMMA PublishFailureTold ==
    ASSUME NEW op \in {"Persist", "Keep"}, NEW k, NEW before, NEW o,
           o.pub \in Publication, o.src \in Source
    PROVE  o.src \in Learn(before, PublishFailure(op, k, o))
  <1> DEFINE st == PersistFailureState(o.pub, o.src)
  <1>1. o.src \in ToldBy(st)
    BY DEF PersistFailureState, ToldBy, Source, Publication
  <1>2. /\ PublishFailure(op, k, o).op = op
        /\ PublishFailure(op, k, o).ok = FALSE
        /\ PublishFailure(op, k, o).state = st
    BY DEF PublishFailure, Failure
  <1> HIDE DEF st
  <1> QED BY <1>1, <1>2 DEF Learn

\* A step that leaves a session's own state alone keeps its invariant.
LEMMA SessionFrame ==
    ASSUME NEW s \in Resources, SessionOK(s),
           pc'[s] = pc[s], source'[s] = source[s], slot'[s] = slot[s], told'[s] = told[s],
           kind'[s] = kind[s], control'[s] = control[s], cap'[s] = cap[s],
           window'[s] = window[s], s \in published' <=> s \in published
    PROVE  SessionOK(s)'
  BY DEF SessionOK, Authority

\* The limits a refresh installs are the ones in force at that moment.
LEMMA RefreshInForce ==
    ASSUME TypeOK, SessionInv, NEW r \in Resources, slot[r]
    PROVE  RefreshedCap(r) = CurrentLimit(control[r])
  BY DEF TypeOK, SessionInv, SessionOK, RefreshedCap, CurrentLimit

\* Without a control there is no limit, refreshed or not.
LEMMA RefreshUncontrolled ==
    ASSUME SessionInv, NEW r \in Resources, control[r] = NoControl
    PROVE  RefreshedCap(r) = Unbounded
  BY DEF SessionInv, SessionOK, RefreshedCap

\* A change of limits widens the windows of the calls in progress and
\* preserves the inductive invariant.
LEMMA SetLimitsSession ==
    ASSUME TypeOK, SessionInv, NEW c \in Controls, NEW l \in Limits, SetLimits(c, l)
    PROVE  SessionInv'
  <1> SUFFICES ASSUME NEW s \in Resources PROVE SessionOK(s)'
    BY DEF SessionInv
  <1>1. UNCHANGED <<pc, kind, control, slot, cap, source, published, told>>
    BY DEF SetLimits, adapterVars, nativeVars
  <1>2. window[s] \subseteq window'[s]
    BY DEF SetLimits, TypeOK
  <1>3. SessionOK(s)
    BY DEF SessionInv
  <1> QED BY <1>1, <1>2, <1>3 DEF SessionOK, Authority

\* Starting a creation preserves the inductive invariant.
LEMMA BeginCreateSession ==
    ASSUME TypeOK, SessionInv, NEW r \in Resources, NEW k \in {"file", "directory"},
           NEW c \in Controls \cup {NoControl}, BeginCreate(r, k, c)
    PROVE  SessionInv'
  <1> SUFFICES ASSUME NEW s \in Resources PROVE SessionOK(s)'
    BY DEF SessionInv
  <1>1. SessionOK(s)
    BY DEF SessionInv
  <1>2. CASE s # r
    BY <1>1, <1>2, SessionFrame DEF BeginCreate, OpenWindow, TypeOK, nativeVars
  <1>3. CASE s = r
    <2>1. /\ pc[r] = "unborn" /\ pc'[r] = "creating"
          /\ kind'[r] = k /\ control'[r] = c /\ (k = "file" => c = NoControl)
          /\ cap'[r] = CurrentLimit(c) /\ window'[r] = {CurrentLimit(c)}
          /\ source'[r] = source[r] /\ published' = published
      BY DEF BeginCreate, OpenWindow, TypeOK, nativeVars
    <2> QED BY <1>1, <1>3, <2>1 DEF SessionOK, CurrentLimit
  <1> QED BY <1>2, <1>3

\* A failed native creation preserves it.
LEMMA CreateFailsSession ==
    ASSUME TypeOK, SessionInv, NEW r \in Resources, CreateFails(r)
    PROVE  SessionInv'
  <1> SUFFICES ASSUME NEW s \in Resources PROVE SessionOK(s)'
    BY DEF SessionInv
  <1>1. SessionOK(s)
    BY DEF SessionInv
  <1>2. CASE s # r
    BY <1>1, <1>2, SessionFrame DEF CreateFails, TypeOK
  <1>3. CASE s = r
    BY <1>1, <1>3 DEF CreateFails, TypeOK, SessionOK
  <1> QED BY <1>2, <1>3

\* A finished native creation preserves it.
LEMMA CreateReturnsSession ==
    ASSUME TypeOK, SessionInv, NEW r \in Resources, NEW mappable \in BOOLEAN,
           CreateReturns(r, mappable)
    PROVE  SessionInv'
  <1> SUFFICES ASSUME NEW s \in Resources PROVE SessionOK(s)'
    BY DEF SessionInv
  <1>1. SessionOK(s)
    BY DEF SessionInv
  <1>2. CASE s # r
    BY <1>1, <1>2, SessionFrame DEF CreateReturns, TypeOK
  <1>3. CASE s = r
    <2>1. /\ pc[r] = "creating" /\ source'[r] = "Owned" /\ slot'[r] = mappable
          /\ pc'[r] = IF mappable THEN "idle" ELSE "abandoning"
          /\ told'[r] = {IF mappable THEN "Owned" ELSE "Released"}
          /\ window'[r] = IF mappable THEN {} ELSE window[r]
          /\ UNCHANGED <<kind, control, cap, published>>
      BY DEF CreateReturns, TypeOK
    <2> QED BY <1>1, <1>3, <2>1 DEF SessionOK, Authority
  <1> QED BY <1>2, <1>3

\* Taking the resource for a publication that require_owned let through.
LEMMA TakeForSession ==
    ASSUME TypeOK, SessionInv, NEW r \in Resources, pc[r] = "idle", RequireOwned(r),
           NEW call \in {"persist", "keep"}, NEW op, NEW n, NEW overwrite,
           TakeFor(r, call, op, n, overwrite),
           cap' = [cap EXCEPT ![r] = RefreshedCap(r)],
           UNCHANGED <<limits, kind, control, nativeVars, published>>
    PROVE  SessionInv'
  <1> SUFFICES ASSUME NEW s \in Resources PROVE SessionOK(s)'
    BY DEF SessionInv
  <1>1. SessionOK(s)
    BY DEF SessionInv
  <1>2. slot[r] /\ source[r] = "Owned"
    BY DEF RequireOwned, Authority
  <1>3. /\ pc' = [pc EXCEPT ![r] = call]
        /\ slot' = [slot EXCEPT ![r] = FALSE]
        /\ window' = [window EXCEPT ![r] = {CurrentLimit(control[r])}]
        /\ UNCHANGED <<told, source>>
    BY <1>2 DEF TakeFor, Enter, OpenWindow, nativeVars
  <1>4. CASE s # r
    BY <1>1, <1>3, <1>4, SessionFrame DEF TypeOK
  <1>5. CASE s = r
    BY <1>1, <1>2, <1>3, <1>5, RefreshUncontrolled DEF TypeOK, SessionOK
  <1> QED BY <1>4, <1>5

\* A rejected call leaves the session as it was, except for its limits.
LEMMA RejectSession ==
    ASSUME TypeOK, SessionInv, NEW r \in Resources, pc[r] = "idle", NEW rep, NEW did,
           Return(r, rep, did), Authority(r) \in Learn(told[r], rep),
           cap' = [cap EXCEPT ![r] = RefreshedCap(r)],
           UNCHANGED <<pc, slot, window, limits, kind, control, nativeVars, published>>
    PROVE  SessionInv'
  <1> SUFFICES ASSUME NEW s \in Resources PROVE SessionOK(s)'
    BY DEF SessionInv
  <1>1. SessionOK(s)
    BY DEF SessionInv
  <1>2. told' = [told EXCEPT ![r] = Learn(told[r], rep)] /\ source' = source
    BY DEF Return, nativeVars
  <1>3. CASE s # r
    BY <1>1, <1>2, <1>3, SessionFrame DEF TypeOK
  <1>4. CASE s = r
    BY <1>1, <1>2, <1>4, RefreshUncontrolled DEF TypeOK, SessionOK, Authority
  <1> QED BY <1>3, <1>4

\* The failures of target() tell the authority the adapter sees.
LEMMA TargetFailureTold ==
    ASSUME TypeOK, NEW r \in Resources, NEW mappable, NEW before
    PROVE  Authority(r) \in Learn(before, TargetFailure(r, mappable))
  <1>1. CASE RequireOwned(r)
    <2>1. TargetFailure(r, mappable) = Failure("Persist", "InvalidPath", "NotPublished", "None")
      BY <1>1 DEF TargetFailure
    <2>2. Learn(before, TargetFailure(r, mappable)) = ToldBy("NotPublished")
      BY <2>1 DEF Learn, Failure
    <2> QED BY <1>1, <2>2 DEF ToldBy, RequireOwned
  <1>2. CASE ~RequireOwned(r)
    <2>1. Authority(r) \in Source \ {"Owned"}
      BY <1>2 DEF RequireOwned, Authority, TypeOK, Source
    <2> QED BY <1>2, <2>1, NotOwnedTold DEF TargetFailure
  <1> QED BY <1>1, <1>2

\* Starting or rejecting a persist preserves the inductive invariant.
LEMMA BeginPersistSession ==
    ASSUME TypeOK, SessionInv, NEW r \in Resources, NEW n \in Names, NEW overwrite \in BOOLEAN,
           NEW mappable \in BOOLEAN, BeginPersist(r, n, overwrite, mappable)
    PROVE  SessionInv'
  <1>1. /\ pc[r] = "idle"
        /\ cap' = [cap EXCEPT ![r] = RefreshedCap(r)]
        /\ UNCHANGED <<limits, kind, control, nativeVars, published>>
    BY DEF BeginPersist
  <1>2. CASE /\ Return(r, TargetFailure(r, mappable), Nothing)
             /\ UNCHANGED <<pc, slot, request, window>>
    BY <1>1, <1>2, TargetFailureTold, RejectSession
  <1>3. CASE RequireOwned(r) /\ TakeFor(r, "persist", "Persist", n, overwrite)
    BY <1>1, <1>3, TakeForSession
  <1> QED BY <1>2, <1>3 DEF BeginPersist

\* Starting or rejecting a keep preserves it.
LEMMA BeginKeepSession ==
    ASSUME TypeOK, SessionInv, NEW r \in Resources, BeginKeep(r)
    PROVE  SessionInv'
  <1>1. /\ pc[r] = "idle"
        /\ cap' = [cap EXCEPT ![r] = RefreshedCap(r)]
        /\ UNCHANGED <<limits, kind, control, nativeVars, published>>
    BY DEF BeginKeep
  <1>2. CASE /\ ~RequireOwned(r)
             /\ Return(r, NotOwnedFailure("Keep", Authority(r)), Nothing)
             /\ UNCHANGED <<pc, slot, request, window>>
    <2>1. Authority(r) \in Source \ {"Owned"}
      BY <1>2 DEF RequireOwned, Authority, TypeOK, Source
    <2>2. Learn(told[r], NotOwnedFailure("Keep", Authority(r))) = {Authority(r)}
      BY <2>1, NotOwnedTold
    <2> QED BY <1>1, <1>2, <2>2, RejectSession
  <1>3. CASE RequireOwned(r) /\ TakeFor(r, "keep", "Keep", KeepName[r], FALSE)
    BY <1>1, <1>3, TakeForSession
  <1> QED BY <1>2, <1>3 DEF BeginKeep

\* A publication that ends, whatever its outcome, admits the authority it
\* leaves the adapter with.
LEMMA FinishPublishSession ==
    ASSUME TypeOK, SessionInv, NEW r \in Resources, pc[r] \in {"persist", "keep"}, NEW rep,
           NEW o \in NativePublish(r, request[r].name, request[r].overwrite),
           FinishPublish(r, o, rep),
           (IF o.ok THEN "Released" ELSE o.src) \in Learn(told[r], rep)
    PROVE  SessionInv'
  <1> SUFFICES ASSUME NEW s \in Resources PROVE SessionOK(s)'
    BY DEF SessionInv
  <1>1. SessionOK(s) /\ SessionOK(r)
    BY DEF SessionInv
  <1>2. TruthfulPublish(r, request[r].name, request[r].overwrite, o)
    BY <1>1, PublishOutcomeType DEF SessionOK
  <1>3. /\ source' = [source EXCEPT ![r] = o.src]
        /\ published' = IF o.installed THEN published \cup {r} ELSE published
        /\ slot' = [slot EXCEPT ![r] = ~o.ok]
        /\ pc' = [pc EXCEPT ![r] = "idle"]
        /\ told' = [told EXCEPT ![r] = Learn(told[r], rep)]
        /\ window' = [window EXCEPT ![r] = {}]
        /\ UNCHANGED <<kind, control, cap>>
    BY DEF FinishPublish, PublishEffect, Return, RestoredSlot
  <1>4. CASE s # r
    BY <1>1, <1>3, <1>4, SessionFrame DEF TypeOK
  <1>5. CASE s = r
    <2>1. o.src = "Owned" => ~o.installed /\ ~o.ok
      BY <1>2 DEF TruthfulPublish
    <2>2. o.ok => o.src = "Released"
      BY <1>2 DEF TruthfulPublish
    <2>3. /\ pc'[r] = "idle" /\ source'[r] = o.src /\ slot'[r] = ~o.ok
          /\ told'[r] = Learn(told[r], rep)
      BY <1>3 DEF TypeOK
    <2>4. o.ok \in BOOLEAN
      BY PublishOutcomeType
    <2>5. o.src = "Owned" => r \notin published'
      BY <1>1, <1>3, <2>1 DEF SessionOK
    <2>6. Authority(r)' = IF o.ok THEN "Released" ELSE o.src
      BY <2>3, <2>4 DEF Authority
    <2>7. source'[r] \in {"Owned", "CleanupRequired"} => slot'[r]
      BY <2>2, <2>3, <2>4
    <2> QED BY <1>1, <1>3, <1>5, <2>3, <2>5, <2>6, <2>7 DEF SessionOK
  <1> QED BY <1>4, <1>5

\* A successful publication tells the owner that the source is released.
LEMMA MapPersistTold ==
    ASSUME NEW op \in {"Persist", "Keep"}, NEW before, NEW o
    PROVE  Learn(before, MapPersistOutcome(op, o)) = {"Released"}
  BY DEF Learn, MapPersistOutcome, Success

\* The end of a persist preserves the inductive invariant.
LEMMA EndPersistSession ==
    ASSUME TypeOK, SessionInv, NEW r \in Resources, EndPersist(r)
    PROVE  SessionInv'
  <1>1. PICK o \in NativePublish(r, request[r].name, request[r].overwrite) :
          FinishPublish(r, o, IF o.ok THEN MapPersistOutcome("Persist", o)
                              ELSE PublishFailure("Persist", MappedKind(o.kind), o))
    BY DEF EndPersist
  <1>2. o.pub \in Publication /\ o.src \in Source
    BY PublishOutcomeType
  <1>3. pc[r] = "persist"
    BY DEF EndPersist
  <1> QED BY <1>1, <1>2, <1>3, MapPersistTold, PublishFailureTold, FinishPublishSession

\* The end of a keep preserves it, mappable target or not.
LEMMA EndKeepSession ==
    ASSUME TypeOK, SessionInv, NEW r \in Resources, NEW mappable \in BOOLEAN, EndKeep(r, mappable)
    PROVE  SessionInv'
  <1> DEFINE Unmappable == Failure("Keep", "ProviderContractViolation",
                                   "PublishedSourceReleased", "Applied")
             Rep(o) ==
               IF o.ok
               THEN IF mappable THEN MapPersistOutcome("Keep", o) ELSE Unmappable
               ELSE PublishFailure("Keep", IF mappable THEN MappedKind(o.kind)
                                           ELSE "ProviderContractViolation", o)
  <1>1. PICK o \in NativePublish(r, request[r].name, request[r].overwrite) :
          FinishPublish(r, o, Rep(o))
    BY DEF EndKeep
  <1>2. o.pub \in Publication /\ o.src \in Source
    BY PublishOutcomeType
  <1>3. Learn(told[r], Unmappable) = {"Released"}
    BY DEF Learn, Failure, ToldBy
  <1>4. (IF o.ok THEN "Released" ELSE o.src) \in Learn(told[r], Rep(o))
    <2>1. CASE o.ok
      BY <2>1, <1>3, MapPersistTold
    <2>2. CASE ~o.ok
      BY <2>2, <1>2, PublishFailureTold
    <2> QED BY <2>1, <2>2
  <1>5. pc[r] = "keep"
    BY DEF EndKeep
  <1> HIDE DEF Rep
  <1> QED BY <1>1, <1>4, <1>5, FinishPublishSession

\* Starting or rejecting a cleanup preserves it.
LEMMA BeginCleanupSession ==
    ASSUME TypeOK, SessionInv, NEW r \in Resources, BeginCleanup(r)
    PROVE  SessionInv'
  <1>1. /\ pc[r] = "idle"
        /\ cap' = [cap EXCEPT ![r] = RefreshedCap(r)]
        /\ UNCHANGED <<limits, kind, control, slot, request, nativeVars, published>>
    BY DEF BeginCleanup
  <1>2. CASE /\ ~slot[r]
             /\ Return(r, Failure("Cleanup", "InvalidState", "None", "None"), Nothing)
             /\ UNCHANGED <<pc, window>>
    <2>1. Learn(told[r], Failure("Cleanup", "InvalidState", "None", "None")) = told[r]
      BY DEF Learn, Failure
    <2>2. Authority(r) \in told[r]
      BY <1>1 DEF SessionInv, SessionOK
    <2> QED BY <1>1, <1>2, <2>1, <2>2, RejectSession
  <1>3. CASE slot[r] /\ Enter(r, "cleanup") /\ OpenWindow(r, control[r])
    <2> SUFFICES ASSUME NEW s \in Resources PROVE SessionOK(s)'
      BY DEF SessionInv
    <2>1. SessionOK(s)
      BY DEF SessionInv
    <2>2. /\ pc' = [pc EXCEPT ![r] = "cleanup"]
          /\ window' = [window EXCEPT ![r] = {CurrentLimit(control[r])}]
          /\ UNCHANGED <<told, source>>
      BY <1>1, <1>3 DEF Enter, OpenWindow, nativeVars
    <2>3. CASE s # r
      BY <1>1, <2>1, <2>2, <2>3, SessionFrame DEF TypeOK
    <2>4. CASE s = r
      <3>1. cap'[r] \in window'[r]
        BY <1>1, <1>3, <2>2, RefreshInForce DEF TypeOK
      <3>2. control[r] = NoControl => cap'[r] = Unbounded
        BY <1>1, RefreshUncontrolled DEF TypeOK
      <3> QED BY <1>1, <1>3, <2>1, <2>2, <2>4, <3>1, <3>2 DEF TypeOK, SessionOK, Authority
    <2> QED BY <2>3, <2>4
  <1> QED BY <1>2, <1>3 DEF BeginCleanup

\* A native cleanup releases the source, loses track of it, or leaves its
\* authority as it was.
LEMMA CleanupAuthority ==
    ASSUME TypeOK, NEW r \in Resources, NEW o \in NativeCleanup(r)
    PROVE  /\ o.src \in {source[r], "Released", "Indeterminate"}
           /\ o.kind = "None" => o.src = "Released"
           /\ o.src \in {"Owned", "CleanupRequired"} => o.src = source[r]
           /\ o.kind # "None" => o.src = source[r] \/ o.src = "Indeterminate"
           /\ o.src # source[r] => source[r] \in {"Owned", "CleanupRequired"}
  <1>1. CASE source[r] \in {"Released", "Indeterminate"}
    BY <1>1 DEF NativeCleanup, Untouched
  <1>2. CASE source[r] \in {"Owned", "CleanupRequired"} /\ disk[r] \in {"missing", "foreign"}
    BY <1>2 DEF NativeCleanup, Untouched
  <1>3. CASE source[r] \in {"Owned", "CleanupRequired"} /\ disk[r] \in {"ours", "sandbox"}
    BY <1>3 DEF NativeCleanup, Untouched, BrokenRemovals
  <1> QED BY <1>1, <1>2, <1>3 DEF TypeOK, Source, Disk

\* A failed cleanup admits what was known before.
LEMMA CleanupTold ==
    ASSUME NEW before, NEW rep, rep.op = "Cleanup", rep.ok = FALSE
    PROVE  /\ before \subseteq Learn(before, rep)
           /\ rep.kind = "Indeterminate" => "Indeterminate" \in Learn(before, rep)
  BY DEF Learn

\* A cleanup that loses the source is reported with a kind that admits it.
LEMMA CleanupErrorTold ==
    ASSUME NEW r, NEW k, NEW eff, NEW src, NEW before
    PROVE  /\ before \subseteq Learn(before, KindCleanupError(r, k, eff, src))
           /\ src = "Indeterminate" =>
                 "Indeterminate" \in Learn(before, KindCleanupError(r, k, eff, src))
  <1>1. /\ KindCleanupError(r, k, eff, src).op = "Cleanup"
        /\ KindCleanupError(r, k, eff, src).ok = FALSE
        /\ src = "Indeterminate" => KindCleanupError(r, k, eff, src).kind = "Indeterminate"
    BY DEF KindCleanupError, CleanupError, Failure
  <1> QED BY <1>1, CleanupTold

\* The end of a cleanup preserves the inductive invariant.
LEMMA EndCleanupSession ==
    ASSUME TypeOK, SessionInv, NEW r \in Resources, EndCleanup(r)
    PROVE  SessionInv'
  <1> DEFINE Rep(o) == IF o.kind = "None" THEN Success("Cleanup")
                       ELSE KindCleanupError(r, o.kind, o.effect, o.src)
             Did(o) == [Nothing EXCEPT !.removed = Removed(r, o.left),
                                       !.known = o.effect # "Indeterminate"]
  <1> SUFFICES ASSUME NEW s \in Resources PROVE SessionOK(s)'
    BY DEF SessionInv
  <1>1. PICK o \in NativeCleanup(r) : CleanupEffect(r, o) /\ Return(r, Rep(o), Did(o))
    BY DEF EndCleanup
  <1>2. SessionOK(s) /\ SessionOK(r)
    BY DEF SessionInv
  <1>3. /\ o.kind = "None" => "Released" \in Learn(told[r], Rep(o))
        /\ o.kind # "None" => told[r] \subseteq Learn(told[r], Rep(o))
        /\ o.kind # "None" /\ o.src = "Indeterminate"
              => "Indeterminate" \in Learn(told[r], Rep(o))
    <2>1. CASE o.kind = "None"
      BY <2>1 DEF Learn, Success
    <2>2. CASE o.kind # "None"
      <3>1. o.kind \in NativeKind /\ o.src \in Source
        BY <2>2, CleanupOutcomeType
      <3>2. Rep(o) = KindCleanupError(r, o.kind, o.effect, o.src)
        BY <2>2
      <3> HIDE DEF Rep
      <3> QED BY <2>2, <3>1, <3>2, CleanupErrorTold
    <2> QED BY <2>1, <2>2
  <1> HIDE DEF Rep, Did
  <1>4. /\ source' = [source EXCEPT ![r] = o.src]
        /\ told' = [told EXCEPT ![r] = Learn(told[r], Rep(o))]
        /\ pc[r] = "cleanup" /\ pc' = [pc EXCEPT ![r] = "idle"]
        /\ window' = [window EXCEPT ![r] = {}]
        /\ UNCHANGED <<kind, control, slot, cap, published>>
    BY <1>1 DEF EndCleanup, CleanupEffect, Return
  <1>5. CASE s # r
    BY <1>2, <1>4, <1>5, SessionFrame DEF TypeOK
  <1>6. CASE s = r
    <2>1. /\ pc'[r] = "idle" /\ source'[r] = o.src /\ slot[r] /\ slot'[r] = slot[r]
          /\ told'[r] = Learn(told[r], Rep(o))
      BY <1>2, <1>4 DEF TypeOK, SessionOK
    <2>2. o.src \in told'[r]
      BY <1>2, <1>3, <1>4, <2>1, CleanupAuthority DEF SessionOK, Authority
    <2>3. o.src = "Owned" => r \notin published
      BY <1>2, CleanupAuthority DEF SessionOK
    <2> QED BY <1>2, <1>4, <1>6, <2>1, <2>2, <2>3 DEF SessionOK, Authority
  <1> QED BY <1>5, <1>6

\* Starting a drop preserves it.
LEMMA BeginDropSession ==
    ASSUME TypeOK, SessionInv, NEW r \in Resources, BeginDrop(r)
    PROVE  SessionInv'
  <1> SUFFICES ASSUME NEW s \in Resources PROVE SessionOK(s)'
    BY DEF SessionInv
  <1>1. SessionOK(s)
    BY DEF SessionInv
  <1>2. /\ pc[r] = "idle" /\ pc' = [pc EXCEPT ![r] = "drop"]
        /\ cap' = [cap EXCEPT ![r] = RefreshedCap(r)]
        /\ window' = [window EXCEPT ![r] = {CurrentLimit(control[r])}]
        /\ UNCHANGED <<kind, control, slot, source, published, told>>
    BY DEF BeginDrop, Enter, OpenWindow, nativeVars
  <1>3. CASE s # r
    BY <1>1, <1>2, <1>3, SessionFrame DEF TypeOK
  <1>4. CASE s = r
    <2>1. slot[r] => cap'[r] \in window'[r]
      BY <1>2, RefreshInForce DEF TypeOK
    <2>2. control[r] = NoControl => cap'[r] = Unbounded
      BY <1>2, RefreshUncontrolled DEF TypeOK
    <2>3. pc'[r] = "drop"
      BY <1>2 DEF TypeOK
    <2> QED BY <1>1, <1>2, <1>4, <2>1, <2>2, <2>3 DEF SessionOK
  <1> QED BY <1>3, <1>4

\* The end of a drop preserves it.
LEMMA EndDropSession ==
    ASSUME TypeOK, SessionInv, NEW r \in Resources, EndDrop(r)
    PROVE  SessionInv'
  <1> SUFFICES ASSUME NEW s \in Resources PROVE SessionOK(s)'
    BY DEF SessionInv
  <1>1. SessionOK(s)
    BY DEF SessionInv
  <1>2. /\ pc' = [pc EXCEPT ![r] = "dropped"]
        /\ slot' = [slot EXCEPT ![r] = FALSE]
        /\ window' = [window EXCEPT ![r] = {}]
        /\ UNCHANGED <<kind, control, cap, published, told>>
    BY DEF EndDrop
  <1>3. /\ \A t \in Resources \ {r} : source'[t] = source[t]
        /\ source'[r] = "Owned" => source[r] = "Owned"
    <2>1. CASE \E o \in NativeCleanup(r) : CleanupEffect(r, o)
      BY <2>1, CleanupAuthority DEF CleanupEffect, TypeOK
    <2>2. CASE UNCHANGED nativeVars
      BY <2>2 DEF nativeVars
    <2> QED BY <2>1, <2>2 DEF EndDrop
  <1>4. CASE s # r
    BY <1>1, <1>2, <1>3, <1>4, SessionFrame DEF TypeOK
  <1>5. CASE s = r
    <2>1. pc'[r] = "dropped"
      BY <1>2 DEF TypeOK
    <2> QED BY <1>1, <1>2, <1>3, <1>5, <2>1 DEF SessionOK
  <1> QED BY <1>4, <1>5

\* The owner's and other programs' changes to a private tree preserve the
\* inductive invariant.
LEMMA DiskSession ==
    ASSUME SessionInv,
           \/ \E r \in Resources : AddEntry(r) \/ Displace(r) \/ Replace(r)
           \/ \E n \in Names : ChangeName(n)
           \/ UNCHANGED vars
    PROVE  SessionInv'
  <1> SUFFICES ASSUME NEW s \in Resources PROVE SessionOK(s)'
    BY DEF SessionInv
  <1>1. UNCHANGED <<adapterVars, source, historyVars>>
    BY DEF AddEntry, Displace, Replace, ChangeName, vars, nativeVars
  <1>2. SessionOK(s)
    BY DEF SessionInv
  <1> QED BY <1>1, <1>2, SessionFrame DEF adapterVars, historyVars

\* The inductive invariant of the sessions.
THEOREM SessionCorrect == Spec => []SessionInv
  <1>1. TypeOK /\ SessionInv /\ [Next]_vars => SessionInv'
    <2> SUFFICES ASSUME TypeOK, SessionInv, [Next]_vars PROVE SessionInv'
      OBVIOUS
    <2>1. CASE Environment
      BY <2>1, SetLimitsSession, DiskSession DEF Environment
    <2>2. CASE \E r \in Resources : Session(r)
      <3>1. PICK r \in Resources : Session(r)
        BY <2>2
      <3> QED
        BY <3>1, BeginCreateSession, CreateFailsSession, CreateReturnsSession,
           BeginPersistSession, EndPersistSession, BeginKeepSession, EndKeepSession,
           BeginCleanupSession, EndCleanupSession, BeginDropSession, EndDropSession
           DEF Session
    <2>3. CASE UNCHANGED vars
      BY <2>3, DiskSession
    <2> QED BY <2>1, <2>2, <2>3 DEF Next
  <1> QED BY <1>1, InitSession, TypeCorrect, PTL DEF Spec

\* The owner of a temporary resource who follows the adapter's reports knows
\* what authority the adapter still has, for any number of sessions.
THEOREM AuthorityCorrect == Spec => []AuthorityReported
  <1>1. SessionInv => AuthorityReported
    BY DEF SessionInv, SessionOK, AuthorityReported
  <1> QED BY <1>1, SessionCorrect, PTL

\* No sequence of failed calls loses a native resource that owns something.
THEOREM HandleCorrect == Spec => []HandleRetained
  <1>1. SessionInv => HandleRetained
    BY DEF SessionInv, SessionOK, HandleRetained
  <1> QED BY <1>1, SessionCorrect, PTL

(***************************************************************************)
(* What the reports say of the disk.                                       *)
(***************************************************************************)

\* A call rejected before its native step truthfully claims to have done
\* nothing: it says Unchanged, or carries no effect.
LEMMA RejectedTruthful ==
    ASSUME NEW op, NEW k, NEW st, NEW eff \in {"None", "Unchanged"}
    PROVE  Truthful(Failure(op, k, st, eff), Nothing)
  BY DEF Truthful, TrueOfRemoval, Failure, Nothing

\* require_owned refuses with an effect of Unchanged.
LEMMA NotOwnedTruthful ==
    ASSUME NEW op, NEW src \in Source
    PROVE  Truthful(NotOwnedFailure(op, src), Nothing)
  <1>1. PersistEffectState(PersistFailureState("NotPublished", src)) = "Unchanged"
    BY DEF PersistFailureState, PersistEffectState, Source
  <1> QED BY <1>1, RejectedTruthful DEF NotOwnedFailure

\* A failed publication says Applied only after installing, and Unchanged
\* only when it did not.
LEMMA PublishFailureTruthful ==
    ASSUME NEW op \in {"Persist", "Keep"}, NEW k, NEW o, NEW did,
           o.pub \in Publication, o.src \in Source,
           o.pub = "Published" => did.installed, o.pub = "NotPublished" => ~did.installed,
           did.known = (o.pub # "Indeterminate"), o.pub = "Published" => o.src # "Owned"
    PROVE  Truthful(PublishFailure(op, k, o), did)
  <1> DEFINE eff == PersistEffectState(PersistFailureState(o.pub, o.src))
  <1>1. /\ eff = "Applied" => o.pub = "Published"
        /\ eff \in {"None", "Unchanged"} => o.pub = "NotPublished"
        /\ eff = "Indeterminate" => o.pub = "Indeterminate"
    BY DEF PersistFailureState, PersistEffectState, Publication, Source
  <1>2. /\ PublishFailure(op, k, o).op = op /\ PublishFailure(op, k, o).ok = FALSE
        /\ PublishFailure(op, k, o).effect = eff
    BY DEF PublishFailure, Failure
  <1> HIDE DEF eff
  <1> QED BY <1>1, <1>2 DEF Truthful

\* A step that returns a truthful report for r, and says nothing new of the
\* other sessions, keeps every report true.
LEMMA ReturnTruthful ==
    ASSUME TypeOK, EffectTruthful, NEW r \in Resources, NEW rep, NEW did,
           Return(r, rep, did), Truthful(rep, did)
    PROVE  EffectTruthful'
  <1> SUFFICES ASSUME NEW s \in Resources PROVE Truthful(report'[s], truth'[s])
    BY DEF EffectTruthful
  <1>1. /\ report'[s] = IF s = r THEN rep ELSE report[s]
        /\ truth'[s] = IF s = r THEN did ELSE truth[s]
    BY DEF Return, TypeOK
  <1>2. Truthful(report[s], truth[s])
    BY DEF EffectTruthful
  <1> QED BY <1>1, <1>2

\* The ends of persist and keep report what they did.
LEMMA FinishPublishTruthful ==
    ASSUME TypeOK, SessionInv, EffectTruthful, NEW r \in Resources,
           pc[r] \in {"persist", "keep"}, NEW op \in {"Persist", "Keep"}, NEW k, NEW rep,
           NEW o \in NativePublish(r, request[r].name, request[r].overwrite),
           FinishPublish(r, o, rep),
           \/ o.ok /\ rep = MapPersistOutcome(op, o)
           \/ o.ok /\ rep = Failure(op, k, "PublishedSourceReleased", "Applied")
           \/ ~o.ok /\ rep = PublishFailure(op, k, o)
    PROVE  EffectTruthful'
  <1> DEFINE did == [Nothing EXCEPT !.installed = o.installed, !.residue = o.disk = "sandbox",
                          !.known = o.pub # "Indeterminate"]
  <1>1. source[r] = "Owned"
    BY DEF SessionInv, SessionOK
  <1>2. TruthfulPublish(r, request[r].name, request[r].overwrite, o)
    BY <1>1, PublishOutcomeType
  <1>3. /\ o.ok => o.installed
        /\ o.pub = "Published" => o.installed
        /\ o.pub = "NotPublished" => ~o.installed
        /\ o.ok => o.pub = "Published"
    BY <1>2 DEF TruthfulPublish
  <1>4. /\ did.installed = o.installed /\ did.residue = (o.disk = "sandbox")
        /\ did.known = (o.pub # "Indeterminate")
    BY DEF Nothing
  <1>5. Return(r, rep, did)
    BY DEF FinishPublish
  <1> HIDE DEF did
  <1>6. CASE o.ok /\ rep = MapPersistOutcome(op, o)
    <2>1. Truthful(rep, did)
      BY <1>3, <1>4, <1>6 DEF Truthful, MapPersistOutcome, Success
    <2> QED BY <1>5, <2>1, ReturnTruthful
  <1>7. CASE o.ok /\ rep = Failure(op, k, "PublishedSourceReleased", "Applied")
    <2>1. Truthful(rep, did)
      BY <1>3, <1>4, <1>7 DEF Truthful, Failure
    <2> QED BY <1>5, <2>1, ReturnTruthful
  <1>8. CASE ~o.ok /\ rep = PublishFailure(op, k, o)
    <2>1. Truthful(rep, did)
      <3>1. o.pub = "Published" => o.src # "Owned"
        BY <1>2 DEF TruthfulPublish, Disk
      <3> QED BY <1>3, <1>4, <1>8, <3>1, PublishOutcomeType, PublishFailureTruthful
    <2> QED BY <1>5, <2>1, ReturnTruthful
  <1> QED BY <1>6, <1>7, <1>8

\* What the engine says of a failed cleanup is true, and an InvalidPath is
\* an error of a cleanup that never began.
LEMMA CleanupPartial ==
    ASSUME TypeOK, NEW r \in Resources, NEW o \in NativeCleanup(r)
    PROVE  /\ o.kind # "None" => TrueOfRemoval(o.effect, Removed(r, o.left))
           /\ o.kind = "InvalidPath" => o.effect \in {"None", "Unchanged"}
           /\ o.left \in Nat /\ o.left <= size[r]
           /\ Removed(r, o.left) = "none" <=> o.left = size[r]
  <1>1. size[r] \in Nat /\ o.left \in Nat
    BY CleanupOutcomeType DEF TypeOK
  <1>2. \/ o.left = size[r] /\ o.effect \in {"None", "Unchanged"}
        \/ o.left = 0 /\ o.kind = "None"
        \/ o \in BrokenRemovals(r)
    BY DEF NativeCleanup, Untouched
  <1> QED BY <1>1, <1>2 DEF Removed, TrueOfRemoval, BrokenRemovals

\* The failures of cleanup pass the engine's statement on, except that they
\* drop it when the path is no directory and supply Unchanged for a lost
\* source of which the engine says nothing.
LEMMA CleanupErrorEffect ==
    ASSUME NEW r, NEW k, NEW eff, NEW src
    PROVE  /\ KindCleanupError(r, k, eff, src).op = "Cleanup"
           /\ \/ KindCleanupError(r, k, eff, src).effect = eff
              \/ /\ KindCleanupError(r, k, eff, src).effect \in {"None", "Unchanged"}
                 /\ eff = "None" \/ k = "InvalidPath"
  BY DEF KindCleanupError, CleanupError, NativeEffectState, Failure

\* The end of a cleanup reports what it did.
LEMMA EndCleanupTruthful ==
    ASSUME TypeOK, EffectTruthful, NEW r \in Resources, EndCleanup(r)
    PROVE  EffectTruthful'
  <1> DEFINE Rep(o) == IF o.kind = "None" THEN Success("Cleanup")
                       ELSE KindCleanupError(r, o.kind, o.effect, o.src)
             Did(o) == [Nothing EXCEPT !.removed = Removed(r, o.left),
                                       !.known = o.effect # "Indeterminate"]
  <1>1. PICK o \in NativeCleanup(r) : CleanupEffect(r, o) /\ Return(r, Rep(o), Did(o))
    BY DEF EndCleanup
  <1>2. Did(o).removed = Removed(r, o.left) /\ Did(o).known = (o.effect # "Indeterminate")
    BY DEF Nothing
  <1>3. CASE o.kind = "None"
    <2>1. Truthful(Rep(o), Did(o))
      BY <1>3 DEF Truthful, Success
    <2> HIDE DEF Rep, Did
    <2> QED BY <1>1, <2>1, ReturnTruthful
  <1>4. CASE o.kind # "None"
    <2>1. /\ Rep(o).op = "Cleanup"
          /\ \/ Rep(o).effect = o.effect
             \/ /\ Rep(o).effect \in {"None", "Unchanged"}
                /\ o.effect = "None" \/ o.kind = "InvalidPath"
      BY <1>4, CleanupErrorEffect
    <2>2. /\ TrueOfRemoval(o.effect, Removed(r, o.left))
          /\ o.kind = "InvalidPath" => o.effect \in {"None", "Unchanged"}
      BY <1>4, CleanupPartial
    <2> HIDE DEF Rep, Did
    <2>3. Truthful(Rep(o), Did(o))
      BY <1>2, <2>1, <2>2 DEF Truthful, TrueOfRemoval
    <2> QED BY <1>1, <2>3, ReturnTruthful
  <1> QED BY <1>3, <1>4

\* A step that returns no call keeps every report true.
LEMMA SilentTruthful ==
    ASSUME EffectTruthful, UNCHANGED <<report, truth>>
    PROVE  EffectTruthful'
  BY DEF EffectTruthful

\* A rejected persist, keep or cleanup reports that it did nothing, and an
\* admitted one reports nothing yet.
LEMMA BeginTruthful ==
    ASSUME TypeOK, EffectTruthful, NEW r \in Resources,
           \/ \E n \in Names, overwrite, mappable \in BOOLEAN :
                 BeginPersist(r, n, overwrite, mappable)
           \/ BeginKeep(r) \/ BeginCleanup(r)
    PROVE  EffectTruthful'
  <1>1. Authority(r) \in Source
    BY DEF Authority, TypeOK, Source
  <1>2. \A mappable : Truthful(TargetFailure(r, mappable), Nothing)
    BY <1>1, NotOwnedTruthful, RejectedTruthful DEF TargetFailure
  <1>3. \A call, op, n, overwrite : TakeFor(r, call, op, n, overwrite) => EffectTruthful'
    BY RejectedTruthful, ReturnTruthful, SilentTruthful DEF TakeFor, Enter
  <1>4. CASE \E n \in Names, overwrite, mappable \in BOOLEAN :
               BeginPersist(r, n, overwrite, mappable)
    BY <1>2, <1>3, <1>4, ReturnTruthful DEF BeginPersist
  <1>5. CASE BeginKeep(r)
    BY <1>1, <1>3, <1>5, NotOwnedTruthful, ReturnTruthful DEF BeginKeep
  <1>6. CASE BeginCleanup(r)
    BY <1>6, RejectedTruthful, ReturnTruthful, SilentTruthful DEF BeginCleanup, Enter
  <1> QED BY <1>4, <1>5, <1>6

\* The return of a creation says nothing of publications or removals.
LEMMA CreateReturnsTruthful ==
    ASSUME TypeOK, EffectTruthful, NEW r \in Resources, NEW mappable \in BOOLEAN,
           CreateReturns(r, mappable)
    PROVE  EffectTruthful'
  <1> SUFFICES ASSUME NEW s \in Resources PROVE Truthful(report'[s], truth'[s])
    BY DEF EffectTruthful
  <1>1. truth' = truth /\ (s # r => report'[s] = report[s])
    BY DEF CreateReturns, TypeOK
  <1>2. report'[r].op = "Create" /\ report'[r].effect = "None"
    BY DEF CreateReturns, TypeOK, Success, Failure
  <1>3. CASE s = r
    BY <1>2, <1>3 DEF Truthful
  <1>4. CASE s # r
    BY <1>1, <1>4 DEF EffectTruthful
  <1> QED BY <1>3, <1>4

\* The end of a keep reports what it did, mappable target or not.
LEMMA EndKeepTruthful ==
    ASSUME TypeOK, SessionInv, EffectTruthful, NEW r \in Resources, NEW mappable \in BOOLEAN,
           EndKeep(r, mappable)
    PROVE  EffectTruthful'
  <1> DEFINE K(o) == IF mappable THEN MappedKind(o.kind) ELSE "ProviderContractViolation"
             Rep(o) ==
               IF o.ok
               THEN IF mappable THEN MapPersistOutcome("Keep", o)
                    ELSE Failure("Keep", "ProviderContractViolation",
                                 "PublishedSourceReleased", "Applied")
               ELSE PublishFailure("Keep", K(o), o)
  <1>1. PICK o \in NativePublish(r, request[r].name, request[r].overwrite) :
          FinishPublish(r, o, Rep(o))
    BY DEF EndKeep
  <1>2. \/ o.ok /\ Rep(o) = MapPersistOutcome("Keep", o)
        \/ o.ok /\ Rep(o) = Failure("Keep", K(o), "PublishedSourceReleased", "Applied")
        \/ ~o.ok /\ Rep(o) = PublishFailure("Keep", K(o), o)
    OBVIOUS
  <1>3. pc[r] = "keep"
    BY DEF EndKeep
  <1> HIDE DEF Rep, K
  <1> QED BY <1>1, <1>2, <1>3, FinishPublishTruthful

\* The end of a persist reports what it did.
LEMMA EndPersistTruthful ==
    ASSUME TypeOK, SessionInv, EffectTruthful, NEW r \in Resources, EndPersist(r)
    PROVE  EffectTruthful'
  <1> DEFINE K(o) == MappedKind(o.kind)
             Rep(o) == IF o.ok THEN MapPersistOutcome("Persist", o)
                       ELSE PublishFailure("Persist", K(o), o)
  <1>1. PICK o \in NativePublish(r, request[r].name, request[r].overwrite) :
          FinishPublish(r, o, Rep(o))
    BY DEF EndPersist
  <1>2. \/ o.ok /\ Rep(o) = MapPersistOutcome("Persist", o)
        \/ o.ok /\ Rep(o) = Failure("Persist", K(o), "PublishedSourceReleased", "Applied")
        \/ ~o.ok /\ Rep(o) = PublishFailure("Persist", K(o), o)
    OBVIOUS
  <1>3. pc[r] = "persist"
    BY DEF EndPersist
  <1> HIDE DEF Rep, K
  <1> QED BY <1>1, <1>2, <1>3, FinishPublishTruthful

\* Every report tells the truth about the disk, whatever the native engine
\* did and whatever other sessions and programs did meanwhile.
THEOREM TruthCorrect == Spec => []EffectTruthful
  <1>1. Init => EffectTruthful
    <2>1. ASSUME Init, NEW r \in Resources PROVE report[r] = Success("None")
      BY <2>1 DEF Init
    <2>2. \A did : Truthful(Success("None"), did)
      BY DEF Truthful, Success
    <2> QED BY <2>1, <2>2 DEF EffectTruthful
  <1>2. TypeOK /\ SessionInv /\ EffectTruthful /\ [Next]_vars => EffectTruthful'
    <2> SUFFICES ASSUME TypeOK, SessionInv, EffectTruthful, [Next]_vars PROVE EffectTruthful'
      OBVIOUS
    <2>1. CASE Environment
      <3>1. UNCHANGED <<report, truth>>
        BY <2>1 DEF Environment, SetLimits, AddEntry, Displace, Replace, ChangeName,
                    adapterVars, historyVars
      <3> QED BY <3>1, SilentTruthful
    <2>2. CASE \E r \in Resources : Session(r)
      <3>1. PICK r \in Resources : Session(r)
        BY <2>2
      <3>2. CASE (\E k \in {"file", "directory"}, c \in Controls \cup {NoControl} :
                     BeginCreate(r, k, c)) \/ CreateFails(r) \/ BeginDrop(r) \/ EndDrop(r)
        <4>1. UNCHANGED <<report, truth>>
          BY <3>2 DEF BeginCreate, CreateFails, BeginDrop, EndDrop, Enter
        <4> QED BY <4>1, SilentTruthful
      <3> QED BY <3>1, <3>2, BeginTruthful, CreateReturnsTruthful, EndPersistTruthful,
                 EndKeepTruthful, EndCleanupTruthful DEF Session
    <2>3. CASE UNCHANGED vars
      BY <2>3, SilentTruthful DEF vars, adapterVars, historyVars
    <2> QED BY <2>1, <2>2, <2>3 DEF Next
  <1> QED BY <1>1, <1>2, TypeCorrect, SessionCorrect, PTL DEF Spec

(***************************************************************************)
(* The limits of an attempt.                                               *)
(***************************************************************************)

\* The ends of persist, keep, cleanup and drop keep the root of a tree that
\* is still in place.
LEMMA NativeTree ==
    ASSUME TypeOK, TreeInv, NEW r \in Resources,
           \/ \E o \in NativeCleanup(r) : CleanupEffect(r, o)
           \/ \E o : /\ source[r] = "Owned" /\ PublishEffect(r, o)
                     /\ TruthfulPublish(r, request[r].name, request[r].overwrite, o)
    PROVE  TreeInv'
  <1> SUFFICES ASSUME NEW s \in Resources, disk'[s] \in {"ours", "sandbox"} PROVE size'[s] > 0
    BY DEF TreeInv
  <1>1. CASE \E o \in NativeCleanup(r) : CleanupEffect(r, o)
    <2>1. PICK o \in NativeCleanup(r) : CleanupEffect(r, o)
      BY <1>1
    <2>2. /\ size' = [size EXCEPT ![r] = o.left]
          /\ disk' = [disk EXCEPT ![r] = IF Removed(r, o.left) = "all" THEN "missing" ELSE @]
      BY <2>1 DEF CleanupEffect
    <2>3. CASE s # r
      BY <2>2, <2>3 DEF TreeInv, TypeOK
    <2>4. CASE s = r
      <3>1. Removed(r, o.left) # "all" /\ size[r] > 0
        BY <2>2, <2>4 DEF TreeInv, TypeOK
      <3>2. o.left > 0
        BY <3>1, CleanupPartial DEF Removed, TypeOK
      <3> QED BY <2>2, <2>4, <3>2 DEF TypeOK
    <2> QED BY <2>3, <2>4
  <1>2. CASE \E o : /\ source[r] = "Owned" /\ PublishEffect(r, o)
                    /\ TruthfulPublish(r, request[r].name, request[r].overwrite, o)
    <2>1. PICK o : /\ source[r] = "Owned" /\ PublishEffect(r, o)
                   /\ TruthfulPublish(r, request[r].name, request[r].overwrite, o)
      BY <1>2
    <2>2. /\ disk' = [disk EXCEPT ![r] = o.disk]
          /\ size' = [size EXCEPT ![r] = CASE o.disk = "sandbox" -> 1
                                           [] o.disk = "missing" -> 0
                                           [] OTHER -> @]
      BY <2>1 DEF PublishEffect
    <2>3. o.disk = "ours" => disk[r] = "ours"
      BY <2>1 DEF TruthfulPublish
    <2> QED BY <2>2, <2>3 DEF TreeInv, TypeOK
  <1> QED BY <1>1, <1>2

\* A private tree in place has its root: nothing but a complete removal, by
\* the adapter or by another program, empties it.
THEOREM TreeCorrect == Spec => []TreeInv
  <1>1. Init => TreeInv
    BY DEF Init, TreeInv
  <1>2. TypeOK /\ SessionInv /\ TreeInv /\ [Next]_vars => TreeInv'
    <2> SUFFICES ASSUME TypeOK, SessionInv, TreeInv, [Next]_vars PROVE TreeInv'
      OBVIOUS
    <2>0. UNCHANGED <<disk, size>> => TreeInv'
      BY DEF TreeInv
    <2>1. CASE Environment
      <3>1. ASSUME NEW r \in Resources, AddEntry(r) \/ Displace(r) \/ Replace(r) PROVE TreeInv'
        <4>1. CASE AddEntry(r)
          BY <4>1 DEF AddEntry, TreeInv, TypeOK
        <4>2. CASE Displace(r)
          BY <4>2 DEF Displace, TreeInv, TypeOK
        <4>3. CASE Replace(r)
          BY <4>3 DEF Replace, TreeInv, TypeOK
        <4> QED BY <3>1, <4>1, <4>2, <4>3
      <3>2. ASSUME NEW c \in Controls, NEW l \in Limits, SetLimits(c, l)
            PROVE  UNCHANGED <<disk, size>>
        BY <3>2 DEF SetLimits, nativeVars
      <3>3. ASSUME NEW n \in Names, ChangeName(n) PROVE UNCHANGED <<disk, size>>
        BY <3>3 DEF ChangeName
      <3> QED BY <2>0, <2>1, <3>1, <3>2, <3>3 DEF Environment
    <2>2. CASE \E r \in Resources : Session(r)
      <3>1. PICK r \in Resources : Session(r)
        BY <2>2
      <3>2. CASE \E mappable \in BOOLEAN : CreateReturns(r, mappable)
        BY <3>2 DEF CreateReturns, TreeInv, TypeOK
      <3>3. CASE EndCleanup(r) \/ EndDrop(r)
        BY <2>0, <3>3, NativeTree DEF EndCleanup, EndDrop, nativeVars
      <3>4. CASE EndPersist(r) \/ \E mappable \in BOOLEAN : EndKeep(r, mappable)
        <4>1. source[r] = "Owned"
          BY <3>4 DEF EndPersist, EndKeep, SessionInv, SessionOK
        <4>2. \E o \in NativePublish(r, request[r].name, request[r].overwrite) : PublishEffect(r, o)
          BY <3>4 DEF EndPersist, EndKeep, FinishPublish
        <4> QED BY <4>1, <4>2, PublishOutcomeType, NativeTree
      <3>5. CASE \/ \E k \in {"file", "directory"}, c \in Controls \cup {NoControl} : BeginCreate(r, k, c)
                 \/ CreateFails(r)
                 \/ \E n \in Names, overwrite, mappable \in BOOLEAN :
                       BeginPersist(r, n, overwrite, mappable)
                 \/ BeginKeep(r) \/ BeginCleanup(r) \/ BeginDrop(r)
        <4>1. UNCHANGED <<disk, size>>
          BY <3>5 DEF BeginCreate, CreateFails, BeginPersist, BeginKeep, BeginCleanup,
                      BeginDrop, nativeVars
        <4> QED BY <2>0, <4>1
      <3> QED BY <3>1, <3>2, <3>3, <3>4, <3>5 DEF Session
    <2>3. CASE UNCHANGED vars
      BY <2>0, <2>3 DEF vars, nativeVars
    <2> QED BY <2>1, <2>2, <2>3 DEF Next
  <1> QED BY <1>1, <1>2, TypeCorrect, SessionCorrect, PTL DEF Spec

\* Only the ends of cleanup and drop take a session out of a removal.
LEMMA RemovalEnds ==
    ASSUME TypeOK, [Next]_vars, NEW r \in Resources,
           pc[r] \in {"cleanup", "drop", "abandoning"}, pc'[r] # pc[r]
    PROVE  EndCleanup(r) \/ EndDrop(r)
  <1>1. CASE Environment \/ UNCHANGED vars
    BY <1>1 DEF Environment, SetLimits, AddEntry, Displace, Replace, ChangeName, vars, adapterVars
  <1>2. CASE \E s \in Resources : Session(s)
    <2>1. PICK s \in Resources : Session(s)
      BY <1>2
    <2>2. \E v : pc' = [pc EXCEPT ![s] = v]
      <3>1. pc = [pc EXCEPT ![s] = pc[s]]
        BY DEF TypeOK
      <3> QED BY <2>1, <3>1 DEF Session, BeginCreate, CreateFails, CreateReturns, BeginPersist, TakeFor, Enter,
              EndPersist, FinishPublish, BeginKeep, EndKeep, BeginCleanup, EndCleanup, BeginDrop,
              EndDrop
    <2>3. s = r
      BY <2>2 DEF TypeOK
    <2> QED BY <2>1, <2>3 DEF Session, BeginCreate, CreateFails, CreateReturns, BeginPersist,
              EndPersist, BeginKeep, EndKeep, BeginCleanup, BeginDrop
  <1> QED BY <1>1, <1>2 DEF Next

\* A native removal under limits that were in force while it ran.
LEMMA RemovalWithin ==
    ASSUME TypeOK, TreeInv, NEW r \in Resources, NEW o \in NativeCleanup(r),
           CleanupEffect(r, o), cap[r] \in window[r]
    PROVE  WithinLimits(r)
  <1>1. size[r] \in Nat /\ faults \in Nat
    BY DEF TypeOK
  <1>2. /\ size'[r] = o.left
        /\ Removed(r, o.left) = "all" => disk'[r] = "missing"
        /\ CleanupFault(r, o) => faults' = faults + 1
    BY DEF CleanupEffect, FaultStep, TypeOK
  <1>3. o.left < size[r] => Admits(cap[r], size[r])
    BY <1>1 DEF NativeCleanup, Untouched
  <1>4. ASSUME source[r] \in {"Owned", "CleanupRequired"}, disk[r] \in {"ours", "sandbox"},
               faults' = faults, \A l \in window[r] : Admits(l, size[r])
        PROVE  disk'[r] = "missing"
    <2>1. Admits(cap[r], size[r])
      BY <1>4
    <2>2. ~CleanupFault(r, o)
      BY <1>1, <1>2, <1>4
    <2>3. o.left = 0
      <3>1. \/ ~Admits(cap[r], size[r])
            \/ o.left = 0
            \/ o \in BrokenRemovals(r)
        BY <1>4 DEF NativeCleanup
      <3>2. o \notin BrokenRemovals(r)
        BY <1>4, <2>2 DEF BrokenRemovals, CleanupFault
      <3> QED BY <2>1, <3>1, <3>2
    <2>4. size[r] > 0
      BY <1>4 DEF TreeInv
    <2>5. Removed(r, o.left) = "all"
      BY <2>3, <2>4 DEF Removed
    <2> QED BY <1>2, <2>5
  <1> QED BY <1>2, <1>3, <1>4 DEF WithinLimits

\* For every control and every replacement of its limits, an attempt to
\* remove a private tree obeys limits in force while it ran.
THEOREM LimitsCorrect == Spec => LimitsInForce
  <1>1. TypeOK /\ SessionInv /\ TreeInv /\ [Next]_vars => \A r \in Resources : WithinLimits(r)
    <2> SUFFICES ASSUME TypeOK, SessionInv, TreeInv, [Next]_vars, NEW r \in Resources,
                        pc[r] \in {"cleanup", "drop", "abandoning"}, pc'[r] # pc[r]
                 PROVE  WithinLimits(r)
      BY DEF WithinLimits
    <2>1. SessionOK(r)
      BY DEF SessionInv
    <2>2. CASE EndCleanup(r)
      <3>1. cap[r] \in window[r]
        BY <2>1, <2>2 DEF SessionOK, EndCleanup
      <3> QED BY <2>2, <3>1, RemovalWithin DEF EndCleanup
    <2>3. CASE EndDrop(r) /\ (slot[r] \/ pc[r] = "abandoning")
      <3>1. cap[r] \in window[r]
        BY <2>1, <2>3 DEF SessionOK, EndDrop
      <3> QED BY <2>3, <3>1, RemovalWithin DEF EndDrop
    <2>4. CASE EndDrop(r) /\ ~(slot[r] \/ pc[r] = "abandoning")
      <3>1. size'[r] = size[r]
        BY <2>4 DEF EndDrop, nativeVars
      <3>2. source[r] \notin {"Owned", "CleanupRequired"}
        BY <2>1, <2>4 DEF SessionOK, EndDrop
      <3> QED BY <3>1, <3>2 DEF WithinLimits, TypeOK
    <2> QED BY <2>2, <2>3, <2>4, RemovalEnds
  <1> QED BY <1>1, TypeCorrect, SessionCorrect, TreeCorrect, PTL DEF Spec, LimitsInForce

(***************************************************************************)
(* The sessions implement the contract of their owners.                    *)
(***************************************************************************)

\* The abstract state of the sessions.
AbstractPhase == [r \in Resources |-> Phase(r)]

\* What the abstract state of r says of its session.
PhaseOf(r) ==
    /\ pc[r] \in {"unborn", "creating"} <=> Phase(r) = "unborn"
    /\ pc[r] = "dropped" <=> Phase(r) = "gone"
    /\ pc[r] \notin {"unborn", "creating", "dropped"} =>
          /\ Phase(r) = "held" <=> source[r] = "Owned"
          /\ Phase(r) = "leftover" <=> source[r] = "CleanupRequired"
          /\ Phase(r) = "uncertain" <=> source[r] = "Indeterminate"
          /\ Phase(r) = "released" <=> source[r] = "Released"
          /\ Phase(r) \in {"held", "leftover", "uncertain", "released"}

\* A session that exists has an authority the contract knows.
LEMMA PhaseFacts ==
    ASSUME NEW r \in Resources
    PROVE  (TypeOK => PhaseOf(r)) /\ (TypeOK' => PhaseOf(r)')
  BY DEF TypeOK, Phase, PhaseOf, Source

\* A step of r's session leaves the abstract state of the others alone.
LEMMA PhaseStep ==
    ASSUME TypeOK, NEW r \in Resources, Session(r)
    PROVE  /\ AbstractPhase' = [AbstractPhase EXCEPT ![r] = Phase(r)']
           /\ AbstractPhase[r] = Phase(r)
  <1>1. ASSUME NEW s \in Resources \ {r} PROVE pc'[s] = pc[s] /\ source'[s] = source[s]
    <2>1. pc'[s] = pc[s]
      BY ZenonT(30) DEF Session, BeginCreate, CreateFails, CreateReturns, BeginPersist, TakeFor,
             Enter, EndPersist, FinishPublish, BeginKeep, EndKeep, BeginCleanup, EndCleanup,
             BeginDrop, EndDrop, TypeOK
    <2>2. source'[s] = source[s]
      BY ZenonT(30) DEF Session, BeginCreate, CreateFails, CreateReturns, BeginPersist,
             EndPersist, FinishPublish, PublishEffect, BeginKeep, EndKeep, BeginCleanup,
             EndCleanup, CleanupEffect, BeginDrop, EndDrop, nativeVars, TypeOK
    <2> QED BY <2>1, <2>2
  <1>2. \A s \in Resources \ {r} : Phase(s)' = Phase(s)
    BY <1>1 DEF Phase
  <1> QED BY <1>2 DEF AbstractPhase

\* A publication that ends is a publication of the contract, gives up the
\* source without one, or changes nothing the owner relies on.
LEMMA FinishPublishPhase ==
    ASSUME TypeOK, SessionInv, NEW r \in Resources, pc[r] \in {"persist", "keep"}, NEW rep,
           NEW o \in NativePublish(r, request[r].name, request[r].overwrite),
           FinishPublish(r, o, rep), TypeOK'
    PROVE  /\ Phase(r) = "held" /\ r \notin published
           /\ \/ Phase(r)' = "held" /\ published' = published
              \/ /\ Phase(r)' \in {"leftover", "uncertain", "released"}
                 /\ published' \in {published, published \cup {r}}
  <1>1. source[r] = "Owned" /\ r \notin published
    BY DEF SessionInv, SessionOK
  <1>2. TruthfulPublish(r, request[r].name, request[r].overwrite, o)
    BY <1>1, PublishOutcomeType
  <1>3. /\ pc'[r] = "idle" /\ source'[r] = o.src
        /\ published' = IF o.installed THEN published \cup {r} ELSE published
    BY DEF FinishPublish, PublishEffect, TypeOK
  <1>4. o.src = "Owned" => ~o.installed
    BY <1>2 DEF TruthfulPublish
  <1>5. Phase(r) = "held"
    BY <1>1, PhaseFacts DEF PhaseOf
  <1>6. /\ Phase(r)' = "held" <=> o.src = "Owned"
        /\ Phase(r)' \in {"held", "leftover", "uncertain", "released"}
    BY <1>3, PhaseFacts DEF PhaseOf
  <1> QED BY <1>1, <1>3, <1>4, <1>5, <1>6

\* What a step of r's session may do to the abstract state of r.
LEMMA SessionPhase ==
    ASSUME TypeOK, SessionInv, TypeOK', NEW r \in Resources, Session(r)
    PROVE  \/ Phase(r)' = Phase(r) /\ published' = published
           \/ Phase(r) = "unborn" /\ Phase(r)' = "held" /\ published' = published
           \/ /\ Phase(r) = "held" /\ r \notin published
              /\ Phase(r)' \in {"leftover", "uncertain", "released"}
              /\ published' \in {published, published \cup {r}}
           \/ /\ Phase(r) \in {"held", "leftover"}
              /\ Phase(r)' \in {"uncertain", "released"} /\ published' = published
           \/ /\ Phase(r) \notin {"unborn", "gone"}
              /\ Phase(r)' = "gone" /\ published' = published
  <1>0. PhaseOf(r) /\ PhaseOf(r)'
    BY PhaseFacts
  <1>1. CASE \/ \E k \in {"file", "directory"}, c \in Controls \cup {NoControl} : BeginCreate(r, k, c)
             \/ CreateFails(r)
    <2>1. /\ pc[r] \in {"unborn", "creating"} /\ pc'[r] \in {"unborn", "creating"}
          /\ published' = published
      BY <1>1 DEF BeginCreate, CreateFails, TypeOK
    <2> QED BY <1>0, <2>1 DEF PhaseOf
  <1>2. CASE \E mappable \in BOOLEAN : CreateReturns(r, mappable)
    <2>1. /\ pc[r] = "creating" /\ pc'[r] \in {"idle", "abandoning"}
          /\ source'[r] = "Owned" /\ published' = published
      BY <1>2 DEF CreateReturns, TypeOK
    <2> QED BY <1>0, <2>1 DEF PhaseOf
  <1>3. CASE \/ \E n \in Names, overwrite, mappable \in BOOLEAN :
                   BeginPersist(r, n, overwrite, mappable)
             \/ BeginKeep(r) \/ BeginCleanup(r) \/ BeginDrop(r)
    <2>1. source' = source /\ published' = published
      BY <1>3 DEF BeginPersist, BeginKeep, BeginCleanup, BeginDrop, nativeVars
    <2>2. pc[r] = "idle" /\ pc'[r] \in {"idle", "persist", "keep", "cleanup", "drop"}
      BY <1>3 DEF BeginPersist, BeginKeep, BeginCleanup, BeginDrop, TakeFor, Enter, TypeOK
    <2>3. Phase(r)' = Phase(r)
      BY <1>0, <2>1, <2>2 DEF PhaseOf
    <2> QED BY <2>1, <2>3
  <1>4. CASE EndPersist(r) \/ \E mappable \in BOOLEAN : EndKeep(r, mappable)
    <2>1. /\ pc[r] \in {"persist", "keep"}
          /\ \E o \in NativePublish(r, request[r].name, request[r].overwrite) :
                \E rep : FinishPublish(r, o, rep)
      BY <1>4 DEF EndPersist, EndKeep
    <2> QED BY <2>1, FinishPublishPhase
  <1>5. CASE EndCleanup(r)
    <2>1. PICK o \in NativeCleanup(r) : CleanupEffect(r, o)
      BY <1>5 DEF EndCleanup
    <2>2. /\ pc[r] = "cleanup" /\ pc'[r] = "idle" /\ source'[r] = o.src
          /\ published' = published
      BY <1>5, <2>1 DEF EndCleanup, CleanupEffect, TypeOK
    <2>3. \/ o.src = source[r]
          \/ /\ source[r] \in {"Owned", "CleanupRequired"}
             /\ o.src \in {"Released", "Indeterminate"}
      BY CleanupAuthority
    <2> QED BY <1>0, <2>2, <2>3 DEF PhaseOf
  <1>6. CASE EndDrop(r)
    <2>1. pc[r] \in {"drop", "abandoning"} /\ pc'[r] = "dropped" /\ published' = published
      BY <1>6 DEF EndDrop, TypeOK
    <2> QED BY <1>0, <2>1 DEF PhaseOf
  <1> QED BY <1>1, <1>2, <1>3, <1>4, <1>5, <1>6 DEF Session

\* A step of a session is a step of the contract or leaves it unchanged.
LEMMA SessionRefines ==
    ASSUME TypeOK, SessionInv, TypeOK', NEW r \in Resources, Session(r)
    PROVE  [Contract!Next]_(Contract!vars)
  <1> DEFINE P == AbstractPhase
  <1>1. P' = [P EXCEPT ![r] = Phase(r)'] /\ P[r] = Phase(r)
    BY PhaseStep
  <1> USE DEF AbstractPhase
  <1>2. CASE Phase(r)' = Phase(r) /\ published' = published
    <2>1. P' = P
      BY <1>1, <1>2
    <2> QED BY <1>2, <2>1 DEF Contract!vars
  <1>3. CASE Phase(r) = "unborn" /\ Phase(r)' = "held" /\ published' = published
    <2>1. Contract!Create(r)
      BY <1>1, <1>3 DEF Contract!Create
    <2> QED BY <2>1 DEF Contract!Next
  <1>4. CASE /\ Phase(r) = "held" /\ r \notin published
             /\ Phase(r)' \in {"leftover", "uncertain", "released"}
             /\ published' \in {published, published \cup {r}}
    <2>1. CASE published' = published \cup {r}
      <3>1. Contract!Publish(r)
        BY <1>1, <1>4, <2>1 DEF Contract!Publish
      <3> QED BY <3>1 DEF Contract!Next
    <2>2. CASE published' = published
      <3>1. Contract!Relinquish(r)
        BY <1>1, <1>4, <2>2 DEF Contract!Relinquish
      <3> QED BY <3>1 DEF Contract!Next
    <2> QED BY <1>4, <2>1, <2>2
  <1>5. CASE /\ Phase(r) \in {"held", "leftover"}
             /\ Phase(r)' \in {"uncertain", "released"} /\ published' = published
    <2>1. Contract!Relinquish(r)
      BY <1>1, <1>5 DEF Contract!Relinquish
    <2> QED BY <2>1 DEF Contract!Next
  <1>6. CASE /\ Phase(r) \notin {"unborn", "gone"}
             /\ Phase(r)' = "gone" /\ published' = published
    <2>1. Contract!Drop(r)
      BY <1>1, <1>6 DEF Contract!Drop
    <2> QED BY <2>1 DEF Contract!Next
  <1> QED BY <1>2, <1>3, <1>4, <1>5, <1>6, SessionPhase

\* The steps of others leave the contract unchanged.
LEMMA OtherRefines ==
    ASSUME Environment \/ UNCHANGED vars
    PROVE  UNCHANGED Contract!vars
  <1>1. UNCHANGED <<pc, source, published>>
    BY DEF Environment, SetLimits, AddEntry, Displace, Replace, ChangeName, vars, adapterVars,
           nativeVars, historyVars
  <1>2. \A r \in Resources : Phase(r)' = Phase(r)
    BY <1>1 DEF Phase
  <1> QED BY <1>1, <1>2 DEF Contract!vars

\* For any set of sessions, the adapter implements the contract of their
\* owners: a source is published at most once, only while it is held, and
\* authority that was given up is never regained.
THEOREM Refinement == Spec => ContractSpec
  <1>1. Init => Contract!Init
    <2> SUFFICES ASSUME Init PROVE Contract!Init
      OBVIOUS
    <2>1. \A r \in Resources : Phase(r) = "unborn"
      BY DEF Init, Phase
    <2> QED BY <2>1 DEF Init, Contract!Init
  <1>2. TypeOK /\ SessionInv /\ TypeOK' /\ [Next]_vars => [Contract!Next]_(Contract!vars)
    BY SessionRefines, OtherRefines DEF Next
  <1> QED BY <1>1, <1>2, TypeCorrect, SessionCorrect, PTL DEF Spec, ContractSpec, Contract!Spec
=============================================================================
