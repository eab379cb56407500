-------------------------- MODULE FileWriterProofs --------------------------
(***************************************************************************)
(* Proofs about writer sessions, for any set of sessions: the inductive    *)
(* invariant WriterInv, the properties it gives, and the refinement of     *)
(* WriterContract.                                                         *)
(***************************************************************************)
EXTENDS FileWriter, TLAPS

\* The failure state of a native certainty is a portable state, only
\* retryable when the writer was retained and nothing was published.
LEMMA FailureStateFacts ==
    ASSUME NEW cert \in Certainty, NEW retained \in BOOLEAN
    PROVE  LET st == WriteFailureState(cert, retained)
           IN /\ st \in FailureState
              /\ WriteEffectState(st) \in Effect \ {"None"}
              /\ ~retained => st = cert
              /\ st = "RetryableNotPublished" <=> (cert = "NotPublished" /\ retained)
              /\ st = "NotPublished" <=> (cert = "NotPublished" /\ ~retained)
              /\ WriteEffectState(st) = "Unchanged" <=> cert = "NotPublished"
              /\ WriteEffectState(st) = "Applied" <=> cert = "Published"
              /\ st = "Published" <=> cert = "Published"
              /\ AbortOutcomeFromFailure(st) = cert
  BY DEF WriteFailureState, WriteEffectState, AbortOutcomeFromFailure, Certainty,
         FailureState, Effect

\* The reports the adapter builds are reports.
LEMMA ReportFacts ==
    /\ \A op \in {"None", "Open", "Write", "Commit", "Abort"} : Success(op) \in Report
    /\ \A op \in {"None", "Open", "Write", "Commit", "Abort"},
          k \in {"None", "InvalidState", "RequirementNotMet", "InvalidPath", "Native"},
          st \in FailureState \cup {"None"}, eff \in Effect :
             Failure(op, k, st, eff) \in Report
    /\ \A out \in Certainty : Aborted(out) \in Report
  BY DEF Success, Failure, Aborted, Report, FailureState, Effect, Certainty

\* The fields of the reports the adapter builds.
LEMMA ReportFields ==
    /\ \A op : /\ Success(op).op = op /\ Success(op).ok = TRUE /\ Success(op).state = "None"
               /\ Success(op).effect = "None" /\ Success(op).outcome = "-"
    /\ \A op, k, st, eff :
          LET f == Failure(op, k, st, eff)
          IN f.op = op /\ f.ok = FALSE /\ f.state = st /\ f.effect = eff /\ f.outcome = "-"
    /\ \A out : /\ Aborted(out).op = "Abort" /\ Aborted(out).ok = TRUE
                /\ Aborted(out).state = "None" /\ Aborted(out).effect = "None"
                /\ Aborted(out).outcome = out
  BY DEF Success, Failure, Aborted

\* A native step keeps the disk well typed.
LEMMA NativeStepType ==
    ASSUME TypeOK, NEW w \in Writers, NEW installed \in BOOLEAN, NEW up \in BOOLEAN,
           NativeStep(w, installed, up)
    PROVE  /\ buffer' \in [Writers -> 0..MaxBytes]
           /\ staging' \in [Writers -> {"none", "ours", "foreign"}]
           /\ target' \in Writers \cup {Absent, Foreign}
           /\ exposed' \in SUBSET Writers
  BY ConstantsAssumption DEF TypeOK, NativeStep

\* Every step of a session preserves the type invariant.
LEMMA SessionType ==
    ASSUME TypeOK, NEW w \in Writers, Session(w)
    PROVE  TypeOK'
<1>1. ASSUME NEW k \in {"RequirementNotMet", "InvalidPath"}, OpenRefused(w, k) PROVE TypeOK'
  <2>1. Failure("Open", k, "None", "Unchanged") \in Report
    BY ReportFacts DEF FailureState, Effect
  <2> QED BY <1>1, <2>1 DEF OpenRefused, TypeOK, nativeVars, historyVars
<1>2. CASE OpenFails(w)
  <2>1. Failure("Open", "Native", "None", "None") \in Report
    BY ReportFacts DEF FailureState, Effect
  <2> QED BY <1>2, <2>1 DEF OpenFails, TypeOK, nativeVars, historyVars
<1>3. ASSUME NEW m \in Mode, OpenSucceeds(w, m) PROVE TypeOK'
  BY <1>3, ReportFacts DEF OpenSucceeds, TypeOK, historyVars
<1>4. CASE Write(w)
  <2>1. /\ Failure("Write", "InvalidState", "None", "None") \in Report
        /\ Failure("Write", "Native", "None", "None") \in Report
        /\ Success("Write") \in Report
    BY ReportFacts DEF FailureState, Effect
  <2>2. report' \in [Writers -> Report] /\ buffer' \in [Writers -> 0..MaxBytes]
    BY <1>4, <2>1, ConstantsAssumption DEF Write, TypeOK
  <2> QED BY <1>4, <2>2 DEF Write, TypeOK, historyVars
<1>5. CASE Flush(w)
  <2>1. /\ Failure("Write", "InvalidState", "None", "None") \in Report
        /\ Failure("Write", "Native", "None", "None") \in Report
        /\ Success("Write") \in Report
    BY ReportFacts DEF FailureState, Effect
  <2>2. PICK rep \in Report : report' = [report EXCEPT ![w] = rep]
    BY <1>5, <2>1 DEF Flush
  <2>2a. report' \in [Writers -> Report]
    BY <2>2 DEF TypeOK
  <2>3. CASE ~slot[w]
    BY <1>5, <2>2a, <2>3 DEF Flush, TypeOK, nativeVars
  <2>4. CASE slot[w]
    <3>1. PICK installed \in BOOLEAN : NativeStep(w, installed, FALSE)
      BY <1>5, <2>4 DEF Flush
    <3> QED BY <1>5, <2>2a, <3>1, NativeStepType, ZenonT(30) DEF Flush, TypeOK
  <2> QED BY <2>3, <2>4
<1>6. CASE CommitRefused(w)
  <2>1. Failure("Commit", "InvalidState", "NotPublished", "None") \in Report
    BY ReportFacts DEF FailureState, Effect, Certainty
  <2> QED BY <1>6, <2>1 DEF CommitRefused, TypeOK, nativeVars, historyVars
<1>7. CASE Commit(w)
  <2>1. PICK o \in NativeCommit(w) :
          LET st == WriteFailureState(o.cert, o.retained)
          IN /\ NativeStep(w, o.installed, ~o.retained)
             /\ slot' = [slot EXCEPT ![w] = ~o.ok /\ o.retained]
             /\ terminal' = [terminal EXCEPT ![w] =
                   IF ~o.ok /\ ~o.retained THEN AbortOutcomeFromFailure(st) ELSE @]
             /\ report' = [report EXCEPT ![w] =
                   IF o.ok THEN Success("Commit")
                   ELSE Failure("Commit", "Native", st, WriteEffectState(st))]
             /\ verdict' = [verdict EXCEPT ![w] =
                   IF o.ok THEN "Published" ELSE IF o.retained THEN @ ELSE st]
    BY <1>7 DEF Commit
  <2>2. o.cert \in Certainty /\ o.retained \in BOOLEAN /\ o.ok \in BOOLEAN /\ o.installed \in BOOLEAN
    BY DEF NativeCommit, CommitOutcome
  <2> DEFINE st == WriteFailureState(o.cert, o.retained)
  <2>3. /\ st \in FailureState /\ WriteEffectState(st) \in Effect
        /\ ~o.retained => st \in Certainty
        /\ AbortOutcomeFromFailure(st) \in Certainty
    BY <2>2, FailureStateFacts
  <2>4. Failure("Commit", "Native", st, WriteEffectState(st)) \in Report /\ Success("Commit") \in Report
    BY <2>3, ReportFacts
  <2> HIDE DEF st
  <2>5. report' \in [Writers -> Report] /\ slot' \in [Writers -> BOOLEAN]
    BY <2>1, <2>2, <2>4 DEF TypeOK, st
  <2>6. terminal' \in [Writers -> Certainty \cup {"None"}]
    BY <2>1, <2>2, <2>3 DEF TypeOK, st
  <2>7. verdict' \in [Writers -> Certainty \cup {"None"}]
    BY <2>1, <2>2, <2>3 DEF TypeOK, Certainty, st
  <2>8. NativeStep(w, o.installed, ~o.retained)
    BY <2>1, Zenon
  <2>8a. (~o.retained) \in BOOLEAN
    OBVIOUS
  <2>9. /\ buffer' \in [Writers -> 0..MaxBytes]
        /\ staging' \in [Writers -> {"none", "ours", "foreign"}]
        /\ target' \in Writers \cup {Absent, Foreign}
        /\ exposed' \in SUBSET Writers
    BY <2>2, <2>8, <2>8a, NativeStepType
  <2> QED BY <1>7, <2>5, <2>6, <2>7, <2>9 DEF Commit, TypeOK
<1>8. CASE AbortTerminal(w)
  <2>1. Failure("Abort", "InvalidState", "None", "None") \in Report
    BY ReportFacts DEF FailureState, Effect
  <2>2. report' \in [Writers -> Report]
    BY <1>8, <2>1, ReportFacts DEF AbortTerminal, TypeOK
  <2> QED BY <1>8, <2>2 DEF AbortTerminal, TypeOK, nativeVars
<1>9. CASE Abort(w)
  <2>1. PICK o \in NativeAbort(w) :
          /\ NativeStep(w, o.installed, o.ok)
          /\ slot' = [slot EXCEPT ![w] = ~o.ok]
          /\ report' = [report EXCEPT ![w] =
                IF o.ok THEN Aborted(AbortOutcome(o.cert))
                ELSE Failure("Abort", "Native", "None", "None")]
          /\ verdict' = [verdict EXCEPT ![w] = IF o.ok THEN AbortOutcome(o.cert) ELSE @]
          /\ aborted' = [aborted EXCEPT ![w] = o.ok]
    BY <1>9 DEF Abort
  <2>2. o.ok \in BOOLEAN /\ o.installed \in BOOLEAN /\ AbortOutcome(o.cert) \in Certainty
    BY DEF NativeAbort, AbortResult, AbortOutcome, Certainty
  <2>3. Aborted(AbortOutcome(o.cert)) \in Report /\ Failure("Abort", "Native", "None", "None") \in Report
    BY <2>2, ReportFacts DEF FailureState, Effect
  <2>4. report' \in [Writers -> Report] /\ verdict' \in [Writers -> Certainty \cup {"None"}]
    BY <2>1, <2>2, <2>3 DEF TypeOK
  <2> QED BY <1>9, <2>1, <2>2, <2>4, NativeStepType DEF Abort, TypeOK
<1>10. CASE Drop(w)
  <2>1. PICK installed \in BOOLEAN : NativeStep(w, installed, slot[w])
    BY <1>10 DEF Drop
  <2>2. slot[w] \in BOOLEAN
    BY DEF TypeOK
  <2> QED BY <1>10, <2>1, <2>2, NativeStepType DEF Drop, TypeOK
<1> QED BY <1>1, <1>2, <1>3, <1>4, <1>5, <1>6, <1>7, <1>8, <1>9, <1>10 DEF Session

\* The type invariant holds initially.
LEMMA InitType == Init => TypeOK
  BY ConstantsAssumption, ReportFacts DEF Init, TypeOK, Mode

\* Every step of the specification preserves the type invariant.
LEMMA NextType == TypeOK /\ [Next]_vars => TypeOK'
<1> SUFFICES ASSUME TypeOK, [Next]_vars PROVE TypeOK'
  OBVIOUS
<1>1. ASSUME NEW w \in Writers, Session(w) PROVE TypeOK'
  BY <1>1, SessionType
<1>2. CASE ChangeTarget
  BY <1>2 DEF ChangeTarget, TypeOK, adapterVars, historyVars
<1>3. ASSUME NEW w \in Writers, ReplaceStaging(w) PROVE TypeOK'
  BY <1>3 DEF ReplaceStaging, TypeOK, adapterVars, historyVars
<1>4. CASE UNCHANGED vars
  BY <1>4 DEF vars, adapterVars, nativeVars, historyVars, TypeOK
<1> QED BY <1>1, <1>2, <1>3, <1>4 DEF Next

\* TypeOK is an invariant for any set of sessions: every report of the
\* adapter is a portable one.
THEOREM TypeCorrect == Spec => []TypeOK
  BY InitType, NextType, PTL DEF Spec

(***************************************************************************)
(* The inductive invariant.  A step of w's session leaves every other      *)
(* session alone; for w itself there is one lemma per action.              *)
(***************************************************************************)

\* What the invariant of a session depends on is unchanged for v.
Same(v) ==
    /\ pc'[v] = pc[v] /\ mode'[v] = mode[v] /\ slot'[v] = slot[v]
    /\ terminal'[v] = terminal[v] /\ report'[v] = report[v]
    /\ verdict'[v] = verdict[v] /\ aborted'[v] = aborted[v]
    /\ v \in exposed' <=> v \in exposed

\* A step that leaves a session alone preserves its invariant.
LEMMA Frame ==
    ASSUME NEW v \in Writers, WriterOK(v), Same(v)
    PROVE  WriterOK(v)'
  BY DEF Same, WriterOK, Truthful, Honoured, Remembers, InPlace

\* A step of one session leaves the others alone.
LEMMA Others ==
    ASSUME TypeOK, NEW w \in Writers, Session(w), NEW v \in Writers \ {w}
    PROVE  Same(v)
<1> USE DEF TypeOK
<1>1. ASSUME NEW k \in {"RequirementNotMet", "InvalidPath"}, OpenRefused(w, k) PROVE Same(v)
  BY <1>1 DEF OpenRefused, Same, nativeVars, historyVars
<1>2. CASE OpenFails(w)
  BY <1>2 DEF OpenFails, Same, nativeVars, historyVars
<1>3. ASSUME NEW m \in Mode, OpenSucceeds(w, m) PROVE Same(v)
  BY <1>3 DEF OpenSucceeds, Same, historyVars
<1>4. CASE Write(w)
  BY <1>4 DEF Write, Same, historyVars
<1>5. CASE Flush(w)
  BY <1>5 DEF Flush, NativeStep, Same, nativeVars
<1>6. CASE CommitRefused(w)
  BY <1>6 DEF CommitRefused, Same, nativeVars, historyVars
<1>7. CASE Commit(w)
  BY <1>7 DEF Commit, NativeStep, Same
<1>8. CASE AbortTerminal(w)
  BY <1>8 DEF AbortTerminal, Same, nativeVars
<1>9. CASE Abort(w)
  BY <1>9 DEF Abort, NativeStep, Same
<1>10. CASE Drop(w)
  BY <1>10 DEF Drop, NativeStep, Same
<1> QED BY <1>1, <1>2, <1>3, <1>4, <1>5, <1>6, <1>7, <1>8, <1>9, <1>10 DEF Session

\* Opening, or failing to, preserves the session's invariant.
LEMMA OpenOK ==
    ASSUME TypeOK, NEW w \in Writers, WriterOK(w),
           \/ \E k \in {"RequirementNotMet", "InvalidPath"} : OpenRefused(w, k)
           \/ OpenFails(w)
           \/ \E m \in Mode : OpenSucceeds(w, m)
    PROVE  WriterOK(w)'
<1>1. report'[w].op = "Open" /\ report'[w].outcome = "-"
  BY ReportFields DEF TypeOK, OpenRefused, OpenFails, OpenSucceeds
<1>2. /\ pc[w] = "closed" /\ terminal' = terminal /\ exposed' = exposed
      /\ verdict' = verdict /\ aborted' = aborted
      /\ pc'[w] = "open" <=> slot'[w]
      /\ slot'[w] \/ slot' = slot
      /\ pc'[w] # "closed" => pc'[w] = "open"
  BY DEF TypeOK, WriterOK, OpenRefused, OpenFails, OpenSucceeds, historyVars
<1> QED BY <1>1, <1>2 DEF TypeOK, WriterOK, Truthful, Honoured, Remembers

\* Writing and flushing preserve it: neither makes a claim.
LEMMA OutputOK ==
    ASSUME TypeOK, NEW w \in Writers, WriterOK(w), Write(w) \/ Flush(w)
    PROVE  WriterOK(w)'
<1>1. report'[w].op = "Write" /\ report'[w].outcome = "-"
  <2>1. PICK rep \in {Success("Write"), Failure("Write", "Native", "None", "None"),
                      Failure("Write", "InvalidState", "None", "None")} :
           report' = [report EXCEPT ![w] = rep]
    BY DEF Write, Flush
  <2> QED BY <2>1, ReportFields DEF TypeOK
<1>2. /\ pc[w] = "open" /\ pc' = pc /\ mode' = mode /\ slot' = slot /\ terminal' = terminal
      /\ verdict' = verdict /\ aborted' = aborted
  BY DEF Write, Flush, historyVars
<1>3. exposed' = exposed \/ slot[w]
  BY DEF Write, Flush, historyVars
<1> QED BY <1>1, <1>2, <1>3 DEF TypeOK, WriterOK, Truthful, Honoured, Remembers, InPlace

\* A commit that a terminal session refuses preserves it.
LEMMA CommitRefusedOK ==
    ASSUME TypeOK, NEW w \in Writers, WriterOK(w), CommitRefused(w)
    PROVE  WriterOK(w)'
<1>1. LET rep == report'[w]
      IN rep.op = "Commit" /\ rep.ok = FALSE /\ rep.effect = "None" /\ rep.outcome = "-"
         /\ rep.state = "NotPublished"
  BY ReportFields DEF TypeOK, CommitRefused
<1> QED BY <1>1 DEF TypeOK, CommitRefused, WriterOK, Truthful, Honoured, Remembers,
                    InPlace, nativeVars, historyVars

\* A commit that reaches the native writer preserves it: what it says is
\* what the engine says, and the engine is truthful.
LEMMA CommitOK ==
    ASSUME TypeOK, NEW w \in Writers, WriterOK(w), Commit(w)
    PROVE  WriterOK(w)'
<1>1. PICK o \in NativeCommit(w) :
        LET st == WriteFailureState(o.cert, o.retained)
        IN /\ NativeStep(w, o.installed, ~o.retained)
           /\ slot' = [slot EXCEPT ![w] = ~o.ok /\ o.retained]
           /\ terminal' = [terminal EXCEPT ![w] =
                 IF ~o.ok /\ ~o.retained THEN AbortOutcomeFromFailure(st) ELSE @]
           /\ report' = [report EXCEPT ![w] =
                 IF o.ok THEN Success("Commit")
                 ELSE Failure("Commit", "Native", st, WriteEffectState(st))]
           /\ verdict' = [verdict EXCEPT ![w] =
                 IF o.ok THEN "Published" ELSE IF o.retained THEN @ ELSE st]
  BY DEF Commit
<1>2. /\ o.cert \in Certainty /\ o.retained \in BOOLEAN /\ o.ok \in BOOLEAN
      /\ o.installed \in BOOLEAN
      /\ o.ok => o.cert = "Published" /\ ~o.retained
      /\ o.cert = "NotPublished" => ~ExposedAfter(w, o)
      /\ o.cert = "Published" => (ExposedAfter(w, o) \/ InPlace(w))
  BY DEF NativeCommit, CommitOutcome
<1>3. w \in exposed' <=> ExposedAfter(w, o)
  BY <1>1, <1>2 DEF NativeStep, ExposedAfter
<1> DEFINE st == WriteFailureState(o.cert, o.retained)
<1>4. /\ ~o.retained => st = o.cert
      /\ st = "RetryableNotPublished" <=> (o.cert = "NotPublished" /\ o.retained)
      /\ st = "NotPublished" <=> (o.cert = "NotPublished" /\ ~o.retained)
      /\ WriteEffectState(st) = "Unchanged" <=> o.cert = "NotPublished"
      /\ WriteEffectState(st) = "Applied" <=> o.cert = "Published"
      /\ st = "Published" <=> o.cert = "Published"
      /\ AbortOutcomeFromFailure(st) = o.cert
  BY <1>2, FailureStateFacts
<1>5. /\ pc' = pc /\ mode' = mode /\ aborted' = aborted
      /\ pc[w] = "open" /\ slot[w] = TRUE /\ verdict[w] = "None" /\ terminal[w] = "None"
      /\ aborted[w] = FALSE
  BY DEF TypeOK, Commit, WriterOK, Remembers
<1>6. CASE o.ok
  <2>1. report'[w] = Success("Commit") /\ slot'[w] = FALSE /\ verdict'[w] = "Published"
        /\ terminal'[w] = "None"
    BY <1>1, <1>2, <1>5, <1>6 DEF TypeOK
  <2> QED BY <1>2, <1>3, <1>5, <1>6, <2>1, ReportFields
          DEF TypeOK, WriterOK, Truthful, Honoured, Remembers, InPlace
<1>7. CASE ~o.ok /\ o.retained
  <2>1. /\ report'[w] = Failure("Commit", "Native", st, WriteEffectState(st))
        /\ slot'[w] = TRUE /\ verdict'[w] = "None" /\ terminal'[w] = "None"
    BY <1>1, <1>2, <1>5, <1>7 DEF TypeOK
  <2> HIDE DEF st
  <2> QED BY <1>2, <1>3, <1>4, <1>5, <1>7, <2>1, ReportFields
          DEF TypeOK, WriterOK, Truthful, Honoured, Remembers, InPlace
<1>8. CASE ~o.ok /\ ~o.retained
  <2>1. /\ report'[w] = Failure("Commit", "Native", st, WriteEffectState(st))
        /\ slot'[w] = FALSE /\ verdict'[w] = o.cert /\ terminal'[w] = o.cert
    BY <1>1, <1>2, <1>4, <1>5, <1>8 DEF TypeOK
  <2> HIDE DEF st
  <2> QED BY <1>2, <1>3, <1>4, <1>5, <1>8, <2>1, ReportFields
          DEF TypeOK, WriterOK, Truthful, Honoured, Remembers, InPlace, Certainty
<1> QED BY <1>2, <1>6, <1>7, <1>8

\* An abort answered from the recorded outcome preserves it.
LEMMA AbortTerminalOK ==
    ASSUME TypeOK, NEW w \in Writers, WriterOK(w), AbortTerminal(w)
    PROVE  WriterOK(w)'
<1>1. /\ pc' = pc /\ mode' = mode /\ slot' = slot /\ verdict' = verdict /\ exposed' = exposed
      /\ pc[w] = "open" /\ slot[w] = FALSE /\ verdict[w] # "None"
  BY DEF TypeOK, AbortTerminal, WriterOK
<1>2. CASE terminal[w] # "None"
  <2>1. /\ report'[w] = Aborted(terminal[w]) /\ terminal'[w] = "None" /\ aborted'[w] = TRUE
        /\ terminal[w] = verdict[w]
    BY <1>2 DEF TypeOK, AbortTerminal, WriterOK, Remembers
  <2> QED BY <1>1, <2>1, ReportFields
          DEF TypeOK, WriterOK, Truthful, Honoured, Remembers, InPlace
<1>3. CASE terminal[w] = "None"
  <2>1. /\ report'[w] = Failure("Abort", "InvalidState", "None", "None")
        /\ terminal' = terminal /\ aborted' = aborted
    BY <1>3 DEF TypeOK, AbortTerminal
  <2> QED BY <1>1, <2>1, ReportFields
          DEF TypeOK, WriterOK, Truthful, Honoured, Remembers, InPlace
<1> QED BY <1>2, <1>3

\* An abort that reaches the native writer preserves it.
LEMMA AbortOK ==
    ASSUME TypeOK, NEW w \in Writers, WriterOK(w), Abort(w)
    PROVE  WriterOK(w)'
<1>1. PICK o \in NativeAbort(w) :
        /\ NativeStep(w, o.installed, o.ok)
        /\ slot' = [slot EXCEPT ![w] = ~o.ok]
        /\ report' = [report EXCEPT ![w] =
              IF o.ok THEN Aborted(AbortOutcome(o.cert))
              ELSE Failure("Abort", "Native", "None", "None")]
        /\ verdict' = [verdict EXCEPT ![w] = IF o.ok THEN AbortOutcome(o.cert) ELSE @]
        /\ aborted' = [aborted EXCEPT ![w] = o.ok]
  BY DEF Abort
<1>2. /\ o.ok \in BOOLEAN /\ o.installed \in BOOLEAN
      /\ AbortOutcome(o.cert) \in Certainty
      /\ ~o.ok => ~o.installed
      /\ (o.ok /\ AbortOutcome(o.cert) = "NotPublished") => ~ExposedAfter(w, o)
      /\ (o.ok /\ AbortOutcome(o.cert) = "Published") => (ExposedAfter(w, o) \/ InPlace(w))
  BY DEF NativeAbort, AbortResult, AbortOutcome, Certainty
<1>3. w \in exposed' <=> ExposedAfter(w, o)
  BY <1>1, <1>2 DEF NativeStep, ExposedAfter
<1>4. /\ pc' = pc /\ mode' = mode /\ terminal' = terminal
      /\ pc[w] = "open" /\ slot[w] = TRUE /\ verdict[w] = "None" /\ terminal[w] = "None"
  BY DEF TypeOK, Abort, WriterOK, Remembers
<1>5. CASE o.ok
  <2>1. /\ report'[w] = Aborted(AbortOutcome(o.cert)) /\ slot'[w] = FALSE
        /\ verdict'[w] = AbortOutcome(o.cert) /\ aborted'[w] = TRUE
    BY <1>1, <1>2, <1>5 DEF TypeOK
  <2> QED BY <1>2, <1>3, <1>4, <1>5, <2>1, ReportFields
          DEF TypeOK, WriterOK, Truthful, Honoured, Remembers, InPlace, Certainty
<1>6. CASE ~o.ok
  <2>1. /\ report'[w] = Failure("Abort", "Native", "None", "None") /\ slot'[w] = TRUE
        /\ verdict'[w] = "None" /\ aborted'[w] = FALSE
    BY <1>1, <1>2, <1>4, <1>6 DEF TypeOK
  <2> QED BY <1>2, <1>3, <1>4, <1>6, <2>1, ReportFields
          DEF TypeOK, WriterOK, Truthful, Honoured, Remembers, InPlace
<1> QED BY <1>2, <1>5, <1>6

\* Dropping the session preserves it: only an open session can expose bytes.
LEMMA DropOK ==
    ASSUME TypeOK, NEW w \in Writers, WriterOK(w), Drop(w)
    PROVE  WriterOK(w)'
<1>1. /\ mode' = mode /\ terminal' = terminal /\ report' = report
      /\ verdict' = verdict /\ aborted' = aborted
      /\ pc'[w] = "dropped" /\ slot'[w] = FALSE
  BY DEF TypeOK, Drop
<1>2. /\ w \in exposed => w \in exposed'
      /\ verdict[w] # "None" => (w \in exposed' <=> w \in exposed)
  BY DEF TypeOK, Drop, NativeStep, WriterOK
<1> QED BY <1>1, <1>2 DEF TypeOK, WriterOK, Truthful, Honoured, Remembers, InPlace

\* The inductive invariant holds initially.
LEMMA InitInv == Init => WriterInv
<1> SUFFICES ASSUME Init, NEW w \in Writers PROVE WriterOK(w)
  BY DEF WriterInv
<1>1. report[w].op = "None" /\ report[w].outcome = "-"
  BY ReportFields DEF Init
<1> QED BY <1>1 DEF Init, WriterOK, Truthful, Honoured, Remembers

\* Every step preserves the inductive invariant.
LEMMA NextInv == TypeOK /\ WriterInv /\ [Next]_vars => WriterInv'
<1> SUFFICES ASSUME TypeOK, WriterInv, [Next]_vars, NEW v \in Writers PROVE WriterOK(v)'
  BY DEF WriterInv
<1>0. WriterOK(v)
  BY DEF WriterInv
<1>1. ASSUME NEW w \in Writers, Session(w) PROVE WriterOK(v)'
  <2>1. CASE v # w
    BY <1>0, <1>1, <2>1, Others, Frame
  <2>2. CASE v = w
    BY <1>0, <1>1, <2>2, OpenOK, OutputOK, CommitRefusedOK, CommitOK, AbortTerminalOK,
       AbortOK, DropOK DEF Session
  <2> QED BY <2>1, <2>2
<1>2. CASE ChangeTarget
  BY <1>0, <1>2, Frame DEF ChangeTarget, Same, adapterVars, historyVars
<1>3. ASSUME NEW w \in Writers, ReplaceStaging(w) PROVE WriterOK(v)'
  BY <1>0, <1>3, Frame DEF ReplaceStaging, Same, adapterVars, historyVars
<1>4. CASE UNCHANGED vars
  BY <1>0, <1>4, Frame DEF Same, vars, adapterVars, nativeVars, historyVars
<1> QED BY <1>1, <1>2, <1>3, <1>4 DEF Next

\* WriterInv is an invariant for any set of sessions.
THEOREM WriterCorrect == Spec => []WriterInv
  BY InitType, NextType, InitInv, NextInv, PTL DEF Spec

\* For any set of sessions, every claim the adapter makes about the
\* destination is true.
THEOREM PublicationCorrect == Spec => []PublicationTruthful
<1>1. WriterInv => PublicationTruthful
  BY DEF WriterInv, WriterOK, PublicationTruthful
<1> QED BY <1>1, WriterCorrect, PTL

\* For any set of sessions, RetryableNotPublished is honoured.
THEOREM RetryCorrect == Spec => []RetryHonoured
<1>1. WriterInv => RetryHonoured
  BY DEF WriterInv, WriterOK, RetryHonoured
<1> QED BY <1>1, WriterCorrect, PTL

\* For any set of sessions, an abort after a terminal commit failure repeats
\* the verdict of that failure.
THEOREM AbortCorrect == Spec => []AbortRemembers
<1>1. WriterInv => AbortRemembers
  BY DEF WriterInv, WriterOK, AbortRemembers
<1> QED BY <1>1, WriterCorrect, PTL

\* A step changes the verdict of no session that already has one.
LEMMA VerdictKept ==
    ASSUME TypeOK, WriterInv, [Next]_vars, NEW v \in Writers, verdict[v] # "None"
    PROVE  verdict'[v] = verdict[v]
<1>0. slot[v] = FALSE
  BY DEF TypeOK, WriterInv, WriterOK
<1>1. ASSUME NEW w \in Writers, Session(w), v # w PROVE verdict'[v] = verdict[v]
  BY <1>1, Others DEF Same
<1>2. CASE Session(v)
  <2>1. pc[v] # "closed"
    BY DEF WriterInv, WriterOK
  <2> QED BY <1>0, <1>2, <2>1
          DEF Session, OpenRefused, OpenFails, OpenSucceeds, Write, Flush, CommitRefused,
              Commit, AbortTerminal, Abort, Drop, historyVars
<1>3. CASE ChangeTarget
  BY <1>3 DEF ChangeTarget, historyVars
<1>4. ASSUME NEW w \in Writers, ReplaceStaging(w) PROVE verdict'[v] = verdict[v]
  BY <1>4 DEF ReplaceStaging, historyVars
<1>5. CASE UNCHANGED vars
  BY <1>5 DEF vars, historyVars
<1> QED BY <1>1, <1>2, <1>3, <1>4, <1>5 DEF Next

\* For any set of sessions a verdict is final, and every later abort that
\* succeeds repeats it.
THEOREM VerdictCorrect == Spec => VerdictFinal
<1> DEFINE Final == \A w \in Writers : verdict[w] # "None" =>
                       /\ verdict'[w] = verdict[w]
                       /\ report'[w].outcome # "-" => report'[w].outcome = verdict[w]
<1>1. TypeOK /\ WriterInv /\ [Next]_vars => Final
  <2> SUFFICES ASSUME TypeOK, WriterInv, [Next]_vars, NEW w \in Writers, verdict[w] # "None"
               PROVE  /\ verdict'[w] = verdict[w]
                      /\ report'[w].outcome # "-" => report'[w].outcome = verdict[w]
    OBVIOUS
  <2>1. verdict'[w] = verdict[w]
    BY VerdictKept
  <2>2. WriterOK(w)'
    BY NextInv DEF WriterInv
  <2> QED BY <2>1, <2>2 DEF WriterOK
<1>2. TypeOK /\ WriterInv /\ [Next]_vars => [Final]_vars
  BY <1>1
<1> HIDE DEF Final
<1>3. Spec => [][Final]_vars
  BY <1>2, TypeCorrect, WriterCorrect, PTL DEF Spec
<1> QED BY <1>3 DEF VerdictFinal, Final

(***************************************************************************)
(* The refinement of WriterContract.                                       *)
(***************************************************************************)

AbstractPhase == [w \in Writers |-> Phase(w)]
AbstractInPlace == {w \in Writers : pc[w] # "closed" /\ InPlace(w)}

\* A step that leaves the abstract state alone for every other session, and
\* only exposes w, is described by what happens to w.
LEMMA PhaseStep ==
    ASSUME TypeOK, NEW w \in Writers, \A v \in Writers \ {w} : Same(v)
    PROVE  /\ AbstractPhase' = [AbstractPhase EXCEPT ![w] = Phase(w)']
           /\ pc'[w] # "closed" /\ pc[w] # "closed" /\ mode'[w] = mode[w] =>
                 AbstractInPlace' = AbstractInPlace
<1>1. \A v \in Writers \ {w} : Phase(v)' = Phase(v)
  BY DEF Same, Phase
<1>2. \A v \in Writers \ {w} : (pc[v] # "closed" /\ InPlace(v))' <=> (pc[v] # "closed" /\ InPlace(v))
  BY DEF Same, InPlace
<1>3. AbstractPhase' = [AbstractPhase EXCEPT ![w] = Phase(w)']
  BY <1>1 DEF AbstractPhase
<1>4. ASSUME pc'[w] # "closed", pc[w] # "closed", mode'[w] = mode[w]
      PROVE  AbstractInPlace' = AbstractInPlace
  BY <1>2, <1>4 DEF AbstractInPlace, InPlace
<1> QED BY <1>3, <1>4

\* The phase of a session by its state.
LEMMA PhaseFacts ==
    ASSUME TypeOK, NEW w \in Writers, WriterOK(w)
    PROVE  /\ pc[w] = "closed" <=> Phase(w) = "none"
           /\ pc[w] = "dropped" <=> Phase(w) = "gone"
           /\ slot[w] <=> Phase(w) = "open"
           /\ Phase(w) \in {"none", "open", "published", "unpublished", "unknown", "gone"}
           /\ Phase(w) = "published" => w \in exposed \/ InPlace(w)
           /\ Phase(w) = "unpublished" => w \notin exposed
  BY DEF TypeOK, WriterOK, Phase, Certainty

\* What a step of w's session may do to the abstract state of w.
LEMMA SessionPhase ==
    ASSUME TypeOK, WriterInv, NEW w \in Writers, Session(w)
    PROVE  \/ /\ Phase(w)' = Phase(w) /\ exposed' = exposed /\ mode'[w] = mode[w]
              /\ pc'[w] = pc[w]
           \/ /\ Phase(w) = "none" /\ Phase(w)' = "open" /\ exposed' = exposed
           \/ /\ Phase(w) = "open" /\ Phase(w)' # "none" /\ mode'[w] = mode[w]
              /\ exposed' \in {exposed, exposed \cup {w}}
           \/ /\ Phase(w) \notin {"none", "gone"} /\ Phase(w)' = "gone" /\ exposed' = exposed
              /\ mode'[w] = mode[w]
<1>0. WriterOK(w) /\ TypeOK' /\ WriterOK(w)'
  BY SessionType, NextInv DEF WriterInv, Next
<1>1. ASSUME NEW k \in {"RequirementNotMet", "InvalidPath"}, OpenRefused(w, k)
      PROVE  Phase(w)' = Phase(w) /\ exposed' = exposed /\ mode'[w] = mode[w] /\ pc'[w] = pc[w]
  BY <1>1 DEF OpenRefused, Phase, historyVars
<1>2. CASE OpenFails(w)
  BY <1>2 DEF OpenFails, Phase, historyVars
<1>3. ASSUME NEW m \in Mode, OpenSucceeds(w, m)
      PROVE  Phase(w) = "none" /\ Phase(w)' = "open" /\ exposed' = exposed
  BY <1>0, <1>3 DEF OpenSucceeds, Phase, WriterOK, historyVars, TypeOK
<1>4. CASE Write(w)
  BY <1>4 DEF Write, Phase, historyVars
<1>5. CASE Flush(w)
  <2>1. CASE ~slot[w]
    BY <1>5, <2>1 DEF Flush, Phase
  <2>2. CASE slot[w]
    <3>1. exposed' \in {exposed, exposed \cup {w}}
      BY <1>5, <2>2 DEF Flush, NativeStep
    <3>2. Phase(w) = "open" /\ Phase(w)' = Phase(w)
      BY <1>0, <1>5, <2>2, PhaseFacts DEF Flush, Phase
    <3> QED BY <1>5, <3>1, <3>2 DEF Flush
  <2> QED BY <2>1, <2>2
<1>6. CASE CommitRefused(w)
  BY <1>6 DEF CommitRefused, Phase, historyVars
<1>7. ASSUME Commit(w) \/ Abort(w)
      PROVE  /\ Phase(w) = "open" /\ Phase(w)' # "none" /\ mode'[w] = mode[w]
             /\ exposed' \in {exposed, exposed \cup {w}}
  <2>1. pc'[w] = "open" /\ slot[w] /\ mode' = mode
    BY <1>7 DEF Commit, Abort
  <2>2. exposed' \in {exposed, exposed \cup {w}}
    BY <1>7 DEF Commit, Abort, NativeStep
  <2>3. Phase(w) = "open"
    BY <1>0, <2>1, PhaseFacts
  <2>4. Phase(w)' # "none"
    BY <1>0, <2>1 DEF Phase, TypeOK, Certainty
  <2> QED BY <2>1, <2>2, <2>3, <2>4
<1>8. CASE AbortTerminal(w)
  BY <1>8 DEF AbortTerminal, Phase
<1>9. CASE Drop(w)
  <2>1. Phase(w)' = "gone" /\ mode'[w] = mode[w] /\ pc[w] = "open"
    BY <1>9 DEF Drop, Phase, TypeOK
  <2>2. CASE slot[w]
    <3>1. exposed' \in {exposed, exposed \cup {w}}
      BY <1>9 DEF Drop, NativeStep
    <3> QED BY <1>0, <2>1, <2>2, <3>1, PhaseFacts
  <2>3. CASE ~slot[w]
    <3>1. exposed' = exposed
      BY <1>9, <2>3 DEF Drop, NativeStep
    <3> QED BY <1>0, <2>1, <3>1, PhaseFacts
  <2> QED BY <2>2, <2>3
<1> QED BY <1>1, <1>2, <1>3, <1>4, <1>5, <1>6, <1>7, <1>8, <1>9 DEF Session

\* A step of a session is a step of the contract or leaves it unchanged.
LEMMA SessionRefines ==
    ASSUME TypeOK, WriterInv, NEW w \in Writers, Session(w)
    PROVE  [Contract!Next]_(Contract!vars)
<1> DEFINE P == AbstractPhase
           I == AbstractInPlace
<1>0. /\ WriterOK(w) /\ TypeOK' /\ WriterOK(w)'
      /\ \A v \in Writers \ {w} : Same(v)
  BY SessionType, NextInv, Others DEF WriterInv, Next
<1>1. P' = [P EXCEPT ![w] = Phase(w)'] /\ P[w] = Phase(w)
  BY <1>0, PhaseStep DEF AbstractPhase
<1>2. /\ Phase(w)' \in {"none", "open", "published", "unpublished", "unknown", "gone"}
      /\ Phase(w)' = "published" => w \in exposed' \/ InPlace(w)'
      /\ Phase(w)' = "unpublished" => w \notin exposed'
      /\ pc'[w] = "closed" <=> Phase(w)' = "none"
  BY <1>0 DEF TypeOK, WriterOK, Phase, Certainty
<1>2a. pc[w] = "closed" <=> Phase(w) = "none"
  BY <1>0, PhaseFacts
<1>3. ASSUME Phase(w) # "none", mode'[w] = mode[w], Phase(w)' # "none"
      PROVE  I' = I /\ (InPlace(w)' <=> w \in I)
  BY <1>0, <1>2, <1>2a, <1>3, PhaseStep DEF AbstractInPlace, InPlace
<1> USE DEF AbstractPhase, AbstractInPlace
<1>4. CASE Phase(w)' = Phase(w) /\ exposed' = exposed /\ mode'[w] = mode[w] /\ pc'[w] = pc[w]
  <2>1. P' = P
    BY <1>1, <1>4
  <2>2. I' = I
    BY <1>0, <1>4 DEF Same, InPlace
  <2> QED BY <1>4, <2>1, <2>2 DEF Contract!vars
<1>5. CASE Phase(w) = "none" /\ Phase(w)' = "open" /\ exposed' = exposed
  <2>1. I' \in {I, I \cup {w}}
    BY <1>0, <1>2a, <1>5 DEF Same, InPlace
  <2>2. Contract!Open(w)
    BY <1>1, <1>5, <2>1 DEF Contract!Open
  <2> QED BY <2>2 DEF Contract!Next
<1>6. CASE /\ Phase(w) = "open" /\ Phase(w)' # "none" /\ mode'[w] = mode[w]
           /\ exposed' \in {exposed, exposed \cup {w}}
  <2>1. I' = I /\ (InPlace(w)' <=> w \in I)
    BY <1>3, <1>6
  <2>2. CASE Phase(w)' = "open"
    <3>1. P' = P
      BY <1>1, <1>6, <2>2
    <3>2. CASE exposed' = exposed
      BY <2>1, <3>1, <3>2 DEF Contract!vars
    <3>3. CASE exposed' = exposed \cup {w}
      BY <1>1, <1>6, <2>1, <3>1, <3>3 DEF Contract!Expose, Contract!Next
    <3> QED BY <1>6, <3>2, <3>3
  <2>3. CASE Phase(w)' = "gone"
    BY <1>1, <1>6, <2>1, <2>3 DEF Contract!Drop, Contract!Next
  <2>4. CASE Phase(w)' \in {"published", "unpublished", "unknown"}
    <3>1. Contract!Finish(w)
      BY <1>1, <1>2, <1>6, <2>1, <2>4 DEF Contract!Finish, Contract!Verdicts
    <3> QED BY <3>1 DEF Contract!Next
  <2> QED BY <1>2, <1>6, <2>2, <2>3, <2>4
<1>7. CASE /\ Phase(w) \notin {"none", "gone"} /\ Phase(w)' = "gone" /\ exposed' = exposed
           /\ mode'[w] = mode[w]
  <2>1. I' = I
    BY <1>3, <1>7
  <2>2. Contract!Drop(w)
    BY <1>1, <1>7, <2>1 DEF Contract!Drop
  <2> QED BY <2>2 DEF Contract!Next
<1> QED BY <1>4, <1>5, <1>6, <1>7, SessionPhase

\* The other steps leave the contract unchanged.
LEMMA OtherRefines ==
    ASSUME ChangeTarget \/ (\E w \in Writers : ReplaceStaging(w)) \/ UNCHANGED vars
    PROVE  UNCHANGED Contract!vars
<1>1. UNCHANGED <<pc, mode, verdict, exposed>>
  BY DEF ChangeTarget, ReplaceStaging, vars, adapterVars, historyVars
<1>2. \A w \in Writers : Phase(w)' = Phase(w)
  BY <1>1 DEF Phase
<1> QED BY <1>1, <1>2 DEF Contract!vars, InPlace

\* For any set of sessions, the adapter implements the contract of a writer:
\* a verdict is final and true, and only an open session exposes bytes.
THEOREM Refinement == Spec => ContractSpec
<1>1. Init => Contract!Init
  <2> SUFFICES ASSUME Init PROVE Contract!Init
    OBVIOUS
  <2>1. \A w \in Writers : Phase(w) = "none"
    BY DEF Init, Phase
  <2> QED BY <2>1 DEF Init, Contract!Init
<1>2. TypeOK /\ WriterInv /\ [Next]_vars => [Contract!Next]_(Contract!vars)
  BY SessionRefines, OtherRefines DEF Next
<1> QED BY <1>1, <1>2, TypeCorrect, WriterCorrect, PTL DEF Spec, ContractSpec, Contract!Spec
=============================================================================
