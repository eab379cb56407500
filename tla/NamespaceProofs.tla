-------------------------- MODULE NamespaceProofs --------------------------
(***************************************************************************)
(* Theorems about Namespace, for any set of clients, paths and requests.   *)
(***************************************************************************)
EXTENDS Namespace, TLAPS

\* A failure is a report with the fields it was built from.
LEMMA FailureFacts ==
    ASSUME NEW k \in {"InvalidPath", "RequirementNotMet", "Native",
                      "ProviderContractViolation"},
           NEW st \in NativeState, NEW eff \in Effect, NEW n \in 0..2
    PROVE  LET f == Failure(k, st, eff, n)
           IN /\ f \in Report /\ ~f.ok /\ f.state = st /\ f.effect = eff /\ f.entries = n
              /\ ~f.already /\ ~f.atomic /\ ~f.durable /\ f.preserved = "None"
  BY DEF Success, Failure, Report, NativeState, Effect

\* Whatever the request, its native options are native options.
LEMMA OptionsType ==
    ASSUME NEW q \in Requests
    PROVE  OptionsOf(q) \in NativeOptions
  <1>1. q \in Request BY ConstantsAssumption
  <1>2. Defaults \in NativeOptions
    BY DEF Defaults, NativeOptions, Conflict, Requirement
  <1>3. CASE q \in CopyRequest
    BY <1>2, <1>3 DEF OptionsOf, CopyRequest, NativeOptions, Conflict, Requirement,
       CopyConflict, TypeConflict, NativeRequirement, Defaults
  <1>4. CASE q \in RenameRequest
    BY <1>2, <1>4 DEF OptionsOf, RenameRequest, NativeOptions, Conflict, Requirement,
       NativeRequirement, Defaults
  <1>5. CASE q \in CreateRequest
    BY <1>2, <1>5 DEF OptionsOf, CreateRequest, NativeOptions, Conflict, Requirement, Defaults
  <1>6. CASE q \in DeleteRequest
    BY <1>2, <1>6 DEF OptionsOf, DeleteRequest, NativeOptions, Conflict, Requirement, Defaults
  <1> QED BY <1>1, <1>3, <1>4, <1>5, <1>6 DEF Request

\* The fields of a native answer, whatever the request.
LEMMA AnswerType ==
    ASSUME NEW q, NEW no, NEW a \in NativeAnswers(q, no)
    PROVE  /\ a.ok \in BOOLEAN /\ a.done \in Extent
           /\ a.state \in NativeState /\ a.effect \in Effect
           /\ a.atomic \in BOOLEAN /\ a.durable \in BOOLEAN /\ a.permissions \in BOOLEAN
           /\ a.entries \in 0..2
           /\ Truthful(a)
           /\ (q.op # "copy") => a.entries = 0
  <1>1. a \in CopyAnswer \cup RenameAnswer \cup PlainAnswer
    BY DEF NativeAnswers, NativeCopy, NativeRename, NativeCreate, NativeDelete
  <1>2. Truthful(a)
    BY DEF NativeAnswers, NativeCopy, NativeRename, NativeCreate, NativeDelete
  <1>3. q.op # "copy" => a \in RenameAnswer \cup PlainAnswer
    BY DEF NativeAnswers, NativeCopy, NativeRename, NativeCreate, NativeDelete
  <1>4. CASE a \in CopyAnswer
    <2>1. q.op # "copy" => a.entries = 0
      BY <1>3 DEF RenameAnswer, PlainAnswer
    <2> QED BY <1>2, <1>4, <2>1 DEF CopyAnswer, NativeState, Effect
  <1>5. CASE a \in RenameAnswer
    <2>1. a.atomic \in BOOLEAN /\ a.durable \in BOOLEAN /\ a.permissions \in BOOLEAN
      BY <1>5, Zenon DEF RenameAnswer
    <2>2. a.ok \in BOOLEAN /\ a.done \in Extent /\ a.state \in NativeState
          /\ a.effect \in Effect /\ a.entries = 0
      BY <1>5 DEF RenameAnswer, NativeState, Effect, Extent
    <2> QED BY <1>2, <2>1, <2>2
  <1>6. CASE a \in PlainAnswer
    <2>1. a.atomic \in BOOLEAN /\ a.durable \in BOOLEAN /\ a.permissions \in BOOLEAN
      BY <1>6, Zenon DEF PlainAnswer
    <2>2. a.ok \in BOOLEAN /\ a.done \in Extent /\ a.state \in NativeState
          /\ a.effect \in Effect /\ a.entries = 0
      BY <1>6 DEF PlainAnswer, NativeState, Effect, Extent
    <2> QED BY <1>2, <2>1, <2>2
  <1> QED BY <1>1, <1>4, <1>5, <1>6

\* What a handler returns for a native answer is a report.
LEMMA ReportedType ==
    ASSUME NEW q, NEW no, NEW a \in NativeAnswers(q, no), NEW mappable \in BOOLEAN
    PROVE  Reported(q, a, mappable) \in Report
  <1>1. EffectState(a.state) \in Effect /\ NativeEffectState(a.effect) \in Effect
        /\ Already(a) \in BOOLEAN
    BY AnswerType DEF EffectState, NativeEffectState, Effect, Already
  <1>2. Success \in Report
    BY DEF Success, Report, NativeState, Effect
  <1>5. CopyOutcome(a) \in Report
    <2>1. a.entries \in 0..2 /\ a.atomic \in BOOLEAN /\ a.durable \in BOOLEAN
      BY AnswerType
    <2>2. (IF a.permissions THEN "Portable" ELSE "None") \in {"None", "Portable"}
      OBVIOUS
    <2> QED BY <1>2, <2>1, <2>2 DEF CopyOutcome, Report
  <1>6. RenameOutcome(a) \in Report
    BY <1>2, AnswerType DEF RenameOutcome, Report
  <1>7. [Success EXCEPT !.already = Already(a)] \in Report
    <2> DEFINE b == Already(a)
    <2>1. b \in BOOLEAN
      BY <1>1
    <2> HIDE DEF b
    <2>2. [Success EXCEPT !.already = b] \in Report
      BY <1>2, <2>1 DEF Report
    <2> QED BY <2>2 DEF b
  <1>3. CopyFailure(a, mappable) \in Report
    <2>1. a.state \in NativeState /\ EffectState(a.state) \in Effect /\ a.entries \in 0..2
      BY <1>1, AnswerType
    <2>2. /\ Failure("Native", a.state, EffectState(a.state), a.entries) \in Report
          /\ Failure("ProviderContractViolation", a.state, EffectState(a.state), a.entries) \in Report
      BY <2>1, FailureFacts
    <2> QED BY <2>2 DEF CopyFailure, UnmappableCopyFailure
  <1>4. /\ Failure("Native", a.state, EffectState(a.state), 0) \in Report
        /\ Failure("Native", "None", NativeEffectState(a.effect), 0) \in Report
    BY <1>1, AnswerType, FailureFacts, SMTT(30) DEF NativeState
  <1> QED BY <1>3, <1>4, <1>5, <1>6, <1>7 DEF Reported

\* A call that is sent keeps the state typed.
LEMMA CallType ==
    ASSUME TypeOK, NEW c \in Clients, NEW q \in Requests, NEW mappable \in BOOLEAN,
           Call(c, q, mappable), tries[c] < MaxTries
    PROVE  TypeOK'
  <1>1. Rejection(q, mappable) \in Report
    BY FailureFacts, SMTT(30) DEF Rejection, RejectedState, NativeState, Effect
  <1>2. tries' \in [Clients -> 0..MaxTries]
    BY ConstantsAssumption DEF Call, TypeOK
  <1>3. Idle \in Deed
    BY DEF Idle, Deed, Extent
  <1>4. options' \in [Clients -> NativeOptions] /\ report' \in [Clients -> Report]
        /\ pc' \in [Clients -> {"idle", "native", "returned"}]
    BY <1>1, OptionsType DEF Call, TypeOK
  <1>5. disk' \in [Paths -> Object \cup {Nothing}] /\ applied' \in [Clients -> 0..MaxTries]
        /\ request' \in [Clients -> Requests \cup {NoRequest}]
        /\ deed' \in [Clients -> Deed]
    BY <1>3 DEF Call, TypeOK
  <1> QED BY <1>2, <1>4, <1>5 DEF TypeOK

\* A native answer leaves objects at the paths.
LEMMA DiskAfterType ==
    ASSUME TypeOK, NEW q \in Requests, NEW no, NEW a \in NativeAnswers(q, no)
    PROVE  DiskAfter(q, a) \in [Paths -> Object \cup {Nothing}]
  <1>1. q \in Request BY ConstantsAssumption
  <1>2. q.op \in {"copy", "rename", "create", "delete_file", "delete_directory"}
        /\ q.target \in Paths
    BY <1>1 DEF Request, CopyRequest, RenameRequest, CreateRequest, DeleteRequest
  <1>3. q.op \in {"copy", "rename"} => q.source \in Paths
    BY <1>1 DEF Request, CopyRequest, RenameRequest, CreateRequest, DeleteRequest
  <1>4. a.done \in Extent BY AnswerType
  <1>5. disk \in [Paths -> Object \cup {Nothing}] BY DEF TypeOK
  <1>6. CASE a.done = "none" BY <1>5, <1>6 DEF DiskAfter
  <1>7. CASE a.done # "none" /\ q.op = "copy"
    <2>1. disk[q.source] # Nothing
      BY <1>7 DEF NativeAnswers, NativeCopy
    <2>2. disk[q.source] \in Object BY <1>3, <1>5, <1>7, <2>1
    <2>3. [disk[q.source] EXCEPT !.whole = @ /\ a.done = "all"] \in Object
      BY <2>2 DEF Object
    <2> QED BY <1>2, <1>5, <1>7, <2>3 DEF DiskAfter
  <1>8. CASE a.done # "none" /\ q.op = "rename"
    BY <1>2, <1>3, <1>5, <1>8 DEF DiskAfter
  <1>9. CASE a.done # "none" /\ q.op = "create"
    <2>1. [name |-> NewDir, whole |-> TRUE] \in Object BY DEF Object, Names
    <2> QED BY <1>2, <1>5, <1>9, <2>1 DEF DiskAfter
  <1>10. CASE a.done # "none" /\ q.op \in {"delete_file", "delete_directory"}
    <2>1. disk[q.target] # Nothing
      BY <1>10 DEF NativeAnswers, NativeDelete
    <2>2. disk[q.target] \in Object BY <1>2, <1>5, <2>1
    <2>3. [disk[q.target] EXCEPT !.whole = FALSE] \in Object BY <2>2 DEF Object
    <2>4. DiskAfter(q, a) = [disk EXCEPT ![q.target] =
             IF a.done = "all" THEN Nothing ELSE [@ EXCEPT !.whole = FALSE]]
      BY <1>10 DEF DiskAfter
    <2> QED BY <1>2, <1>5, <2>3, <2>4
  <1> QED BY <1>2, <1>4, <1>6, <1>7, <1>8, <1>9, <1>10 DEF Extent

\* A call that returns keeps the state typed.
LEMMA ReturnType ==
    ASSUME TypeOK, CallInv, NEW c \in Clients, NEW mappable \in BOOLEAN, Return(c, mappable)
    PROVE  TypeOK'
  <1>1. PICK a \in NativeAnswers(request[c], options[c]) :
         /\ disk' = DiskAfter(request[c], a)
         /\ report' = [report EXCEPT ![c] = Reported(request[c], a, mappable)]
         /\ deed' = [deed EXCEPT ![c] =
               [done |-> a.done, entries |-> a.entries, atomic |-> a.atomic,
                durable |-> a.durable, permissions |-> a.permissions]]
         /\ applied' = [applied EXCEPT ![c] = IF a.done = "none" THEN @ ELSE @ + 1]
    BY DEF Return
  <1>2. request[c] \in Requests /\ applied[c] = 0
    BY DEF CallInv, CallOK, Return
  <1>3. disk' \in [Paths -> Object \cup {Nothing}]
    BY <1>1, <1>2, DiskAfterType
  <1>4. report' \in [Clients -> Report]
    BY <1>1, ReportedType DEF TypeOK
  <1>5. deed' \in [Clients -> Deed]
    BY <1>1, AnswerType DEF TypeOK, Deed
  <1>6. applied' \in [Clients -> 0..MaxTries]
    BY <1>1, <1>2, ConstantsAssumption DEF TypeOK
  <1>7. pc' \in [Clients -> {"idle", "native", "returned"}]
        /\ request' \in [Clients -> Requests \cup {NoRequest}]
        /\ options' \in [Clients -> NativeOptions]
        /\ tries' \in [Clients -> 0..MaxTries]
    BY DEF Return, TypeOK
  <1> QED BY <1>3, <1>4, <1>5, <1>6, <1>7 DEF TypeOK

(***************************************************************************)
(* The inductive invariant.                                                *)
(***************************************************************************)

\* What one client's own state depends on.
LEMMA Frame ==
    ASSUME NEW d \in Clients, CallOK(d), pc'[d] = pc[d], request'[d] = request[d],
           options'[d] = options[d], report'[d] = report[d], deed'[d] = deed[d],
           tries'[d] = tries[d], applied'[d] = applied[d]
    PROVE  CallOK(d)'
  BY DEF CallOK, Honest, Kept

\* A request that is sent, or sent again, has not been carried out, and the
\* adapter's own rejections claim nothing that is not so.
LEMMA CallPreserves ==
    ASSUME TypeOK, NEW c \in Clients, NEW q \in Requests, NEW mappable \in BOOLEAN,
           Call(c, q, mappable), applied[c] = 0
    PROVE  CallOK(c)'
  <1>1. request'[c] = q /\ deed'[c] = Idle /\ applied'[c] = 0
    BY DEF Call, TypeOK
  <1>2. CASE mappable /\ ~Inexpressible(q)
    <2>1. pc'[c] = "native" /\ options'[c] = OptionsOf(q)
      BY <1>2 DEF Call, TypeOK
    <2> QED BY <1>1, <2>1 DEF CallOK, Honest, Kept
  <1>3. CASE ~(mappable /\ ~Inexpressible(q))
    <2>1. pc'[c] = "returned" /\ report'[c] = Rejection(q, mappable)
      BY <1>3 DEF Call, TypeOK
    <2>2. PICK k \in {"InvalidPath", "RequirementNotMet"} :
             report'[c] = Failure(k, RejectedState(q), "None", 0)
      BY <2>1 DEF Rejection
    <2>3. RejectedState(q) \in NativeState /\ "None" \in Effect
      BY DEF RejectedState, NativeState, Effect
    <2>4. ~report'[c].ok /\ report'[c].effect = "None" /\ report'[c].entries = 0
      BY <2>2, <2>3, FailureFacts
    <2>5. Honest(c)'
      BY <1>1, <2>4 DEF Honest, Idle
    <2>6. Kept(c)'
      BY <2>4 DEF Kept
    <2> QED BY <1>1, <2>1, <2>5, <2>6 DEF CallOK, Idle
  <1> QED BY <1>2, <1>3

\* What the handler says of the effect is what the engine says.
LEMMA ReportedHonest ==
    ASSUME NEW q, NEW no, NEW a \in NativeAnswers(q, no), NEW mappable \in BOOLEAN
    PROVE  LET rep == Reported(q, a, mappable)
           IN /\ ToldUnchanged(rep) => a.done = "none"
              /\ rep.effect = "PartiallyApplied" => a.done = "some"
              /\ rep.effect = "Applied" => a.done = "all"
              /\ rep.entries = a.entries
              /\ (rep.ok /\ q.op \notin {"copy", "rename"}) => (rep.already <=> a.done = "none")
  <1> DEFINE rep == Reported(q, a, mappable)
  <1>1. /\ a.ok \in BOOLEAN /\ a.done \in Extent /\ a.state \in NativeState
        /\ a.effect \in Effect /\ a.entries \in 0..2 /\ Truthful(a)
        /\ q.op # "copy" => a.entries = 0
    BY AnswerType
  <1>2. CASE a.ok /\ q.op = "copy"
    <2>1. rep = CopyOutcome(a) BY <1>2 DEF Reported
    <2> QED BY <1>1, <1>2, <2>1 DEF CopyOutcome, Success, ToldUnchanged
  <1>3. CASE a.ok /\ q.op = "rename"
    <2>1. rep = RenameOutcome(a) BY <1>3 DEF Reported
    <2> QED BY <1>1, <1>3, <2>1 DEF RenameOutcome, Success, ToldUnchanged
  <1>4. CASE a.ok /\ q.op \notin {"copy", "rename"}
    <2>1. rep = [Success EXCEPT !.already = Already(a)] BY <1>4 DEF Reported
    <2>2. a.done # "some" BY <1>1, <1>4 DEF Truthful
    <2> QED BY <1>1, <1>4, <2>1, <2>2 DEF Success, ToldUnchanged, Already, Extent
  <1>5. CASE ~a.ok /\ q.op \in {"copy", "rename"}
    <2>1. a.state # "None" /\ a.effect = "None"
      BY <1>5 DEF NativeAnswers, NativeCopy, NativeRename, CopyAnswer, RenameAnswer
    <2>2. EffectState(a.state) \in Effect
      BY DEF EffectState, Effect
    <2>3. PICK k \in {"Native", "ProviderContractViolation"} :
             rep = Failure(k, a.state, EffectState(a.state), a.entries)
      BY <1>1, <1>5 DEF Reported, CopyFailure, UnmappableCopyFailure
    <2>4. ~rep.ok /\ rep.state = a.state /\ rep.effect = EffectState(a.state)
          /\ rep.entries = a.entries
      BY <1>1, <2>2, <2>3, FailureFacts
    <2> QED BY <1>1, <2>1, <2>4 DEF EffectState, Truthful, ToldUnchanged
  <1>6. CASE ~a.ok /\ q.op \notin {"copy", "rename"}
    <2>1. rep = Failure("Native", "None", a.effect, 0)
      BY <1>6 DEF Reported, NativeEffectState
    <2>2. ~rep.ok /\ rep.state = "None" /\ rep.effect = a.effect /\ rep.entries = 0
      BY <1>1, <2>1, FailureFacts DEF NativeState
    <2> QED BY <1>1, <1>6, <2>2 DEF Truthful, ToldUnchanged
  <1> QED BY <1>1, <1>2, <1>3, <1>4, <1>5, <1>6

\* A success of copy or rename has the guarantees its request required, and
\* claims no other.
LEMMA ReportedKept ==
    ASSUME NEW q \in Requests, NEW a \in NativeAnswers(q, OptionsOf(q)),
           NEW mappable \in BOOLEAN, q.op \in {"copy", "rename"},
           Reported(q, a, mappable).ok
    PROVE  LET rep == Reported(q, a, mappable)
           IN /\ q.durability = "Required" => a.durable
              /\ q.op = "copy" =>
                    /\ q.atomicity = "Required" => a.atomic
                    /\ (q.preserve = "Portable" /\ a.done = "all") => a.permissions
              /\ rep.atomic => a.atomic
              /\ rep.durable => a.durable
              /\ rep.preserved = "Portable" => a.permissions
  <1> DEFINE rep == Reported(q, a, mappable)
  <1>1. /\ a.ok \in BOOLEAN /\ a.state \in NativeState /\ a.effect \in Effect
        /\ a.entries \in 0..2
    BY AnswerType
  <1>2. a.ok
    <2> SUFFICES ASSUME ~a.ok PROVE FALSE OBVIOUS
    <2>1. PICK k \in {"Native", "ProviderContractViolation"}, n \in 0..2 :
             rep = Failure(k, a.state, EffectState(a.state), n)
      BY <1>1 DEF Reported, CopyFailure, UnmappableCopyFailure
    <2>2. EffectState(a.state) \in Effect BY DEF EffectState, Effect
    <2> QED BY <1>1, <2>1, <2>2, FailureFacts
  <1>3. q \in Request BY ConstantsAssumption
  <1>4. CASE q.op = "copy"
    <2>1. q \in CopyRequest
      BY <1>3, <1>4 DEF Request, CopyRequest, RenameRequest, CreateRequest, DeleteRequest
    <2>2. rep = CopyOutcome(a) BY <1>2, <1>4 DEF Reported
    <2>3. /\ OptionsOf(q).atomicity = q.atomicity /\ OptionsOf(q).durability = q.durability
          /\ OptionsOf(q).permissions = (q.preserve = "Portable")
      BY <1>4 DEF OptionsOf, Defaults, NativeRequirement
    <2>4. /\ OptionsOf(q).atomicity = "Required" => a.atomic
          /\ OptionsOf(q).durability = "Required" => a.durable
          /\ a.permissions = (OptionsOf(q).permissions /\ a.done = "all")
      BY <1>2, <1>4 DEF NativeAnswers, NativeCopy
    <2>5. rep.atomic = a.atomic /\ rep.durable = a.durable
          /\ rep.preserved = IF a.permissions THEN "Portable" ELSE "None"
      BY <2>2 DEF CopyOutcome, Success
    <2> QED BY <2>3, <2>4, <2>5
  <1>5. CASE q.op = "rename"
    <2>1. rep = RenameOutcome(a) BY <1>2, <1>5 DEF Reported
    <2>2. OptionsOf(q).durability = q.durability
      BY <1>5 DEF OptionsOf, Defaults, NativeRequirement
    <2>3. a \in RenameAnswer /\ (OptionsOf(q).durability = "Required" => a.durable)
      BY <1>2, <1>5 DEF NativeAnswers, NativeRename
    <2>4. a.atomic = TRUE BY <2>3, Zenon DEF RenameAnswer
    <2>5. rep.atomic = TRUE /\ rep.durable = a.durable /\ rep.preserved = "None"
      BY <2>1 DEF RenameOutcome, Success
    <2> QED BY <1>5, <2>2, <2>3, <2>4, <2>5
  <1> QED BY <1>4, <1>5

\* A call that returns preserves its client's invariant.
LEMMA ReturnPreserves ==
    ASSUME TypeOK, NEW c \in Clients, CallOK(c), NEW mappable \in BOOLEAN, Return(c, mappable)
    PROVE  CallOK(c)'
  <1>1. PICK a \in NativeAnswers(request[c], options[c]) :
         /\ report' = [report EXCEPT ![c] = Reported(request[c], a, mappable)]
         /\ deed' = [deed EXCEPT ![c] =
               [done |-> a.done, entries |-> a.entries, atomic |-> a.atomic,
                durable |-> a.durable, permissions |-> a.permissions]]
         /\ applied' = [applied EXCEPT ![c] = IF a.done = "none" THEN @ ELSE @ + 1]
    BY DEF Return
  <1> DEFINE q == request[c]
  <1>2. q \in Requests /\ options[c] = OptionsOf(q) /\ applied[c] = 0
    BY DEF CallOK, Return
  <1>3. pc'[c] = "returned" /\ request'[c] = q
    BY DEF Return, TypeOK
  <1>4. /\ report'[c] = Reported(q, a, mappable)
        /\ deed'[c].done = a.done /\ deed'[c].entries = a.entries
        /\ deed'[c].atomic = a.atomic /\ deed'[c].durable = a.durable
        /\ deed'[c].permissions = a.permissions
        /\ applied'[c] = IF a.done = "none" THEN 0 ELSE 1
    BY <1>1, <1>2 DEF TypeOK
  <1>5. Honest(c)'
    BY <1>3, <1>4, ReportedHonest DEF Honest
  <1>6. Kept(c)'
    <2> SUFFICES ASSUME Reported(q, a, mappable).ok, q.op \in {"copy", "rename"}
                 PROVE  Kept(c)'
      BY <1>3, <1>4 DEF Kept
    <2>1. a \in NativeAnswers(q, OptionsOf(q)) BY <1>2
    <2> QED BY <1>2, <1>3, <1>4, <2>1, ReportedKept DEF Kept
  <1> QED BY <1>2, <1>3, <1>4, <1>5, <1>6 DEF CallOK

\* The initial states are typed and satisfy the inductive invariant.
LEMMA InitOK == Init => TypeOK /\ CallInv
  <1> SUFFICES ASSUME Init PROVE TypeOK /\ CallInv OBVIOUS
  <1>1. disk \in [Paths -> Object \cup {Nothing}]
    <2>1. {[name |-> n, whole |-> TRUE] : n \in Files \cup Trees \cup {Absent}}
            \subseteq Object \cup {Nothing}
      <3> SUFFICES ASSUME NEW n \in Files \cup Trees \cup {Absent}
                   PROVE  [name |-> n, whole |-> TRUE] \in Object \cup {Nothing}
        OBVIOUS
      <3>1. CASE n = Absent BY <3>1 DEF Nothing
      <3>2. CASE n \in Names BY <3>2 DEF Object
      <3> QED BY <3>1, <3>2 DEF Names
    <2> QED BY <2>1 DEF Init
  <1>2. Success \in Report /\ Idle \in Deed /\ Defaults \in NativeOptions
    BY DEF Success, Report, NativeState, Effect, Idle, Deed, Extent, Defaults, NativeOptions,
       Conflict, Requirement
  <1>3. 0 \in 0..MaxTries BY ConstantsAssumption
  <1>4. TypeOK BY <1>1, <1>2, <1>3 DEF Init, TypeOK
  <1>5. ASSUME NEW c \in Clients PROVE CallOK(c)
    <2>1. pc[c] = "idle" /\ tries[c] = 0 /\ applied[c] = 0 BY DEF Init
    <2> QED BY <2>1 DEF CallOK, Honest, Kept
  <1> QED BY <1>4, <1>5 DEF CallInv

\* Every step preserves the type invariant and the inductive invariant, which
\* need each other: the first bounds what the second counts.
LEMMA NextOK == TypeOK /\ CallInv /\ [Next]_vars => TypeOK' /\ CallInv'
  <1> SUFFICES ASSUME TypeOK, CallInv, [Next]_vars PROVE TypeOK' /\ CallInv' OBVIOUS
  <1>1. ASSUME NEW c \in Clients, NEW q \in Requests, NEW mappable \in BOOLEAN,
               Call(c, q, mappable), applied[c] = 0, tries[c] < MaxTries
        PROVE  TypeOK' /\ CallInv'
    <2>1. CallOK(c)' BY <1>1, CallPreserves
    <2>2. ASSUME NEW d \in Clients, d # c PROVE CallOK(d)'
      BY <1>1, <2>2, Frame DEF Call, TypeOK, CallInv
    <2> QED BY <1>1, <2>1, <2>2, CallType DEF CallInv
  <1>2. ASSUME NEW c \in Clients, NEW q \in Requests, NEW mappable \in BOOLEAN,
               Send(c, q, mappable)
        PROVE  TypeOK' /\ CallInv'
    <2>1. applied[c] = 0 /\ tries[c] < MaxTries
      BY <1>2, ConstantsAssumption DEF Send, CallInv, CallOK
    <2> QED BY <1>1, <1>2, <2>1 DEF Send
  <1>3. ASSUME NEW c \in Clients, NEW mappable \in BOOLEAN, Retry(c, mappable)
        PROVE  TypeOK' /\ CallInv'
    <2>1. request[c] \in Requests /\ applied[c] = 0
      BY <1>3 DEF Retry, CallInv, CallOK, Honest
    <2> QED BY <1>1, <1>3, <2>1 DEF Retry
  <1>4. ASSUME NEW c \in Clients, NEW mappable \in BOOLEAN, Return(c, mappable)
        PROVE  TypeOK' /\ CallInv'
    <2>1. CallOK(c)' BY <1>4, ReturnPreserves DEF CallInv
    <2>2. ASSUME NEW d \in Clients, d # c PROVE CallOK(d)'
      BY <1>4, <2>2, Frame DEF Return, TypeOK, CallInv
    <2> QED BY <1>4, <2>1, <2>2, ReturnType DEF CallInv
  <1>5. ASSUME NEW p \in Paths, Interfere(p) PROVE TypeOK' /\ CallInv'
    <2>1. [name |-> Other, whole |-> TRUE] \in Object BY DEF Object, Names
    <2>2. disk' \in [Paths -> Object \cup {Nothing}]
      BY <1>5, <2>1 DEF Interfere, TypeOK
    <2>3. TypeOK' BY <1>5, <2>2 DEF Interfere, TypeOK
    <2>4. ASSUME NEW d \in Clients PROVE CallOK(d)'
      BY <1>5, Frame DEF Interfere, CallInv
    <2> QED BY <2>3, <2>4 DEF CallInv
  <1>6. CASE UNCHANGED vars
    <2>1. TypeOK' BY <1>6 DEF vars, TypeOK
    <2>2. ASSUME NEW d \in Clients PROVE CallOK(d)'
      BY <1>6, Frame DEF vars, CallInv
    <2> QED BY <2>1, <2>2 DEF CallInv
  <1> QED BY <1>2, <1>3, <1>4, <1>5, <1>6 DEF Next

\* The type invariant and the inductive invariant hold for any clients,
\* paths and requests.
THEOREM CallCorrect == Spec => [](TypeOK /\ CallInv)
  BY InitOK, NextOK, PTL DEF Spec

\* Every report is a portable report, whatever was asked for.
THEOREM TypeCorrect == Spec => []TypeOK
  BY CallCorrect, PTL

\* What the adapter says of the namespace is what the call did.
THEOREM EffectCorrect == Spec => []EffectTruthful
  <1>1. CallInv => EffectTruthful BY DEF CallInv, CallOK, EffectTruthful
  <1> QED BY <1>1, CallCorrect, PTL

\* A reported success has the guarantees its request required.
THEOREM GuaranteeCorrect == Spec => []GuaranteeKept
  <1>1. CallInv => GuaranteeKept BY DEF CallInv, CallOK, GuaranteeKept
  <1> QED BY <1>1, CallCorrect, PTL

\* A client that repeats its request only when told that nothing changed has
\* it carried out at most once, for any number of clients and of tries.
THEOREM OnceCorrect == Spec => []AtMostOnce
  <1>1. CallInv => AtMostOnce BY DEF CallInv, CallOK, AtMostOnce
  <1> QED BY <1>1, CallCorrect, PTL

\* A native answer replaces or removes only what the request licenses.
LEMMA AnswerLicensed ==
    ASSUME TypeOK, NEW q \in Requests, NEW a \in NativeAnswers(q, OptionsOf(q)),
           NEW p \in Paths, disk[p] # Nothing, DiskAfter(q, a)[p] # disk[p]
    PROVE  Licensed(q, p)
  <1>1. q \in Request BY ConstantsAssumption
  <1>2. q.op \in {"copy", "rename", "create", "delete_file", "delete_directory"}
        /\ q.target \in Paths
    BY <1>1 DEF Request, CopyRequest, RenameRequest, CreateRequest, DeleteRequest
  <1>3. a.done # "none" BY DEF DiskAfter
  <1>4. disk \in [Paths -> Object \cup {Nothing}] BY DEF TypeOK
  <1>5. CASE q.op = "copy"
    <2>1. p = q.target BY <1>2, <1>3, <1>4, <1>5 DEF DiskAfter
    <2>2. MayReplace(q, OptionsOf(q)) BY <1>3, <1>5, <2>1 DEF NativeAnswers, NativeCopy
    <2>3. /\ OptionsOf(q).conflict = q.conflict
          /\ OptionsOf(q).type_conflict = TypeConflict(q.conflict)
      BY <1>5 DEF OptionsOf, Defaults, CopyConflict
    <2>5. q.conflict \in Conflict
      BY <1>1, <1>5 DEF Request, CopyRequest, RenameRequest, CreateRequest, DeleteRequest
    <2>4. q.conflict = "Overwrite"
      BY <2>2, <2>3, <2>5 DEF MayReplace, TypeConflict, Conflict
    <2> QED BY <1>5, <2>1, <2>4 DEF Licensed
  <1>6. CASE q.op = "rename"
    <2>1. p = q.target \/ p = q.source BY <1>2, <1>3, <1>4, <1>6 DEF DiskAfter
    <2>2. a.done = "all"
      BY <1>3, <1>6 DEF NativeAnswers, NativeRename, RenameAnswer
    <2>3. p = q.target => OptionsOf(q).overwrite
      BY <1>6, <2>2 DEF NativeAnswers, NativeRename
    <2>4. OptionsOf(q).overwrite = q.overwrite BY <1>6 DEF OptionsOf, Defaults
    <2> QED BY <1>6, <2>1, <2>3, <2>4 DEF Licensed
  <1>7. CASE q.op = "create"
    <2>1. a.done = "all" /\ p = q.target BY <1>2, <1>3, <1>4, <1>7 DEF DiskAfter
    <2>2. disk[q.target] = Nothing BY <1>7, <2>1 DEF NativeAnswers, NativeCreate
    <2> QED BY <2>1, <2>2
  <1>8. CASE q.op \in {"delete_file", "delete_directory"}
    <2>1. DiskAfter(q, a) = [disk EXCEPT ![q.target] =
             IF a.done = "all" THEN Nothing ELSE [@ EXCEPT !.whole = FALSE]]
      BY <1>3, <1>8 DEF DiskAfter
    <2>2. p = q.target BY <1>2, <1>4, <2>1
    <2> QED BY <1>8, <2>2 DEF Licensed
  <1> QED BY <1>2, <1>5, <1>6, <1>7, <1>8

\* No call replaces or removes an object its request does not license, for
\* any interleaving of any number of clients.
THEOREM ClobberCorrect == Spec => NoClobber
  <1> DEFINE Harmless ==
        \A c \in Clients, p \in Paths :
           (pc[c] = "native" /\ pc'[c] = "returned" /\ disk[p] # Nothing /\ disk'[p] # disk[p])
              => Licensed(request[c], p)
  <1>1. TypeOK /\ CallInv /\ [Next]_vars => [Harmless]_vars
    <2> SUFFICES ASSUME TypeOK, CallInv, Next, NEW c \in Clients, NEW p \in Paths,
                        pc[c] = "native", pc'[c] = "returned", disk[p] # Nothing,
                        disk'[p] # disk[p]
                 PROVE  Licensed(request[c], p)
      OBVIOUS
    <2>1. PICK mappable \in BOOLEAN : Return(c, mappable)
      BY DEF Next, Send, Retry, Call, Return, Interfere, TypeOK
    <2>2. PICK a \in NativeAnswers(request[c], options[c]) : disk' = DiskAfter(request[c], a)
      BY <2>1 DEF Return
    <2>3. request[c] \in Requests /\ options[c] = OptionsOf(request[c])
      BY DEF CallInv, CallOK
    <2> QED BY <2>2, <2>3, AnswerLicensed
  <1>2. Spec => [][Harmless]_vars
    BY <1>1, CallCorrect, PTL DEF Spec
  <1> QED BY <1>2 DEF NoClobber
=============================================================================
