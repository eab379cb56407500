----------------------------- MODULE FileWriter -----------------------------
(***************************************************************************)
(* Writer sessions of the local provider: LocalFileWriterSpi and the       *)
(* open_writer handler of LocalFileSystemSpi that builds it.  The sessions *)
(* of the model write the same destination, next to other programs.        *)
(*                                                                         *)
(* A staged session (create_new, replace) collects its bytes in a private  *)
(* staging file that commit moves to the destination; an append session    *)
(* writes the destination in place.  The native writer is external:        *)
(* NativeCommit and NativeAbort say what the adapter relies on, which is   *)
(* that the engine may fail in any way but never lies.                     *)
(***************************************************************************)
EXTENDS Naturals

CONSTANTS
    Writers,   \* the writer sessions that may be opened
    Absent,    \* no object at the destination
    Foreign,   \* an object of another program at the destination
    MaxBytes   \* bound: bytes one session accepts before they are flushed

ASSUME ConstantsAssumption ==
    /\ Absent \notin Writers /\ Foreign \notin Writers /\ Absent # Foreign
    /\ MaxBytes \in Nat \ {0}

VARIABLES
    pc,        \* pc[w]: closed, open or dropped
    mode,      \* mode[w]: the write disposition
    slot,      \* slot[w]: writer is Some(..)
    terminal,  \* terminal[w]: terminal_abort_outcome
    report,    \* report[w]: what w's last call returned
    buffer,    \* buffer[w]: accepted bytes not at the destination yet
    staging,   \* staging[w]: what w's staging path names
    target,    \* the object at the destination
    \* History.
    exposed,   \* the sessions with bytes at the destination
    verdict,   \* verdict[w]: what w's owner was told when the session ended
    aborted    \* aborted[w]: an abort of w succeeded

adapterVars == <<pc, mode, slot, terminal, report>>
nativeVars  == <<buffer, staging, target>>
historyVars == <<exposed, verdict, aborted>>
vars == <<adapterVars, nativeVars, historyVars>>

Mode == {"create_new", "replace", "append"}

\* LocalWriteFailureState (native), WriteFailureState, FsEffectState and
\* WriteAbortOutcome (facade).
Certainty    == {"NotPublished", "Published", "Indeterminate"}
FailureState == Certainty \cup {"RetryableNotPublished"}
Effect       == {"None", "Unchanged", "Applied", "Indeterminate"}

Report == [op      : {"None", "Open", "Write", "Commit", "Abort"},
           ok      : BOOLEAN,
           kind    : {"None", "InvalidState", "RequirementNotMet", "InvalidPath", "Native"},
           state   : FailureState \cup {"None"},
           effect  : Effect,
           outcome : Certainty \cup {"-"}]    \* of a successful abort

Success(op) == [op |-> op, ok |-> TRUE, kind |-> "None", state |-> "None",
                effect |-> "None", outcome |-> "-"]
Failure(op, k, st, eff) ==
    [Success(op) EXCEPT !.ok = FALSE, !.kind = k, !.state = st, !.effect = eff]

TypeOK ==
    /\ pc \in [Writers -> {"closed", "open", "dropped"}]
    /\ mode \in [Writers -> Mode]
    /\ slot \in [Writers -> BOOLEAN]
    /\ terminal \in [Writers -> Certainty \cup {"None"}]
    /\ report \in [Writers -> Report]
    /\ buffer \in [Writers -> 0..MaxBytes]
    /\ staging \in [Writers -> {"none", "ours", "foreign"}]
    /\ target \in Writers \cup {Absent, Foreign}
    /\ exposed \in SUBSET Writers
    /\ verdict \in [Writers -> Certainty \cup {"None"}]
    /\ aborted \in [Writers -> BOOLEAN]

InPlace(w) == mode[w] = "append"

(***************************************************************************)
(* The mapping tables of the adapter.                                      *)
(***************************************************************************)

\* Mutant: a writer handed back is taken for an unpublished one.
StateByRetention(cert, retained) == IF retained THEN "RetryableNotPublished" ELSE cert

\* Mutant: every unpublished failure is offered for retry.
AlwaysRetryable(cert, retained) ==
    IF cert = "NotPublished" THEN "RetryableNotPublished" ELSE cert

\* write_failure_state: retention only refines an unpublished failure.
WriteFailureState(cert, retained) ==
    IF cert = "NotPublished" /\ retained THEN "RetryableNotPublished" ELSE cert

WriteEffectState(st) ==
    CASE st \in {"RetryableNotPublished", "NotPublished"} -> "Unchanged"
      [] st = "Published"     -> "Applied"
      [] st = "Indeterminate" -> "Indeterminate"

\* Mutant: forgets what the failed commit established.
ForgottenOutcome(st) == "None"

\* Mutant: an aborted session is taken to have published nothing.
AbortedIsUnpublished(st) == "NotPublished"

\* abort_outcome_from_failure, recorded when a commit failure is terminal.
AbortOutcomeFromFailure(st) == IF st = "RetryableNotPublished" THEN "NotPublished" ELSE st

\* Mutant: a cleaned-up writer is taken to have published nothing.
CleanedUpIsUnpublished(cert) == "NotPublished"

\* abort_outcome: an abort that reports no failure state published nothing.
AbortOutcome(cert) == IF cert = "None" THEN "NotPublished" ELSE cert

(***************************************************************************)
(* The native writer (external).                                           *)
(***************************************************************************)

CommitOutcome == [ok : BOOLEAN, cert : Certainty, retained : BOOLEAN, installed : BOOLEAN]

\* The content of w is at the destination once this outcome has happened.
ExposedAfter(w, o) == w \in exposed \/ o.installed

\* What a commit may do.  A staged commit installs its own staging file, and
\* a create_new one never over another object; whatever it says of the
\* publication is true.
NativeCommit(w) ==
    {o \in CommitOutcome :
        /\ o.ok => o.cert = "Published" /\ ~o.retained
        /\ o.cert = "NotPublished" => ~ExposedAfter(w, o)
        /\ o.cert = "Published" => (ExposedAfter(w, o) \/ InPlace(w))
        /\ (o.installed /\ ~InPlace(w)) =>
              /\ staging[w] = "ours"
              /\ mode[w] = "create_new" => target = Absent
        /\ (o.installed /\ InPlace(w)) => buffer[w] > 0}

\* What an abort may do: remove the staging file it can still identify, or
\* flush what an append session holds.  An error leaves the writer usable.
AbortResult == [ok : BOOLEAN, cert : Certainty \cup {"None"}, installed : BOOLEAN]

NativeAbort(w) ==
    {o \in AbortResult :
        /\ ~o.ok => o.cert = "None" /\ ~o.installed
        /\ (o.ok /\ o.cert \in {"None", "NotPublished"}) => ~ExposedAfter(w, o)
        /\ (o.ok /\ o.cert = "Published") => (ExposedAfter(w, o) \/ InPlace(w))
        /\ o.installed => InPlace(w) /\ buffer[w] > 0
        /\ staging[w] = "foreign" => ~o.ok}

\* The step of the disk for an outcome that installed w's content or not,
\* and that gave up the staging file or not.
NativeStep(w, installed, given_up) ==
    /\ exposed' = IF installed THEN exposed \cup {w} ELSE exposed
    /\ target' = IF installed THEN w ELSE target
    /\ buffer' = [buffer EXCEPT ![w] = IF installed \/ given_up THEN 0 ELSE @]
    /\ staging' = [staging EXCEPT ![w] =
                      IF @ = "ours" /\ (installed \/ given_up) THEN "none" ELSE @]

(***************************************************************************)
(* open_writer                                                             *)
(***************************************************************************)

\* The path and the options are converted first; a request the adapter
\* cannot express is refused with a confirmed Unchanged effect.
OpenRefused(w, k) ==
    /\ pc[w] = "closed"
    /\ report' = [report EXCEPT ![w] = Failure("Open", k, "None", "Unchanged")]
    /\ UNCHANGED <<pc, mode, slot, terminal, nativeVars, historyVars>>

OpenFails(w) ==
    /\ pc[w] = "closed"
    /\ report' = [report EXCEPT ![w] = Failure("Open", "Native", "None", "None")]
    /\ UNCHANGED <<pc, mode, slot, terminal, nativeVars, historyVars>>

\* A destination that exists already refuses create_new at once.
OpenSucceeds(w, m) ==
    /\ pc[w] = "closed"
    /\ m = "create_new" => target = Absent
    /\ pc' = [pc EXCEPT ![w] = "open"]
    /\ mode' = [mode EXCEPT ![w] = m]
    /\ slot' = [slot EXCEPT ![w] = TRUE]
    /\ report' = [report EXCEPT ![w] = Success("Open")]
    /\ staging' = [staging EXCEPT ![w] = IF m = "append" THEN "none" ELSE "ours"]
    /\ UNCHANGED <<terminal, buffer, target, historyVars>>

(***************************************************************************)
(* LocalFileWriterSpi                                                      *)
(***************************************************************************)

\* write_unchecked; a terminal session refuses.
Write(w) ==
    /\ pc[w] = "open"
    /\ \/ /\ ~slot[w]
          /\ report' = [report EXCEPT ![w] = Failure("Write", "InvalidState", "None", "None")]
          /\ UNCHANGED buffer
       \/ /\ slot[w]
          /\ report' = [report EXCEPT ![w] = Failure("Write", "Native", "None", "None")]
          /\ UNCHANGED buffer
       \/ /\ slot[w] /\ buffer[w] < MaxBytes
          /\ report' = [report EXCEPT ![w] = Success("Write")]
          /\ buffer' = [buffer EXCEPT ![w] = @ + 1]
    /\ UNCHANGED <<pc, mode, slot, terminal, staging, target, historyVars>>

\* flush: what an append session accepted reaches the destination, and may
\* have done so even when the flush fails.
Flush(w) ==
    /\ pc[w] = "open"
    /\ \/ /\ ~slot[w]
          /\ report' = [report EXCEPT ![w] = Failure("Write", "InvalidState", "None", "None")]
          /\ UNCHANGED <<nativeVars, exposed>>
       \/ /\ slot[w]
          /\ \E rep \in {Success("Write"), Failure("Write", "Native", "None", "None")},
                installed \in BOOLEAN :
               /\ installed => InPlace(w) /\ buffer[w] > 0
               /\ (rep.ok /\ InPlace(w) /\ buffer[w] > 0) => installed
               /\ report' = [report EXCEPT ![w] = rep]
               /\ NativeStep(w, installed, FALSE)
    /\ UNCHANGED <<pc, mode, slot, terminal, verdict, aborted>>

\* commit on a terminal session.  The state is a constant of the rejection:
\* it carries no effect and claims nothing of the destination.
CommitRefused(w) ==
    /\ pc[w] = "open" /\ ~slot[w]
    /\ report' = [report EXCEPT ![w] = Failure("Commit", "InvalidState", "NotPublished", "None")]
    /\ UNCHANGED <<pc, mode, slot, terminal, nativeVars, historyVars>>

Commit(w) ==
    /\ pc[w] = "open" /\ slot[w]
    /\ \E o \in NativeCommit(w) :
         LET st == WriteFailureState(o.cert, o.retained)
         IN /\ NativeStep(w, o.installed, ~o.retained)
            /\ slot' = [slot EXCEPT ![w] = ~o.ok /\ o.retained]
            /\ terminal' = [terminal EXCEPT ![w] =
                  IF ~o.ok /\ ~o.retained THEN AbortOutcomeFromFailure(st) ELSE @]
            /\ report' = [report EXCEPT ![w] =
                  IF o.ok THEN Success("Commit")
                  ELSE Failure("Commit", "Native", st, WriteEffectState(st))]
            /\ verdict' = [verdict EXCEPT ![w] =
                  IF o.ok THEN "Published" ELSE IF o.retained THEN @ ELSE st]
    /\ UNCHANGED <<pc, mode, aborted>>

Aborted(out) == [Success("Abort") EXCEPT !.outcome = out]

\* abort on a session whose last commit failed for good answers once from
\* the recorded outcome; otherwise a terminal session refuses.
AbortTerminal(w) ==
    /\ pc[w] = "open" /\ ~slot[w]
    /\ \/ /\ terminal[w] # "None"
          /\ report' = [report EXCEPT ![w] = Aborted(terminal[w])]
          /\ terminal' = [terminal EXCEPT ![w] = "None"]
          /\ aborted' = [aborted EXCEPT ![w] = TRUE]
       \/ /\ terminal[w] = "None"
          /\ report' = [report EXCEPT ![w] = Failure("Abort", "InvalidState", "None", "None")]
          /\ UNCHANGED <<terminal, aborted>>
    /\ UNCHANGED <<pc, mode, slot, nativeVars, exposed, verdict>>

Abort(w) ==
    /\ pc[w] = "open" /\ slot[w]
    /\ \E o \in NativeAbort(w) :
         /\ NativeStep(w, o.installed, o.ok)
         /\ slot' = [slot EXCEPT ![w] = ~o.ok]
         /\ report' = [report EXCEPT ![w] =
               IF o.ok THEN Aborted(AbortOutcome(o.cert))
               ELSE Failure("Abort", "Native", "None", "None")]
         /\ verdict' = [verdict EXCEPT ![w] = IF o.ok THEN AbortOutcome(o.cert) ELSE @]
         /\ aborted' = [aborted EXCEPT ![w] = o.ok]
    /\ UNCHANGED <<pc, mode, terminal>>

\* The adapter has no Drop of its own: a writer it still holds is dropped
\* with it, which may flush an append session and removes the staging file
\* if it can.
Drop(w) ==
    /\ pc[w] = "open"
    /\ pc' = [pc EXCEPT ![w] = "dropped"]
    /\ slot' = [slot EXCEPT ![w] = FALSE]
    /\ \E installed \in BOOLEAN :
         /\ installed => slot[w] /\ InPlace(w) /\ buffer[w] > 0
         /\ NativeStep(w, installed, slot[w])
    /\ UNCHANGED <<mode, terminal, report, verdict, aborted>>

(***************************************************************************)
(* Other programs.                                                         *)
(***************************************************************************)

ChangeTarget ==
    /\ target' = IF target = Absent THEN Foreign ELSE Absent
    /\ UNCHANGED <<adapterVars, buffer, staging, historyVars>>

ReplaceStaging(w) ==
    /\ pc[w] = "open" /\ staging[w] = "ours"
    /\ staging' = [staging EXCEPT ![w] = "foreign"]
    /\ UNCHANGED <<adapterVars, buffer, target, historyVars>>

Init ==
    /\ pc = [w \in Writers |-> "closed"]
    /\ mode = [w \in Writers |-> "replace"]
    /\ slot = [w \in Writers |-> FALSE]
    /\ terminal = [w \in Writers |-> "None"]
    /\ report = [w \in Writers |-> Success("None")]
    /\ buffer = [w \in Writers |-> 0]
    /\ staging = [w \in Writers |-> "none"]
    /\ target \in {Absent, Foreign}
    /\ exposed = {}
    /\ verdict = [w \in Writers |-> "None"]
    /\ aborted = [w \in Writers |-> FALSE]

Session(w) ==
    \/ \E k \in {"RequirementNotMet", "InvalidPath"} : OpenRefused(w, k)
    \/ OpenFails(w)
    \/ \E m \in Mode : OpenSucceeds(w, m)
    \/ Write(w) \/ Flush(w)
    \/ CommitRefused(w) \/ Commit(w)
    \/ AbortTerminal(w) \/ Abort(w)
    \/ Drop(w)

Next == ChangeTarget \/ \E w \in Writers : Session(w) \/ ReplaceStaging(w)

Spec == Init /\ [][Next]_vars

(***************************************************************************)
(* Properties.                                                             *)
(***************************************************************************)

\* Every claim a session makes about the destination is true, and stays true
\* once the session is terminal: a commit failure with effect Unchanged and
\* an abort outcome NotPublished mean that no byte of the session is exposed,
\* Applied, Published and a successful commit mean that its content was
\* (write_effect_state, abort_outcome, abort_outcome_from_failure).
Truthful(w) ==
    LET rep  == report[w]
        live == pc[w] = "open" \/ verdict[w] # "None"
    IN /\ (live /\ rep.op = "Commit" /\ rep.effect = "Unchanged") => w \notin exposed
       /\ (rep.op = "Commit" /\ (rep.ok \/ rep.effect = "Applied")) =>
             (w \in exposed \/ InPlace(w))
       /\ rep.outcome = "NotPublished" => w \notin exposed
       /\ rep.outcome = "Published" => (w \in exposed \/ InPlace(w))
PublicationTruthful == \A w \in Writers : Truthful(w)

\* RetryableNotPublished is exactly the promise that commit can be called
\* again: the adapter still holds the native writer.  A failure reported
\* NotPublished has given it up, so that its owner does not wait for a retry
\* that would be refused (write_failure_state).
Honoured(w) ==
    (pc[w] = "open" /\ report[w].op = "Commit" /\ report[w].effect # "None") =>
        /\ report[w].state = "RetryableNotPublished" => slot[w]
        /\ report[w].state = "NotPublished" => ~slot[w]
RetryHonoured == \A w \in Writers : Honoured(w)

\* A session that a failed commit ended can be aborted once, and the abort
\* repeats the verdict of that failure (terminal_abort_outcome); a session
\* that is still open or was aborted has nothing recorded.
Remembers(w) ==
    /\ (slot[w] \/ aborted[w]) => terminal[w] = "None"
    /\ terminal[w] # "None" => terminal[w] = verdict[w]
    /\ (verdict[w] \in {"NotPublished", "Indeterminate"} /\ ~aborted[w]) =>
          terminal[w] = verdict[w]
    /\ (pc[w] = "open" /\ ~slot[w] /\ report[w].op = "Commit" /\ report[w].state = "Published")
          => terminal[w] = "Published"
AbortRemembers == \A w \in Writers : Remembers(w)

\* The inductive strengthening: a session holds its native writer exactly
\* while it is open without a verdict, and its verdict is true.
WriterOK(w) ==
    /\ slot[w] <=> (pc[w] = "open" /\ verdict[w] = "None")
    /\ pc[w] = "closed" => /\ verdict[w] = "None" /\ w \notin exposed
                           /\ report[w].op \notin {"Commit", "Abort"}
    /\ verdict[w] = "Published" => (w \in exposed \/ InPlace(w))
    /\ verdict[w] = "NotPublished" => w \notin exposed
    /\ aborted[w] => verdict[w] # "None"
    /\ report[w].outcome # "-" => report[w].op = "Abort" /\ report[w].outcome = verdict[w]
    /\ Truthful(w) /\ Honoured(w) /\ Remembers(w)
WriterInv == \A w \in Writers : WriterOK(w)

\* A verdict is final: nothing that happens to a terminal session, in any
\* order of commit, abort and drop, takes back what its owner was told, and
\* every abort that succeeds says the same.
VerdictFinal ==
    [][\A w \in Writers : verdict[w] # "None" =>
          /\ verdict'[w] = verdict[w]
          /\ report'[w].outcome # "-" => report'[w].outcome = verdict[w]]_vars

\* The session implements the contract of its owner.
Phase(w) ==
    CASE pc[w] = "closed"  -> "none"
      [] pc[w] = "dropped" -> "gone"
      [] OTHER -> CASE verdict[w] = "None"          -> "open"
                    [] verdict[w] = "Published"     -> "published"
                    [] verdict[w] = "NotPublished"  -> "unpublished"
                    [] verdict[w] = "Indeterminate" -> "unknown"

Contract == INSTANCE WriterContract WITH
    phase <- [w \in Writers |-> Phase(w)],
    inPlace <- {w \in Writers : pc[w] # "closed" /\ InPlace(w)}
ContractSpec == Contract!Spec
=============================================================================
