----------------------------- MODULE ReadSession ----------------------------
(***************************************************************************)
(* Reading: open_reader with LocalRangeReader, and                         *)
(* open_random_access_reader with LocalRandomAccessReader.                 *)
(*                                                                         *)
(* Both keep one native handle from the open to the last read, while other *)
(* programs replace, grow and truncate the file behind the path.  Offsets  *)
(* are u64, native file positions are i64: UMax and IMax stand for the     *)
(* largest of each.  A byte is named by the object it belongs to and its   *)
(* position there.                                                         *)
(***************************************************************************)
EXTENDS Naturals, Sequences

CONSTANTS
    Sessions,   \* the reader sessions
    Objects,    \* the files the path may name over time
    Odd,        \* the objects whose reported length is not that of their data
    IMax,       \* i64::MAX
    UMax,       \* u64::MAX
    MaxBuffer,  \* the largest output slice
    MaxReads,   \* bound: calls recorded per session
    None

ASSUME ConstantsAssumption ==
    /\ IMax \in Nat /\ UMax \in Nat /\ IMax < UMax
    /\ MaxBuffer \in Nat /\ MaxReads \in Nat
    /\ Odd \subseteq Objects
    /\ None \notin Objects \cup Nat

VARIABLES
    named,    \* the object the path names, or None
    size,     \* size[o]: the bytes of o
    session,  \* session[s]
    got,      \* got[s]: the bytes a range reader has delivered
    random    \* random[s]: the last successful read_at with output to fill

vars == <<named, size, session, got, random>>

U64 == 0..UMax
Byte == [of : Objects, at : U64]

\* kind none, range, random, refused; handle the opened object, pos the native
\* position, allowance what LimitInput still lets through; the request and the
\* opening observation of the length are kept for the properties.
NoSession == [kind |-> "none", handle |-> None, pos |-> 0, allowance |-> 0,
              offset |-> 0, length |-> None, observed |-> 0, why |-> "none", calls |-> 0]
SessionType == [kind : {"none", "range", "random", "refused"}, handle : Objects \cup {None},
                pos : U64, allowance : U64, offset : U64, length : U64 \cup {None},
                observed : U64, why : {"none", "NotFound", "Range", "Io"}, calls : 0..MaxReads]

(***************************************************************************)
(* The native handle.                                                      *)
(***************************************************************************)

\* What metadata of an open handle may say of its length.
ReportedLength(o) == {size[o]} \cup (IF o \in Odd THEN {UMax} ELSE {})

\* Seeking to a position that i64 cannot hold fails.
SeekInRange(offset) == offset <= IMax

\* The bytes that one read of at most n from pos may give: some, unless the
\* end is reached.
Least(a, b) == IF a < b THEN a ELSE b
Available(o, pos) == IF pos < size[o] THEN size[o] - pos ELSE 0
ReadCounts(o, pos, n) ==
    LET most == Least(n, Available(o, pos)) IN IF most = 0 THEN {0} ELSE 1..most
BytesFrom(o, pos, n) == [i \in 1..n |-> [of |-> o, at |-> pos + i - 1]]

(***************************************************************************)
(* LocalRangeReader::new                                                   *)
(***************************************************************************)

\* Mutant: an offset no native position can hold is always empty.
OffsetTooLarge(offset, observed) == offset > IMax

\* beyond_native_range
BeyondNativeRange(offset, observed) == offset > IMax /\ offset >= observed

EmptyWindow(offset, length, observed) == length = 0 \/ BeyondNativeRange(offset, observed)

Allowance(offset, length, observed) ==
    IF EmptyWindow(offset, length, observed) THEN 0
    ELSE IF length = None THEN UMax ELSE length

\* Where the handle is after new: empty windows do not seek.
Positioned(offset, length, observed) == IF EmptyWindow(offset, length, observed) THEN 0 ELSE offset

\* open_reader: nothing at the path, a seek that fails (out of range, or for
\* reasons of the device), or a reader on its window.
OpenReader(s, offset, length) ==
    /\ session[s].kind = "none"
    /\ \/ /\ named = None
          /\ session' = [session EXCEPT ![s] = [NoSession EXCEPT !.kind = "refused", !.why = "NotFound"]]
       \/ /\ named # None
          /\ \E observed \in ReportedLength(named) :
               LET new == [NoSession EXCEPT !.handle = named, !.offset = offset, !.length = length,
                                            !.observed = observed]
                   seeks == ~EmptyWindow(offset, length, observed) /\ offset # 0
               IN \/ /\ seeks => SeekInRange(offset)
                     /\ session' = [session EXCEPT ![s] =
                          [new EXCEPT !.kind = "range",
                                      !.pos = Positioned(offset, length, observed),
                                      !.allowance = Allowance(offset, length, observed)]]
                  \/ /\ seeks
                     /\ session' = [session EXCEPT ![s] =
                          [new EXCEPT !.kind = "refused", !.handle = None,
                                      !.why = IF SeekInRange(offset) THEN "Io" ELSE "Range"]]
    /\ UNCHANGED <<named, size, got, random>>

\* LimitInput: the allowance shrinks by what was really read.
Consumed(allowance, n) == allowance - n

\* LimitInput: a call asks for no more than the allowance.
Limited(allowance, count) == Least(allowance, count)

\* Mutant: each read opens what the path names now.
ReopenedObject(s) == IF named # None THEN named ELSE session[s].handle

\* Both readers keep the handle they were opened with.
ReadObject(s) == session[s].handle

\* read_unchecked of the range reader; a failing native read delivers nothing
\* and consumes nothing.
Read(s, count) ==
    /\ session[s].kind = "range" /\ session[s].calls < MaxReads
    /\ LET r == session[s]
           o == ReadObject(s)
       IN \/ \E n \in ReadCounts(o, r.pos, Limited(r.allowance, count)) :
               /\ got' = [got EXCEPT ![s] = @ \o BytesFrom(o, r.pos, n)]
               /\ session' = [session EXCEPT ![s].pos = @ + n, ![s].calls = @ + 1,
                                             ![s].allowance = Consumed(@, n)]
          \/ /\ session' = [session EXCEPT ![s].calls = @ + 1]
             /\ UNCHANGED got
    /\ UNCHANGED <<named, size, random>>

(***************************************************************************)
(* LocalRandomAccessReader                                                 *)
(***************************************************************************)

OpenRandomAccessReader(s) ==
    /\ session[s].kind = "none"
    /\ \/ /\ named = None
          /\ session' = [session EXCEPT ![s] = [NoSession EXCEPT !.kind = "refused", !.why = "NotFound"]]
       \/ /\ named # None
          /\ session' = [session EXCEPT ![s] = [NoSession EXCEPT !.kind = "random", !.handle = named]]
    /\ UNCHANGED <<named, size, got, random>>

\* Mutant: a sequential read is taken to be where the last one ended.
SeekUnlessForward(pos, offset) == IF offset > pos THEN pos ELSE offset

\* Every read_at seeks from the start, whatever the calls before it did.
SeekTarget(pos, offset) == offset

\* read_at: an empty output does nothing, a failed seek leaves the position,
\* a failed read leaves it where it was sought.
ReadAt(s, offset, count) ==
    /\ session[s].kind = "random" /\ session[s].calls < MaxReads
    /\ LET r == session[s]
           o == ReadObject(s)
           pos == SeekTarget(r.pos, offset)
       IN \/ /\ count = 0 \/ ~SeekInRange(offset)
             /\ session' = [session EXCEPT ![s].calls = @ + 1]
             /\ UNCHANGED random
          \/ /\ count # 0 /\ SeekInRange(offset)
             /\ \/ /\ session' = [session EXCEPT ![s].pos = pos, ![s].calls = @ + 1]
                   /\ UNCHANGED random
                \/ \E n \in ReadCounts(o, pos, count) :
                     /\ session' = [session EXCEPT ![s].pos = pos + n, ![s].calls = @ + 1]
                     /\ random' = [random EXCEPT ![s] =
                          [offset |-> offset, end |-> n = 0, past |-> offset >= size[o],
                           bytes |-> BytesFrom(o, pos, n)]]
    /\ UNCHANGED <<named, size, got>>

(***************************************************************************)
(* Other programs.                                                         *)
(***************************************************************************)

\* The path comes to name another file, or none.
Replace(o) ==
    /\ o # named
    /\ named' = o
    /\ UNCHANGED <<size, session, got, random>>

\* A file is written to or truncated in place.
Resize(o, n) ==
    /\ n # size[o]
    /\ size' = [size EXCEPT ![o] = n]
    /\ UNCHANGED <<named, session, got, random>>

Init ==
    /\ named \in Objects \cup {None}
    /\ size \in [Objects -> 0..IMax]
    /\ session = [s \in Sessions |-> NoSession]
    /\ got = [s \in Sessions |-> <<>>]
    /\ random = [s \in Sessions |-> None]

Next ==
    \/ \E s \in Sessions :
         \/ \E offset \in U64, length \in U64 \cup {None} : OpenReader(s, offset, length)
         \/ \E count \in 0..MaxBuffer : Read(s, count)
         \/ OpenRandomAccessReader(s)
         \/ \E offset \in U64, count \in 0..MaxBuffer : ReadAt(s, offset, count)
    \/ \E o \in Objects \cup {None} : Replace(o)
    \/ \E o \in Objects, n \in 0..IMax : Resize(o, n)

Spec == Init /\ [][Next]_vars

(***************************************************************************)
(* Properties.                                                             *)
(***************************************************************************)

\* The bytes of o from a position on, in order and without a gap.
Run(bytes, o, from) == \A i \in 1..Len(bytes) : bytes[i] = [of |-> o, at |-> from + i - 1]

\* A range reader delivers the bytes of the object it opened, without gap or
\* repetition from the requested offset, and never more than the requested
\* length, whatever others do to the path and to the file between the reads
\* (LocalRangeReader::new, read_unchecked).
DeliversWindow(s) == session[s].kind = "range" =>
    /\ Run(got[s], session[s].handle, session[s].offset)
    /\ session[s].length # None => Len(got[s]) <= session[s].length
WindowExact == \A s \in Sessions : DeliversWindow(s)

\* A window ends early only for a reason.  It is empty without being asked to
\* be only where the opening observation proves that nothing is there, also
\* for offsets no native position can hold; an offset is refused as out of
\* range only when the file was seen to reach beyond it; and without a length
\* a file that grows while it is read can be read to its new end
\* (LocalRangeReader::new).
EndsForReason(s) ==
    LET r == session[s] IN
    /\ r.kind = "range" /\ r.length # 0 /\ r.allowance = 0 /\ got[s] = <<>> =>
          r.offset > IMax /\ r.offset >= r.observed
    /\ r.why = "Range" => r.offset < r.observed
    /\ r.kind = "range" /\ r.length = None /\ r.offset <= IMax =>
          r.allowance > IMax - Len(got[s])
NotCutShort == \A s \in Sessions : EndsForReason(s)

\* A read_at that succeeds gives bytes of the opened object that start at its
\* own offset, and gives none only at or past the end, whatever calls failed
\* or moved the handle before it (read_at).
AnswersOffset(s) == random[s] # None =>
    /\ Run(random[s].bytes, session[s].handle, random[s].offset)
    /\ random[s].end => random[s].past
ReadAtExact == \A s \in Sessions : AnswersOffset(s)

(***************************************************************************)
(* The inductive strengthening of the invariants above.                    *)
(***************************************************************************)

RandomRead == [offset : U64, end : BOOLEAN, past : BOOLEAN, bytes : Seq(Byte)]

\* In particular no position and no allowance leaves u64.
TypeOK ==
    /\ named \in Objects \cup {None}
    /\ size \in [Objects -> 0..IMax]
    /\ session \in [Sessions -> SessionType]
    /\ got \in [Sessions -> Seq(Byte)]
    /\ random \in [Sessions -> RandomRead \cup {None}]

\* The native position of a window that is not empty is the offset plus what
\* was delivered, and delivered and allowed bytes add up to the request;
\* only a session of a kind has the results of that kind.
WindowOK(s) ==
    LET r == session[s]
        empty == EmptyWindow(r.offset, r.length, r.observed)
    IN /\ r.kind # "range" => got[s] = <<>>
       /\ r.kind # "random" => random[s] = None
       /\ r.kind \in {"range", "random"} => r.handle \in Objects
       /\ r.kind # "refused" => r.why = "none"
       /\ r.kind = "range" /\ empty => r.allowance = 0 /\ got[s] = <<>>
       /\ r.kind = "range" /\ ~empty =>
             /\ r.offset <= IMax /\ r.pos = r.offset + Len(got[s])
             /\ r.allowance + Len(got[s]) = IF r.length = None THEN UMax ELSE r.length
ReadInv == \A s \in Sessions : WindowOK(s)
=============================================================================
