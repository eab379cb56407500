-------------------------- MODULE ReadSessionProofs -------------------------
(***************************************************************************)
(* Proofs about ReadSession for every set of sessions and objects, every   *)
(* pair of integer widths with IMax < UMax, and every buffer size.         *)
(***************************************************************************)
EXTENDS ReadSession, SequenceTheorems, TLAPS

USE ConstantsAssumption

\* All that is known of one session.
SessionOK(s) == WindowOK(s) /\ DeliversWindow(s) /\ EndsForReason(s) /\ AnswersOffset(s)
Inv == TypeOK /\ \A s \in Sessions : SessionOK(s)

(***************************************************************************)
(* The bytes of a native read.                                             *)
(***************************************************************************)

\* A read gives at most what was asked for and what is there, and nothing
\* only if one of them is nothing.
LEMMA CountsBound ==
    ASSUME TypeOK, NEW o \in Objects, NEW pos \in U64, NEW want \in Nat,
           NEW n \in ReadCounts(o, pos, want)
    PROVE  /\ n \in Nat /\ n <= want
           /\ n = 0 \/ pos + n <= size[o]
           /\ n = 0 => want = 0 \/ pos >= size[o]
  BY DEF TypeOK, U64, ReadCounts, Least, Available

\* The bytes of a read within the object are a sequence of bytes, in order.
LEMMA BytesInOrder ==
    ASSUME TypeOK, NEW o \in Objects, NEW pos \in U64, NEW n \in Nat,
           n = 0 \/ pos + n <= size[o]
    PROVE  /\ BytesFrom(o, pos, n) \in Seq(Byte) /\ Len(BytesFrom(o, pos, n)) = n
           /\ Run(BytesFrom(o, pos, n), o, pos)
  <1> DEFINE b == BytesFrom(o, pos, n)
  <1>1. ASSUME NEW i \in 1..n PROVE [of |-> o, at |-> pos + i - 1] \in Byte
    <2>1. pos + i - 1 \in U64
      BY <1>1 DEF TypeOK, U64
    <2> QED BY <2>1 DEF Byte
  <1>2. b \in [1..n -> Byte]
    BY <1>1 DEF BytesFrom
  <1>3. b \in Seq(Byte)
    BY <1>2, SeqDef
  <1>4. DOMAIN b = 1..n /\ DOMAIN b = 1..Len(b) /\ Len(b) \in Nat
    BY <1>2, <1>3, LenProperties
  <1>5. Len(b) = n
    BY <1>4
  <1> QED BY <1>3, <1>5 DEF BytesFrom, Run

\* A window and the bytes that come after it are a window.
LEMMA WindowGrows ==
    ASSUME NEW o, NEW from \in Nat, NEW w \in Seq(Byte), NEW b \in Seq(Byte),
           Run(w, o, from), Run(b, o, from + Len(w))
    PROVE  Run(w \o b, o, from)
  <1> SUFFICES ASSUME NEW i \in 1..(Len(w) + Len(b))
               PROVE  (w \o b)[i] = [of |-> o, at |-> from + i - 1]
    BY ConcatProperties DEF Run
  <1>1. Len(w) \in Nat /\ Len(b) \in Nat
    BY LenProperties
  <1>2. (w \o b)[i] = IF i <= Len(w) THEN w[i] ELSE b[i - Len(w)]
    BY ConcatProperties
  <1>3. CASE i <= Len(w)
    <2>1. i \in 1..Len(w)
      BY <1>1, <1>3
    <2> QED BY <1>2, <1>3, <2>1 DEF Run
  <1>4. CASE ~(i <= Len(w))
    <2>1. i - Len(w) \in 1..Len(b) /\ (from + Len(w)) + (i - Len(w)) - 1 = from + i - 1
      BY <1>1, <1>4
    <2>2. b[i - Len(w)] = [of |-> o, at |-> (from + Len(w)) + (i - Len(w)) - 1]
      BY <2>1 DEF Run
    <2> QED BY <1>2, <1>4, <2>1, <2>2
  <1> QED BY <1>3, <1>4

(***************************************************************************)
(* The steps.                                                              *)
(***************************************************************************)

\* A session that a step does not touch stays as it was.
LEMMA SessionFrame ==
    ASSUME NEW s \in Sessions, SessionOK(s), session'[s] = session[s], got'[s] = got[s],
           random'[s] = random[s]
    PROVE  SessionOK(s)'
  BY DEF SessionOK, WindowOK, DeliversWindow, EndsForReason, AnswersOffset

\* A session that is opened, as it is when it has delivered nothing.
LEMMA OpenedSession ==
    ASSUME Inv, NEW s \in Sessions, session[s].kind = "none", NEW new \in SessionType,
           session' = [session EXCEPT ![s] = new], UNCHANGED <<named, size, got, random>>,
           new.kind \in {"range", "random"} => new.handle \in Objects,
           new.kind # "refused" => new.why = "none",
           new.why = "Range" => new.offset < new.observed,
           new.kind = "range" /\ EmptyWindow(new.offset, new.length, new.observed) =>
              new.allowance = 0,
           new.kind = "range" /\ ~EmptyWindow(new.offset, new.length, new.observed) =>
              /\ new.offset <= IMax /\ new.pos = new.offset
              /\ new.allowance = IF new.length = None THEN UMax ELSE new.length
    PROVE  Inv'
  <1>1. TypeOK'
    BY DEF Inv, TypeOK
  <1>2. session'[s] = new /\ \A t \in Sessions \ {s} : session'[t] = session[t]
    BY DEF Inv, TypeOK
  <1>3. got[s] = <<>> /\ random[s] = None /\ Len(got[s]) = 0
    BY EmptySeq DEF Inv, SessionOK, WindowOK
  <1>4. new.offset \in Nat /\ new.length \in Nat \cup {None} /\ new.allowance \in Nat
    BY DEF SessionType, U64
  <1>5. WindowOK(s)'
    BY <1>2, <1>3, <1>4 DEF WindowOK
  <1>6. DeliversWindow(s)'
    <2>1. Run(got'[s], new.handle, new.offset)
      BY <1>3 DEF Run
    <2> QED BY <1>2, <1>3, <1>4, <2>1 DEF DeliversWindow, SessionType, U64
  <1>7. EndsForReason(s)'
    BY <1>2, <1>3, <1>4 DEF EndsForReason, EmptyWindow, BeyondNativeRange
  <1>8. AnswersOffset(s)'
    BY <1>3 DEF AnswersOffset
  <1>9. \A t \in Sessions \ {s} : SessionOK(t)'
    BY <1>2, SessionFrame DEF Inv
  <1> QED BY <1>1, <1>5, <1>6, <1>7, <1>8, <1>9 DEF Inv, SessionOK

\* The record of a session that does not exist yet.
LEMMA NoSessionType == NoSession \in SessionType /\ NoSession.why = "none"
  <1>1. 0 \in U64 /\ 0 \in 0..MaxReads
    BY DEF U64
  <1> QED BY <1>1 DEF NoSession, SessionType

\* A session that finds nothing at the path is refused.
LEMMA RefusedNotFound ==
    ASSUME Inv, NEW s \in Sessions, session[s].kind = "none",
           session' = [session EXCEPT ![s] =
                         [NoSession EXCEPT !.kind = "refused", !.why = "NotFound"]],
           UNCHANGED <<named, size, got, random>>
    PROVE  Inv'
  <1> DEFINE new == [NoSession EXCEPT !.kind = "refused", !.why = "NotFound"]
  <1>1. new \in SessionType /\ new.kind = "refused" /\ new.why = "NotFound"
    BY NoSessionType DEF SessionType
  <1> HIDE DEF new
  <1>2. session' = [session EXCEPT ![s] = new]
    BY DEF new
  <1> QED BY <1>1, <1>2, OpenedSession

\* open_reader preserves the invariant.
LEMMA OpenReaderInv ==
    ASSUME Inv, NEW s \in Sessions, NEW offset \in U64, NEW length \in U64 \cup {None},
           OpenReader(s, offset, length)
    PROVE  Inv'
  <1>1. session[s].kind = "none" /\ UNCHANGED <<named, size, got, random>>
    BY DEF OpenReader
  <1>2. CASE session' = [session EXCEPT ![s] =
                           [NoSession EXCEPT !.kind = "refused", !.why = "NotFound"]]
    BY <1>1, <1>2, RefusedNotFound
  <1>3. ASSUME named # None, NEW observed \in ReportedLength(named),
               NEW new, NEW ranged, NEW refused,
               new = [NoSession EXCEPT !.handle = named, !.offset = offset, !.length = length,
                                       !.observed = observed],
               ranged = [new EXCEPT !.kind = "range",
                                    !.pos = Positioned(offset, length, observed),
                                    !.allowance = Allowance(offset, length, observed)],
               refused = [new EXCEPT !.kind = "refused", !.handle = None,
                                     !.why = IF SeekInRange(offset) THEN "Io" ELSE "Range"],
               LET seeks == ~EmptyWindow(offset, length, observed) /\ offset # 0
               IN \/ (seeks => SeekInRange(offset)) /\ session' = [session EXCEPT ![s] = ranged]
                  \/ seeks /\ session' = [session EXCEPT ![s] = refused]
        PROVE  Inv'
    <2>1. named \in Objects /\ observed \in U64
      BY <1>3 DEF Inv, TypeOK, ReportedLength, U64
    <2>2. /\ new \in SessionType /\ new.handle = named /\ new.offset = offset
          /\ new.length = length /\ new.observed = observed /\ new.why = "none"
      BY <1>3, <2>1, NoSessionType DEF SessionType
    <2>3. Positioned(offset, length, observed) \in U64 /\ Allowance(offset, length, observed) \in U64
      BY DEF Positioned, Allowance, U64
    <2>4. CASE /\ ~EmptyWindow(offset, length, observed) /\ offset # 0 => SeekInRange(offset)
               /\ session' = [session EXCEPT ![s] = ranged]
      <3>1. /\ ranged \in SessionType /\ ranged.kind = "range" /\ ranged.handle = named
            /\ ranged.offset = offset /\ ranged.length = length /\ ranged.observed = observed
            /\ ranged.why = "none" /\ ranged.pos = Positioned(offset, length, observed)
            /\ ranged.allowance = Allowance(offset, length, observed)
        BY <1>3, <2>2, <2>3 DEF SessionType
      <3>2. ~EmptyWindow(offset, length, observed) => offset <= IMax
        BY <2>4 DEF SeekInRange, U64
      <3> QED BY <1>1, <2>1, <2>4, <3>1, <3>2, OpenedSession DEF Positioned, Allowance
    <2>5. CASE /\ ~EmptyWindow(offset, length, observed)
               /\ session' = [session EXCEPT ![s] = refused]
      <3>1. /\ refused \in SessionType /\ refused.kind = "refused"
            /\ refused.offset = offset /\ refused.observed = observed
            /\ refused.why = IF SeekInRange(offset) THEN "Io" ELSE "Range"
        BY <1>3, <2>2 DEF SessionType
      <3>2. refused.why = "Range" => offset < observed
        BY <2>1, <2>5, <3>1 DEF SeekInRange, EmptyWindow, BeyondNativeRange, U64
      <3> QED BY <1>1, <2>5, <3>1, <3>2, OpenedSession
    <2> QED BY <1>3, <2>4, <2>5
  <1> QED BY <1>2, <1>3 DEF OpenReader

\* open_random_access_reader preserves the invariant.
LEMMA OpenRandomInv ==
    ASSUME Inv, NEW s \in Sessions, OpenRandomAccessReader(s)
    PROVE  Inv'
  <1> DEFINE new == [NoSession EXCEPT !.kind = "random", !.handle = named]
  <1>1. session[s].kind = "none" /\ UNCHANGED <<named, size, got, random>>
    BY DEF OpenRandomAccessReader
  <1>2. CASE session' = [session EXCEPT ![s] =
                           [NoSession EXCEPT !.kind = "refused", !.why = "NotFound"]]
    BY <1>1, <1>2, RefusedNotFound
  <1>3. CASE named # None /\ session' = [session EXCEPT ![s] = new]
    <2>1. named \in Objects
      BY <1>3 DEF Inv, TypeOK
    <2>2. /\ new \in SessionType /\ new.kind = "random" /\ new.handle = named
          /\ new.why = "none"
      BY <2>1, NoSessionType DEF SessionType
    <2> HIDE DEF new
    <2> QED BY <1>1, <1>3, <2>1, <2>2, OpenedSession
  <1> QED BY <1>2, <1>3 DEF OpenRandomAccessReader

\* A call that delivers nothing and moves nothing but the position of a
\* random-access handle preserves the invariant.
LEMMA QuietCall ==
    ASSUME Inv, NEW s \in Sessions, NEW r \in SessionType, session[s].kind \in {"range", "random"},
           session' = [session EXCEPT ![s] = r], UNCHANGED <<named, size, got, random>>,
           r.kind = session[s].kind, r.handle = session[s].handle, r.offset = session[s].offset,
           r.length = session[s].length, r.observed = session[s].observed,
           r.allowance = session[s].allowance, r.why = session[s].why,
           r.kind = "range" => r.pos = session[s].pos
    PROVE  Inv'
  <1>1. TypeOK'
    BY DEF Inv, TypeOK
  <1>2. session'[s] = r /\ \A t \in Sessions \ {s} : session'[t] = session[t]
    BY DEF Inv, TypeOK
  <1>3. \A t \in Sessions : SessionOK(t)
    BY DEF Inv
  <1>4. SessionOK(s)'
    BY <1>2, <1>3 DEF SessionOK, WindowOK, DeliversWindow, EndsForReason, AnswersOffset
  <1> QED BY <1>1, <1>2, <1>3, <1>4, SessionFrame DEF Inv

\* A read of the range reader delivers the next bytes of its window.
LEMMA ReadDelivers ==
    ASSUME Inv, NEW s \in Sessions, session[s].kind = "range", session[s].calls < MaxReads,
           NEW count \in Nat,
           NEW n \in ReadCounts(session[s].handle, session[s].pos,
                               Limited(session[s].allowance, count)),
           got' = [got EXCEPT ![s] = @ \o BytesFrom(session[s].handle, session[s].pos, n)],
           session' = [session EXCEPT ![s].pos = @ + n, ![s].calls = @ + 1,
                                      ![s].allowance = Consumed(@, n)],
           UNCHANGED <<named, size, random>>
    PROVE  Inv'
  <1> DEFINE r == session[s]
             b == BytesFrom(r.handle, r.pos, n)
  <1>1. TypeOK /\ \A t \in Sessions : SessionOK(t)
    BY DEF Inv
  <1>2. r \in SessionType /\ r.handle \in Objects /\ got[s] \in Seq(Byte) /\ WindowOK(s)
    BY <1>1 DEF TypeOK, SessionOK, WindowOK
  <1>3. /\ r.pos \in U64 /\ r.allowance \in U64 /\ r.offset \in U64
        /\ r.length \in U64 \cup {None} /\ r.calls \in 0..MaxReads
    BY <1>2 DEF SessionType
  <1>4. Limited(r.allowance, count) \in Nat /\ Limited(r.allowance, count) <= r.allowance
    BY <1>3 DEF Limited, Least, U64
  <1>5. /\ n \in Nat /\ n <= r.allowance
        /\ n = 0 \/ r.pos + n <= size[r.handle]
    <2> DEFINE want == Limited(r.allowance, count)
    <2>1. n \in ReadCounts(r.handle, r.pos, want)
      OBVIOUS
    <2>2. want \in Nat /\ want <= r.allowance /\ r.allowance \in Nat
      BY <1>3, <1>4 DEF U64
    <2> HIDE DEF want, r
    <2>3. n \in Nat /\ n <= want /\ (n = 0 \/ r.pos + n <= size[r.handle])
      BY <1>1, <1>2, <1>3, <2>1, <2>2, CountsBound
    <2> QED BY <2>2, <2>3
  <1>6. b \in Seq(Byte) /\ Len(b) = n /\ Run(b, r.handle, r.pos)
    BY <1>1, <1>2, <1>3, <1>5, BytesInOrder
  <1> HIDE DEF b
  <1>7. /\ got' \in [Sessions -> Seq(Byte)] /\ got'[s] = got[s] \o b
        /\ \A t \in Sessions \ {s} : got'[t] = got[t]
    <2>1. got[s] \o b \in Seq(Byte)
      BY <1>2, <1>6, ConcatProperties
    <2>2. got' = [got EXCEPT ![s] = got[s] \o b]
      BY DEF b
    <2> QED BY <1>1, <2>1, <2>2 DEF TypeOK
  <1>8. /\ Len(got[s]) \in Nat /\ Len(got'[s]) = Len(got[s]) + n
    <2>1. Len(got[s]) \in Nat
      BY <1>2, LenProperties
    <2>2. Len(got[s] \o b) = Len(got[s]) + Len(b)
      BY <1>2, <1>6, ConcatProperties, Zenon
    <2> QED BY <1>6, <1>7, <2>1, <2>2
  <1>9. r.pos + n \in U64 /\ r.allowance - n \in U64 /\ r.calls + 1 \in 0..MaxReads
    <2>1. n = 0 \/ r.pos + n <= IMax
      BY <1>1, <1>2, <1>3, <1>5 DEF TypeOK, U64
    <2>2. r.pos + n \in U64
      BY <1>3, <1>5, <2>1 DEF U64
    <2>3. r.allowance - n \in U64
      BY <1>3, <1>5 DEF U64
    <2> QED BY <1>3, <2>2, <2>3
  <1>10. /\ session' \in [Sessions -> SessionType]
         /\ \A t \in Sessions \ {s} : session'[t] = session[t]
         /\ session'[s].pos = r.pos + n /\ session'[s].allowance = r.allowance - n
         /\ session'[s].kind = r.kind /\ session'[s].handle = r.handle
         /\ session'[s].offset = r.offset /\ session'[s].length = r.length
         /\ session'[s].observed = r.observed /\ session'[s].why = r.why
    <2> DEFINE new == [r EXCEPT !.pos = r.pos + n, !.calls = r.calls + 1,
                                !.allowance = Consumed(r.allowance, n)]
    <2>1. session' = [session EXCEPT ![s] = new]
      BY <1>1 DEF TypeOK
    <2>2. new \in SessionType
      BY <1>2, <1>9 DEF SessionType, Consumed
    <2>3. /\ new.pos = r.pos + n /\ new.allowance = r.allowance - n
          /\ new.kind = r.kind /\ new.handle = r.handle /\ new.offset = r.offset
          /\ new.length = r.length /\ new.observed = r.observed /\ new.why = r.why
      BY <1>2 DEF SessionType, Consumed
    <2> HIDE DEF new, r
    <2>4. /\ session' \in [Sessions -> SessionType] /\ session'[s] = new
          /\ \A t \in Sessions \ {s} : session'[t] = session[t]
      <3>1. session \in [Sessions -> SessionType]
        BY <1>1 DEF TypeOK
      <3> QED BY <2>1, <2>2, <3>1
    <2> QED BY <2>3, <2>4
  <1>11. TypeOK'
    BY <1>1, <1>7, <1>10 DEF TypeOK
  <1> DEFINE have == Len(got[s])
             total == IF r.length = None THEN UMax ELSE r.length
             empty == EmptyWindow(r.offset, r.length, r.observed)
  <1>12. CASE empty
    <2>1. r.allowance = 0 /\ got[s] = <<>> /\ n = 0
      BY <1>2, <1>5, <1>12 DEF WindowOK
    <2>2. got'[s] = got[s]
      <3>1. Len(b) = 0 /\ b = <<>>
        BY <1>6, <2>1, EmptySeq
      <3> QED BY <1>2, <1>7, <3>1, ConcatEmptySeq
    <2>3. SessionOK(s)'
      BY <1>1, <1>3, <1>10, <1>12, <2>1, <2>2 DEF SessionOK, WindowOK, DeliversWindow,
             EndsForReason, AnswersOffset
    <2> QED BY <1>1, <1>7, <1>10, <1>11, <2>3, SessionFrame DEF Inv
  <1>13. CASE ~empty
    <2>1. r.offset <= IMax /\ r.pos = r.offset + have /\ r.allowance + have = total
      BY <1>2, <1>13 DEF WindowOK
    <2>2. /\ have \in Nat /\ total \in Nat /\ r.offset \in Nat /\ r.pos \in Nat
          /\ r.allowance \in Nat
      BY <1>3, <1>8 DEF U64
    <2>3. Len(got'[s]) = have + n
      BY <1>8
    <2>4. r.pos + n = r.offset + (have + n) /\ (r.allowance - n) + (have + n) = total
      <3> HIDE DEF r, have, total
      <3>1. n \in Nat
        BY <1>5
      <3>2. r.pos + n = r.offset + (have + n)
        BY <2>1, <2>2, <3>1
      <3>3. (r.allowance - n) + (have + n) = total
        BY <2>1, <2>2, <3>1
      <3> QED BY <3>2, <3>3
    <2>5. WindowOK(s)'
      <3>1. session'[s].kind = "range" /\ session'[s].why = "none"
        BY <1>2, <1>10 DEF WindowOK
      <3>2. random'[s] = None
        BY <1>2 DEF WindowOK
      <3>3. ~EmptyWindow(session'[s].offset, session'[s].length, session'[s].observed)
        BY <1>10, <1>13
      <3>4. /\ session'[s].offset <= IMax
            /\ session'[s].pos = session'[s].offset + Len(got'[s])
            /\ session'[s].allowance + Len(got'[s]) =
                  IF session'[s].length = None THEN UMax ELSE session'[s].length
        BY <1>10, <2>1, <2>3, <2>4
      <3> QED BY <1>2, <1>10, <3>1, <3>2, <3>3, <3>4 DEF WindowOK
    <2>6. DeliversWindow(s)'
      <3>1. Run(got'[s], r.handle, r.offset)
        <4>1. Run(got[s], r.handle, r.offset)
          BY <1>1 DEF SessionOK, DeliversWindow
        <4>2. Run(b, r.handle, r.offset + Len(got[s]))
          BY <1>6, <2>1
        <4>3. r.offset \in Nat
          BY <2>2
        <4> HIDE DEF r
        <4> QED BY <1>2, <1>6, <1>7, <4>1, <4>2, <4>3, WindowGrows
      <3>2. r.length # None => have + n <= r.length
        <4>1. have + n <= total
          <5> HIDE DEF r, have, total
          <5> QED BY <1>5, <2>1, <2>2
        <4> QED BY <4>1
      <3> QED BY <1>10, <2>3, <3>1, <3>2 DEF DeliversWindow
    <2>7. EndsForReason(s)'
      <3>1. (r.length # 0 /\ r.allowance - n = 0) => Len(got'[s]) # 0
        <4>1. r.length # 0 => total # 0
          OBVIOUS
        <4>2. r.allowance - n = 0 => have + n = total
          <5> HIDE DEF r, have, total
          <5> QED BY <1>5, <2>1, <2>2
        <4> QED BY <2>3, <4>1, <4>2
      <3>2. r.length = None => r.allowance - n > IMax - (have + n)
        <4>1. r.length = None => total = UMax
          OBVIOUS
        <4>2. total = UMax => r.allowance - n > IMax - (have + n)
          <5> HIDE DEF r, have, total
          <5> QED BY <1>5, <2>1, <2>2
        <4> QED BY <4>1, <4>2
      <3>3. got'[s] = <<>> => Len(got'[s]) = 0
        BY EmptySeq
      <3>4. session'[s].why = "none"
        BY <1>2, <1>10 DEF WindowOK
      <3> QED BY <1>10, <2>3, <3>1, <3>2, <3>3, <3>4 DEF EndsForReason
    <2>8. AnswersOffset(s)'
      BY <1>1, <1>10 DEF SessionOK, AnswersOffset
    <2> QED BY <1>1, <1>7, <1>10, <1>11, <2>5, <2>6, <2>7, <2>8, SessionFrame DEF Inv, SessionOK
  <1> QED BY <1>12, <1>13

\* read_unchecked preserves the invariant.
LEMMA ReadStepInv ==
    ASSUME Inv, NEW s \in Sessions, NEW count \in 0..MaxBuffer, Read(s, count)
    PROVE  Inv'
  <1>1. /\ session[s].kind = "range" /\ session[s].calls < MaxReads
        /\ UNCHANGED <<named, size, random>>
    BY DEF Read
  <1>2. CASE session' = [session EXCEPT ![s].calls = @ + 1] /\ UNCHANGED got
    <2> DEFINE r == [session[s] EXCEPT !.calls = @ + 1]
    <2>1. session[s] \in SessionType
      BY DEF Inv, TypeOK
    <2>2. /\ r \in SessionType /\ r.kind = session[s].kind /\ r.handle = session[s].handle
          /\ r.offset = session[s].offset /\ r.length = session[s].length
          /\ r.observed = session[s].observed /\ r.allowance = session[s].allowance
          /\ r.why = session[s].why /\ r.pos = session[s].pos
      BY <1>1, <2>1 DEF SessionType
    <2>3. session' = [session EXCEPT ![s] = r]
      BY <1>2
    <2> HIDE DEF r
    <2> QED BY <1>1, <1>2, <2>2, <2>3, QuietCall
  <1>3. CASE \E n \in ReadCounts(session[s].handle, session[s].pos,
                                 Limited(session[s].allowance, count)) :
               /\ got' = [got EXCEPT ![s] = @ \o BytesFrom(session[s].handle, session[s].pos, n)]
               /\ session' = [session EXCEPT ![s].pos = @ + n, ![s].calls = @ + 1,
                                             ![s].allowance = Consumed(@, n)]
    <2>1. count \in Nat
      OBVIOUS
    <2> QED BY <1>1, <1>3, <2>1, ReadDelivers
  <1> QED BY <1>2, <1>3 DEF Read, ReadObject

\* A session after a call that moved its handle.
Moved(s, pos) == [session[s] EXCEPT !.pos = pos, !.calls = @ + 1]

LEMMA MovedSession ==
    ASSUME NEW s \in Sessions, session[s] \in SessionType, session[s].calls < MaxReads,
           NEW pos \in U64
    PROVE  /\ Moved(s, pos) \in SessionType
           /\ Moved(s, pos).kind = session[s].kind /\ Moved(s, pos).handle = session[s].handle
           /\ Moved(s, pos).offset = session[s].offset /\ Moved(s, pos).length = session[s].length
           /\ Moved(s, pos).observed = session[s].observed
           /\ Moved(s, pos).allowance = session[s].allowance
           /\ Moved(s, pos).why = session[s].why
  <1>1. session[s].calls + 1 \in 0..MaxReads
    BY DEF SessionType
  <1> QED BY <1>1 DEF Moved, SessionType

\* A read_at that succeeds answers its offset.
LEMMA ReadAtAnswers ==
    ASSUME Inv, NEW s \in Sessions, session[s].kind = "random", session[s].calls < MaxReads,
           NEW offset \in U64, SeekInRange(offset), NEW count \in Nat, count # 0,
           NEW n \in ReadCounts(session[s].handle, offset, count),
           session' = [session EXCEPT ![s].pos = offset + n, ![s].calls = @ + 1],
           random' = [random EXCEPT ![s] =
                        [offset |-> offset, end |-> n = 0, past |-> offset >= size[session[s].handle],
                         bytes |-> BytesFrom(session[s].handle, offset, n)]],
           UNCHANGED <<named, size, got>>
    PROVE  Inv'
  <1> DEFINE o == session[s].handle
             b == BytesFrom(o, offset, n)
             answer == [offset |-> offset, end |-> n = 0, past |-> offset >= size[o], bytes |-> b]
             r == Moved(s, offset + n)
  <1>1. TypeOK /\ \A t \in Sessions : SessionOK(t)
    BY DEF Inv
  <1>2. session[s] \in SessionType /\ o \in Objects /\ session[s].why = "none"
    BY <1>1 DEF TypeOK, SessionOK, WindowOK
  <1>3. /\ n \in Nat /\ (n = 0 \/ offset + n <= size[o])
        /\ n = 0 => offset >= size[o]
    BY <1>1, <1>2, CountsBound DEF U64
  <1>4. b \in Seq(Byte) /\ Run(b, o, offset)
    BY <1>1, <1>2, <1>3, BytesInOrder
  <1>5. offset + n \in U64
    BY <1>1, <1>2, <1>3 DEF TypeOK, U64
  <1>6. /\ r \in SessionType /\ r.kind = "random" /\ r.handle = o /\ r.why = "none"
    BY <1>2, <1>5, MovedSession
  <1>7. session' = [session EXCEPT ![s] = r]
    BY <1>1, <1>2 DEF TypeOK, Moved
  <1> HIDE DEF b
  <1>8. /\ answer \in RandomRead /\ answer.offset = offset /\ answer.bytes = b
        /\ answer.end = (n = 0) /\ answer.past = (offset >= size[o])
    BY <1>4 DEF RandomRead
  <1>9. random' = [random EXCEPT ![s] = answer]
    BY DEF b
  <1> HIDE DEF answer, r
  <1>10. TypeOK'
    <2>1. session' \in [Sessions -> SessionType]
      BY <1>1, <1>6, <1>7 DEF TypeOK
    <2>2. random' \in [Sessions -> RandomRead \cup {None}]
      BY <1>1, <1>8, <1>9 DEF TypeOK
    <2> QED BY <1>1, <2>1, <2>2 DEF TypeOK
  <1>11. /\ session'[s] = r /\ random'[s] = answer
         /\ \A t \in Sessions \ {s} : session'[t] = session[t] /\ random'[t] = random[t]
    BY <1>1, <1>7, <1>9 DEF TypeOK
  <1>12. WindowOK(s)'
    BY <1>1, <1>2, <1>6, <1>11 DEF SessionOK, WindowOK
  <1>13. DeliversWindow(s)' /\ EndsForReason(s)'
    BY <1>6, <1>11 DEF DeliversWindow, EndsForReason
  <1>14. AnswersOffset(s)'
    BY <1>3, <1>4, <1>6, <1>8, <1>11 DEF AnswersOffset
  <1> QED BY <1>1, <1>10, <1>11, <1>12, <1>13, <1>14, SessionFrame DEF Inv, SessionOK

\* read_at preserves the invariant.
LEMMA ReadAtInv ==
    ASSUME Inv, NEW s \in Sessions, NEW offset \in U64, NEW count \in 0..MaxBuffer,
           ReadAt(s, offset, count)
    PROVE  Inv'
  <1>1. /\ session[s].kind = "random" /\ session[s].calls < MaxReads
        /\ UNCHANGED <<named, size, got>> /\ count \in Nat
    BY DEF ReadAt
  <1>2. session[s] \in SessionType
    BY DEF Inv, TypeOK
  <1>3. ASSUME NEW pos \in U64, UNCHANGED random,
               session' = [session EXCEPT ![s].pos = pos, ![s].calls = @ + 1]
        PROVE  Inv'
    <2> DEFINE r == Moved(s, pos)
    <2>1. /\ r \in SessionType /\ r.kind = session[s].kind /\ r.handle = session[s].handle
          /\ r.offset = session[s].offset /\ r.length = session[s].length
          /\ r.observed = session[s].observed /\ r.allowance = session[s].allowance
          /\ r.why = session[s].why
      BY <1>1, <1>2, <1>3, MovedSession
    <2>2. session' = [session EXCEPT ![s] = r]
      BY <1>2, <1>3 DEF Inv, TypeOK, Moved
    <2> HIDE DEF r
    <2> QED BY <1>1, <1>3, <2>1, <2>2, QuietCall
  <1>4. CASE session' = [session EXCEPT ![s].calls = @ + 1] /\ UNCHANGED random
    <2>1. session[s].pos \in U64
      BY <1>2 DEF SessionType
    <2>2. session' = [session EXCEPT ![s].pos = session[s].pos, ![s].calls = @ + 1]
      BY <1>2, <1>4 DEF Inv, TypeOK, SessionType
    <2> QED BY <1>3, <1>4, <2>1, <2>2
  <1>5. CASE session' = [session EXCEPT ![s].pos = offset, ![s].calls = @ + 1] /\ UNCHANGED random
    BY <1>3, <1>5
  <1>6. ASSUME count # 0, SeekInRange(offset),
               NEW n \in ReadCounts(session[s].handle, offset, count),
               session' = [session EXCEPT ![s].pos = offset + n, ![s].calls = @ + 1],
               random' = [random EXCEPT ![s] =
                            [offset |-> offset, end |-> n = 0,
                             past |-> offset >= size[session[s].handle],
                             bytes |-> BytesFrom(session[s].handle, offset, n)]]
        PROVE  Inv'
    BY <1>1, <1>6, ReadAtAnswers
  <1> QED BY <1>4, <1>5, <1>6 DEF ReadAt, SeekTarget, ReadObject

\* What others do to the path and to the files changes no session.
LEMMA OthersInv ==
    ASSUME Inv, UNCHANGED <<session, got, random>>, named' \in Objects \cup {None},
           size' \in [Objects -> 0..IMax]
    PROVE  Inv'
  <1>1. TypeOK'
    BY DEF Inv, TypeOK
  <1>2. \A s \in Sessions : SessionOK(s)'
    BY SessionFrame DEF Inv
  <1> QED BY <1>1, <1>2 DEF Inv

LEMMA InitInv == Init => Inv
  <1> SUFFICES ASSUME Init PROVE Inv
    OBVIOUS
  <1>1. \A s \in Sessions : session[s] = NoSession /\ got[s] = <<>> /\ random[s] = None
    BY DEF Init
  <1>2. TypeOK
    BY <1>1, NoSessionType, EmptySeq DEF Init, TypeOK
  <1>3. ASSUME NEW s \in Sessions PROVE SessionOK(s)
    <2>1. session[s].kind = "none" /\ session[s].why = "none"
      BY <1>1 DEF NoSession
    <2> QED BY <1>1, <2>1 DEF SessionOK, WindowOK, DeliversWindow, EndsForReason, AnswersOffset
  <1> QED BY <1>2, <1>3 DEF Inv

LEMMA NextInv == Inv /\ [Next]_vars => Inv'
  <1> SUFFICES ASSUME Inv, [Next]_vars PROVE Inv'
    OBVIOUS
  <1>1. named \in Objects \cup {None} /\ size \in [Objects -> 0..IMax]
    BY DEF Inv, TypeOK
  <1>2. ASSUME NEW o \in Objects \cup {None}, Replace(o) PROVE Inv'
    BY <1>1, <1>2, OthersInv DEF Replace
  <1>3. ASSUME NEW o \in Objects, NEW n \in 0..IMax, Resize(o, n) PROVE Inv'
    BY <1>1, <1>3, OthersInv DEF Resize
  <1>4. CASE UNCHANGED vars
    BY <1>1, <1>4, OthersInv DEF vars
  <1> QED BY <1>2, <1>3, <1>4, OpenReaderInv, ReadStepInv, OpenRandomInv, ReadAtInv DEF Next

(***************************************************************************)
(* The theorems.                                                           *)
(***************************************************************************)

\* The inductive invariant holds: positions, allowances and deliveries of
\* every session stay in step (LocalRangeReader, LocalRandomAccessReader).
THEOREM ReadCorrect == Spec => []Inv
  BY InitInv, NextInv, PTL DEF Spec

\* Every variable keeps its type; no position and no allowance leaves u64.
THEOREM TypeCorrect == Spec => []TypeOK
  <1>1. Inv => TypeOK
    BY DEF Inv
  <1> QED BY <1>1, ReadCorrect, PTL

\* A range reader delivers its window of the object it opened, in order, and
\* no more than the requested length (LocalRangeReader::new, read_unchecked).
THEOREM WindowCorrect == Spec => []WindowExact
  <1>1. Inv => WindowExact
    BY DEF Inv, SessionOK, WindowExact
  <1> QED BY <1>1, ReadCorrect, PTL

\* A window ends early, and an offset is refused, only for a reason that the
\* opening observation gives (LocalRangeReader::new).
THEOREM NotCutShortCorrect == Spec => []NotCutShort
  <1>1. Inv => NotCutShort
    BY DEF Inv, SessionOK, NotCutShort
  <1> QED BY <1>1, ReadCorrect, PTL

\* A successful read_at answers its own offset, whatever happened before it
\* (read_at).
THEOREM ReadAtCorrect == Spec => []ReadAtExact
  <1>1. Inv => ReadAtExact
    BY DEF Inv, SessionOK, ReadAtExact
  <1> QED BY <1>1, ReadCorrect, PTL
=============================================================================
