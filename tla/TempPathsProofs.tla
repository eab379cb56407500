--------------------------- MODULE TempPathsProofs --------------------------
(***************************************************************************)
(* Proofs about TempPaths for every set of directories, every link and all  *)
(* that the native engine may generate.                                    *)
(***************************************************************************)
EXTENDS TempPaths, SequenceTheorems, TLAPS

Inv == TypeOK /\ PathInv

(***************************************************************************)
(* Paths as sequences.                                                     *)
(***************************************************************************)

\* A path that begins with another is that one and the rest.
LEMMA SplitPath ==
    ASSUME NEW from \in Paths, NEW path \in Paths, IsPrefix(from, path)
    PROVE  /\ SubSeq(path, Len(from) + 1, Len(path)) \in Paths
           /\ from \o SubSeq(path, Len(from) + 1, Len(path)) = path
  <1>1. from \in Seq(Names) /\ path \in Seq(Names) /\ Len(from) \in Nat /\ Len(path) \in Nat
    BY LenProperties DEF Paths
  <1>2. Len(from) <= Len(path) /\ SubSeq(path, 1, Len(from)) = from
    BY <1>1, SubSeqFull DEF IsPrefix
  <1>3. SubSeq(path, Len(from) + 1, Len(path)) \in Seq(Names)
    <2>1. \A i \in (Len(from) + 1)..Len(path) : path[i] \in Names
      BY <1>1, ElementOfSeq
    <2>2. Len(from) + 1 \in Int /\ Len(path) \in Int
      BY <1>1
    <2> QED BY <2>1, <2>2, SubSeqProperties
  <1>4. /\ 1 \in 1..(Len(path) + 1) /\ Len(from) \in (1 - 1)..Len(path)
        /\ Len(path) \in Len(from)..Len(path)
    BY <1>1, <1>2
  <1>5. SubSeq(path, 1, Len(from)) \o SubSeq(path, Len(from) + 1, Len(path))
        = SubSeq(path, 1, Len(path))
    BY <1>1, <1>4, ConcatAdjacentSubSeq
  <1> QED BY <1>1, <1>2, <1>3, <1>5, SubSeqFull DEF Paths

\* A path goes on from each of its parents.
LEMMA ParentIsPrefix ==
    ASSUME NEW a \in Paths, NEW b \in Paths
    PROVE  IsPrefix(a, a \o b)
  <1>1. a \in Seq(Names) /\ b \in Seq(Names) /\ Len(a) \in Nat /\ Len(b) \in Nat
    BY LenProperties DEF Paths
  <1>2. Len(a \o b) = Len(a) + Len(b)
    BY <1>1, ConcatProperties
  <1>3. SubSeq(a \o b, 1, Len(a)) = SubSeq(a, 1, Len(a))
    <2>1. CASE Len(a) = 0
      <3>1. 1 \in Int /\ Len(a) \in Int /\ Len(a) < 1
        BY <2>1
      <3> QED BY <3>1, SubSeqEmpty
    <2>2. CASE Len(a) # 0
      <3>1. 1 \in 1..Len(a) /\ Len(a) \in 1..Len(a)
        BY <1>1, <2>2
      <3> QED BY <1>1, <3>1, SubSeqOfConcat1
    <2> QED BY <2>1, <2>2
  <1>4. Len(a) <= Len(a \o b)
    BY <1>1, <1>2
  <1> QED BY <1>3, <1>4 DEF IsPrefix

\* A link leads to the same place however long the path through it.
LEMMA ResolvedBelow ==
    ASSUME NEW a \in Paths, a # <<>>, NEW b \in Paths, NEW d \in Names
    PROVE  Resolved(a \o b, d) = Resolved(a, d) \o b
  <1>1. /\ a \in Seq(Names) /\ b \in Seq(Names) /\ Len(a) \in Nat \ {0} /\ Len(b) \in Nat
    BY EmptySeq, LenProperties DEF Paths
  <1>2. /\ a \o b \in Seq(Names) /\ Len(a \o b) = Len(a) + Len(b)
        /\ \A i \in 1..(Len(a) + Len(b)) : (a \o b)[i] = IF i <= Len(a) THEN a[i] ELSE b[i - Len(a)]
    BY <1>1, ConcatProperties
  <1>3. a \o b # <<>> /\ (a \o b)[1] = a[1]
    <2>1. 1 \in 1..(Len(a) + Len(b)) /\ 1 <= Len(a)
      BY <1>1
    <2>2. Len(a \o b) # 0
      BY <1>1, <1>2
    <2> QED BY <1>2, <2>1, <2>2, EmptySeq
  <1>4. /\ Tail(a) \in Seq(Names) /\ Len(Tail(a)) = Len(a) - 1
        /\ \A i \in 1..(Len(a) - 1) : Tail(a)[i] = a[i + 1]
    BY <1>1, HeadTailProperties
  <1>5. Tail(a \o b) = Tail(a) \o b
    <2> DEFINE s == Tail(a \o b)
               t == Tail(a) \o b
    <2>1. /\ s \in Seq(Names) /\ Len(s) = Len(a) + Len(b) - 1
          /\ \A i \in 1..(Len(a) + Len(b) - 1) : s[i] = (a \o b)[i + 1]
      BY <1>2, <1>3, HeadTailProperties
    <2>2. /\ t \in Seq(Names) /\ Len(t) = Len(a) - 1 + Len(b)
          /\ \A i \in 1..(Len(a) - 1 + Len(b)) :
                t[i] = IF i <= Len(a) - 1 THEN Tail(a)[i] ELSE b[i - (Len(a) - 1)]
      BY <1>1, <1>4, ConcatProperties
    <2>3. Len(s) = Len(t) /\ Len(a) + Len(b) - 1 = Len(a) - 1 + Len(b)
      BY <1>1, <2>1, <2>2
    <2>4. ASSUME NEW i \in 1..Len(s) PROVE s[i] = t[i]
      <3>1. /\ i + 1 \in 1..(Len(a) + Len(b)) /\ i \in Nat /\ i >= 1
            /\ i \in 1..(Len(a) + Len(b) - 1) /\ i \in 1..(Len(a) - 1 + Len(b))
        BY <1>1, <2>1
      <3>2. CASE i <= Len(a) - 1
        <4>1. i + 1 <= Len(a) /\ i \in 1..(Len(a) - 1)
          BY <1>1, <3>1, <3>2
        <4> QED BY <1>2, <1>4, <2>1, <2>2, <3>1, <3>2, <4>1
      <3>3. CASE ~(i <= Len(a) - 1)
        <4>1. ~(i + 1 <= Len(a)) /\ (i + 1) - Len(a) = i - (Len(a) - 1)
          BY <1>1, <3>1, <3>3
        <4> QED BY <1>2, <2>1, <2>2, <3>1, <3>3, <4>1
      <3> QED BY <3>2, <3>3
    <2> HIDE DEF s, t
    <2>5. s = t
      BY <2>1, <2>2, <2>3, <2>4, SeqEqual
    <2> QED BY <2>5 DEF s, t
  <1>6. <<d>> \o (Tail(a) \o b) = (<<d>> \o Tail(a)) \o b
    <2>1. <<d>> \in Seq(Names)
      OBVIOUS
    <2> QED BY <1>1, <1>4, <2>1, ConcatAssociative
  <1> QED BY <1>3, <1>5, <1>6 DEF Resolved

\* What a path through a link leads to names no link.
LEMMA ResolvedCanonical ==
    ASSUME NEW a \in Paths, a # <<>>, NEW d \in Dirs
    PROVE  Resolved(a, d) \in Paths /\ Canonical(Resolved(a, d))
  <1>1. d \in Names /\ d # Alias /\ a \in Seq(Names)
    BY ConstantsAssumption DEF Paths
  <1>2. CASE a[1] # Alias
    BY <1>2 DEF Resolved, Canonical
  <1>3. CASE a[1] = Alias
    <2> DEFINE s == <<d>>
               t == Tail(a)
    <2>1. s \in Seq(Names) /\ Len(s) = 1 /\ s[1] = d
      BY <1>1
    <2>2. t \in Seq(Names) /\ Len(t) \in Nat
      BY <1>1, HeadTailProperties, LenProperties
    <2>3. Resolved(a, d) = s \o t
      BY <1>3 DEF Resolved
    <2> HIDE DEF s, t
    <2>4. /\ s \o t \in Seq(Names) /\ Len(s \o t) = 1 + Len(t)
          /\ \A i \in 1..(1 + Len(t)) : (s \o t)[i] = IF i <= 1 THEN s[i] ELSE t[i - 1]
      BY <2>1, <2>2, ConcatProperties, SMTT(30)
    <2>5. (s \o t)[1] = d /\ Len(s \o t) # 0
      <3>1. 1 \in 1..(1 + Len(t)) /\ 1 + Len(t) # 0
        BY <2>2
      <3> QED BY <2>1, <2>4, <3>1
    <2>6. s \o t # <<>>
      BY <2>4, <2>5, EmptySeq
    <2> QED BY <1>1, <2>3, <2>4, <2>5, <2>6 DEF Canonical, Paths
  <1> QED BY <1>2, <1>3

\* A path below one that names no link names none.
LEMMA CanonicalBelow ==
    ASSUME NEW a \in Paths, Canonical(a), NEW b \in Paths
    PROVE  a \o b \in Paths /\ Canonical(a \o b)
  <1>1. /\ a \in Seq(Names) /\ b \in Seq(Names) /\ Len(a) \in Nat \ {0} /\ Len(b) \in Nat
    BY EmptySeq, LenProperties DEF Paths, Canonical
  <1>2. /\ a \o b \in Seq(Names) /\ Len(a \o b) = Len(a) + Len(b)
        /\ \A i \in 1..(Len(a) + Len(b)) : (a \o b)[i] = IF i <= Len(a) THEN a[i] ELSE b[i - Len(a)]
    BY <1>1, ConcatProperties
  <1>3. 1 \in 1..(Len(a) + Len(b)) /\ 1 <= Len(a) /\ Len(a \o b) # 0
    BY <1>1, <1>2
  <1>4. (a \o b)[1] = a[1] /\ a \o b # <<>>
    BY <1>2, <1>3, EmptySeq
  <1> QED BY <1>2, <1>4 DEF Canonical, Paths

(***************************************************************************)
(* The operators of the code.                                              *)
(***************************************************************************)

\* A parent, made absolute, is a path and not the root.
LEMMA NamedParent ==
    ASSUME NEW p \in Parents, p # None, cwd \in Cwds
    PROVE  /\ p.absolute \in BOOLEAN
           /\ NativeTempParent(p) \in Paths /\ NativeTempParent(p) # <<>>
  <1>1. \A n \in Dirs \cup {Alias} : n \in Names /\ <<n>> \in Seq(Names) /\ Len(<<n>>) = 1
    <2>1. \A n \in Dirs \cup {Alias} : n \in Names
      BY ConstantsAssumption
    <2> QED BY <2>1
  <1>2. p \in [absolute : BOOLEAN, components : {<<n>> : n \in Dirs \cup {Alias}}]
    BY DEF Parents
  <1>3. PICK n \in Dirs \cup {Alias} : p.components = <<n>>
    BY <1>2
  <1>4. p.components \in Seq(Names) /\ Len(p.components) = 1 /\ p.components # <<>>
    BY <1>1, <1>3
  <1>5. cwd \in Seq(Names)
    <2>1. CASE cwd = <<>>
      BY <2>1, EmptySeq
    <2>2. CASE cwd # <<>>
      <3>1. PICK m \in Dirs \cup {Alias} : cwd = <<m>>
        BY <2>2 DEF Cwds
      <3> QED BY <1>1, <3>1
    <2> QED BY <2>1, <2>2
  <1>6. cwd \o p.components \in Seq(Names) /\ cwd \o p.components # <<>>
    BY <1>4, <1>5, ConcatProperties, ConcatEqualIffEmpty
  <1> QED BY <1>2, <1>4, <1>6 DEF NativeTempParent, Paths

\* local_path_mapper::logical keeps the components.
LEMMA LogicalPath ==
    ASSUME NEW path \in Paths
    PROVE  /\ Logical(path) \in LogicalPaths \cup {None}
           /\ Logical(path) # None => Logical(path) = [absolute |-> TRUE, components |-> path]
  BY DEF Logical, LogicalPaths

\* The projection gives a path, or nothing.
LEMMA ProjectedPath ==
    ASSUME TypeOK, resource # None, NEW path \in Paths
    PROVE  Projected(path) \in Paths \cup {None}
  <1>1. resource.parent \in Paths
    BY DEF TypeOK
  <1>2. CASE spelled = None
    BY <1>2 DEF Projected
  <1>3. CASE spelled # None
    <2>1. spelled \in Paths
      BY <1>3 DEF TypeOK
    <2>2. CASE IsPrefix(resource.parent, path)
      <3> DEFINE rest == SubSeq(path, Len(resource.parent) + 1, Len(path))
      <3>1. rest \in Paths
        BY <1>1, <2>2, SplitPath
      <3>2. Projected(path) = spelled \o rest
        BY <1>3, <2>2 DEF Projected, Project
      <3> HIDE DEF rest
      <3> QED BY <2>1, <3>1, <3>2, ConcatProperties DEF Paths
    <2>3. CASE ~IsPrefix(resource.parent, path)
      BY <1>3, <2>3 DEF Projected, Project
    <2> QED BY <2>2, <2>3
  <1> QED BY <1>2, <1>3

\* The outcome of a call is ok exactly when there is a logical path to answer.
LEMMA OutcomeOf ==
    ASSUME NEW projected \in Paths \cup {None}
    PROVE  /\ Outcome(projected) \in {"ok", "InvalidPath", "ProviderContractViolation"}
           /\ Outcome(projected) = "ok" => projected # None /\ Logical(projected) # None
           /\ (IF Outcome(projected) = "ok" THEN Logical(projected) ELSE None)
                 \in LogicalPaths \cup {None}
  <1>1. CASE projected = None
    BY <1>1 DEF Outcome
  <1>2. CASE projected # None
    BY <1>2, LogicalPath DEF Outcome
  <1> QED BY <1>1, <1>2

\* An answered path is faithful: below the parent of the caller, and leading to
\* the native path it stands for.
LEMMA AnsweredFaithful ==
    ASSUME TypeOK, SpelledOK, ResourceOK, resource # None,
           NEW path \in Paths, NEW logical, Answered(logical, path), logical # None
    PROVE  Faithful(logical, path) /\ (parent # None => IsPrefix(resource.parent, path))
  <1>1. /\ Canonical(path) /\ Projected(path) \in Paths
        /\ logical = [absolute |-> TRUE, components |-> Projected(path)]
    <2>1. Canonical(path) /\ Projected(path) # None /\ logical = Logical(Projected(path))
      BY DEF Answered
    <2>2. Projected(path) \in Paths
      BY <2>1, ProjectedPath
    <2> QED BY <2>1, <2>2, LogicalPath
  <1>2. logical.absolute /\ logical.components = Projected(path)
    BY <1>1
  <1>3. target \in Dirs /\ target \in Names /\ parent \in Parents /\ cwd \in Cwds
    BY ConstantsAssumption DEF TypeOK
  <1>4. CASE parent = None
    <2>1. spelled = None
      BY <1>4 DEF SpelledOK
    <2>2. Projected(path) = path
      BY <2>1 DEF Projected
    <2>3. Resolved(path, target) = path
      BY <1>1 DEF Resolved, Canonical
    <2> QED BY <1>2, <1>4, <2>2, <2>3 DEF Faithful
  <1>5. CASE parent # None
    <2> DEFINE from == resource.parent
               rest == SubSeq(path, Len(from) + 1, Len(path))
    <2>1. spelled = Named /\ Named \in Paths /\ Named # <<>> /\ spelled # None
      <3>1. spelled = Named /\ Named = NativeTempParent(parent)
        BY <1>5 DEF SpelledOK, Named, NativeTempParent
      <3>2. Named \in Paths /\ Named # <<>>
        BY <1>3, <1>5, <3>1, NamedParent
      <3> QED BY <3>1, <3>2, ConstantsAssumption
    <2>2. IsPrefix(from, path) /\ Projected(path) = Named \o rest
      <3>1. Projected(path) = Project(from, Named, path)
        BY <2>1 DEF Projected
      <3>2. Project(from, Named, path) # None
        BY <1>1, <3>1, ConstantsAssumption
      <3> QED BY <3>1, <3>2 DEF Project
    <2>3. from \in Paths
      BY DEF TypeOK
    <2>4. rest \in Paths /\ from \o rest = path
      BY <2>2, <2>3, SplitPath
    <2>5. moved \/ from = Resolved(Named, target)
      BY <2>1 DEF ResourceOK
    <2> HIDE DEF from, rest
    <2>6. IsPrefix(Named, Named \o rest)
      BY <2>1, <2>4, ParentIsPrefix
    <2>7. moved \/ Resolved(Named \o rest, target) = path
      BY <1>3, <2>1, <2>4, <2>5, ResolvedBelow, ZenonT(30)
    <2> QED BY <1>2, <2>2, <2>6, <2>7 DEF Faithful, from
  <1> QED BY <1>4, <1>5

(***************************************************************************)
(* The steps.                                                              *)
(***************************************************************************)

\* Create fixes the parent as the caller named it.
LEMMA CreateInv ==
    ASSUME Inv, NEW p \in Parents, Create(p)
    PROVE  Inv'
  <1>1. /\ stage = "new" /\ resource = None /\ public = None /\ final = None /\ spelled \in Paths \cup {None}
        /\ parent' = p
        /\ UNCHANGED <<scope, cwd, target, resource, kept, public, final, moved>>
    BY DEF Inv, TypeOK, PathInv, AnswersOK, Create
  <1>2. /\ stage' \in {"creating", "refused"}
        /\ answer' \in {"none", "InvalidPath", "NativeFailure"}
        /\ stage' = "creating" => spelled' = IF p = None THEN None ELSE NativeTempParent(p)
        /\ stage' = "refused" => spelled' = spelled
    BY DEF Create
  <1>3. p # None => NativeTempParent(p) \in Paths
    BY NamedParent DEF Inv, TypeOK
  <1>4. TypeOK'
    BY <1>1, <1>2, <1>3 DEF Inv, TypeOK
  <1>5. SpelledOK'
    BY <1>1, <1>2 DEF SpelledOK, Named, NativeTempParent
  <1>6. ResourceOK' /\ AnswersOK'
    BY <1>1, <1>2 DEF ResourceOK, AnswersOK
  <1> QED BY <1>4, <1>5, <1>6 DEF Inv, PathInv

\* The engine works where the name of the parent leads now, and answers with
\* paths that name no link.
LEMMA NativeCreateInv ==
    ASSUME Inv, NEW l \in Layouts, NEW stray \in BOOLEAN, NativeCreate(l, stray)
    PROVE  Inv'
  <1> DEFINE at == IF spelled = None THEN <<Default>> ELSE Resolved(spelled, target)
             path == (IF stray THEN <<>> ELSE at) \o l
  <1>1. /\ stage = "creating" /\ resource = None /\ public = None /\ final = None
        /\ target \in Dirs /\ parent \in Parents /\ cwd \in Cwds
        /\ spelled = IF parent = None THEN None ELSE Named
        /\ UNCHANGED <<scope, cwd, target, parent, spelled, kept, public, final>>
    BY DEF Inv, TypeOK, PathInv, SpelledOK, AnswersOK, NativeCreate
  <1>2. \/ /\ resource' = [parent |-> at, path |-> path]
           /\ stage' = "made" /\ moved' = FALSE /\ answer' = answer
        \/ /\ stage' = "refused" /\ answer' = "NativeFailure"
           /\ UNCHANGED <<resource, moved>>
    BY DEF NativeCreate
  <1>3. l \in Paths /\ Canonical(l)
    BY ConstantsAssumption
  <1>4. at \in Paths /\ Canonical(at)
    <2>1. CASE spelled = None
      <3>1. <<Default>> \in Seq(Names) /\ <<Default>>[1] = Default /\ <<Default>> # <<>>
        BY ConstantsAssumption
      <3>2. Default # Alias
        BY ConstantsAssumption
      <3> QED BY <2>1, <3>1, <3>2 DEF Paths, Canonical
    <2>2. CASE spelled # None
      <3>1. spelled = NativeTempParent(parent) /\ parent # None
        BY <1>1, <2>2 DEF Named, NativeTempParent
      <3>2. spelled \in Paths /\ spelled # <<>>
        BY <1>1, <3>1, NamedParent
      <3> QED BY <1>1, <2>2, <3>2, ResolvedCanonical
    <2> QED BY <2>1, <2>2
  <1>5. path \in Paths /\ Canonical(path)
    <2>1. <<>> \o l = l
      BY <1>3, ConcatEmptySeq DEF Paths
    <2> HIDE DEF at
    <2>2. at \o l \in Paths /\ Canonical(at \o l)
      BY <1>3, <1>4, CanonicalBelow
    <2> QED BY <1>3, <2>1, <2>2
  <1> HIDE DEF path
  <1>6. TypeOK'
    <2> HIDE DEF at
    <2>1. resource' \in [parent : Paths, path : Paths] \cup {None}
      BY <1>2, <1>4, <1>5 DEF Inv, TypeOK
    <2>2. /\ stage' \in {"made", "refused"} /\ moved' \in BOOLEAN
          /\ answer' \in {"none", "ok", "InvalidPath", "NativeFailure", "ProviderContractViolation"}
      BY <1>2 DEF Inv, TypeOK
    <2> QED BY <1>1, <2>1, <2>2 DEF Inv, TypeOK
  <1>7. SpelledOK'
    BY <1>1 DEF SpelledOK, Named
  <1>8. ResourceOK'
    <2>1. CASE stage' = "made"
      <3>1. resource' = [parent |-> at, path |-> path]
        BY <1>2, <2>1
      <3>2. at = IF spelled' = None THEN <<Default>> ELSE Resolved(spelled', target')
        BY <1>1
      <3> HIDE DEF at
      <3>3. resource'.parent = at /\ resource'.path = path
        BY <3>1
      <3> QED BY <1>4, <1>5, <3>2, <3>3 DEF ResourceOK
    <2>2. CASE stage' # "made"
      BY <1>1, <1>2, <2>2 DEF ResourceOK
    <2> QED BY <2>1, <2>2
  <1>9. AnswersOK'
    <2>1. stage' \in {"made", "refused"} /\ (stage' = "made" => resource' # None)
      <3> HIDE DEF at
      <3>1. [parent |-> at, path |-> path] \in [parent : Paths, path : Paths]
        BY <1>4, <1>5
      <3> QED BY <1>2, <3>1, ConstantsAssumption
    <2> QED BY <1>1, <2>1 DEF AnswersOK
  <1> QED BY <1>6, <1>7, <1>8, <1>9 DEF Inv, PathInv

\* The creation answers with the projection of the path, or with nothing.
LEMMA EndCreateInv ==
    ASSUME Inv, EndCreate
    PROVE  Inv'
  <1> DEFINE projected == Projected(resource.path)
  <1>1. /\ stage = "made" /\ resource # None /\ public = None /\ final = None
        /\ resource.path \in Paths /\ Canonical(resource.path)
        /\ answer' = Outcome(projected)
        /\ stage' = (IF answer' = "ok" THEN "open" ELSE "refused")
        /\ public' = (IF answer' = "ok" THEN Logical(projected) ELSE None)
        /\ UNCHANGED <<scope, cwd, target, parent, spelled, resource, kept, final, moved>>
    BY DEF Inv, TypeOK, PathInv, ResourceOK, AnswersOK, EndCreate
  <1>2. projected \in Paths \cup {None}
    BY <1>1, ProjectedPath DEF Inv
  <1>3. /\ answer' \in {"ok", "InvalidPath", "ProviderContractViolation"}
        /\ answer' = "ok" => projected # None
        /\ public' \in LogicalPaths \cup {None}
    BY <1>1, <1>2, OutcomeOf
  <1>4. projected' = projected
    BY <1>1 DEF Projected
  <1> HIDE DEF projected
  <1>5. TypeOK'
    BY <1>1, <1>3 DEF Inv, TypeOK
  <1>6. SpelledOK' /\ ResourceOK'
    BY <1>1 DEF Inv, PathInv, SpelledOK, ResourceOK, Named
  <1>7. AnswersOK'
    <2>1. stage' = "open" => Answered(public, resource.path)'
      BY <1>1, <1>3, <1>4 DEF Answered, projected
    <2> QED BY <1>1, <2>1 DEF AnswersOK
  <1> QED BY <1>5, <1>6, <1>7 DEF Inv, PathInv

\* What keep may establish is a path that names no link.
LEMMA KeptPath ==
    ASSUME Inv, resource # None, NEW path \in KeepPaths
    PROVE  path \in Paths /\ Canonical(path)
  <1>1. /\ resource.parent \in Paths /\ Canonical(resource.parent)
        /\ resource.path \in Paths /\ Canonical(resource.path)
    BY DEF Inv, TypeOK, PathInv, ResourceOK
  <1>2. \A l \in Layouts :
           /\ l \in Paths /\ Canonical(l)
           /\ resource.parent \o l \in Paths /\ Canonical(resource.parent \o l)
    BY <1>1, ConstantsAssumption, CanonicalBelow
  <1> QED BY <1>1, <1>2 DEF KeepPaths

\* Keep answers through the projection of the creation.
LEMMA KeepInv ==
    ASSUME Inv, stage = "open", NEW path \in KeepPaths, Keep(path)
    PROVE  Inv'
  <1> DEFINE projected == Projected(path)
  <1>1. /\ resource # None /\ Answered(public, resource.path)
        /\ stage' = "kept" /\ kept' = path
        /\ answer' = Outcome(projected)
        /\ final' = (IF answer' = "ok" THEN Logical(projected) ELSE None)
        /\ UNCHANGED <<scope, cwd, target, parent, spelled, resource, public, moved>>
    BY DEF Inv, PathInv, AnswersOK, Keep, LogicalKeepTarget
  <1>2. path \in Paths /\ Canonical(path)
    BY <1>1, KeptPath
  <1>3. projected \in Paths \cup {None}
    BY <1>1, <1>2, ProjectedPath DEF Inv
  <1>4. /\ answer' \in {"ok", "InvalidPath", "ProviderContractViolation"}
        /\ answer' = "ok" => projected # None
        /\ final' \in LogicalPaths \cup {None}
    BY <1>1, <1>3, OutcomeOf
  <1>5. /\ Projected(kept)' = projected
        /\ Projected(resource.path)' = Projected(resource.path)
    BY <1>1 DEF Projected
  <1> HIDE DEF projected
  <1>6. TypeOK'
    BY <1>1, <1>2, <1>4 DEF Inv, TypeOK
  <1>7. SpelledOK' /\ ResourceOK'
    BY <1>1 DEF Inv, PathInv, SpelledOK, ResourceOK, Named
  <1>8. AnswersOK'
    <2>1. Answered(public, resource.path)'
      BY <1>1, <1>5 DEF Answered
    <2>2. (final # None => kept # None /\ Answered(final, kept))'
      BY <1>1, <1>2, <1>4, <1>5, ConstantsAssumption DEF Answered, projected
    <2> QED BY <1>1, <2>1, <2>2 DEF AnswersOK
  <1> QED BY <1>6, <1>7, <1>8 DEF Inv, PathInv

\* A link that is turned changes no path that was answered.
LEMMA RetargetInv ==
    ASSUME Inv, NEW d \in Dirs, Retarget(d)
    PROVE  Inv'
  <1>1. /\ target' = d /\ moved' = TRUE
        /\ UNCHANGED <<scope, cwd, stage, parent, spelled, resource, kept, public, final, answer>>
    BY DEF Retarget
  <1>2. TypeOK'
    BY <1>1 DEF Inv, TypeOK
  <1>3. SpelledOK' /\ ResourceOK'
    BY <1>1 DEF Inv, PathInv, SpelledOK, ResourceOK, Named
  <1>4. AnswersOK'
    BY <1>1 DEF Inv, PathInv, AnswersOK, Answered, Projected
  <1> QED BY <1>2, <1>3, <1>4 DEF Inv, PathInv

(***************************************************************************)
(* The theorems.                                                           *)
(***************************************************************************)

\* Whatever the engine generates and wherever the link is turned, every
\* variable keeps its type and the inductive invariant holds.
THEOREM PathCorrect == Spec => []Inv
  <1>1. Init => Inv
    <2> SUFFICES ASSUME Init PROVE Inv
      OBVIOUS
    <2>1. TypeOK
      BY DEF Init, TypeOK, Parents
    <2>2. SpelledOK /\ ResourceOK /\ AnswersOK
      BY DEF Init, SpelledOK, ResourceOK, AnswersOK
    <2> QED BY <2>1, <2>2 DEF Inv, PathInv
  <1>2. Inv /\ [Next]_vars => Inv'
    <2> SUFFICES ASSUME Inv, [Next]_vars PROVE Inv'
      OBVIOUS
    <2>1. CASE \E p \in Parents : Create(p)
      BY <2>1, CreateInv
    <2>2. CASE \E l \in Layouts, stray \in BOOLEAN : NativeCreate(l, stray)
      BY <2>2, NativeCreateInv
    <2>3. CASE EndCreate
      BY <2>3, EndCreateInv
    <2>4. CASE stage = "open" /\ \E path \in KeepPaths : Keep(path)
      BY <2>4, KeepInv
    <2>5. CASE \E d \in Dirs : Retarget(d)
      BY <2>5, RetargetInv
    <2>6. CASE UNCHANGED vars
      BY <2>6 DEF vars, Inv, TypeOK, PathInv, SpelledOK, ResourceOK, AnswersOK, Answered,
             Projected, Named
    <2> QED BY <2>1, <2>2, <2>3, <2>4, <2>5, <2>6 DEF Next
  <1> QED BY <1>1, <1>2, PTL DEF Spec

\* Every variable keeps its type.
THEOREM TypeCorrect == Spec => []TypeOK
  <1>1. Inv => TypeOK
    BY DEF Inv
  <1> QED BY <1>1, PathCorrect, PTL

\* Answered paths lie below the parent as the caller spelled it and lead to the
\* resource while the link stands, and a path elsewhere is never translated
\* (LocalTempPathProjection::project, create_temp_file, keep).
THEOREM PathsCorrect == Spec => []PathsLeadToResource
  <1>1. Inv => PathsLeadToResource
    <2> SUFFICES ASSUME Inv, resource # None
                 PROVE  /\ Faithful(public, resource.path) /\ Faithful(final, kept)
                        /\ parent # None =>
                              /\ public # None => IsPrefix(resource.parent, resource.path)
                              /\ final # None => IsPrefix(resource.parent, kept)
      BY DEF PathsLeadToResource
    <2>1. TypeOK /\ SpelledOK /\ ResourceOK /\ AnswersOK
      BY DEF Inv, PathInv
    <2>2. public # None => Answered(public, resource.path) /\ resource.path \in Paths
      BY <2>1 DEF AnswersOK, TypeOK
    <2>3. final # None => Answered(final, kept) /\ kept \in Paths
      <3>1. final # None => Answered(final, kept) /\ kept # None
        BY <2>1 DEF AnswersOK
      <3> QED BY <2>1, <3>1 DEF TypeOK
    <2>4. public # None =>
             Faithful(public, resource.path) /\ (parent # None => IsPrefix(resource.parent, resource.path))
      BY <2>1, <2>2, AnsweredFaithful
    <2>5. final # None => Faithful(final, kept) /\ (parent # None => IsPrefix(resource.parent, kept))
      BY <2>1, <2>3, AnsweredFaithful
    <2>6. Faithful(None, resource.path) /\ Faithful(None, kept)
      BY DEF Faithful
    <2> QED BY <2>4, <2>5, <2>6
  <1> QED BY <1>1, PathCorrect, PTL

\* A resource kept where it was created keeps the path it was given (keep,
\* logical_keep_target).
THEOREM KeepCorrect == Spec => []KeepAgrees
  <1>1. Inv => KeepAgrees
    BY DEF Inv, PathInv, AnswersOK, Answered, KeepAgrees
  <1> QED BY <1>1, PathCorrect, PTL
=============================================================================
