-------------------------- MODULE AssetStore_proof --------------------------
(* Proofs about AssetStore: its types; the bounds that hold however requests  *)
(* interleave (groups, quota); and what holds for a user who waits for each   *)
(* operation and its tasks to end, whatever the others do (rows and copies,   *)
(* the charged storage, the tree of groups).                                  *)
EXTENDS AssetStore, FiniteSetTheorems, WellFoundedInduction, TLAPS

\* The sums of the community modules are a recursive function on the subsets
\* of a set that takes out one element after the other.
First(s) == CHOOSE x \in s : TRUE

SumsOn(s, f) ==
  f = [t \in SUBSET s |-> IF t = {} THEN 0 ELSE Size[First(t)] + f[t \ {First(t)}]]

LEMMA SizeOfUnfolded ==
  ASSUME NEW s
  PROVE  SizeOf(s) = (CHOOSE f : SumsOn(s, f))[s]
BY Zenon DEF SizeOf, SumFunctionOnSet, FoldFunctionOnSet, MapThenFoldSet, SumsOn, First

LEMMA FirstIn == ASSUME NEW s, s # {} PROVE First(s) \in s
BY DEF First

LEMMA SubsetsWellFounded ==
  ASSUME NEW s, IsFiniteSet(s), NEW B \in SUBSET (SUBSET s), B # {}
  PROVE  \E t \in B : \A r \in B : r \subseteq t => r = t
<1>1. IsWellFoundedOn(StrictSubsetOrdering(s), SUBSET s)
  BY FS_StrictSubsetOrderingWellFounded, FS_FiniteSubsetsOfFinite
<1>2. PICK t \in B : \A r \in B : <<r, t>> \notin StrictSubsetOrdering(s)
  BY <1>1, WFMin
<1>3. QED
  BY <1>2 DEF StrictSubsetOrdering

LEMMA SumsOnUnique ==
  ASSUME NEW s, IsFiniteSet(s), NEW f, SumsOn(s, f), NEW t \in SUBSET s, NEW g, SumsOn(t, g)
  PROVE  \A r \in SUBSET t : f[r] = g[r]
<1> DEFINE B == {r \in SUBSET t : f[r] # g[r]}
<1> SUFFICES ASSUME B # {} PROVE FALSE
  OBVIOUS
<1>1. IsFiniteSet(t)
  BY FS_Subset
<1>2. PICK r \in B : \A q \in B : q \subseteq r => q = r
  <2>1. B \in SUBSET (SUBSET t)
    OBVIOUS
  <2> HIDE DEF B
  <2> QED
    BY <1>1, <2>1, SubsetsWellFounded
<1>3. CASE r = {}
  BY <1>2, <1>3 DEF SumsOn
<1>4. CASE r # {}
  <2>1. First(r) \in r /\ r \ {First(r)} \in SUBSET t /\ r \ {First(r)} # r
    BY <1>2, <1>4, FirstIn
  <2>2. f[r \ {First(r)}] = g[r \ {First(r)}]
    BY <1>2, <2>1
  <2>3. f[r] = Size[First(r)] + f[r \ {First(r)}] /\ g[r] = Size[First(r)] + g[r \ {First(r)}]
    <3>1. r \in SUBSET s /\ r \in SUBSET t
      BY <1>2
    <3>2. QED
      BY <1>4, <3>1, Zenon DEF SumsOn
  <2>4. QED
    BY <1>2, <2>2, <2>3
<1>5. QED
  BY <1>3, <1>4

LEMMA SumsOnExists ==
  ASSUME NEW s, IsFiniteSet(s)
  PROVE  \E f : SumsOn(s, f)
<1> DEFINE B == {t \in SUBSET s : ~ \E f : SumsOn(t, f)}
<1> SUFFICES ASSUME B # {} PROVE FALSE
  OBVIOUS
<1>1. PICK t \in B : \A q \in B : q \subseteq t => q = t
  <2>1. B \in SUBSET (SUBSET s)
    OBVIOUS
  <2> HIDE DEF B
  <2> QED
    BY <2>1, SubsetsWellFounded
<1>2. t \in SUBSET s /\ IsFiniteSet(t)
  BY <1>1, FS_Subset
<1> DEFINE F(r) == CHOOSE f : SumsOn(r, f)
<1>3. \A r \in SUBSET t : r # t => SumsOn(r, F(r))
  <2> TAKE r \in SUBSET t
  <2> HAVE r # t
  <2>1. \E f : SumsOn(r, f)
    BY <1>1, <1>2
  <2>2. QED
    BY <2>1, Zenon
<1> DEFINE G == [r \in SUBSET t |->
                   IF r = {} THEN 0
                   ELSE Size[First(r)] + F(r \ {First(r)})[r \ {First(r)}]]
<1>4. \A r \in SUBSET t : r # t => G[r] = F(r)[r]
  <2> TAKE r \in SUBSET t
  <2> HAVE r # t
  <2>0. SumsOn(r, F(r))
    BY <1>3
  <2>1. CASE r = {}
    <3>1. F(r)[r] = 0
      BY <2>0, <2>1, Zenon DEF SumsOn
    <3>2. QED
      BY <3>1, <2>1, Zenon
  <2>2. CASE r # {}
    <3> DEFINE q == r \ {First(r)}
    <3>1. q \in SUBSET r /\ q \in SUBSET t /\ q # t /\ IsFiniteSet(r)
      BY <2>2, FirstIn, <1>2, FS_Subset
    <3>2. SumsOn(q, F(q))
      BY <1>3, <3>1
    <3>3. F(r)[q] = F(q)[q]
      <4> HIDE DEF F, q
      <4>1. q \in SUBSET q
        OBVIOUS
      <4>2. QED
        BY <2>0, <3>1, <3>2, <4>1, SumsOnUnique
    <3>4. F(r)[r] = Size[First(r)] + F(r)[q]
      <4> HIDE DEF F
      <4>1. r \in SUBSET r
        OBVIOUS
      <4>2. QED
        BY <2>0, <2>2, <4>1, Zenon DEF SumsOn
    <3>5. G[r] = Size[First(r)] + F(q)[q]
      <4> HIDE DEF F
      <4> QED BY <2>2, Zenon
    <3> QED
      BY <3>3, <3>4, <3>5, Zenon
  <2> QED
    BY <2>1, <2>2
<1>5. SumsOn(t, G)
  <2>1. \A r \in SUBSET t : r # {} => r \ {First(r)} \in SUBSET t /\ r \ {First(r)} # t
    BY FirstIn
  <2>2. \A r \in SUBSET t : r # {} => F(r \ {First(r)})[r \ {First(r)}] = G[r \ {First(r)}]
    BY <1>4, <2>1
  <2> HIDE DEF F
  <2>3. G = [r \in SUBSET t |-> IF r = {} THEN 0 ELSE Size[First(r)] + G[r \ {First(r)}]]
    BY <2>2, Zenon
  <2> QED
    BY <2>3 DEF SumsOn
<1> QED
  BY <1>1, <1>5

LEMMA SizeOfEmpty == SizeOf({}) = 0
<1>1. IsFiniteSet({})
  BY FS_EmptySet
<1>2. SumsOn({}, CHOOSE f : SumsOn({}, f))
  BY <1>1, SumsOnExists, Zenon
<1>3. QED
  BY <1>2, SizeOfUnfolded DEF SumsOn

LEMMA SizeOfStep ==
  ASSUME NEW s, IsFiniteSet(s), s # {}
  PROVE  SizeOf(s) = Size[First(s)] + SizeOf(s \ {First(s)})
<1> DEFINE r == s \ {First(s)}
           f == CHOOSE h : SumsOn(s, h)
           g == CHOOSE h : SumsOn(r, h)
<1>1. r \in SUBSET s /\ IsFiniteSet(r)
  BY FS_Subset
<1>2. SumsOn(s, f)
  BY SumsOnExists, Zenon
<1>3. SumsOn(r, g)
  <2> HIDE DEF r
  <2> QED
    BY <1>1, SumsOnExists, Zenon
<1>4. f[r] = g[r]
  <2> HIDE DEF f, g, r
  <2> QED
    BY <1>1, <1>2, <1>3, SumsOnUnique
<1>5. f[s] = Size[First(s)] + f[r]
  <2> HIDE DEF f
  <2>1. s \in SUBSET s
    OBVIOUS
  <2> QED
    BY <1>2, <2>1, Zenon DEF SumsOn
<1>6. SizeOf(s) = f[s] /\ SizeOf(r) = g[r]
  BY SizeOfUnfolded
<1>7. QED
  BY <1>4, <1>5, <1>6

LEMMA HashesFinite == \A s \in SUBSET Hashes : IsFiniteSet(s)
BY FilesAssumption, FS_Subset

LEMMA SmallestHashes ==
  ASSUME NEW B \in SUBSET (SUBSET Hashes), B # {}
  PROVE  \E t \in B : \A r \in B : r \subseteq t => r = t
BY FilesAssumption, SubsetsWellFounded

LEMMA SizeOfNat == \A s \in SUBSET Hashes : SizeOf(s) \in Nat
<1> DEFINE B == {s \in SUBSET Hashes : SizeOf(s) \notin Nat}
<1> SUFFICES ASSUME B # {} PROVE FALSE
  OBVIOUS
<1>1. PICK s \in B : \A q \in B : q \subseteq s => q = s
  <2>1. B \in SUBSET (SUBSET Hashes)
    OBVIOUS
  <2> HIDE DEF B
  <2> QED
    BY <2>1, SmallestHashes
<1>2. CASE s = {}
  BY <1>1, <1>2, SizeOfEmpty
<1>3. CASE s # {}
  <2>1. First(s) \in s /\ s \ {First(s)} # s
    BY <1>3, FirstIn
  <2>2. SizeOf(s \ {First(s)}) \in Nat
    BY <1>1, <2>1
  <2>3. Size[First(s)] \in Nat
    BY <1>1, <2>1, FilesAssumption
  <2>4. SizeOf(s) = Size[First(s)] + SizeOf(s \ {First(s)})
    BY <1>1, <1>3, HashesFinite, SizeOfStep
  <2>5. SizeOf(s) \in Nat
    BY <2>2, <2>3, <2>4
  <2>6. QED
    BY <1>1, <2>5
<1>4. QED
  BY <1>2, <1>3

LEMMA SizeOfAdd ==
  ASSUME NEW s \in SUBSET Hashes, NEW x \in Hashes \ s
  PROVE  SizeOf(s \cup {x}) = SizeOf(s) + Size[x]
<1> DEFINE Wrong(t, y) == SizeOf(t \cup {y}) # SizeOf(t) + Size[y]
           B == {t \in SUBSET Hashes : \E y \in Hashes \ t : Wrong(t, y)}
<1> SUFFICES ASSUME B # {} PROVE FALSE
  OBVIOUS
<1>1. PICK t \in B : \A q \in B : q \subseteq t => q = t
  <2>1. B \in SUBSET (SUBSET Hashes)
    OBVIOUS
  <2> HIDE DEF B
  <2> QED
    BY <2>1, SmallestHashes
<1>2. PICK y \in Hashes \ t : SizeOf(t \cup {y}) # SizeOf(t) + Size[y]
  BY <1>1
<1> DEFINE c == First(t \cup {y})
<1>3. c \in t \cup {y}
  BY FirstIn
<1>4. SizeOf(t \cup {y}) = Size[c] + SizeOf((t \cup {y}) \ {c})
  <2>1. IsFiniteSet(t \cup {y}) /\ t \cup {y} # {}
    BY <1>1, HashesFinite
  <2>2. QED
    BY <2>1, SizeOfStep
<1>5. Size[y] \in Nat /\ SizeOf(t) \in Nat
  BY <1>1, <1>2, FilesAssumption, SizeOfNat
<1>6. CASE c = y
  <2>1. (t \cup {y}) \ {c} = t
    BY <1>2, <1>6
  <2>2. SizeOf(t \cup {y}) = Size[y] + SizeOf(t)
    BY <1>4, <1>6, <2>1
  <2> HIDE DEF c
  <2>3. QED
    BY <1>2, <1>5, <2>2
<1>7. CASE c # y
  <2> DEFINE r == t \ {c}
  <2>1. c \in t /\ r \in SUBSET Hashes /\ r # t /\ r \subseteq t /\ y \in Hashes \ r /\ c \in Hashes \ r
    BY <1>1, <1>2, <1>3, <1>7
  <2>2. (t \cup {y}) \ {c} = r \cup {y} /\ t = r \cup {c}
    BY <1>2, <1>7, <2>1
  <2>3. ~ \E z \in Hashes \ r : Wrong(r, z)
    BY <1>1, <2>1
  <2>4. SizeOf(r \cup {y}) = SizeOf(r) + Size[y]
    BY <2>1, <2>3
  <2>5. SizeOf(r \cup {c}) = SizeOf(r) + Size[c]
    BY <2>1, <2>3
  <2>6. Size[c] \in Nat /\ SizeOf(r) \in Nat
    BY <2>1, FilesAssumption, SizeOfNat
  <2> HIDE DEF c, r
  <2>7. QED
    BY <1>2, <1>4, <1>5, <2>2, <2>4, <2>5, <2>6
<1>8. QED
  BY <1>6, <1>7

\* Two sets of files that have none in common.
LEMMA SizeOfUnion ==
  ASSUME NEW s \in SUBSET Hashes, NEW t \in SUBSET Hashes, s \cap t = {}
  PROVE  SizeOf(s \cup t) = SizeOf(s) + SizeOf(t)
<1> DEFINE Right(r) == SizeOf(s \cup r) = SizeOf(s) + SizeOf(r)
           B == {r \in SUBSET Hashes : r \cap s = {} /\ ~ Right(r)}
<1> SUFFICES ASSUME B # {} PROVE FALSE
  OBVIOUS
<1>1. PICK r \in B : \A q \in B : q \subseteq r => q = r
  <2>1. B \in SUBSET (SUBSET Hashes)
    OBVIOUS
  <2> HIDE DEF B
  <2> QED
    BY <2>1, SmallestHashes
<1>2. CASE r = {}
  <2>1. s \cup r = s
    BY <1>2
  <2>2. Right(r)
    BY <1>2, <2>1, SizeOfEmpty, SizeOfNat
  <2>3. QED
    BY <1>1, <2>2
<1>3. CASE r # {}
  <2>1. PICK x \in r : TRUE
    BY <1>3
  <2> DEFINE q == r \ {x}
  <2>2. q \in SUBSET Hashes /\ q # r /\ q \cap s = {} /\ q \subseteq r
    BY <1>1, <2>1
  <2>3. Right(q)
    BY <1>1, <2>2
  <2>4. x \in Hashes \ q /\ x \in Hashes \ (s \cup q) /\ s \cup q \in SUBSET Hashes
    BY <1>1, <2>1, <2>2
  <2>5. q \cup {x} = r /\ (s \cup q) \cup {x} = s \cup r
    BY <2>1
  <2> HIDE DEF q
  <2>6. SizeOf(r) = SizeOf(q) + Size[x] /\ SizeOf(s \cup r) = SizeOf(s \cup q) + Size[x]
    BY <2>2, <2>4, <2>5, SizeOfAdd
  <2>7. SizeOf(q) \in Nat /\ SizeOf(s) \in Nat /\ Size[x] \in Nat
    BY <2>2, <2>4, SizeOfNat, FilesAssumption
  <2>8. Right(r)
    BY <2>3, <2>6, <2>7
  <2>9. QED
    BY <1>1, <2>8
<1>4. QED
  BY <1>2, <1>3

-----------------------------------------------------------------------------
(* Types *)

\* What stands in a request at each of its positions.
LEMMA RequestAt ==
  ASSUME TypeOK, NEW w \in Workers
  PROVE  /\ req[w].at \in {"create", "look", "add"} => req[w] \in UploadReq
         /\ req[w].at = "only" => req[w] \in DeleteReq
         /\ req[w].at \in {"drop", "spin"} => req[w] \in DropReq
         /\ req[w].at = "insert" => req[w] \in CreateReq
         /\ req[w].at \in {"walk", "move"} => req[w] \in MoveReq
         /\ req[w].at = "idle" => req[w] = Idle
BY DEF TypeOK, Requests, Idle, UploadReq, DeleteReq, DropReq, CreateReq, MoveReq

LEMMA RequestSet ==
  ASSUME TypeOK, NEW w \in Workers, NEW r \in Requests, req' = [req EXCEPT ![w] = r]
  PROVE  req' \in [Workers -> Requests]
BY DEF TypeOK

LEMMA AnswerType ==
  ASSUME TypeOK, NEW w \in Workers, Answer(w)
  PROVE  req' \in [Workers -> Requests]
BY DEF TypeOK, Answer, Requests

LEMMA LoadType ==
  ASSUME TypeOK
  PROVE  /\ load.hashes \subseteq Hashes
         /\ load.areas \subseteq Areas
         /\ load.lastGroup \in 0 .. MaxGroup
         /\ load.requests \in Nat
         /\ 1 .. load.lastGroup \subseteq Groups
         /\ 0 .. load.lastGroup \subseteq GroupIds
BY FilesAssumption DEF TypeOK, Workload, Groups, GroupIds, Root

LEMMA GroupsType ==
  /\ IsFiniteSet(Groups) /\ Groups \subseteq GroupIds /\ Root \in GroupIds
  /\ Groups \subseteq Nat \ {0} /\ GroupIds \subseteq Nat
BY FilesAssumption, FS_Interval DEF Groups, GroupIds, Root

LEMMA ArrivesType ==
  ASSUME TypeOK, NEW w \in Workers, NEW u \in Users, NEW kind, Arrives(w, u, kind)
  PROVE  sent' \in Nat /\ load' \in Workload /\ overlap' \subseteq Users /\ fault' \in BOOLEAN
BY DEF TypeOK, Arrives

LEMMA TypeInit == Init => TypeOK
<1> SUFFICES ASSUME Init PROVE TypeOK
  OBVIOUS
<1>1. load \in Workload /\ load.hashes \subseteq Hashes /\ load.areas \subseteq Areas
  BY WorkloadAssumption DEF Init, Workload
<1>2. rows \subseteq Users \X Hashes
  BY <1>1 DEF Init
<1>3. nextId \in 0 .. MaxGroup
  BY <1>1, FilesAssumption DEF Init, Workload
<1>4. live \in [Users -> SUBSET Groups]
  BY <1>3, FilesAssumption DEF Init, Groups
<1>5. group \in [Users \X Hashes -> GroupIds] /\ \A k \in Users \X Hashes : k \notin rows => group[k] = Root
  BY DEF Init
<1>6. copies \in [Users \X Hashes -> SUBSET Areas]
  BY <1>1 DEF Init
<1>7. used \in [Users -> Int]
  <2>1. \A u \in Users : FilesOf(u) \in SUBSET Hashes
    BY DEF FilesOf
  <2>2. \A u \in Users : SizeOf(FilesOf(u)) \in Int
    BY <2>1, SizeOfNat
  <2>3. QED
    BY <2>2 DEF Init
<1>8. req \in [Workers -> Requests]
  BY DEF Init, Requests
<1>9. /\ parent \in [Groups -> GroupIds] /\ held \subseteq Hashes \X Areas
      /\ tasks \subseteq FileTask \cup GroupTask
      /\ sent \in Nat /\ overlap \subseteq Users /\ fault \in BOOLEAN
  BY DEF Init
<1>10. QED
  BY <1>1, <1>2, <1>3, <1>4, <1>5, <1>6, <1>7, <1>8, <1>9 DEF TypeOK

LEMMA TypeStartUpload ==
  ASSUME TypeOK, NEW w \in Workers, NEW u \in Users, NEW h \in Hashes, NEW first \in Areas,
         NEW missing \in SUBSET Areas, NEW g \in GroupIds, NEW at \in {"create", "look", "add"},
         StartUpload(w, u, h, first, missing, g, at)
  PROVE  req' \in [Workers -> Requests]
<1>1. [at |-> at, u |-> u, h |-> h, g |-> g, first |-> first, missing |-> missing,
       fresh |-> FALSE] \in Requests
  BY DEF UploadReq, Requests
<1>2. QED
  BY <1>1 DEF StartUpload, TypeOK

\* The steps of an upload.
LEMMA TypeUpload ==
  ASSUME TypeOK, NEW w \in Workers,
         \/ \E u \in Users, h \in load.hashes, asked \in SUBSET load.areas,
                first \in load.areas, g \in 0 .. load.lastGroup :
              CreateAsset(w, u, h, asked, first, g) \/ CreateAssetPost(w, u, h, asked, first, g)
         \/ SchedulerCreate(w) \/ LookForAsset(w) \/ AddAsset(w)
  PROVE  TypeOK'
<1>1. ASSUME NEW u \in Users, NEW h \in load.hashes, NEW asked \in SUBSET load.areas,
             NEW first \in load.areas, NEW g \in 0 .. load.lastGroup,
             CreateAsset(w, u, h, asked, first, g) \/ CreateAssetPost(w, u, h, asked, first, g)
      PROVE  TypeOK'
  <2>1. h \in Hashes /\ asked \subseteq Areas /\ first \in Areas /\ g \in GroupIds
    BY LoadType
  <2>2. req' \in [Workers -> Requests]
    <3>1. CASE CreateAsset(w, u, h, asked, first, g)
      <4>1. NotExistsAids(u, h, asked) \in SUBSET Areas
        BY <2>1 DEF NotExistsAids
      <4>2. QED
        BY <2>1, <3>1, <4>1, TypeStartUpload DEF CreateAsset
    <3>2. CASE CreateAssetPost(w, u, h, asked, first, g)
      <4>1. PICK removed \in SUBSET RemovedFrom(h, asked), at \in {"create", "look"} :
              StartUpload(w, u, h, first, NotExistsAids(u, h, asked) \cup removed, g, at)
        BY <3>2 DEF CreateAssetPost
      <4>2. NotExistsAids(u, h, asked) \cup removed \in SUBSET Areas
        BY <2>1 DEF NotExistsAids, RemovedFrom
      <4>3. QED
        BY <2>1, <4>1, <4>2, TypeStartUpload
    <3>3. QED
      BY <1>1, <3>1, <3>2
  <2>3. Arrives(w, u, "upload") /\ UNCHANGED <<fileVars, groupVars, held, tasks>>
    BY <1>1 DEF CreateAsset, CreateAssetPost
  <2>4. QED
    BY <2>2, <2>3, ArrivesType DEF TypeOK, fileVars, groupVars
<1>2. CASE SchedulerCreate(w)
  <2>1. req[w] \in UploadReq
    BY <1>2, RequestAt DEF SchedulerCreate, At
  <2>2. CASE Goto(w, "look")
    <3>1. [req[w] EXCEPT !.at = "look"] \in Requests
      BY <2>1 DEF UploadReq, Requests
    <3>2. req' = [req EXCEPT ![w] = [req[w] EXCEPT !.at = "look"]]
      BY <2>2 DEF Goto, TypeOK
    <3>3. QED
      BY <1>2, <2>1, <3>1, <3>2, RequestSet DEF SchedulerCreate, TypeOK, UploadReq, fileVars, groupVars, history
  <2>3. CASE Answer(w)
    BY <1>2, <2>1, <2>3, AnswerType DEF SchedulerCreate, TypeOK, UploadReq, fileVars, groupVars, history
  <2>4. QED
    BY <1>2, <2>2, <2>3 DEF SchedulerCreate
<1>3. CASE LookForAsset(w)
  <2>1. req[w] \in UploadReq
    BY <1>3, RequestAt DEF LookForAsset, At
  <2> DEFINE r == [req[w] EXCEPT !.at = "add", !.fresh = (<<req[w].u, req[w].h>> \notin rows)]
  <2>2. r \in Requests
    BY <2>1 DEF UploadReq, Requests
  <2>3. req' = [req EXCEPT ![w] = r]
    BY <1>3 DEF LookForAsset, TypeOK
  <2> HIDE DEF r
  <2>4. QED
    BY <1>3, <2>2, <2>3, RequestSet DEF LookForAsset, TypeOK, fileVars, groupVars, history
<1>4. CASE AddAsset(w)
  <2> DEFINE r == req[w]
  <2>1. r \in UploadReq
    BY <1>4, RequestAt DEF AddAsset, At
  <2>2. r.u \in Users /\ r.h \in Hashes /\ r.g \in GroupIds /\ r.missing \cup {r.first} \subseteq Areas
    BY <2>1 DEF UploadReq
  <2>3. /\ rows' \subseteq Users \X Hashes
        /\ group' \in [Users \X Hashes -> GroupIds]
        /\ \A k \in Users \X Hashes : k \notin rows' => group'[k] = Root
        /\ copies' \in [Users \X Hashes -> SUBSET Areas]
        /\ used' \in [Users -> Int]
    <3>1. CASE UNCHANGED fileVars
      BY <3>1 DEF fileVars, TypeOK
    <3>2. CASE AddAssetAndUpdateSize(r.u, r.h, r.g, r.missing \cup {r.first}, r.fresh)
      <4> HIDE DEF r
      <4>1. rows' \subseteq Users \X Hashes /\ <<r.u, r.h>> \in Users \X Hashes
        BY <2>2, <3>2 DEF AddAssetAndUpdateSize, TypeOK
      <4>2. group' \in [Users \X Hashes -> GroupIds]
        BY <2>2, <3>2, <4>1 DEF AddAssetAndUpdateSize, TypeOK
      <4>3. \A k \in Users \X Hashes : k \notin rows' => group'[k] = Root
        BY <2>2, <3>2, <4>1 DEF AddAssetAndUpdateSize, TypeOK
      <4>4. copies' \in [Users \X Hashes -> SUBSET Areas]
        BY <2>2, <3>2, <4>1 DEF AddAssetAndUpdateSize, TypeOK
      <4>5. used' \in [Users -> Int]
        BY <2>2, <3>2, FilesAssumption DEF AddAssetAndUpdateSize, TypeOK
      <4>6. QED
        BY <4>1, <4>2, <4>3, <4>4, <4>5
    <3>3. QED
      BY <1>4, <3>1, <3>2 DEF AddAsset
  <2>4. QED
    BY <1>4, <2>3, AnswerType DEF AddAsset, TypeOK, groupVars, history
<1>5. QED
  BY <1>1, <1>2, <1>3, <1>4

LEMMA MaxOfTwo ==
  ASSUME NEW x \in Int, NEW y \in Int
  PROVE  Max({x, y}) = IF x >= y THEN x ELSE y
<1> DEFINE m == IF x >= y THEN x ELSE y
<1>1. m \in {x, y} /\ \A z \in {x, y} : m >= z
  OBVIOUS
<1>2. \A n \in {x, y} : (\A z \in {x, y} : n >= z) => n = m
  OBVIOUS
<1> HIDE DEF m
<1>3. Max({x, y}) = m
  BY <1>1, <1>2 DEF Max
<1>4. QED
  BY <1>3 DEF m

\* The steps of a deletion.
LEMMA TypeDelete ==
  ASSUME TypeOK, NEW w \in Workers,
         \/ \E u \in Users, h \in load.hashes, asked \in SUBSET load.areas :
              DeleteAsset(w, u, h, asked)
         \/ DeleteArea(w) \/ EraseAsset(w)
  PROVE  TypeOK'
<1>1. ASSUME NEW u \in Users, NEW h \in load.hashes, NEW asked \in SUBSET load.areas,
             DeleteAsset(w, u, h, asked)
      PROVE  TypeOK'
  <2> DEFINE areas == Deleted(u, h, asked)
             r == [at |-> "only", u |-> u, h |-> h, areas |-> areas, todo |-> areas,
                   whole |-> areas = copies[<<u, h>>]]
  <2>1. h \in Hashes /\ asked \subseteq Areas
    BY LoadType
  <2>2. areas \in SUBSET Areas
    BY <2>1 DEF Deleted, TypeOK
  <2>3. r \in Requests
    <3> HIDE DEF areas
    <3> QED BY <2>1, <2>2 DEF DeleteReq, Requests
  <2>4. req' \in [Workers -> Requests]
    <3>1. req' = req \/ req' = [req EXCEPT ![w] = r]
      BY <1>1 DEF DeleteAsset
    <3> HIDE DEF r
    <3>2. QED
      BY <2>3, <3>1 DEF TypeOK
  <2>5. QED
    BY <1>1, <2>4, ArrivesType DEF DeleteAsset, TypeOK, fileVars, groupVars
<1>2. CASE DeleteArea(w)
  <2>1. req[w] \in DeleteReq
    BY <1>2, RequestAt DEF DeleteArea, At
  <2>2. PICK a \in req[w].todo :
          /\ req' = [req EXCEPT ![w].todo = @ \ {a}]
          /\ \/ /\ Enqueue([kind |-> "file", id |-> sent, h |-> req[w].h, a |-> a])
                /\ UNCHANGED fault
             \/ UNCHANGED <<tasks, fault>>
             \/ Swallowed
    BY <1>2 DEF DeleteArea
  <2>3. req' \in [Workers -> Requests]
    <3> DEFINE r == [req[w] EXCEPT !.todo = @ \ {a}]
    <3>1. r \in Requests
      BY <2>1 DEF DeleteReq, Requests
    <3>2. req' = [req EXCEPT ![w] = r]
      BY <2>2 DEF TypeOK
    <3> HIDE DEF r
    <3>3. QED
      BY <3>1, <3>2, RequestSet
  <2>4. [kind |-> "file", id |-> sent, h |-> req[w].h, a |-> a] \in FileTask
    BY <2>1, <2>2 DEF DeleteReq, FileTask, TypeOK
  <2>5. tasks' \subseteq FileTask \cup GroupTask /\ fault' \in BOOLEAN
    BY <2>2, <2>4 DEF Enqueue, Swallowed, Fault, TypeOK
  <2>6. QED
    BY <1>2, <2>3, <2>5 DEF DeleteArea, TypeOK, fileVars, groupVars
<1>3. CASE EraseAsset(w)
  <2> DEFINE r == req[w]
  <2>1. r \in DeleteReq
    BY <1>3, RequestAt DEF EraseAsset, At
  <2>2. r.u \in Users /\ r.h \in Hashes
    BY <2>1 DEF DeleteReq
  <2>3. /\ rows' \subseteq Users \X Hashes
        /\ group' \in [Users \X Hashes -> GroupIds]
        /\ \A k \in Users \X Hashes : k \notin rows' => group'[k] = Root
        /\ copies' \in [Users \X Hashes -> SUBSET Areas]
        /\ used' \in [Users -> Int]
    <3>1. CASE UNCHANGED fileVars
      BY <3>1 DEF fileVars, TypeOK
    <3>2. ASSUME NEW exec \in SUBSET r.areas, NEW whole,
                 DelAssetAndUpdateSize(r.u, r.h, exec, whole)
          PROVE  /\ rows' \subseteq Users \X Hashes
                 /\ group' \in [Users \X Hashes -> GroupIds]
                 /\ \A k \in Users \X Hashes : k \notin rows' => group'[k] = Root
                 /\ copies' \in [Users \X Hashes -> SUBSET Areas]
                 /\ used' \in [Users -> Int]
      <4> HIDE DEF r
      <4>1. rows' \subseteq Users \X Hashes /\ <<r.u, r.h>> \in Users \X Hashes
        BY <2>2, <3>2 DEF DelAssetAndUpdateSize, TypeOK
      <4>2. group' \in [Users \X Hashes -> GroupIds]
        BY <2>2, <3>2, <4>1, GroupsType DEF DelAssetAndUpdateSize, TypeOK
      <4>3. \A k \in Users \X Hashes : k \notin rows' => group'[k] = Root
        BY <2>2, <3>2, <4>1 DEF DelAssetAndUpdateSize, TypeOK
      <4>4. copies' \in [Users \X Hashes -> SUBSET Areas]
        BY <2>2, <3>2, <4>1 DEF DelAssetAndUpdateSize, TypeOK
      <4>5. used' \in [Users -> Int]
        <5>0. used[r.u] - Size[r.h] \in Int
          BY <2>2, FilesAssumption DEF TypeOK
        <5>1. Max({used[r.u] - Size[r.h], 0}) \in Int
          BY <5>0, MaxOfTwo
        <5>2. QED
          BY <2>2, <3>2, <5>1 DEF DelAssetAndUpdateSize, TypeOK
      <4>6. QED
        BY <4>1, <4>2, <4>3, <4>4, <4>5
    <3>3. PICK exec \in SUBSET r.areas :
            \/ UNCHANGED fileVars
            \/ DelAssetAndUpdateSize(r.u, r.h, exec, r.whole /\ exec = r.areas)
      BY <1>3 DEF EraseAsset
    <3>4. QED
      BY <3>1, <3>2, <3>3
  <2>4. QED
    BY <1>3, <2>3, AnswerType DEF EraseAsset, TypeOK, groupVars, history
<1>4. QED
  BY <1>1, <1>2, <1>3

\* The requests about groups.
LEMMA TypeGroups ==
  ASSUME TypeOK, NEW w \in Workers,
         \/ \E u \in Users, g \in 1 .. load.lastGroup : DropGroup(w, u, g)
         \/ DeleteGroup(w)
         \/ \E u \in Users, g \in 0 .. load.lastGroup : CreateGroup(w, u, g)
         \/ InsertGroup(w)
         \/ \E u \in Users, g \in 1 .. load.lastGroup, t \in 0 .. load.lastGroup :
              MoveGroup(w, u, g, t)
         \/ WalkUp(w) \/ UpdateParent(w)
         \/ \E u \in Users, h \in load.hashes, g \in 0 .. load.lastGroup : MoveAsset(w, u, h, g)
  PROVE  TypeOK'
<1>1. ASSUME NEW u \in Users, NEW g \in 1 .. load.lastGroup, DropGroup(w, u, g)
      PROVE  TypeOK'
  <2> DEFINE hs == {h \in FilesOf(u) : group[<<u, h>>] \in Subtree(u, g)}
             r == [at |-> IF Level(u, g)[MaxGroup] = {} THEN "drop" ELSE "spin",
                   u |-> u, g |-> g, size |-> SizeOf(hs)]
  <2>1. g \in Groups
    BY LoadType
  <2>2. SizeOf(hs) \in Nat
    <3>1. hs \in SUBSET Hashes
      BY DEF FilesOf
    <3> HIDE DEF hs
    <3>2. QED
      BY <3>1, SizeOfNat
  <2>3. r \in Requests
    <3> HIDE DEF hs
    <3> QED BY <2>1, <2>2 DEF DropReq, Requests
  <2>4. req' = [req EXCEPT ![w] = r]
    BY <1>1 DEF DropGroup
  <2> HIDE DEF r
  <2>5. QED
    BY <1>1, <2>3, <2>4, ArrivesType, RequestSet DEF DropGroup, TypeOK, fileVars, groupVars
<1>2. CASE DeleteGroup(w)
  <2>1. req[w] \in DropReq
    BY <1>2, RequestAt DEF DeleteGroup, At
  <2>2. req[w].u \in Users /\ req[w].g \in Groups /\ req[w].size \in Nat
    BY <2>1 DEF DropReq
  <2>3. live' \in [Users -> SUBSET Groups] /\ used' \in [Users -> Int]
    BY <1>2, <2>2 DEF DeleteGroup, DeleteGroupRow, TypeOK
  <2>4. NewGroupTask(req[w].u, {req[w].g}) \in GroupTask
    BY <2>2 DEF NewGroupTask, GroupTask, TypeOK
  <2>5. tasks' \subseteq FileTask \cup GroupTask /\ fault' \in BOOLEAN
    BY <1>2, <2>4 DEF DeleteGroup, Enqueue, Swallowed, Fault, TypeOK
  <2>6. QED
    BY <1>2, <2>3, <2>5, AnswerType DEF DeleteGroup, TypeOK
<1>3. ASSUME NEW u \in Users, NEW g \in 0 .. load.lastGroup, CreateGroup(w, u, g)
      PROVE  TypeOK'
  <2>1. [at |-> "insert", u |-> u, g |-> g] \in Requests
    BY LoadType DEF CreateReq, Requests
  <2>2. req' = req \/ req' = [req EXCEPT ![w] = [at |-> "insert", u |-> u, g |-> g]]
    BY <1>3 DEF CreateGroup
  <2>3. req' \in [Workers -> Requests]
    BY <2>1, <2>2 DEF TypeOK
  <2>4. QED
    BY <1>3, <2>3, ArrivesType DEF CreateGroup, TypeOK, fileVars, groupVars
<1>4. CASE InsertGroup(w)
  <2>1. req[w] \in CreateReq
    BY <1>4, RequestAt DEF InsertGroup, At
  <2>2. req[w].u \in Users /\ req[w].g \in GroupIds
    BY <2>1 DEF CreateReq
  <2>3. nextId' \in 0 .. MaxGroup /\ nextId' \in Groups
    BY <1>4, FilesAssumption DEF InsertGroup, TypeOK, Groups
  <2>4. live' \in [Users -> SUBSET Groups] /\ parent' \in [Groups -> GroupIds]
    BY <1>4, <2>2, <2>3 DEF InsertGroup, TypeOK
  <2>5. QED
    BY <1>4, <2>3, <2>4, AnswerType DEF InsertGroup, TypeOK, fileVars, history
<1>5. ASSUME NEW u \in Users, NEW g \in 1 .. load.lastGroup, NEW t \in 0 .. load.lastGroup,
             MoveGroup(w, u, g, t)
      PROVE  TypeOK'
  <2> DEFINE r == [at |-> IF t = Root THEN "move" ELSE "walk", u |-> u, g |-> g, t |-> t, up |-> t]
  <2>1. r \in Requests
    BY LoadType DEF MoveReq, Requests
  <2>2. req' = req \/ req' = [req EXCEPT ![w] = r]
    BY <1>5 DEF MoveGroup
  <2> HIDE DEF r
  <2>3. req' \in [Workers -> Requests]
    BY <2>1, <2>2 DEF TypeOK
  <2>4. QED
    BY <1>5, <2>3, ArrivesType DEF MoveGroup, TypeOK, fileVars, groupVars
<1>6. CASE WalkUp(w)
  <2>1. req[w] \in MoveReq
    BY <1>6, RequestAt DEF WalkUp, At
  <2>2. req' \in [Workers -> Requests]
    <3>1. CASE Answer(w)
      BY <3>1, AnswerType
    <3>2. CASE Goto(w, "move")
      <4>1. [req[w] EXCEPT !.at = "move"] \in Requests
        BY <2>1 DEF MoveReq, Requests
      <4>2. req' = [req EXCEPT ![w] = [req[w] EXCEPT !.at = "move"]]
        BY <3>2 DEF Goto, TypeOK
      <4>3. QED
        BY <4>1, <4>2, RequestSet
    <3>3. CASE req[w].up \in AllGroups /\ req' = [req EXCEPT ![w].up = parent[req[w].up]]
      <4>1. req[w].up \in Groups
        BY <3>3 DEF AllGroups, TypeOK
      <4>2. parent[req[w].up] \in GroupIds
        BY <4>1 DEF TypeOK
      <4>3. [req[w] EXCEPT !.up = parent[req[w].up]] \in Requests
        BY <2>1, <4>2 DEF MoveReq, Requests
      <4>4. req' = [req EXCEPT ![w] = [req[w] EXCEPT !.up = parent[req[w].up]]]
        BY <3>3 DEF TypeOK
      <4>5. QED
        BY <4>3, <4>4, RequestSet
    <3>4. QED
      BY <1>6, <3>1, <3>2, <3>3 DEF WalkUp
  <2>3. QED
    BY <1>6, <2>2 DEF WalkUp, TypeOK, fileVars, groupVars, history
<1>7. CASE UpdateParent(w)
  <2>1. req[w] \in MoveReq
    BY <1>7, RequestAt DEF UpdateParent, At
  <2>2. parent' \in [Groups -> GroupIds]
    BY <1>7, <2>1 DEF UpdateParent, TypeOK, MoveReq
  <2>3. QED
    BY <1>7, <2>2, AnswerType DEF UpdateParent, TypeOK, fileVars, history
<1>8. ASSUME NEW u \in Users, NEW h \in load.hashes, NEW g \in 0 .. load.lastGroup,
             MoveAsset(w, u, h, g)
      PROVE  TypeOK'
  <2>1. h \in Hashes /\ g \in GroupIds
    BY LoadType
  <2>2. group' \in [Users \X Hashes -> GroupIds]
    BY <1>8, <2>1 DEF MoveAsset, TypeOK
  <2>3. \A k \in Users \X Hashes : k \notin rows' => group'[k] = Root
    BY <1>8, <2>1 DEF MoveAsset, TypeOK
  <2>4. QED
    BY <1>8, <2>2, <2>3, ArrivesType DEF MoveAsset, TypeOK, groupVars
<1>9. QED
  BY <1>1, <1>2, <1>3, <1>4, <1>5, <1>6, <1>7, <1>8

\* The tasks of the queue.
LEMMA GroupTaskAt ==
  ASSUME TypeOK, NEW t \in tasks, t.kind = "group"
  PROVE  t \in GroupTask /\ t.u \in Users /\ t.at \subseteq Groups
BY DEF TypeOK, FileTask, GroupTask

LEMMA TypeTasks ==
  ASSUME TypeOK, NEW t \in tasks,
         RemoveFile(t) \/ JobStep(t) \/ LevelFails(t) \/ JobFails(t)
  PROVE  TypeOK'
<1>1. CASE RemoveFile(t)
  <2>1. held' \subseteq Hashes \X Areas /\ fault' \in BOOLEAN /\ tasks' \subseteq FileTask \cup GroupTask
    BY <1>1 DEF RemoveFile, Fault, TypeOK
  <2>2. QED
    BY <1>1, <2>1 DEF RemoveFile, TypeOK, fileVars, groupVars
<1>2. CASE DeleteLevel(t)
  <2>1. t \in GroupTask /\ t.u \in Users
    BY <1>2, GroupTaskAt DEF DeleteLevel
  <2>2. [t EXCEPT !.step = "only"] \in GroupTask
    BY <2>1 DEF GroupTask
  <2>3. /\ rows' \subseteq Users \X Hashes
        /\ group' \in [Users \X Hashes -> GroupIds]
        /\ \A k \in Users \X Hashes : k \notin rows' => group'[k] = Root
        /\ copies' \in [Users \X Hashes -> SUBSET Areas]
        /\ live' \in [Users -> SUBSET Groups]
    BY <1>2, <2>1, GroupsType DEF DeleteLevel, DeleteUserGroupAsset, TypeOK
  <2>4. QED
    BY <1>2, <2>2, <2>3 DEF DeleteLevel, Become, TypeOK, history
<1>3. CASE FindOnly(t)
  <2>1. t \in GroupTask
    BY <1>3, GroupTaskAt DEF FindOnly
  <2> DEFINE only == OnlyAssets(t.u, t.at)
             new == [t EXCEPT !.step = IF only = {} THEN "next" ELSE "remove", !.doomed = only]
  <2>2. only \subseteq Hashes \X Areas
    BY DEF OnlyAssets, InGroups, FilesOf
  <2>3. new \in GroupTask
    <3> HIDE DEF only
    <3> QED BY <2>1, <2>2 DEF GroupTask
  <2>4. tasks' = (tasks \ {t}) \cup {new}
    BY <1>3 DEF FindOnly, Become
  <2> HIDE DEF new
  <2>5. QED
    BY <1>3, <2>3, <2>4 DEF FindOnly, TypeOK, fileVars, groupVars, history
<1>4. CASE RemoveOnly(t)
  <2>1. t \in GroupTask
    BY <1>4, GroupTaskAt DEF RemoveOnly
  <2>2. [t EXCEPT !.step = "next", !.doomed = {}] \in GroupTask
    BY <2>1 DEF GroupTask
  <2>3. held' \subseteq Hashes \X Areas
    BY <1>4 DEF RemoveOnly, TypeOK
  <2>4. QED
    BY <1>4, <2>2, <2>3 DEF RemoveOnly, Become, TypeOK, fileVars, groupVars, history
<1>5. CASE NextLevel(t)
  <2>1. t \in GroupTask
    BY <1>5, GroupTaskAt DEF NextLevel
  <2> DEFINE below == Children(t.u, t.at)
             new == [t EXCEPT !.at = below, !.step = "rows"]
  <2>2. below \subseteq Groups
    BY <2>1 DEF Children, TypeOK, GroupTask
  <2>3. new \in GroupTask
    <3> HIDE DEF below
    <3> QED BY <2>1, <2>2 DEF GroupTask
  <2>4. tasks' \subseteq (tasks \ {t}) \cup {new}
    BY <1>5 DEF NextLevel, Become
  <2> HIDE DEF new
  <2>5. QED
    BY <1>5, <2>3, <2>4 DEF NextLevel, TypeOK, fileVars, groupVars, history
<1>6. CASE LevelFails(t)
  <2>1. t \in GroupTask
    BY <1>6, GroupTaskAt DEF LevelFails
  <2>2. [t EXCEPT !.step = "next"] \in GroupTask /\ [t EXCEPT !.from = t.at] \in GroupTask
    BY <2>1 DEF GroupTask
  <2>3. QED
    BY <1>6, <2>2 DEF LevelFails, Become, TypeOK, fileVars, groupVars, history
<1>7. CASE JobFails(t)
  <2>1. t \in GroupTask
    BY <1>7, GroupTaskAt DEF JobFails
  <2>2. [t EXCEPT !.at = t.from, !.step = "rows", !.doomed = {}] \in GroupTask
    BY <2>1 DEF GroupTask
  <2>3. QED
    BY <1>7, <2>2 DEF JobFails, Become, Fault, TypeOK, fileVars, groupVars, history
<1>8. QED
  BY <1>1, <1>2, <1>3, <1>4, <1>5, <1>6, <1>7 DEF JobStep

LEMMA TypeNext == TypeOK /\ [Next]_vars => TypeOK'
<1> SUFFICES ASSUME TypeOK, [Next]_vars PROVE TypeOK'
  OBVIOUS
<1>1. CASE UNCHANGED vars
  BY <1>1 DEF vars, fileVars, groupVars, history, TypeOK
<1>2. ASSUME NEW w \in Workers, Handlers(w) PROVE TypeOK'
  BY <1>2, TypeUpload, TypeDelete, TypeGroups DEF Handlers
<1>3. ASSUME NEW t \in tasks, RemoveFile(t) \/ JobStep(t) \/ LevelFails(t) \/ JobFails(t)
      PROVE  TypeOK'
  BY <1>3, TypeTasks
<1>4. QED
  BY <1>1, <1>2, <1>3 DEF Next

\* Type correctness: the tables, the queue and the requests under way keep
\* their types, for any users, files, areas and numbers of groups.
THEOREM TypeCorrect == Spec => []TypeOK
<1>1. Init => TypeOK
  BY TypeInit
<1>2. TypeOK /\ [Next]_vars => TypeOK'
  BY TypeNext
<1>3. QED
  BY <1>1, <1>2, PTL DEF Spec

-----------------------------------------------------------------------------
(* The limits of the groups and of the quota *)

\* Requests that have seen room for one more group, or for a file.
Creating(u) == {w \in Workers : At(w, "insert") /\ req[w].u = u}
Uploading(u) == {w \in Workers : req[w].at \in {"create", "look", "add"} /\ req[w].u = u}

\* Each of those requests may still insert its group.
GroupsInv ==
  \A u \in Users :
    Cardinality(live[u]) + Cardinality(Creating(u)) <= GroupLimit + Cardinality(Workers) - 1

\* What is kept for some requests, if each of them adds the largest file.
Reserve(ws) == Cardinality(ws) * MaxSize

\* One of the requests under way has seen room for its own file when the
\* others were not yet charged.
QuotaInv ==
  \A u \in Users \ Tenants :
    \/ Uploading(u) = {} /\ used[u] + MaxSize <= Total[u] + Reserve(Workers)
    \/ \E w \in Uploading(u) :
         used[u] + Size[req[w].h] + Reserve(Uploading(u) \ {w}) + MaxSize
           <= Total[u] + Reserve(Workers)

\* A handler leaves the requests of the other workers alone.
LEMMA OwnRequest ==
  ASSUME TypeOK, NEW w \in Workers, Handlers(w)
  PROVE  \A v \in Workers \ {w} : req'[v] = req[v]
<1>1. ASSUME NEW r, req' = [req EXCEPT ![w] = r] PROVE \A v \in Workers \ {w} : req'[v] = req[v]
  BY <1>1 DEF TypeOK
<1>2. CASE req' = req
  BY <1>2
<1>3. CASE \E at : Goto(w, at)
  BY <1>3 DEF Goto, TypeOK
<1>4. CASE Answer(w)
  BY <1>4 DEF Answer, TypeOK
<1>5. ASSUME NEW u \in Users, NEW h \in load.hashes, NEW asked \in SUBSET load.areas,
             NEW first \in load.areas, NEW g \in 0 .. load.lastGroup,
             CreateAsset(w, u, h, asked, first, g) \/ CreateAssetPost(w, u, h, asked, first, g)
      PROVE  \A v \in Workers \ {w} : req'[v] = req[v]
  <2>1. PICK missing, at : StartUpload(w, u, h, first, missing, g, at)
    BY <1>5 DEF CreateAsset, CreateAssetPost
  <2>2. QED
    BY <2>1, <1>1, <1>2 DEF StartUpload
<1>6. CASE SchedulerCreate(w) \/ AddAsset(w) \/ EraseAsset(w) \/ DeleteGroup(w) \/ InsertGroup(w) \/ UpdateParent(w)
  BY <1>3, <1>4, <1>6
  DEF SchedulerCreate, AddAsset, EraseAsset, DeleteGroup, InsertGroup, UpdateParent
<1>7. CASE LookForAsset(w)
  BY <1>7 DEF LookForAsset, TypeOK
<1>8. CASE \E u \in Users, h \in load.hashes, asked \in SUBSET load.areas : DeleteAsset(w, u, h, asked)
  BY <1>8, <1>1, <1>2 DEF DeleteAsset
<1>9. CASE DeleteArea(w)
  BY <1>9 DEF DeleteArea, TypeOK
<1>10. CASE \E u \in Users, g \in 1 .. load.lastGroup : DropGroup(w, u, g)
  BY <1>10, <1>1 DEF DropGroup
<1>11. CASE \E u \in Users, g \in 0 .. load.lastGroup : CreateGroup(w, u, g)
  BY <1>11, <1>1, <1>2 DEF CreateGroup
<1>12. CASE \E u \in Users, g \in 1 .. load.lastGroup, t \in 0 .. load.lastGroup : MoveGroup(w, u, g, t)
  BY <1>12, <1>1, <1>2 DEF MoveGroup
<1>13. CASE WalkUp(w)
  BY <1>13, <1>3, <1>4 DEF WalkUp, TypeOK
<1>14. CASE \E u \in Users, h \in load.hashes, g \in 0 .. load.lastGroup : MoveAsset(w, u, h, g)
  BY <1>14, <1>2 DEF MoveAsset
<1>15. QED
  BY <1>5, <1>6, <1>7, <1>8, <1>9, <1>10, <1>11, <1>12, <1>13, <1>14 DEF Handlers

\* Only CreateGroup starts to create a group, and only InsertGroup adds one.
LEMMA GroupEffect ==
  ASSUME TypeOK, NEW w \in Workers, Handlers(w), NEW u \in Users
  PROVE  \/ live'[u] \subseteq live[u] /\ (w \in Creating(u)' => w \in Creating(u))
         \/ live'[u] = live[u] /\ Cardinality(live[u]) < GroupLimit
         \/ /\ w \in Creating(u) /\ w \notin Creating(u)'
            /\ \E n \in Groups : live'[u] = live[u] \cup {n}
<1> DEFINE Kept == live'[u] \subseteq live[u] /\ (w \in Creating(u)' => w \in Creating(u))
<1>1. ASSUME live' = live, req' = req \/ req'[w].at # "insert" PROVE Kept
  BY <1>1 DEF Creating, At
<1>2. ASSUME Answer(w) PROVE req'[w].at # "insert"
  BY <1>2 DEF Answer, Idle, TypeOK
<1>3. ASSUME NEW at, Goto(w, at), req[w] \in UploadReq \cup MoveReq PROVE req'[w].at = at
  BY <1>3 DEF Goto, TypeOK, UploadReq, MoveReq
<1>4. CASE \E v \in Users, h \in load.hashes, asked \in SUBSET load.areas,
              first \in load.areas, g \in 0 .. load.lastGroup :
            CreateAsset(w, v, h, asked, first, g) \/ CreateAssetPost(w, v, h, asked, first, g)
  <2>1. PICK v \in Users, h \in load.hashes, asked \in SUBSET load.areas,
             first \in load.areas, g \in 0 .. load.lastGroup :
          CreateAsset(w, v, h, asked, first, g) \/ CreateAssetPost(w, v, h, asked, first, g)
    BY <1>4
  <2>2. req' = req \/ req'[w].at # "insert"
    <3>1. \E missing : \E at \in {"create", "look"} : StartUpload(w, v, h, first, missing, g, at)
      BY <2>1 DEF CreateAsset, CreateAssetPost
    <3>2. QED
      BY <3>1 DEF StartUpload, TypeOK
  <2>3. live' = live
    BY <1>4 DEF CreateAsset, CreateAssetPost, groupVars
  <2>4. QED
    BY <2>2, <2>3, <1>1
<1>5. CASE SchedulerCreate(w)
  BY <1>1, <1>2, <1>3, <1>5, RequestAt DEF SchedulerCreate, At, groupVars
<1>6. CASE AddAsset(w) \/ EraseAsset(w) \/ UpdateParent(w)
  BY <1>1, <1>2, <1>6 DEF AddAsset, EraseAsset, UpdateParent, groupVars
<1>7. CASE LookForAsset(w)
  <2>1. req'[w].at = "add" /\ live' = live
    BY <1>7, RequestAt DEF LookForAsset, TypeOK, At, UploadReq, groupVars
  <2>2. QED
    BY <2>1, <1>1
<1>8. CASE \E v \in Users, h \in load.hashes, asked \in SUBSET load.areas : DeleteAsset(w, v, h, asked)
  <2>1. live' = live /\ (req' = req \/ req'[w].at = "only")
    BY <1>8 DEF DeleteAsset, TypeOK, groupVars
  <2>2. QED
    BY <2>1, <1>1
<1>9. CASE DeleteArea(w)
  <2>1. live' = live /\ req'[w].at = "only"
    BY <1>9, RequestAt DEF DeleteArea, TypeOK, At, DeleteReq, groupVars
  <2>2. QED
    BY <2>1, <1>1
<1>10. CASE \E v \in Users, g \in 1 .. load.lastGroup : DropGroup(w, v, g)
  <2>1. live' = live /\ req'[w].at # "insert"
    BY <1>10 DEF DropGroup, TypeOK, groupVars
  <2>2. QED
    BY <2>1, <1>1
<1>11. CASE DeleteGroup(w)
  <2>1. live'[u] \subseteq live[u]
    BY <1>11, RequestAt DEF DeleteGroup, DeleteGroupRow, At, DropReq, TypeOK
  <2>2. req'[w].at # "insert"
    BY <1>11, <1>2 DEF DeleteGroup
  <2>3. QED
    BY <2>1, <2>2 DEF Creating, At
<1>12. ASSUME NEW v \in Users, NEW g \in 0 .. load.lastGroup, CreateGroup(w, v, g)
       PROVE  Kept \/ (live'[u] = live[u] /\ Cardinality(live[u]) < GroupLimit)
  <2>1. live' = live
    BY <1>12 DEF CreateGroup, groupVars
  <2>2. CASE req' = req
    BY <1>1, <2>1, <2>2
  <2>3. CASE req' = [req EXCEPT ![w] = [at |-> "insert", u |-> v, g |-> g]] /\ Cardinality(live[v]) < GroupLimit
    <3>1. CASE u = v
      BY <2>1, <2>3, <3>1
    <3>2. CASE u # v
      BY <2>1, <2>3, <3>2 DEF Creating, TypeOK
    <3>3. QED
      BY <3>1, <3>2
  <2>4. QED
    BY <1>12, <2>2, <2>3 DEF CreateGroup
<1>13. CASE InsertGroup(w)
  <2>1. req[w] \in CreateReq /\ At(w, "insert")
    BY <1>13, RequestAt DEF InsertGroup, At
  <2>2. req'[w].at # "insert"
    BY <1>13, <1>2 DEF InsertGroup
  <2>3. CASE u = req[w].u
    <3>1. w \in Creating(u) /\ w \notin Creating(u)'
      BY <2>1, <2>2, <2>3 DEF Creating, At
    <3>2. live'[u] = live[u] \cup {nextId'} /\ nextId' \in Groups
      BY <1>13, <2>3, FilesAssumption DEF InsertGroup, TypeOK, Groups
    <3>3. QED
      BY <3>1, <3>2
  <2>4. CASE u # req[w].u
    <3>1. live'[u] = live[u]
      BY <1>13, <2>4 DEF InsertGroup, TypeOK
    <3>2. QED
      BY <2>2, <3>1 DEF Creating, At
  <2>5. QED
    BY <2>3, <2>4
<1>14. CASE \E v \in Users, g \in 1 .. load.lastGroup, t \in 0 .. load.lastGroup : MoveGroup(w, v, g, t)
  <2>1. live' = live /\ (req' = req \/ req'[w].at # "insert")
    BY <1>14 DEF MoveGroup, TypeOK, groupVars
  <2>2. QED
    BY <2>1, <1>1
<1>15. CASE WalkUp(w)
  <2>1. req[w] \in MoveReq /\ req[w].at = "walk"
    BY <1>15, RequestAt DEF WalkUp, At
  <2>2. req'[w].at # "insert"
    BY <1>15, <1>2, <1>3, <2>1 DEF WalkUp, TypeOK, MoveReq
  <2>3. QED
    BY <1>15, <2>2, <1>1 DEF WalkUp, groupVars
<1>16. CASE \E v \in Users, h \in load.hashes, g \in 0 .. load.lastGroup : MoveAsset(w, v, h, g)
  BY <1>16, <1>1 DEF MoveAsset, groupVars
<1>17. QED
  BY <1>4, <1>5, <1>6, <1>7, <1>8, <1>9, <1>10, <1>11, <1>12, <1>13, <1>14, <1>15, <1>16 DEF Handlers

LEMMA JobsLeaveRequests ==
  ASSUME TypeOK, NEW t \in tasks, RemoveFile(t) \/ JobStep(t) \/ LevelFails(t) \/ JobFails(t)
  PROVE  /\ req' = req /\ used' = used
         /\ \A u \in Users : live'[u] \subseteq live[u]
<1>1. req' = req /\ used' = used
  BY DEF RemoveFile, JobStep, DeleteLevel, FindOnly, RemoveOnly, NextLevel, LevelFails, JobFails,
         fileVars, groupVars
<1>2. CASE DeleteLevel(t)
  BY <1>1, <1>2 DEF DeleteLevel, DeleteUserGroupAsset, TypeOK
<1>3. CASE ~ DeleteLevel(t)
  BY <1>1, <1>3 DEF RemoveFile, JobStep, FindOnly, RemoveOnly, NextLevel, LevelFails, JobFails,
         fileVars, groupVars
<1>4. QED
  BY <1>1, <1>2, <1>3

LEMMA GroupSetsFinite ==
  ASSUME TypeOK, NEW u \in Users
  PROVE  /\ IsFiniteSet(live[u]) /\ Cardinality(live[u]) \in Nat
         /\ IsFiniteSet(Creating(u)) /\ Cardinality(Creating(u)) \in Nat
         /\ Cardinality(Creating(u)) <= Cardinality(Workers)
         /\ Cardinality(Workers) \in Nat \ {0}
<1>1. live[u] \subseteq Groups /\ Creating(u) \subseteq Workers
  BY DEF TypeOK, Creating
<1>2. Cardinality(Workers) \in Nat /\ Cardinality(Workers) # 0
  BY FilesAssumption, FS_CardinalityType, FS_EmptySet
<1>3. QED
  BY <1>1, <1>2, FilesAssumption, GroupsType, FS_Subset, FS_CardinalityType

LEMMA GroupsInvInit == Init => GroupsInv
<1> SUFFICES ASSUME Init, NEW u \in Users
             PROVE  Cardinality(live[u]) + Cardinality(Creating(u)) <= GroupLimit + Cardinality(Workers) - 1
  BY DEF GroupsInv
<1>1. TypeOK
  BY TypeInit
<1>2. Creating(u) = {}
  BY DEF Init, Creating, At, Idle
<1>3. Cardinality(live[u]) <= GroupLimit
  BY DEF Init
<1>4. QED
  BY <1>1, <1>2, <1>3, GroupSetsFinite, FilesAssumption, FS_EmptySet

LEMMA GroupsInvNext == TypeOK /\ TypeOK' /\ GroupsInv /\ [Next]_vars => GroupsInv'
<1> SUFFICES ASSUME TypeOK, TypeOK', GroupsInv, [Next]_vars, NEW u \in Users
             PROVE  Cardinality(live'[u]) + Cardinality(Creating(u)') <= GroupLimit + Cardinality(Workers) - 1
  BY DEF GroupsInv
<1>1. Cardinality(live[u]) + Cardinality(Creating(u)) <= GroupLimit + Cardinality(Workers) - 1
  BY DEF GroupsInv
<1>2. /\ IsFiniteSet(live[u]) /\ Cardinality(live[u]) \in Nat
      /\ IsFiniteSet(Creating(u)) /\ Cardinality(Creating(u)) \in Nat
      /\ Cardinality(Workers) \in Nat
  BY GroupSetsFinite
<1>3. /\ IsFiniteSet(live'[u]) /\ Cardinality(live'[u]) \in Nat
      /\ IsFiniteSet(Creating(u)') /\ Cardinality(Creating(u)') \in Nat
      /\ Cardinality(Creating(u)') <= Cardinality(Workers)
  <2>1. live'[u] \subseteq Groups /\ Creating(u)' \subseteq Workers
    BY DEF TypeOK, Creating
  <2>2. QED
    BY <1>2, <2>1, FilesAssumption, GroupsType, FS_Subset, FS_CardinalityType
<1>4. ASSUME live'[u] \subseteq live[u], Creating(u)' \subseteq Creating(u)
      PROVE  Cardinality(live'[u]) + Cardinality(Creating(u)') <= GroupLimit + Cardinality(Workers) - 1
  <2>1. Cardinality(live'[u]) <= Cardinality(live[u]) /\ Cardinality(Creating(u)') <= Cardinality(Creating(u))
    BY <1>2, <1>4, FS_Subset
  <2>2. QED
    BY <1>1, <1>2, <1>3, <2>1, FilesAssumption
<1>5. CASE UNCHANGED vars
  BY <1>4, <1>5 DEF vars, groupVars, Creating, At
<1>6. ASSUME NEW t \in tasks, RemoveFile(t) \/ JobStep(t) \/ LevelFails(t) \/ JobFails(t)
      PROVE  Cardinality(live'[u]) + Cardinality(Creating(u)') <= GroupLimit + Cardinality(Workers) - 1
  BY <1>4, <1>6, JobsLeaveRequests DEF Creating, At
<1>7. ASSUME NEW w \in Workers, Handlers(w)
      PROVE  Cardinality(live'[u]) + Cardinality(Creating(u)') <= GroupLimit + Cardinality(Workers) - 1
  <2>1. \A v \in Workers \ {w} : req'[v] = req[v]
    BY <1>7, OwnRequest
  <2>2. \A v \in Workers \ {w} : v \in Creating(u)' <=> v \in Creating(u)
    BY <2>1 DEF Creating, At
  <2>3. CASE live'[u] \subseteq live[u] /\ (w \in Creating(u)' => w \in Creating(u))
    <3>1. Creating(u)' \subseteq Workers
      BY DEF Creating
    <3>2. Creating(u)' \subseteq Creating(u)
      BY <2>2, <2>3, <3>1
    <3>3. QED
      BY <1>4, <2>3, <3>2
  <2>4. CASE live'[u] = live[u] /\ Cardinality(live[u]) < GroupLimit
    BY <1>2, <1>3, <2>4, FilesAssumption
  <2>5. ASSUME w \in Creating(u), w \notin Creating(u)', NEW n \in Groups, live'[u] = live[u] \cup {n}
        PROVE  Cardinality(live'[u]) + Cardinality(Creating(u)') <= GroupLimit + Cardinality(Workers) - 1
    <3>1. Creating(u)' = Creating(u) \ {w}
      BY <2>2, <2>5 DEF Creating
    <3>2. Cardinality(Creating(u)') = Cardinality(Creating(u)) - 1
      BY <1>2, <2>5, <3>1, FS_RemoveElement
    <3>3. Cardinality(live'[u]) <= Cardinality(live[u]) + 1
      <4>1. Cardinality(live[u] \cup {n}) \in {Cardinality(live[u]), Cardinality(live[u]) + 1}
        BY <1>2, FS_AddElement
      <4>2. QED
        BY <1>2, <2>5, <4>1
    <3>4. QED
      BY <1>1, <1>2, <1>3, <3>2, <3>3, FilesAssumption
  <2>6. QED
    BY <1>7, <2>3, <2>4, <2>5, GroupEffect
<1>8. QED
  BY <1>5, <1>6, <1>7 DEF Next

\* The limit on groups is exceeded by at most one group for each other worker,
\* however the requests to create and delete groups overlap.
THEOREM GroupsAreBounded == Spec => []GroupsBounded
<1>1. Init => GroupsInv
  BY GroupsInvInit
<1>2. TypeOK /\ TypeOK' /\ GroupsInv /\ [Next]_vars => GroupsInv'
  BY GroupsInvNext
<1>3. TypeOK /\ GroupsInv => GroupsBounded
  <2> SUFFICES ASSUME TypeOK, GroupsInv, NEW u \in Users
               PROVE  Cardinality(live[u]) <= GroupLimit + Cardinality(Workers) - 1
    BY DEF GroupsBounded
  <2>1. Cardinality(live[u]) + Cardinality(Creating(u)) <= GroupLimit + Cardinality(Workers) - 1
    BY DEF GroupsInv
  <2>2. QED
    BY <2>1, GroupSetsFinite, FilesAssumption
<1>4. QED
  BY <1>1, <1>2, <1>3, TypeCorrect, PTL DEF Spec

\* A finite set of sizes has a largest.
LEMMA MaxSizeBounds == MaxSize \in Nat /\ \A h \in Hashes : Size[h] <= MaxSize
<1> DEFINE Sizes(hs) == {Size[h] : h \in hs} \cup {0}
           Bounded(hs) == \E m \in Sizes(hs) : \A n \in Sizes(hs) : m >= n
           B == {hs \in SUBSET Hashes : ~ Bounded(hs)}
<1>1. B = {}
  <2> SUFFICES ASSUME B # {} PROVE FALSE
    OBVIOUS
  <2>1. PICK hs \in B : \A q \in B : q \subseteq hs => q = hs
    <3>1. B \in SUBSET (SUBSET Hashes)
      OBVIOUS
    <3> HIDE DEF B
    <3> QED
      BY <3>1, SmallestHashes
  <2>2. CASE hs = {}
    BY <2>1, <2>2
  <2>3. CASE hs # {}
    <3>1. PICK h \in hs : TRUE
      BY <2>3
    <3>2. hs \ {h} \in SUBSET Hashes /\ hs \ {h} # hs /\ Size[h] \in Nat
      BY <2>1, <3>1, FilesAssumption
    <3>3. PICK m \in Sizes(hs \ {h}) : \A n \in Sizes(hs \ {h}) : m >= n
      BY <2>1, <3>2
    <3>4. m \in Nat /\ Sizes(hs \ {h}) \subseteq Nat
      BY <2>1, <3>3, FilesAssumption
    <3>5. Sizes(hs) = Sizes(hs \ {h}) \cup {Size[h]}
      BY <3>1
    <3> HIDE DEF Sizes
    <3>6. CASE m >= Size[h]
      <4>1. m \in Sizes(hs) /\ \A n \in Sizes(hs) : m >= n
        BY <3>3, <3>5, <3>6
      <4>2. QED
        BY <2>1, <4>1
    <3>7. CASE ~ (m >= Size[h])
      <4>0. ASSUME NEW n \in Sizes(hs \ {h}) PROVE Size[h] >= n
        <5>1. m >= n /\ n \in Nat
          BY <3>3, <3>4
        <5>2. QED
          BY <3>2, <3>4, <3>7, <5>1
      <4>1. Size[h] \in Sizes(hs) /\ \A n \in Sizes(hs) : Size[h] >= n
        BY <3>2, <3>5, <4>0
      <4>2. QED
        BY <2>1, <4>1
    <3>8. QED
      BY <3>6, <3>7
  <2>4. QED
    BY <2>2, <2>3
<1>2. \E m \in Sizes(Hashes) : \A n \in Sizes(Hashes) : m >= n
  <2>1. Bounded(Hashes)
    BY <1>1
  <2>2. QED
    BY <2>1
<1>3. MaxSize \in Sizes(Hashes) /\ \A n \in Sizes(Hashes) : MaxSize >= n
  <2>1. MaxSize = CHOOSE m \in Sizes(Hashes) : \A n \in Sizes(Hashes) : m >= n
    BY DEF MaxSize, Max
  <2> HIDE DEF Sizes
  <2>2. QED
    BY <1>2, <2>1
<1>4. Sizes(Hashes) \subseteq Nat
  BY FilesAssumption
<1>5. QED
  BY <1>3, <1>4

LEMMA ReserveFacts ==
  /\ Reserve({}) = 0
  /\ \A ws \in SUBSET Workers :
       /\ Reserve(ws) \in Nat
       /\ Reserve(ws) <= Reserve(Workers)
       /\ \A w \in ws : Reserve(ws) = Reserve(ws \ {w}) + MaxSize
<1>1. Cardinality({}) = 0
  BY FS_EmptySet
<1>2. ASSUME NEW ws \in SUBSET Workers
      PROVE  /\ Reserve(ws) \in Nat
             /\ Reserve(ws) <= Reserve(Workers)
             /\ \A w \in ws : Reserve(ws) = Reserve(ws \ {w}) + MaxSize
  <2>1. IsFiniteSet(ws) /\ Cardinality(ws) \in Nat /\ Cardinality(Workers) \in Nat
        /\ Cardinality(ws) <= Cardinality(Workers)
    BY FilesAssumption, FS_Subset, FS_CardinalityType
  <2>2. MaxSize \in Nat
    BY MaxSizeBounds
  <2>3. \A c, d, m \in Nat : c * m \in Nat /\ (c <= d => c * m <= d * m) /\ (c > 0 => c * m = (c - 1) * m + m)
    OBVIOUS
  <2>4. ASSUME NEW w \in ws PROVE Cardinality(ws \ {w}) = Cardinality(ws) - 1 /\ Cardinality(ws) > 0
    <3>1. Cardinality(ws \ {w}) = Cardinality(ws) - 1 /\ Cardinality(ws \ {w}) \in Nat
      BY <2>1, FS_RemoveElement, FS_CardinalityType
    <3>2. QED
      BY <2>1, <3>1
  <2>5. QED
    BY <2>1, <2>2, <2>3, <2>4 DEF Reserve
<1>3. QED
  BY <1>1, <1>2, MaxSizeBounds DEF Reserve

\* What a handler does to the uploads and the storage of a user with a quota.
\* An upload starts.
UploadStarts(w, u) ==
  /\ w \in Uploading(u)'
  /\ used'[u] = used[u]
  /\ req'[w].h \in Hashes /\ used[u] + Size[req'[w].h] <= Total[u]

\* An upload goes on.
UploadContinues(w, u) ==
  /\ w \in Uploading(u) /\ w \in Uploading(u)'
  /\ used'[u] = used[u]
  /\ req'[w].h = req[w].h

\* An upload ends; its file may have been added.
UploadEnds(w, u) ==
  /\ w \in Uploading(u) /\ w \notin Uploading(u)'
  /\ used'[u] \in {used[u], used[u] + Size[req[w].h]}

\* Something else.
NoUpload(w, u) ==
  /\ w \notin Uploading(u) /\ w \notin Uploading(u)'
  /\ used'[u] <= used[u] \/ used'[u] = 0

LEMMA UploadEffect ==
  ASSUME TypeOK, NEW w \in Workers, Handlers(w), NEW u \in Users \ Tenants
  PROVE  UploadStarts(w, u) \/ UploadContinues(w, u) \/ UploadEnds(w, u) \/ NoUpload(w, u)
<1>0. used[u] \in Int /\ req[w] \in Requests
  BY DEF TypeOK
<1>1. ASSUME used'[u] = used[u], req' = req
      PROVE  UploadContinues(w, u) \/ NoUpload(w, u)
  BY <1>0, <1>1 DEF UploadContinues, NoUpload, Uploading
<1>2. ASSUME At(w, "idle"), used'[u] = used[u], req'[w].at \notin {"create", "look", "add"}
      PROVE  NoUpload(w, u)
  BY <1>0, <1>2 DEF NoUpload, Uploading, At
<1>3. ASSUME req[w].at \notin {"create", "look", "add"}, req'[w].at \notin {"create", "look", "add"},
             used'[u] <= used[u] \/ used'[u] = 0
      PROVE  NoUpload(w, u)
  BY <1>3 DEF NoUpload, Uploading
<1>4. ASSUME Answer(w) PROVE req'[w].at = "idle"
  BY <1>4 DEF Answer, Idle, TypeOK
<1>5. ASSUME NEW v \in Users, NEW h \in load.hashes, NEW asked \in SUBSET load.areas,
             NEW first \in load.areas, NEW g \in 0 .. load.lastGroup,
             CreateAsset(w, v, h, asked, first, g) \/ CreateAssetPost(w, v, h, asked, first, g)
      PROVE  UploadStarts(w, u) \/ UploadContinues(w, u) \/ NoUpload(w, u)
  <2>1. \E missing : \E at \in {"create", "look"} : StartUpload(w, v, h, first, missing, g, at)
    BY <1>5 DEF CreateAsset, CreateAssetPost
  <2>2. used' = used /\ At(w, "idle")
    BY <1>5 DEF CreateAsset, CreateAssetPost, Arrives, fileVars
  <2>3. CASE req' = req
    BY <1>1, <2>2, <2>3
  <2>4. ASSUME NEW missing, NEW at \in {"create", "look"}, HasRoom(v, h),
               req' = [req EXCEPT ![w] = [at |-> at, u |-> v, h |-> h, g |-> g, first |-> first,
                                          missing |-> missing, fresh |-> FALSE]]
        PROVE  UploadStarts(w, u) \/ NoUpload(w, u)
    <3>1. req'[w].at = at /\ req'[w].u = v /\ req'[w].h = h /\ h \in Hashes
      BY <2>4, LoadType DEF TypeOK
    <3>2. CASE u = v
      <4>1. Total[u] - used[u] >= Size[h] /\ Total[u] \in Int /\ Size[h] \in Int
        BY <2>4, <3>1, <3>2, FilesAssumption DEF HasRoom
      <4>2. used[u] + Size[h] <= Total[u]
        BY <1>0, <4>1
      <4>3. QED
        BY <2>2, <3>1, <3>2, <4>2 DEF UploadStarts, Uploading
    <3>3. CASE u # v
      BY <1>0, <2>2, <3>1, <3>3 DEF NoUpload, Uploading, At
    <3>4. QED
      BY <3>2, <3>3
  <2>5. QED
    BY <2>1, <2>3, <2>4 DEF StartUpload
<1>6. CASE SchedulerCreate(w)
  <2>1. req[w] \in UploadReq /\ At(w, "create") /\ used' = used
    BY <1>6, RequestAt DEF SchedulerCreate, At, fileVars
  <2>2. CASE Goto(w, "look")
    <3>1. req'[w].at = "look" /\ req'[w].u = req[w].u /\ req'[w].h = req[w].h
      BY <2>1, <2>2 DEF Goto, TypeOK, UploadReq
    <3>2. QED
      BY <1>0, <2>1, <3>1 DEF UploadContinues, NoUpload, Uploading, At
  <2>3. CASE Answer(w)
    BY <1>0, <1>4, <2>1, <2>3 DEF UploadEnds, NoUpload, Uploading, At
  <2>4. QED
    BY <1>6, <2>2, <2>3 DEF SchedulerCreate
<1>7. CASE LookForAsset(w)
  <2>1. req[w] \in UploadReq /\ At(w, "look") /\ used' = used
    BY <1>7, RequestAt DEF LookForAsset, At, fileVars
  <2>2. req'[w].at = "add" /\ req'[w].u = req[w].u /\ req'[w].h = req[w].h
    BY <1>7, <2>1 DEF LookForAsset, TypeOK, UploadReq
  <2>3. QED
    BY <1>0, <2>1, <2>2 DEF UploadContinues, NoUpload, Uploading, At
<1>8. CASE AddAsset(w)
  <2>1. req[w] \in UploadReq /\ At(w, "add")
    BY <1>8, RequestAt DEF AddAsset, At
  <2>2. req'[w].at = "idle"
    BY <1>4, <1>8 DEF AddAsset
  <2>3. \/ used' = used
        \/ used' = [used EXCEPT ![req[w].u] = @ + Size[req[w].h]]
    BY <1>8 DEF AddAsset, AddAssetAndUpdateSize, fileVars
  <2>4. CASE u = req[w].u
    <3>1. used'[u] \in {used[u], used[u] + Size[req[w].h]}
      BY <2>3, <2>4 DEF TypeOK
    <3>2. QED
      BY <2>1, <2>2, <2>4, <3>1 DEF UploadEnds, Uploading, At
  <2>5. CASE u # req[w].u
    <3>1. used'[u] = used[u]
      BY <2>3, <2>5 DEF TypeOK
    <3>2. QED
      BY <1>0, <2>1, <2>2, <2>5, <3>1 DEF NoUpload, Uploading
  <2>6. QED
    BY <2>4, <2>5
<1>9. CASE \E v \in Users, h \in load.hashes, asked \in SUBSET load.areas : DeleteAsset(w, v, h, asked)
  <2>1. used' = used /\ At(w, "idle") /\ (req' = req \/ req'[w].at = "only")
    BY <1>9 DEF DeleteAsset, Arrives, TypeOK, fileVars
  <2>2. QED
    BY <2>1, <1>1, <1>2
<1>10. CASE DeleteArea(w)
  <2>1. used' = used /\ At(w, "only") /\ req'[w].at = "only"
    BY <1>10, RequestAt DEF DeleteArea, TypeOK, At, DeleteReq, fileVars
  <2>2. QED
    BY <1>0, <2>1, <1>3 DEF At
<1>11. CASE EraseAsset(w)
  <2>1. req[w] \in DeleteReq /\ At(w, "only")
    BY <1>11, RequestAt DEF EraseAsset, At
  <2>2. req'[w].at = "idle"
    BY <1>4, <1>11 DEF EraseAsset
  <2>3. \/ used' = used
        \/ used' = [used EXCEPT ![req[w].u] = Max({@ - Size[req[w].h], 0})]
    BY <1>11 DEF EraseAsset, DelAssetAndUpdateSize, fileVars
  <2>4. used'[u] <= used[u] \/ used'[u] = 0
    <3>1. CASE u = req[w].u
      <4>1. Size[req[w].h] \in Nat
        BY <2>1, FilesAssumption DEF DeleteReq
      <4>2. used[u] - Size[req[w].h] \in Int /\ used[u] - Size[req[w].h] <= used[u]
        BY <1>0, <4>1
      <4>3. Max({used[u] - Size[req[w].h], 0}) \in {used[u] - Size[req[w].h], 0}
        BY <4>2, MaxOfTwo
      <4>4. used'[u] \in {used[u], Max({used[u] - Size[req[w].h], 0})}
        BY <2>3, <3>1 DEF TypeOK
      <4>5. QED
        BY <1>0, <4>2, <4>3, <4>4
    <3>2. CASE u # req[w].u
      BY <1>0, <2>3, <3>2 DEF TypeOK
    <3>3. QED
      BY <3>1, <3>2
  <2>5. QED
    BY <2>1, <2>2, <2>4, <1>3 DEF At
<1>12. CASE \E v \in Users, g \in 1 .. load.lastGroup : DropGroup(w, v, g)
  <2>1. used' = used /\ At(w, "idle") /\ req'[w].at \in {"drop", "spin"}
    BY <1>12 DEF DropGroup, Arrives, TypeOK, fileVars
  <2>2. QED
    BY <2>1, <1>2
<1>13. CASE DeleteGroup(w)
  <2>1. req[w] \in DropReq /\ At(w, "drop")
    BY <1>13, RequestAt DEF DeleteGroup, At
  <2>2. req'[w].at = "idle"
    BY <1>4, <1>13 DEF DeleteGroup
  <2>3. used'[u] <= used[u]
    <3>1. req[w].size \in Nat
      BY <2>1 DEF DropReq
    <3>2. used' = [used EXCEPT ![req[w].u] = @ - req[w].size]
      BY <1>13 DEF DeleteGroup, DeleteGroupRow
    <3>3. QED
      BY <1>0, <3>1, <3>2 DEF TypeOK
  <2>4. QED
    BY <2>1, <2>2, <2>3, <1>3 DEF At
<1>14. CASE \E v \in Users, g \in 0 .. load.lastGroup : CreateGroup(w, v, g)
  <2>1. used' = used /\ At(w, "idle") /\ (req' = req \/ req'[w].at = "insert")
    BY <1>14 DEF CreateGroup, Arrives, TypeOK, fileVars
  <2>2. QED
    BY <2>1, <1>1, <1>2
<1>15. CASE InsertGroup(w) \/ UpdateParent(w)
  <2>1. used' = used /\ req[w].at \in {"insert", "move"} /\ req'[w].at = "idle"
    BY <1>4, <1>15 DEF InsertGroup, UpdateParent, At, fileVars
  <2>2. QED
    BY <1>0, <2>1, <1>3
<1>16. CASE \E v \in Users, g \in 1 .. load.lastGroup, t \in 0 .. load.lastGroup : MoveGroup(w, v, g, t)
  <2>1. used' = used /\ At(w, "idle") /\ (req' = req \/ req'[w].at \in {"move", "walk"})
    BY <1>16 DEF MoveGroup, Arrives, TypeOK, fileVars
  <2>2. QED
    BY <2>1, <1>1, <1>2
<1>17. CASE WalkUp(w)
  <2>1. req[w] \in MoveReq /\ req[w].at = "walk" /\ used' = used
    BY <1>17, RequestAt DEF WalkUp, At, fileVars
  <2>2. req'[w].at \in {"idle", "move", "walk"}
    BY <1>17, <1>4, <2>1 DEF WalkUp, Goto, TypeOK, MoveReq
  <2>3. QED
    BY <1>0, <2>1, <2>2, <1>3
<1>18. CASE \E v \in Users, h \in load.hashes, g \in 0 .. load.lastGroup : MoveAsset(w, v, h, g)
  <2>1. used' = used /\ req' = req
    BY <1>18 DEF MoveAsset
  <2>2. QED
    BY <2>1, <1>1
<1>19. QED
  BY <1>5, <1>6, <1>7, <1>8, <1>9, <1>10, <1>11, <1>12, <1>13, <1>14, <1>15, <1>16, <1>17, <1>18 DEF Handlers

LEMMA QuotaInvInit == Init => QuotaInv
<1> SUFFICES ASSUME Init, NEW u \in Users \ Tenants
             PROVE  Uploading(u) = {} /\ used[u] + MaxSize <= Total[u] + Reserve(Workers)
  BY DEF QuotaInv
<1>1. Uploading(u) = {}
  BY DEF Init, Uploading, Idle
<1>2. used[u] <= Total[u] /\ used[u] \in Int /\ Total[u] \in Int
  BY TypeInit, FilesAssumption DEF Init, TypeOK
<1>3. \E w \in Workers : Reserve(Workers) = Reserve(Workers \ {w}) + MaxSize /\ Reserve(Workers \ {w}) \in Nat
  BY FilesAssumption, ReserveFacts
<1>4. QED
  BY <1>1, <1>2, <1>3, MaxSizeBounds

LEMMA QuotaInvNext == TypeOK /\ TypeOK' /\ QuotaInv /\ [Next]_vars => QuotaInv'
<1> SUFFICES ASSUME TypeOK, TypeOK', QuotaInv, [Next]_vars, NEW u \in Users \ Tenants
             PROVE  \/ Uploading(u)' = {} /\ used'[u] + MaxSize <= Total[u] + Reserve(Workers)
                    \/ \E w \in Uploading(u)' :
                         used'[u] + Size[req'[w].h] + Reserve(Uploading(u)' \ {w}) + MaxSize
                           <= Total[u] + Reserve(Workers)
  BY DEF QuotaInv
<1> DEFINE P == Uploading(u)
           Q == Uploading(u)'
           Bound == Total[u] + Reserve(Workers)
           Goal == \/ Q = {} /\ used'[u] + MaxSize <= Bound
                   \/ \E w \in Q : used'[u] + Size[req'[w].h] + Reserve(Q \ {w}) + MaxSize <= Bound
<1>1. /\ used[u] \in Int /\ used'[u] \in Int /\ Total[u] \in Nat /\ MaxSize \in Nat
      /\ Reserve(Workers) \in Nat /\ Bound \in Nat
  BY FilesAssumption, MaxSizeBounds, ReserveFacts DEF TypeOK
<1>2. P \subseteq Workers /\ Q \subseteq Workers
  BY DEF Uploading
<1>3. \A w \in P : req[w].h \in Hashes /\ Size[req[w].h] \in Nat /\ Size[req[w].h] <= MaxSize
  <2> SUFFICES ASSUME NEW w \in P PROVE req[w].h \in Hashes
    BY FilesAssumption, MaxSizeBounds
  <2>1. req[w] \in UploadReq
    BY RequestAt DEF Uploading
  <2>2. QED
    BY <2>1 DEF UploadReq
<1>4. \/ P = {} /\ used[u] + MaxSize <= Bound
      \/ \E w \in P : used[u] + Size[req[w].h] + Reserve(P \ {w}) + MaxSize <= Bound
  BY DEF QuotaInv
<1>5. \A ws \in SUBSET Workers : Reserve(ws) \in Nat
  BY ReserveFacts
<1>6. ASSUME \A w \in Workers : req'[w] = req[w], used'[u] = used[u] PROVE Goal
  <2>1. Q = P
    BY <1>6 DEF Uploading
  <2> HIDE DEF P, Q, Bound
  <2>2. QED
    BY <1>2, <1>4, <1>6, <2>1
<1>7. CASE UNCHANGED vars
  BY <1>6, <1>7 DEF vars, fileVars
<1>8. ASSUME NEW t \in tasks, RemoveFile(t) \/ JobStep(t) \/ LevelFails(t) \/ JobFails(t)
      PROVE  Goal
  <2>1. req' = req /\ used' = used
    BY <1>8, JobsLeaveRequests
  <2>2. QED
    BY <1>6, <2>1
<1>9. ASSUME NEW w \in Workers, Handlers(w) PROVE Goal
  <2>1. \A v \in Workers \ {w} : req'[v] = req[v]
    BY <1>9, OwnRequest
  <2>2. P \ {w} = Q \ {w}
    BY <2>1 DEF Uploading
  <2>3. CASE UploadStarts(w, u)
    <3>1. w \in Q /\ used'[u] = used[u] /\ Size[req'[w].h] \in Nat /\ used[u] + Size[req'[w].h] <= Total[u]
      BY <2>3, FilesAssumption DEF UploadStarts
    <3>2. Reserve(Q) = Reserve(Q \ {w}) + MaxSize /\ Reserve(Q) <= Reserve(Workers)
      BY <1>2, <3>1, ReserveFacts
    <3>3. Q \ {w} \in SUBSET Workers
      BY <1>2
    <3>4. Reserve(Q \ {w}) \in Nat
      BY <1>5, <3>3
    <3> HIDE DEF P, Q
    <3>5. used'[u] + Size[req'[w].h] + Reserve(Q \ {w}) + MaxSize <= Bound
      BY <1>1, <3>1, <3>2, <3>4
    <3>6. QED
      BY <3>1, <3>5
  <2>4. CASE UploadContinues(w, u)
    <3>1. P = Q /\ \A v \in P : req'[v].h = req[v].h
      BY <1>2, <2>1, <2>2, <2>4 DEF UploadContinues
    <3>2. used'[u] = used[u] /\ P # {}
      BY <2>4 DEF UploadContinues
    <3> HIDE DEF P, Q
    <3>3. QED
      BY <1>4, <3>1, <3>2
  <2>5. CASE UploadEnds(w, u)
    <3>1. w \in P /\ Q = P \ {w} /\ used'[u] \in {used[u], used[u] + Size[req[w].h]}
      BY <2>2, <2>5 DEF UploadEnds
    <3> HIDE DEF P, Q, Bound
    <3>2. Size[req[w].h] \in Nat /\ Size[req[w].h] <= MaxSize
      BY <1>3, <3>1
    <3>3. PICK x \in P : used[u] + Size[req[x].h] + Reserve(P \ {x}) + MaxSize <= Bound
      BY <1>4, <3>1
    <3>4. CASE x = w
      <4>1. used'[u] + Reserve(Q) + MaxSize <= Bound
        <5>1. Reserve(Q) \in Nat
          BY <1>2, <1>5
        <5>2. QED
          BY <1>1, <3>1, <3>2, <3>3, <3>4, <5>1
      <4>2. CASE Q = {}
        BY <1>1, <4>1, <4>2, ReserveFacts
      <4>3. CASE Q # {}
        <5>1. PICK y \in Q : TRUE
          BY <4>3
        <5>2. Reserve(Q) = Reserve(Q \ {y}) + MaxSize /\ Reserve(Q \ {y}) \in Nat
          <6>1. Q \ {y} \in SUBSET Workers
            BY <1>2
          <6>2. QED
            BY <1>2, <1>5, <5>1, <6>1, ReserveFacts
        <5>3. req'[y] = req[y] /\ Size[req[y].h] \in Nat /\ Size[req[y].h] <= MaxSize
          BY <1>2, <1>3, <2>1, <3>1, <5>1
        <5>4. used'[u] + Size[req'[y].h] + Reserve(Q \ {y}) + MaxSize <= Bound
          BY <1>1, <4>1, <5>2, <5>3
        <5>5. QED
          BY <5>1, <5>4
      <4>4. QED
        BY <4>2, <4>3
    <3>5. CASE x # w
      <4>1. x \in Q /\ req'[x] = req[x] /\ Q \ {x} = (P \ {x}) \ {w}
        BY <1>2, <2>1, <3>1, <3>5
      <4>2. Reserve(P \ {x}) = Reserve(Q \ {x}) + MaxSize /\ Reserve(Q \ {x}) \in Nat
        <5>1. P \ {x} \in SUBSET Workers /\ w \in P \ {x} /\ Q \ {x} \in SUBSET Workers
          BY <1>2, <3>1, <3>5
        <5>2. QED
          BY <1>5, <4>1, <5>1, ReserveFacts
      <4>3. Size[req[x].h] \in Nat
        BY <1>3
      <4>4. used'[u] + Size[req'[x].h] + Reserve(Q \ {x}) + MaxSize <= Bound
        BY <1>1, <3>1, <3>2, <3>3, <4>1, <4>2, <4>3
      <4>5. QED
        BY <4>1, <4>4
    <3>6. QED
      BY <3>4, <3>5
  <2>6. CASE NoUpload(w, u)
    <3>1. w \notin P /\ w \notin Q /\ P = Q
      BY <2>2, <2>6 DEF NoUpload
    <3>2. used'[u] <= used[u] \/ used'[u] = 0
      BY <2>6 DEF NoUpload
    <3>3. \A v \in P : req'[v] = req[v]
      BY <1>2, <2>1, <3>1
    <3>4. CASE used'[u] <= used[u]
      <4> HIDE DEF P, Q
      <4>1. CASE P = {} /\ used[u] + MaxSize <= Bound
        BY <1>1, <3>1, <3>4, <4>1
      <4>2. ASSUME NEW x \in P, used[u] + Size[req[x].h] + Reserve(P \ {x}) + MaxSize <= Bound
            PROVE  Goal
        <5>1. Size[req[x].h] \in Nat /\ P \ {x} \in SUBSET Workers
          BY <1>2, <1>3
        <5>2. Reserve(P \ {x}) \in Nat
          BY <1>5, <5>1
        <5>3. used'[u] + Size[req'[x].h] + Reserve(Q \ {x}) + MaxSize <= Bound
          BY <1>1, <3>1, <3>3, <3>4, <4>2, <5>1, <5>2
        <5>4. QED
          BY <3>1, <5>3
      <4>3. QED
        BY <1>4, <4>1, <4>2
    <3>5. CASE used'[u] = 0
      <4> HIDE DEF P, Q
      <4>1. Reserve(Workers) = Reserve(Workers \ {w}) + MaxSize
        BY ReserveFacts
      <4>2. CASE P = {}
        <5>1. Reserve(Workers \ {w}) \in Nat
          BY <1>5
        <5>2. used'[u] + MaxSize <= Bound
          BY <1>1, <3>5, <4>1, <5>1
        <5>3. QED
          BY <3>1, <4>2, <5>2
      <4>3. CASE P # {}
        <5>1. PICK x \in P : TRUE
          BY <4>3
        <5>2. Size[req[x].h] \in Nat /\ Size[req[x].h] <= MaxSize /\ req'[x] = req[x]
          BY <1>3, <3>3, <5>1
        <5>3. Reserve(P) = Reserve(P \ {x}) + MaxSize
          BY <1>2, <5>1, ReserveFacts
        <5>4. Reserve(P) + MaxSize <= Reserve(Workers)
          <6>1. P \cup {w} \in SUBSET Workers /\ (P \cup {w}) \ {w} = P /\ w \in P \cup {w}
            BY <1>2, <3>1
          <6>2. Reserve(P \cup {w}) = Reserve(P) + MaxSize /\ Reserve(P \cup {w}) <= Reserve(Workers)
            BY <6>1, ReserveFacts
          <6>3. QED
            BY <6>2
        <5>5. Reserve(P \ {x}) \in Nat
          <6>1. P \ {x} \in SUBSET Workers
            BY <1>2
          <6>2. QED
            BY <1>5, <6>1
        <5>6. used'[u] + Size[req'[x].h] + Reserve(Q \ {x}) + MaxSize <= Bound
          BY <1>1, <3>1, <3>5, <5>2, <5>3, <5>4, <5>5
        <5>7. QED
          BY <3>1, <5>1, <5>6
      <4>4. QED
        BY <4>2, <4>3
    <3>6. QED
      BY <3>2, <3>4, <3>5
  <2>7. QED
    BY <1>9, <2>3, <2>4, <2>5, <2>6, UploadEffect
<1>10. QED
  BY <1>7, <1>8, <1>9 DEF Next

\* However uploads, deletions and group deletions interleave, the storage a
\* user is charged exceeds the quota by at most the largest file for each other
\* request that can be under way.
THEOREM QuotaOverdraftIsBounded == Spec => []QuotaOverdraftBounded
<1>1. Init => QuotaInv
  BY QuotaInvInit
<1>2. TypeOK /\ TypeOK' /\ QuotaInv /\ [Next]_vars => QuotaInv'
  BY QuotaInvNext
<1>3. TypeOK /\ QuotaInv => QuotaOverdraftBounded
  <2> SUFFICES ASSUME TypeOK, QuotaInv, NEW u \in Users \ Tenants
               PROVE  used[u] <= Total[u] + (Cardinality(Workers) - 1) * MaxSize
    BY DEF QuotaOverdraftBounded
  <2>1. used[u] \in Int /\ Total[u] \in Nat /\ MaxSize \in Nat /\ Cardinality(Workers) \in Nat
    BY FilesAssumption, MaxSizeBounds, FS_CardinalityType DEF TypeOK
  <2>2. used[u] + MaxSize <= Total[u] + Reserve(Workers)
    <3>1. CASE Uploading(u) = {}
      BY <3>1 DEF QuotaInv
    <3>2. CASE Uploading(u) # {}
      <4>1. PICK w \in Uploading(u) :
              used[u] + Size[req[w].h] + Reserve(Uploading(u) \ {w}) + MaxSize
                <= Total[u] + Reserve(Workers)
        BY <3>2 DEF QuotaInv
      <4>2. req[w] \in UploadReq
        BY RequestAt DEF Uploading
      <4>3. Size[req[w].h] \in Nat
        BY <4>2, FilesAssumption DEF UploadReq
      <4>4. Uploading(u) \ {w} \in SUBSET Workers
        BY DEF Uploading
      <4>5. Reserve(Uploading(u) \ {w}) \in Nat /\ Reserve(Workers) \in Nat
        BY <4>4, ReserveFacts
      <4>6. QED
        BY <2>1, <4>1, <4>3, <4>5
    <3>3. QED
      BY <3>1, <3>2
  <2>3. Reserve(Workers) = (Cardinality(Workers) - 1) * MaxSize + MaxSize
    BY <2>1 DEF Reserve
  <2>4. (Cardinality(Workers) - 1) * MaxSize \in Int
    BY <2>1
  <2>5. QED
    BY <2>1, <2>2, <2>3, <2>4
<1>4. QED
  BY <1>1, <1>2, <1>3, TypeCorrect, PTL DEF Spec

-----------------------------------------------------------------------------
(* One operation at a time *)

\* What is under way for a user: requests, and the tasks that delete groups.
BusyWith(u) == {w \in Workers : ~At(w, "idle") /\ req[w].u = u}
GroupTasks(u) == {t \in tasks : t.kind = "group" /\ t.u = u}

\* A user who waits has one request under way, or tasks, and not both.
AloneInv ==
  \A u \in Users \ overlap :
    /\ \A v, w \in BusyWith(u) : v = w
    /\ BusyWith(u) # {} => GroupTasks(u) = {}

\* Ids of groups are given out once.
LiveInv ==
  /\ \A u \in Users : live[u] \subseteq 1 .. nextId
  /\ \A u, v \in Users : u # v => live[u] \cap live[v] = {}

\* What an upload and a deletion have read is still so when they write.
FreshInv(u) ==
  \A w \in BusyWith(u) :
    /\ At(w, "add") => (req[w].fresh <=> <<u, req[w].h>> \notin rows)
    /\ At(w, "only") =>
         /\ req[w].areas \subseteq copies[<<u, req[w].h>>] /\ req[w].areas # {}
         /\ req[w].whole <=> req[w].areas = copies[<<u, req[w].h>>]

CopiesInv(u) == \A h \in Hashes : <<u, h>> \in rows <=> copies[<<u, h>>] # {}

RowsInv == \A u \in Users \ overlap : FreshInv(u) /\ CopiesInv(u)

\* The groups below some groups, themselves included, for the live groups L and
\* their parents P.
Kids(L, P, D) == {g \in L : P[g] \in D}
Reach(L, P, S) == {g \in Groups : \A D \in SUBSET Groups : S \subseteq D /\ Kids(L, P, D) \subseteq D => g \in D}

\* What the tasks of a user will still delete: the groups they have come to
\* with the rows, and what is below the groups they have come to.
Tops(u) == UNION {t.at : t \in GroupTasks(u)}
AtRows(u) == UNION {t.at : t \in {s \in GroupTasks(u) : s.step = "rows"}}
Doomed(u) == Reach(live[u], parent, AtRows(u) \cup Kids(live[u], parent, Tops(u)))

\* DropGroup has charged off the files of the groups that its task deletes
\* later.
FilesIn(u, gs) == {h \in FilesOf(u) : group[<<u, h>>] \in gs}

ChargedInv(u) == used[u] = SizeOf(FilesOf(u) \ FilesIn(u, Doomed(u)))

DropInv(u) ==
  \A w \in BusyWith(u) :
    At(w, "drop") => req[w].size = SizeOf(FilesIn(u, Reach(live[u], parent, {req[w].g})))

UsedInv == ~ fault => \A u \in Users \ overlap : ChargedInv(u) /\ DropInv(u)

\* No groups hang in a circle.
NoCircle(L, P) == \A C \in SUBSET L : C # {} => \E c \in C : P[c] \notin C

\* MoveGroup has gone up from t to the group top, and has not met g.
Above(L, P, g, t, top) ==
  \E V \in SUBSET L :
    /\ g \notin V /\ t \in V \cup {top}
    /\ \A x \in V : P[x] \in V \cup {top}

ClosedInv(u) == \A g \in live[u] \ Doomed(u) : parent[g] \in live[u] \cup {Root}

\* What the request r, the creation or the move of a group, has found still
\* holds.
WalkOk(L, P, r) ==
  /\ r.at = "insert" => r.g \in L \cup {Root}
  /\ r.at = "walk" => r.up \in L /\ r.up # r.g /\ Above(L, P, r.g, r.t, r.up) /\ r.t \in L
  /\ r.at = "move" => Above(L, P, r.g, r.t, Root) /\ r.t \in L \cup {Root}

WalkInv(u) == \A w \in BusyWith(u) : WalkOk(live[u], parent, req[w])

TreeInv ==
  ~ fault => \A u \in Users \ overlap : ClosedInv(u) /\ NoCircle(live[u], parent) /\ WalkInv(u)

-----------------------------------------------------------------------------

LEMMA LiveInvInit == Init => LiveInv
BY DEF Init, LiveInv

\* Only InsertGroup gives out ids.
LEMMA IdsEffect ==
  ASSUME TypeOK, NEW w \in Workers, Handlers(w)
  PROVE  \/ nextId' = nextId /\ \A u \in Users : live'[u] \subseteq live[u]
         \/ InsertGroup(w)
<1>1. CASE DeleteGroup(w)
  BY <1>1, RequestAt DEF DeleteGroup, DeleteGroupRow, At, DropReq, TypeOK
<1>2. CASE ~ DeleteGroup(w) /\ ~ InsertGroup(w)
  <2>1. nextId' = nextId /\ live' = live
    BY <1>2, ZenonT(40)
     DEF Handlers, CreateAsset, CreateAssetPost, SchedulerCreate, LookForAsset, AddAsset,
         DeleteAsset, DeleteArea, EraseAsset, DropGroup, CreateGroup, MoveGroup, WalkUp,
         UpdateParent, MoveAsset, groupVars
  <2>2. QED
    BY <2>1
<1>3. QED
  BY <1>1, <1>2

LEMMA LiveInvNext == TypeOK /\ LiveInv /\ [Next]_vars => LiveInv'
<1> SUFFICES ASSUME TypeOK, LiveInv, [Next]_vars PROVE LiveInv'
  OBVIOUS
<1>1. ASSUME nextId' = nextId, \A u \in Users : live'[u] \subseteq live[u] PROVE LiveInv'
  <2>1. \A u \in Users : live'[u] \subseteq 1 .. nextId'
    BY <1>1 DEF LiveInv
  <2>2. \A u, v \in Users : u # v => live'[u] \cap live'[v] = {}
    BY <1>1 DEF LiveInv
  <2>3. QED
    BY <2>1, <2>2 DEF LiveInv
<1>2. CASE UNCHANGED vars
  BY <1>1, <1>2 DEF vars, groupVars
<1>3. ASSUME NEW t \in tasks, RemoveFile(t) \/ JobStep(t) \/ LevelFails(t) \/ JobFails(t)
      PROVE  LiveInv'
  <2>1. nextId' = nextId
    BY <1>3 DEF RemoveFile, JobStep, DeleteLevel, FindOnly, RemoveOnly, NextLevel, LevelFails, JobFails,
         groupVars
  <2>2. QED
    BY <1>1, <1>3, <2>1, JobsLeaveRequests
<1>4. ASSUME NEW w \in Workers, InsertGroup(w) PROVE LiveInv'
  <2>1. req[w].u \in Users /\ nextId \in Nat
    BY <1>4, RequestAt, FilesAssumption DEF InsertGroup, At, CreateReq, TypeOK
  <2>2. nextId' = nextId + 1 /\ live' = [live EXCEPT ![req[w].u] = @ \cup {nextId + 1}]
    BY <1>4 DEF InsertGroup
  <2>3. \A u \in Users : live'[u] \subseteq live[u] \cup {nextId + 1}
    BY <2>1, <2>2 DEF TypeOK
  <2>4. \A u \in Users : u # req[w].u => live'[u] = live[u]
    BY <2>1, <2>2 DEF TypeOK
  <2>5. \A u \in Users : live[u] \subseteq 1 .. nextId
    BY DEF LiveInv
  <2>6. \A u \in Users : nextId + 1 \notin live[u]
    BY <2>1, <2>5
  <2>7. \A u \in Users : live'[u] \subseteq 1 .. nextId'
    BY <2>1, <2>2, <2>3, <2>5
  <2>8. ASSUME NEW u \in Users, NEW v \in Users, u # v PROVE live'[u] \cap live'[v] = {}
    <3>1. live[u] \cap live[v] = {}
      BY <2>8 DEF LiveInv
    <3>2. QED
      BY <2>3, <2>4, <2>6, <2>8, <3>1
  <2>9. QED
    BY <2>7, <2>8 DEF LiveInv
<1>5. ASSUME NEW w \in Workers, Handlers(w) PROVE LiveInv'
  BY <1>1, <1>4, <1>5, IdsEffect
<1>6. QED
  BY <1>2, <1>3, <1>5 DEF Next

-----------------------------------------------------------------------------
(* What a step of somebody else leaves alone *)

SameFiles(u) ==
  /\ \A h \in Hashes : /\ <<u, h>> \in rows' <=> <<u, h>> \in rows
                       /\ group'[<<u, h>>] = group[<<u, h>>]
                       /\ copies'[<<u, h>>] = copies[<<u, h>>]
  /\ used'[u] = used[u]

SameGroups(u) == live'[u] = live[u] /\ \A g \in live[u] : parent'[g] = parent[g]

SameTasks(u) == GroupTasks(u)' = GroupTasks(u)

SameRequests(u) == BusyWith(u)' = BusyWith(u) /\ \A w \in BusyWith(u) : req'[w] = req[w]

\* A worker who is not busy with a user and does not become so leaves
\* everything of the user alone, unless it moves one of the user's files.
LEMMA RequestsOfOthers ==
  ASSUME TypeOK, NEW w \in Workers, Handlers(w), NEW u \in Users,
         w \notin BusyWith(u), w \notin BusyWith(u)'
  PROVE  SameRequests(u)
<1>1. \A v \in Workers \ {w} : req'[v] = req[v]
  BY OwnRequest
<1>2. QED
  BY <1>1 DEF SameRequests, BusyWith, At

LEMMA FilesUnchanged == ASSUME UNCHANGED fileVars, NEW u \in Users PROVE SameFiles(u)
BY DEF fileVars, SameFiles

LEMMA GroupsUnchanged == ASSUME UNCHANGED groupVars, NEW u \in Users PROVE SameGroups(u)
BY DEF groupVars, SameGroups

LEMMA TasksUnchanged == ASSUME UNCHANGED tasks, NEW u \in Users PROVE SameTasks(u)
BY DEF SameTasks, GroupTasks

LEMMA FilesOfOthers ==
  ASSUME TypeOK, NEW w \in Workers, Handlers(w), NEW u \in Users, w \notin BusyWith(u)
  PROVE  \/ SameFiles(u)
         \/ \E h \in load.hashes, g \in 0 .. load.lastGroup : MoveAsset(w, u, h, g)
<1>1. ASSUME ~ At(w, "idle") PROVE req[w].u # u
  BY <1>1 DEF BusyWith
<1>2. CASE AddAsset(w)
  <2>1. req[w] \in UploadReq /\ req[w].u # u
    BY <1>1, <1>2, RequestAt DEF AddAsset, At
  <2>2. CASE UNCHANGED fileVars
    BY <2>2, FilesUnchanged
  <2>3. CASE AddAssetAndUpdateSize(req[w].u, req[w].h, req[w].g, req[w].missing \cup {req[w].first}, req[w].fresh)
    BY <2>1, <2>3 DEF AddAssetAndUpdateSize, SameFiles, TypeOK, UploadReq
  <2>4. QED
    BY <1>2, <2>2, <2>3 DEF AddAsset
<1>3. CASE EraseAsset(w)
  <2>1. req[w] \in DeleteReq /\ req[w].u # u
    BY <1>1, <1>3, RequestAt DEF EraseAsset, At
  <2>2. PICK exec \in SUBSET req[w].areas :
          \/ UNCHANGED fileVars
          \/ DelAssetAndUpdateSize(req[w].u, req[w].h, exec, req[w].whole /\ exec = req[w].areas)
    BY <1>3 DEF EraseAsset
  <2>3. CASE UNCHANGED fileVars
    BY <2>3, FilesUnchanged
  <2>4. CASE DelAssetAndUpdateSize(req[w].u, req[w].h, exec, req[w].whole /\ exec = req[w].areas)
    BY <2>1, <2>4 DEF DelAssetAndUpdateSize, SameFiles, TypeOK, DeleteReq
  <2>5. QED
    BY <2>2, <2>3, <2>4
<1>4. CASE DeleteGroup(w)
  <2>1. req[w] \in DropReq /\ req[w].u # u
    BY <1>1, <1>4, RequestAt DEF DeleteGroup, At
  <2>2. QED
    BY <1>4, <2>1 DEF DeleteGroup, DeleteGroupRow, SameFiles, TypeOK, DropReq
<1>5. ASSUME NEW v \in Users, NEW h \in load.hashes, NEW g \in 0 .. load.lastGroup, MoveAsset(w, v, h, g)
      PROVE  \/ SameFiles(u)
             \/ \E i \in load.hashes, f \in 0 .. load.lastGroup : MoveAsset(w, u, i, f)
  <2>1. CASE u = v
    BY <1>5, <2>1
  <2>2. CASE u # v
    BY <1>5, <2>2, LoadType DEF MoveAsset, SameFiles, TypeOK
  <2>3. QED
    BY <2>1, <2>2
<1>6. CASE UNCHANGED fileVars
  BY <1>6, FilesUnchanged
<1>7. UNCHANGED fileVars \/ AddAsset(w) \/ EraseAsset(w) \/ DeleteGroup(w)
      \/ \E v \in Users, h \in load.hashes, g \in 0 .. load.lastGroup : MoveAsset(w, v, h, g)
  BY ZenonT(40) DEF Handlers, CreateAsset, CreateAssetPost, SchedulerCreate, LookForAsset,
         DeleteAsset, DeleteArea, DropGroup, CreateGroup, InsertGroup, MoveGroup, WalkUp, UpdateParent
<1>8. QED
  BY <1>2, <1>3, <1>4, <1>5, <1>6, <1>7

LEMMA GroupsOfOthers ==
  ASSUME TypeOK, LiveInv, NEW w \in Workers, Handlers(w), NEW u \in Users, w \notin BusyWith(u)
  PROVE  SameGroups(u)
<1>1. ASSUME ~ At(w, "idle") PROVE req[w].u # u
  BY <1>1 DEF BusyWith
<1>2. CASE DeleteGroup(w)
  <2>1. req[w].u # u
    BY <1>1, <1>2 DEF DeleteGroup, At
  <2>2. QED
    BY <1>2, <2>1 DEF DeleteGroup, DeleteGroupRow, SameGroups, TypeOK
<1>3. CASE InsertGroup(w)
  <2>1. req[w].u # u
    BY <1>1, <1>3 DEF InsertGroup, At
  <2>2. nextId \in Nat /\ live[u] \subseteq 1 .. nextId /\ live[u] \subseteq Groups
    BY FilesAssumption DEF LiveInv, TypeOK
  <2>3. nextId + 1 \notin live[u]
    BY <2>2
  <2>4. QED
    BY <1>3, <2>1, <2>2, <2>3 DEF InsertGroup, SameGroups, TypeOK
<1>4. CASE UpdateParent(w)
  <2>1. req[w].u # u /\ req[w].u \in Users
    BY <1>1, <1>4, RequestAt DEF UpdateParent, At, MoveReq
  <2>2. live[req[w].u] \cap live[u] = {} /\ live[u] \subseteq Groups
    BY <2>1 DEF LiveInv, TypeOK
  <2>3. QED
    BY <1>4, <2>2 DEF UpdateParent, SameGroups, TypeOK
<1>5. CASE UNCHANGED groupVars
  BY <1>5, GroupsUnchanged
<1>6. UNCHANGED groupVars \/ DeleteGroup(w) \/ InsertGroup(w) \/ UpdateParent(w)
  BY ZenonT(40) DEF Handlers, CreateAsset, CreateAssetPost, SchedulerCreate, LookForAsset, AddAsset,
         DeleteAsset, DeleteArea, EraseAsset, DropGroup, CreateGroup, MoveGroup, WalkUp, MoveAsset
<1>7. QED
  BY <1>2, <1>3, <1>4, <1>5, <1>6

LEMMA TasksOfOthers ==
  ASSUME TypeOK, NEW w \in Workers, Handlers(w), NEW u \in Users, w \notin BusyWith(u)
  PROVE  SameTasks(u)
<1>1. ASSUME ~ At(w, "idle") PROVE req[w].u # u
  BY <1>1 DEF BusyWith
<1>2. CASE DeleteArea(w)
  <2>1. \/ UNCHANGED tasks
        \/ \E a : tasks' = tasks \cup {[kind |-> "file", id |-> sent, h |-> req[w].h, a |-> a]}
    BY <1>2 DEF DeleteArea, Swallowed, Enqueue
  <2>2. QED
    BY <2>1 DEF SameTasks, GroupTasks
<1>3. CASE DeleteGroup(w)
  <2>1. req[w].u # u
    BY <1>1, <1>3 DEF DeleteGroup, At
  <2>2. \/ UNCHANGED tasks
        \/ tasks' = tasks \cup {NewGroupTask(req[w].u, {req[w].g})}
    BY <1>3 DEF DeleteGroup, Swallowed, Enqueue
  <2>3. QED
    BY <2>1, <2>2 DEF SameTasks, GroupTasks, NewGroupTask
<1>4. CASE UNCHANGED tasks
  BY <1>4, TasksUnchanged
<1>5. UNCHANGED tasks \/ DeleteArea(w) \/ DeleteGroup(w)
  BY ZenonT(40) DEF Handlers, CreateAsset, CreateAssetPost, SchedulerCreate, LookForAsset, AddAsset,
         DeleteAsset, EraseAsset, DropGroup, CreateGroup, InsertGroup, MoveGroup, WalkUp, UpdateParent, MoveAsset
<1>6. QED
  BY <1>2, <1>3, <1>4, <1>5

\* A task that deletes groups is replaced by tasks for the same user.
LEMMA TaskBecomes ==
  ASSUME TypeOK, NEW t \in tasks, t.kind = "group", JobStep(t) \/ LevelFails(t) \/ JobFails(t)
  PROVE  \E new : Become(t, new) /\ \A s \in new : s.kind = "group" /\ s.u = t.u
<1>1. t \in GroupTask
  BY GroupTaskAt
<1>3. CASE DeleteLevel(t)
  <2> DEFINE s == [t EXCEPT !.step = "only"]
  <2>1. Become(t, {s})
    BY <1>3 DEF DeleteLevel
  <2>2. s.kind = "group" /\ s.u = t.u
    BY <1>1 DEF GroupTask
  <2> HIDE DEF s
  <2>3. QED
    BY <2>1, <2>2
<1>4. CASE FindOnly(t)
  <2> DEFINE only == OnlyAssets(t.u, t.at)
             s == [t EXCEPT !.step = IF only = {} THEN "next" ELSE "remove", !.doomed = only]
  <2>1. Become(t, {s})
    BY <1>4 DEF FindOnly
  <2>2. s.kind = "group" /\ s.u = t.u
    BY <1>1 DEF GroupTask
  <2> HIDE DEF s
  <2>3. QED
    BY <2>1, <2>2
<1>5. CASE RemoveOnly(t)
  <2> DEFINE s == [t EXCEPT !.step = "next", !.doomed = {}]
  <2>1. Become(t, {s})
    BY <1>5 DEF RemoveOnly
  <2>2. s.kind = "group" /\ s.u = t.u
    BY <1>1 DEF GroupTask
  <2> HIDE DEF s
  <2>3. QED
    BY <2>1, <2>2
<1>6. CASE NextLevel(t)
  <2> DEFINE s == [t EXCEPT !.at = Children(t.u, t.at), !.step = "rows"]
  <2>1. Become(t, {}) \/ Become(t, {s})
    BY <1>6 DEF NextLevel
  <2>2. s.kind = "group" /\ s.u = t.u
    BY <1>1 DEF GroupTask
  <2> HIDE DEF s
  <2>3. QED
    BY <2>1, <2>2
<1>7. CASE LevelFails(t)
  <2> DEFINE r == [t EXCEPT !.step = "next"]
             s == [t EXCEPT !.from = t.at]
  <2>1. Become(t, {r, s})
    BY <1>7 DEF LevelFails
  <2>2. s.kind = "group" /\ s.u = t.u /\ r.kind = "group" /\ r.u = t.u
    BY <1>1 DEF GroupTask
  <2> HIDE DEF r, s
  <2>3. QED
    BY <2>1, <2>2
<1>8. CASE JobFails(t)
  <2> DEFINE s == [t EXCEPT !.at = t.from, !.step = "rows", !.doomed = {}]
  <2>1. Become(t, {}) \/ Become(t, {s})
    BY <1>8 DEF JobFails
  <2>2. s.kind = "group" /\ s.u = t.u
    BY <1>1 DEF GroupTask
  <2> HIDE DEF s
  <2>3. QED
    BY <2>1, <2>2
<1>9. QED
  BY <1>3, <1>4, <1>5, <1>6, <1>7, <1>8 DEF JobStep

\* A task of somebody else, or one that removes a file.
LEMMA TaskOfOthers ==
  ASSUME TypeOK, NEW t \in tasks, RemoveFile(t) \/ JobStep(t) \/ LevelFails(t) \/ JobFails(t),
         NEW u \in Users, t \notin GroupTasks(u)
  PROVE  SameFiles(u) /\ SameGroups(u) /\ SameTasks(u) /\ SameRequests(u)
<1>1. SameRequests(u)
  BY JobsLeaveRequests DEF SameRequests, BusyWith, At
<1>2. SameTasks(u)
  <2>1. CASE RemoveFile(t)
    BY <2>1 DEF RemoveFile, SameTasks, GroupTasks
  <2>2. CASE t.kind = "group" /\ t.u # u
    <3>1. t \in GroupTask
      BY <2>2, GroupTaskAt
    <3>2. PICK new : Become(t, new) /\ \A s \in new : s.kind = "group" /\ s.u = t.u
      <4>1. ~ RemoveFile(t)
        BY <2>2 DEF RemoveFile
      <4>2. QED
        BY <2>2, <4>1, TaskBecomes
    <3>3. QED
      BY <2>2, <3>2 DEF SameTasks, GroupTasks, Become
  <2>3. QED
    BY <2>1, <2>2 DEF GroupTasks, JobStep, DeleteLevel, FindOnly, RemoveOnly, NextLevel, LevelFails, JobFails
<1>3. SameFiles(u) /\ SameGroups(u)
  <2>1. CASE DeleteLevel(t)
    <3>1. t.u # u /\ t.u \in Users
      BY <2>1, GroupTaskAt DEF DeleteLevel, GroupTasks
    <3>2. \A h \in Hashes : <<u, h>> \notin {t.u} \X InGroups(t.u, t.at)
      BY <3>1
    <3>3. SameFiles(u)
      BY <2>1, <3>1, <3>2 DEF DeleteLevel, DeleteUserGroupAsset, SameFiles
    <3>4. SameGroups(u)
      BY <2>1, <3>1 DEF DeleteLevel, DeleteUserGroupAsset, SameGroups, TypeOK
    <3>5. QED
      BY <3>3, <3>4
  <2>2. CASE UNCHANGED <<fileVars, groupVars>>
    BY <2>2, FilesUnchanged, GroupsUnchanged
  <2>3. QED
    BY <2>1, <2>2 DEF RemoveFile, JobStep, FindOnly, RemoveOnly, NextLevel, LevelFails, JobFails
<1>4. QED
  BY <1>1, <1>2, <1>3

LEMMA HistoryGrows ==
  ASSUME TypeOK, [Next]_vars
  PROVE  overlap \subseteq overlap' /\ (fault => fault')
<1> DEFINE Grows == overlap \subseteq overlap' /\ (fault' = fault \/ fault' = TRUE)
<1>1. CASE UNCHANGED vars
  BY <1>1 DEF vars, history
<1>2. ASSUME NEW w \in Workers, Handlers(w) PROVE Grows
  <2>1. CASE UNCHANGED <<overlap, fault>>
    BY <2>1
  <2>2. CASE \E u, kind : Arrives(w, u, kind)
    BY <2>2 DEF Arrives
  <2>3. CASE DeleteArea(w) \/ DeleteGroup(w)
    BY <2>3 DEF DeleteArea, DeleteGroup, Swallowed, Fault
  <2>4. QED
    BY <1>2, <2>1, <2>2, <2>3, ZenonT(40)
     DEF Handlers, CreateAsset, CreateAssetPost, SchedulerCreate, LookForAsset,
         AddAsset, DeleteAsset, EraseAsset, DropGroup, CreateGroup, InsertGroup, MoveGroup, WalkUp,
         UpdateParent, MoveAsset, history
<1>3. ASSUME NEW t \in tasks, RemoveFile(t) \/ JobStep(t) \/ LevelFails(t) \/ JobFails(t)
      PROVE  Grows
  <2>1. CASE UNCHANGED overlap /\ (Fault \/ UNCHANGED fault)
    BY <2>1 DEF Fault
  <2>2. QED
    BY <1>3, <2>1 DEF RemoveFile, JobStep, DeleteLevel, FindOnly, RemoveOnly, NextLevel, LevelFails, JobFails,
         history
<1>4. CASE Next
  <2> HIDE DEF Grows
  <2>1. (\E w \in Workers : Handlers(w)) => Grows
    BY <1>2
  <2>2. (\E t \in tasks : RemoveFile(t) \/ JobStep(t) \/ LevelFails(t) \/ JobFails(t)) => Grows
    BY <1>3
  <2>3. Grows
    BY <1>4, <2>1, <2>2 DEF Next
  <2>4. QED
    BY <2>3 DEF Grows
<1>5. QED
  BY <1>1, <1>4

-----------------------------------------------------------------------------
(* The steps that concern one user *)

\* A request takes up a user only when it arrives.
Arrived(w, u) ==
  /\ \E kind : Arrives(w, u, kind)
  /\ UNCHANGED <<fileVars, groupVars, tasks>>

LEMMA BusyUser ==
  ASSUME TypeOK, NEW w \in Workers, NEW u \in Users
  PROVE  w \in BusyWith(u) <=> req[w].at # "idle" /\ req[w].u = u
BY DEF BusyWith, At

LEMMA NewlyBusy ==
  ASSUME TypeOK, NEW w \in Workers, Handlers(w), NEW u \in Users,
         w \notin BusyWith(u), w \in BusyWith(u)'
  PROVE  Arrived(w, u)
<1>1. req'[w].at # "idle" /\ req'[w].u = u
  BY DEF BusyWith, At
<1>2. req[w].at = "idle" \/ req[w].u # u
  BY DEF BusyWith, At
<1>3. req'[w] # req[w]
  BY <1>1, <1>2
<1>4. ~ Answer(w)
  BY <1>1 DEF Answer, Idle, TypeOK
<1>5. ASSUME NEW v \in Users, NEW h \in load.hashes, NEW asked \in SUBSET load.areas,
             NEW first \in load.areas, NEW g \in 0 .. load.lastGroup,
             CreateAsset(w, v, h, asked, first, g) \/ CreateAssetPost(w, v, h, asked, first, g)
      PROVE  Arrived(w, u)
  <2>1. \E missing : \E at : StartUpload(w, v, h, first, missing, g, at)
    BY <1>5 DEF CreateAsset, CreateAssetPost
  <2>2. u = v
    BY <1>1, <1>3, <2>1 DEF StartUpload, TypeOK
  <2>3. QED
    BY <1>5, <2>2 DEF CreateAsset, CreateAssetPost, Arrived
<1>6. CASE SchedulerCreate(w)
  <2>1. req[w] \in UploadReq /\ At(w, "create")
    BY <1>6, RequestAt DEF SchedulerCreate, At
  <2>2. Goto(w, "look")
    BY <1>4, <1>6 DEF SchedulerCreate
  <2>3. req'[w].u = req[w].u
    BY <2>1, <2>2 DEF Goto, TypeOK, UploadReq
  <2>4. QED
    BY <1>1, <1>2, <2>1, <2>3 DEF At
<1>7. CASE LookForAsset(w)
  <2>1. req[w] \in UploadReq /\ At(w, "look")
    BY <1>7, RequestAt DEF LookForAsset, At
  <2>2. req'[w].u = req[w].u
    BY <1>7, <2>1 DEF LookForAsset, TypeOK, UploadReq
  <2>3. QED
    BY <1>1, <1>2, <2>1, <2>2 DEF At
<1>8. CASE AddAsset(w) \/ EraseAsset(w) \/ DeleteGroup(w) \/ InsertGroup(w) \/ UpdateParent(w)
  BY <1>4, <1>8 DEF AddAsset, EraseAsset, DeleteGroup, InsertGroup, UpdateParent
<1>9. ASSUME NEW v \in Users, NEW h \in load.hashes, NEW asked \in SUBSET load.areas,
             DeleteAsset(w, v, h, asked)
      PROVE  Arrived(w, u)
  <2>1. u = v
    BY <1>1, <1>3, <1>9 DEF DeleteAsset, TypeOK
  <2>2. QED
    BY <1>9, <2>1 DEF DeleteAsset, Arrived
<1>10. CASE DeleteArea(w)
  <2>1. req[w] \in DeleteReq /\ At(w, "only")
    BY <1>10, RequestAt DEF DeleteArea, At
  <2>2. req'[w].u = req[w].u
    BY <1>10, <2>1 DEF DeleteArea, TypeOK, DeleteReq
  <2>3. QED
    BY <1>1, <1>2, <2>1, <2>2 DEF At
<1>11. ASSUME NEW v \in Users, NEW g \in 1 .. load.lastGroup, DropGroup(w, v, g)
       PROVE  Arrived(w, u)
  <2>1. u = v
    BY <1>1, <1>11 DEF DropGroup, TypeOK
  <2>2. QED
    BY <1>11, <2>1 DEF DropGroup, Arrived
<1>12. ASSUME NEW v \in Users, NEW g \in 0 .. load.lastGroup, CreateGroup(w, v, g)
       PROVE  Arrived(w, u)
  <2>1. u = v
    BY <1>1, <1>3, <1>12 DEF CreateGroup, TypeOK
  <2>2. QED
    BY <1>12, <2>1 DEF CreateGroup, Arrived
<1>13. ASSUME NEW v \in Users, NEW g \in 1 .. load.lastGroup, NEW t \in 0 .. load.lastGroup,
              MoveGroup(w, v, g, t)
       PROVE  Arrived(w, u)
  <2>1. u = v
    BY <1>1, <1>3, <1>13 DEF MoveGroup, TypeOK
  <2>2. QED
    BY <1>13, <2>1 DEF MoveGroup, Arrived
<1>14. CASE WalkUp(w)
  <2>1. req[w] \in MoveReq /\ At(w, "walk")
    BY <1>14, RequestAt DEF WalkUp, At
  <2>2. req'[w].u = req[w].u
    BY <1>4, <1>14, <2>1 DEF WalkUp, Goto, TypeOK, MoveReq
  <2>3. QED
    BY <1>1, <1>2, <2>1, <2>2 DEF At
<1>15. CASE \E v \in Users, h \in load.hashes, g \in 0 .. load.lastGroup : MoveAsset(w, v, h, g)
  BY <1>3, <1>15 DEF MoveAsset
<1>16. QED
  BY <1>5, <1>6, <1>7, <1>8, <1>9, <1>10, <1>11, <1>12, <1>13, <1>14, <1>15 DEF Handlers

\* What a step is for a user who has waited for each operation.
Nothing(u) == SameFiles(u) /\ SameGroups(u) /\ SameTasks(u) /\ SameRequests(u)

Calm(u) == BusyWith(u) = {} /\ GroupTasks(u) = {}

Begins(w, u) ==
  /\ Handlers(w) /\ Calm(u) /\ BusyWith(u)' = {w}
  /\ Arrived(w, u)

Moves(w, u) ==
  /\ Calm(u) /\ BusyWith(u)' = {} /\ UNCHANGED <<tasks, groupVars, rows, copies, used>>
  /\ \E h \in load.hashes, g \in 0 .. load.lastGroup : MoveAsset(w, u, h, g)

Continues(w, u) ==
  /\ Handlers(w) /\ BusyWith(u) = {w} /\ GroupTasks(u) = {}
  /\ BusyWith(u)' \subseteq {w}
  /\ SameTasks(u) \/ DeleteGroup(w)

TaskRuns(t, u) ==
  /\ JobStep(t) \/ LevelFails(t) \/ JobFails(t)
  /\ t \in GroupTasks(u) /\ BusyWith(u) = {} /\ BusyWith(u)' = {}

LEMMA ArrivesCalm ==
  ASSUME TypeOK, NEW w \in Workers, NEW u \in Users, u \notin overlap', NEW kind, Arrives(w, u, kind)
  PROVE  Calm(u)
<1>1. ~ Busy(u)
  BY DEF Arrives
<1>2. QED
  BY <1>1 DEF Busy, Calm, BusyWith, GroupTasks

LEMMA UserStep ==
  ASSUME TypeOK, LiveInv, AloneInv, [Next]_vars, NEW u \in Users, u \notin overlap'
  PROVE  \/ Nothing(u)
         \/ \E w \in Workers : Begins(w, u) \/ Moves(w, u) \/ Continues(w, u)
         \/ \E t \in tasks : TaskRuns(t, u)
<1>1. u \notin overlap
  BY HistoryGrows
<1>2. CASE UNCHANGED vars
  <2>1. UNCHANGED <<fileVars, groupVars, tasks, req>>
    BY <1>2 DEF vars
  <2>2. SameRequests(u)
    BY <2>1 DEF SameRequests, BusyWith, At
  <2>3. QED
    BY <2>1, <2>2, FilesUnchanged, GroupsUnchanged, TasksUnchanged DEF Nothing
<1>3. ASSUME NEW t \in tasks, RemoveFile(t) \/ JobStep(t) \/ LevelFails(t) \/ JobFails(t)
      PROVE  Nothing(u) \/ TaskRuns(t, u)
  <2>1. CASE t \notin GroupTasks(u)
    BY <1>3, <2>1, TaskOfOthers DEF Nothing
  <2>2. CASE t \in GroupTasks(u)
    <3>1. BusyWith(u) = {}
      BY <1>1, <2>2 DEF AloneInv
    <3>2. BusyWith(u)' = {}
      BY <1>3, <3>1, JobsLeaveRequests DEF BusyWith, At
    <3>3. ~ RemoveFile(t)
      BY <2>2 DEF RemoveFile, GroupTasks
    <3>4. QED
      BY <1>3, <2>2, <3>1, <3>2, <3>3 DEF TaskRuns
  <2>3. QED
    BY <2>1, <2>2
<1>4. ASSUME NEW w \in Workers, Handlers(w)
      PROVE  Nothing(u) \/ Begins(w, u) \/ Moves(w, u) \/ Continues(w, u)
  <2>0. BusyWith(u)' \ {w} = BusyWith(u) \ {w}
    BY <1>4, OwnRequest DEF BusyWith, At
  <2>1. CASE w \in BusyWith(u)
    <3>1. BusyWith(u) = {w} /\ GroupTasks(u) = {}
      BY <1>1, <2>1 DEF AloneInv
    <3>2. SameTasks(u) \/ DeleteGroup(w)
      <4>1. CASE DeleteArea(w)
        <5>1. \/ UNCHANGED tasks
              \/ \E a : tasks' = tasks \cup {[kind |-> "file", id |-> sent, h |-> req[w].h, a |-> a]}
          BY <4>1 DEF DeleteArea, Swallowed, Enqueue
        <5>2. QED
          BY <5>1 DEF SameTasks, GroupTasks
      <4>2. CASE UNCHANGED tasks
        BY <4>2, TasksUnchanged
      <4>3. UNCHANGED tasks \/ DeleteArea(w) \/ DeleteGroup(w)
        BY <1>4, ZenonT(40)
         DEF Handlers, CreateAsset, CreateAssetPost, SchedulerCreate, LookForAsset, AddAsset,
             DeleteAsset, EraseAsset, DropGroup, CreateGroup, InsertGroup, MoveGroup, WalkUp, UpdateParent,
             MoveAsset
      <4>4. QED
        BY <4>1, <4>2, <4>3
    <3>3. QED
      BY <1>4, <2>0, <3>1, <3>2 DEF Continues
  <2>2. CASE w \notin BusyWith(u) /\ w \in BusyWith(u)'
    <3>1. Arrived(w, u)
      BY <1>4, <2>2, NewlyBusy
    <3>2. Calm(u)
      BY <3>1, ArrivesCalm DEF Arrived
    <3>3. BusyWith(u)' = {w}
      BY <2>0, <2>2, <3>2 DEF Calm
    <3>4. QED
      BY <1>4, <3>1, <3>2, <3>3 DEF Begins
  <2>3. CASE w \notin BusyWith(u) /\ w \notin BusyWith(u)'
    <3>1. SameRequests(u) /\ SameGroups(u) /\ SameTasks(u)
      BY <1>4, <2>3, RequestsOfOthers, GroupsOfOthers, TasksOfOthers
    <3>2. CASE SameFiles(u)
      BY <3>1, <3>2 DEF Nothing
    <3>3. ASSUME NEW h \in load.hashes, NEW g \in 0 .. load.lastGroup, MoveAsset(w, u, h, g)
          PROVE  Moves(w, u)
      <4>1. Calm(u)
        BY <3>3, ArrivesCalm DEF MoveAsset
      <4>2. BusyWith(u)' = {}
        BY <3>1, <4>1 DEF SameRequests, Calm
      <4>3. QED
        BY <3>3, <4>1, <4>2 DEF Moves, MoveAsset
    <3>4. QED
      BY <1>4, <2>3, <3>2, <3>3, FilesOfOthers
  <2>4. QED
    BY <2>1, <2>2, <2>3
<1>5. QED
  BY <1>2, <1>3, <1>4 DEF Next

LEMMA AloneInvInit == Init => AloneInv
BY DEF Init, AloneInv, BusyWith, GroupTasks, At, Idle

LEMMA AloneInvNext == TypeOK /\ LiveInv /\ AloneInv /\ [Next]_vars => AloneInv'
<1> SUFFICES ASSUME TypeOK, LiveInv, AloneInv, [Next]_vars, NEW u \in Users, u \notin overlap'
             PROVE  /\ \A v, w \in BusyWith(u)' : v = w
                    /\ BusyWith(u)' # {} => GroupTasks(u)' = {}
  BY DEF AloneInv
<1>1. /\ \A v, w \in BusyWith(u) : v = w
      /\ BusyWith(u) # {} => GroupTasks(u) = {}
  BY HistoryGrows DEF AloneInv
<1>2. CASE Nothing(u)
  BY <1>1, <1>2 DEF Nothing, SameTasks, SameRequests
<1>3. ASSUME NEW w \in Workers, Begins(w, u)
      PROVE  (\A v, x \in BusyWith(u)' : v = x) /\ GroupTasks(u)' = {}
  BY <1>3 DEF Begins, Arrived, Calm, GroupTasks
<1>4. ASSUME NEW w \in Workers, Moves(w, u) PROVE BusyWith(u)' = {}
  BY <1>4 DEF Moves
<1>5. ASSUME NEW w \in Workers, Continues(w, u)
      PROVE  (\A v, x \in BusyWith(u)' : v = x) /\ (BusyWith(u)' # {} => GroupTasks(u)' = {})
  <2>1. CASE SameTasks(u)
    BY <1>5, <2>1 DEF Continues, SameTasks
  <2>2. CASE DeleteGroup(w)
    <3>1. req'[w] = Idle
      BY <2>2 DEF DeleteGroup, Answer, TypeOK
    <3>2. w \notin BusyWith(u)'
      BY <3>1 DEF BusyWith, At, Idle
    <3>3. QED
      BY <1>5, <3>2 DEF Continues
  <2>3. QED
    BY <1>5, <2>1, <2>2 DEF Continues
<1>6. ASSUME NEW t \in tasks, TaskRuns(t, u) PROVE BusyWith(u)' = {}
  BY <1>6 DEF TaskRuns
<1>7. QED
  BY <1>2, <1>3, <1>4, <1>5, <1>6, UserStep

\* The steps of a request that has arrived.
LEMMA OwnSteps ==
  ASSUME TypeOK, NEW w \in Workers, NEW u \in Users, Continues(w, u)
  PROVE  /\ req[w].u = u /\ req[w].at # "idle"
         /\ \/ SchedulerCreate(w) \/ LookForAsset(w) \/ AddAsset(w)
            \/ DeleteArea(w) \/ EraseAsset(w) \/ DeleteGroup(w)
            \/ InsertGroup(w) \/ WalkUp(w) \/ UpdateParent(w)
<1>1. req[w].u = u /\ ~ At(w, "idle")
  BY DEF Continues, BusyWith
<1>2. \A v, kind : ~ Arrives(w, v, kind)
  BY <1>1 DEF Arrives
<1>3. QED
  BY <1>1, <1>2, ZenonT(40)
   DEF Continues, Handlers, CreateAsset, CreateAssetPost, DeleteAsset, DropGroup, CreateGroup,
       MoveGroup, MoveAsset, At

\* What a request is right after its arrival.
LEMMA FirstSteps ==
  ASSUME TypeOK, NEW w \in Workers, NEW u \in Users, Begins(w, u)
  PROVE  /\ req'[w].u = u
         /\ \/ req'[w].at \in {"create", "look"}
            \/ \E h \in load.hashes, asked \in SUBSET load.areas :
                 DeleteAsset(w, u, h, asked) /\ Deleted(u, h, asked) # {}
            \/ \E g \in 1 .. load.lastGroup : DropGroup(w, u, g)
            \/ \E g \in 0 .. load.lastGroup : CreateGroup(w, u, g)
            \/ \E g \in 1 .. load.lastGroup, t \in 0 .. load.lastGroup :
                 /\ MoveGroup(w, u, g, t) /\ g # t /\ t \in live[u] \cup {Root}
<1>1. req'[w].u = u /\ req'[w].at # "idle" /\ At(w, "idle")
  <2>1. w \in BusyWith(u)'
    BY DEF Begins
  <2>2. QED
    BY <2>1 DEF Begins, BusyWith, Arrived, Arrives, At
<1>2. req'[w] # req[w]
  BY <1>1 DEF At
<1>3. ASSUME NEW v \in Users, NEW h \in load.hashes, NEW asked \in SUBSET load.areas,
             NEW first \in load.areas, NEW g \in 0 .. load.lastGroup,
             CreateAsset(w, v, h, asked, first, g) \/ CreateAssetPost(w, v, h, asked, first, g)
      PROVE  req'[w].at \in {"create", "look"}
  <2>1. \E missing : \E at \in {"create", "look"} : StartUpload(w, v, h, first, missing, g, at)
    BY <1>3 DEF CreateAsset, CreateAssetPost
  <2>2. QED
    BY <1>2, <2>1 DEF StartUpload, TypeOK
<1>4. ASSUME NEW v \in Users, NEW h \in load.hashes, NEW asked \in SUBSET load.areas,
             DeleteAsset(w, v, h, asked)
      PROVE  v = u /\ Deleted(v, h, asked) # {}
  BY <1>1, <1>2, <1>4 DEF DeleteAsset, TypeOK
<1>5. ASSUME NEW v \in Users, NEW g, DropGroup(w, v, g)
      PROVE  v = u
  BY <1>1, <1>2, <1>5 DEF DropGroup, TypeOK
<1>6. ASSUME NEW v \in Users, NEW g, CreateGroup(w, v, g)
      PROVE  v = u
  BY <1>1, <1>2, <1>6 DEF CreateGroup, TypeOK
<1>7. ASSUME NEW v \in Users, NEW g, NEW t, MoveGroup(w, v, g, t)
      PROVE  v = u /\ g # t /\ t \in live[v] \cup {Root}
  BY <1>1, <1>2, <1>7 DEF MoveGroup, TypeOK
<1>8. ~ \E v \in Users, h \in load.hashes, g \in 0 .. load.lastGroup : MoveAsset(w, v, h, g)
  BY <1>2 DEF MoveAsset
<1>9. ~ (SchedulerCreate(w) \/ LookForAsset(w) \/ AddAsset(w) \/ DeleteArea(w) \/ EraseAsset(w)
         \/ DeleteGroup(w) \/ InsertGroup(w) \/ WalkUp(w) \/ UpdateParent(w))
  BY <1>1 DEF SchedulerCreate, LookForAsset, AddAsset, DeleteArea, EraseAsset, DeleteGroup, InsertGroup,
       WalkUp, UpdateParent, At
<1>10. Handlers(w)
  BY DEF Begins
<1>11. QED
  BY <1>1, <1>3, <1>4, <1>5, <1>6, <1>7, <1>8, <1>9, <1>10 DEF Handlers

-----------------------------------------------------------------------------
(* Files and the rows of their areas *)

LEMMA RowsInvInit == Init => RowsInv
BY DEF Init, RowsInv, FreshInv, CopiesInv, BusyWith, At, Idle

LEMMA RowsBegin ==
  ASSUME TypeOK, NEW u \in Users, NEW w \in Workers, Begins(w, u), FreshInv(u), CopiesInv(u)
  PROVE  FreshInv(u)' /\ CopiesInv(u)'
<1>1. SameFiles(u) /\ UNCHANGED fileVars
  BY FilesUnchanged DEF Begins, Arrived
<1>2. CopiesInv(u)'
  BY <1>1 DEF CopiesInv, SameFiles
<1>3. BusyWith(u)' = {w}
  BY DEF Begins
<1>4. req'[w].at # "add"
  <2>1. CASE \E h \in load.hashes, asked \in SUBSET load.areas : DeleteAsset(w, u, h, asked) /\ Deleted(u, h, asked) # {}
    BY <2>1 DEF DeleteAsset, TypeOK
  <2>2. CASE \E g : DropGroup(w, u, g)
    BY <2>2 DEF DropGroup, TypeOK
  <2>3. CASE \E g : CreateGroup(w, u, g)
    BY <2>3 DEF CreateGroup, TypeOK, Arrives, At
  <2>4. CASE \E g, t : MoveGroup(w, u, g, t)
    BY <2>4 DEF MoveGroup, TypeOK, Arrives, At
  <2>5. QED
    BY <2>1, <2>2, <2>3, <2>4, FirstSteps
<1>5. ASSUME req'[w].at = "only"
      PROVE  /\ req'[w].areas \subseteq copies'[<<u, req'[w].h>>] /\ req'[w].areas # {}
             /\ req'[w].whole <=> req'[w].areas = copies'[<<u, req'[w].h>>]
  <2>1. CASE \E g : DropGroup(w, u, g)
    BY <1>5, <2>1 DEF DropGroup, TypeOK
  <2>2. CASE \E g : CreateGroup(w, u, g)
    BY <1>5, <2>2 DEF CreateGroup, TypeOK, Arrives, At
  <2>3. CASE \E g, t : MoveGroup(w, u, g, t)
    BY <1>5, <2>3 DEF MoveGroup, TypeOK, Arrives, At
  <2>4. ASSUME NEW h \in load.hashes, NEW asked \in SUBSET load.areas,
               DeleteAsset(w, u, h, asked), Deleted(u, h, asked) # {}
        PROVE  /\ req'[w].areas \subseteq copies'[<<u, req'[w].h>>] /\ req'[w].areas # {}
               /\ req'[w].whole <=> req'[w].areas = copies'[<<u, req'[w].h>>]
    <3>1. /\ req'[w].areas = Deleted(u, h, asked) /\ req'[w].h = h
          /\ req'[w].whole = (Deleted(u, h, asked) = copies[<<u, h>>])
      BY <2>4 DEF DeleteAsset, TypeOK
    <3>2. Deleted(u, h, asked) \subseteq copies[<<u, h>>]
      BY DEF Deleted
    <3>3. copies'[<<u, h>>] = copies[<<u, h>>]
      BY <1>1 DEF fileVars
    <3>4. QED
      BY <2>4, <3>1, <3>2, <3>3
  <2>5. QED
    BY <1>5, <2>1, <2>2, <2>3, <2>4, FirstSteps
<1>6. FreshInv(u)'
  BY <1>3, <1>4, <1>5 DEF FreshInv, At
<1>7. QED
  BY <1>2, <1>6

LEMMA RowsContinue ==
  ASSUME TypeOK, NEW u \in Users, NEW w \in Workers, Continues(w, u), FreshInv(u), CopiesInv(u)
  PROVE  FreshInv(u)' /\ CopiesInv(u)'
<1>1. BusyWith(u)' \subseteq {w} /\ BusyWith(u) = {w}
  BY DEF Continues
<1>2. req[w].u = u
  BY OwnSteps
<1>3. ASSUME Answer(w) PROVE FreshInv(u)'
  BY <1>1, <1>3 DEF FreshInv, BusyWith, At, Answer, Idle, TypeOK
<1>4. ASSUME UNCHANGED fileVars PROVE CopiesInv(u)'
  BY <1>4, FilesUnchanged DEF CopiesInv, SameFiles
<1>5. ASSUME req'[w].at \notin {"add", "only"} PROVE FreshInv(u)'
  BY <1>1, <1>5 DEF FreshInv, At
<1>6. CASE SchedulerCreate(w)
  <2>1. req[w] \in UploadReq
    BY <1>6, RequestAt DEF SchedulerCreate, At
  <2>2. Goto(w, "look") => req'[w].at = "look"
    BY <2>1 DEF Goto, TypeOK, UploadReq
  <2>3. QED
    BY <1>3, <1>4, <1>5, <1>6, <2>2 DEF SchedulerCreate
<1>7. CASE LookForAsset(w)
  <2>1. req[w] \in UploadReq
    BY <1>7, RequestAt DEF LookForAsset, At
  <2>2. /\ req'[w].at = "add" /\ req'[w].h = req[w].h
        /\ req'[w].fresh = (<<u, req[w].h>> \notin rows) /\ rows' = rows
    BY <1>2, <1>7, <2>1 DEF LookForAsset, TypeOK, UploadReq, fileVars
  <2>3. FreshInv(u)'
    BY <1>1, <2>2 DEF FreshInv, At
  <2>4. QED
    BY <1>4, <1>7, <2>3 DEF LookForAsset
<1>8. CASE AddAsset(w)
  <2>1. req[w] \in UploadReq /\ At(w, "add")
    BY <1>8, RequestAt DEF AddAsset, At
  <2>2. req[w].fresh <=> <<u, req[w].h>> \notin rows
    BY <1>1, <2>1 DEF FreshInv
  <2>3. CASE UNCHANGED fileVars
    BY <1>3, <1>4, <1>8, <2>3 DEF AddAsset
  <2>4. CASE AddAssetAndUpdateSize(u, req[w].h, req[w].g, req[w].missing \cup {req[w].first}, req[w].fresh)
    <3>1. req[w].h \in Hashes /\ req[w].first \in Areas
      BY <2>1 DEF UploadReq
    <3>2. <<u, req[w].h>> \in rows' /\ copies'[<<u, req[w].h>>] # {}
      BY <2>2, <2>4, <3>1 DEF AddAssetAndUpdateSize, TypeOK
    <3>3. \A h \in Hashes : h # req[w].h =>
            (<<u, h>> \in rows' <=> <<u, h>> \in rows) /\ copies'[<<u, h>>] = copies[<<u, h>>]
      BY <2>4, <3>1 DEF AddAssetAndUpdateSize, TypeOK
    <3>4. CopiesInv(u)'
      BY <3>2, <3>3 DEF CopiesInv
    <3>5. QED
      BY <1>3, <1>8, <3>4 DEF AddAsset
  <2>5. QED
    BY <1>2, <1>8, <2>3, <2>4 DEF AddAsset
<1>9. CASE DeleteArea(w)
  <2>1. req[w] \in DeleteReq /\ At(w, "only") /\ UNCHANGED fileVars
    BY <1>9, RequestAt DEF DeleteArea, At
  <2>2. /\ req'[w].at = "only" /\ req'[w].h = req[w].h /\ req'[w].areas = req[w].areas
        /\ req'[w].whole = req[w].whole
    BY <1>9, <2>1 DEF DeleteArea, TypeOK, DeleteReq
  <2>3. FreshInv(u)'
    BY <1>1, <2>1, <2>2 DEF FreshInv, At, fileVars
  <2>4. QED
    BY <1>4, <2>1, <2>3
<1>10. CASE EraseAsset(w)
  <2>1. req[w] \in DeleteReq /\ At(w, "only")
    BY <1>10, RequestAt DEF EraseAsset, At
  <2>2. /\ req[w].areas \subseteq copies[<<u, req[w].h>>] /\ req[w].areas # {}
        /\ req[w].whole <=> req[w].areas = copies[<<u, req[w].h>>]
    BY <1>1, <2>1 DEF FreshInv
  <2>3. PICK exec \in SUBSET req[w].areas :
          \/ UNCHANGED fileVars
          \/ DelAssetAndUpdateSize(u, req[w].h, exec, req[w].whole /\ exec = req[w].areas)
    BY <1>2, <1>10 DEF EraseAsset
  <2>4. CASE UNCHANGED fileVars
    BY <1>3, <1>4, <1>10, <2>4 DEF EraseAsset
  <2>5. CASE DelAssetAndUpdateSize(u, req[w].h, exec, req[w].whole /\ exec = req[w].areas)
    <3>1. req[w].h \in Hashes
      BY <2>1 DEF DeleteReq
    <3>2. <<u, req[w].h>> \in rows
      BY <2>2, <3>1 DEF CopiesInv
    <3>3. <<u, req[w].h>> \in rows' <=> copies'[<<u, req[w].h>>] # {}
      <4>1. copies'[<<u, req[w].h>>] = copies[<<u, req[w].h>>] \ exec
        BY <2>5, <3>1 DEF DelAssetAndUpdateSize, TypeOK
      <4>2. CASE req[w].whole /\ exec = req[w].areas
        BY <2>2, <2>5, <4>1, <4>2 DEF DelAssetAndUpdateSize
      <4>3. CASE ~ (req[w].whole /\ exec = req[w].areas)
        <5>1. rows' = rows
          BY <2>5, <4>3 DEF DelAssetAndUpdateSize
        <5>2. exec # copies[<<u, req[w].h>>]
          BY <2>2, <4>3
        <5>3. QED
          BY <2>2, <3>2, <4>1, <5>1, <5>2
      <4>4. QED
        BY <4>2, <4>3
    <3>4. \A h \in Hashes : h # req[w].h =>
            (<<u, h>> \in rows' <=> <<u, h>> \in rows) /\ copies'[<<u, h>>] = copies[<<u, h>>]
      BY <2>5, <3>1 DEF DelAssetAndUpdateSize, TypeOK
    <3>5. CopiesInv(u)'
      BY <3>3, <3>4 DEF CopiesInv
    <3>6. QED
      BY <1>3, <1>10, <3>5 DEF EraseAsset
  <2>6. QED
    BY <2>3, <2>4, <2>5
<1>11. CASE DeleteGroup(w) \/ InsertGroup(w) \/ UpdateParent(w)
  <2>1. Answer(w) /\ UNCHANGED <<rows, copies>>
    BY <1>11 DEF DeleteGroup, InsertGroup, UpdateParent, fileVars
  <2>2. CopiesInv(u)'
    BY <2>1 DEF CopiesInv
  <2>3. QED
    BY <1>3, <2>1, <2>2
<1>12. CASE WalkUp(w)
  <2>1. req[w] \in MoveReq /\ req[w].at = "walk" /\ UNCHANGED fileVars
    BY <1>12, RequestAt DEF WalkUp, At
  <2>2. Answer(w) \/ req'[w].at \in {"walk", "move"}
    BY <1>12, <2>1 DEF WalkUp, Goto, TypeOK, MoveReq
  <2>3. QED
    BY <1>3, <1>4, <1>5, <2>1, <2>2
<1>13. QED
  BY <1>6, <1>7, <1>8, <1>9, <1>10, <1>11, <1>12, OwnSteps

LEMMA RowsInvNext == TypeOK /\ LiveInv /\ AloneInv /\ RowsInv /\ [Next]_vars => RowsInv'
<1> SUFFICES ASSUME TypeOK, LiveInv, AloneInv, RowsInv, [Next]_vars, NEW u \in Users, u \notin overlap'
             PROVE  FreshInv(u)' /\ CopiesInv(u)'
  BY DEF RowsInv
<1>1. FreshInv(u) /\ CopiesInv(u)
  BY HistoryGrows DEF RowsInv
<1>2. CASE Nothing(u)
  <2>1. CopiesInv(u)'
    BY <1>1, <1>2 DEF Nothing, SameFiles, CopiesInv
  <2>2. ASSUME NEW w \in BusyWith(u)
        PROVE  /\ req'[w].at = "add" => (req'[w].fresh <=> <<u, req'[w].h>> \notin rows')
               /\ req'[w].at = "only" =>
                    /\ req'[w].areas \subseteq copies'[<<u, req'[w].h>>] /\ req'[w].areas # {}
                    /\ req'[w].whole <=> req'[w].areas = copies'[<<u, req'[w].h>>]
    <3>1. req'[w] = req[w] /\ w \in Workers
      BY <1>2 DEF Nothing, SameRequests, BusyWith
    <3>2. req[w].at \in {"add", "only"} => req[w].h \in Hashes
      BY <3>1, RequestAt DEF UploadReq, DeleteReq
    <3>3. CASE req[w].at \in {"add", "only"}
      <4>1. /\ <<u, req[w].h>> \in rows' <=> <<u, req[w].h>> \in rows
            /\ copies'[<<u, req[w].h>>] = copies[<<u, req[w].h>>]
        BY <1>2, <3>2, <3>3 DEF Nothing, SameFiles
      <4>2. QED
        BY <1>1, <2>2, <3>1, <4>1 DEF FreshInv, At
    <3>4. QED
      BY <3>1, <3>3
  <2>3. FreshInv(u)'
    BY <1>2, <2>2 DEF Nothing, SameRequests, FreshInv, At
  <2>4. QED
    BY <2>1, <2>3
<1>3. ASSUME NEW w \in Workers, Begins(w, u) PROVE FreshInv(u)' /\ CopiesInv(u)'
  BY <1>1, <1>3, RowsBegin
<1>4. ASSUME NEW w \in Workers, Moves(w, u) PROVE FreshInv(u)' /\ CopiesInv(u)'
  BY <1>1, <1>4 DEF Moves, FreshInv, CopiesInv
<1>5. ASSUME NEW w \in Workers, Continues(w, u) PROVE FreshInv(u)' /\ CopiesInv(u)'
  BY <1>1, <1>5, RowsContinue
<1>6. ASSUME NEW t \in tasks, TaskRuns(t, u) PROVE FreshInv(u)' /\ CopiesInv(u)'
  <2>1. FreshInv(u)'
    BY <1>6 DEF TaskRuns, FreshInv
  <2>2. CASE DeleteLevel(t)
    <3> DEFINE gone == {t.u} \X InGroups(t.u, t.at)
    <3>1. rows' = rows \ gone /\ copies' = [k \in Users \X Hashes |-> IF k \in gone THEN {} ELSE copies[k]]
      BY <2>2 DEF DeleteLevel, DeleteUserGroupAsset
    <3> HIDE DEF gone
    <3>2. \A h \in Hashes : <<u, h>> \in Users \X Hashes
      OBVIOUS
    <3>3. CopiesInv(u)'
      BY <1>1, <3>1, <3>2 DEF CopiesInv
    <3>4. QED
      BY <2>1, <3>3
  <2>3. CASE UNCHANGED fileVars
    BY <1>1, <2>1, <2>3 DEF CopiesInv, fileVars
  <2>4. QED
    BY <1>6, <2>2, <2>3 DEF TaskRuns, JobStep, FindOnly, RemoveOnly, NextLevel, LevelFails, JobFails
<1>7. QED
  BY <1>2, <1>3, <1>4, <1>5, <1>6, UserStep

\* A user who waits for each operation has a row for a file exactly when there
\* is a row for one of its areas, whatever areas deletions reach, whichever
\* group deletions fail and are done again, and whatever the others do.
THEOREM RowsAndCopiesAgree == Spec => []RowsHaveCopies
<1> DEFINE Inv == LiveInv /\ AloneInv /\ RowsInv
<1>1. Init => Inv
  BY LiveInvInit, AloneInvInit, RowsInvInit
<1>2. TypeOK /\ Inv /\ [Next]_vars => Inv'
  BY LiveInvNext, AloneInvNext, RowsInvNext
<1>3. Inv => RowsHaveCopies
  BY DEF RowsInv, CopiesInv, RowsHaveCopies, Quiet
<1>4. QED
  <2> HIDE DEF Inv
  <2> QED
    BY <1>1, <1>2, <1>3, TypeCorrect, PTL DEF Spec

-----------------------------------------------------------------------------
(* Groups below a group *)

LEMMA ReachLeast ==
  ASSUME NEW L, NEW P, NEW S, NEW D \in SUBSET Groups, S \subseteq D, Kids(L, P, D) \subseteq D
  PROVE  Reach(L, P, S) \subseteq D
BY DEF Reach

LEMMA ReachFacts ==
  ASSUME NEW L \in SUBSET Groups, NEW P, NEW S \in SUBSET Groups
  PROVE  /\ Reach(L, P, S) \in SUBSET Groups
         /\ S \subseteq Reach(L, P, S)
         /\ Kids(L, P, Reach(L, P, S)) \subseteq Reach(L, P, S)
<1>1. ASSUME NEW g \in Kids(L, P, Reach(L, P, S)) PROVE g \in Reach(L, P, S)
  <2>1. g \in L /\ g \in Groups /\ P[g] \in Reach(L, P, S)
    BY DEF Kids
  <2>2. ASSUME NEW D \in SUBSET Groups, S \subseteq D, Kids(L, P, D) \subseteq D PROVE g \in D
    <3>1. P[g] \in D
      BY <2>1, <2>2 DEF Reach
    <3>2. QED
      BY <2>1, <2>2, <3>1 DEF Kids
  <2>3. QED
    BY <2>1, <2>2 DEF Reach
<1>2. QED
  BY <1>1 DEF Reach

\* Nothing is below no groups.
LEMMA ReachNothing ==
  ASSUME NEW L, NEW P
  PROVE  Reach(L, P, {}) = {}
<1>1. Kids(L, P, {}) \subseteq {}
  BY DEF Kids
<1>2. QED
  BY <1>1, ReachLeast

\* Equal links, equal groups below.
LEMMA ReachSame ==
  ASSUME NEW L \in SUBSET Groups, NEW P, NEW Q, \A g \in L : Q[g] = P[g]
  PROVE  /\ \A D : Kids(L, Q, D) = Kids(L, P, D)
         /\ \A S : Reach(L, Q, S) = Reach(L, P, S)
<1>1. \A D : Kids(L, Q, D) = Kids(L, P, D)
  BY DEF Kids
<1>2. ASSUME NEW S PROVE Reach(L, Q, S) = Reach(L, P, S)
  <2>1. ASSUME NEW g \in Groups PROVE g \in Reach(L, Q, S) <=> g \in Reach(L, P, S)
    BY <1>1, Zenon DEF Reach
  <2>2. Reach(L, Q, S) \subseteq Groups /\ Reach(L, P, S) \subseteq Groups
    BY DEF Reach
  <2>3. QED
    BY <2>1, <2>2
<1>3. QED
  BY <1>1, <1>2

LEMMA SmallestNat ==
  ASSUME NEW B \in SUBSET Nat, B # {}
  PROVE  \E n \in B : \A m \in B : n <= m
<1>1. PICK n \in B : \A m \in B : <<m, n>> \notin OpToRel(<, Nat)
  BY NatLessThanWellFounded, WFMin
<1>2. \A m \in B : ~ (m < n)
  BY <1>1 DEF OpToRel
<1>3. QED
  BY <1>2

LevelsTo(u, g, k, f) ==
  f = [n \in 0 .. k |-> IF n = 0 THEN {g} ELSE Children(u, f[n - 1])]

LEMMA LevelsExist ==
  ASSUME NEW u, NEW g
  PROVE  \A k \in Nat : \E f : LevelsTo(u, g, k, f)
<1> DEFINE B == {k \in Nat : ~ \E f : LevelsTo(u, g, k, f)}
<1> SUFFICES ASSUME B # {} PROVE FALSE
  OBVIOUS
<1>1. PICK k \in B : \A m \in B : k <= m
  <2>1. B \in SUBSET Nat
    OBVIOUS
  <2> HIDE DEF B
  <2>2. QED
    BY <2>1, SmallestNat
<1>2. k \in Nat /\ ~ \E f : LevelsTo(u, g, k, f)
  BY <1>1
<1>3. CASE k = 0
  <2> DEFINE f == [n \in 0 .. 0 |-> {g}]
  <2>1. f = [n \in 0 .. 0 |-> IF n = 0 THEN {g} ELSE Children(u, f[n - 1])]
    OBVIOUS
  <2>2. LevelsTo(u, g, 0, f)
    BY <2>1 DEF LevelsTo
  <2>3. QED
    BY <1>2, <1>3, <2>2
<1>4. CASE k > 0
  <2>1. k - 1 \in Nat /\ k - 1 \notin B
    BY <1>1, <1>2, <1>4
  <2>2. PICK f : LevelsTo(u, g, k - 1, f)
    BY <2>1
  <2> DEFINE h == [n \in 0 .. k |-> IF n = 0 THEN {g} ELSE Children(u, f[n - 1])]
  <2>3. \A n \in 0 .. k - 1 : h[n] = f[n]
    <3>1. \A n \in 0 .. k - 1 : n \in 0 .. k
      BY <1>2, <1>4
    <3>2. \A n \in 0 .. k - 1 : f[n] = IF n = 0 THEN {g} ELSE Children(u, f[n - 1])
      BY <2>2, Zenon DEF LevelsTo
    <3>3. \A n \in 0 .. k : h[n] = IF n = 0 THEN {g} ELSE Children(u, f[n - 1])
      BY Zenon
    <3>4. QED
      BY <3>1, <3>2, <3>3, Zenon
  <2>4. h = [n \in 0 .. k |-> IF n = 0 THEN {g} ELSE Children(u, h[n - 1])]
    <3>1. \A n \in 0 .. k : n # 0 => n - 1 \in 0 .. k - 1
      BY <1>2, <1>4
    <3>2. \A n \in 0 .. k : n # 0 => f[n - 1] = h[n - 1]
      BY <2>3, <3>1
    <3>3. QED
      BY <3>2, Zenon
  <2> HIDE DEF h
  <2>5. LevelsTo(u, g, k, h)
    BY <2>4 DEF LevelsTo
  <2>6. QED
    BY <1>2, <2>5
<1>5. QED
  BY <1>2, <1>3, <1>4

LEMMA LevelUnfolded ==
  ASSUME NEW u, NEW g
  PROVE  /\ Level(u, g)[0] = {g}
         /\ \A n \in 1 .. MaxGroup : Level(u, g)[n] = Children(u, Level(u, g)[n - 1])
<1>1. Level(u, g) = CHOOSE f : LevelsTo(u, g, MaxGroup, f)
  BY Zenon DEF Level, LevelsTo
<1>2. \E f : LevelsTo(u, g, MaxGroup, f)
  BY LevelsExist, FilesAssumption
<1>3. LevelsTo(u, g, MaxGroup, Level(u, g))
  BY <1>1, <1>2, Zenon
<1>4. 0 \in 0 .. MaxGroup /\ \A n \in 1 .. MaxGroup : n \in 0 .. MaxGroup /\ n # 0
  BY FilesAssumption
<1> DEFINE l == Level(u, g)
<1>5. l = [n \in 0 .. MaxGroup |-> IF n = 0 THEN {g} ELSE Children(u, l[n - 1])]
  BY <1>3 DEF LevelsTo
<1> HIDE DEF l
<1>6. l[0] = {g} /\ \A n \in 1 .. MaxGroup : l[n] = Children(u, l[n - 1])
  BY <1>4, <1>5, Zenon
<1>7. QED
  BY <1>6 DEF l

\* The levels that a deletion collects are below the group.
LEMMA LevelsInReach ==
  ASSUME TypeOK, NEW u \in Users, NEW g \in Groups
  PROVE  /\ Level(u, g)[0] = {g}
         /\ \A n \in 1 .. MaxGroup : Level(u, g)[n] = Kids(live[u], parent, Level(u, g)[n - 1])
         /\ \A n \in 0 .. MaxGroup : Level(u, g)[n] \subseteq Reach(live[u], parent, {g})
<1> DEFINE R == Reach(live[u], parent, {g})
           l == Level(u, g)
<1>1. \A D : Children(u, D) = Kids(live[u], parent, D)
  BY DEF Children, Kids
<1>2. live[u] \in SUBSET Groups /\ {g} \in SUBSET Groups
  BY DEF TypeOK
<1>3. R \in SUBSET Groups /\ g \in R /\ Kids(live[u], parent, R) \subseteq R
  BY <1>2, ReachFacts
<1>4. l[0] = {g} /\ \A n \in 1 .. MaxGroup : l[n] = Kids(live[u], parent, l[n - 1])
  BY <1>1, LevelUnfolded
<1>5. \A n \in 0 .. MaxGroup : l[n] \subseteq R
  <2> DEFINE B == {n \in 0 .. MaxGroup : ~ (l[n] \subseteq R)}
  <2> SUFFICES ASSUME B # {} PROVE FALSE
    OBVIOUS
  <2> HIDE DEF R, l
  <2>1. PICK n \in B : \A m \in B : n <= m
    <3>1. B \in SUBSET Nat
      OBVIOUS
    <3> HIDE DEF B
    <3>2. QED
      BY <3>1, SmallestNat
  <2>2. n # 0
    BY <1>3, <1>4, <2>1
  <2>3. n \in 1 .. MaxGroup /\ n - 1 \in 0 .. MaxGroup /\ n - 1 \notin B
    BY <2>1, <2>2, FilesAssumption
  <2>4. l[n - 1] \subseteq R
    BY <2>3
  <2>5. Kids(live[u], parent, l[n - 1]) \subseteq Kids(live[u], parent, R)
    BY <2>4 DEF Kids
  <2>6. l[n] \subseteq R
    BY <1>3, <1>4, <2>3, <2>5
  <2>7. QED
    BY <2>1, <2>6
<1>6. QED
  BY <1>4, <1>5

\* They are all the groups below, when they come to an end.
LEMMA SubtreeIsReach ==
  ASSUME TypeOK, NEW u \in Users, NEW g \in Groups, Level(u, g)[MaxGroup] = {}
  PROVE  Subtree(u, g) = Reach(live[u], parent, {g})
<1> DEFINE R == Reach(live[u], parent, {g})
           l == Level(u, g)
<1>1. \A D : Children(u, D) = Kids(live[u], parent, D)
  BY DEF Children, Kids
<1>2. live[u] \in SUBSET Groups /\ {g} \in SUBSET Groups
  BY DEF TypeOK
<1>3. R \in SUBSET Groups /\ g \in R /\ Kids(live[u], parent, R) \subseteq R
  BY <1>2, ReachFacts
<1>4. l[0] = {g} /\ \A n \in 1 .. MaxGroup : l[n] = Kids(live[u], parent, l[n - 1])
  BY <1>1, LevelUnfolded
<1>5. Subtree(u, g) = UNION {l[n] : n \in 0 .. MaxGroup}
  BY DEF Subtree
<1>6. \A n \in 0 .. MaxGroup : l[n] \subseteq R
  BY LevelsInReach
<1>7. Subtree(u, g) \subseteq R
  BY <1>5, <1>6
<1>8. R \subseteq Subtree(u, g)
  <2> DEFINE T == Subtree(u, g)
  <2>1. T \in SUBSET Groups
    BY <1>3, <1>7
  <2>2. {g} \subseteq T
    BY <1>4, <1>5, FilesAssumption
  <2>3. ASSUME NEW x \in Kids(live[u], parent, T) PROVE x \in T
    <3>1. PICK n \in 0 .. MaxGroup : parent[x] \in l[n]
      BY <1>5, <2>3 DEF Kids
    <3>2. n # MaxGroup
      BY <3>1
    <3>3. n + 1 \in 1 .. MaxGroup /\ (n + 1) - 1 = n /\ n + 1 \in 0 .. MaxGroup
      BY <3>1, <3>2, FilesAssumption
    <3>4. x \in l[n + 1]
      <4> HIDE DEF l
      <4>1. l[n + 1] = Kids(live[u], parent, l[n])
        BY <1>4, <3>3
      <4>2. QED
        BY <3>1, <4>1 DEF Kids
    <3>5. QED
      BY <1>5, <3>3, <3>4
  <2> HIDE DEF T
  <2>4. R \subseteq T
    BY <2>1, <2>2, <2>3, ReachLeast
  <2>5. QED
    BY <2>4 DEF T
<1>9. QED
  BY <1>7, <1>8

-----------------------------------------------------------------------------
(* The groups that tasks will still delete *)

LEMMA ReachBetween ==
  ASSUME NEW L \in SUBSET Groups, NEW P, NEW S \in SUBSET Groups, NEW T \in SUBSET Groups,
         S \subseteq T, T \subseteq Reach(L, P, S)
  PROVE  Reach(L, P, T) = Reach(L, P, S)
<1> DEFINE A == Reach(L, P, S)
           B == Reach(L, P, T)
<1>1. A \in SUBSET Groups /\ S \subseteq A /\ Kids(L, P, A) \subseteq A
  BY ReachFacts
<1>2. B \in SUBSET Groups /\ T \subseteq B /\ Kids(L, P, B) \subseteq B
  BY ReachFacts
<1>3. A \subseteq B
  <2>1. S \subseteq B
    BY <1>2
  <2> HIDE DEF B
  <2>2. QED
    BY <1>2, <2>1, ReachLeast
<1>4. B \subseteq A
  <2>1. T \subseteq A
    OBVIOUS
  <2> HIDE DEF A
  <2>2. QED
    BY <1>1, <2>1, ReachLeast
<1>5. QED
  BY <1>3, <1>4

\* The rows of some groups A are deleted, out of those which the tasks have
\* come to.
LEMMA ReachWithout ==
  ASSUME NEW L \in SUBSET Groups, NEW P, NEW A \in SUBSET Groups,
         NEW R \in SUBSET Groups, NEW Q \in SUBSET Groups, NEW T \in SUBSET Groups,
         Q \subseteq R, R \subseteq Q \cup A, A \subseteq R, A \subseteq T
  PROVE  /\ A \subseteq Reach(L, P, R \cup Kids(L, P, T))
         /\ Reach(L \ A, P, Q \cup Kids(L \ A, P, T)) \subseteq Reach(L, P, R \cup Kids(L, P, T))
         /\ Reach(L, P, R \cup Kids(L, P, T)) \subseteq Reach(L \ A, P, Q \cup Kids(L \ A, P, T)) \cup A
<1> DEFINE S == R \cup Kids(L, P, T)
           S2 == Q \cup Kids(L \ A, P, T)
           D == Reach(L, P, S)
           E == Reach(L \ A, P, S2)
<1>0. D = Reach(L, P, S) /\ E = Reach(L \ A, P, S2)
  OBVIOUS
<1> HIDE DEF D, E
<1>1. S \in SUBSET Groups /\ S2 \in SUBSET Groups /\ L \ A \in SUBSET Groups
  BY DEF Kids
<1>2. D \in SUBSET Groups /\ S \subseteq D /\ Kids(L, P, D) \subseteq D
  <2> HIDE DEF S
  <2> QED
    BY <1>0, <1>1, ReachFacts
<1>3. E \in SUBSET Groups /\ S2 \subseteq E /\ Kids(L \ A, P, E) \subseteq E
  <2> HIDE DEF S2
  <2> QED
    BY <1>0, <1>1, ReachFacts
<1>4. A \subseteq D
  BY <1>2
<1>5. E \subseteq D
  <2>1. S2 \subseteq D /\ Kids(L \ A, P, D) \subseteq D
    BY <1>2 DEF Kids
  <2> HIDE DEF S2
  <2>2. Reach(L \ A, P, S2) \subseteq D
    BY <1>2, <2>1, ReachLeast
  <2>3. QED
    BY <1>0, <2>2
<1>6. D \subseteq E \cup A
  <2> DEFINE F == E \cup A
  <2>1. S \subseteq F
    BY <1>3 DEF Kids
  <2>2. Kids(L, P, F) \subseteq F
    BY <1>3 DEF Kids
  <2>3. F \in SUBSET Groups
    BY <1>3
  <2> HIDE DEF F, S
  <2>4. D \subseteq F
    BY <1>0, <2>1, <2>2, <2>3, ReachLeast
  <2>5. QED
    BY <2>4 DEF F
<1>7. QED
  BY <1>0, <1>4, <1>5, <1>6

LEMMA DoomedType ==
  ASSUME TypeOK, NEW u \in Users
  PROVE  /\ live[u] \in SUBSET Groups
         /\ AtRows(u) \in SUBSET Groups
         /\ Tops(u) \in SUBSET Groups
         /\ Kids(live[u], parent, Tops(u)) \in SUBSET Groups
         /\ Doomed(u) \in SUBSET Groups
         /\ AtRows(u) \subseteq Doomed(u) /\ AtRows(u) \subseteq Tops(u)
         /\ Kids(live[u], parent, Tops(u)) \subseteq Doomed(u)
         /\ Kids(live[u], parent, Doomed(u)) \subseteq Doomed(u)
<1>1. live[u] \in SUBSET Groups
  BY DEF TypeOK
<1>2. \A t \in GroupTasks(u) : t.at \in SUBSET Groups
  BY GroupTaskAt DEF GroupTasks, GroupTask
<1>3. AtRows(u) \in SUBSET Groups /\ Tops(u) \in SUBSET Groups /\ AtRows(u) \subseteq Tops(u)
  BY <1>2 DEF AtRows, Tops
<1>4. Kids(live[u], parent, Tops(u)) \in SUBSET Groups
  BY <1>1 DEF Kids
<1> DEFINE S == AtRows(u) \cup Kids(live[u], parent, Tops(u))
<1>5. S \in SUBSET Groups
  BY <1>3, <1>4
<1>6. Doomed(u) = Reach(live[u], parent, S)
  BY DEF Doomed
<1>7. Doomed(u) \in SUBSET Groups /\ S \subseteq Doomed(u) /\ Kids(live[u], parent, Doomed(u)) \subseteq Doomed(u)
  <2> HIDE DEF S
  <2> QED
    BY <1>1, <1>5, <1>6, ReachFacts
<1>8. QED
  BY <1>1, <1>3, <1>4, <1>7

LEMMA CalmDoomed ==
  ASSUME NEW u
  PROVE  /\ GroupTasks(u) = {} => Doomed(u) = {}
         /\ GroupTasks(u)' = {} => Doomed(u)' = {}
<1>1. ASSUME NEW L, NEW P, NEW R, NEW T, R = {}, T = {} PROVE Reach(L, P, R \cup Kids(L, P, T)) = {}
  <2>1. R \cup Kids(L, P, T) = {}
    BY <1>1 DEF Kids
  <2>2. QED
    BY <2>1, ReachNothing
<1>2. ASSUME GroupTasks(u) = {} PROVE Doomed(u) = {}
  <2>1. AtRows(u) = {} /\ Tops(u) = {}
    BY <1>2 DEF AtRows, Tops
  <2>2. QED
    BY <1>1, <2>1 DEF Doomed
<1>3. ASSUME GroupTasks(u)' = {} PROVE Doomed(u)' = {}
  <2>1. AtRows(u)' = {} /\ Tops(u)' = {}
    BY <1>3 DEF AtRows, Tops
  <2>2. QED
    BY <1>1, <2>1 DEF Doomed
<1>4. QED
  BY <1>2, <1>3

LEMMA SameDoomed ==
  ASSUME TypeOK, NEW u \in Users, SameGroups(u), SameTasks(u)
  PROVE  /\ Doomed(u)' = Doomed(u)
         /\ \A S : Reach(live'[u], parent', S) = Reach(live[u], parent, S)
<1>1. live[u] \in SUBSET Groups /\ live'[u] = live[u] /\ \A g \in live[u] : parent'[g] = parent[g]
  BY DEF TypeOK, SameGroups
<1>2. /\ \A D : Kids(live[u], parent', D) = Kids(live[u], parent, D)
      /\ \A S : Reach(live[u], parent', S) = Reach(live[u], parent, S)
  BY <1>1, ReachSame
<1>3. AtRows(u)' = AtRows(u) /\ Tops(u)' = Tops(u)
  BY DEF SameTasks, AtRows, Tops
<1>4. Doomed(u)' = Reach(live'[u], parent', AtRows(u)' \cup Kids(live'[u], parent', Tops(u)'))
  BY DEF Doomed
<1>5. QED
  BY <1>1, <1>2, <1>3, <1>4 DEF Doomed

\* How a step of a task changes the groups that tasks have come to.
LEMMA TopsBecome ==
  ASSUME TypeOK, NEW u \in Users, NEW t \in GroupTasks(u), NEW new, Become(t, new),
         \A s \in new : s.kind = "group" /\ s.u = u
  PROVE  /\ \A g \in Tops(u)' : g \in Tops(u) \/ \E s \in new : g \in s.at
         /\ \A s \in new : s.at \subseteq Tops(u)'
         /\ Tops(u) \subseteq Tops(u)' \cup t.at
         /\ \A g \in AtRows(u)' : g \in AtRows(u) \/ \E s \in new : s.step = "rows" /\ g \in s.at
         /\ \A s \in new : s.step = "rows" => s.at \subseteq AtRows(u)'
         /\ AtRows(u) \subseteq AtRows(u)' \cup (IF t.step = "rows" THEN t.at ELSE {})
         /\ t.at \subseteq Tops(u) /\ (t.step = "rows" => t.at \subseteq AtRows(u))
<1>1. GroupTasks(u)' = (GroupTasks(u) \ {t}) \cup new
  BY DEF GroupTasks, Become
<1>2. \A g : g \in Tops(u) <=> \E s \in GroupTasks(u) : g \in s.at
  BY DEF Tops
<1>3. \A g : g \in Tops(u)' <=> \E s \in GroupTasks(u)' : g \in s.at
  BY DEF Tops
<1>4. \A g : g \in AtRows(u) <=> \E s \in GroupTasks(u) : s.step = "rows" /\ g \in s.at
  BY DEF AtRows
<1>5. \A g : g \in AtRows(u)' <=> \E s \in GroupTasks(u)' : s.step = "rows" /\ g \in s.at
  BY DEF AtRows
<1>6. /\ \A g \in Tops(u)' : g \in Tops(u) \/ \E s \in new : g \in s.at
      /\ \A s \in new : s.at \subseteq Tops(u)'
      /\ Tops(u) \subseteq Tops(u)' \cup t.at
  BY <1>1, <1>2, <1>3
<1>7. /\ \A g \in AtRows(u)' : g \in AtRows(u) \/ \E s \in new : s.step = "rows" /\ g \in s.at
      /\ \A s \in new : s.step = "rows" => s.at \subseteq AtRows(u)'
  BY <1>1, <1>4, <1>5
<1>8. AtRows(u) \subseteq AtRows(u)' \cup (IF t.step = "rows" THEN t.at ELSE {})
  BY <1>1, <1>4, <1>5
<1>9. t.at \subseteq Tops(u) /\ (t.step = "rows" => t.at \subseteq AtRows(u))
  BY <1>2, <1>4
<1>10. QED
  BY <1>6, <1>7, <1>8, <1>9

\* The groups of a task stay when it goes on at the same level.
LEMMA TopsStay ==
  ASSUME TypeOK, NEW u \in Users, NEW t \in GroupTasks(u), NEW new, new # {}, Become(t, new),
         \A s \in new : s.kind = "group" /\ s.u = u /\ s.at = t.at
  PROVE  /\ Tops(u)' = Tops(u)
         /\ t.at \subseteq Tops(u) /\ (t.step = "rows" => t.at \subseteq AtRows(u))
         /\ AtRows(u) \subseteq AtRows(u)' \cup t.at
         /\ (\A s \in new : s.step # "rows") => AtRows(u)' \subseteq AtRows(u)
         /\ t.step # "rows" /\ (\A s \in new : s.step # "rows") => AtRows(u)' = AtRows(u)
         /\ t.step = "rows" /\ (\E s \in new : s.step = "rows") => AtRows(u)' = AtRows(u)
<1>1. /\ Tops(u)' \subseteq Tops(u) \cup t.at
      /\ t.at \subseteq Tops(u)'
      /\ Tops(u) \subseteq Tops(u)' \cup t.at
      /\ t.at \subseteq Tops(u) /\ (t.step = "rows" => t.at \subseteq AtRows(u))
      /\ \A g \in AtRows(u)' : g \in AtRows(u) \/ \E s \in new : s.step = "rows" /\ g \in t.at
      /\ \A s \in new : s.step = "rows" => t.at \subseteq AtRows(u)'
      /\ AtRows(u) \subseteq AtRows(u)' \cup t.at
      /\ t.step # "rows" => AtRows(u) \subseteq AtRows(u)'
  BY TopsBecome
<1>2. QED
  BY <1>1

\* The rows of the groups A of user u go, with the files in them;
\* the tasks still delete the rest of what they were to delete.
Loses(u, A) ==
  /\ A \subseteq Doomed(u)
  /\ Doomed(u)' \subseteq Doomed(u) /\ Doomed(u) \subseteq Doomed(u)' \cup A
  /\ live'[u] = live[u] \ A /\ parent' = parent
  /\ FilesOf(u)' = FilesOf(u) \ FilesIn(u, A)
  /\ \A h \in FilesOf(u)' : group'[<<u, h>>] = group[<<u, h>>]
  /\ used' = used

LEMMA LosesLevel ==
  ASSUME TypeOK, NEW u \in Users, NEW t \in GroupTasks(u), DeleteLevel(t)
  PROVE  Loses(u, t.at)
<1>1. t \in GroupTask /\ t.kind = "group" /\ t.u = u /\ t.step = "rows"
  BY GroupTaskAt DEF GroupTasks, DeleteLevel
<1>2. t.at \in SUBSET Groups
  BY <1>1 DEF GroupTask
<1> DEFINE s == [t EXCEPT !.step = "only"]
<1>3. Become(t, {s})
  BY DEF DeleteLevel
<1>4. s.kind = "group" /\ s.u = u /\ s.at = t.at /\ s.step = "only"
  BY <1>1 DEF GroupTask
<1> HIDE DEF s
<1>5. /\ Tops(u)' = Tops(u)
      /\ AtRows(u)' \subseteq AtRows(u) /\ AtRows(u) \subseteq AtRows(u)' \cup t.at
      /\ t.at \subseteq AtRows(u) /\ t.at \subseteq Tops(u)
  <2> DEFINE new == {s}
  <2>1. new # {} /\ Become(t, new) /\ \A r \in new : r.kind = "group" /\ r.u = u /\ r.at = t.at /\ r.step # "rows"
    BY <1>3, <1>4
  <2> HIDE DEF new
  <2>2. QED
    BY <1>1, <2>1, TopsStay
<1>6. live'[u] = live[u] \ t.at /\ parent' = parent /\ used' = used
  BY <1>1 DEF DeleteLevel, DeleteUserGroupAsset, TypeOK
<1>7. /\ Doomed(u) = Reach(live[u], parent, AtRows(u) \cup Kids(live[u], parent, Tops(u)))
      /\ Doomed(u)' = Reach(live[u] \ t.at, parent, AtRows(u)' \cup Kids(live[u] \ t.at, parent, Tops(u)))
  BY <1>5, <1>6 DEF Doomed
<1>8. /\ live[u] \in SUBSET Groups /\ AtRows(u) \in SUBSET Groups /\ Tops(u) \in SUBSET Groups
      /\ AtRows(u)' \in SUBSET Groups
  BY <1>5, DoomedType
<1>9. t.at \subseteq Doomed(u) /\ Doomed(u)' \subseteq Doomed(u) /\ Doomed(u) \subseteq Doomed(u)' \cup t.at
  <2> DEFINE A == t.at
             L == live[u]
             R == AtRows(u)
             Q == AtRows(u)'
             T == Tops(u)
             D == Doomed(u)
             E == Doomed(u)'
  <2>1. /\ L \in SUBSET Groups /\ A \in SUBSET Groups /\ R \in SUBSET Groups /\ Q \in SUBSET Groups
        /\ T \in SUBSET Groups /\ Q \subseteq R /\ R \subseteq Q \cup A /\ A \subseteq R /\ A \subseteq T
    BY <1>2, <1>5, <1>8
  <2>2. D = Reach(L, parent, R \cup Kids(L, parent, T)) /\ E = Reach(L \ A, parent, Q \cup Kids(L \ A, parent, T))
    BY <1>7
  <2> HIDE DEF A, L, R, Q, T, D, E
  <2>3. A \subseteq D /\ E \subseteq D /\ D \subseteq E \cup A
    BY <2>1, <2>2, ReachWithout
  <2>4. QED
    BY <2>3 DEF A, D, E
<1>10. /\ rows' = rows \ ({u} \X InGroups(u, t.at))
       /\ group' = [k \in Users \X Hashes |-> IF k \in {u} \X InGroups(u, t.at) THEN Root ELSE group[k]]
  BY <1>1 DEF DeleteLevel, DeleteUserGroupAsset
<1>11. InGroups(u, t.at) = FilesIn(u, t.at)
  BY DEF InGroups, FilesIn
<1>12. FilesOf(u)' = FilesOf(u) \ FilesIn(u, t.at)
  BY <1>10, <1>11 DEF FilesOf
<1>13. \A h \in FilesOf(u)' : group'[<<u, h>>] = group[<<u, h>>]
  <2>1. \A h \in FilesOf(u)' : h \in Hashes /\ h \notin FilesIn(u, t.at)
    BY <1>12 DEF FilesOf
  <2>2. \A h \in FilesOf(u)' : <<u, h>> \in Users \X Hashes /\ <<u, h>> \notin {u} \X FilesIn(u, t.at)
    BY <2>1
  <2>3. QED
    BY <1>10, <1>11, <2>2
<1>14. QED
  BY <1>6, <1>9, <1>12, <1>13 DEF Loses

\* A step of a task that leaves the rows alone and goes on with the same groups,
\* or with those below.
LEMMA LosesNothing ==
  ASSUME TypeOK, NEW u \in Users, NEW t \in GroupTasks(u),
         FindOnly(t) \/ RemoveOnly(t) \/ LevelFails(t)
  PROVE  Loses(u, {})
<1>1. t \in GroupTask /\ t.kind = "group" /\ t.u = u
  BY GroupTaskAt DEF GroupTasks
<1>2. live' = live /\ parent' = parent /\ used' = used /\ rows' = rows /\ group' = group
  BY DEF FindOnly, RemoveOnly, LevelFails, fileVars, groupVars
<1>3. Tops(u)' = Tops(u) /\ AtRows(u)' = AtRows(u)
  <2>1. CASE FindOnly(t)
    <3> DEFINE only == OnlyAssets(t.u, t.at)
               s == [t EXCEPT !.step = IF only = {} THEN "next" ELSE "remove", !.doomed = only]
    <3>1. Become(t, {s}) /\ t.step = "only"
      BY <2>1 DEF FindOnly
    <3>2. s.kind = "group" /\ s.u = u /\ s.at = t.at /\ s.step # "rows"
      BY <1>1 DEF GroupTask
    <3> HIDE DEF s
    <3> DEFINE new == {s}
    <3>3. new # {} /\ Become(t, new) /\ \A r \in new : r.kind = "group" /\ r.u = u /\ r.at = t.at /\ r.step # "rows"
      BY <3>1, <3>2
    <3> HIDE DEF new
    <3>4. QED
      BY <3>1, <3>3, TopsStay
  <2>2. CASE RemoveOnly(t)
    <3> DEFINE s == [t EXCEPT !.step = "next", !.doomed = {}]
    <3>1. Become(t, {s}) /\ t.step = "remove"
      BY <2>2 DEF RemoveOnly
    <3>2. s.kind = "group" /\ s.u = u /\ s.at = t.at /\ s.step # "rows"
      BY <1>1 DEF GroupTask
    <3> HIDE DEF s
    <3> DEFINE new == {s}
    <3>3. new # {} /\ Become(t, new) /\ \A r \in new : r.kind = "group" /\ r.u = u /\ r.at = t.at /\ r.step # "rows"
      BY <3>1, <3>2
    <3> HIDE DEF new
    <3>4. QED
      BY <3>1, <3>3, TopsStay
  <2>3. CASE LevelFails(t)
    <3> DEFINE r == [t EXCEPT !.step = "next"]
               s == [t EXCEPT !.from = t.at]
    <3>1. Become(t, {r, s}) /\ t.step = "rows"
      BY <2>3 DEF LevelFails
    <3>2. r.kind = "group" /\ r.u = u /\ r.at = t.at /\ r.step = "next"
      BY <1>1 DEF GroupTask
    <3>3. s.kind = "group" /\ s.u = u /\ s.at = t.at /\ s.step = "rows"
      BY <1>1, <3>1 DEF GroupTask
    <3> HIDE DEF r, s
    <3> DEFINE new == {r, s}
    <3>4. \A x \in new : x.kind = "group" /\ x.u = u /\ x.at = t.at
      BY <3>2, <3>3
    <3>5. s \in new /\ new # {} /\ Become(t, new)
      BY <3>1
    <3> HIDE DEF new
    <3>6. QED
      BY <3>1, <3>3, <3>4, <3>5, TopsStay
  <2>4. QED
    BY <2>1, <2>2, <2>3
<1>4. Doomed(u)' = Doomed(u)
  BY <1>2, <1>3 DEF Doomed
<1>5. FilesOf(u)' = FilesOf(u) /\ FilesIn(u, {}) = {}
  BY <1>2 DEF FilesOf, FilesIn
<1>6. QED
  BY <1>2, <1>4, <1>5 DEF Loses

LEMMA LosesAtNext ==
  ASSUME TypeOK, NEW u \in Users, NEW t \in GroupTasks(u), NextLevel(t)
  PROVE  Loses(u, {})
<1>1. t \in GroupTask /\ t.kind = "group" /\ t.u = u /\ t.step = "next"
  BY GroupTaskAt DEF GroupTasks, NextLevel
<1>2. live' = live /\ parent' = parent /\ used' = used /\ rows' = rows /\ group' = group
  BY DEF NextLevel, fileVars, groupVars
<1> DEFINE below == Kids(live[u], parent, t.at)
           s == [t EXCEPT !.at = below, !.step = "rows"]
<1>3. Children(u, t.at) = below
  BY DEF Children, Kids
<1>4. (below = {} /\ Become(t, {})) \/ (below # {} /\ Become(t, {s}))
  BY <1>1, <1>3 DEF NextLevel
<1>5. s.kind = "group" /\ s.u = u /\ s.at = below /\ s.step = "rows"
  BY <1>1 DEF GroupTask
<1> DEFINE S == AtRows(u) \cup Kids(live[u], parent, Tops(u))
           T == AtRows(u)' \cup Kids(live[u], parent, Tops(u)')
<1>6. Doomed(u) = Reach(live[u], parent, S) /\ Doomed(u)' = Reach(live[u], parent, T)
  BY <1>2 DEF Doomed
<1>7. S \in SUBSET Groups /\ live[u] \in SUBSET Groups /\ S \subseteq Doomed(u)
      /\ Kids(live[u], parent, Doomed(u)) \subseteq Doomed(u) /\ Doomed(u) \in SUBSET Groups
  BY DoomedType
<1>8. below \subseteq S
  <2>1. t.at \subseteq Tops(u)
    BY DEF Tops
  <2>2. QED
    BY <2>1 DEF Kids
<1>9. S \subseteq T /\ T \subseteq Doomed(u)
  <2>1. CASE below = {} /\ Become(t, {})
    <3>1. Tops(u)' \subseteq Tops(u) /\ Tops(u) \subseteq Tops(u)' \cup t.at /\ AtRows(u)' = AtRows(u)
      BY <1>1, <2>1, TopsBecome
    <3>2. S \subseteq T /\ T \subseteq S
      BY <2>1, <3>1 DEF Kids
    <3>3. QED
      BY <1>7, <3>2
  <2>2. CASE below # {} /\ Become(t, {s})
    <3> HIDE DEF s
    <3>1. /\ Tops(u)' \subseteq Tops(u) \cup s.at /\ Tops(u) \subseteq Tops(u)' \cup t.at
          /\ AtRows(u) \subseteq AtRows(u)' /\ s.at \subseteq AtRows(u)'
          /\ AtRows(u)' \subseteq AtRows(u) \cup s.at
      BY <1>1, <1>5, <2>2, TopsBecome
    <3>2. S \subseteq T
      BY <1>5, <3>1 DEF Kids
    <3>3. below \subseteq Doomed(u)
      BY <1>7, <1>8
    <3>4. Kids(live[u], parent, below) \subseteq Doomed(u)
      <4>1. Kids(live[u], parent, below) \subseteq Kids(live[u], parent, Doomed(u))
        BY <3>3 DEF Kids
      <4>2. QED
        BY <1>7, <4>1
    <3>5. Kids(live[u], parent, Tops(u)') \subseteq Kids(live[u], parent, Tops(u)) \cup Kids(live[u], parent, below)
      BY <1>5, <3>1 DEF Kids
    <3>6. T \subseteq Doomed(u)
      BY <1>5, <1>7, <3>1, <3>3, <3>4, <3>5
    <3>7. QED
      BY <3>2, <3>6
  <2>3. QED
    BY <1>4, <2>1, <2>2
<1>10. Doomed(u)' = Doomed(u)
  <2>1. T \in SUBSET Groups
    BY <1>7, <1>9
  <2> HIDE DEF S, T
  <2>2. QED
    BY <1>6, <1>7, <1>9, <2>1, ReachBetween
<1>11. FilesOf(u)' = FilesOf(u) /\ FilesIn(u, {}) = {}
  BY <1>2 DEF FilesOf, FilesIn
<1>12. QED
  BY <1>2, <1>10, <1>11 DEF Loses

LEMMA TaskLoses ==
  ASSUME TypeOK, NEW u \in Users, NEW t \in tasks, TaskRuns(t, u), ~ fault'
  PROVE  \E A \in SUBSET Groups : Loses(u, A)
<1>1. t \in GroupTasks(u)
  BY DEF TaskRuns
<1>2. ~ JobFails(t)
  BY DEF JobFails, Fault
<1>3. t.at \in SUBSET Groups
  BY <1>1, GroupTaskAt DEF GroupTasks, GroupTask
<1>4. QED
  BY <1>1, <1>2, <1>3, LosesLevel, LosesNothing, LosesAtNext DEF TaskRuns, JobStep

\* The row of a group goes, and a task for what is below it comes.
LEMMA LosesGroup ==
  ASSUME TypeOK, NEW u \in Users, NEW w \in Workers, Continues(w, u), DeleteGroup(w), ~ fault'
  PROVE  LET g == req[w].g
         IN  /\ g \in Groups
             /\ live'[u] = live[u] \ {g} /\ parent' = parent
             /\ Doomed(u)' = Reach(live[u], parent, {g})
             /\ UNCHANGED <<rows, group>> /\ used'[u] = used[u] - req[w].size
<1>1. req[w] \in DropReq /\ req[w].u = u /\ GroupTasks(u) = {}
  BY OwnSteps, RequestAt DEF DeleteGroup, At, Continues
<1> DEFINE g == req[w].g
           s == NewGroupTask(u, {g})
<1>2. g \in Groups
  BY <1>1 DEF DropReq
<1>3. live'[u] = live[u] \ {g} /\ parent' = parent /\ UNCHANGED <<rows, group>> /\ used'[u] = used[u] - req[w].size
  BY <1>1 DEF DeleteGroup, DeleteGroupRow, TypeOK
<1>4. tasks' = tasks \cup {s}
  BY <1>1 DEF DeleteGroup, Swallowed, Fault, Enqueue
<1>5. GroupTasks(u)' = {s} /\ s.at = {g} /\ s.step = "rows"
  BY <1>1, <1>4 DEF GroupTasks, NewGroupTask
<1> HIDE DEF s
<1>6. AtRows(u)' = {g} /\ Tops(u)' = {g}
  BY <1>5 DEF AtRows, Tops
<1> DEFINE L == live[u]
           T == {g} \cup Kids(L \ {g}, parent, {g})
           D == Reach(L, parent, {g})
           E == Reach(L \ {g}, parent, T)
<1>7. Doomed(u)' = E
  BY <1>3, <1>6 DEF Doomed
<1>8. L \in SUBSET Groups /\ L \ {g} \in SUBSET Groups /\ {g} \in SUBSET Groups /\ T \in SUBSET Groups
  BY <1>2 DEF Kids, TypeOK
<1>9. D \in SUBSET Groups /\ {g} \subseteq D /\ Kids(L, parent, D) \subseteq D
  BY <1>8, ReachFacts
<1>10. E \in SUBSET Groups /\ T \subseteq E /\ Kids(L \ {g}, parent, E) \subseteq E
  <2> HIDE DEF T
  <2> QED
    BY <1>8, ReachFacts
<1>11. E \subseteq D
  <2> HIDE DEF D, g
  <2>1. T \subseteq D /\ Kids(L \ {g}, parent, D) \subseteq D
    BY <1>9 DEF Kids
  <2> HIDE DEF T
  <2>2. QED
    BY <1>9, <2>1, ReachLeast
<1>12. D \subseteq E
  <2> HIDE DEF E, g
  <2>1. {g} \subseteq E /\ Kids(L, parent, E) \subseteq E
    BY <1>10 DEF Kids
  <2>2. QED
    BY <1>10, <2>1, ReachLeast
<1>13. QED
  BY <1>2, <1>3, <1>7, <1>11, <1>12

-----------------------------------------------------------------------------
(* Storage that is charged *)

LEMMA SizeOfSplit ==
  ASSUME NEW s \in SUBSET Hashes, NEW t \in SUBSET s
  PROVE  SizeOf(s) = SizeOf(s \ t) + SizeOf(t)
<1>1. s = (s \ t) \cup t /\ (s \ t) \cap t = {} /\ s \ t \in SUBSET Hashes /\ t \in SUBSET Hashes
  OBVIOUS
<1>2. SizeOf((s \ t) \cup t) = SizeOf(s \ t) + SizeOf(t)
  BY <1>1, SizeOfUnion
<1>3. QED
  BY <1>1, <1>2

LEMMA FilesType == \A u : FilesOf(u) \in SUBSET Hashes /\ \A gs : FilesIn(u, gs) \in SUBSET FilesOf(u)
BY DEF FilesOf, FilesIn

\* While no task deletes groups of theirs, users are charged for their files.
LEMMA CalmCharged ==
  ASSUME NEW u
  PROVE  /\ GroupTasks(u) = {} => (ChargedInv(u) <=> used[u] = SizeOf(FilesOf(u)))
         /\ GroupTasks(u)' = {} => (ChargedInv(u)' <=> used'[u] = SizeOf(FilesOf(u)'))
<1>1. ASSUME GroupTasks(u) = {} PROVE ChargedInv(u) <=> used[u] = SizeOf(FilesOf(u))
  <2>1. Doomed(u) = {}
    BY <1>1, CalmDoomed
  <2>2. FilesOf(u) \ FilesIn(u, Doomed(u)) = FilesOf(u)
    BY <2>1 DEF FilesIn
  <2>3. QED
    BY <2>2 DEF ChargedInv
<1>2. ASSUME GroupTasks(u)' = {} PROVE ChargedInv(u)' <=> used'[u] = SizeOf(FilesOf(u)')
  <2>1. Doomed(u)' = {}
    BY <1>2, CalmDoomed
  <2>2. FilesIn(u, Doomed(u))' = {}
    BY <2>1 DEF FilesIn
  <2>3. (FilesOf(u) \ FilesIn(u, Doomed(u)))' = FilesOf(u)'
    BY <2>2
  <2>4. QED
    BY <2>3 DEF ChargedInv
<1>3. QED
  BY <1>1, <1>2

LEMMA UsedInvInit == Init => UsedInv
<1> SUFFICES ASSUME Init, NEW u \in Users PROVE ChargedInv(u) /\ DropInv(u)
  BY DEF UsedInv
<1>1. GroupTasks(u) = {} /\ BusyWith(u) = {}
  BY DEF Init, GroupTasks, BusyWith, At, Idle
<1>2. used[u] = SizeOf(FilesOf(u))
  BY DEF Init
<1>3. QED
  BY <1>1, <1>2, TypeInit, CalmCharged DEF DropInv

LEMMA SameFilesOf ==
  ASSUME NEW u \in Users, SameFiles(u)
  PROVE  /\ FilesOf(u)' = FilesOf(u) /\ used'[u] = used[u]
         /\ \A gs : {h \in FilesOf(u)' : group'[<<u, h>>] \in gs} = FilesIn(u, gs)
BY DEF SameFiles, FilesOf, FilesIn

LEMMA ChargedNothing ==
  ASSUME TypeOK, NEW u \in Users, SameFiles(u), SameGroups(u), SameTasks(u), ChargedInv(u)
  PROVE  ChargedInv(u)'
<1>1. Doomed(u)' = Doomed(u)
  BY SameDoomed
<1>2. FilesIn(u, Doomed(u))' = FilesIn(u, Doomed(u))
  BY <1>1, SameFilesOf DEF FilesIn
<1>3. QED
  BY <1>2, SameFilesOf DEF ChargedInv

LEMMA DropNothing ==
  ASSUME TypeOK, NEW u \in Users, Nothing(u), DropInv(u)
  PROVE  DropInv(u)'
<1> SUFFICES ASSUME NEW w \in BusyWith(u)', req'[w].at = "drop"
             PROVE  req'[w].size = SizeOf({h \in FilesOf(u)' : group'[<<u, h>>] \in Reach(live'[u], parent', {req'[w].g})})
  BY DEF DropInv, At, FilesIn
<1>1. w \in BusyWith(u) /\ req'[w] = req[w]
  BY DEF Nothing, SameRequests
<1>2. req[w].size = SizeOf(FilesIn(u, Reach(live[u], parent, {req[w].g})))
  BY <1>1 DEF DropInv, At
<1>3. Reach(live'[u], parent', {req'[w].g}) = Reach(live[u], parent, {req[w].g})
  BY <1>1, SameDoomed DEF Nothing
<1>4. QED
  BY <1>1, <1>2, <1>3, SameFilesOf DEF Nothing

LEMMA UsedBegin ==
  ASSUME TypeOK, NEW u \in Users, NEW w \in Workers, Begins(w, u), ChargedInv(u)
  PROVE  ChargedInv(u)' /\ DropInv(u)'
<1>1. SameFiles(u) /\ SameGroups(u) /\ SameTasks(u)
  BY FilesUnchanged, GroupsUnchanged, TasksUnchanged DEF Begins, Arrived
<1>2. ChargedInv(u)'
  BY <1>1, ChargedNothing
<1>3. BusyWith(u)' = {w}
  BY DEF Begins
<1>4. ASSUME req'[w].at = "drop"
      PROVE  req'[w].size = SizeOf({h \in FilesOf(u)' : group'[<<u, h>>] \in Reach(live'[u], parent', {req'[w].g})})
  <2>1. ASSUME NEW h \in load.hashes, NEW asked \in SUBSET load.areas,
               DeleteAsset(w, u, h, asked), Deleted(u, h, asked) # {}
        PROVE  FALSE
    BY <1>4, <2>1 DEF DeleteAsset, TypeOK
  <2>2. ASSUME NEW g, CreateGroup(w, u, g) PROVE FALSE
    BY <1>4, <2>2 DEF CreateGroup, TypeOK, Arrives, At
  <2>3. ASSUME NEW g, NEW t, MoveGroup(w, u, g, t) PROVE FALSE
    BY <1>4, <2>3 DEF MoveGroup, TypeOK, Arrives, At
  <2>4. PICK g \in 1 .. load.lastGroup : DropGroup(w, u, g)
    BY <1>4, <2>1, <2>2, <2>3, FirstSteps
  <2>5. g \in Groups
    BY LoadType
  <2>6. /\ req'[w].g = g
        /\ Level(u, g)[MaxGroup] = {}
        /\ req'[w].size = SizeOf({h \in FilesOf(u) : group[<<u, h>>] \in Subtree(u, g)})
    BY <1>4, <2>4 DEF DropGroup, TypeOK
  <2>7. Subtree(u, g) = Reach(live[u], parent, {g})
    BY <2>5, <2>6, SubtreeIsReach
  <2>8. Reach(live'[u], parent', {g}) = Reach(live[u], parent, {g})
    BY <1>1, SameDoomed
  <2>9. req'[w].size = SizeOf(FilesIn(u, Reach(live[u], parent, {g})))
    BY <2>6, <2>7 DEF FilesIn
  <2>10. {h \in FilesOf(u)' : group'[<<u, h>>] \in Reach(live[u], parent, {g})} = FilesIn(u, Reach(live[u], parent, {g}))
    BY <1>1, SameFilesOf
  <2>11. QED
    BY <2>6, <2>8, <2>9, <2>10
<1>5. DropInv(u)'
  BY <1>3, <1>4 DEF DropInv, At, FilesIn
<1>6. QED
  BY <1>2, <1>5

LEMMA UsedMoves ==
  ASSUME TypeOK, NEW u \in Users, NEW w \in Workers, Moves(w, u), ChargedInv(u)
  PROVE  ChargedInv(u)' /\ DropInv(u)'
<1>1. GroupTasks(u) = {} /\ GroupTasks(u)' = {} /\ BusyWith(u)' = {}
  BY DEF Moves, Calm, GroupTasks
<1>2. used[u] = SizeOf(FilesOf(u))
  BY <1>1, CalmCharged
<1>3. used'[u] = SizeOf(FilesOf(u)')
  BY <1>2 DEF Moves, FilesOf
<1>4. QED
  BY <1>1, <1>3, CalmCharged DEF DropInv

\* What a request with no task has to leave as it was.
LEMMA UsedFinish ==
  ASSUME NEW u \in Users, NEW w \in Workers, BusyWith(u)' \subseteq {w},
         GroupTasks(u)' = {}, used'[u] = SizeOf(FilesOf(u)'), req'[w].at # "drop"
  PROVE  ChargedInv(u)' /\ DropInv(u)'
<1>1. DropInv(u)'
  BY DEF DropInv, At
<1>2. QED
  BY <1>1, CalmCharged

LEMMA UsedContinue ==
  ASSUME TypeOK, NEW u \in Users, NEW w \in Workers, Continues(w, u), ~ fault',
         FreshInv(u), CopiesInv(u), ChargedInv(u), DropInv(u)
  PROVE  ChargedInv(u)' /\ DropInv(u)'
<1>1. /\ BusyWith(u)' \subseteq {w} /\ BusyWith(u) = {w} /\ GroupTasks(u) = {}
      /\ SameTasks(u) \/ DeleteGroup(w)
  BY DEF Continues
<1>2. req[w].u = u /\ req[w].at # "idle"
  BY OwnSteps
<1>3. used[u] = SizeOf(FilesOf(u)) /\ FilesOf(u) \in SUBSET Hashes
  BY <1>1, CalmCharged, FilesType
<1>4. ASSUME Answer(w) PROVE req'[w].at # "drop"
  BY <1>4 DEF Answer, Idle, TypeOK
<1>5. ASSUME UNCHANGED fileVars, ~ DeleteGroup(w), req'[w].at # "drop"
      PROVE  ChargedInv(u)' /\ DropInv(u)'
  <2>1. GroupTasks(u)' = {}
    BY <1>1, <1>5 DEF SameTasks
  <2>2. used'[u] = SizeOf(FilesOf(u)')
    BY <1>3, <1>5 DEF fileVars, FilesOf
  <2>3. QED
    BY <1>1, <1>5, <2>1, <2>2, UsedFinish
<1>6. CASE SchedulerCreate(w) \/ LookForAsset(w) \/ DeleteArea(w) \/ WalkUp(w)
  <2>1. UNCHANGED fileVars /\ ~ DeleteGroup(w)
    BY <1>6 DEF SchedulerCreate, LookForAsset, DeleteArea, WalkUp, DeleteGroup, At
  <2>2. req'[w].at # "drop"
    <3>1. CASE SchedulerCreate(w)
      BY <1>4, <3>1, RequestAt DEF SchedulerCreate, Goto, At, UploadReq, TypeOK
    <3>2. CASE LookForAsset(w)
      BY <3>2, RequestAt DEF LookForAsset, At, UploadReq, TypeOK
    <3>3. CASE DeleteArea(w)
      BY <3>3, RequestAt DEF DeleteArea, At, DeleteReq, TypeOK
    <3>4. CASE WalkUp(w)
      BY <1>4, <3>4, RequestAt DEF WalkUp, Goto, At, MoveReq, TypeOK
    <3>5. QED
      BY <1>6, <3>1, <3>2, <3>3, <3>4
  <2>3. QED
    BY <1>5, <2>1, <2>2
<1>7. CASE InsertGroup(w) \/ UpdateParent(w)
  <2>1. UNCHANGED fileVars /\ ~ DeleteGroup(w) /\ Answer(w)
    BY <1>7 DEF InsertGroup, UpdateParent, DeleteGroup, At
  <2>2. QED
    BY <1>4, <1>5, <2>1
<1>8. CASE AddAsset(w)
  <2>1. req[w] \in UploadReq /\ At(w, "add") /\ Answer(w) /\ ~ DeleteGroup(w)
    BY <1>8, RequestAt DEF AddAsset, At, DeleteGroup
  <2>2. req[w].fresh <=> <<u, req[w].h>> \notin rows
    BY <1>1, <2>1 DEF FreshInv
  <2>3. CASE UNCHANGED fileVars
    BY <1>4, <1>5, <2>1, <2>3
  <2>4. CASE AddAssetAndUpdateSize(u, req[w].h, req[w].g, req[w].missing \cup {req[w].first}, req[w].fresh)
    <3> DEFINE h == req[w].h
    <3>1. h \in Hashes
      BY <2>1 DEF UploadReq
    <3>2. used'[u] = SizeOf(FilesOf(u)')
      <4>1. CASE req[w].fresh
        <5>1. rows' = rows \cup {<<u, h>>} /\ used'[u] = used[u] + Size[h]
          BY <2>4, <4>1 DEF AddAssetAndUpdateSize, TypeOK
        <5>2. FilesOf(u)' = FilesOf(u) \cup {h}
          BY <3>1, <5>1 DEF FilesOf
        <5>3. h \in Hashes \ FilesOf(u)
          BY <2>2, <3>1, <4>1 DEF FilesOf
        <5>4. SizeOf(FilesOf(u) \cup {h}) = SizeOf(FilesOf(u)) + Size[h]
          BY <1>3, <5>3, SizeOfAdd
        <5>5. QED
          BY <1>3, <5>1, <5>2, <5>4
      <4>2. CASE ~ req[w].fresh
        BY <1>3, <2>4, <4>2 DEF AddAssetAndUpdateSize, FilesOf
      <4>3. QED
        BY <4>1, <4>2
    <3>3. GroupTasks(u)' = {}
      BY <1>1, <2>1 DEF SameTasks
    <3>4. QED
      BY <1>1, <1>4, <2>1, <3>2, <3>3, UsedFinish
  <2>5. QED
    BY <1>2, <1>8, <2>3, <2>4 DEF AddAsset
<1>9. CASE EraseAsset(w)
  <2>1. req[w] \in DeleteReq /\ At(w, "only") /\ Answer(w) /\ ~ DeleteGroup(w)
    BY <1>9, RequestAt DEF EraseAsset, At, DeleteGroup
  <2>2. req[w].areas \subseteq copies[<<u, req[w].h>>] /\ req[w].areas # {}
    BY <1>1, <2>1 DEF FreshInv
  <2>3. PICK exec \in SUBSET req[w].areas :
          \/ UNCHANGED fileVars
          \/ DelAssetAndUpdateSize(u, req[w].h, exec, req[w].whole /\ exec = req[w].areas)
    BY <1>2, <1>9 DEF EraseAsset
  <2>4. CASE UNCHANGED fileVars
    BY <1>4, <1>5, <2>1, <2>4
  <2>5. CASE DelAssetAndUpdateSize(u, req[w].h, exec, req[w].whole /\ exec = req[w].areas)
    <3> DEFINE h == req[w].h
               whole == req[w].whole /\ exec = req[w].areas
    <3>1. h \in FilesOf(u)
      BY <2>1, <2>2 DEF DeleteReq, CopiesInv, FilesOf
    <3>2. used'[u] = SizeOf(FilesOf(u)')
      <4>1. CASE whole
        <5>1. rows' = rows \ {<<u, h>>} /\ used'[u] = Max({used[u] - Size[h], 0})
          BY <2>5, <4>1 DEF DelAssetAndUpdateSize, TypeOK
        <5>2. FilesOf(u)' = FilesOf(u) \ {h}
          BY <5>1 DEF FilesOf
        <5> DEFINE r == FilesOf(u) \ {h}
        <5>3. r \in SUBSET Hashes /\ h \in Hashes \ r /\ r \cup {h} = FilesOf(u)
          BY <1>3, <3>1
        <5>4. SizeOf(r \cup {h}) = SizeOf(r) + Size[h] /\ SizeOf(r) \in Nat /\ Size[h] \in Nat
          <6> HIDE DEF r, h
          <6>1. SizeOf(r \cup {h}) = SizeOf(r) + Size[h]
            BY <5>3, SizeOfAdd
          <6>2. QED
            BY <5>3, <6>1, SizeOfNat, FilesAssumption
        <5>5. used[u] = SizeOf(r \cup {h}) /\ FilesOf(u)' = r
          BY <1>3, <5>2, <5>3
        <5> HIDE DEF r, h
        <5>6. used[u] - Size[h] = SizeOf(r) /\ SizeOf(r) >= 0 /\ SizeOf(r) \in Int /\ 0 \in Int
          BY <5>4, <5>5
        <5>7. Max({SizeOf(r), 0}) = SizeOf(r)
          BY <5>6, MaxOfTwo
        <5>8. QED
          BY <5>1, <5>5, <5>6, <5>7
      <4>2. CASE ~ whole
        BY <1>3, <2>5, <4>2 DEF DelAssetAndUpdateSize, FilesOf
      <4>3. QED
        BY <4>1, <4>2
    <3>3. GroupTasks(u)' = {}
      BY <1>1, <2>1 DEF SameTasks
    <3>4. QED
      BY <1>1, <1>4, <2>1, <3>2, <3>3, UsedFinish
  <2>6. QED
    BY <2>3, <2>4, <2>5
<1>10. CASE DeleteGroup(w)
  <2>1. Answer(w) /\ At(w, "drop")
    BY <1>10 DEF DeleteGroup
  <2>2. DropInv(u)'
    BY <1>1, <1>4, <2>1 DEF DropInv, At
  <2> DEFINE D == Reach(live[u], parent, {req[w].g})
  <2>3. Doomed(u)' = D /\ UNCHANGED <<rows, group>> /\ used'[u] = used[u] - req[w].size
    BY <1>10, LosesGroup
  <2>4. req[w].size = SizeOf(FilesIn(u, D))
    BY <1>1, <2>1 DEF DropInv
  <2> HIDE DEF D
  <2>5. FilesOf(u)' = FilesOf(u) /\ FilesIn(u, Doomed(u))' = FilesIn(u, D)
    BY <2>3 DEF FilesOf, FilesIn
  <2>6. FilesIn(u, D) \in SUBSET FilesOf(u)
    BY FilesType
  <2>7. /\ SizeOf(FilesOf(u)) = SizeOf(FilesOf(u) \ FilesIn(u, D)) + SizeOf(FilesIn(u, D))
        /\ SizeOf(FilesOf(u) \ FilesIn(u, D)) \in Nat /\ SizeOf(FilesIn(u, D)) \in Nat
    <3>1. FilesOf(u) \ FilesIn(u, D) \in SUBSET Hashes /\ FilesIn(u, D) \in SUBSET Hashes
      BY <1>3, <2>6
    <3>2. QED
      BY <1>3, <2>6, <3>1, SizeOfSplit, SizeOfNat
  <2>8. used'[u] = SizeOf(FilesOf(u) \ FilesIn(u, D))
    BY <1>3, <2>3, <2>4, <2>7
  <2>9. ChargedInv(u)'
    BY <2>5, <2>8 DEF ChargedInv
  <2>10. QED
    BY <2>2, <2>9
<1>11. QED
  BY <1>6, <1>7, <1>8, <1>9, <1>10, OwnSteps

LEMMA UsedTask ==
  ASSUME TypeOK, NEW u \in Users, NEW t \in tasks, TaskRuns(t, u), ~ fault', ChargedInv(u)
  PROVE  ChargedInv(u)' /\ DropInv(u)'
<1>1. DropInv(u)'
  BY DEF TaskRuns, DropInv
<1>2. PICK A \in SUBSET Groups : Loses(u, A)
  BY TaskLoses
<1> DEFINE D == Doomed(u)
           E == Doomed(u)'
<1>3. A \subseteq D /\ E \subseteq D /\ D \subseteq E \cup A
  BY <1>2 DEF Loses
<1>4. /\ FilesOf(u)' = FilesOf(u) \ FilesIn(u, A) /\ used'[u] = used[u]
      /\ \A h \in FilesOf(u)' : group'[<<u, h>>] = group[<<u, h>>]
  BY <1>2 DEF Loses
<1> DEFINE G == FilesIn(u, Doomed(u))'
<1>5. G = {h \in FilesOf(u)' : group'[<<u, h>>] \in E}
  BY DEF FilesIn
<1> HIDE DEF D, E, G
<1>6. FilesOf(u)' \ G = FilesOf(u) \ FilesIn(u, D)
  BY <1>3, <1>4, <1>5 DEF FilesIn
<1>7. ChargedInv(u)'
  BY <1>4, <1>6 DEF ChargedInv, D, G
<1>8. QED
  BY <1>1, <1>7

LEMMA UsedInvNext == TypeOK /\ LiveInv /\ AloneInv /\ RowsInv /\ UsedInv /\ [Next]_vars => UsedInv'
<1> SUFFICES ASSUME TypeOK, LiveInv, AloneInv, RowsInv, UsedInv, [Next]_vars, ~ fault',
                    NEW u \in Users, u \notin overlap'
             PROVE  ChargedInv(u)' /\ DropInv(u)'
  BY DEF UsedInv
<1>1. FreshInv(u) /\ CopiesInv(u) /\ ChargedInv(u) /\ DropInv(u)
  BY HistoryGrows DEF RowsInv, UsedInv
<1>2. CASE Nothing(u)
  BY <1>1, <1>2, ChargedNothing, DropNothing DEF Nothing
<1>3. QED
  BY <1>1, <1>2, UserStep, UsedBegin, UsedMoves, UsedContinue, UsedTask

\* A user who waits for each operation and its tasks to end is charged for the
\* user's files, whatever the others do, unless an error was swallowed.
THEOREM ChargesAreRight == Spec => []UsedIsSum
<1> DEFINE Inv == LiveInv /\ AloneInv /\ RowsInv /\ UsedInv
<1>1. Init => Inv
  BY LiveInvInit, AloneInvInit, RowsInvInit, UsedInvInit
<1>2. TypeOK /\ Inv /\ [Next]_vars => Inv'
  BY LiveInvNext, AloneInvNext, RowsInvNext, UsedInvNext
<1>3. Inv => UsedIsSum
  <2> SUFFICES ASSUME Inv, NEW u \in Users, Quiet(u) PROVE used[u] = SizeOf(FilesOf(u))
    BY DEF UsedIsSum
  <2>1. GroupTasks(u) = {}
    BY DEF Quiet, Busy, GroupTasks
  <2>2. ChargedInv(u)
    BY DEF Quiet, UsedInv
  <2>3. QED
    BY <2>1, <2>2, CalmCharged
<1>4. QED
  <2> HIDE DEF Inv
  <2> QED
    BY <1>1, <1>2, <1>3, TypeCorrect, PTL DEF Spec

-----------------------------------------------------------------------------
(* The tree of groups *)

LEMMA RootNotGroup == Root \notin Groups
BY DEF Root, Groups

\* Equal links, equal circles and ways up.
LEMMA TreeSame ==
  ASSUME NEW L, NEW P, NEW Q, \A g \in L : Q[g] = P[g]
  PROVE  /\ NoCircle(L, P) => NoCircle(L, Q)
         /\ \A g, t, top : Above(L, P, g, t, top) => Above(L, Q, g, t, top)
         /\ \A r : WalkOk(L, P, r) => WalkOk(L, Q, r)
<1>1. NoCircle(L, P) => NoCircle(L, Q)
  BY DEF NoCircle
<1>2. ASSUME NEW g, NEW t, NEW top, Above(L, P, g, t, top) PROVE Above(L, Q, g, t, top)
  <2>1. PICK V \in SUBSET L : g \notin V /\ t \in V \cup {top} /\ \A x \in V : P[x] \in V \cup {top}
    BY <1>2 DEF Above
  <2>2. \A x \in V : Q[x] \in V \cup {top}
    BY <2>1
  <2>3. QED
    BY <2>1, <2>2 DEF Above
<1>3. \A r : WalkOk(L, P, r) => WalkOk(L, Q, r)
  BY <1>2 DEF WalkOk
<1>4. QED
  BY <1>1, <1>2, <1>3

LEMMA NoCircleSubset ==
  ASSUME NEW L, NEW P, NoCircle(L, P), NEW M \in SUBSET L
  PROVE  NoCircle(M, P)
BY DEF NoCircle

\* A new group under one that is there.
LEMMA NoCircleInsert ==
  ASSUME NEW L \in SUBSET Groups, NEW P, NoCircle(L, P), \A x \in L : P[x] \in L \cup {Root},
         NEW n \in Groups, n \notin L, NEW Q, \A x \in L : Q[x] = P[x], Q[n] \in L \cup {Root}
  PROVE  NoCircle(L \cup {n}, Q)
<1> SUFFICES ASSUME NEW C \in SUBSET (L \cup {n}), C # {} PROVE \E c \in C : Q[c] \notin C
  BY DEF NoCircle
<1>1. n # Root
  BY RootNotGroup
<1>2. CASE C = {n}
  BY <1>1, <1>2
<1>3. CASE C # {n}
  <2>1. C \ {n} \in SUBSET L /\ C \ {n} # {}
    BY <1>3
  <2>2. PICK c \in C \ {n} : P[c] \notin C \ {n}
    BY <2>1 DEF NoCircle
  <2>3. c \in L /\ P[c] # n /\ Q[c] = P[c]
    BY <1>1, <2>1, <2>2
  <2>4. QED
    BY <2>2, <2>3
<1>4. QED
  BY <1>2, <1>3

\* A group under one from which the way up does not lead to it.
LEMMA NoCircleMove ==
  ASSUME NEW L \in SUBSET Groups, NEW P, NoCircle(L, P), NEW g \in L, NEW t,
         Above(L, P, g, t, Root),
         NEW Q, \A x \in L \ {g} : Q[x] = P[x], Q[g] = t
  PROVE  NoCircle(L, Q)
<1> SUFFICES ASSUME NEW C \in SUBSET L, C # {} PROVE \E c \in C : Q[c] \notin C
  BY DEF NoCircle
<1>1. PICK V \in SUBSET L : g \notin V /\ t \in V \cup {Root} /\ \A x \in V : P[x] \in V \cup {Root}
  BY DEF Above
<1>2. Root \notin C
  BY RootNotGroup
<1>3. CASE g \notin C
  <2>1. PICK c \in C : P[c] \notin C
    BY DEF NoCircle
  <2>2. QED
    BY <1>3, <2>1
<1>4. CASE g \in C /\ t \notin C
  BY <1>4
<1>5. CASE g \in C /\ t \in C
  <2>1. C \cap V # {} /\ C \cap V \in SUBSET L
    BY <1>1, <1>2, <1>5
  <2>2. PICK c \in C \cap V : P[c] \notin C \cap V
    BY <2>1 DEF NoCircle
  <2>3. P[c] \notin C
    BY <1>1, <1>2, <2>2
  <2>4. Q[c] = P[c]
    BY <1>1, <2>2
  <2>5. QED
    BY <2>2, <2>3, <2>4
<1>6. QED
  BY <1>3, <1>4, <1>5

\* One level further up.
LEMMA AboveUp ==
  ASSUME NEW L \in SUBSET Groups, NEW P, NEW g, NEW t, NEW up \in L, up # g, Above(L, P, g, t, up)
  PROVE  Above(L, P, g, t, P[up])
<1>1. PICK V \in SUBSET L : g \notin V /\ t \in V \cup {up} /\ \A x \in V : P[x] \in V \cup {up}
  BY DEF Above
<1> DEFINE W == V \cup {up}
<1>2. W \in SUBSET L /\ g \notin W /\ t \in W \cup {P[up]} /\ \A x \in W : P[x] \in W \cup {P[up]}
  BY <1>1
<1>3. QED
  BY <1>2 DEF Above

LEMMA AboveStart == ASSUME NEW L, NEW P, NEW g, NEW t PROVE Above(L, P, g, t, t)
<1>1. {} \in SUBSET L /\ g \notin {} /\ t \in {} \cup {t} /\ \A x \in {} : P[x] \in {} \cup {t}
  OBVIOUS
<1>2. QED
  BY <1>1 DEF Above

LEMMA TreeInvInit == Init => TreeInv
<1> SUFFICES ASSUME Init, NEW u \in Users
             PROVE  ClosedInv(u) /\ NoCircle(live[u], parent) /\ WalkInv(u)
  BY DEF TreeInv
<1>1. WalkInv(u)
  BY DEF Init, WalkInv, BusyWith, At, Idle
<1>2. live[u] \in SUBSET Groups
  BY TypeInit DEF TypeOK
<1>3. ASSUME NEW g \in live[u] PROVE parent[g] = Root \/ (parent[g] < g /\ parent[g] \in live[u])
  <2>1. \/ parent[g] = Root
        \/ parent[g] < g /\ \E v \in Users : {g, parent[g]} \subseteq live[v]
    BY <1>2 DEF Init
  <2>2. \A v \in Users : g \in live[v] => v = u
    BY <1>3 DEF Init
  <2>3. QED
    BY <2>1, <2>2
<1>4. ClosedInv(u)
  BY <1>3 DEF ClosedInv
<1>5. ASSUME NEW C \in SUBSET live[u], C # {} PROVE \E c \in C : parent[c] \notin C
  <2>1. C \in SUBSET Nat /\ Root \notin C
    BY <1>2, GroupsType, RootNotGroup
  <2>2. PICK c \in C : \A d \in C : c <= d
    BY <1>5, <2>1, SmallestNat
  <2>3. parent[c] \in Nat
    BY <1>2, GroupsType, TypeInit DEF TypeOK
  <2>4. c \in Nat /\ (parent[c] = Root \/ parent[c] < c)
    BY <1>3, <2>1
  <2>5. QED
    BY <2>1, <2>2, <2>3, <2>4
<1>6. QED
  BY <1>1, <1>4, <1>5 DEF NoCircle

LEMMA TreeNothing ==
  ASSUME TypeOK, NEW u \in Users, SameGroups(u), SameTasks(u), ClosedInv(u), NoCircle(live[u], parent)
  PROVE  ClosedInv(u)' /\ NoCircle(live'[u], parent')
<1>1. Doomed(u)' = Doomed(u)
  BY SameDoomed
<1>2. live'[u] = live[u] /\ \A g \in live[u] : parent'[g] = parent[g]
  BY DEF SameGroups
<1>3. QED
  BY <1>1, <1>2, TreeSame DEF ClosedInv

LEMMA WalkNothing ==
  ASSUME TypeOK, NEW u \in Users, SameGroups(u), SameRequests(u), WalkInv(u)
  PROVE  WalkInv(u)'
<1>1. live'[u] = live[u] /\ \A g \in live[u] : parent'[g] = parent[g]
  BY DEF SameGroups
<1>2. ASSUME NEW w \in BusyWith(u)' PROVE WalkOk(live'[u], parent', req'[w])
  <2>1. WalkOk(live[u], parent, req'[w])
    BY <1>2 DEF SameRequests, WalkInv
  <2>2. QED
    BY <1>1, <2>1, TreeSame
<1>3. QED
  BY <1>2 DEF WalkInv

LEMMA WalkBegin ==
  ASSUME TypeOK, NEW u \in Users, NEW w \in Workers, Begins(w, u)
  PROVE  WalkInv(u)'
<1>1. BusyWith(u)' = {w} /\ live' = live /\ parent' = parent
  BY DEF Begins, Arrived, groupVars
<1>2. At(w, "idle") /\ req'[w].at # "idle"
  <2>1. w \in BusyWith(u)'
    BY <1>1
  <2>2. QED
    BY <2>1 DEF Begins, BusyWith, Arrived, Arrives, At
<1>3. WalkOk(live[u], parent, req'[w])
  <2>1. CASE req'[w].at \in {"create", "look"}
    BY <2>1 DEF WalkOk
  <2>2. ASSUME NEW h \in load.hashes, NEW asked \in SUBSET load.areas,
               DeleteAsset(w, u, h, asked), Deleted(u, h, asked) # {}
        PROVE  WalkOk(live[u], parent, req'[w])
    <3>1. req'[w].at = "only"
      BY <2>2 DEF DeleteAsset, TypeOK
    <3>2. QED
      BY <3>1 DEF WalkOk
  <2>3. ASSUME NEW g \in 1 .. load.lastGroup, DropGroup(w, u, g) PROVE WalkOk(live[u], parent, req'[w])
    <3>1. req'[w].at \in {"drop", "spin"}
      BY <2>3 DEF DropGroup, TypeOK
    <3>2. QED
      BY <3>1 DEF WalkOk
  <2>4. ASSUME NEW g \in 0 .. load.lastGroup, CreateGroup(w, u, g) PROVE WalkOk(live[u], parent, req'[w])
    <3>1. g \in live[u] \cup {Root} /\ req'[w] = [at |-> "insert", u |-> u, g |-> g]
      BY <1>2, <2>4 DEF CreateGroup, TypeOK, At
    <3>2. QED
      BY <3>1 DEF WalkOk
  <2>5. ASSUME NEW g \in 1 .. load.lastGroup, NEW t \in 0 .. load.lastGroup, MoveGroup(w, u, g, t), g # t,
               t \in live[u] \cup {Root}
        PROVE  WalkOk(live[u], parent, req'[w])
    <3>1. req'[w] = [at |-> IF t = Root THEN "move" ELSE "walk", u |-> u, g |-> g, t |-> t, up |-> t]
      BY <2>5 DEF MoveGroup, TypeOK
    <3>2. Above(live[u], parent, g, t, t)
      BY AboveStart
    <3>3. QED
      BY <2>5, <3>1, <3>2 DEF WalkOk
  <2>6. QED
    BY <2>1, <2>2, <2>3, <2>4, <2>5, FirstSteps
<1>4. QED
  BY <1>1, <1>3 DEF WalkInv

\* A request that is over, or that is about files, has found nothing.
LEMMA WalkFinish ==
  ASSUME TypeOK, NEW u \in Users, NEW w \in Workers, BusyWith(u)' \subseteq {w},
         req'[w].at \notin {"insert", "walk", "move"}
  PROVE  WalkInv(u)'
BY DEF WalkInv, WalkOk

LEMMA TreeContinue ==
  ASSUME TypeOK, LiveInv, NEW u \in Users, NEW w \in Workers, Continues(w, u), ~ fault',
         ClosedInv(u), NoCircle(live[u], parent), WalkInv(u)
  PROVE  ClosedInv(u)' /\ NoCircle(live'[u], parent') /\ WalkInv(u)'
<1> DEFINE L == live[u]
<1>1. /\ BusyWith(u)' \subseteq {w} /\ BusyWith(u) = {w} /\ GroupTasks(u) = {}
      /\ SameTasks(u) \/ DeleteGroup(w)
  BY DEF Continues
<1>2. req[w].u = u /\ req[w].at # "idle"
  BY OwnSteps
<1>3. Doomed(u) = {} /\ L \in SUBSET Groups /\ WalkOk(L, parent, req[w])
  BY <1>1, CalmDoomed DEF TypeOK, WalkInv
<1>4. \A x \in L : parent[x] \in L \cup {Root}
  BY <1>3 DEF ClosedInv
<1>5. ASSUME Answer(w) PROVE WalkInv(u)'
  <2>1. req'[w].at = "idle"
    BY <1>5 DEF Answer, Idle, TypeOK
  <2>2. QED
    BY <1>1, <2>1, WalkFinish
<1>6. ASSUME UNCHANGED groupVars, ~ DeleteGroup(w) PROVE ClosedInv(u)' /\ NoCircle(live'[u], parent')
  <2>1. SameGroups(u) /\ SameTasks(u)
    BY <1>1, <1>6, GroupsUnchanged
  <2>2. QED
    BY <2>1, TreeNothing
<1>7. ASSUME SameTasks(u), \A x \in live'[u] : parent'[x] \in live'[u] \cup {Root} PROVE ClosedInv(u)'
  BY <1>7 DEF ClosedInv
<1>8. CASE SchedulerCreate(w) \/ LookForAsset(w) \/ AddAsset(w) \/ DeleteArea(w) \/ EraseAsset(w)
  <2>1. UNCHANGED groupVars /\ ~ DeleteGroup(w)
    BY <1>8 DEF SchedulerCreate, LookForAsset, AddAsset, DeleteArea, EraseAsset, DeleteGroup, At
  <2>2. CASE Answer(w)
    BY <1>5, <1>6, <2>1, <2>2
  <2>3. CASE ~ Answer(w)
    <3>1. req'[w].at \notin {"insert", "walk", "move"}
      <4>1. CASE SchedulerCreate(w)
        BY <2>3, <4>1, RequestAt DEF SchedulerCreate, Goto, At, UploadReq, TypeOK
      <4>2. CASE LookForAsset(w)
        BY <4>2, RequestAt DEF LookForAsset, At, UploadReq, TypeOK
      <4>3. CASE DeleteArea(w)
        BY <4>3, RequestAt DEF DeleteArea, At, DeleteReq, TypeOK
      <4>4. QED
        BY <1>8, <2>3, <4>1, <4>2, <4>3 DEF AddAsset, EraseAsset
    <3>2. QED
      BY <1>1, <1>6, <2>1, <3>1, WalkFinish
  <2>4. QED
    BY <2>2, <2>3
<1>9. CASE InsertGroup(w)
  <2>1. req[w] \in CreateReq /\ At(w, "insert") /\ Answer(w) /\ SameTasks(u)
    BY <1>9, RequestAt, TasksUnchanged DEF InsertGroup, At
  <2>2. req[w].g \in L \cup {Root}
    BY <1>3, <2>1 DEF WalkOk, At
  <2> DEFINE n == nextId + 1
  <2>3. n \in Groups /\ n \notin L
    BY <1>9, FilesAssumption DEF InsertGroup, TypeOK, LiveInv, Groups
  <2>4. live'[u] = L \cup {n} /\ parent' = [parent EXCEPT ![n] = req[w].g]
    BY <1>2, <1>9 DEF InsertGroup, TypeOK
  <2>5. parent'[n] = req[w].g /\ \A x \in L : parent'[x] = parent[x]
    BY <1>3, <2>3, <2>4 DEF TypeOK
  <2> HIDE DEF n
  <2>6. NoCircle(L \cup {n}, parent')
    BY <1>3, <1>4, <2>2, <2>3, <2>5, NoCircleInsert
  <2>7. \A x \in live'[u] : parent'[x] \in live'[u] \cup {Root}
    BY <1>4, <2>2, <2>4, <2>5
  <2>8. QED
    BY <1>5, <1>7, <2>1, <2>4, <2>6, <2>7
<1>10. CASE WalkUp(w)
  <2>1. req[w] \in MoveReq /\ At(w, "walk") /\ UNCHANGED groupVars /\ ~ DeleteGroup(w)
    BY <1>10, RequestAt DEF WalkUp, At, DeleteGroup
  <2>2. ClosedInv(u)' /\ NoCircle(live'[u], parent')
    BY <1>6, <2>1
  <2> DEFINE up == req[w].up
             g == req[w].g
             t == req[w].t
  <2>3. up \in L /\ up # g /\ Above(L, parent, g, t, up) /\ t \in L
    BY <1>3, <2>1 DEF WalkOk, At
  <2>4. Above(L, parent, g, t, parent[up])
    <3> HIDE DEF up, g, t
    <3> QED
      BY <1>3, <2>3, AboveUp
  <2>5. CASE Answer(w)
    BY <1>5, <2>2, <2>5
  <2>6. CASE parent[up] = Root /\ Goto(w, "move")
    <3>1. req'[w].at = "move" /\ req'[w].g = g /\ req'[w].t = t
      BY <2>1, <2>6 DEF Goto, TypeOK, MoveReq
    <3>2. WalkOk(L, parent, req'[w])
      BY <2>3, <2>4, <2>6, <3>1 DEF WalkOk
    <3>3. QED
      BY <1>1, <2>1, <2>2, <3>2 DEF WalkInv, groupVars
  <2>7. CASE parent[up] \notin {Root, g} /\ req' = [req EXCEPT ![w].up = parent[up]]
    <3>1. req'[w].at = "walk" /\ req'[w].g = g /\ req'[w].t = t /\ req'[w].up = parent[up]
      BY <2>1, <2>7 DEF TypeOK, MoveReq, At
    <3>2. parent[up] \in L
      BY <1>4, <2>3, <2>7
    <3>3. WalkOk(L, parent, req'[w])
      BY <2>3, <2>4, <2>7, <3>1, <3>2 DEF WalkOk
    <3>4. QED
      BY <1>1, <2>1, <2>2, <3>3 DEF WalkInv, groupVars
  <2>8. QED
    BY <1>10, <2>5, <2>6, <2>7 DEF WalkUp
<1>11. CASE UpdateParent(w)
  <2>1. req[w] \in MoveReq /\ At(w, "move") /\ Answer(w) /\ live' = live /\ SameTasks(u)
    BY <1>11, RequestAt, TasksUnchanged DEF UpdateParent, At
  <2> DEFINE g == req[w].g
             t == req[w].t
  <2>2. Above(L, parent, g, t, Root) /\ t \in L \cup {Root}
    BY <1>3, <2>1 DEF WalkOk, At
  <2>3. CASE g \in L
    <3>1. parent' = [parent EXCEPT ![g] = t] /\ g \in Groups
      BY <1>2, <1>3, <1>11, <2>3 DEF UpdateParent
    <3>2. parent'[g] = t /\ \A x \in L \ {g} : parent'[x] = parent[x]
      BY <1>3, <3>1 DEF TypeOK
    <3> HIDE DEF g, t
    <3>3. NoCircle(L, parent')
      BY <1>3, <2>2, <2>3, <3>2, NoCircleMove
    <3>4. \A x \in L : parent'[x] \in L \cup {Root}
      BY <1>4, <2>2, <3>2
    <3>5. QED
      BY <1>5, <1>7, <2>1, <3>3, <3>4
  <2>4. CASE g \notin L
    <3>1. parent' = parent
      BY <1>2, <1>11, <2>4 DEF UpdateParent
    <3>2. QED
      BY <1>4, <1>5, <1>7, <2>1, <3>1
  <2>5. QED
    BY <2>3, <2>4
<1>12. CASE DeleteGroup(w)
  <2> DEFINE g == req[w].g
             D == Reach(L, parent, {g})
  <2>1. /\ g \in Groups /\ live'[u] = L \ {g} /\ parent' = parent
        /\ Doomed(u)' = D
    BY <1>12, LosesGroup
  <2>2. g \in D /\ Kids(L, parent, D) \subseteq D
    <3> HIDE DEF g
    <3> QED
      BY <1>3, <2>1, ReachFacts
  <2>3. Answer(w)
    BY <1>12 DEF DeleteGroup
  <2> HIDE DEF D, g
  <2>4. ASSUME NEW x \in L \ {g}, x \notin D PROVE parent[x] \in (L \ {g}) \cup {Root}
    BY <1>4, <2>2, <2>4 DEF Kids
  <2>5. ClosedInv(u)'
    BY <2>1, <2>4 DEF ClosedInv
  <2>6. NoCircle(live'[u], parent')
    BY <2>1, NoCircleSubset
  <2>7. QED
    BY <1>5, <2>3, <2>5, <2>6
<1>13. QED
  BY <1>8, <1>9, <1>10, <1>11, <1>12, OwnSteps

LEMMA TreeTask ==
  ASSUME TypeOK, NEW u \in Users, NEW t \in tasks, TaskRuns(t, u), ~ fault',
         ClosedInv(u), NoCircle(live[u], parent)
  PROVE  ClosedInv(u)' /\ NoCircle(live'[u], parent') /\ WalkInv(u)'
<1>1. WalkInv(u)'
  BY DEF TaskRuns, WalkInv
<1>2. PICK A \in SUBSET Groups : Loses(u, A)
  BY TaskLoses
<1>3. /\ A \subseteq Doomed(u) /\ Doomed(u) \subseteq Doomed(u)' \cup A
      /\ live'[u] = live[u] \ A /\ parent' = parent
  BY <1>2 DEF Loses
<1>4. Kids(live[u], parent, Doomed(u)) \subseteq Doomed(u)
  BY DoomedType
<1>5. ASSUME NEW g \in live[u] \ A, g \notin Doomed(u)' PROVE parent[g] \in (live[u] \ A) \cup {Root}
  <2>1. g \notin Doomed(u)
    BY <1>3, <1>5
  <2>2. parent[g] \notin A
    BY <1>3, <1>4, <2>1 DEF Kids
  <2>3. QED
    BY <2>1, <2>2 DEF ClosedInv
<1>6. ClosedInv(u)'
  BY <1>3, <1>5 DEF ClosedInv
<1>7. NoCircle(live'[u], parent')
  BY <1>3, NoCircleSubset
<1>8. QED
  BY <1>1, <1>6, <1>7

LEMMA TreeInvNext == TypeOK /\ LiveInv /\ AloneInv /\ TreeInv /\ [Next]_vars => TreeInv'
<1> SUFFICES ASSUME TypeOK, LiveInv, AloneInv, TreeInv, [Next]_vars, ~ fault',
                    NEW u \in Users, u \notin overlap'
             PROVE  ClosedInv(u)' /\ NoCircle(live'[u], parent') /\ WalkInv(u)'
  BY DEF TreeInv
<1>1. ClosedInv(u) /\ NoCircle(live[u], parent) /\ WalkInv(u)
  BY HistoryGrows DEF TreeInv
<1>2. CASE Nothing(u)
  BY <1>1, <1>2, TreeNothing, WalkNothing DEF Nothing
<1>3. ASSUME NEW w \in Workers, Begins(w, u) PROVE ClosedInv(u)' /\ NoCircle(live'[u], parent') /\ WalkInv(u)'
  <2>1. SameGroups(u) /\ SameTasks(u)
    BY <1>3, GroupsUnchanged, TasksUnchanged DEF Begins, Arrived
  <2>2. QED
    BY <1>1, <1>3, <2>1, TreeNothing, WalkBegin
<1>4. ASSUME NEW w \in Workers, Moves(w, u) PROVE ClosedInv(u)' /\ NoCircle(live'[u], parent') /\ WalkInv(u)'
  <2>1. SameGroups(u) /\ SameTasks(u)
    BY <1>4, GroupsUnchanged, TasksUnchanged DEF Moves
  <2>2. WalkInv(u)'
    BY <1>4 DEF Moves, WalkInv
  <2>3. QED
    BY <1>1, <2>1, <2>2, TreeNothing
<1>5. QED
  BY <1>1, <1>2, <1>3, <1>4, UserStep, TreeContinue, TreeTask

\* In a tree the levels under a group come to an end.
LEMMA LevelsEnd ==
  ASSUME TypeOK, NEW u \in Users, NEW g \in Groups, NoCircle(live[u], parent)
  PROVE  Level(u, g)[MaxGroup] = {}
<1> DEFINE L == live[u]
           R == Reach(L, parent, {g})
           l == Level(u, g)
<1>1. L \in SUBSET Groups /\ {g} \in SUBSET Groups
  BY DEF TypeOK
<1>2. R \in SUBSET Groups /\ g \in R /\ Kids(L, parent, R) \subseteq R
  BY <1>1, ReachFacts
<1>3. /\ l[0] = {g}
      /\ \A n \in 1 .. MaxGroup : l[n] = Kids(L, parent, l[n - 1])
      /\ \A n \in 0 .. MaxGroup : l[n] \subseteq R
  BY LevelsInReach
<1>4. MaxGroup \in Nat
  BY FilesAssumption
<1>5. g \notin Kids(L, parent, R)
  <2> SUFFICES ASSUME g \in Kids(L, parent, R) PROVE FALSE
    OBVIOUS
  <2> DEFINE K == Kids(L, parent, R)
  <2>1. K \in SUBSET Groups /\ {g} \subseteq K /\ Kids(L, parent, K) \subseteq K
    <3> HIDE DEF R
    <3> QED
      BY <1>1, <1>2 DEF Kids
  <2>2. R \subseteq K
    <3> HIDE DEF K
    <3> QED
      BY <1>1, <2>1, ReachLeast
  <2>3. R \in SUBSET L /\ \A c \in R : parent[c] \in R
    BY <2>2 DEF Kids
  <2>4. QED
    BY <1>2, <2>3 DEF NoCircle
<1> HIDE DEF L, R, l
<1>6. \A i, j \in 0 .. MaxGroup : i < j => l[i] \cap l[j] = {}
  <2> DEFINE B == {i \in 0 .. MaxGroup : \E j \in 0 .. MaxGroup : i < j /\ l[i] \cap l[j] # {}}
  <2> SUFFICES ASSUME B # {} PROVE FALSE
    OBVIOUS
  <2>1. PICK i \in B : \A m \in B : i <= m
    <3>1. B \in SUBSET Nat
      OBVIOUS
    <3> HIDE DEF B
    <3>2. QED
      BY <3>1, SmallestNat
  <2>2. PICK j \in 0 .. MaxGroup : i < j /\ l[i] \cap l[j] # {}
    BY <2>1
  <2>3. i \in 0 .. MaxGroup /\ j \in 1 .. MaxGroup /\ j - 1 \in 0 .. MaxGroup
    BY <1>4, <2>1, <2>2
  <2>4. PICK x : x \in l[i] /\ x \in l[j]
    BY <2>2
  <2>5. x \in L /\ parent[x] \in l[j - 1]
    BY <1>3, <2>3, <2>4 DEF Kids
  <2>6. i # 0
    <3> SUFFICES ASSUME i = 0 PROVE FALSE
      OBVIOUS
    <3>1. x = g
      BY <1>3, <2>4
    <3>2. parent[x] \in R
      BY <1>3, <2>3, <2>5
    <3>3. QED
      BY <1>5, <2>5, <3>1, <3>2 DEF Kids
  <2>7. i \in 1 .. MaxGroup /\ i - 1 \in 0 .. MaxGroup /\ i - 1 < j - 1
    BY <1>4, <2>2, <2>3, <2>6
  <2>8. parent[x] \in l[i - 1]
    BY <1>3, <2>4, <2>7 DEF Kids
  <2>9. i - 1 \in B
    BY <2>3, <2>5, <2>7, <2>8
  <2>10. QED
    BY <1>4, <2>1, <2>7, <2>9
<1>7. \A n \in 1 .. MaxGroup : l[n] # {} => l[n - 1] # {}
  BY <1>3 DEF Kids
<1> SUFFICES ASSUME l[MaxGroup] # {} PROVE FALSE
  BY DEF l
<1>8. \A n \in 0 .. MaxGroup : l[n] # {}
  <2> DEFINE B == {k \in 0 .. MaxGroup : l[MaxGroup - k] = {}}
  <2> SUFFICES ASSUME B # {} PROVE FALSE
    <3>1. \A n \in 0 .. MaxGroup : MaxGroup - n \in 0 .. MaxGroup /\ MaxGroup - (MaxGroup - n) = n
      BY <1>4
    <3>2. QED
      BY <3>1
  <2>1. PICK k \in B : \A m \in B : k <= m
    <3>1. B \in SUBSET Nat
      OBVIOUS
    <3> HIDE DEF B
    <3>2. QED
      BY <3>1, SmallestNat
  <2>2. k \in 0 .. MaxGroup /\ l[MaxGroup - k] = {}
    BY <2>1
  <2>3. k # 0
    BY <1>4, <2>2
  <2>4. k - 1 \in 0 .. MaxGroup /\ MaxGroup - (k - 1) \in 1 .. MaxGroup
        /\ (MaxGroup - (k - 1)) - 1 = MaxGroup - k /\ k - 1 < k
    BY <1>4, <2>2, <2>3
  <2>5. l[MaxGroup - (k - 1)] # {}
    <3>1. k - 1 \notin B
      BY <1>4, <2>1, <2>2, <2>4
    <3>2. QED
      BY <2>4, <3>1
  <2>6. QED
    BY <1>7, <2>2, <2>4, <2>5
<1> DEFINE f == [n \in 0 .. MaxGroup |-> CHOOSE x : x \in l[n]]
<1>9. \A n \in 0 .. MaxGroup : f[n] \in l[n]
  BY <1>8
<1>10. f \in [0 .. MaxGroup -> Groups]
  BY <1>2, <1>3, <1>9
<1>11. /\ IsFiniteSet(0 .. MaxGroup) /\ Cardinality(0 .. MaxGroup) = MaxGroup + 1
       /\ IsFiniteSet(Groups) /\ Cardinality(Groups) = MaxGroup
  <2>1. IsFiniteSet(0 .. MaxGroup) /\ Cardinality(0 .. MaxGroup) = IF 0 > MaxGroup THEN 0 ELSE MaxGroup - 0 + 1
    BY <1>4, FS_Interval
  <2>2. IsFiniteSet(1 .. MaxGroup) /\ Cardinality(1 .. MaxGroup) = IF 1 > MaxGroup THEN 0 ELSE MaxGroup - 1 + 1
    BY <1>4, FS_Interval
  <2>3. QED
    BY <1>4, <2>1, <2>2 DEF Groups
<1> HIDE DEF f
<1>12. PICK i \in 0 .. MaxGroup, j \in 0 .. MaxGroup : i # j /\ f[i] = f[j]
  <2>1. Cardinality(Groups) < Cardinality(0 .. MaxGroup)
    BY <1>4, <1>11
  <2>2. QED
    BY <1>10, <1>11, <2>1, FS_PigeonHole, ZenonT(40)
<1>13. f[i] \in l[i] /\ f[i] \in l[j] /\ (i < j \/ j < i)
  BY <1>4, <1>9, <1>12
<1>14. QED
  BY <1>6, <1>13

\* The groups of a user who waits for each operation and its tasks to end form
\* a tree, and no walk through it runs for ever, unless an error was swallowed.
THEOREM GroupsHangTogether == Spec => []GroupsFormTree
<1> DEFINE Inv == LiveInv /\ AloneInv /\ TreeInv
<1>1. Init => Inv
  BY LiveInvInit, AloneInvInit, TreeInvInit
<1>2. TypeOK /\ Inv /\ [Next]_vars => Inv'
  BY LiveInvNext, AloneInvNext, TreeInvNext
<1>3. TypeOK /\ Inv => GroupsFormTree
  <2> SUFFICES ASSUME TypeOK, Inv, NEW u \in Users, Quiet(u), NEW g \in live[u]
               PROVE  parent[g] \in live[u] \cup {Root} /\ Level(u, g)[MaxGroup] = {}
    BY DEF GroupsFormTree
  <2>1. ClosedInv(u) /\ NoCircle(live[u], parent)
    BY DEF Quiet, TreeInv
  <2>2. Doomed(u) = {}
    <3>1. GroupTasks(u) = {}
      BY DEF Quiet, Busy, GroupTasks
    <3>2. QED
      BY <3>1, CalmDoomed
  <2>3. g \in Groups
    BY DEF TypeOK
  <2>4. QED
    BY <2>1, <2>2, <2>3, LevelsEnd DEF ClosedInv
<1>4. QED
  <2> HIDE DEF Inv
  <2> QED
    BY <1>1, <1>2, <1>3, TypeCorrect, PTL DEF Spec

=============================================================================
