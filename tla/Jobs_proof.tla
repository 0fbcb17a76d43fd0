----------------------------- MODULE Jobs_proof -----------------------------
(***************************************************************************)
(* Proofs about the work in the background: the types of its four jobs,    *)
(* and that the synchronisation of areas neither marks a copy that is not  *)
(* there nor forgets one that is to be made.                               *)
(***************************************************************************)
EXTENDS Jobs, Sums_proof

-----------------------------------------------------------------------------
(* AreaSync                                                                *)

\* The file of an entry, and the goroutines that work on an entry or have asked for
\* its areas.
FileOf(e) == <<e.u, e.h>>
Busy(j, e) == {s \in Slots : j[s] # AY!Idle /\ j[s].e = e}
Works(x, e) == IF x.at # "idle" /\ x.e = e THEN 1 ELSE 0
Asked(x, e) == IF x.at \in {"sync", "update", "remove"} /\ x.e = e THEN 1 ELSE 0
Queried(j, e) == {s \in Slots : j[s].at \in {"sync", "update", "remove"} /\ j[s].e = e}

\* A scheduler has the file, or has had it.
Held(h, a) == rec[<<h, a>>].state = "ready" \/ <<h, a>> \in removed

\* What is about to be marked is held as well.
FlagInv ==
    /\ AY!FlagsAreEarned
    /\ \A s \in Slots : job[s].at = "sync" => \A a \in job[s].done : Held(job[s].e.h, a)
    /\ \A a \in Areas : areaReport[a] # AY!None => \A h \in areaReport[a] : Held(h, a)

\* An entry is in the list as often as goroutines work on it.
ListInv ==
    \A e \in AY!Entry : FileOf(e) \notin lost => Cardinality(Busy(job, e)) <= list[e]

\* A request that has pushed its entry: no goroutine that has asked for the areas
\* is going to delete it.
AddInv ==
    \A w \in Workers : req[w].at = "add" /\ FileOf(req[w].e) \notin lost =>
        Cardinality(Queried(job, req[w].e)) < list[req[w].e]

\* Where an area that is not synchronised is remembered: also by an entry that more
\* often is in the list than it was asked about, or by a goroutine that has asked.
CoverInv ==
    \A f \in AY!Files \ lost, a \in Areas : area[f][a] = "unsync" =>
        \/ rec[<<f[2], a>>].state # "absent"
        \/ \E w \in Workers : req[w] # AY!Idle /\ FileOf(req[w].e) = f
        \/ \E e \in AY!Entry : FileOf(e) = f /\ Cardinality(Queried(job, e)) < list[e]
        \/ \E s \in Slots : job[s].at = "sync" /\ FileOf(job[s].e) = f /\ a \in job[s].todo

SyncInv == AY!TypeOK /\ FlagInv /\ ListInv /\ AddInv /\ CoverInv

\* Entries, and what the positions of requests and goroutines say.
LEMMA EntryFields ==
  ASSUME NEW e \in AY!Entry
  PROVE  e.u \in Users /\ e.h \in Hashes /\ e.a \in Areas /\ e.o \in AY!Owners /\ FileOf(e) \in AY!Files
BY DEF AY!Entry, AY!Files, FileOf

LEMMA RequestFields ==
  ASSUME AY!TypeOK, NEW w \in Workers
  PROVE  /\ req[w] \in {AY!Idle} \cup AY!Upload
         /\ req[w] = AY!Idle <=> req[w].at = "idle"
         /\ req[w].at # "idle" => req[w] \in AY!Upload /\ req[w].e \in AY!Entry
BY DEF AY!TypeOK, AY!Idle, AY!Upload

LEMMA JobFields ==
  ASSUME NEW x \in {AY!Idle} \cup AY!Job
  PROVE  /\ x = AY!Idle <=> x.at = "idle"
         /\ x.at # "idle" => x \in AY!Job /\ x.e \in AY!Entry
         /\ x.at = "sync" => x.todo \in SUBSET Areas /\ x.done \in SUBSET Areas
BY DEF AY!Idle, AY!Job

\* One goroutine goes on: how the numbers of those that work on an entry change.
LEMMA JobChange ==
  ASSUME job \in [Slots -> {AY!Idle} \cup AY!Job], NEW s \in Slots, NEW x \in {AY!Idle} \cup AY!Job,
         job' = [job EXCEPT ![s] = x], NEW e \in AY!Entry
  PROVE  /\ Cardinality(Busy(job, e)) \in Nat /\ Cardinality(Busy(job', e)) \in Nat
         /\ Cardinality(Queried(job, e)) \in Nat /\ Cardinality(Queried(job', e)) \in Nat
         /\ Cardinality(Busy(job', e)) + Works(job[s], e)
              = Cardinality(Busy(job, e)) + Works(x, e)
         /\ Cardinality(Queried(job', e))
              + Asked(job[s], e)
              = Cardinality(Queried(job, e))
              + Asked(x, e)
<1>1. Busy(job, e) \in SUBSET Slots /\ Busy(job', e) \in SUBSET Slots
  BY DEF Busy
<1>2. Queried(job, e) \in SUBSET Slots /\ Queried(job', e) \in SUBSET Slots
  BY DEF Queried
<1>3. job'[s] = x /\ \A t \in Slots \ {s} : job'[t] = job[t]
  OBVIOUS
<1>4. Busy(job, e) \ {s} = Busy(job', e) \ {s}
  BY <1>3 DEF Busy
<1>5. Queried(job, e) \ {s} = Queried(job', e) \ {s}
  BY <1>3 DEF Queried
<1>6. /\ s \in Busy(job, e) <=> job[s].at # "idle" /\ job[s].e = e
      /\ s \in Busy(job', e) <=> x.at # "idle" /\ x.e = e
  BY <1>3, JobFields DEF Busy
<1>7. /\ s \in Queried(job, e) <=> job[s].at \in {"sync", "update", "remove"} /\ job[s].e = e
      /\ s \in Queried(job', e) <=> x.at \in {"sync", "update", "remove"} /\ x.e = e
  BY <1>3 DEF Queried
<1>8. /\ Cardinality(Busy(job, e)) \in Nat /\ Cardinality(Busy(job', e)) \in Nat
      /\ Cardinality(Busy(job', e)) + (IF s \in Busy(job, e) THEN 1 ELSE 0)
           = Cardinality(Busy(job, e)) + (IF s \in Busy(job', e) THEN 1 ELSE 0)
  <2>1. PICK m \in SUBSET Slots : m = Busy(job, e)
    BY <1>1
  <2>2. PICK n \in SUBSET Slots : n = Busy(job', e)
    BY <1>1
  <2>3. m \ {s} = n \ {s}
    BY <1>4, <2>1, <2>2
  <2>4. /\ Cardinality(m) \in Nat /\ Cardinality(n) \in Nat
        /\ Cardinality(n) + (IF s \in m THEN 1 ELSE 0) = Cardinality(m) + (IF s \in n THEN 1 ELSE 0)
    BY <2>3, SyncAssumption, CountChange
  <2>5. QED
    BY <2>1, <2>2, <2>4, Zenon
<1>9. /\ Cardinality(Queried(job, e)) \in Nat /\ Cardinality(Queried(job', e)) \in Nat
      /\ Cardinality(Queried(job', e)) + (IF s \in Queried(job, e) THEN 1 ELSE 0)
           = Cardinality(Queried(job, e)) + (IF s \in Queried(job', e) THEN 1 ELSE 0)
  <2>1. PICK m \in SUBSET Slots : m = Queried(job, e)
    BY <1>2
  <2>2. PICK n \in SUBSET Slots : n = Queried(job', e)
    BY <1>2
  <2>3. m \ {s} = n \ {s}
    BY <1>5, <2>1, <2>2
  <2>4. /\ Cardinality(m) \in Nat /\ Cardinality(n) \in Nat
        /\ Cardinality(n) + (IF s \in m THEN 1 ELSE 0) = Cardinality(m) + (IF s \in n THEN 1 ELSE 0)
    BY <2>3, SyncAssumption, CountChange
  <2>5. QED
    BY <2>1, <2>2, <2>4, Zenon
<1>10. QED
  BY <1>6, <1>7, <1>8, <1>9, Zenon DEF Works, Asked

\* The same, with names for the numbers.
LEMMA JobNumbers ==
  ASSUME job \in [Slots -> {AY!Idle} \cup AY!Job], NEW s \in Slots, NEW x \in {AY!Idle} \cup AY!Job,
         job' = [job EXCEPT ![s] = x], NEW e \in AY!Entry
  PROVE  \E m, n, k, l \in Nat :
           /\ m = Cardinality(Busy(job, e)) /\ n = Cardinality(Busy(job', e))
           /\ k = Cardinality(Queried(job, e)) /\ l = Cardinality(Queried(job', e))
           /\ n + Works(job[s], e)
                = m + Works(x, e)
           /\ l + Asked(job[s], e)
                = k + Asked(x, e)
<1>1. /\ Cardinality(Busy(job, e)) \in Nat /\ Cardinality(Busy(job', e)) \in Nat
      /\ Cardinality(Queried(job, e)) \in Nat /\ Cardinality(Queried(job', e)) \in Nat
      /\ Cardinality(Busy(job', e)) + Works(job[s], e)
           = Cardinality(Busy(job, e)) + Works(x, e)
      /\ Cardinality(Queried(job', e))
           + Asked(job[s], e)
           = Cardinality(Queried(job, e))
           + Asked(x, e)
  BY JobChange
<1>2. PICK m \in Nat : m = Cardinality(Busy(job, e))
  BY <1>1
<1>3. PICK n \in Nat : n = Cardinality(Busy(job', e))
  BY <1>1
<1>4. PICK k \in Nat : k = Cardinality(Queried(job, e))
  BY <1>1
<1>5. PICK l \in Nat : l = Cardinality(Queried(job', e))
  BY <1>1
<1>6. /\ n + Works(job[s], e)
           = m + Works(x, e)
      /\ l + Asked(job[s], e)
           = k + Asked(x, e)
  BY <1>1, <1>2, <1>3, <1>4, <1>5
<1>7. QED
  BY <1>2, <1>3, <1>4, <1>5, <1>6

LEMMA JobCounts ==
  ASSUME job \in [Slots -> {AY!Idle} \cup AY!Job], NEW e \in AY!Entry
  PROVE  /\ Cardinality(Busy(job, e)) \in Nat /\ Cardinality(Queried(job, e)) \in Nat
         /\ Cardinality(Queried(job, e)) <= Cardinality(Busy(job, e))
<1>1. IsFiniteSet(Busy(job, e)) /\ IsFiniteSet(Queried(job, e))
  BY SyncAssumption, FS_Subset DEF Busy, Queried
<1>2. Queried(job, e) \subseteq Busy(job, e)
  BY JobFields DEF Queried, Busy
<1>3. QED
  BY <1>1, <1>2, FS_Subset, FS_CardinalityType

\* A goroutine works on its entry.
LEMMA BusyCounts ==
  ASSUME job \in [Slots -> {AY!Idle} \cup AY!Job], NEW s \in Slots, job[s].at # "idle"
  PROVE  Cardinality(Busy(job, job[s].e)) >= 1
<1>1. PICK b : b = Busy(job, job[s].e)
  OBVIOUS
<1>2. s \in b /\ IsFiniteSet(b)
  BY <1>1, JobFields, SyncAssumption, FS_Subset DEF Busy
<1>3. Cardinality(b) >= 1
  BY <1>2, FS_EmptySet, FS_CardinalityType
<1>4. QED
  BY <1>1, <1>3

LEMMA SameCardinality == ASSUME NEW S PROVE AY!Cardinality(S) = Cardinality(S)
BY DEF AY!Cardinality, Cardinality

LEMMA SyncInit == AY!Init => SyncInv
<1> SUFFICES ASSUME AY!Init PROVE SyncInv
  OBVIOUS
<1>1. AY!TypeOK
  BY SyncAssumption DEF AY!Init, AY!TypeOK, AY!Flags, AY!Record, AY!Absent, AY!Owners, AY!Files, AY!Copies
<1>2. FlagInv
  BY DEF FlagInv, AY!Init, AY!FlagsAreEarned, AY!Files, AY!Idle, AY!None
<1>3. \A e \in AY!Entry : Busy(job, e) = {}
  BY DEF Busy, AY!Init
<1>4. ListInv
  <2>1. \A e \in AY!Entry : list[e] >= 0
    BY DEF AY!Init
  <2>2. \A e \in AY!Entry : Cardinality(Busy(job, e)) = 0
    BY <1>3, FS_EmptySet
  <2>3. QED
    BY <2>1, <2>2 DEF ListInv
<1>5. AddInv
  BY DEF AddInv, AY!Init, AY!Idle
<1>6. CoverInv
  BY DEF CoverInv, AY!Init, AY!Files
<1>7. QED
  BY <1>1, <1>2, <1>4, <1>5, <1>6 DEF SyncInv

\* A failed call, and flags that are written, keep the types.
LEMMA FlagsType ==
  ASSUME AY!TypeOK, NEW u \in Users, NEW h \in Hashes, NEW aids, NEW flag \in AY!Flags,
         AY!UpdateUnSyncAreaIDs(u, h, aids, flag)
  PROVE  /\ area' \in [AY!Files -> [Areas -> AY!Flags]]
         /\ \A f \in AY!Files, a \in Areas :
              \/ area'[f][a] = area[f][a]
              \/ f = <<u, h>> /\ a \in aids /\ area'[f][a] = flag
         /\ \A a \in aids \cap Areas : area[<<u, h>>][a] # "none" => area'[<<u, h>>][a] = flag
<1>1. <<u, h>> \in AY!Files /\ area \in [AY!Files -> [Areas -> AY!Flags]]
  BY DEF AY!Files, AY!TypeOK
<1> DEFINE g == [a \in Areas |-> IF a \in aids /\ area[<<u, h>>][a] # "none" THEN flag
                                ELSE area[<<u, h>>][a]]
<1>2. area' = [area EXCEPT ![<<u, h>>] = g]
  BY DEF AY!UpdateUnSyncAreaIDs
<1>3. g \in [Areas -> AY!Flags]
  BY <1>1
<1>4. \A a \in Areas : g[a] = area[<<u, h>>][a] \/ (a \in aids /\ g[a] = flag)
  OBVIOUS
<1>5. \A a \in aids \cap Areas : area[<<u, h>>][a] # "none" => g[a] = flag
  OBVIOUS
<1> HIDE DEF g
<1>6. area' \in [AY!Files -> [Areas -> AY!Flags]] /\ area'[<<u, h>>] = g
  BY <1>1, <1>2, <1>3
<1>7. \A f \in AY!Files : f # <<u, h>> => area'[f] = area[f]
  BY <1>1, <1>2
<1>8. QED
  BY <1>4, <1>5, <1>6, <1>7

\* The same, for one flag.
LEMMA FlagWritten ==
  ASSUME AY!TypeOK, NEW u \in Users, NEW h \in Hashes, NEW aids, NEW flag \in AY!Flags,
         AY!UpdateUnSyncAreaIDs(u, h, aids, flag), NEW f \in AY!Files, NEW a \in Areas,
         area'[f][a] # area[f][a]
  PROVE  f = <<u, h>> /\ a \in aids /\ area'[f][a] = flag
<1>1. <<u, h>> \in AY!Files /\ area \in [AY!Files -> [Areas -> AY!Flags]]
  BY DEF AY!Files, AY!TypeOK
<1> DEFINE g == [b \in Areas |-> IF b \in aids /\ area[<<u, h>>][b] # "none" THEN flag
                                ELSE area[<<u, h>>][b]]
<1>2. area' = [area EXCEPT ![<<u, h>>] = g]
  BY DEF AY!UpdateUnSyncAreaIDs
<1>3. g[a] = area[<<u, h>>][a] \/ (a \in aids /\ g[a] = flag)
  OBVIOUS
<1> HIDE DEF g
<1>4. area'[<<u, h>>] = g /\ (f # <<u, h>> => area'[f] = area[f])
  BY <1>1, <1>2
<1>5. QED
  BY <1>3, <1>4

LEMMA ErrorType ==
  ASSUME AY!TypeOK, AY!Error
  PROVE  errors' \in Nat
BY DEF AY!Error, AY!TypeOK

\* The record of a file in an area changes.
LEMMA RecordType ==
  ASSUME AY!TypeOK, NEW h \in Hashes, NEW a \in Areas, NEW r \in AY!Record,
         r.state = "absent" => r.owner = Nobody, rec' = [rec EXCEPT ![<<h, a>>] = r]
  PROVE  /\ rec' \in [AY!Copies -> AY!Record]
         /\ \A c \in AY!Copies : rec'[c].state = "absent" => rec'[c].owner = Nobody
         /\ rec'[<<h, a>>] = r
         /\ \A c \in AY!Copies : c # <<h, a>> => rec'[c] = rec[c]
<1>1. <<h, a>> \in AY!Copies /\ rec \in [AY!Copies -> AY!Record]
  BY DEF AY!Copies, AY!TypeOK
<1>2. QED
  BY <1>1 DEF AY!TypeOK

LEMMA SyncTypeNext == AY!TypeOK /\ [AY!Next]_syncVars => AY!TypeOK'
<1> SUFFICES ASSUME AY!TypeOK, [AY!Next]_syncVars PROVE AY!TypeOK'
  OBVIOUS
<1> USE DEF AY!None
<1>0. /\ area \in [AY!Files -> [Areas -> AY!Flags]] /\ rec \in [AY!Copies -> AY!Record]
      /\ \A c \in AY!Copies : rec[c].state = "absent" => rec[c].owner = Nobody
      /\ list \in [AY!Entry -> Nat] /\ req \in [Workers -> {AY!Idle} \cup AY!Upload]
      /\ job \in [Slots -> {AY!Idle} \cup AY!Job]
      /\ areaReport \in [Areas -> {AY!None} \cup SUBSET Hashes]
      /\ sent \in Nat /\ errors \in Nat /\ first \in [AY!Files -> SUBSET Areas]
      /\ removed \subseteq AY!Copies /\ lost \subseteq AY!Files
  BY DEF AY!TypeOK
<1>1. CASE UNCHANGED syncVars
  BY <1>0, <1>1 DEF syncVars, AY!TypeOK
<1>2. ASSUME NEW w \in Workers, NEW e \in AY!Entry, NEW asked \in SUBSET Areas,
             AY!CreateAsset(w, e, asked)
      PROVE  AY!TypeOK'
  <2>1. PICK missing : /\ missing \in SUBSET asked
                       /\ \/ UNCHANGED req
                          \/ req' = [req EXCEPT ![w] = [at |-> "create", e |-> e, missing |-> missing]]
                       /\ \/ UNCHANGED area
                          \/ AY!UpdateUnSyncAreaIDs(e.u, e.h, missing, "unsync")
    BY <1>2, ZenonT(40) DEF AY!CreateAsset, AY!GetUnSyncAreas
  <2>2. area' \in [AY!Files -> [Areas -> AY!Flags]]
    BY <1>0, <2>1, EntryFields, FlagsType DEF AY!Flags
  <2>3. [at |-> "create", e |-> e, missing |-> missing] \in AY!Upload
    BY <2>1 DEF AY!Upload
  <2>4. req' \in [Workers -> {AY!Idle} \cup AY!Upload]
    BY <1>0, <2>1, <2>3
  <2>5. sent' \in Nat /\ UNCHANGED <<rec, list, job, areaReport, errors, first, removed, lost>>
    BY <1>0, <1>2 DEF AY!CreateAsset
  <2>6. QED
    BY <1>0, <2>2, <2>4, <2>5 DEF AY!TypeOK
<1>3. ASSUME NEW w \in Workers, AY!Handler(w) PROVE AY!TypeOK'
  <2>1. CASE AY!SchedulerCreate(w)
    <3>1. req[w] \in AY!Upload /\ req[w].e \in AY!Entry
      BY <2>1, RequestFields DEF AY!SchedulerCreate
    <3>2. PICK e \in AY!Entry : e = req[w].e
      BY <3>1
    <3>3. /\ \/ UNCHANGED rec
             \/ rec' = [rec EXCEPT ![<<e.h, e.a>>] = [state |-> "pulling", owner |-> e.u]]
          /\ req' = [req EXCEPT ![w].at = "push"] \/ req' = [req EXCEPT ![w] = AY!Idle]
          /\ UNCHANGED errors \/ AY!Error
          /\ UNCHANGED lost \/ lost' = lost \cup {<<e.u, e.h>>}
          /\ UNCHANGED <<area, list, job, areaReport, sent, first, removed>>
      BY <2>1, <3>2, Zenon DEF AY!SchedulerCreate, AY!Disturb
    <3>4. PICK r \in AY!Record : r = [state |-> "pulling", owner |-> e.u] /\ r.state = "pulling"
      <4>1. [state |-> "pulling", owner |-> e.u] \in AY!Record
        BY EntryFields DEF AY!Record, AY!Owners
      <4>2. [state |-> "pulling", owner |-> e.u].state = "pulling"
        OBVIOUS
      <4>3. QED
        BY <4>1, <4>2
    <3>5. /\ rec' \in [AY!Copies -> AY!Record]
          /\ \A c \in AY!Copies : rec'[c].state = "absent" => rec'[c].owner = Nobody
      <4>1. rec' = [rec EXCEPT ![<<e.h, e.a>>] = r] \/ UNCHANGED rec
        BY <3>3, <3>4
      <4>2. e.h \in Hashes /\ e.a \in Areas /\ (r.state = "absent" => r.owner = Nobody)
        BY <3>4, EntryFields
      <4>3. CASE rec' = [rec EXCEPT ![<<e.h, e.a>>] = r]
        BY <4>2, <4>3, RecordType
      <4>4. QED
        BY <1>0, <4>1, <4>3
    <3>6. [req[w] EXCEPT !.at = "push"] \in AY!Upload
      BY <3>1 DEF AY!Upload
    <3>7. req' \in [Workers -> {AY!Idle} \cup AY!Upload]
      BY <1>0, <3>3, <3>6
    <3>8. lost' \subseteq AY!Files
      BY <1>0, <3>3, EntryFields DEF AY!Files
    <3>9. errors' \in Nat
      BY <1>0, <3>3, ErrorType
    <3>10. QED
      BY <1>0, <3>3, <3>5, <3>7, <3>8, <3>9 DEF AY!TypeOK
  <2>2. CASE AY!PushSchedulerInfo(w)
    <3>1. req[w] \in AY!Upload /\ req[w].e \in AY!Entry
      BY <2>2, RequestFields DEF AY!PushSchedulerInfo
    <3>2. [req[w] EXCEPT !.at = "add"] \in AY!Upload
      BY <3>1 DEF AY!Upload
    <3>3. req' \in [Workers -> {AY!Idle} \cup AY!Upload]
      BY <1>0, <2>2, <3>2 DEF AY!PushSchedulerInfo
    <3>4. list' \in [AY!Entry -> Nat]
      BY <1>0, <2>2, <3>1 DEF AY!PushSchedulerInfo
    <3>5. lost' \subseteq AY!Files
      BY <1>0, <2>2, <3>1, EntryFields DEF AY!PushSchedulerInfo, AY!Disturb, AY!Files
    <3>6. errors' \in Nat
      BY <1>0, <2>2, ErrorType DEF AY!PushSchedulerInfo
    <3>7. QED
      BY <1>0, <2>2, <3>3, <3>4, <3>5, <3>6 DEF AY!TypeOK, AY!PushSchedulerInfo
  <2>3. CASE AY!AddAreas(w)
    <3>1. req[w] \in AY!Upload /\ req[w].e \in AY!Entry
      BY <2>3, RequestFields DEF AY!AddAreas
    <3>2. PICK e \in AY!Entry : e = req[w].e
      BY <3>1
    <3>3. PICK g \in [Areas -> AY!Flags] : area' = [area EXCEPT ![<<e.u, e.h>>] = g]
      <4> DEFINE g == [a \in Areas |->
                         IF a = e.a THEN "sync"
                         ELSE IF a \in req[w].missing /\ area[<<e.u, e.h>>][a] = "none" THEN "unsync"
                         ELSE area[<<e.u, e.h>>][a]]
      <4>1. area' = [area EXCEPT ![<<e.u, e.h>>] = g]
        BY <2>3, <3>2 DEF AY!AddAreas
      <4>2. g \in [Areas -> AY!Flags]
        BY <1>0, EntryFields DEF AY!Flags, AY!Files
      <4>3. QED
        BY <4>1, <4>2
    <3>4. area' \in [AY!Files -> [Areas -> AY!Flags]]
      BY <1>0, <3>3
    <3>5. first' = [first EXCEPT ![<<e.u, e.h>>] = @ \cup {e.a}] /\ req' = [req EXCEPT ![w] = AY!Idle]
      BY <2>3, <3>2 DEF AY!AddAreas
    <3>6. first' \in [AY!Files -> SUBSET Areas] /\ req' \in [Workers -> {AY!Idle} \cup AY!Upload]
      BY <1>0, <3>5, EntryFields DEF AY!Files
    <3>7. QED
      BY <1>0, <2>3, <3>4, <3>6 DEF AY!TypeOK, AY!AddAreas
  <2>4. QED
    BY <1>3, <2>1, <2>2, <2>3 DEF AY!Handler
<1>4. ASSUME NEW s \in Slots, NEW e \in AY!Entry, AY!GetAllSchedulerInfos(s, e) \/ AY!GetAgain(s, e)
      PROVE  AY!TypeOK'
  <2>1. [at |-> "look", e |-> e] \in AY!Job
    BY DEF AY!Job
  <2>2. job' \in [Slots -> {AY!Idle} \cup AY!Job]
    BY <1>0, <1>4, <2>1 DEF AY!GetAllSchedulerInfos, AY!GetAgain, AY!Take
  <2>3. lost' \subseteq AY!Files
    BY <1>0, <1>4, EntryFields, SMTT(40) DEF AY!GetAllSchedulerInfos, AY!GetAgain, AY!Disturb, AY!Files
  <2>4. UNCHANGED <<area, rec, list, req, areaReport, sent, errors, first, removed>>
    BY <1>4 DEF AY!GetAllSchedulerInfos, AY!GetAgain
  <2>5. QED
    BY <1>0, <2>2, <2>3, <2>4 DEF AY!TypeOK
<1>5. ASSUME NEW s \in Slots, AY!Goroutine(s) PROVE AY!TypeOK'
  <2>0. job[s] \in AY!Job /\ job[s].e \in AY!Entry
    BY <1>0, <1>5, JobFields DEF AY!Goroutine, AY!CheckSyncState, AY!GetUnSyncAreaIDs, AY!SyncArea,
         AY!SyncShedulersFails, AY!MarkSynced, AY!DelSchedulerInfo
  <2>1. PICK e \in AY!Entry : e = job[s].e
    BY <2>0
  <2>2. CASE AY!CheckSyncState(s)
    <3>1. [job[s] EXCEPT !.at = "query"] \in AY!Job
      BY <2>0, <2>2 DEF AY!Job, AY!CheckSyncState
    <3>2. job' \in [Slots -> {AY!Idle} \cup AY!Job]
      BY <1>0, <2>2, <3>1 DEF AY!CheckSyncState, AY!Finish
    <3>3. errors' \in Nat
      BY <1>0, <2>2, ErrorType DEF AY!CheckSyncState
    <3>4. QED
      BY <1>0, <2>2, <3>2, <3>3 DEF AY!TypeOK, AY!CheckSyncState
  <2>3. CASE AY!GetUnSyncAreaIDs(s)
    <3>1. PICK todo \in SUBSET Areas : job' = [job EXCEPT ![s] = [at |-> "sync", e |-> e, done |-> {}, todo |-> todo]]
      BY <2>1, <2>3, Zenon DEF AY!GetUnSyncAreaIDs
    <3>2. [at |-> "sync", e |-> e, done |-> {}, todo |-> todo] \in AY!Job
      BY DEF AY!Job
    <3>3. job' \in [Slots -> {AY!Idle} \cup AY!Job]
      BY <1>0, <3>1, <3>2
    <3>4. lost' \subseteq AY!Files
      BY <1>0, <2>1, <2>3, EntryFields DEF AY!GetUnSyncAreaIDs, AY!Disturb, AY!Files
    <3>5. QED
      BY <1>0, <2>3, <3>3, <3>4 DEF AY!TypeOK, AY!GetUnSyncAreaIDs
  <2>4. CASE AY!SyncArea(s)
    <3>1. PICK a \in job[s].todo :
            /\ \/ job' = [job EXCEPT ![s].todo = @ \ {a}, ![s].done = @ \cup {a}]
               \/ job' = [job EXCEPT ![s].todo = @ \ {a}]
            /\ \/ UNCHANGED rec
               \/ rec' = [rec EXCEPT ![<<e.h, a>>] = [state |-> "pulling", owner |-> e.o]]
            /\ UNCHANGED errors \/ AY!Error
            /\ UNCHANGED lost \/ lost' = lost \cup {<<e.u, e.h>>}
      BY <2>1, <2>4, Zenon DEF AY!SyncArea, AY!Disturb
    <3>2. UNCHANGED <<area, list, req, areaReport, sent, first, removed>> /\ job[s].at = "sync"
      BY <2>4 DEF AY!SyncArea
    <3>3. job[s].todo \in SUBSET Areas /\ job[s].done \in SUBSET Areas /\ a \in Areas
      BY <1>0, <3>1, <3>2, JobFields
    <3>4. /\ [job[s] EXCEPT !.todo = @ \ {a}] \in AY!Job
          /\ [job[s] EXCEPT !.todo = @ \ {a}, !.done = @ \cup {a}] \in AY!Job
      BY <2>0, <3>2, <3>3 DEF AY!Job
    <3>5. job' \in [Slots -> {AY!Idle} \cup AY!Job]
      BY <1>0, <3>1, <3>4
    <3>6. PICK r \in AY!Record : r = [state |-> "pulling", owner |-> e.o] /\ r.state = "pulling"
      <4>1. [state |-> "pulling", owner |-> e.o] \in AY!Record
        BY EntryFields DEF AY!Record, AY!Owners
      <4>2. [state |-> "pulling", owner |-> e.o].state = "pulling"
        OBVIOUS
      <4>3. QED
        BY <4>1, <4>2
    <3>7. /\ rec' \in [AY!Copies -> AY!Record]
          /\ \A c \in AY!Copies : rec'[c].state = "absent" => rec'[c].owner = Nobody
      <4>1. rec' = [rec EXCEPT ![<<e.h, a>>] = r] \/ UNCHANGED rec
        BY <3>1, <3>6
      <4>2. e.h \in Hashes /\ a \in Areas /\ (r.state = "absent" => r.owner = Nobody)
        BY <3>3, <3>6, EntryFields
      <4>3. CASE rec' = [rec EXCEPT ![<<e.h, a>>] = r]
        BY <4>2, <4>3, RecordType
      <4>4. QED
        BY <1>0, <4>1, <4>3
    <3>8. lost' \subseteq AY!Files
      BY <1>0, <3>1, EntryFields DEF AY!Files
    <3>9. errors' \in Nat
      BY <1>0, <3>1, ErrorType
    <3>10. QED
      BY <1>0, <3>2, <3>5, <3>7, <3>8, <3>9 DEF AY!TypeOK
  <2>5. CASE AY!SyncShedulersFails(s)
    <3>1. errors' \in Nat
      BY <2>5, ErrorType DEF AY!SyncShedulersFails
    <3>2. QED
      BY <1>0, <2>5, <3>1 DEF AY!TypeOK, AY!SyncShedulersFails, AY!Finish
  <2>6. CASE AY!MarkSynced(s)
    <3>1. [at |-> "remove", e |-> e] \in AY!Job
      BY DEF AY!Job
    <3>2. job' \in [Slots -> {AY!Idle} \cup AY!Job]
      BY <1>0, <2>1, <2>6, <3>1 DEF AY!MarkSynced, AY!Finish
    <3>3. area' \in [AY!Files -> [Areas -> AY!Flags]]
      <4>1. AY!UpdateUnSyncAreaIDs(e.u, e.h, job[s].done, "sync") \/ UNCHANGED area
        BY <2>1, <2>6 DEF AY!MarkSynced
      <4>2. QED
        BY <1>0, <4>1, EntryFields, FlagsType DEF AY!Flags
    <3>4. errors' \in Nat
      BY <1>0, <2>6, ErrorType DEF AY!MarkSynced
    <3>5. QED
      BY <1>0, <2>6, <3>2, <3>3, <3>4 DEF AY!TypeOK, AY!MarkSynced
  <2>7. CASE AY!DelSchedulerInfo(s)
    <3>1. list' = [list EXCEPT ![e] = IF @ > 0 THEN @ - 1 ELSE 0]
      BY <2>1, <2>7 DEF AY!DelSchedulerInfo
    <3>2. list' \in [AY!Entry -> Nat]
      BY <1>0, <3>1
    <3>3. QED
      BY <1>0, <2>7, <3>2 DEF AY!TypeOK, AY!DelSchedulerInfo, AY!Finish
  <2>8. QED
    BY <1>5, <2>2, <2>3, <2>4, <2>5, <2>6, <2>7, SMTT(40) DEF AY!Goroutine
<1>6. ASSUME NEW a \in Areas, AY!GetSyncSuccessHash(a) PROVE AY!TypeOK'
  BY <1>0, <1>6 DEF AY!TypeOK, AY!GetSyncSuccessHash
<1>7. ASSUME NEW a \in Areas, AY!UpdateSyncAssetAreas(a) PROVE AY!TypeOK'
  <2>1. area' = [f \in AY!Files |-> [area[f] EXCEPT ![a] =
                   IF @ = "unsync" /\ f[2] \in areaReport[a] THEN "sync" ELSE @]]
    BY <1>7 DEF AY!UpdateSyncAssetAreas
  <2>2. ASSUME NEW f \in AY!Files
        PROVE  [area[f] EXCEPT ![a] = IF @ = "unsync" /\ f[2] \in areaReport[a] THEN "sync" ELSE @]
                 \in [Areas -> AY!Flags]
    BY <1>0, <2>2 DEF AY!Flags
  <2>3. area' \in [AY!Files -> [Areas -> AY!Flags]]
    BY <2>1, <2>2
  <2>4. QED
    BY <1>0, <1>7, <2>3 DEF AY!TypeOK, AY!UpdateSyncAssetAreas
<1>8. ASSUME NEW h \in Hashes, NEW a \in Areas, AY!Pulled(h, a) PROVE AY!TypeOK'
  <2>1. rec[<<h, a>>] \in AY!Record
    BY <1>0 DEF AY!Copies
  <2>2. [rec[<<h, a>>] EXCEPT !.state = "ready"] \in AY!Record
    BY <2>1 DEF AY!Record
  <2>3. PICK r \in AY!Record : r = [rec[<<h, a>>] EXCEPT !.state = "ready"]
    BY <2>2
  <2>4. r.state = "ready" /\ rec' = [rec EXCEPT ![<<h, a>>] = r]
    BY <1>8, <2>1, <2>3 DEF AY!Pulled, AY!Record
  <2>5. /\ rec' \in [AY!Copies -> AY!Record]
        /\ \A c \in AY!Copies : rec'[c].state = "absent" => rec'[c].owner = Nobody
    BY <2>4, RecordType
  <2>6. QED
    BY <1>0, <1>8, <2>5 DEF AY!TypeOK, AY!Pulled
<1>9. ASSUME NEW h \in Hashes, NEW a \in Areas, AY!Remove(h, a) PROVE AY!TypeOK'
  <2>1. AY!Absent \in AY!Record /\ AY!Absent.owner = Nobody
    BY DEF AY!Record, AY!Absent, AY!Owners
  <2>2. rec' = [rec EXCEPT ![<<h, a>>] = AY!Absent]
    BY <1>9 DEF AY!Remove
  <2>3. /\ rec' \in [AY!Copies -> AY!Record]
        /\ \A c \in AY!Copies : rec'[c].state = "absent" => rec'[c].owner = Nobody
    BY <2>1, <2>2, RecordType
  <2>4. removed' \subseteq AY!Copies /\ lost' \subseteq AY!Files /\ errors' \in Nat
    BY <1>0, <1>9, ErrorType DEF AY!Remove, AY!Copies
  <2>5. QED
    BY <1>0, <1>9, <2>3, <2>4 DEF AY!TypeOK, AY!Remove
<1>10. QED
  BY <1>1, <1>2, <1>3, <1>4, <1>5, <1>6, <1>7, <1>8, <1>9 DEF AY!Next

\* What a step does to the records of the schedulers: what is held stays held, and a
\* record goes only with a disturbance.
RecordsStay ==
    /\ \A h \in Hashes, a \in Areas : Held(h, a) => Held(h, a)'
    /\ \A f \in AY!Files, a \in Areas :
         f \notin lost' /\ rec[<<f[2], a>>].state # "absent" => rec'[<<f[2], a>>].state # "absent"
    /\ lost \subseteq lost'

LEMMA RecordWritten ==
  ASSUME AY!TypeOK, NEW h \in Hashes, NEW a \in Areas, NEW r \in AY!Record, r.state # "absent",
         rec[<<h, a>>].state # "ready" \/ r.state = "ready",
         rec' = [rec EXCEPT ![<<h, a>>] = r], removed' = removed, lost \subseteq lost'
  PROVE  RecordsStay
<1>1. <<h, a>> \in AY!Copies /\ rec \in [AY!Copies -> AY!Record]
  BY DEF AY!Copies, AY!TypeOK
<1>2. rec'[<<h, a>>] = r /\ \A c \in AY!Copies : c # <<h, a>> => rec'[c] = rec[c]
  BY <1>1
<1>3. ASSUME NEW g \in Hashes, NEW b \in Areas, Held(g, b) PROVE Held(g, b)'
  <2>1. <<g, b>> \in AY!Copies
    BY DEF AY!Copies
  <2>2. CASE <<g, b>> = <<h, a>>
    BY <1>2, <1>3, <2>2 DEF Held
  <2>3. CASE <<g, b>> # <<h, a>>
    BY <1>2, <1>3, <2>1, <2>3 DEF Held
  <2>4. QED
    BY <2>2, <2>3
<1>4. ASSUME NEW f \in AY!Files, NEW b \in Areas, rec[<<f[2], b>>].state # "absent"
      PROVE  rec'[<<f[2], b>>].state # "absent"
  <2>1. <<f[2], b>> \in AY!Copies
    BY DEF AY!Copies, AY!Files
  <2>2. QED
    BY <1>2, <1>4, <2>1
<1>5. QED
  BY <1>3, <1>4 DEF RecordsStay

LEMMA RecordsKept ==
  ASSUME rec' = rec, removed' = removed, lost \subseteq lost'
  PROVE  RecordsStay
BY DEF RecordsStay, Held

LEMMA RecordSteps ==
  ASSUME AY!TypeOK, [AY!Next]_syncVars
  PROVE  RecordsStay
<1>1. CASE UNCHANGED syncVars
  BY <1>1, RecordsKept DEF syncVars
<1>2. ASSUME NEW w \in Workers, NEW e \in AY!Entry, NEW asked \in SUBSET Areas,
             AY!CreateAsset(w, e, asked)
      PROVE  RecordsStay
  BY <1>2, RecordsKept DEF AY!CreateAsset
<1>3. ASSUME NEW w \in Workers, AY!Handler(w) PROVE RecordsStay
  <2>1. CASE AY!SchedulerCreate(w)
    <3>1. PICK e \in AY!Entry : e = req[w].e
      BY <2>1, RequestFields DEF AY!SchedulerCreate
    <3>2. removed' = removed /\ lost \subseteq lost'
      BY <2>1 DEF AY!SchedulerCreate, AY!Disturb
    <3>3. PICK r : r = [state |-> "pulling", owner |-> e.u]
      OBVIOUS
    <3>4. r \in AY!Record /\ r.state = "pulling" /\ e.h \in Hashes /\ e.a \in Areas
      BY <3>3, EntryFields DEF AY!Record, AY!Owners
    <3>5. \/ rec' = rec
          \/ rec[<<e.h, e.a>>].state = "absent" /\ rec' = [rec EXCEPT ![<<e.h, e.a>>] = r]
      BY <2>1, <3>1, <3>3, Zenon DEF AY!SchedulerCreate
    <3>6. CASE rec' = rec
      BY <3>2, <3>6, RecordsKept
    <3>7. CASE rec[<<e.h, e.a>>].state = "absent" /\ rec' = [rec EXCEPT ![<<e.h, e.a>>] = r]
      BY <3>2, <3>4, <3>7, RecordWritten
    <3>8. QED
      BY <3>5, <3>6, <3>7
  <2>2. CASE AY!PushSchedulerInfo(w)
    BY <2>2, RecordsKept DEF AY!PushSchedulerInfo, AY!Disturb
  <2>3. CASE AY!AddAreas(w)
    BY <2>3, RecordsKept DEF AY!AddAreas
  <2>4. QED
    BY <1>3, <2>1, <2>2, <2>3 DEF AY!Handler
<1>4. ASSUME NEW s \in Slots, NEW e \in AY!Entry, AY!GetAllSchedulerInfos(s, e) \/ AY!GetAgain(s, e)
      PROVE  RecordsStay
  BY <1>4, RecordsKept DEF AY!GetAllSchedulerInfos, AY!GetAgain, AY!Disturb
<1>5. ASSUME NEW s \in Slots, AY!Goroutine(s) PROVE RecordsStay
  <2>1. CASE AY!SyncArea(s)
    <3>1. job[s] \in {AY!Idle} \cup AY!Job /\ job[s].at = "sync"
      BY <2>1 DEF AY!SyncArea, AY!TypeOK
    <3>2. PICK e \in AY!Entry : e = job[s].e
      BY <3>1, JobFields
    <3>3. PICK r : r = [state |-> "pulling", owner |-> e.o]
      OBVIOUS
    <3>4. r \in AY!Record /\ r.state = "pulling" /\ e.h \in Hashes
      BY <3>3, EntryFields DEF AY!Record, AY!Owners
    <3>5. PICK a \in job[s].todo :
            \/ rec' = rec
            \/ rec[<<e.h, a>>].state = "absent" /\ rec' = [rec EXCEPT ![<<e.h, a>>] = r]
      BY <2>1, <3>2, <3>3, Zenon DEF AY!SyncArea
    <3>6. a \in Areas
      BY <3>1, <3>5, JobFields
    <3>7. removed' = removed /\ lost \subseteq lost'
      BY <2>1 DEF AY!SyncArea, AY!Disturb
    <3>8. CASE rec' = rec
      BY <3>7, <3>8, RecordsKept
    <3>9. CASE rec[<<e.h, a>>].state = "absent" /\ rec' = [rec EXCEPT ![<<e.h, a>>] = r]
      BY <3>4, <3>6, <3>7, <3>9, RecordWritten
    <3>10. QED
      BY <3>5, <3>8, <3>9
  <2>2. CASE ~AY!SyncArea(s)
    <3>1. rec' = rec /\ removed' = removed /\ lost \subseteq lost'
      BY <1>5, <2>2 DEF AY!Goroutine, AY!CheckSyncState, AY!GetUnSyncAreaIDs, AY!SyncShedulersFails,
           AY!MarkSynced, AY!DelSchedulerInfo, AY!Disturb
    <3>2. QED
      BY <3>1, RecordsKept
  <2>3. QED
    BY <2>1, <2>2
<1>6. ASSUME NEW a \in Areas, AY!GetSyncSuccessHash(a) \/ AY!UpdateSyncAssetAreas(a) PROVE RecordsStay
  BY <1>6, RecordsKept DEF AY!GetSyncSuccessHash, AY!UpdateSyncAssetAreas
<1>7. ASSUME NEW h \in Hashes, NEW a \in Areas, AY!Pulled(h, a) PROVE RecordsStay
  <2>1. rec[<<h, a>>] \in AY!Record
    BY DEF AY!Copies, AY!TypeOK
  <2>2. [rec[<<h, a>>] EXCEPT !.state = "ready"] \in AY!Record
    BY <2>1 DEF AY!Record
  <2>3. PICK r \in AY!Record : r = [rec[<<h, a>>] EXCEPT !.state = "ready"]
    BY <2>2
  <2>4. r.state = "ready" /\ rec' = [rec EXCEPT ![<<h, a>>] = r]
    BY <1>7, <2>1, <2>3 DEF AY!Pulled, AY!Record
  <2>5. QED
    BY <1>7, <2>4, RecordWritten DEF AY!Pulled
<1>8. ASSUME NEW h \in Hashes, NEW a \in Areas, AY!Remove(h, a) PROVE RecordsStay
  <2>1. <<h, a>> \in AY!Copies /\ rec \in [AY!Copies -> AY!Record]
    BY DEF AY!Copies, AY!TypeOK
  <2>2. /\ \A c \in AY!Copies : c # <<h, a>> => rec'[c] = rec[c]
        /\ removed' = removed \cup {<<h, a>>} /\ lost' = lost \cup {f \in AY!Files : f[2] = h}
    BY <1>8, <2>1 DEF AY!Remove
  <2>3. ASSUME NEW g \in Hashes, NEW b \in Areas, Held(g, b) PROVE Held(g, b)'
    <3>1. <<g, b>> \in AY!Copies
      BY DEF AY!Copies
    <3>2. QED
      BY <2>2, <2>3, <3>1 DEF Held
  <2>4. ASSUME NEW f \in AY!Files, NEW b \in Areas, f \notin lost', rec[<<f[2], b>>].state # "absent"
        PROVE  rec'[<<f[2], b>>].state # "absent"
    <3>1. <<f[2], b>> \in AY!Copies /\ f[2] # h
      BY <2>2, <2>4 DEF AY!Copies, AY!Files
    <3>2. QED
      BY <2>2, <2>4, <3>1
  <2>5. QED
    BY <2>2, <2>3, <2>4 DEF RecordsStay
<1>9. QED
  BY <1>1, <1>2, <1>3, <1>4, <1>5, <1>6, <1>7, <1>8 DEF AY!Next

\* Flags and what is about to become one stay earned.
LEMMA FlagStep ==
  ASSUME SyncInv, AY!TypeOK', RecordsStay,
         \A f \in AY!Files : first[f] \subseteq first'[f],
         \A f \in AY!Files, a \in Areas : area'[f][a] = "sync" =>
           area[f][a] = "sync" \/ a \in first'[f] \/ Held(f[2], a),
         \A s \in Slots : job'[s].at = "sync" =>
           \A a \in job'[s].done : Held(job'[s].e.h, a),
         \A a \in Areas : areaReport'[a] # AY!None => \A h \in areaReport'[a] : Held(h, a)
  PROVE  FlagInv'
<1>1. \A f \in AY!Files : f[2] \in Hashes
  BY DEF AY!Files
<1>2. \A h \in Hashes, a \in Areas : Held(h, a) => Held(h, a)'
  BY DEF RecordsStay
<1>3. \A f \in AY!Files, a \in Areas : area[f][a] = "sync" => a \in first[f] \/ Held(f[2], a)
  BY DEF SyncInv, FlagInv, AY!FlagsAreEarned, Held
<1>4. \A f \in AY!Files, a \in Areas : area'[f][a] = "sync" => a \in first'[f] \/ Held(f[2], a)'
  BY <1>1, <1>2, <1>3
<1>5. AY!FlagsAreEarned'
  BY <1>4 DEF AY!FlagsAreEarned, Held
<1>6. ASSUME NEW s \in Slots, job'[s].at = "sync", NEW a \in job'[s].done PROVE Held(job[s].e.h, a)'
  <2>1. job'[s] \in {AY!Idle} \cup AY!Job
    BY DEF AY!TypeOK
  <2>2. job'[s].e \in AY!Entry /\ a \in Areas
    BY <1>6, <2>1, JobFields
  <2>3. PICK h \in Hashes : h = job'[s].e.h
    BY <2>2, EntryFields
  <2>4. Held(h, a)
    BY <1>6, <2>3
  <2>5. Held(h, a)'
    BY <1>2, <2>2, <2>4
  <2>6. QED
    BY <2>3, <2>5 DEF Held
<1>7. ASSUME NEW a \in Areas, areaReport'[a] # AY!None, NEW h \in areaReport'[a] PROVE Held(h, a)'
  <2>1. h \in Hashes
    BY <1>7 DEF AY!TypeOK
  <2>2. QED
    BY <1>2, <1>7, <2>1
<1>8. QED
  BY <1>5, <1>6, <1>7 DEF FlagInv

LEMMA FlagNext ==
  ASSUME SyncInv, [AY!Next]_syncVars, AY!TypeOK', RecordsStay
  PROVE  FlagInv'
<1>0. AY!TypeOK /\ FlagInv
  BY DEF SyncInv
<1>1. /\ \A s \in Slots : job[s].at = "sync" => \A a \in job[s].done : Held(job[s].e.h, a)
      /\ \A a \in Areas : areaReport[a] # AY!None => \A h \in areaReport[a] : Held(h, a)
  BY <1>0 DEF FlagInv
<1>2. CASE UNCHANGED <<area, job, first, areaReport>>
  BY <1>1, <1>2, FlagStep
<1>3. ASSUME NEW w \in Workers, NEW e \in AY!Entry, NEW asked \in SUBSET Areas,
             AY!CreateAsset(w, e, asked)
      PROVE  FlagInv'
  <2>1. PICK missing : UNCHANGED area \/ AY!UpdateUnSyncAreaIDs(e.u, e.h, missing, "unsync")
    BY <1>3, Zenon DEF AY!CreateAsset
  <2>2. \A f \in AY!Files, a \in Areas : area'[f][a] = "sync" => area[f][a] = "sync"
    <3>1. e.u \in Users /\ e.h \in Hashes /\ "unsync" \in AY!Flags
      BY EntryFields DEF AY!Flags
    <3>2. CASE AY!UpdateUnSyncAreaIDs(e.u, e.h, missing, "unsync")
      <4>1. PICK u \in Users, h \in Hashes, flag \in AY!Flags :
              u = e.u /\ h = e.h /\ flag = "unsync"
        BY <3>1
      <4>2. AY!UpdateUnSyncAreaIDs(u, h, missing, flag)
        BY <3>2, <4>1
      <4>3. \A f \in AY!Files, a \in Areas : area'[f][a] = area[f][a] \/ area'[f][a] = flag
        BY <1>0, <4>2, FlagWritten
      <4>4. QED
        BY <4>1, <4>3
    <3>3. QED
      BY <2>1, <3>2
  <2>3. UNCHANGED <<job, first, areaReport>>
    BY <1>3 DEF AY!CreateAsset
  <2>4. QED
    BY <1>1, <2>2, <2>3, FlagStep
<1>4. ASSUME NEW w \in Workers, AY!Handler(w) PROVE FlagInv'
  <2>1. CASE AY!AddAreas(w)
    <3>1. PICK e \in AY!Entry : e = req[w].e
      BY <1>0, <2>1, RequestFields DEF AY!AddAreas
    <3>2. PICK g : /\ area' = [area EXCEPT ![<<e.u, e.h>>] = g]
                   /\ \A a \in Areas : g[a] = "sync" => a = e.a \/ area[<<e.u, e.h>>][a] = "sync"
      <4> DEFINE g == [a \in Areas |->
                         IF a = e.a THEN "sync"
                         ELSE IF a \in req[w].missing /\ area[<<e.u, e.h>>][a] = "none" THEN "unsync"
                         ELSE area[<<e.u, e.h>>][a]]
      <4>1. area' = [area EXCEPT ![<<e.u, e.h>>] = g]
        BY <2>1, <3>1 DEF AY!AddAreas
      <4>2. \A a \in Areas : g[a] = "sync" => a = e.a \/ area[<<e.u, e.h>>][a] = "sync"
        OBVIOUS
      <4>3. QED
        BY <4>1, <4>2
    <3>3. first' = [first EXCEPT ![<<e.u, e.h>>] = @ \cup {e.a}] /\ UNCHANGED <<job, areaReport>>
      BY <2>1, <3>1 DEF AY!AddAreas
    <3>4. /\ \A f \in AY!Files : first[f] \subseteq first'[f]
          /\ e.a \in first'[<<e.u, e.h>>]
      BY <1>0, <3>3, EntryFields DEF AY!TypeOK, FileOf
    <3>5. \A f \in AY!Files, a \in Areas : area'[f][a] = "sync" => area[f][a] = "sync" \/ a \in first'[f]
      BY <1>0, <3>2, <3>4 DEF AY!TypeOK
    <3>6. QED
      BY <1>1, <3>3, <3>4, <3>5, FlagStep
  <2>2. QED
    BY <1>2, <1>4, <2>1 DEF AY!Handler, AY!SchedulerCreate, AY!PushSchedulerInfo
<1>5. ASSUME NEW s \in Slots, NEW x \in {AY!Idle} \cup AY!Job, job' = [job EXCEPT ![s] = x],
             x.at = "sync" => \A a \in x.done : Held(x.e.h, a),
             UNCHANGED <<first, areaReport>>,
             \A f \in AY!Files, a \in Areas : area'[f][a] = "sync" =>
               area[f][a] = "sync" \/ Held(f[2], a)
      PROVE  FlagInv'
  <2>1. job \in [Slots -> {AY!Idle} \cup AY!Job]
    BY <1>0 DEF AY!TypeOK
  <2>2. \A t \in Slots : job'[t].at = "sync" => \A a \in job'[t].done : Held(job'[t].e.h, a)
    BY <1>1, <1>5, <2>1
  <2>3. QED
    BY <1>1, <1>5, <2>2, FlagStep
<1>6. ASSUME NEW s \in Slots, NEW e \in AY!Entry, AY!GetAllSchedulerInfos(s, e) \/ AY!GetAgain(s, e)
      PROVE  FlagInv'
  <2>1. PICK x : x = [at |-> "look", e |-> e]
    OBVIOUS
  <2>2. x \in AY!Job /\ x.at = "look"
    BY <2>1 DEF AY!Job
  <2>3. job' = [job EXCEPT ![s] = x] /\ UNCHANGED <<area, first, areaReport>>
    BY <1>6, <2>1 DEF AY!GetAllSchedulerInfos, AY!GetAgain, AY!Take
  <2>4. QED
    BY <1>5, <2>2, <2>3
<1>7. ASSUME NEW s \in Slots, AY!Goroutine(s) PROVE FlagInv'
  <2>1. job[s] \in {AY!Idle} \cup AY!Job /\ job[s].at # "idle"
    BY <1>0, <1>7 DEF AY!TypeOK, AY!Goroutine, AY!CheckSyncState, AY!GetUnSyncAreaIDs, AY!SyncArea,
         AY!SyncShedulersFails, AY!MarkSynced, AY!DelSchedulerInfo
  <2>2. PICK x \in {AY!Idle} \cup AY!Job : job' = [job EXCEPT ![s] = x]
    <3>1. job \in [Slots -> {AY!Idle} \cup AY!Job] /\ job' \in [Slots -> {AY!Idle} \cup AY!Job]
      BY <1>0 DEF AY!TypeOK
    <3>2. \E x : job' = [job EXCEPT ![s] = x]
      BY <1>7, Zenon DEF AY!Goroutine, AY!CheckSyncState, AY!GetUnSyncAreaIDs, AY!SyncArea,
           AY!SyncShedulersFails, AY!MarkSynced, AY!DelSchedulerInfo, AY!Finish
    <3>3. PICK x : job' = [job EXCEPT ![s] = x]
      BY <3>2
    <3>4. job'[s] = x
      BY <3>1, <3>3
    <3>5. x \in {AY!Idle} \cup AY!Job
      BY <3>1, <3>4
    <3>6. QED
      BY <3>3, <3>5
  <2>3. job'[s] = x /\ UNCHANGED <<first, areaReport>>
    BY <1>0, <1>7, <2>2 DEF AY!TypeOK, AY!Goroutine, AY!CheckSyncState, AY!GetUnSyncAreaIDs,
         AY!SyncArea, AY!SyncShedulersFails, AY!MarkSynced, AY!DelSchedulerInfo
  <2>4. CASE AY!SyncArea(s)
    <3>1. PICK a \in job[s].todo :
            \/ job' = [job EXCEPT ![s].todo = @ \ {a}]
            \/ /\ job' = [job EXCEPT ![s].todo = @ \ {a}, ![s].done = @ \cup {a}]
               /\ rec[<<job[s].e.h, a>>].state = "ready"
      BY <2>4, Zenon DEF AY!SyncArea
    <3>2. \/ x = [job[s] EXCEPT !.todo = @ \ {a}]
          \/ /\ x = [job[s] EXCEPT !.todo = @ \ {a}, !.done = @ \cup {a}]
             /\ rec[<<job[s].e.h, a>>].state = "ready"
      BY <1>0, <2>3, <3>1 DEF AY!TypeOK
    <3>3. job[s].at = "sync" /\ job[s] \in AY!Job
      BY <2>1, <2>4, JobFields DEF AY!SyncArea
    <3>4. /\ x.e = job[s].e
          /\ x.done = job[s].done \/ (x.done = job[s].done \cup {a} /\ Held(job[s].e.h, a))
      BY <3>2, <3>3 DEF AY!Job, Held
    <3>5. \A b \in x.done : Held(x.e.h, b)
      BY <1>1, <3>3, <3>4
    <3>6. UNCHANGED area
      BY <2>4 DEF AY!SyncArea
    <3>7. QED
      BY <1>5, <2>2, <2>3, <3>5, <3>6
  <2>5. CASE AY!GetUnSyncAreaIDs(s)
    <3>1. PICK todo : x = [at |-> "sync", e |-> job[s].e, done |-> {}, todo |-> todo]
      BY <1>0, <2>3, <2>5 DEF AY!TypeOK, AY!GetUnSyncAreaIDs
    <3>2. x.done = {} /\ UNCHANGED area
      BY <2>5, <3>1 DEF AY!GetUnSyncAreaIDs
    <3>3. QED
      BY <1>5, <2>2, <2>3, <3>2
  <2>6. CASE AY!MarkSynced(s)
    <3>1. x = [at |-> "remove", e |-> job[s].e] \/ x = AY!Idle
      BY <1>0, <2>3, <2>6 DEF AY!TypeOK, AY!MarkSynced, AY!Finish
    <3>2. x.at # "sync"
      BY <3>1 DEF AY!Idle
    <3>3. PICK e \in AY!Entry : e = job[s].e
      BY <2>1, JobFields
    <3>4. \A a \in job[s].done : Held(e.h, a)
      BY <1>1, <2>6, <3>3 DEF AY!MarkSynced
    <3>5. AY!UpdateUnSyncAreaIDs(e.u, e.h, job[s].done, "sync") \/ UNCHANGED area
      BY <2>6, <3>3 DEF AY!MarkSynced
    <3>6. ASSUME AY!UpdateUnSyncAreaIDs(e.u, e.h, job[s].done, "sync"), NEW f \in AY!Files, NEW a \in Areas,
                 area'[f][a] = "sync"
          PROVE  area[f][a] = "sync" \/ Held(f[2], a)
      <4>1. e.u \in Users /\ e.h \in Hashes /\ "sync" \in AY!Flags
        BY EntryFields DEF AY!Flags
      <4>2. PICK u \in Users, h \in Hashes, flag \in AY!Flags :
              u = e.u /\ h = e.h /\ flag = "sync"
        BY <4>1
      <4>3. AY!UpdateUnSyncAreaIDs(u, h, job[s].done, flag)
        BY <3>6, <4>2
      <4>4. area'[f][a] = area[f][a] \/ (f = <<u, h>> /\ a \in job[s].done)
        BY <1>0, <4>3, <3>6, FlagWritten
      <4>5. QED
        BY <3>4, <3>6, <4>2, <4>4
    <3>7. QED
      BY <1>5, <2>2, <2>3, <3>2, <3>5, <3>6
  <2>7. CASE AY!CheckSyncState(s) \/ AY!SyncShedulersFails(s) \/ AY!DelSchedulerInfo(s)
    <3>1. x = [job[s] EXCEPT !.at = "query"] \/ x = AY!Idle
      BY <1>0, <2>3, <2>7 DEF AY!TypeOK, AY!CheckSyncState, AY!SyncShedulersFails, AY!DelSchedulerInfo, AY!Finish
    <3>2. x.at # "sync"
      BY <2>1, <3>1, JobFields DEF AY!Idle, AY!Job
    <3>3. UNCHANGED area
      BY <2>7 DEF AY!CheckSyncState, AY!SyncShedulersFails, AY!DelSchedulerInfo
    <3>4. QED
      BY <1>5, <2>2, <2>3, <3>2, <3>3
  <2>8. QED
    BY <1>7, <2>4, <2>5, <2>6, <2>7, SMTT(40) DEF AY!Goroutine
<1>8. ASSUME NEW a \in Areas, AY!GetSyncSuccessHash(a) PROVE FlagInv'
  <2>1. areaReport' = [areaReport EXCEPT ![a] = {h \in Hashes : rec[<<h, a>>].state = "ready"}]
    BY <1>8 DEF AY!GetSyncSuccessHash
  <2>2. \A b \in Areas : areaReport'[b] # AY!None => \A h \in areaReport'[b] : Held(h, b)
    BY <1>0, <1>1, <2>1 DEF AY!TypeOK, Held
  <2>3. UNCHANGED <<area, job, first>>
    BY <1>8 DEF AY!GetSyncSuccessHash
  <2>4. QED
    BY <1>1, <2>2, <2>3, FlagStep
<1>9. ASSUME NEW a \in Areas, AY!UpdateSyncAssetAreas(a) PROVE FlagInv'
  <2>1. /\ area' = [f \in AY!Files |-> [area[f] EXCEPT ![a] =
                      IF @ = "unsync" /\ f[2] \in areaReport[a] THEN "sync" ELSE @]]
        /\ areaReport' = [areaReport EXCEPT ![a] = AY!None] /\ areaReport[a] # AY!None
    BY <1>9 DEF AY!UpdateSyncAssetAreas
  <2>2. \A b \in Areas : areaReport'[b] # AY!None => \A h \in areaReport'[b] : Held(h, b)
    BY <1>0, <1>1, <2>1 DEF AY!TypeOK
  <2>3. ASSUME NEW f \in AY!Files, NEW b \in Areas, area'[f][b] = "sync"
        PROVE  area[f][b] = "sync" \/ Held(f[2], b)
    <3>1. area[f] \in [Areas -> AY!Flags]
      BY <1>0 DEF AY!TypeOK
    <3>2. area'[f][b] = area[f][b] \/ (b = a /\ f[2] \in areaReport[a])
      BY <2>1, <3>1
    <3>3. QED
      BY <1>1, <2>1, <2>3, <3>2
  <2>4. UNCHANGED <<job, first>>
    BY <1>9 DEF AY!UpdateSyncAssetAreas
  <2>5. QED
    BY <1>1, <2>2, <2>3, <2>4, FlagStep
<1>10. QED
  BY <1>2, <1>3, <1>4, <1>6, <1>7, <1>8, <1>9 DEF AY!Next, syncVars, AY!Pulled, AY!Remove

\* A step that neither the list nor the goroutines take part in: requests go on, and
\* areas that become unsynchronised belong to a request.
LEMMA QuietStep ==
  ASSUME SyncInv, RecordsStay, job' = job, list' = list,
         \A w \in Workers : req'[w].at = "add" => req[w].at = "add" /\ req'[w].e = req[w].e,
         \A w \in Workers : req[w] # AY!Idle /\ FileOf(req[w].e) \notin lost' =>
           req[w].at = "add" \/ (req'[w] # AY!Idle /\ req'[w].e = req[w].e),
         \A f \in AY!Files \ lost', a \in Areas : area'[f][a] = "unsync" =>
           \/ area[f][a] = "unsync"
           \/ \E w \in Workers : req[w].at = "add" /\ FileOf(req[w].e) = f
           \/ \E w \in Workers : req'[w] # AY!Idle /\ FileOf(req'[w].e) = f
  PROVE  ListInv' /\ AddInv' /\ CoverInv'
<1>0. AY!TypeOK /\ ListInv /\ AddInv /\ CoverInv /\ lost \subseteq lost'
  BY DEF SyncInv, RecordsStay
<1>1. ListInv'
  BY <1>0 DEF ListInv, Busy, FileOf
<1>2. AddInv'
  BY <1>0 DEF AddInv, Queried, FileOf
<1>3. ASSUME NEW w \in Workers, req[w].at = "add", FileOf(req[w].e) \notin lost
      PROVE  /\ req[w].e \in AY!Entry
             /\ Cardinality(Queried(job, req[w].e)) < list[req[w].e]
  BY <1>0, <1>3, RequestFields DEF AddInv
<1>4. ASSUME NEW f \in AY!Files, f \notin lost', NEW a \in Areas, area'[f][a] = "unsync"
      PROVE  \/ rec'[<<f[2], a>>].state # "absent"
             \/ \E w \in Workers : req'[w] # AY!Idle /\ FileOf(req'[w].e) = f
             \/ \E e \in AY!Entry : FileOf(e) = f /\ Cardinality(Queried(job, e)) < list[e]
             \/ \E s \in Slots : job[s].at = "sync" /\ FileOf(job[s].e) = f /\ a \in job[s].todo
  <2>1. CASE \E w \in Workers : req[w].at = "add" /\ FileOf(req[w].e) = f
    BY <1>0, <1>3, <1>4, <2>1
  <2>2. CASE area[f][a] = "unsync"
    <3>1. \/ rec[<<f[2], a>>].state # "absent"
          \/ \E w \in Workers : req[w] # AY!Idle /\ FileOf(req[w].e) = f
          \/ \E e \in AY!Entry : FileOf(e) = f /\ Cardinality(Queried(job, e)) < list[e]
          \/ \E s \in Slots : job[s].at = "sync" /\ FileOf(job[s].e) = f /\ a \in job[s].todo
      BY <1>0, <1>4, <2>2 DEF CoverInv
    <3>2. CASE rec[<<f[2], a>>].state # "absent"
      BY <1>4, <3>2 DEF RecordsStay
    <3>3. CASE \E w \in Workers : req[w] # AY!Idle /\ FileOf(req[w].e) = f
      BY <1>4, <2>1, <3>3
    <3>4. QED
      BY <3>1, <3>2, <3>3
  <2>3. QED
    BY <1>4, <2>1, <2>2
<1>5. CoverInv'
  BY <1>4 DEF CoverInv, Queried, FileOf
<1>6. QED
  BY <1>1, <1>2, <1>5

\* A step of one goroutine.
LEMMA JobStep ==
  ASSUME SyncInv, RecordsStay, NEW s \in Slots, NEW x, job' = [job EXCEPT ![s] = x], req' = req,
         \A e \in AY!Entry : FileOf(e) \notin lost' => Cardinality(Busy(job', e)) <= list'[e],
         \A e \in AY!Entry : FileOf(e) \notin lost' /\ Cardinality(Queried(job, e)) < list[e] =>
           \/ Cardinality(Queried(job', e)) < list'[e]
           \/ /\ x.at = "sync" /\ x.e = e
              /\ \A w \in Workers : req[w].at = "add" => FileOf(req[w].e) # FileOf(e)
              /\ \A a \in Areas : area[FileOf(e)][a] = "unsync" => a \in x.todo,
         \A f \in AY!Files, a \in Areas : area'[f][a] = "unsync" => area[f][a] = "unsync",
         job[s].at = "sync" /\ FileOf(job[s].e) \notin lost' => \A a \in job[s].todo :
           \/ x.at = "sync" /\ x.e = job[s].e /\ a \in x.todo
           \/ rec'[<<job[s].e.h, a>>].state # "absent"
           \/ Cardinality(Queried(job', job[s].e)) < list'[job[s].e]
  PROVE  ListInv' /\ AddInv' /\ CoverInv'
<1>0. AY!TypeOK /\ AddInv /\ CoverInv /\ lost \subseteq lost'
  BY DEF SyncInv, RecordsStay
<1>1. /\ job \in [Slots -> {AY!Idle} \cup AY!Job]
      /\ job'[s] = x /\ \A t \in Slots : t # s => job'[t] = job[t]
  BY <1>0 DEF AY!TypeOK
<1>2. ListInv'
  BY DEF ListInv, Busy, FileOf
<1>3. ASSUME NEW w \in Workers, req[w].at = "add", FileOf(req[w].e) \notin lost'
      PROVE  Cardinality(Queried(job', req[w].e)) < list'[req[w].e]
  <2>1. PICK e \in AY!Entry : e = req[w].e
    BY <1>0, <1>3, RequestFields
  <2>2. Cardinality(Queried(job, e)) < list[e]
    BY <1>0, <1>3, <2>1 DEF AddInv
  <2>3. Cardinality(Queried(job', e)) < list'[e]
    BY <1>3, <2>1, <2>2
  <2>4. QED
    BY <2>1, <2>3
<1>4. AddInv'
  BY <1>3 DEF AddInv, Queried, FileOf
<1>5. ASSUME NEW f \in AY!Files, f \notin lost', NEW a \in Areas, area'[f][a] = "unsync"
      PROVE  \/ rec'[<<f[2], a>>].state # "absent"
             \/ \E w \in Workers : req'[w] # AY!Idle /\ FileOf(req'[w].e) = f
             \/ \E e \in AY!Entry : FileOf(e) = f /\ Cardinality(Queried(job', e)) < list'[e]
             \/ \E t \in Slots : job'[t].at = "sync" /\ FileOf(job'[t].e) = f /\ a \in job'[t].todo
  <2>1. area[f][a] = "unsync" /\ f \notin lost
    BY <1>0, <1>5
  <2>2. \/ rec[<<f[2], a>>].state # "absent"
        \/ \E w \in Workers : req[w] # AY!Idle /\ FileOf(req[w].e) = f
        \/ \E e \in AY!Entry : FileOf(e) = f /\ Cardinality(Queried(job, e)) < list[e]
        \/ \E t \in Slots : job[t].at = "sync" /\ FileOf(job[t].e) = f /\ a \in job[t].todo
    BY <1>0, <2>1 DEF CoverInv
  <2>3. CASE rec[<<f[2], a>>].state # "absent"
    BY <1>5, <2>3 DEF RecordsStay
  <2>4. CASE \E e \in AY!Entry : FileOf(e) = f /\ Cardinality(Queried(job, e)) < list[e]
    <3>1. PICK e \in AY!Entry : FileOf(e) = f /\ Cardinality(Queried(job, e)) < list[e]
      BY <2>4
    <3>2. CASE x.at = "sync" /\ x.e = e /\ \A b \in Areas : area[FileOf(e)][b] = "unsync" => b \in x.todo
      BY <1>1, <2>1, <3>1, <3>2
    <3>3. CASE Cardinality(Queried(job', e)) < list'[e]
      BY <3>1, <3>3
    <3>4. QED
      BY <1>5, <3>1, <3>2, <3>3
  <2>5. ASSUME NEW t \in Slots, job[t].at = "sync", FileOf(job[t].e) = f, a \in job[t].todo
        PROVE  \/ rec'[<<f[2], a>>].state # "absent"
               \/ \E e \in AY!Entry : FileOf(e) = f /\ Cardinality(Queried(job', e)) < list'[e]
               \/ \E u \in Slots : job'[u].at = "sync" /\ FileOf(job'[u].e) = f /\ a \in job'[u].todo
    <3>1. CASE t # s
      BY <1>1, <2>5, <3>1
    <3>2. CASE t = s
      <4>1. PICK e \in AY!Entry : e = job[s].e
        BY <1>1, <2>5, <3>2, JobFields
      <4>2. f[2] = e.h
        BY <2>5, <3>2, <4>1 DEF FileOf
      <4>3. \/ x.at = "sync" /\ x.e = e /\ a \in x.todo
            \/ rec'[<<e.h, a>>].state # "absent"
            \/ Cardinality(Queried(job', e)) < list'[e]
        BY <1>5, <2>5, <3>2, <4>1
      <4>4. QED
        BY <1>1, <2>5, <3>2, <4>1, <4>2, <4>3
    <3>3. QED
      BY <3>1, <3>2
  <2>6. QED
    BY <2>2, <2>3, <2>4, <2>5
<1>6. CoverInv'
  BY <1>5 DEF CoverInv, Queried, FileOf
<1>7. QED
  BY <1>2, <1>4, <1>6

\* A goroutine goes on with its entry or lets it go, and the list stays.
LEMMA JobGoesOn ==
  ASSUME AY!TypeOK, AY!TypeOK', ListInv, lost \subseteq lost', list' = list, NEW s \in Slots,
         NEW x \in {AY!Idle} \cup AY!Job, job' = [job EXCEPT ![s] = x],
         job[s].at # "idle", x.at # "idle" => x.e = job[s].e,
         x.at \in {"sync", "update", "remove"} => job[s].at \in {"sync", "update", "remove"},
         NEW e \in AY!Entry
  PROVE  /\ FileOf(e) \notin lost' => Cardinality(Busy(job', e)) <= list'[e]
         /\ Cardinality(Queried(job, e)) < list[e] => Cardinality(Queried(job', e)) < list'[e]
<1>1. job \in [Slots -> {AY!Idle} \cup AY!Job] /\ list[e] \in Nat
  BY DEF AY!TypeOK
<1>2. PICK m, n, k, l \in Nat :
         /\ m = Cardinality(Busy(job, e)) /\ n = Cardinality(Busy(job', e))
         /\ k = Cardinality(Queried(job, e)) /\ l = Cardinality(Queried(job', e))
         /\ n + Works(job[s], e)
              = m + Works(x, e)
         /\ l + Asked(job[s], e)
              = k + Asked(x, e)
  BY <1>1, JobNumbers
<1>3. n <= m
  BY <1>2 DEF Works
<1>4. x.at \in {"sync", "update", "remove"} => x.at # "idle"
  OBVIOUS
<1>5. l <= k
  BY <1>2, <1>4 DEF Asked
<1>6. FileOf(e) \notin lost' => m <= list[e]
  BY <1>2 DEF ListInv
<1>7. QED
  BY <1>1, <1>2, <1>3, <1>5, <1>6

\* An upload that pushes its entry.
LEMMA CoverPush ==
  ASSUME SyncInv, AY!TypeOK', RecordsStay, NEW w \in Workers, AY!PushSchedulerInfo(w)
  PROVE  ListInv' /\ AddInv' /\ CoverInv'
<1>0. AY!TypeOK /\ ListInv /\ AddInv /\ CoverInv /\ lost \subseteq lost'
  BY DEF SyncInv, RecordsStay
<1>1. req[w].at = "push" /\ req[w] \in AY!Upload /\ req[w].e \in AY!Entry
  BY <1>0, RequestFields DEF AY!PushSchedulerInfo
<1>2. PICK e \in AY!Entry : e = req[w].e
  BY <1>1
<1>3. /\ job' = job /\ area' = area
      /\ req' = [req EXCEPT ![w].at = "add"]
      /\ \/ list' = [list EXCEPT ![e] = @ + 1]
         \/ list' = list /\ FileOf(e) \in lost'
  BY <1>2 DEF AY!PushSchedulerInfo, AY!Disturb, FileOf
<1>4. /\ req'[w].at = "add" /\ req'[w].e = e
      /\ \A v \in Workers : v # w => req'[v] = req[v]
  BY <1>0, <1>1, <1>2, <1>3 DEF AY!TypeOK, AY!Upload
<1>5. \A d \in AY!Entry : /\ list[d] \in Nat /\ list'[d] \in Nat /\ list[d] <= list'[d]
                          /\ d = e /\ FileOf(d) \notin lost' => list[d] < list'[d]
  BY <1>0, <1>3 DEF AY!TypeOK
<1>6. \A d \in AY!Entry : /\ Cardinality(Busy(job, d)) \in Nat /\ Cardinality(Queried(job, d)) \in Nat
                          /\ Cardinality(Queried(job, d)) <= Cardinality(Busy(job, d))
  BY <1>0, JobCounts DEF AY!TypeOK
<1>7. \A d \in AY!Entry : FileOf(d) \notin lost' => Cardinality(Busy(job, d)) <= list'[d]
  <2>1. \A d \in AY!Entry : FileOf(d) \notin lost' => Cardinality(Busy(job, d)) <= list[d]
    BY <1>0 DEF ListInv
  <2>2. QED
    BY <1>5, <1>6, <2>1
<1>8. ListInv'
  BY <1>3, <1>7 DEF ListInv, Busy, FileOf
<1>9. \A d \in AY!Entry : Cardinality(Queried(job, d)) < list[d] => Cardinality(Queried(job, d)) < list'[d]
  BY <1>5, <1>6
<1>10. ASSUME NEW v \in Workers, req'[v].at = "add", FileOf(req'[v].e) \notin lost'
       PROVE  Cardinality(Queried(job, req'[v].e)) < list'[req'[v].e]
  <2>1. CASE v = w
    <3>1. Cardinality(Busy(job, e)) <= list[e] /\ list[e] < list'[e]
      BY <1>0, <1>4, <1>5, <1>10, <2>1 DEF ListInv
    <3>2. Cardinality(Queried(job, e)) < list'[e]
      BY <1>5, <1>6, <3>1
    <3>3. QED
      BY <1>4, <2>1, <3>2
  <2>2. CASE v # w
    <3>1. PICK d \in AY!Entry : d = req[v].e
      BY <1>0, <1>4, <1>10, <2>2, RequestFields
    <3>2. Cardinality(Queried(job, d)) < list[d]
      BY <1>0, <1>4, <1>10, <2>2, <3>1 DEF AddInv
    <3>3. QED
      BY <1>4, <1>9, <2>2, <3>1, <3>2
  <2>3. QED
    BY <2>1, <2>2
<1>11. AddInv'
  BY <1>3, <1>10 DEF AddInv, Queried, FileOf
<1>12. ASSUME NEW f \in AY!Files, f \notin lost', NEW a \in Areas, area[f][a] = "unsync"
       PROVE  \/ rec'[<<f[2], a>>].state # "absent"
              \/ \E v \in Workers : req'[v] # AY!Idle /\ FileOf(req'[v].e) = f
              \/ \E d \in AY!Entry : FileOf(d) = f /\ Cardinality(Queried(job, d)) < list'[d]
              \/ \E s \in Slots : job[s].at = "sync" /\ FileOf(job[s].e) = f /\ a \in job[s].todo
  <2>1. \/ rec[<<f[2], a>>].state # "absent"
        \/ \E v \in Workers : req[v] # AY!Idle /\ FileOf(req[v].e) = f
        \/ \E d \in AY!Entry : FileOf(d) = f /\ Cardinality(Queried(job, d)) < list[d]
        \/ \E s \in Slots : job[s].at = "sync" /\ FileOf(job[s].e) = f /\ a \in job[s].todo
    BY <1>0, <1>12 DEF CoverInv
  <2>2. rec[<<f[2], a>>].state # "absent" => rec'[<<f[2], a>>].state # "absent"
    BY <1>12 DEF RecordsStay
  <2>3. ASSUME NEW v \in Workers, req[v] # AY!Idle, FileOf(req[v].e) = f
        PROVE  req'[v] # AY!Idle /\ FileOf(req'[v].e) = f
    <3>1. req'[w] # AY!Idle
      BY <1>4 DEF AY!Idle
    <3>2. QED
      BY <1>2, <1>4, <2>3, <3>1
  <2>4. QED
    BY <1>9, <2>1, <2>2, <2>3
<1>13. CoverInv'
  BY <1>3, <1>12, ZenonT(40) DEF CoverInv, Queried, FileOf
<1>14. QED
  BY <1>8, <1>11, <1>13

\* The steps of a goroutine, each with what JobStep asks of it.
LEMMA CoverJob ==
  ASSUME SyncInv, AY!TypeOK', RecordsStay, NEW s \in Slots, AY!Goroutine(s)
  PROVE  ListInv' /\ AddInv' /\ CoverInv'
<1>0. AY!TypeOK /\ ListInv /\ AddInv /\ CoverInv /\ lost \subseteq lost'
  BY DEF SyncInv, RecordsStay
<1>1. /\ job \in [Slots -> {AY!Idle} \cup AY!Job] /\ job' \in [Slots -> {AY!Idle} \cup AY!Job]
      /\ list \in [AY!Entry -> Nat]
  BY <1>0 DEF AY!TypeOK
<1>2. /\ job[s] \in {AY!Idle} \cup AY!Job /\ job[s].at # "idle" /\ job[s].e \in AY!Entry
      /\ job[s] \in AY!Job
  BY <1>1, JobFields DEF AY!Goroutine, AY!CheckSyncState, AY!GetUnSyncAreaIDs, AY!SyncArea,
       AY!SyncShedulersFails, AY!MarkSynced, AY!DelSchedulerInfo
<1>3. PICK d \in AY!Entry : d = job[s].e
  BY <1>2
<1>4. PICK x \in {AY!Idle} \cup AY!Job : job' = [job EXCEPT ![s] = x] /\ job'[s] = x
  <2>1. \E x : job' = [job EXCEPT ![s] = x]
    BY Zenon DEF AY!Goroutine, AY!CheckSyncState, AY!GetUnSyncAreaIDs, AY!SyncArea,
         AY!SyncShedulersFails, AY!MarkSynced, AY!DelSchedulerInfo, AY!Finish
  <2>2. PICK x : job' = [job EXCEPT ![s] = x]
    BY <2>1
  <2>3. job'[s] = x
    BY <1>1, <2>2
  <2>4. QED
    BY <1>1, <2>2, <2>3
<1>5. req' = req
  BY DEF AY!Goroutine, AY!CheckSyncState, AY!GetUnSyncAreaIDs, AY!SyncArea,
       AY!SyncShedulersFails, AY!MarkSynced, AY!DelSchedulerInfo
<1>6. /\ AY!Idle.at = "idle"
      /\ \A e \in AY!Entry : Cardinality(Queried(job, e)) <= Cardinality(Busy(job, e))
      /\ \A e \in AY!Entry : FileOf(e) \notin lost' => Cardinality(Busy(job, e)) <= list[e]
  <2>1. AY!Idle.at = "idle"
    BY DEF AY!Idle
  <2>2. \A e \in AY!Entry : Cardinality(Queried(job, e)) <= Cardinality(Busy(job, e))
    BY <1>1, JobCounts
  <2>3. QED
    BY <1>0, <2>1, <2>2 DEF ListInv
\* The list stays, and what the goroutine has asked for is done, goes on or is disturbed.
<1>7. ASSUME list' = list, x.at # "idle" => x.e = d,
             x.at \in {"sync", "update", "remove"} => job[s].at \in {"sync", "update", "remove"},
             \A f \in AY!Files, a \in Areas : area'[f][a] = "unsync" => area[f][a] = "unsync",
             job[s].at = "sync" /\ FileOf(d) \notin lost' => \A a \in job[s].todo :
               \/ x.at = "sync" /\ x.e = d /\ a \in x.todo
               \/ rec'[<<d.h, a>>].state # "absent"
               \/ Cardinality(Queried(job', d)) < list'[d]
      PROVE  ListInv' /\ AddInv' /\ CoverInv'
  <2>1. ASSUME NEW e \in AY!Entry
        PROVE  /\ FileOf(e) \notin lost' => Cardinality(Busy(job', e)) <= list'[e]
               /\ Cardinality(Queried(job, e)) < list[e] => Cardinality(Queried(job', e)) < list'[e]
    BY <1>0, <1>2, <1>3, <1>4, <1>7, JobGoesOn
  <2>2. job[s].at = "sync" /\ FileOf(job[s].e) \notin lost' => \A a \in job[s].todo :
           \/ x.at = "sync" /\ x.e = job[s].e /\ a \in x.todo
           \/ rec'[<<job[s].e.h, a>>].state # "absent"
           \/ Cardinality(Queried(job', job[s].e)) < list'[job[s].e]
    BY <1>3, <1>7
  <2>3. QED
    BY <1>4, <1>5, <1>7, <2>1, <2>2, JobStep
<1>8. CASE AY!CheckSyncState(s)
  <2>1. x = AY!Idle \/ x = [job[s] EXCEPT !.at = "query"]
    BY <1>1, <1>4, <1>8 DEF AY!CheckSyncState, AY!Finish
  <2>2. x.at # "idle" => x.e = d
    BY <1>2, <1>3, <1>6, <2>1 DEF AY!Job
  <2>3. x.at \notin {"sync", "update", "remove"}
    BY <1>2, <1>6, <2>1 DEF AY!Job
  <2>4. list' = list /\ area' = area /\ job[s].at = "look"
    BY <1>8 DEF AY!CheckSyncState
  <2>5. QED
    BY <1>7, <2>2, <2>3, <2>4
<1>9. CASE AY!SyncArea(s)
  <2>1. PICK a \in job[s].todo :
          /\ \/ job' = [job EXCEPT ![s].todo = @ \ {a}]
             \/ job' = [job EXCEPT ![s].todo = @ \ {a}, ![s].done = @ \cup {a}]
          /\ \/ rec[<<d.h, a>>].state = "ready" /\ rec' = rec
             \/ rec' = IF rec[<<d.h, a>>].state = "absent"
                       THEN [rec EXCEPT ![<<d.h, a>>] = [state |-> "pulling", owner |-> d.o]]
                       ELSE rec
             \/ FileOf(d) \in lost'
    <3>1. PICK a \in job[s].todo :
          /\ \/ job' = [job EXCEPT ![s].todo = @ \ {a}]
             \/ job' = [job EXCEPT ![s].todo = @ \ {a}, ![s].done = @ \cup {a}]
          /\ \/ rec[<<d.h, a>>].state = "ready" /\ rec' = rec
             \/ rec' = IF rec[<<d.h, a>>].state = "absent"
                       THEN [rec EXCEPT ![<<d.h, a>>] = [state |-> "pulling", owner |-> d.o]]
                       ELSE rec
             \/ lost' = lost \cup {<<d.u, d.h>>}
      BY <1>3, <1>9, Zenon DEF AY!SyncArea, AY!Disturb
    <3>2. QED
      BY <3>1 DEF FileOf
  <2>2. list' = list /\ area' = area /\ job[s].at = "sync"
    BY <1>9 DEF AY!SyncArea
  <2>3. x = [job[s] EXCEPT !.todo = @ \ {a}] \/ x = [job[s] EXCEPT !.todo = @ \ {a}, !.done = @ \cup {a}]
    BY <1>1, <1>4, <2>1
  <2>4. x.at = "sync" /\ x.e = d /\ x.todo = job[s].todo \ {a}
    BY <1>2, <1>3, <2>2, <2>3 DEF AY!Job
  <2>5. a \in Areas /\ <<d.h, a>> \in AY!Copies
    <3>1. a \in Areas
      BY <1>2, <2>1, <2>2, JobFields
    <3>2. QED
      BY <3>1, EntryFields DEF AY!Copies
  <2>6. FileOf(d) \notin lost' => rec'[<<d.h, a>>].state # "absent"
    <3>1. rec \in [AY!Copies -> AY!Record]
      BY <1>0 DEF AY!TypeOK
    <3>2. CASE rec' = rec
      BY <2>1, <2>5, <3>1, <3>2
    <3>3. CASE rec' = [rec EXCEPT ![<<d.h, a>>] = [state |-> "pulling", owner |-> d.o]]
      BY <2>5, <3>1, <3>3
    <3>4. QED
      BY <2>1, <3>2, <3>3
  <2>7. QED
    BY <1>7, <2>2, <2>4, <2>6
<1>10. CASE AY!SyncShedulersFails(s)
  <2>1. /\ x = AY!Idle /\ list' = list /\ area' = area /\ job[s].at = "sync"
    BY <1>1, <1>4, <1>10 DEF AY!SyncShedulersFails, AY!Finish
  <2>2. FileOf(d) \notin lost' => Cardinality(Queried(job', d)) < list'[d]
    <3>1. PICK m, n, k, l \in Nat :
            /\ m = Cardinality(Busy(job, d)) /\ n = Cardinality(Busy(job', d))
            /\ k = Cardinality(Queried(job, d)) /\ l = Cardinality(Queried(job', d))
            /\ n + Works(job[s], d)
                 = m + Works(x, d)
            /\ l + Asked(job[s], d)
                 = k + Asked(x, d)
      BY <1>1, <1>4, JobNumbers, ZenonT(40)
    <3>3. l + 1 = k
      BY <1>3, <1>6, <2>1, <3>1 DEF Works, Asked
    <3>4. k <= m /\ (FileOf(d) \notin lost' => m <= list[d]) /\ list[d] \in Nat
      BY <1>1, <1>6, <3>1
    <3>5. QED
      BY <2>1, <3>1, <3>3, <3>4
  <2>3. QED
    BY <1>6, <1>7, <2>1, <2>2
<1>11. CASE AY!MarkSynced(s)
  <2>1. x = [at |-> "remove", e |-> d] \/ x = AY!Idle
    BY <1>1, <1>3, <1>4, <1>11 DEF AY!MarkSynced, AY!Finish
  <2>2. list' = list /\ job[s].at = "sync" /\ job[s].todo = {}
    BY <1>11 DEF AY!MarkSynced
  <2>3. AY!UpdateUnSyncAreaIDs(d.u, d.h, job[s].done, "sync") \/ area' = area
    BY <1>3, <1>11 DEF AY!MarkSynced
  <2>4. ASSUME NEW f \in AY!Files, NEW a \in Areas, area'[f][a] = "unsync"
        PROVE  area[f][a] = "unsync"
    <3>1. d.u \in Users /\ d.h \in Hashes /\ "sync" \in AY!Flags
      BY EntryFields DEF AY!Flags
    <3>2. CASE AY!UpdateUnSyncAreaIDs(d.u, d.h, job[s].done, "sync")
      <4>1. PICK u \in Users, h \in Hashes, flag \in AY!Flags : u = d.u /\ h = d.h /\ flag = "sync"
        BY <3>1
      <4>2. AY!UpdateUnSyncAreaIDs(u, h, job[s].done, flag)
        BY <3>2, <4>1
      <4>3. area'[f][a] # area[f][a] => area'[f][a] = flag
        BY <1>0, <4>2, FlagWritten
      <4>4. QED
        BY <2>4, <4>1, <4>3
    <3>3. QED
      BY <2>3, <2>4, <3>2
  <2>5. QED
    BY <1>6, <1>7, <2>1, <2>2, <2>4
<1>12. CASE AY!GetUnSyncAreaIDs(s)
  <2>1. /\ list' = list /\ area' = area /\ job[s].at = "query"
        /\ \/ FileOf(d) \in lost'
           \/ \A w \in Workers : req[w].at = "add" => FileOf(req[w].e) # FileOf(d)
    BY <1>3, <1>12 DEF AY!GetUnSyncAreaIDs, AY!Disturb, FileOf
  <2>2. PICK todo : /\ todo = {a \in Areas : area[<<d.u, d.h>>][a] = "unsync"}
                    /\ x = [at |-> "sync", e |-> d, done |-> {}, todo |-> todo]
    BY <1>1, <1>3, <1>4, <1>12 DEF AY!GetUnSyncAreaIDs
  <2>3. /\ x.at = "sync" /\ x.e = d /\ x.at # "idle"
        /\ \A a \in Areas : area[FileOf(d)][a] = "unsync" => a \in x.todo
    BY <2>2 DEF FileOf
  <2>4. ASSUME NEW e \in AY!Entry
        PROVE  /\ Cardinality(Busy(job', e)) = Cardinality(Busy(job, e))
               /\ e # d => Cardinality(Queried(job', e)) = Cardinality(Queried(job, e))
    <3>1. PICK m, n, k, l \in Nat :
            /\ m = Cardinality(Busy(job, e)) /\ n = Cardinality(Busy(job', e))
            /\ k = Cardinality(Queried(job, e)) /\ l = Cardinality(Queried(job', e))
            /\ n + Works(job[s], e)
                 = m + Works(x, e)
            /\ l + Asked(job[s], e)
                 = k + Asked(x, e)
      BY <1>1, <1>4, JobNumbers, ZenonT(40)
    <3>3. n = m
      BY <1>2, <1>3, <2>3, <3>1 DEF Works, Asked
    <3>4. e # d => l = k
      BY <1>3, <2>3, <3>1 DEF Works, Asked
    <3>5. QED
      BY <3>1, <3>3, <3>4
  <2>5. \A e \in AY!Entry : FileOf(e) \notin lost' => Cardinality(Busy(job', e)) <= list'[e]
    BY <1>6, <2>1, <2>4
  <2>6. ASSUME NEW e \in AY!Entry, FileOf(e) \notin lost', Cardinality(Queried(job, e)) < list[e]
        PROVE  \/ Cardinality(Queried(job', e)) < list'[e]
               \/ /\ x.at = "sync" /\ x.e = e
                  /\ \A w \in Workers : req[w].at = "add" => FileOf(req[w].e) # FileOf(e)
                  /\ \A a \in Areas : area[FileOf(e)][a] = "unsync" => a \in x.todo
    <3>1. CASE e = d
      BY <2>1, <2>3, <2>6, <3>1
    <3>2. CASE e # d
      BY <2>1, <2>4, <2>6, <3>2
    <3>3. QED
      BY <3>1, <3>2
  <2>7. job[s].at # "sync" /\ \A f \in AY!Files, a \in Areas : area'[f][a] = "unsync" => area[f][a] = "unsync"
    BY <2>1
  <2>8. QED
    BY <1>4, <1>5, <2>5, <2>6, <2>7, JobStep
<1>13. CASE AY!DelSchedulerInfo(s)
  <2>1. /\ x = AY!Idle /\ x.at = "idle" /\ area' = area /\ job[s].at = "remove"
        /\ list' = [list EXCEPT ![d] = IF @ > 0 THEN @ - 1 ELSE 0]
    BY <1>1, <1>3, <1>4, <1>6, <1>13 DEF AY!DelSchedulerInfo, AY!Finish
  <2>2. ASSUME NEW e \in AY!Entry, FileOf(e) \notin lost'
        PROVE  /\ Cardinality(Busy(job', e)) <= list'[e]
               /\ Cardinality(Queried(job, e)) < list[e] => Cardinality(Queried(job', e)) < list'[e]
    <3>1. PICK m, n, k, l \in Nat :
            /\ m = Cardinality(Busy(job, e)) /\ n = Cardinality(Busy(job', e))
            /\ k = Cardinality(Queried(job, e)) /\ l = Cardinality(Queried(job', e))
            /\ n + Works(job[s], e)
                 = m + Works(x, e)
            /\ l + Asked(job[s], e)
                 = k + Asked(x, e)
      BY <1>1, <1>4, JobNumbers
    <3>3. m <= list[e] /\ list[e] \in Nat /\ list[d] \in Nat
      BY <1>1, <1>6, <2>2, <3>1
    <3>4. CASE e = d
      <4>1. n + 1 = m /\ l + 1 = k
        BY <1>2, <1>3, <2>1, <3>1, <3>4 DEF Works, Asked
      <4>2. list[e] > 0
        BY <3>1, <3>3, <4>1
      <4>3. list'[e] = list[e] - 1
        BY <1>1, <2>1, <3>4, <4>2
      <4>4. n <= list'[e] /\ (k < list[e] => l < list'[e])
        BY <3>1, <3>3, <4>1, <4>3
      <4>5. QED
        BY <3>1, <4>4
    <3>5. CASE e # d
      <4>1. n = m /\ l = k
        BY <1>3, <2>1, <3>1, <3>5 DEF Works, Asked
      <4>2. list'[e] = list[e]
        BY <1>1, <2>1, <3>5
      <4>3. QED
        BY <3>1, <3>3, <4>1, <4>2
    <3>6. QED
      BY <3>4, <3>5
  <2>3. job[s].at # "sync" /\ \A f \in AY!Files, a \in Areas : area'[f][a] = "unsync" => area[f][a] = "unsync"
    BY <2>1
  <2>4. QED
    BY <1>4, <1>5, <2>2, <2>3, JobStep
<1>14. QED
  BY <1>8, <1>9, <1>10, <1>11, <1>12, <1>13 DEF AY!Goroutine

\* Every step.
LEMMA CoverNext ==
  ASSUME SyncInv, [AY!Next]_syncVars, AY!TypeOK', RecordsStay
  PROVE  ListInv' /\ AddInv' /\ CoverInv'
<1>0. AY!TypeOK /\ ListInv /\ AddInv /\ CoverInv /\ lost \subseteq lost'
  BY DEF SyncInv, RecordsStay
<1>1. CASE UNCHANGED <<area, list, req, job>>
  BY <1>1, QuietStep
<1>2. ASSUME NEW w \in Workers, NEW e \in AY!Entry, NEW asked \in SUBSET Areas,
             AY!CreateAsset(w, e, asked)
      PROVE  ListInv' /\ AddInv' /\ CoverInv'
  <2>1. PICK missing :
          /\ missing = {} => req' = req
          /\ missing # {} => req' = [req EXCEPT ![w] = [at |-> "create", e |-> e, missing |-> missing]]
          /\ area' = area \/ AY!UpdateUnSyncAreaIDs(e.u, e.h, missing, "unsync")
    BY <1>2, Zenon DEF AY!CreateAsset
  <2>2. job' = job /\ list' = list /\ req[w] = AY!Idle
    BY <1>2 DEF AY!CreateAsset
  <2>3. req \in [Workers -> {AY!Idle} \cup AY!Upload] /\ AY!Idle.at = "idle"
    BY <1>0 DEF AY!TypeOK, AY!Idle
  <2>4. \A v \in Workers : v # w => req'[v] = req[v]
    BY <2>1, <2>3
  <2>5. missing # {} => req'[w].at = "create" /\ req'[w].e = e
    BY <2>1, <2>3
  <2>6. \A v \in Workers : req'[v].at = "add" => req[v].at = "add" /\ req'[v].e = req[v].e
    BY <2>1, <2>4, <2>5
  <2>7. \A v \in Workers : req[v] # AY!Idle => req'[v] # AY!Idle /\ req'[v].e = req[v].e
    BY <2>2, <2>4
  <2>8. ASSUME NEW f \in AY!Files, NEW a \in Areas, area'[f][a] = "unsync", area[f][a] # "unsync"
        PROVE  \E v \in Workers : req'[v] # AY!Idle /\ FileOf(req'[v].e) = f
    <3>1. PICK u \in Users, h \in Hashes, flag \in AY!Flags : u = e.u /\ h = e.h /\ flag = "unsync"
      BY EntryFields DEF AY!Flags
    <3>2. AY!UpdateUnSyncAreaIDs(u, h, missing, flag)
      BY <2>1, <2>8, <3>1
    <3>3. f = <<u, h>> /\ a \in missing
      BY <1>0, <2>8, <3>2, FlagWritten
    <3>4. req'[w].at = "create" /\ FileOf(req'[w].e) = f
      BY <2>5, <3>1, <3>3 DEF FileOf
    <3>5. QED
      BY <2>3, <3>4
  <2>9. QED
    BY <2>2, <2>6, <2>7, <2>8, QuietStep
<1>3. ASSUME NEW w \in Workers, AY!SchedulerCreate(w)
      PROVE  ListInv' /\ AddInv' /\ CoverInv'
  <2>1. req[w] \in AY!Upload /\ req[w].at = "create"
    BY <1>0, <1>3, RequestFields DEF AY!SchedulerCreate
  <2>2. /\ job' = job /\ list' = list /\ area' = area
        /\ \/ req' = [req EXCEPT ![w].at = "push"]
           \/ req' = [req EXCEPT ![w] = AY!Idle] /\ FileOf(req[w].e) \in lost'
    BY <1>3, Zenon DEF AY!SchedulerCreate, AY!Disturb, FileOf
  <2>3. req \in [Workers -> {AY!Idle} \cup AY!Upload] /\ AY!Idle.at = "idle"
    BY <1>0 DEF AY!TypeOK, AY!Idle
  <2>4. \A v \in Workers : v # w => req'[v] = req[v]
    BY <2>2, <2>3
  <2>5. \/ req'[w].at = "push" /\ req'[w].e = req[w].e
        \/ req'[w] = AY!Idle /\ FileOf(req[w].e) \in lost'
    BY <2>1, <2>2, <2>3 DEF AY!Upload
  <2>6. \A v \in Workers : req'[v].at = "add" => req[v].at = "add" /\ req'[v].e = req[v].e
    BY <2>3, <2>4, <2>5
  <2>7. \A v \in Workers : req[v] # AY!Idle /\ FileOf(req[v].e) \notin lost' =>
          req'[v] # AY!Idle /\ req'[v].e = req[v].e
    BY <2>3, <2>4, <2>5
  <2>8. QED
    BY <2>2, <2>6, <2>7, QuietStep
<1>4. ASSUME NEW w \in Workers, AY!AddAreas(w)
      PROVE  ListInv' /\ AddInv' /\ CoverInv'
  <2>1. PICK e \in AY!Entry : e = req[w].e /\ req[w].at = "add"
    BY <1>0, <1>4, RequestFields DEF AY!AddAreas
  <2>2. PICK g : area' = [area EXCEPT ![<<e.u, e.h>>] = g]
    BY <1>4, <2>1, Zenon DEF AY!AddAreas
  <2>3. req' = [req EXCEPT ![w] = AY!Idle] /\ UNCHANGED <<job, list>>
    BY <1>4 DEF AY!AddAreas
  <2>4. /\ req \in [Workers -> {AY!Idle} \cup AY!Upload] /\ AY!Idle.at = "idle"
        /\ area \in [AY!Files -> [Areas -> AY!Flags]]
    BY <1>0 DEF AY!TypeOK, AY!Idle
  <2>5. req'[w] = AY!Idle /\ \A v \in Workers : v # w => req'[v] = req[v]
    BY <2>3, <2>4
  <2>6. \A v \in Workers : req'[v].at = "add" => req[v].at = "add" /\ req'[v].e = req[v].e
    BY <2>4, <2>5
  <2>7. \A v \in Workers : req[v] # AY!Idle => req[v].at = "add" \/ (req'[v] # AY!Idle /\ req'[v].e = req[v].e)
    BY <2>1, <2>5
  <2>8. \A f \in AY!Files : f # FileOf(e) => area'[f] = area[f]
    BY <2>2, <2>4 DEF FileOf
  <2>9. \A f \in AY!Files, a \in Areas : area'[f][a] = "unsync" =>
          area[f][a] = "unsync" \/ (req[w].at = "add" /\ FileOf(req[w].e) = f)
    BY <2>1, <2>8
  <2>10. QED
    BY <2>3, <2>6, <2>7, <2>9, QuietStep
<1>5. ASSUME NEW s \in Slots, NEW e \in AY!Entry, AY!GetAllSchedulerInfos(s, e) \/ AY!GetAgain(s, e)
      PROVE  ListInv' /\ AddInv' /\ CoverInv'
  <2>1. PICK x \in {AY!Idle} \cup AY!Job : x = [at |-> "look", e |-> e] /\ x.at = "look" /\ x.e = e
    <3>1. [at |-> "look", e |-> e] \in AY!Job
      BY DEF AY!Job
    <3>2. [at |-> "look", e |-> e].at = "look" /\ [at |-> "look", e |-> e].e = e
      OBVIOUS
    <3>3. QED
      BY <3>1, <3>2
  <2>2. /\ job' = [job EXCEPT ![s] = x] /\ job[s].at = "idle"
        /\ req' = req /\ area' = area /\ list' = list
        /\ FileOf(e) \in lost' \/ list[e] > Cardinality(Busy(job, e))
    <3>1. /\ job' = [job EXCEPT ![s] = x] /\ job[s].at = "idle"
          /\ req' = req /\ area' = area /\ list' = list
      BY <1>5, <2>1 DEF AY!GetAllSchedulerInfos, AY!GetAgain, AY!Take, AY!Idle
    <3>2. CASE AY!GetAllSchedulerInfos(s, e)
      BY <3>1, <3>2, SameCardinality DEF AY!GetAllSchedulerInfos, Busy
    <3>3. CASE AY!GetAgain(s, e)
      BY <3>1, <3>3 DEF AY!GetAgain, AY!Disturb, FileOf
    <3>4. QED
      BY <1>5, <3>1, <3>2, <3>3
  <2>3. job \in [Slots -> {AY!Idle} \cup AY!Job] /\ list \in [AY!Entry -> Nat]
    BY <1>0 DEF AY!TypeOK
  <2>4. ASSUME NEW d \in AY!Entry
        PROVE  /\ FileOf(d) \notin lost' => Cardinality(Busy(job', d)) <= list'[d]
               /\ Cardinality(Queried(job', d)) = Cardinality(Queried(job, d))
    <3>1. PICK m, n, k, l \in Nat :
            /\ m = Cardinality(Busy(job, d)) /\ n = Cardinality(Busy(job', d))
            /\ k = Cardinality(Queried(job, d)) /\ l = Cardinality(Queried(job', d))
            /\ n + Works(job[s], d) = m + Works(x, d)
            /\ l + Asked(job[s], d) = k + Asked(x, d)
      BY <2>2, <2>3, JobNumbers
    <3>2. l = k
      BY <2>1, <2>2, <3>1 DEF Asked
    <3>3. n = IF d = e THEN m + 1 ELSE m
      BY <2>1, <2>2, <3>1 DEF Works
    <3>4. FileOf(d) \notin lost' => m <= list[d]
      BY <1>0, <3>1 DEF ListInv
    <3>5. FileOf(d) \notin lost' => n <= list[d]
      BY <2>2, <2>3, <3>1, <3>3, <3>4
    <3>6. QED
      BY <2>2, <3>1, <3>2, <3>5
  <2>5. QED
    BY <2>2, <2>4, JobStep
<1>6. ASSUME NEW a \in Areas, AY!UpdateSyncAssetAreas(a)
      PROVE  ListInv' /\ AddInv' /\ CoverInv'
  <2>1. /\ area' = [f \in AY!Files |-> [area[f] EXCEPT ![a] =
                      IF @ = "unsync" /\ f[2] \in areaReport[a] THEN "sync" ELSE @]]
        /\ UNCHANGED <<list, req, job>>
    BY <1>6 DEF AY!UpdateSyncAssetAreas
  <2>2. ASSUME NEW f \in AY!Files, NEW b \in Areas, area'[f][b] = "unsync" PROVE area[f][b] = "unsync"
    <3>1. area[f] \in [Areas -> AY!Flags]
      BY <1>0 DEF AY!TypeOK
    <3>2. QED
      BY <2>1, <2>2, <3>1
  <2>3. QED
    BY <2>1, <2>2, QuietStep
<1>7. QED
  BY <1>1, <1>2, <1>3, <1>4, <1>5, <1>6, CoverPush, CoverJob
     DEF AY!Next, AY!Handler, syncVars, AY!GetSyncSuccessHash, AY!Pulled, AY!Remove

LEMMA SyncNext == SyncInv /\ [AY!Next]_syncVars => SyncInv'
<1> SUFFICES ASSUME SyncInv, [AY!Next]_syncVars PROVE SyncInv'
  OBVIOUS
<1>1. AY!TypeOK'
  BY SyncTypeNext DEF SyncInv
<1>2. RecordsStay
  BY RecordSteps DEF SyncInv
<1>3. FlagInv'
  BY <1>1, <1>2, FlagNext
<1>4. ListInv' /\ AddInv' /\ CoverInv'
  BY <1>1, <1>2, CoverNext
<1>5. QED
  BY <1>1, <1>3, <1>4 DEF SyncInv

\* What is remembered, of what the invariant says.
LEMMA SyncNow == SyncInv => AY!TypeOK /\ AY!FlagsAreEarned /\ AY!SyncNeverForgotten
<1> SUFFICES ASSUME SyncInv PROVE AY!SyncNeverForgotten
  BY DEF SyncInv, FlagInv
<1>0. AY!TypeOK /\ ListInv /\ AddInv /\ CoverInv
  BY DEF SyncInv
<1>1. job \in [Slots -> {AY!Idle} \cup AY!Job] /\ list \in [AY!Entry -> Nat]
  BY <1>0 DEF AY!TypeOK
<1>2. ASSUME NEW f \in AY!Files, f \notin lost, NEW a \in Areas, area[f][a] = "unsync"
      PROVE  \/ \E w \in Workers : req[w] # AY!Idle /\ req[w].e.u = f[1] /\ req[w].e.h = f[2]
             \/ \E e \in AY!Entry : list[e] > 0 /\ e.u = f[1] /\ e.h = f[2]
             \/ rec[<<f[2], a>>].state # "absent"
  <2>1. \/ rec[<<f[2], a>>].state # "absent"
        \/ \E w \in Workers : req[w] # AY!Idle /\ FileOf(req[w].e) = f
        \/ \E e \in AY!Entry : FileOf(e) = f /\ Cardinality(Queried(job, e)) < list[e]
        \/ \E s \in Slots : job[s].at = "sync" /\ FileOf(job[s].e) = f /\ a \in job[s].todo
    BY <1>0, <1>2 DEF CoverInv
  <2>2. CASE \E w \in Workers : req[w] # AY!Idle /\ FileOf(req[w].e) = f
    BY <2>2 DEF FileOf
  <2>3. CASE \E e \in AY!Entry : FileOf(e) = f /\ Cardinality(Queried(job, e)) < list[e]
    <3>1. PICK e \in AY!Entry : FileOf(e) = f /\ Cardinality(Queried(job, e)) < list[e]
      BY <2>3
    <3>2. list[e] > 0
      BY <1>1, <3>1, JobCounts
    <3>3. QED
      BY <3>1, <3>2 DEF FileOf
  <2>4. ASSUME NEW s \in Slots, job[s].at = "sync", FileOf(job[s].e) = f
        PROVE  \E e \in AY!Entry : list[e] > 0 /\ e.u = f[1] /\ e.h = f[2]
    <3>1. PICK e \in AY!Entry : e = job[s].e
      BY <1>1, <2>4, JobFields
    <3>2. Cardinality(Busy(job, e)) >= 1 /\ Cardinality(Busy(job, e)) <= list[e]
      BY <1>0, <1>1, <1>2, <2>4, <3>1, BusyCounts DEF ListInv
    <3>3. list[e] > 0
      BY <1>1, <3>2, JobCounts
    <3>4. QED
      BY <2>4, <3>1, <3>3 DEF FileOf
  <2>5. QED
    BY <2>1, <2>2, <2>3, <2>4
<1>3. QED
  BY <1>2 DEF AY!SyncNeverForgotten

-----------------------------------------------------------------------------
(* StatFetch                                                                *)

\* What the type invariant does not say of a firing: a run has a process as soon as
\* it is under way.
Firing == [pc : {"unfired", "count", "spawn", "wait", "done"}, process : Processes \cup {NoProcess},
           group : Int, fetching : Nat, pages : Nat]

Steps == {"count", "spawn", "done"}

FetchInv ==
    /\ SF!TypeOK
    /\ run \in [Runs -> Firing]
    /\ \A r \in Runs : /\ run[r].pc = "unfired" => run[r].fetching = 0
                       /\ run[r].pc # "unfired" => run[r].process \in Processes

LEMMA FetchInit == SF!Init => FetchInv
<1> SUFFICES ASSUME SF!Init PROVE FetchInv
  OBVIOUS
<1>1. SF!Unfired \in Firing /\ SF!Unfired.pc = "unfired" /\ SF!Unfired.fetching = 0
      /\ SF!Unfired.process = NoProcess
  BY DEF SF!Unfired, Firing
<1>2. run = [r \in Runs |-> SF!Unfired]
  BY DEF SF!Init
<1>3. /\ run \in [Runs -> Firing]
      /\ \A r \in Runs : run[r].pc = "unfired" /\ run[r].fetching = 0 /\ run[r].process = NoProcess
  BY <1>1, <1>2
<1>4. SF!TypeOK
  BY <1>3, FetchAssumption DEF SF!Init, SF!TypeOK
<1>5. QED
  BY <1>3, <1>4 DEF FetchInv

\* What two fields that change at once make of a firing.
LEMMA FiringFetched ==
  ASSUME NEW y \in Firing, y.fetching > 0, NEW x, x = [y EXCEPT !.fetching = @ - 1, !.group = @ - 1]
  PROVE  x \in Firing /\ x.pc = y.pc /\ x.process = y.process
<1>1. PICK z : z = [y EXCEPT !.fetching = @ - 1]
  OBVIOUS
<1>2. z \in Firing /\ z.pc = y.pc /\ z.process = y.process /\ z.group = y.group
  BY <1>1 DEF Firing
<1>3. x = [z EXCEPT !.group = @ - 1]
  BY <1>1, <1>2
<1>4. QED
  BY <1>2, <1>3 DEF Firing

\* A run changes.
LEMMA RunStep ==
  ASSUME FetchInv, NEW r \in Runs, NEW x \in Firing, run' = [run EXCEPT ![r] = x],
         x.pc # "unfired", x.process \in Processes
  PROVE  /\ run' \in [Runs -> Firing]
         /\ \A q \in Runs : /\ run'[q].pc = "unfired" => run'[q].fetching = 0
                            /\ run'[q].pc # "unfired" => run'[q].process \in Processes
         /\ \A q \in Runs : /\ run'[q].pc \in {"unfired", "count", "spawn", "wait", "done"}
                            /\ run'[q].process \in Processes \cup {NoProcess}
<1>1. run \in [Runs -> Firing]
  BY DEF FetchInv
<1>2. run'[r] = x /\ \A q \in Runs : q # r => run'[q] = run[q]
  BY <1>1
<1>3. run' \in [Runs -> Firing]
  BY <1>1
<1>4. \A q \in Runs : /\ run'[q].pc = "unfired" => run'[q].fetching = 0
                      /\ run'[q].pc # "unfired" => run'[q].process \in Processes
  BY <1>2 DEF FetchInv
<1>5. \A q \in Runs : /\ run'[q].pc \in {"unfired", "count", "spawn", "wait", "done"}
                      /\ run'[q].process \in Processes \cup {NoProcess}
  BY <1>3 DEF Firing
<1>6. QED
  BY <1>3, <1>4, <1>5

LEMMA FetchNext == FetchInv /\ [SF!Next]_fetchVars => FetchInv'
<1> SUFFICES ASSUME FetchInv, [SF!Next]_fetchVars PROVE FetchInv'
  OBVIOUS
<1>0. /\ locker \in Runs \cup {NoRun} /\ schedulers \in [Processes -> Counts]
      /\ run \in [Runs -> Firing]
      /\ queue \in [Processes -> 0 .. QueueSize]
      /\ handler \in [Processes -> {"select", "job", "finished", "finalize"}]
      /\ unsummed \in [Processes -> BOOLEAN] /\ alive \in [Processes -> BOOLEAN]
      /\ \A r \in Runs : /\ run[r].pc = "unfired" => run[r].fetching = 0
                         /\ run[r].pc # "unfired" => run[r].process \in Processes
  BY DEF FetchInv, SF!TypeOK
\* A run changes, and the rest keeps its types.
<1>1. ASSUME NEW r \in Runs, NEW x \in Firing, run' = [run EXCEPT ![r] = x],
             x.pc # "unfired", x.process \in Processes,
             locker' \in Runs \cup {NoRun}, schedulers' = schedulers,
             queue' \in [Processes -> 0 .. QueueSize], alive' \in [Processes -> BOOLEAN],
             handler' = handler, unsummed' = unsummed
      PROVE  FetchInv'
  <2>1. /\ run' \in [Runs -> Firing]
        /\ \A q \in Runs : /\ run'[q].pc = "unfired" => run'[q].fetching = 0
                           /\ run'[q].pc # "unfired" => run'[q].process \in Processes
        /\ \A q \in Runs : /\ run'[q].pc \in {"unfired", "count", "spawn", "wait", "done"}
                           /\ run'[q].process \in Processes \cup {NoProcess}
    BY <1>1, RunStep
  <2>2. SF!TypeOK'
    BY <1>0, <1>1, <2>1 DEF SF!TypeOK
  <2>3. QED
    BY <2>1, <2>2 DEF FetchInv
\* The runs stay, and the rest keeps its types.
<1>2. ASSUME run' = run, locker' \in Runs \cup {NoRun}, schedulers' \in [Processes -> Counts],
             queue' \in [Processes -> 0 .. QueueSize], alive' = alive,
             handler' \in [Processes -> {"select", "job", "finished", "finalize"}],
             unsummed' \in [Processes -> BOOLEAN]
      PROVE  FetchInv'
  BY <1>0, <1>2 DEF FetchInv, SF!TypeOK
<1>3. ASSUME NEW r \in Runs, NEW p \in Processes, SF!Once(r, p) PROVE FetchInv'
  <2>1. PICK x : /\ run' = [run EXCEPT ![r] = x]
                 /\ \/ x = [run[r] EXCEPT !.pc = "count", !.process = p]
                    \/ x = [run[r] EXCEPT !.pc = "done", !.process = p]
    <3>1. \/ run' = [run EXCEPT ![r].pc = "count", ![r].process = p]
          \/ run' = [run EXCEPT ![r].pc = "done", ![r].process = p]
      BY <1>3 DEF SF!Once
    <3>2. \/ run' = [run EXCEPT ![r] = [run[r] EXCEPT !.pc = "count", !.process = p]]
          \/ run' = [run EXCEPT ![r] = [run[r] EXCEPT !.pc = "done", !.process = p]]
      BY <1>0, <3>1
    <3>3. QED
      BY <3>2
  <2>2. x \in Firing /\ x.pc # "unfired" /\ x.process \in Processes
    <3>1. PICK y \in Firing : y = run[r]
      BY <1>0
    <3>2. PICK pc \in Steps : pc # "unfired" /\ x = [y EXCEPT !.pc = pc, !.process = p]
      BY <2>1, <3>1 DEF Steps
    <3>3. PICK z : z = [y EXCEPT !.pc = pc]
      OBVIOUS
    <3>4. z \in Firing /\ z.pc = pc
      BY <3>1, <3>2, <3>3 DEF Firing, Steps
    <3>5. x = [z EXCEPT !.process = p]
      BY <3>2, <3>3
    <3>6. QED
      BY <3>2, <3>4, <3>5 DEF Firing
  <2>3. /\ locker' \in Runs \cup {NoRun}
        /\ UNCHANGED <<schedulers, queue, handler, unsummed, alive>>
    BY <1>0, <1>3 DEF SF!Once
  <2>4. QED
    BY <1>0, <1>1, <2>1, <2>2, <2>3
<1>4. ASSUME NEW r \in Runs, SF!AddToGroup(r) PROVE FetchInv'
  <2>1. run[r] \in Firing /\ run[r].pc # "unfired" /\ run[r].process \in Processes
    BY <1>0, <1>4 DEF SF!AddToGroup
  <2>2. PICK n \in Counts : n = schedulers[run[r].process]
    BY <1>0, <2>1
  <2>3. PICK x : x = [run[r] EXCEPT !.pc = "spawn", !.group = n]
    OBVIOUS
  <2>4. run' = [run EXCEPT ![r] = x]
    BY <1>0, <1>4, <2>2, <2>3 DEF SF!AddToGroup
  <2>5. x \in Firing /\ x.pc # "unfired" /\ x.process \in Processes
    <3>1. PICK y \in Firing : y = run[r] /\ y.process \in Processes
      BY <2>1
    <3>2. PICK pc \in Steps : pc = "spawn"
      BY DEF Steps
    <3>3. n \in Nat /\ x = [y EXCEPT !.pc = pc, !.group = n]
      BY <2>3, <3>1, <3>2, FetchAssumption
    <3>4. PICK z : z = [y EXCEPT !.pc = pc]
      OBVIOUS
    <3>5. z \in Firing /\ z.pc = "spawn" /\ z.process = y.process
      BY <3>1, <3>2, <3>4 DEF Firing
    <3>6. x = [z EXCEPT !.group = n]
      BY <3>3, <3>4
    <3>7. n \in Int /\ y.process \in Processes
      BY <3>1, <3>3
    <3>8. QED
      BY <3>5, <3>6, <3>7 DEF Firing
  <2>6. UNCHANGED <<locker, schedulers, queue, handler, unsummed, alive>>
    BY <1>4 DEF SF!AddToGroup
  <2>7. QED
    BY <1>0, <1>1, <2>4, <2>5, <2>6
<1>5. ASSUME NEW r \in Runs, SF!RunFetchers(r) PROVE FetchInv'
  <2>1. run[r] \in Firing /\ run[r].pc # "unfired" /\ run[r].process \in Processes
    BY <1>0, <1>5 DEF SF!RunFetchers
  <2>2. PICK n \in Counts : n = schedulers[run[r].process]
    BY <1>0, <2>1
  <2>3. PICK x : x = [run[r] EXCEPT !.pc = "wait", !.fetching = n]
    OBVIOUS
  <2>4. run' = [run EXCEPT ![r] = x]
    BY <1>0, <1>5, <2>2, <2>3 DEF SF!RunFetchers
  <2>5. x \in Firing /\ x.pc # "unfired" /\ x.process \in Processes
    BY <2>1, <2>3, FetchAssumption DEF Firing
  <2>6. UNCHANGED <<locker, schedulers, queue, handler, unsummed, alive>>
    BY <1>5 DEF SF!RunFetchers
  <2>7. QED
    BY <1>0, <1>1, <2>4, <2>5, <2>6
<1>6. ASSUME NEW r \in Runs, SF!Push(r) PROVE FetchInv'
  <2>1. run[r] \in Firing /\ run[r].pc # "unfired" /\ run[r].process \in Processes
    BY <1>0, <1>6 DEF SF!Push
  <2>2. PICK x : x = [run[r] EXCEPT !.pages = @ + 1]
    OBVIOUS
  <2>3. run' = [run EXCEPT ![r] = x]
    BY <1>0, <1>6, <2>2 DEF SF!Push
  <2>4. x \in Firing /\ x.pc # "unfired" /\ x.process \in Processes
    BY <2>1, <2>2 DEF Firing
  <2>5. PICK p \in Processes : p = run[r].process
    BY <2>1
  <2>6. queue[p] < QueueSize /\ queue' = [queue EXCEPT ![p] = @ + 1]
    BY <1>6, <2>5 DEF SF!Push
  <2>7. queue' \in [Processes -> 0 .. QueueSize]
    BY <1>0, <2>6, FetchAssumption
  <2>8. UNCHANGED <<locker, schedulers, handler, unsummed, alive>>
    BY <1>6 DEF SF!Push
  <2>9. QED
    BY <1>0, <1>1, <2>3, <2>4, <2>7, <2>8
<1>7. ASSUME NEW r \in Runs, SF!Fetch(r) PROVE FetchInv'
  <2>1. run[r] \in Firing /\ run[r].pc # "unfired" /\ run[r].process \in Processes /\ run[r].fetching > 0
    BY <1>0, <1>7 DEF SF!Fetch
  <2>2. PICK x : x = [run[r] EXCEPT !.fetching = @ - 1, !.group = @ - 1]
    OBVIOUS
  <2>3. run' = [run EXCEPT ![r] = x]
    BY <1>0, <1>7, <2>2 DEF SF!Fetch
  <2>4. x \in Firing /\ x.pc # "unfired" /\ x.process \in Processes
    BY <2>1, <2>2, FiringFetched
  <2>5. alive' \in [Processes -> BOOLEAN]
    BY <1>0, <1>7 DEF SF!Fetch
  <2>6. UNCHANGED <<locker, schedulers, queue, handler, unsummed>>
    BY <1>7 DEF SF!Fetch
  <2>7. QED
    BY <1>0, <1>1, <2>3, <2>4, <2>5, <2>6
<1>8. ASSUME NEW r \in Runs, SF!Release(r) PROVE FetchInv'
  <2>1. run[r] \in Firing /\ run[r].pc # "unfired" /\ run[r].process \in Processes
    BY <1>0, <1>8 DEF SF!Release
  <2>2. PICK x : x = [run[r] EXCEPT !.pc = "done"]
    OBVIOUS
  <2>3. run' = [run EXCEPT ![r] = x]
    BY <1>0, <1>8, <2>2 DEF SF!Release
  <2>4. x \in Firing /\ x.pc # "unfired" /\ x.process \in Processes
    BY <2>1, <2>2 DEF Firing
  <2>5. locker' \in Runs \cup {NoRun} /\ UNCHANGED <<schedulers, queue, handler, unsummed, alive>>
    BY <1>0, <1>8 DEF SF!Release
  <2>6. QED
    BY <1>0, <1>1, <2>3, <2>4, <2>5
<1>9. ASSUME NEW p \in Processes, SF!UpdateSchedulers(p) \/ SF!Handler(p) PROVE FetchInv'
  <2>1. run' = run /\ locker' = locker /\ alive' = alive
    BY <1>9 DEF SF!UpdateSchedulers, SF!Handler, SF!HandleJob, SF!JobDone, SF!HasFinished, SF!Finalize
  <2>2. schedulers' \in [Processes -> Counts] /\ unsummed' \in [Processes -> BOOLEAN]
    BY <1>0, <1>9 DEF SF!UpdateSchedulers, SF!Handler, SF!HandleJob, SF!JobDone, SF!HasFinished, SF!Finalize
  <2>3. queue' \in [Processes -> 0 .. QueueSize]
    BY <1>0, <1>9, FetchAssumption
       DEF SF!UpdateSchedulers, SF!Handler, SF!HandleJob, SF!JobDone, SF!HasFinished, SF!Finalize
  <2>4. handler' \in [Processes -> {"select", "job", "finished", "finalize"}]
    BY <1>0, <1>9 DEF SF!UpdateSchedulers, SF!Handler, SF!HandleJob, SF!JobDone, SF!HasFinished, SF!Finalize
  <2>5. QED
    BY <1>0, <1>2, <2>1, <2>2, <2>3, <2>4
<1>10. CASE SF!LockExpires \/ UNCHANGED fetchVars
  <2>1. /\ UNCHANGED <<run, schedulers, queue, handler, unsummed, alive>>
        /\ locker' \in Runs \cup {NoRun}
    BY <1>0, <1>10 DEF SF!LockExpires, fetchVars
  <2>2. QED
    BY <1>0, <1>2, <2>1
<1>11. QED
  BY <1>3, <1>4, <1>5, <1>6, <1>7, <1>8, <1>9, <1>10 DEF SF!Next

-----------------------------------------------------------------------------
(* TenantNotify                                                             *)

\* A request that is under way is about a file.
NoticeInv ==
    /\ TN!TypeOK
    /\ report \in [Reports -> {TN!NoReport} \cup [pc : {"notify", "delete", "callback"}, of : Assets]]

LEMMA NoticeInit == TN!Init => NoticeInv
BY DEF TN!Init, NoticeInv, TN!TypeOK, TN!Kinds, TN!Notices

LEMMA NoticeNext == NoticeInv /\ [TN!Next]_noticeVars => NoticeInv'
<1> SUFFICES ASSUME NoticeInv, [TN!Next]_noticeVars PROVE NoticeInv'
  OBVIOUS
<1>0. /\ file \in [Assets -> {"none", "there", "deleted", "dropped"}]
      /\ transferLog \in [Assets -> {"none", "success", "failure"}]
      /\ notices \in Seq(TN!Notices) /\ heard \in [Assets -> SUBSET TN!Kinds]
      /\ unsent \subseteq Assets \X TN!Kinds
      /\ report \in [Reports -> {TN!NoReport} \cup [pc : {"notify", "delete", "callback"}, of : Assets]]
      /\ \A r \in Reports : report[r].pc # "none" => report[r].of \in Assets
  BY DEF NoticeInv, TN!TypeOK, TN!NoReport
<1>1. ASSUME NEW f \in Assets, NEW kind \in TN!Kinds, TN!Enqueue(f, kind)
      PROVE  notices' \in Seq(TN!Notices) /\ unsent' \subseteq Assets \X TN!Kinds
  <2>1. PICK n : n = [kind |-> kind, of |-> f, tried |-> 0, state |-> "pending"]
    OBVIOUS
  <2>2. n \in TN!Notices
    BY <2>1, NoticeAssumption DEF TN!Notices
  <2>3. \/ notices' = Append(notices, n) /\ unsent' = unsent
        \/ notices' = notices /\ unsent' = unsent \cup {<<f, kind>>}
    BY <1>1, <2>1 DEF TN!Enqueue
  <2>4. QED
    BY <1>0, <2>2, <2>3, SMTT(40)
<1>2. ASSUME NEW f \in Assets, TN!AddAsset(f) PROVE NoticeInv'
  BY <1>0, <1>2 DEF TN!AddAsset, NoticeInv, TN!TypeOK
<1>3. ASSUME NEW r \in Reports, NEW f \in Assets, TN!DeleteAssetHandler(r, f) PROVE NoticeInv'
  BY <1>0, <1>3 DEF TN!DeleteAssetHandler, NoticeInv, TN!TypeOK
<1>4. ASSUME NEW r \in Reports, TN!DelAssetAndUpdateSize(r) PROVE NoticeInv'
  <2>1. report[r] \in [pc : {"notify", "delete", "callback"}, of : Assets]
    BY <1>0, <1>4 DEF TN!DelAssetAndUpdateSize, TN!NoReport
  <2>2. \/ report' = [report EXCEPT ![r] = [report[r] EXCEPT !.pc = "callback"]]
        \/ report' = [report EXCEPT ![r] = TN!NoReport]
    BY <1>0, <1>4 DEF TN!DelAssetAndUpdateSize
  <2>3. file' = file \/ file' = [file EXCEPT ![report[r].of] = "deleted"]
    BY <1>4, Zenon DEF TN!DelAssetAndUpdateSize
  <2>4. report' \in [Reports -> {TN!NoReport} \cup [pc : {"notify", "delete", "callback"}, of : Assets]]
    <3>1. [report[r] EXCEPT !.pc = "callback"] \in [pc : {"notify", "delete", "callback"}, of : Assets]
      BY <2>1
    <3>2. QED
      BY <1>0, <2>2, <3>1
  <2>5. file' \in [Assets -> {"none", "there", "deleted", "dropped"}]
    BY <1>0, <2>1, <2>3
  <2>6. QED
    BY <1>0, <1>4, <2>4, <2>5 DEF TN!DelAssetAndUpdateSize, NoticeInv, TN!TypeOK
<1>5. ASSUME NEW f \in Assets, TN!DeleteAssetByGroup(f) PROVE NoticeInv'
  BY <1>0, <1>5 DEF TN!DeleteAssetByGroup, NoticeInv, TN!TypeOK
<1>6. ASSUME NEW r \in Reports, TN!EnqueueAssetDeleteNotify(r) PROVE NoticeInv'
  <2>1. PICK f \in Assets : f = report[r].of
    BY <1>0, <1>6 DEF TN!EnqueueAssetDeleteNotify
  <2>2. notices' \in Seq(TN!Notices) /\ unsent' \subseteq Assets \X TN!Kinds
    <3>1. PICK kind \in TN!Kinds : kind = "delete"
      BY DEF TN!Kinds
    <3>2. TN!Enqueue(f, kind)
      BY <1>6, <2>1, <3>1 DEF TN!EnqueueAssetDeleteNotify
    <3>3. QED
      BY <1>1, <3>2
  <2>3. QED
    BY <1>0, <1>6, <2>2 DEF TN!EnqueueAssetDeleteNotify, NoticeInv, TN!TypeOK
<1>7. ASSUME NEW f \in Assets, NEW r \in Reports, NEW state \in {"success", "failure"},
             TN!AssetTransferReport(r, f, state)
      PROVE  NoticeInv'
  BY <1>0, <1>7 DEF TN!AssetTransferReport, NoticeInv, TN!TypeOK
<1>8. ASSUME NEW r \in Reports, TN!EnqueueAssetUploadNotify(r) PROVE NoticeInv'
  <2>1. PICK f \in Assets : f = report[r].of
    BY <1>0, <1>8 DEF TN!EnqueueAssetUploadNotify, TN!NoReport
  <2>2. notices' \in Seq(TN!Notices) /\ unsent' \subseteq Assets \X TN!Kinds
    <3>1. PICK kind \in TN!Kinds : kind = "upload"
      BY DEF TN!Kinds
    <3>2. TN!Enqueue(f, kind) \/ UNCHANGED <<notices, unsent>>
      BY <1>8, <2>1, <3>1 DEF TN!EnqueueAssetUploadNotify
    <3>3. QED
      BY <1>0, <1>1, <3>2
  <2>3. QED
    BY <1>0, <1>8, <2>2 DEF TN!EnqueueAssetUploadNotify, NoticeInv, TN!TypeOK
<1>9. ASSUME NEW i \in DOMAIN notices, TN!AssetUploadNotify(i) \/ TN!AssetDeleteNotify(i) PROVE NoticeInv'
  <2>1. notices[i] \in TN!Notices /\ TN!Deliver(i)
    BY <1>0, <1>9 DEF TN!AssetUploadNotify, TN!AssetDeleteNotify
  <2>2. PICK n : /\ notices' = [notices EXCEPT ![i] = n]
                 /\ \/ n = [notices[i] EXCEPT !.state = "completed"]
                    \/ notices[i].tried < MaxRetry /\ n = [notices[i] EXCEPT !.tried = @ + 1]
                    \/ n = [notices[i] EXCEPT !.state = "archived"]
    <3>1. \/ notices' = [notices EXCEPT ![i] = [notices[i] EXCEPT !.state = "completed"]]
          \/ TN!Retry(i)
      BY <1>0, <2>1 DEF TN!Deliver
    <3>2. CASE TN!Retry(i)
      <4>1. CASE notices[i].tried < MaxRetry
        <5>1. notices' = [notices EXCEPT ![i] = [notices[i] EXCEPT !.tried = @ + 1]]
          BY <1>0, <3>2, <4>1 DEF TN!Retry
        <5>2. QED
          BY <4>1, <5>1
      <4>2. CASE ~(notices[i].tried < MaxRetry)
        BY <1>0, <3>2, <4>2 DEF TN!Retry
      <4>3. QED
        BY <4>1, <4>2
    <3>3. QED
      BY <3>1, <3>2
  <2>3. n \in TN!Notices
    BY <2>1, <2>2, NoticeAssumption DEF TN!Notices
  <2>4. notices' \in Seq(TN!Notices)
    BY <1>0, <2>2, <2>3
  <2>5. heard' \in [Assets -> SUBSET TN!Kinds]
    <3>1. notices[i].of \in Assets /\ notices[i].kind \in TN!Kinds
      BY <2>1 DEF TN!Notices
    <3>2. \/ heard' = heard
          \/ heard' = [heard EXCEPT ![notices[i].of] = heard[notices[i].of] \cup {notices[i].kind}]
      BY <1>0, <2>1, <3>1 DEF TN!Deliver
    <3>3. heard[notices[i].of] \cup {notices[i].kind} \in SUBSET TN!Kinds
      BY <1>0, <3>1
    <3>4. QED
      BY <1>0, <3>1, <3>2, <3>3
  <2>6. QED
    BY <1>0, <2>1, <2>4, <2>5 DEF TN!Deliver, NoticeInv, TN!TypeOK
<1>10. CASE UNCHANGED noticeVars
  BY <1>0, <1>10 DEF noticeVars, NoticeInv, TN!TypeOK
<1>11. QED
  BY <1>2, <1>3, <1>4, <1>5, <1>6, <1>7, <1>8, <1>9, <1>10 DEF TN!Next, TN!Work

-----------------------------------------------------------------------------
(* KubeToken                                                                *)

LEMMA TokenInit == KT!Init => KT!TypeOK
<1> SUFFICES ASSUME KT!Init PROVE KT!TypeOK
  OBVIOUS
<1>1. kuberToken \in 0 .. Lifetime
  BY TokenAssumption DEF KT!Init
<1>2. QED
  BY <1>1, Zenon DEF KT!Init, KT!TypeOK

LEMMA TokenNext == KT!TypeOK /\ [KT!Next]_tokenVars => KT!TypeOK'
<1> SUFFICES ASSUME KT!TypeOK, [KT!Next]_tokenVars PROVE KT!TypeOK'
  OBVIOUS
<1>0. /\ kuberToken \in 0 .. Lifetime /\ kuberTokenLock \in BOOLEAN
      /\ token \in [Managers -> BOOLEAN] /\ started \in [Managers -> BOOLEAN]
      /\ manager \in [Managers -> {"down", "get", "lock", "fetch", "idle"}]
  BY DEF KT!TypeOK
<1>1. ASSUME NEW p \in Managers, NEW t \in BOOLEAN, KT!Return(p, t)
      PROVE  /\ token' \in [Managers -> BOOLEAN] /\ started' \in [Managers -> BOOLEAN]
             /\ manager' \in [Managers -> {"down", "get", "lock", "fetch", "idle"}]
  BY <1>0, <1>1 DEF KT!Return
<1>2. ASSUME NEW p \in Managers, KT!StartManager(p) \/ KT!Stop(p) PROVE KT!TypeOK'
  BY <1>0, <1>2 DEF KT!StartManager, KT!Stop, KT!TypeOK
<1>3. ASSUME NEW p \in Managers, KT!GetToken(p) PROVE KT!TypeOK'
  <2>1. CASE KT!Return(p, TRUE)
    BY <1>0, <1>1, <1>3, <2>1 DEF KT!GetToken, KT!TypeOK
  <2>2. CASE ~KT!Return(p, TRUE)
    BY <1>0, <1>3, <2>2 DEF KT!GetToken, KT!TypeOK
  <2>3. QED
    BY <2>1, <2>2
<1>4. ASSUME NEW p \in Managers, KT!SetLock(p) PROVE KT!TypeOK'
  <2>1. CASE KT!Return(p, FALSE)
    BY <1>0, <1>1, <1>4, <2>1 DEF KT!SetLock, KT!TypeOK
  <2>2. CASE ~KT!Return(p, FALSE)
    BY <1>0, <1>4, <2>2 DEF KT!SetLock, KT!TypeOK
  <2>3. QED
    BY <2>1, <2>2
<1>5. ASSUME NEW p \in Managers, KT!Fetch(p) PROVE KT!TypeOK'
  <2>1. kuberToken' \in 0 .. Lifetime
    <3>1. kuberToken' = Lifetime \/ kuberToken' = 0 \/ kuberToken' = kuberToken
      BY <1>5, Zenon DEF KT!Fetch
    <3>2. QED
      BY <1>0, <3>1, TokenAssumption
  <2>2. /\ token' \in [Managers -> BOOLEAN] /\ started' \in [Managers -> BOOLEAN]
        /\ manager' \in [Managers -> {"down", "get", "lock", "fetch", "idle"}]
        /\ kuberTokenLock' \in BOOLEAN
    <3>0. kuberTokenLock' \in BOOLEAN
      BY <1>0, <1>5 DEF KT!Fetch
    <3>1. CASE KT!Return(p, TRUE) \/ KT!Return(p, FALSE)
      <4>1. TRUE \in BOOLEAN /\ FALSE \in BOOLEAN
        OBVIOUS
      <4>2. PICK t \in BOOLEAN : KT!Return(p, t)
        BY <3>1, <4>1, Zenon
      <4>3. QED
        BY <1>1, <3>0, <4>2
    <3>2. CASE ~(KT!Return(p, TRUE) \/ KT!Return(p, FALSE))
      BY <1>0, <1>5, <3>2 DEF KT!Fetch
    <3>3. QED
      BY <3>0, <3>1, <3>2
  <2>3. QED
    BY <2>1, <2>2 DEF KT!TypeOK
<1>6. CASE KT!LockExpires \/ UNCHANGED tokenVars
  BY <1>0, <1>6 DEF KT!LockExpires, tokenVars, KT!TypeOK
<1>7. CASE KT!NextRound
  <2>1. kuberToken' \in 0 .. Lifetime
    BY <1>0, <1>7, TokenAssumption DEF KT!NextRound
  <2>2. QED
    BY <1>0, <1>7, <2>1 DEF KT!NextRound, KT!TypeOK
<1>8. QED
  BY <1>2, <1>3, <1>4, <1>5, <1>6, <1>7 DEF KT!Next, KT!Tick

-----------------------------------------------------------------------------
(* The composition                                                          *)

JobsInv == SyncInv /\ FetchInv /\ NoticeInv /\ KT!TypeOK

LEMMA JobsInit == Init => JobsInv
BY SyncInit, FetchInit, NoticeInit, TokenInit DEF Init, JobsInv

LEMMA JobsNext == JobsInv /\ [Next]_jobVars => JobsInv'
<1> SUFFICES ASSUME JobsInv, [Next]_jobVars PROVE JobsInv'
  OBVIOUS
<1>1. [AY!Next]_syncVars /\ [SF!Next]_fetchVars /\ [TN!Next]_noticeVars /\ [KT!Next]_tokenVars
  BY DEF Next, jobVars
<1>2. QED
  BY <1>1, SyncNext, FetchNext, NoticeNext, TokenNext DEF JobsInv

LEMMA JobsNow == JobsInv => TypeOK /\ FlagsAreEarned /\ SyncNeverForgotten
BY SyncNow DEF JobsInv, FetchInv, NoticeInv, TypeOK, FlagsAreEarned, SyncNeverForgotten

\* The invariant that a step of any job keeps: for the synchronisation, the entries of
\* the list outnumber the goroutines that work on them, so that LREM of one goroutine
\* never takes the entry of an upload that has come since.
THEOREM JobsInvariant == Spec => []JobsInv
BY JobsInit, JobsNext, PTL DEF Spec

\* The types of all four jobs.
THEOREM TypeCorrect == Spec => []TypeOK
BY JobsInvariant, JobsNow, PTL

\* dao.UpdateUnSyncAreaIDs and dao.UpdateSyncAssetAreas mark a row only for a copy
\* that a scheduler has or has had, however the goroutines of syncUserScheduler, the
\* reports and removals interleave.
THEOREM SyncedIsHeld == Spec => []FlagsAreEarned
BY JobsInvariant, JobsNow, PTL

\* What oprds.PushSchedulerInfo has put into the list, LRANGE and LREM do not lose:
\* an area that waits for its copy is always remembered somewhere.
THEOREM SyncIsRemembered == Spec => []SyncNeverForgotten
BY JobsInvariant, JobsNow, PTL

=============================================================================
