--------------------------- MODULE CacheStoreProofs ---------------------------
(***************************************************************************)
(* Proofs about CacheStore, for any processes, names, images and layers:   *)
(* what a name points to is in the cache, a pull repairs its layers, and   *)
(* a package's index keeps its platforms.                                  *)
(***************************************************************************)
EXTENDS CacheStore, TLAPS
(* Most leaves are first-order: Zenon is tried first, SMT where it fails.   *)
USE ZenonT(30), SMTT(20)

(* What blobs are: indexes, images and layers are told apart.              *)
LEMMA BlobFacts ==
  /\ \A by, s : Index(by, s).kind = "index" /\ Index(by, s).by = by /\ Index(by, s).of = s
  /\ \A i : Image(i).kind = "image" /\ Image(i) # None
  /\ \A l : Layer(l).kind = "layer" /\ Layer(l) # None
  /\ None.kind = "none" /\ None.of = {}
BY DEF Index, Image, Layer, None

LEMMA PartFacts ==
  ASSUME NEW i PROVE \A b \in Parts(i) : b.kind \in {"image", "layer"}
BY BlobFacts DEF Parts

LEMMA ContentOf ==
  ASSUME NEW by, NEW s
  PROVE  Content(Index(by, s)) = {Index(by, s)} \cup UNION {Parts(i) : i \in s}
BY BlobFacts DEF Content

LEMMA ContentNone == Content(None) = {}
BY BlobFacts DEF Content

LEMMA ContentBlobs ==
  ASSUME NEW by \in Makers, NEW s \in SUBSET Images
  PROVE  Content(Index(by, s)) \subseteq Blobs
<1>1. \A i \in Images : Parts(i) \subseteq Blobs
  BY NamesAssumption DEF Parts, Blobs
<1>2. Index(by, s) \in Blobs
  BY SMT DEF Blobs, Indexes
<1> QED
  BY SMT, <1>1, <1>2, ContentOf

LEMMA IndexKinds ==
  /\ \A b \in Indexes \cup {None} : b.kind \in {"index", "none"} /\ b.of \in SUBSET Images
  /\ \A by \in Makers, s \in SUBSET Images : Index(by, s) \in Indexes
  /\ None \notin Blobs
BY SMT, BlobFacts DEF Indexes, Blobs

LEMMA MergedType ==
  ASSUME NEW s \in SUBSET Images, NEW i \in Images
  PROVE  Merge(s, i) \in SUBSET Images
BY DEF Merge

(* Init establishes the invariant.                                         *)
LEMMA InitIInv == Init => IInv
<1> SUFFICES ASSUME Init PROVE IInv
  OBVIOUS
<1> USE DEF Init
<1>1. TypeOK
  BY NamesAssumption DEF TypeOK, Ops
<1>2. Locked /\ Used /\ Healing
  BY DEF Locked, Used, Healing
<1>3. Named
  BY NamesAssumption DEF Named, Own
<1>4. Present
  BY BlobFacts, NamesAssumption DEF Present, Have, Doing
<1> QED
  BY <1>1, <1>2, <1>3, <1>4 DEF IInv

(* The type.  Each case is a step of one process p.                        *)
LEMMA DoneType ==
  ASSUME TypeOK, NEW p \in Procs, Done(p)
  PROVE  /\ op' \in [Procs -> Ops] /\ name' \in [Procs -> Names]
         /\ img' \in [Procs -> Images \cup {NoImage}]
         /\ todo' \in [Procs -> SUBSET Blobs] /\ seen' \in [Procs -> Indexes \cup {None}]
         /\ op'[p] = "idle" /\ todo'[p] = {} /\ seen'[p] = None
         /\ \A q \in Procs \ {p} : /\ op'[q] = op[q] /\ name'[q] = name[q] /\ img'[q] = img[q]
                                   /\ todo'[q] = todo[q] /\ seen'[q] = seen[q]
         /\ \A q \in Procs : op'[q] \in {"load", "iwRead", "iwLock", "index"} => img'[q] \in Images
BY NamesAssumption DEF TypeOK, Done, Begin, Goto, Ops

LEMMA TypeNext == ASSUME TypeOK, Next PROVE TypeOK'
<1> USE NamesAssumption
<1>1. PICK p \in Procs : (Step(p) /\ UNCHANGED deaths) \/ Die(p)
  BY DEF Next
<1>2. use' = use
  BY DEF Next
<1> USE <1>2
<1>3. ASSUME NEW b \in todo[p], WriteBlob(p, b), UNCHANGED deaths PROVE TypeOK'
  <2>1. b \in Blobs
    BY <1>3 DEF TypeOK
  <2> QED
    BY SMT, <1>3, <2>1 DEF TypeOK, WriteBlob
<1>4. ASSUME NEW b \in todo[p], RemoveOne(p, b), UNCHANGED deaths PROVE TypeOK'
  BY <1>4 DEF TypeOK, RemoveOne, RemoveBlob
<1>5. CASE FinishBlob(p) /\ UNCHANGED deaths
  BY <1>5 DEF TypeOK, FinishBlob
<1>6. ASSUME NEW n \in Names, ImagePull(p, n), UNCHANGED deaths PROVE TypeOK'
  <2>1. Content(Index("registry", Remote[n])) \subseteq Blobs
    BY ContentBlobs DEF Makers
  <2> QED
    BY <1>6, <2>1 DEF TypeOK, ImagePull, Begin, Goto, Lock, Ops
<1>7. CASE PullDescriptor(p) /\ UNCHANGED deaths
  <2>1. Index("registry", Remote[name[p]]) \in Indexes
    BY IndexKinds DEF Makers, TypeOK
  <2>2. root' \in [Names -> Indexes \cup {None}]
    BY <1>7, <2>1 DEF PullDescriptor, Point, TypeOK
  <2> QED
    BY <1>7, <2>2, DoneType DEF TypeOK, PullDescriptor, Unlock
<1>8. ASSUME NEW i \in Images, ImageLoad(p, i), UNCHANGED deaths PROVE TypeOK'
  <2>1. Content(Index("build", {i})) \subseteq Blobs
    BY ContentBlobs DEF Makers
  <2> QED
    BY Zenon, <1>8, <2>1 DEF TypeOK, ImageLoad, Begin, Goto, Ops
<1>9. CASE LoadDescriptor(p) /\ UNCHANGED deaths
  <2>1. img[p] \in Images
    BY <1>9 DEF LoadDescriptor, TypeOK
  <2>2. Index("build", {img[p]}) \in Indexes
    BY <2>1, IndexKinds DEF Makers
  <2> QED
    BY <1>9, <2>1, <2>2 DEF TypeOK, LoadDescriptor, Point, Goto, Ops
<1>10. CASE IwRead(p) /\ UNCHANGED deaths
  <2>1. CASE Done(p)
    BY <1>10, <2>1, DoneType DEF TypeOK, IwRead
  <2>2. CASE ~Done(p)
    BY <1>10, <2>2 DEF TypeOK, IwRead, Goto, Ops
  <2> QED
    BY <2>1, <2>2
<1>11. CASE IwRemove(p) /\ UNCHANGED deaths
  <2>1. img[p] \in Images /\ seen[p].of \in SUBSET Images
    BY <1>11, IndexKinds DEF IwRemove, TypeOK
  <2>2. Merged(p) \in Blobs
    BY <2>1, MergedType, IndexKinds DEF Merged, Makers, Blobs
  <2> QED
    BY <1>11, <2>1, <2>2 DEF TypeOK, IwRemove, RemoveBlob, Goto, Lock, Ops
<1>12. CASE IwDescriptor(p) /\ UNCHANGED deaths
  <2>1. img[p] \in Images /\ seen[p].of \in SUBSET Images
    BY <1>12, IndexKinds DEF IwDescriptor, TypeOK
  <2>2. Merged(p) \in Indexes
    BY <2>1, MergedType, IndexKinds DEF Merged, Makers
  <2>3. root' \in [Names -> Indexes \cup {None}]
    BY <1>12, <2>2 DEF IwDescriptor, Point, TypeOK
  <2> QED
    BY <1>12, <2>3, DoneType DEF TypeOK, IwDescriptor, Unlock
<1>13. CASE FindDescriptor(p) /\ UNCHANGED deaths
  BY <1>13 DEF TypeOK, FindDescriptor, Goto, Ops
<1>14. CASE ReleaseDescriptor(p) /\ UNCHANGED deaths
  <2>1. root' \in [Names -> Indexes \cup {None}]
    BY <1>14 DEF ReleaseDescriptor, Point, TypeOK
  <2> QED
    BY <1>14, <2>1, DoneType DEF TypeOK, ReleaseDescriptor
<1>15. ASSUME NEW n \in Names, Remove(p, n), UNCHANGED deaths PROVE TypeOK'
  BY <1>15 DEF TypeOK, Remove, Begin, Goto, Ops
<1>16. CASE FindRoot(p) /\ UNCHANGED deaths
  <2>1. CASE Done(p)
    BY <1>16, <2>1, DoneType DEF TypeOK, FindRoot
  <2>2. CASE ~Done(p)
    <3>1. root[name[p]] \in Indexes \cup {None} /\ root[name[p]] \in files
      BY <1>16, <2>2 DEF FindRoot, Readable, TypeOK
    <3>2. root[name[p]] \in Blobs /\ root[name[p]].of \in SUBSET Images
      BY <3>1, IndexKinds DEF TypeOK
    <3>3. todo'[p] \subseteq Blobs /\ todo' = [todo EXCEPT ![p] = todo'[p]]
      BY SMT, <1>16, <2>2, <3>2 DEF FindRoot, TypeOK, Blobs
    <3> QED
      BY <1>16, <2>2, <3>3 DEF TypeOK, FindRoot, Goto, Ops
  <2> QED
    BY <2>1, <2>2
<1>17. CASE RemoveDescriptors(p) /\ UNCHANGED deaths
  <2>1. root' \in [Names -> Indexes \cup {None}]
    BY <1>17 DEF RemoveDescriptors, Point, TypeOK
  <2> QED
    BY <1>17, <2>1, DoneType DEF TypeOK, RemoveDescriptors
<1>18. CASE Die(p)
  BY SMTT(30), <1>18, DoneType DEF TypeOK, Die, Unlock
<1> QED
  BY <1>1, <1>3, <1>4, <1>5, <1>6, <1>7, <1>8, <1>9, <1>10, <1>11, <1>12, <1>13, <1>14, <1>15, <1>16, <1>17, <1>18
     DEF Step

(* A step of p leaves the others where they are.                           *)
LEMMA Local ==
  ASSUME TypeOK, NEW p \in Procs, Step(p) \/ Die(p), NEW q \in Procs \ {p}
  PROVE  op'[q] = op[q] /\ name'[q] = name[q] /\ img'[q] = img[q] /\ todo'[q] = todo[q] /\ seen'[q] = seen[q]
<1> USE DEF TypeOK
<1>1. CASE Done(p)
  BY <1>1, DoneType
<1>2. ASSUME NEW b \in todo[p], WriteBlob(p, b) \/ RemoveOne(p, b) PROVE todo'[q] = todo[q] /\ UNCHANGED <<op, name, img, seen>>
  BY <1>2 DEF WriteBlob, RemoveOne
<1>3. CASE FinishBlob(p)
  BY <1>3 DEF FinishBlob
<1>4. ASSUME NEW n \in Names, ImagePull(p, n) \/ Remove(p, n)
      PROVE  op'[q] = op[q] /\ name'[q] = name[q] /\ img'[q] = img[q] /\ todo'[q] = todo[q] /\ UNCHANGED seen
  BY <1>4 DEF ImagePull, Remove, Begin, Goto
<1>5. ASSUME NEW i \in Images, ImageLoad(p, i)
      PROVE  op'[q] = op[q] /\ name'[q] = name[q] /\ img'[q] = img[q] /\ todo'[q] = todo[q] /\ UNCHANGED seen
  BY <1>5 DEF ImageLoad, Begin, Goto
<1>6. CASE LoadDescriptor(p) \/ FindDescriptor(p)
  BY <1>6 DEF LoadDescriptor, FindDescriptor, Goto
<1>7. CASE IwRead(p) /\ ~Done(p)
  BY <1>7 DEF IwRead, Goto
<1>8. CASE IwRemove(p)
  BY <1>8 DEF IwRemove, Goto
<1>9. CASE FindRoot(p) /\ ~Done(p)
  BY <1>9 DEF FindRoot, Goto
<1>10. PullDescriptor(p) \/ IwDescriptor(p) \/ ReleaseDescriptor(p) \/ RemoveDescriptors(p) \/ Die(p) => Done(p)
  BY DEF PullDescriptor, IwDescriptor, ReleaseDescriptor, RemoveDescriptors, Die
<1> QED
  BY <1>1, <1>2, <1>3, <1>4, <1>5, <1>6, <1>7, <1>8, <1>9, <1>10 DEF Step

(* Where p can be after its step, and what it then has.                    *)
LEMMA Arrival ==
  ASSUME TypeOK, NEW p \in Procs, Step(p) \/ Die(p)
  PROVE  /\ op'[p] = "pull" => \/ op[p] = "pull" /\ name'[p] = name[p] /\ UNCHANGED owner
                               \/ Remote[name'[p]] # {} /\ Lock(p)
         /\ op'[p] = "index" => (op[p] = "index" /\ UNCHANGED owner) \/ Lock(p)
         /\ op'[p] = "release" => op[p] = "release" \/ "release" \in use[p]
         /\ op'[p] \in {"rmFind", "remove"} => op[p] \in {"rmFind", "remove"} \/ "remove" \in use[p]
<1> USE DEF TypeOK
<1>1. CASE Done(p)
  BY <1>1, DoneType
<1>2. ASSUME NEW b \in todo[p], WriteBlob(p, b) \/ RemoveOne(p, b) PROVE UNCHANGED <<op, name, owner>>
  BY <1>2 DEF WriteBlob, RemoveOne
<1>3. CASE FinishBlob(p)
  BY <1>3 DEF FinishBlob
<1>4. ASSUME NEW n \in Names, ImagePull(p, n) PROVE op'[p] = "pull" /\ name'[p] = n /\ Remote[n] # {} /\ Lock(p)
  BY <1>4 DEF ImagePull, Begin, Goto
<1>5. ASSUME NEW n \in Names, Remove(p, n) PROVE op'[p] = "rmFind" /\ "remove" \in use[p]
  BY <1>5 DEF Remove, Begin, Goto
<1>6. ASSUME NEW i \in Images, ImageLoad(p, i) PROVE op'[p] = "load"
  BY <1>6 DEF ImageLoad, Begin, Goto
<1>7. CASE LoadDescriptor(p) \/ FindDescriptor(p)
  BY <1>7 DEF LoadDescriptor, FindDescriptor, Goto
<1>8. CASE IwRead(p) /\ ~Done(p)
  BY <1>8 DEF IwRead, Goto
<1>9. CASE IwRemove(p)
  BY <1>9 DEF IwRemove, Goto
<1>10. CASE FindRoot(p) /\ ~Done(p)
  BY <1>10 DEF FindRoot, Goto
<1>11. PullDescriptor(p) \/ IwDescriptor(p) \/ ReleaseDescriptor(p) \/ RemoveDescriptors(p) \/ Die(p) => Done(p)
  BY DEF PullDescriptor, IwDescriptor, ReleaseDescriptor, RemoveDescriptors, Die
<1> QED
  BY Zenon, <1>1, <1>2, <1>3, <1>4, <1>5, <1>6, <1>7, <1>8, <1>9, <1>10, <1>11 DEF Step

(* Only p takes or gives back the lock in its step.                        *)
LEMMA OwnerStep ==
  ASSUME NEW p \in Procs, Step(p) \/ Die(p)
  PROVE  owner' = owner \/ Lock(p) \/ Unlock(p)
BY Zenon DEF Step, Die, WriteBlob, RemoveOne, FinishBlob, ImagePull, PullDescriptor, ImageLoad, LoadDescriptor, IwRead, IwRemove,
       IwDescriptor, FindDescriptor, ReleaseDescriptor, Remove, FindRoot, RemoveDescriptors

LEMMA LockedNext ==
  ASSUME TypeOK, Locked, Used, Next
  PROVE  Locked' /\ Used'
<1>1. PICK p \in Procs : Step(p) \/ Die(p)
  BY DEF Next
<1>2. use' = use
  BY DEF Next
<1>3. ASSUME NEW q \in Procs, op'[q] \in {"pull", "index"} PROVE owner' = q
  <2>1. CASE q = p
    BY <1>1, <1>3, <2>1, Arrival DEF Locked, Lock
  <2>2. CASE q # p
    <3>1. owner = q
      BY <1>1, <1>3, <2>2, Local DEF Locked
    <3> QED
      BY <1>1, <2>2, <3>1, OwnerStep, NamesAssumption DEF Lock, Unlock
  <2> QED
    BY <2>1, <2>2
<1>4. ASSUME NEW q \in Procs
      PROVE  /\ op'[q] = "pull" => Remote[name'[q]] # {}
             /\ op'[q] = "release" => "release" \in use[q]
             /\ op'[q] \in {"rmFind", "remove"} => "remove" \in use[q]
  <2>1. CASE q = p
    BY <1>1, <2>1, Arrival DEF Used
  <2>2. CASE q # p
    BY SMT, <1>1, <2>2, Local DEF Used
  <2> QED
    BY <2>1, <2>2
<1> QED
  BY <1>2, <1>3, <1>4 DEF Locked, Used

(* A layer that is complete stays so, unless p removes images.             *)
LEMMA LayersKept ==
  ASSUME TypeOK, NEW p \in Procs, Step(p) \/ Die(p), op[p] # "remove", NEW l, Layer(l) \in files \ partial
  PROVE  Layer(l) \in files' \ partial'
<1>1. ASSUME NEW b \in todo[p], WriteBlob(p, b) PROVE Layer(l) \in files' \ partial'
  BY <1>1 DEF WriteBlob
<1>2. ASSUME NEW b \in todo[p], RemoveOne(p, b) PROVE FALSE
  BY <1>2 DEF RemoveOne
<1>3. CASE IwRemove(p)
  <2>1. seen[p] # Layer(l)
    BY BlobFacts, IndexKinds DEF TypeOK
  <2> QED
    BY <1>3, <2>1 DEF IwRemove, RemoveBlob
<1>4. CASE FinishBlob(p)
  BY <1>4 DEF FinishBlob
<1>5. CASE UNCHANGED <<files, partial>>
  BY <1>5
<1>6. ASSUME NEW n \in Names, ImagePull(p, n) \/ Remove(p, n) PROVE UNCHANGED <<files, partial>>
  BY <1>6 DEF ImagePull, Remove
<1>7. ASSUME NEW i \in Images, ImageLoad(p, i) PROVE UNCHANGED <<files, partial>>
  BY <1>7 DEF ImageLoad
<1> QED
  BY Zenon, <1>1, <1>2, <1>3, <1>4, <1>5, <1>6, <1>7
     DEF Step, Die, PullDescriptor, LoadDescriptor, IwRead, IwDescriptor, FindDescriptor, ReleaseDescriptor, FindRoot, RemoveDescriptors

LEMMA LayerInContent ==
  ASSUME NEW by, NEW s, NEW i \in s, NEW l \in LayersOf[i]
  PROVE  Layer(l) \in Content(Index(by, s))
BY SMT, ContentOf DEF Parts

LEMMA HealingNext ==
  ASSUME TypeOK, Used, Healing, Next
  PROVE  Healing'
<1>1. PICK p \in Procs : Step(p) \/ Die(p)
  BY DEF Next
<1>2. use' = use
  BY DEF Next
<1>3. SUFFICES ASSUME NEW q \in Procs, op'[q] = "pull", Removers \subseteq {q},
                      NEW i \in Remote[name'[q]], NEW l \in LayersOf[i]
               PROVE  Layer(l) \in todo'[q] \cup (files' \ partial')
  BY <1>2 DEF Healing, Removers
<1>4. CASE q # p
  <2>1. op[q] = "pull" /\ name'[q] = name[q] /\ todo'[q] = todo[q]
    BY <1>1, <1>3, <1>4, Local
  <2>2. op[p] # "remove"
    BY <1>3, <1>4 DEF Used, Removers
  <2>3. Layer(l) \in todo[q] \cup (files \ partial)
    BY <1>3, <2>1 DEF Healing
  <2> QED
    BY <1>1, <2>1, <2>2, <2>3, LayersKept
<1>5. CASE q = p /\ op[p] = "pull"
  <2>1. name'[p] = name[p] /\ Layer(l) \in todo[p] \cup (files \ partial)
    <3>1. name'[p] = name[p]
      <4>1. ASSUME NEW b \in todo[p], WriteBlob(p, b) PROVE UNCHANGED name
        BY Zenon, <4>1 DEF WriteBlob
      <4>2. FinishBlob(p) => UNCHANGED name
        BY DEF FinishBlob
      <4>3. op'[p] = "pull" => ~Done(p)
        BY DoneType
      <4> QED
        BY Zenon, <1>1, <1>3, <1>5, <4>1, <4>2, <4>3
           DEF Step, Die, RemoveOne, ImagePull, PullDescriptor, ImageLoad, LoadDescriptor, IwRead, IwRemove, IwDescriptor,
               FindDescriptor, ReleaseDescriptor, Remove, FindRoot, RemoveDescriptors
    <3> QED
      BY <1>3, <1>5, <3>1 DEF Healing
  <2>2. CASE Layer(l) \in files \ partial
    BY <1>1, <1>5, <2>2, LayersKept
  <2>3. CASE Layer(l) \in todo[p]
    <3>1. ASSUME NEW b \in todo[p], WriteBlob(p, b) PROVE Layer(l) \in todo'[p] \cup (files' \ partial')
      <4>1. CASE b = Layer(l)
        BY <1>5, <3>1, <4>1, BlobFacts DEF WriteBlob, Renamed
      <4>2. CASE b # Layer(l)
        BY <2>3, <3>1, <4>2 DEF WriteBlob, TypeOK
      <4> QED
        BY <4>1, <4>2
    <3>2. FinishBlob(p) => UNCHANGED todo
      BY DEF FinishBlob
    <3>3. op'[p] = "pull" => ~Done(p)
      BY DoneType
    <3> QED
      BY Zenon, <1>1, <1>3, <1>5, <2>3, <3>1, <3>2, <3>3
         DEF Step, Die, RemoveOne, ImagePull, PullDescriptor, ImageLoad, LoadDescriptor, IwRead, IwRemove, IwDescriptor,
             FindDescriptor, ReleaseDescriptor, Remove, FindRoot, RemoveDescriptors
  <2> QED
    BY <1>5, <2>1, <2>2, <2>3
<1>6. CASE q = p /\ op[p] # "pull"
  <2>1. PICK n \in Names : ImagePull(p, n)
    <3>1. \A n \in Names : Remove(p, n) => op'[p] = "rmFind"
      BY DEF Remove, Begin, Goto, TypeOK
    <3>2. \A j \in Images : ImageLoad(p, j) => op'[p] = "load"
      BY DEF ImageLoad, Begin, Goto, TypeOK
    <3>3. \A b \in todo[p] : WriteBlob(p, b) \/ RemoveOne(p, b) => UNCHANGED op
      BY DEF WriteBlob, RemoveOne
    <3>4. FinishBlob(p) => UNCHANGED op
      BY SMTT(30) DEF FinishBlob
    <3>5. LoadDescriptor(p) \/ FindDescriptor(p) \/ IwRemove(p) => op'[p] # "pull"
      BY DEF LoadDescriptor, FindDescriptor, IwRemove, Goto, TypeOK
    <3>6. IwRead(p) \/ FindRoot(p) => Done(p) \/ op'[p] # "pull"
      BY DEF IwRead, FindRoot, Goto, TypeOK
    <3>7. Done(p) => op'[p] = "idle"
      BY DoneType
    <3>8. PullDescriptor(p) \/ IwDescriptor(p) \/ ReleaseDescriptor(p) \/ RemoveDescriptors(p) \/ Die(p) => Done(p)
      BY DEF PullDescriptor, IwDescriptor, ReleaseDescriptor, RemoveDescriptors, Die
    <3> QED
      BY <1>1, <1>3, <1>6, <3>1, <3>2, <3>3, <3>4, <3>5, <3>6, <3>7, <3>8 DEF Step
  <2>2. name'[p] = n /\ todo'[p] = Content(Index("registry", Remote[n]))
    BY <2>1 DEF ImagePull, Begin, TypeOK
  <2> QED
    BY SMTT(30), <1>3, <1>6, <2>2, LayerInContent
<1> QED
  BY <1>4, <1>5, <1>6

(* The steps of processes that only pull and build.                        *)
Building(p) ==
  \/ \E b \in todo[p] : WriteBlob(p, b)
  \/ FinishBlob(p)
  \/ (\E n \in Names : ImagePull(p, n)) \/ PullDescriptor(p)
  \/ (\E i \in Images : ImageLoad(p, i)) \/ LoadDescriptor(p)
  \/ IwRead(p) \/ IwRemove(p) \/ IwDescriptor(p)

LEMMA OnlyBuilding ==
  ASSUME TypeOK, Used, Next, Undisturbed'
  PROVE  Undisturbed /\ \E p \in Procs : Step(p) /\ Building(p)
<1>1. use' = use
  BY DEF Next
<1>2. PICK p \in Procs : (Step(p) /\ UNCHANGED deaths) \/ Die(p)
  BY DEF Next
<1>3. deaths' = 0 /\ deaths \in Nat
  BY DEF Undisturbed, TypeOK
<1>4. ~Die(p)
  BY SMT, <1>3 DEF Die
<1>5. Undisturbed
  BY <1>1, <1>2, <1>4 DEF Undisturbed
<1>6. op[p] \notin {"release", "rmFind", "remove"} /\ "release" \notin use[p] /\ "remove" \notin use[p]
  BY <1>5 DEF Undisturbed, Used
<1>7. Building(p)
  BY Zenon, <1>2, <1>4, <1>6
     DEF Step, Building, RemoveOne, FindDescriptor, ReleaseDescriptor, Remove, FindRoot, RemoveDescriptors
<1> QED
  BY <1>2, <1>4, <1>5, <1>7

LEMMA OwnFacts ==
  ASSUME NEW b \in Own
  PROVE  /\ b.kind \in {"index", "none"}
         /\ \A i : b # Index("build", {i})
         /\ Unshared => \A n \in Names \ {Package} : b \notin Pulled(n)
<1>1. b = None \/ b \in Pulled(Package) \/ \E s \in SUBSET Images : b = Index("cache", s)
  BY DEF Own
<1>2. CASE b = None
  BY SMT, <1>2, BlobFacts DEF Pulled
<1>3. CASE b \in Pulled(Package)
  <2>1. b = Index("registry", Remote[Package]) /\ b # Index("registry", {})
    BY <1>3 DEF Pulled
  <2>2. b.kind = "index" /\ b.by = "registry" /\ b.of = Remote[Package] /\ Remote[Package] # {}
    BY <2>1, BlobFacts
  <2>3. \A i : b # Index("build", {i})
    BY SMT, <2>2, BlobFacts
  <2>4. ASSUME Unshared, NEW n \in Names \ {Package}, b \in Pulled(n) PROVE FALSE
    <3>1. b.of = Remote[n] /\ Remote[n] # {}
      BY SMT, <2>2, <2>4, BlobFacts DEF Pulled
    <3> QED
      BY <2>2, <2>4, <3>1 DEF Unshared
  <2> QED
    BY <2>2, <2>3, <2>4
<1>4. CASE \E s \in SUBSET Images : b = Index("cache", s)
  BY SMT, <1>4, BlobFacts DEF Pulled
<1> QED
  BY Zenon, <1>1, <1>2, <1>3, <1>4

(* Which names a step of p sets, and to what.                              *)
LEMMA RootStep ==
  ASSUME TypeOK, NEW p \in Procs, Building(p)
  PROVE  \/ root' = root /\ ~PullDescriptor(p) /\ ~LoadDescriptor(p) /\ ~IwDescriptor(p)
         \/ PullDescriptor(p) /\ root' = [root EXCEPT ![name[p]] = Index("registry", Remote[name[p]])]
         \/ LoadDescriptor(p) /\ root' = [root EXCEPT ![ArchName[img[p]]] = Index("build", {img[p]})]
         \/ IwDescriptor(p) /\ root' = [root EXCEPT ![Package] = Merged(p)]
<1>1. PullDescriptor(p) => root' = [root EXCEPT ![name[p]] = Index("registry", Remote[name[p]])]
  BY DEF PullDescriptor, Point
<1>2. LoadDescriptor(p) => root' = [root EXCEPT ![ArchName[img[p]]] = Index("build", {img[p]})]
  BY DEF LoadDescriptor, Point
<1>3. IwDescriptor(p) => root' = [root EXCEPT ![Package] = Merged(p)]
  BY DEF IwDescriptor, Point
<1> QED
  BY Zenon, <1>1, <1>2, <1>3 DEF Building, WriteBlob, FinishBlob, ImagePull, ImageLoad, IwRead, IwRemove

LEMMA NamedNext ==
  ASSUME TypeOK, Used, Named, Next, Undisturbed'
  PROVE  Named'
<1> USE NamesAssumption
<1>1. PICK p \in Procs : Step(p) /\ Building(p)
  BY OnlyBuilding
<1>2. ASSUME NEW n \in Names
      PROVE  /\ n = Package => root'[n] \in Own
             /\ n # Package => root'[n] \in {None} \cup Pulled(n) \cup {Index("build", {i}) : i \in Images}
  <2>1. CASE root' = root
    BY Zenon, <2>1 DEF Named
  <2>2. CASE PullDescriptor(p) /\ root' = [root EXCEPT ![name[p]] = Index("registry", Remote[name[p]])]
    <3>1. Remote[name[p]] # {}
      BY Zenon, <2>2 DEF PullDescriptor, Used
    <3>2. Index("registry", Remote[name[p]]) \in Pulled(name[p])
      BY SMT, <3>1, BlobFacts DEF Pulled
    <3> QED
      BY Zenon, <2>2, <3>2 DEF Named, Own, TypeOK
  <2>3. CASE LoadDescriptor(p) /\ root' = [root EXCEPT ![ArchName[img[p]]] = Index("build", {img[p]})]
    <3>1. img[p] \in Images
      BY <2>3 DEF LoadDescriptor, TypeOK
    <3>2. ArchName[img[p]] \in Names \ {Package}
      BY <3>1
    <3>3. Index("build", {img[p]}) \in {Index("build", {i}) : i \in Images}
      BY Zenon, <3>1
    <3>4. root'[n] = root[n] \/ (n = ArchName[img[p]] /\ root'[n] = Index("build", {img[p]}))
      BY <2>3 DEF TypeOK
    <3> HIDE NamesAssumption
    <3> QED
      BY Zenon, <3>2, <3>3, <3>4 DEF Named
  <2>4. CASE IwDescriptor(p) /\ root' = [root EXCEPT ![Package] = Merged(p)]
    <3>1. img[p] \in Images /\ seen[p].of \in SUBSET Images
      BY <2>4, IndexKinds DEF IwDescriptor, TypeOK
    <3>2. Merged(p) \in Own
      BY <3>1, MergedType DEF Merged, Own
    <3> QED
      BY Zenon, <2>4, <3>2 DEF Named, TypeOK
  <2> QED
    BY Zenon, <1>1, <2>1, <2>2, <2>3, <2>4, RootStep
<1>3. ASSUME NEW q \in Procs, op'[q] \in {"iwLock", "index"} PROVE seen'[q] \in Own
  <2>1. CASE q # p
    BY <1>1, <1>3, <2>1, Local DEF Named
  <2>2. CASE q = p
    <3>1. CASE IwRead(p) /\ ~Done(p)
      BY <2>2, <3>1 DEF IwRead, Named, TypeOK
    <3>2. CASE Done(p)
      BY <1>3, <2>2, <3>2, DoneType
    <3>3. CASE ~IwRead(p) /\ ~Done(p)
      <4>1. \A n \in Names : ImagePull(p, n) => op'[p] = "pull"
        BY DEF ImagePull, Begin, Goto, TypeOK
      <4>2. \A i \in Images : ImageLoad(p, i) => op'[p] = "load"
        BY DEF ImageLoad, Begin, Goto, TypeOK
      <4>3. LoadDescriptor(p) => op'[p] = "iwRead"
        BY DEF LoadDescriptor, Goto, TypeOK
      <4>4. IwRemove(p) => op[p] = "iwLock" /\ UNCHANGED seen
        BY DEF IwRemove
      <4>5. \A b \in todo[p] : WriteBlob(p, b) => UNCHANGED <<op, seen>>
        BY DEF WriteBlob
      <4>6. FinishBlob(p) => UNCHANGED <<op, seen>>
        BY DEF FinishBlob
      <4> QED
        BY Zenon, <1>1, <1>3, <2>2, <3>3, <4>1, <4>2, <4>3, <4>4, <4>5, <4>6 DEF Building, Named, PullDescriptor, IwDescriptor
    <3> QED
      BY <3>1, <3>2, <3>3
  <2> QED
    BY <2>1, <2>2
<1> QED
  BY Zenon, <1>2, <1>3 DEF Named, Own, Pulled

(* Nothing but the index that p replaces leaves the cache, and no layer or *)
(* manifest does.                                                          *)
LEMMA FilesStep ==
  ASSUME NEW p \in Procs, Building(p)
  PROVE  /\ ~IwRemove(p) => files \subseteq files'
         /\ IwRemove(p) => files' = files \ {seen[p]}
<1>1. \A b \in todo[p] : WriteBlob(p, b) => files \subseteq files'
  BY DEF WriteBlob
<1> QED
  BY Zenon, <1>1 DEF Building, FinishBlob, ImagePull, PullDescriptor, ImageLoad, LoadDescriptor, IwRead, IwRemove, IwDescriptor, RemoveBlob

LEMMA PartsKept ==
  ASSUME NEW p \in Procs, Building(p), Named, NEW i, Parts(i) \subseteq files
  PROVE  Parts(i) \subseteq files'
<1>1. IwRemove(p) => seen[p].kind \in {"index", "none"}
  BY OwnFacts DEF IwRemove, Named
<1> QED
  BY <1>1, FilesStep, PartFacts

(* A process that is not at its turn.                                      *)
LEMMA OthersDoing ==
  ASSUME TypeOK, Locked, Named, NEW p \in Procs, Step(p), Building(p), NEW q \in Procs \ {p}, Doing(q)
  PROVE  Doing(q)'
<1>1. op'[q] = op[q] /\ name'[q] = name[q] /\ img'[q] = img[q] /\ todo'[q] = todo[q] /\ seen'[q] = seen[q]
  BY Local
<1>2. Have({img[q]}) => Have({img[q]})'
  BY <1>1, PartsKept DEF Have
<1>3. Have(seen[q].of) => Have(seen[q].of)'
  BY <1>1, PartsKept DEF Have
<1>4. Merged(q)' = Merged(q)
  BY <1>1 DEF Merged
<1>5. CASE ~IwRemove(p)
  <2>1. files \subseteq files'
    BY <1>5, FilesStep
  <2>2. op[q] = "pull" => Content(Index("registry", Remote[name'[q]])) \subseteq files' \cup todo'[q]
    BY <1>1, <2>1 DEF Doing
  <2>3. op[q] = "load" => Content(Index("build", {img'[q]})) \subseteq files' \cup todo'[q]
    BY <1>1, <2>1 DEF Doing
  <2>4. op[q] = "index" => Merged(q)' \in files' \cup todo'[q]
    BY <1>1, <1>4, <2>1 DEF Doing
  <2> QED
    BY Zenon, <1>1, <1>2, <1>3, <2>2, <2>3, <2>4 DEF Doing
<1>6. CASE IwRemove(p)
  <2>1. op[q] \notin {"pull", "index"}
    BY <1>6, NamesAssumption DEF IwRemove, Lock, Locked
  <2>2. seen[p] \in Own
    BY <1>6 DEF IwRemove, Named
  <2>3. ASSUME op[q] = "load" PROVE Content(Index("build", {img'[q]})) \subseteq files' \cup todo'[q]
    <3>1. seen[p] # Index("build", {img[q]})
      BY Zenon, <2>2, OwnFacts
    <3>2. seen[p] \notin Parts(img[q])
      BY <2>2, OwnFacts, PartFacts
    <3>3. seen[p] \notin Content(Index("build", {img[q]}))
      BY SMT, <3>1, <3>2, ContentOf
    <3>4. files' = files \ {seen[p]}
      BY <1>6, FilesStep
    <3>5. Content(Index("build", {img[q]})) \subseteq files \cup todo[q]
      BY <2>3 DEF Doing
    <3> QED
      BY <1>1, <3>3, <3>4, <3>5
  <2> QED
    BY SMTT(30), <1>1, <1>2, <1>3, <2>1, <2>3 DEF Doing
<1> QED
  BY <1>5, <1>6

LEMMA PartsInContent ==
  ASSUME NEW by, NEW s, NEW i \in s
  PROVE  Parts(i) \subseteq Content(Index(by, s)) /\ Index(by, s) \in Content(Index(by, s))
BY SMT, ContentOf

(* What p is to give a name, when it has written all, is in the cache.     *)
LEMMA WrittenHave ==
  ASSUME TypeOK, NEW p \in Procs, Doing(p), Written(p)
  PROVE  /\ op[p] = "pull" => Index("registry", Remote[name[p]]) \in files /\ Have(Remote[name[p]])
         /\ op[p] = "load" => Index("build", {img[p]}) \in files /\ Have({img[p]})
         /\ op[p] = "index" => Merged(p) \in files /\ Have(Merged(p).of)
<1>1. todo[p] = {}
  BY DEF Written
<1>2. ASSUME op[p] = "pull" PROVE Index("registry", Remote[name[p]]) \in files /\ Have(Remote[name[p]])
  <2>1. Content(Index("registry", Remote[name[p]])) \subseteq files
    BY <1>1, <1>2 DEF Doing
  <2> QED
    BY <2>1, PartsInContent, ContentOf DEF Have
<1>3. ASSUME op[p] = "load" PROVE Index("build", {img[p]}) \in files /\ Have({img[p]})
  <2>1. Content(Index("build", {img[p]})) \subseteq files
    BY <1>1, <1>3 DEF Doing
  <2> QED
    BY Zenon, <2>1, PartsInContent, ContentOf DEF Have
<1>4. ASSUME op[p] = "index" PROVE Merged(p) \in files /\ Have(Merged(p).of)
  <2>1. Merged(p) \in files /\ Have({img[p]}) /\ Have(seen[p].of)
    BY <1>1, <1>4 DEF Doing
  <2>2. Merged(p).of = Merge(seen[p].of, img[p])
    BY BlobFacts DEF Merged
  <2> QED
    BY <2>1, <2>2 DEF Have, Merge
<1> QED
  BY <1>2, <1>3, <1>4

(* The process whose turn it is.                                           *)
LEMMA OwnDoing ==
  ASSUME TypeOK, Named, Present, NEW p \in Procs, Building(p)
  PROVE  Doing(p)'
<1>0. Doing(p)
  BY SMTT(30) DEF Present
<1>1. ASSUME NEW b \in todo[p], WriteBlob(p, b) PROVE Doing(p)'
  <2>1. UNCHANGED <<op, name, img, seen>> /\ files' \cup todo'[p] = files \cup todo[p] /\ files \subseteq files'
    BY <1>1 DEF WriteBlob, TypeOK
  <2>2. Merged(p)' = Merged(p)
    BY <2>1 DEF Merged
  <2> QED
    BY <1>0, <2>1, <2>2 DEF Doing, Have
<1>2. CASE FinishBlob(p)
  BY Zenon, <1>0, <1>2 DEF FinishBlob, Doing, Have, Merged
<1>3. ASSUME NEW n \in Names, ImagePull(p, n) PROVE Doing(p)'
  <2>1. op'[p] = "pull" /\ name'[p] = n /\ todo'[p] = Content(Index("registry", Remote[n]))
    BY Zenon, <1>3 DEF ImagePull, Begin, Goto, TypeOK
  <2> QED
    BY Zenon, <2>1 DEF Doing
<1>4. CASE Done(p)
  <2>1. op'[p] = "idle"
    BY <1>4, DoneType
  <2> QED
    BY Zenon, <2>1 DEF Doing
<1>5. ASSUME NEW i \in Images, ImageLoad(p, i) PROVE Doing(p)'
  <2>1. op'[p] = "load" /\ img'[p] = i /\ todo'[p] = Content(Index("build", {i}))
    BY <1>5 DEF ImageLoad, Begin, Goto, TypeOK
  <2> QED
    BY <2>1 DEF Doing
<1>6. CASE LoadDescriptor(p)
  <2>1. Have({img[p]}) /\ op'[p] = "iwRead" /\ UNCHANGED <<img, files>>
    BY Zenon, <1>0, <1>6, WrittenHave DEF LoadDescriptor, Goto, TypeOK
  <2> QED
    BY <2>1 DEF Doing, Have
<1>7. CASE IwRead(p) /\ ~Done(p)
  <2>1. op[p] = "iwRead" /\ op'[p] = "iwLock" /\ seen'[p] = root[Package] /\ UNCHANGED <<img, files>>
    BY SMTT(30), <1>7 DEF IwRead, Goto, TypeOK
  <2>2. Have({img[p]}) /\ Have(root[Package].of)
    BY <1>0, <2>1, NamesAssumption DEF Doing, Present
  <2> QED
    BY Zenon, <2>1, <2>2 DEF Doing, Have
<1>8. CASE IwRemove(p)
  <2>1. op[p] = "iwLock" /\ op'[p] = "index" /\ UNCHANGED <<img, seen>> /\ todo'[p] = {Merged(p)}
    BY SMTT(30), <1>8 DEF IwRemove, Goto, TypeOK
  <2>2. Merged(p)' = Merged(p)
    BY Zenon, <2>1 DEF Merged
  <2>3. Have({img[p]})' /\ Have(seen[p].of)'
    BY <1>0, <2>1, PartsKept DEF Doing, Have
  <2> QED
    BY Zenon, <2>1, <2>2, <2>3 DEF Doing
<1> QED
  BY Zenon, <1>1, <1>2, <1>3, <1>4, <1>5, <1>6, <1>7, <1>8 DEF Building, PullDescriptor, IwDescriptor

(* What is being replaced stays so until p has set the name.               *)
LEMMA ReplacedStep ==
  ASSUME TypeOK, NEW p \in Procs, Step(p), Building(p), ~IwDescriptor(p)
  PROVE  Replaced \subseteq Replaced' /\ (IwRemove(p) => seen[p] \in Replaced')
<1>1. ASSUME op[p] = "index" PROVE op'[p] = "index" /\ seen'[p] = seen[p]
  <2>1. \A b \in todo[p] : WriteBlob(p, b) => UNCHANGED <<op, seen>>
    BY DEF WriteBlob
  <2> QED
    BY Zenon, <1>1, <2>1 DEF Building, FinishBlob, ImagePull, PullDescriptor, ImageLoad, LoadDescriptor, IwRead, IwRemove
<1>2. \A q \in Procs : op[q] = "index" => op'[q] = "index" /\ seen'[q] = seen[q]
  BY Zenon, <1>1, Local
<1>3. IwRemove(p) => op'[p] = "index" /\ seen'[p] = seen[p]
  BY SMTT(30) DEF IwRemove, Goto, TypeOK
<1> QED
  BY <1>2, <1>3 DEF Replaced

LEMMA PresentNext ==
  ASSUME TypeOK, Locked, Used, Named, Present, Next, Undisturbed'
  PROVE  Present'
<1>1. PICK p \in Procs : Step(p) /\ Building(p)
  BY OnlyBuilding
<1>2. Unshared
  BY OnlyBuilding DEF Undisturbed
<1>3. \A q \in Procs : Doing(q)'
  BY <1>1, OwnDoing, OthersDoing DEF Present
<1>4. ASSUME NEW n \in Names
      PROVE  /\ Have(root[n].of)'
             /\ n # Package => root'[n] \in files' \cup {None}
             /\ n = Package => root'[n] \in files' \cup {None} \cup Replaced'
  <2>1. Doing(p) /\ Have(root[n].of)
    BY DEF Present
  <2>2. ASSUME root'[n] = root[n], ~(IwDescriptor(p) /\ n = Package)
        PROVE  /\ Have(root[n].of)'
               /\ n # Package => root'[n] \in files' \cup {None}
               /\ n = Package => root'[n] \in files' \cup {None} \cup Replaced'
    <3>1. Have(root[n].of)'
      BY <1>1, <2>1, <2>2, PartsKept DEF Have
    <3>2. ASSUME n # Package PROVE root'[n] \in files' \cup {None}
      <4>1. root[n] \in files \cup {None}
        BY <3>2 DEF Present
      <4>2. ASSUME IwRemove(p), root[n] # None PROVE root[n] # seen[p]
        <5>1. seen[p] \in Own
          BY <4>2 DEF IwRemove, Named
        <5>2. root[n] \in Pulled(n) \/ \E i \in Images : root[n] = Index("build", {i})
          BY Zenon, <3>2, <4>2 DEF Named
        <5> QED
          BY Zenon, <1>2, <3>2, <5>1, <5>2, OwnFacts
      <4> QED
        BY <1>1, <2>2, <4>1, <4>2, FilesStep
    <3>3. ASSUME n = Package PROVE root'[n] \in files' \cup {None} \cup Replaced'
      <4>1. root[n] \in files \cup {None} \cup Replaced
        BY <3>3 DEF Present
      <4>2. Replaced \subseteq Replaced' /\ (IwRemove(p) => seen[p] \in Replaced')
        BY <1>1, <2>2, <3>3, ReplacedStep
      <4> QED
        BY <1>1, <2>2, <4>1, <4>2, FilesStep
    <3> QED
      BY <3>1, <3>2, <3>3
  <2>3. ASSUME NEW b, root'[n] = b, b \in files, Have(b.of), ~IwRemove(p)
        PROVE  Have(root[n].of)' /\ root'[n] \in files'
    BY <1>1, <2>3, FilesStep DEF Have
  <2>4. CASE PullDescriptor(p) /\ root' = [root EXCEPT ![name[p]] = Index("registry", Remote[name[p]])]
    <3>1. Index("registry", Remote[name[p]]) \in files /\ Have(Index("registry", Remote[name[p]]).of)
      <4>1. Index("registry", Remote[name[p]]) \in files /\ Have(Remote[name[p]])
        BY Zenon, <2>1, <2>4, WrittenHave DEF PullDescriptor
      <4>2. Index("registry", Remote[name[p]]).of = Remote[name[p]]
        BY Zenon, BlobFacts
      <4> QED
        BY <4>1, <4>2
    <3>2. ~IwRemove(p) /\ ~IwDescriptor(p)
      BY Zenon, <2>4 DEF PullDescriptor, IwRemove, IwDescriptor
    <3>3. root'[n] = root[n] \/ root'[n] = Index("registry", Remote[name[p]])
      BY SMTT(30), <2>4 DEF TypeOK
    <3> QED
      BY <2>2, <2>3, <3>1, <3>2, <3>3
  <2>5. CASE LoadDescriptor(p) /\ root' = [root EXCEPT ![ArchName[img[p]]] = Index("build", {img[p]})]
    <3>1. Index("build", {img[p]}) \in files /\ Have(Index("build", {img[p]}).of)
      <4>1. Index("build", {img[p]}) \in files /\ Have({img[p]})
        BY Zenon, <2>1, <2>5, WrittenHave DEF LoadDescriptor
      <4>2. Index("build", {img[p]}).of = {img[p]}
        BY BlobFacts
      <4> QED
        BY <4>1, <4>2
    <3>2. ~IwRemove(p) /\ ~IwDescriptor(p)
      BY Zenon, <2>5 DEF LoadDescriptor, IwRemove, IwDescriptor
    <3>3. root'[n] = root[n] \/ root'[n] = Index("build", {img[p]})
      BY <2>5 DEF TypeOK
    <3> QED
      BY <2>2, <2>3, <3>1, <3>2, <3>3
  <2>6. CASE IwDescriptor(p) /\ root' = [root EXCEPT ![Package] = Merged(p)]
    <3>1. Merged(p) \in files /\ Have(Merged(p).of)
      BY Zenon, <2>1, <2>6, WrittenHave DEF IwDescriptor
    <3>2. ~IwRemove(p)
      BY Zenon, <2>6 DEF IwRemove, IwDescriptor
    <3>3. IF n = Package THEN root'[n] = Merged(p) ELSE root'[n] = root[n]
      BY <2>6 DEF TypeOK
    <3> QED
      BY <2>2, <2>3, <3>1, <3>2, <3>3
  <2>7. CASE root' = root /\ ~IwDescriptor(p)
    BY <2>2, <2>7
  <2> QED
    BY Zenon, <1>1, <2>4, <2>5, <2>6, <2>7, RootStep
<1>5. Package \in Names
  BY NamesAssumption
<1> QED
  BY <1>3, <1>4, <1>5 DEF Present

LEMMA Inductive == IInv /\ [Next]_vars => IInv'
<1> SUFFICES ASSUME IInv, [Next]_vars PROVE IInv'
  OBVIOUS
<1>1. CASE Next
  <2>1. TypeOK' /\ Locked' /\ Used' /\ Healing'
    BY <1>1, TypeNext, LockedNext, HealingNext DEF IInv
  <2>2. ASSUME Undisturbed' PROVE Named' /\ Present'
    <3>1. Named /\ Present
      BY <1>1, <2>2, OnlyBuilding DEF IInv
    <3> QED
      BY <1>1, <2>2, <3>1, NamedNext, PresentNext DEF IInv
  <2> QED
    BY <2>1, <2>2 DEF IInv
<1>2. CASE UNCHANGED vars
  BY Zenon, <1>2 DEF vars, IInv, TypeOK, Locked, Used, Healing, Removers, Undisturbed, Named, Present, Doing, Have, Merged, Replaced
<1> QED
  BY <1>1, <1>2

(* The invariant of the cache: who holds the lock, and that all a process  *)
(* is to give a name is there or still to be written.                      *)
THEOREM Invariance == Spec => []IInv
BY InitIInv, Inductive, PTL DEF Spec

(* The values of the variables.                                            *)
THEOREM TypeCorrect == Spec => []TypeOK
<1>1. IInv => TypeOK
  BY DEF IInv
<1> QED
  BY <1>1, Invariance, PTL

(* Every index, manifest and layer that a name leads to is in the cache,   *)
(* but the index that IndexWrite is replacing: pulls and builds by any     *)
(* number of processes at once never leave a name without its image.       *)
THEOREM NamesArePresent == Spec => []RootPresent
<1>1. ASSUME IInv PROVE RootPresent
  <2> SUFFICES ASSUME Undisturbed, NEW n \in Names PROVE Content(root[n]) \ Replaced \subseteq files
    BY DEF RootPresent
  <2>1. Have(root[n].of) /\ root[n] \in files \cup {None} \cup Replaced
    BY <1>1 DEF IInv, Present
  <2>2. CASE root[n] = None
    BY <2>2, ContentNone
  <2>3. CASE root[n] # None
    <3>1. UNION {Parts(i) : i \in root[n].of} \subseteq files
      BY <2>1 DEF Have
    <3>2. Content(root[n]) \subseteq {root[n]} \cup UNION {Parts(i) : i \in root[n].of}
      BY DEF Content
    <3>3. root[n] \in files \cup Replaced
      BY <2>1, <2>3
    <3> QED
      BY <3>1, <3>2, <3>3
  <2> QED
    BY <2>2, <2>3
<1> QED
  BY <1>1, Invariance, PTL

(* When a pull ends, the layers of its image are complete, even those that *)
(* a process that died had left torn.                                      *)
THEOREM PullsHeal == Spec => PullHealsLayers
<1>1. ASSUME IInv, [Next]_vars
      PROVE  [\A p \in Procs, l \in Layers :
                /\ op[p] = "pull" /\ op'[p] = "idle" /\ todo[p] = {}
                /\ Removers \subseteq {p}
                /\ \E i \in Remote[name[p]] : l \in LayersOf[i]
                => Layer(l) \in files' \ partial']_vars
  <2>1. SUFFICES ASSUME Next, NEW p \in Procs, NEW l \in Layers, op[p] = "pull", op'[p] = "idle", todo[p] = {}, Removers \subseteq {p},
                        NEW i \in Remote[name[p]], l \in LayersOf[i]
                 PROVE  Layer(l) \in files' \ partial'
    BY <1>1
  <2>2. Layer(l) \in files \ partial
    BY <1>1, <2>1 DEF IInv, Healing
  <2>3. PICK q \in Procs : Step(q) \/ Die(q)
    BY <2>1 DEF Next
  <2>4. q = p
    BY <1>1, <2>1, <2>3, Local DEF IInv
  <2> QED
    BY <1>1, <2>1, <2>2, <2>3, <2>4, LayersKept DEF IInv
<1> QED
  BY <1>1, Invariance, PTL DEF Spec, PullHealsLayers

(* What a step may do to the package's index and to the record of what was *)
(* built: a build adds to both, a removal forgets both.                    *)
Forgets == root'[Package] = None /\ last' = NoneBuilt
Adds(p) ==
  /\ op[p] = "index" /\ root'[Package] = Merged(p)
  /\ last' = [last EXCEPT ![PlatOf[img[p]]] = img[p]]

(* Nothing else, when no pull and no release has the package's name.       *)
LEMMA PackageSteps ==
  ASSUME TypeOK, Used, Remote[Package] = {}, Release # Package, NEW p \in Procs, Step(p) \/ Die(p)
  PROVE  (root'[Package] = root[Package] /\ last' = last) \/ Forgets \/ Adds(p)
<1>0. root \in [Names -> Indexes \cup {None}] /\ Package \in Names /\ Release \in Names /\ name[p] \in Names
  BY NamesAssumption DEF TypeOK
<1>1. ASSUME NEW b \in todo[p], WriteBlob(p, b) \/ RemoveOne(p, b) PROVE root' = root /\ last' = last
  BY <1>1 DEF WriteBlob, RemoveOne
<1>2. ASSUME NEW n \in Names, ImagePull(p, n) \/ Remove(p, n) PROVE root' = root /\ last' = last
  BY <1>2 DEF ImagePull, Remove
<1>3. ASSUME NEW i \in Images, ImageLoad(p, i) PROVE root' = root /\ last' = last
  BY <1>3 DEF ImageLoad
<1>4. CASE FinishBlob(p) \/ IwRead(p) \/ IwRemove(p) \/ FindDescriptor(p) \/ FindRoot(p) \/ Die(p)
  BY <1>4 DEF FinishBlob, IwRead, IwRemove, FindDescriptor, FindRoot, Die
<1>5. CASE PullDescriptor(p)
  <2>1. name[p] # Package
    BY <1>5 DEF PullDescriptor, Used
  <2> QED
    BY <1>0, <1>5, <2>1 DEF PullDescriptor, Point
<1>6. CASE LoadDescriptor(p)
  <2>1. ArchName[img[p]] # Package
    BY <1>6, NamesAssumption DEF LoadDescriptor, TypeOK
  <2> QED
    BY <1>0, <1>6, <2>1 DEF LoadDescriptor, Point
<1>7. CASE ReleaseDescriptor(p)
  BY <1>0, <1>7 DEF ReleaseDescriptor, Point
<1>8. CASE RemoveDescriptors(p)
  BY <1>0, <1>8 DEF RemoveDescriptors, Point, Forgets
<1>9. CASE IwDescriptor(p)
  BY <1>0, <1>9 DEF IwDescriptor, Point, Adds
<1> QED
  BY <1>1, <1>2, <1>3, <1>4, <1>5, <1>6, <1>7, <1>8, <1>9 DEF Step

(* The record of what was built, whatever has the package's name.          *)
LEMMA LastStep ==
  ASSUME NEW p \in Procs, Step(p) \/ Die(p)
  PROVE  \/ last' = last \/ last' = NoneBuilt
         \/ op[p] = "index" /\ last' = [last EXCEPT ![PlatOf[img[p]]] = img[p]]
BY DEF Step, Die, WriteBlob, RemoveOne, FinishBlob, ImagePull, PullDescriptor, ImageLoad, LoadDescriptor, IwRead, IwRemove,
       IwDescriptor, FindDescriptor, ReleaseDescriptor, Remove, FindRoot, RemoveDescriptors

(* Where a builder can be after its step, and what it has read.            *)
LEMMA BuilderStep ==
  ASSUME TypeOK, NEW p \in Procs, Step(p) \/ Die(p)
  PROVE  /\ op'[p] \in {"load", "iwRead", "iwLock", "index"} =>
              op[p] \in {"load", "iwRead", "iwLock", "index"} \/ "build" \in use[p]
         /\ op'[p] \in {"iwLock", "index"} => /\ root' = root /\ last' = last
                                              /\ \/ op[p] \in {"iwLock", "index"} /\ seen'[p] = seen[p]
                                                 \/ seen'[p] = root[Package]
<1> USE DEF TypeOK
<1>1. CASE Done(p)
  BY <1>1, DoneType
<1>2. ASSUME NEW b \in todo[p], WriteBlob(p, b) \/ RemoveOne(p, b) PROVE UNCHANGED <<op, seen, root, last>>
  BY <1>2 DEF WriteBlob, RemoveOne
<1>3. CASE FinishBlob(p)
  BY <1>3 DEF FinishBlob
<1>4. ASSUME NEW n \in Names, ImagePull(p, n) \/ Remove(p, n) PROVE op'[p] \in {"pull", "rmFind"}
  BY <1>4 DEF ImagePull, Remove, Begin, Goto
<1>5. ASSUME NEW i \in Images, ImageLoad(p, i) PROVE op'[p] = "load" /\ "build" \in use[p]
  BY <1>5 DEF ImageLoad, Begin, Goto
<1>6. CASE LoadDescriptor(p) \/ FindDescriptor(p)
  BY <1>6 DEF LoadDescriptor, FindDescriptor, Goto
<1>7. CASE IwRead(p) /\ ~Done(p)
  BY <1>7 DEF IwRead, Goto
<1>8. CASE IwRemove(p)
  BY <1>8 DEF IwRemove, Goto
<1>9. CASE FindRoot(p) /\ ~Done(p)
  BY <1>9 DEF FindRoot, Goto
<1>10. PullDescriptor(p) \/ IwDescriptor(p) \/ ReleaseDescriptor(p) \/ RemoveDescriptors(p) \/ Die(p) => Done(p)
  BY DEF PullDescriptor, IwDescriptor, ReleaseDescriptor, RemoveDescriptors, Die
<1> QED
  BY Zenon, <1>1, <1>2, <1>3, <1>4, <1>5, <1>6, <1>7, <1>8, <1>9, <1>10 DEF Step

(* A build's index has its image and those of the other platforms.         *)
LEMMA AddsLatest ==
  ASSUME KeepsPlatforms, NEW p \in Procs, img[p] \in Images, Latest(seen[p].of), Adds(p)
  PROVE  Latest(root[Package].of)'
<1>1. root'[Package].of = Merge(seen[p].of, img[p])
  BY SMT, BlobFacts DEF Merged, Adds
<1>2. DOMAIN last = DOMAIN NoneBuilt /\ last' = [last EXCEPT ![PlatOf[img[p]]] = img[p]]
  BY DEF KeepsPlatforms, Adds
<1>3. \A t \in DOMAIN last : last[t] # NoImage => last[t] \in seen[p].of /\ PlatOf[last[t]] = t
  BY <1>2 DEF Latest, KeepsPlatforms
<1>4. ASSUME NEW t \in DOMAIN last', last'[t] # NoImage PROVE last'[t] \in Merge(seen[p].of, img[p])
  <2>1. CASE t = PlatOf[img[p]]
    BY <1>2, <1>4, <2>1 DEF Merge
  <2>2. CASE t # PlatOf[img[p]]
    BY <1>2, <1>3, <1>4, <2>2 DEF Merge
  <2> QED
    BY <2>1, <2>2
<1> QED
  BY <1>1, <1>4 DEF Latest

(* Nothing was built at first, nor after a removal.                        *)
LEMMA NothingBuilt ==
  ASSUME NEW s, last' = NoneBuilt PROVE \A t \in DOMAIN last' : last'[t] # NoImage => last'[t] \in s
BY DEF NoneBuilt

(* Every step keeps what is known of the platforms.                        *)
LEMMA PlatformsNext ==
  ASSUME IInv, KeepsPlatforms, Next
  PROVE  KeepsPlatforms'
<1>0. TypeOK /\ Used /\ use' = use
  BY DEF IInv, Next
<1>1. PICK p \in Procs : Step(p) \/ Die(p)
  BY DEF Next
<1>2. op[p] = "index" => img[p] \in Images
  BY <1>0 DEF TypeOK
<1>3. /\ last' \in [DOMAIN NoneBuilt -> Images \cup {NoImage}]
      /\ \A t \in DOMAIN NoneBuilt : last'[t] # NoImage => PlatOf[last'[t]] = t
  <2>1. CASE last' = last
    BY <2>1 DEF KeepsPlatforms
  <2>2. CASE last' = NoneBuilt
    BY <2>2 DEF NoneBuilt
  <2>3. CASE op[p] = "index" /\ last' = [last EXCEPT ![PlatOf[img[p]]] = img[p]]
    BY <1>2, <2>3 DEF KeepsPlatforms
  <2> QED
    BY <1>1, <2>1, <2>2, <2>3, LastStep
<1>4. ASSUME NEW q \in Procs, op'[q] \in {"load", "iwRead", "iwLock", "index"} PROVE q \in Builders'
  <2>1. CASE q = p
    BY <1>0, <1>1, <1>4, <2>1, BuilderStep DEF KeepsPlatforms, Builders
  <2>2. CASE q # p
    BY <1>0, <1>1, <1>4, <2>2, Local DEF KeepsPlatforms, Builders
  <2> QED
    BY <2>1, <2>2
<1>5. ASSUME OneBuilder'
      PROVE  /\ Latest(root[Package].of)'
             /\ \A q \in Procs : op'[q] \in {"iwLock", "index"} => Latest(seen[q].of)'
  <2>0. OneBuilder /\ Remote[Package] = {} /\ Release # Package
    BY <1>0, <1>5 DEF OneBuilder, Builders
  <2>1. /\ Latest(root[Package].of)
        /\ \A q \in Procs : op[q] \in {"iwLock", "index"} => Latest(seen[q].of)
    BY <2>0 DEF KeepsPlatforms
  <2>2. (root'[Package] = root[Package] /\ last' = last) \/ Forgets \/ Adds(p)
    BY <1>0, <1>1, <2>0, PackageSteps
  <2>3. Latest(root[Package].of)'
    <3>1. CASE root'[Package] = root[Package] /\ last' = last
      BY <2>1, <3>1 DEF Latest
    <3>2. CASE Forgets
      BY <3>2, NothingBuilt DEF Latest, Forgets
    <3>3. CASE Adds(p)
      <4>1. img[p] \in Images /\ Latest(seen[p].of)
        BY <1>2, <2>1, <3>3 DEF Adds
      <4> QED
        BY <3>3, <4>1, AddsLatest
    <3> QED
      BY <2>2, <3>1, <3>2, <3>3
  <2>4. ASSUME NEW q \in Procs, op'[q] \in {"iwLock", "index"} PROVE Latest(seen[q].of)'
    <3>1. CASE q = p
      <4>1. /\ root' = root /\ last' = last
            /\ (op[p] \in {"iwLock", "index"} /\ seen'[p] = seen[p]) \/ seen'[p] = root[Package]
        BY <1>0, <1>1, <2>4, <3>1, BuilderStep
      <4> QED
        BY <2>1, <3>1, <4>1 DEF Latest
    <3>2. CASE q # p
      <4>1. op[q] = op'[q] /\ seen'[q] = seen[q]
        BY <1>0, <1>1, <3>2, Local
      <4>2. Latest(seen[q].of)
        BY <2>1, <2>4, <4>1
      <4>3. ~Adds(p)
        <5>1. q \in Builders /\ (op[p] = "index" => p \in Builders)
          BY <2>4, <4>1 DEF KeepsPlatforms
        <5> QED
          BY <2>0, <3>2, <5>1 DEF OneBuilder, Adds
      <4>4. CASE last' = last
        BY <4>1, <4>2, <4>4 DEF Latest
      <4>5. CASE Forgets
        BY <4>5, NothingBuilt DEF Latest, Forgets
      <4> QED
        BY <2>2, <4>3, <4>4, <4>5
    <3> QED
      BY <3>1, <3>2
  <2> QED
    BY <2>3, <2>4
<1> QED
  BY <1>3, <1>4, <1>5 DEF KeepsPlatforms

(* When one process only builds the package, and its name is neither       *)
(* pulled nor released over, its index has the image last built for each   *)
(* platform, whatever other processes release, remove, or leave by dying.  *)
THEOREM PlatformsAreKept == Spec => []IndexKeepsPlatforms
<1>1. Init => KeepsPlatforms
  <2> SUFFICES ASSUME Init PROVE KeepsPlatforms
    OBVIOUS
  <2>1. \A t \in DOMAIN last : last[t] = NoImage
    BY DEF Init, NoneBuilt
  <2>2. /\ last \in [DOMAIN NoneBuilt -> Images \cup {NoImage}] /\ DOMAIN last = DOMAIN NoneBuilt
    BY DEF Init, NoneBuilt
  <2>3. \A q \in Procs : op[q] = "idle"
    BY DEF Init
  <2> QED
    BY <2>1, <2>2, <2>3 DEF KeepsPlatforms, Latest
<1>2. IInv /\ KeepsPlatforms /\ [Next]_vars => KeepsPlatforms'
  <2>1. ASSUME KeepsPlatforms, UNCHANGED vars PROVE KeepsPlatforms'
    BY <2>1 DEF KeepsPlatforms, Latest, OneBuilder, Builders, NoneBuilt, vars
  <2> QED
    BY <2>1, PlatformsNext
<1>3. KeepsPlatforms => IndexKeepsPlatforms
  BY DEF KeepsPlatforms, IndexKeepsPlatforms
<1> QED
  BY <1>1, <1>2, <1>3, Invariance, PTL DEF Spec

===============================================================================
