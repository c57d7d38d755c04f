--------------------------- MODULE CacheLockProofs ---------------------------
(***************************************************************************)
(* Proofs about CacheLock, for any processes, names and digests: the root  *)
(* index is used by one goroutine at a time, and its several file accesses *)
(* implement the atomic operations of DescriptorStore.                     *)
(***************************************************************************)
EXTENDS CacheLock, TLAPS

(* The two goroutines of a process.                                        *)
LEMMA ThreadFacts ==
  /\ \A p \in Procs : Main(p) \in Threads /\ Load(p) \in Threads
  /\ \A p, q \in Procs : Main(p) # Load(q)
  /\ \A p \in Procs : Main(p)[1] = p /\ Load(p)[1] = p
  /\ \A p \in Procs : Main(p)[2] = "main" /\ Load(p)[2] = "load"
  /\ \A t \in Threads : t[1] \in Procs /\ (t = Main(t[1]) \/ t = Load(t[1]))
BY DEF Threads, Main, Load

(* Initially every variable has its type and the invariant holds.          *)
LEMMA InitInv == Init => IInv
<1> SUFFICES ASSUME Init PROVE IInv
  OBVIOUS
<1>1. TypeOK
  BY ThreadFacts DEF Init, TypeOK, Places, Jobs, Changing
<1>2. LockInv
  BY ThreadFacts DEF Init, LockInv, Critical, Changing, LoadPlaces
<1>3. RootInv /\ OneDescriptorPerName
  BY ThreadFacts
     DEF Init, RootInv, KnowsRoot, Changing, Appending, Writing,
         OneDescriptorPerName
<1> QED
  BY <1>1, <1>2, <1>3 DEF IInv

(* Every step keeps the variables in their types.                          *)
LEMMA TypeNext == TypeOK /\ [Next]_vars => TypeOK'
<1> SUFFICES ASSUME TypeOK, [Next]_vars PROVE TypeOK'
  OBVIOUS
<1> USE DEF TypeOK
<1> USE
   DEF Goto, Lock, Unlock, Places, Critical, Changing, Jobs, Without,
       fileVars, workVars
<1>1. ASSUME NEW p \in Procs, OpenCache(p)
      PROVE  TypeOK'
  BY <1>1, ThreadFacts DEF OpenCache
<1>2. ASSUME NEW p \in Procs, NewLock(p)
      PROVE  TypeOK'
  BY <1>2, ThreadFacts DEF NewLock
<1>3. ASSUME NEW p \in Procs, NewStat(p)
      PROVE  TypeOK'
  BY <1>3, ThreadFacts DEF NewStat
<1>4. ASSUME NEW p \in Procs, NewTrunc(p)
      PROVE  TypeOK'
  BY <1>4, ThreadFacts DEF NewTrunc
<1>5. ASSUME NEW p \in Procs, NewWrite(p)
      PROVE  TypeOK'
  BY ZenonT(60), <1>5, ThreadFacts DEF NewWrite
<1>6. ASSUME NEW p \in Procs, NewUnlock(p)
      PROVE  TypeOK'
  BY <1>6, ThreadFacts DEF NewUnlock
<1>7. ASSUME NEW p \in Procs, StartBuild(p)
      PROVE  TypeOK'
  BY <1>7, ThreadFacts DEF StartBuild
<1>8. ASSUME NEW p \in Procs, Solve(p)
      PROVE  TypeOK'
  BY <1>8, ThreadFacts DEF Solve
<1>9. ASSUME NEW p \in Procs, Receive(p)
      PROVE  TypeOK'
  BY <1>9, ThreadFacts DEF Receive
<1>10. ASSUME NEW p \in Procs, BuildDone(p)
      PROVE  TypeOK'
  BY <1>10, ThreadFacts DEF BuildDone
<1>11. ASSUME NEW p \in Procs, Die(p)
      PROVE  TypeOK'
  <2> DEFINE T == {Main(p), Load(p)}
  <2>1. T \subseteq Threads
    BY <1>11, ThreadFacts
  <2>2. /\ \A t \in T : pc'[t] = "dead"
        /\ \A t \in Threads \ T : pc'[t] = pc[t] /\ cur'[t] = cur[t]
    BY <1>11, <2>1 DEF Die
  <2>3. /\ held' \in [Procs -> BOOLEAN] /\ pc' \in [Threads -> Places]
        /\ root' \subseteq Descriptors /\ exists' \in BOOLEAN /\ torn' \in BOOLEAN
    BY <1>11, <2>1 DEF Die
  <2>4. job' \in [Threads -> Jobs] /\ snap' \in [Threads -> SUBSET Descriptors]
    BY <1>11, <2>1 DEF Die
  <2>5. orig' \in [Threads -> SUBSET Descriptors] /\ cur' \in [Threads -> Descriptors \cup {<<>>}]
    BY <1>11, <2>1 DEF Die
  <2>6. \A t \in Threads : pc'[t] \in Changing => cur'[t] \in Descriptors
    BY <2>2
  <2> QED
    BY <2>3, <2>4, <2>5, <2>6
<1>12. ASSUME NEW p \in Procs, NEW j \in Jobs, NEW l \in Places, Start(p, j,
   l)
      PROVE  TypeOK'
  BY <1>12, ThreadFacts DEF Start, FirstPlaces, Jobs
<1>13. ASSUME NEW t \in Threads, IxLock(t)
      PROVE  TypeOK'
  BY <1>13, ThreadFacts DEF IxLock
<1>14. ASSUME NEW t \in Threads, IxRead(t)
      PROVE  TypeOK'
  BY <1>14, ThreadFacts DEF IxRead
<1>15. ASSUME NEW t \in Threads, OutLock(t)
      PROVE  TypeOK'
  BY <1>15, ThreadFacts DEF OutLock
<1>16. ASSUME NEW t \in Threads, OutUnlock(t)
      PROVE  TypeOK'
  BY <1>16, ThreadFacts DEF OutUnlock, Return, Home
<1>17. ASSUME NEW t \in Threads, RmRead(t)
      PROVE  TypeOK'
  BY <1>17, ThreadFacts DEF RmRead, ReadRoot
<1>18. ASSUME NEW t \in Threads, Truncate(t)
      PROVE  TypeOK'
  BY <1>18, ThreadFacts DEF Truncate
<1>19. ASSUME NEW t \in Threads, RmWrite(t)
      PROVE  TypeOK'
  BY ZenonT(60), <1>19, ThreadFacts DEF RmWrite
<1>20. ASSUME NEW t \in Threads, ApRead(t)
      PROVE  TypeOK'
  BY <1>20, ThreadFacts DEF ApRead, ReadRoot
<1>21. ASSUME NEW t \in Threads, ApWrite(t)
      PROVE  TypeOK'
  <2>1. cur[t] \in Descriptors /\ snap[t] \subseteq Descriptors
    BY <1>21 DEF ApWrite, Changing
  <2> QED
    BY ZenonT(60), <1>21, <2>1, ThreadFacts DEF ApWrite, Goto, Places, Critical
<1>22. ASSUME NEW t \in Threads, NEW l \in Places, IxUnlock(t, l)
      PROVE  TypeOK'
  BY <1>22, ThreadFacts DEF IxUnlock, AfterIndex, Return, Home
<1>23. ASSUME NEW t \in Threads, NEW l \in Places, Work(t, l)
      PROVE  TypeOK'
  BY <1>23, ThreadFacts DEF Work
<1>24. ASSUME NEW t \in Threads, NEW e \in Descriptors, DwLock(t, e)
      PROVE  TypeOK'
  BY <1>24, ThreadFacts DEF DwLock
<1>25. ASSUME NEW t \in Threads, NEW l \in Places, DwUnlock(t, l)
      PROVE  TypeOK'
  BY <1>25, ThreadFacts DEF DwUnlock, AfterWrite, Return, Home
<1>26. ASSUME UNCHANGED vars
      PROVE  TypeOK'
  BY <1>26, ThreadFacts DEF vars
<1> QED
  BY ZenonT(60), <1>1, <1>2, <1>3, <1>4, <1>5, <1>6, <1>7, <1>8, <1>9, <1>10, <1>11,
     <1>12, <1>13, <1>14, <1>15, <1>16, <1>17, <1>18, <1>19, <1>20, <1>21,
     <1>22, <1>23, <1>24, <1>25, <1>26
     DEF Next, ProcStep, ThreadStep

(* The lock protects the root: one goroutine at most is at it.             *)
LEMMA Exclusive == TypeOK /\ LockInv => RootExclusive
BY ThreadFacts
   DEF TypeOK, LockInv, RootExclusive, LoadPlaces, Critical, Changing

(* Every step keeps the lock's invariant.                                  *)
LEMMA LockNext == TypeOK /\ LockInv /\ [Next]_vars => LockInv'
<1> SUFFICES ASSUME TypeOK, LockInv, [Next]_vars PROVE LockInv'
  OBVIOUS
<1> USE DEF TypeOK, LockInv
<1> USE
   DEF Goto, Lock, Unlock, Free, Places, Critical, Changing, LoadPlaces,
       fileVars, workVars
<1>1. ASSUME NEW p \in Procs, OpenCache(p)
      PROVE  LockInv'
  BY <1>1, ThreadFacts DEF OpenCache
<1>2. ASSUME NEW p \in Procs, NewLock(p)
      PROVE  LockInv'
  BY <1>2, ThreadFacts DEF NewLock
<1>3. ASSUME NEW p \in Procs, NewStat(p)
      PROVE  LockInv'
  BY <1>3, ThreadFacts DEF NewStat
<1>4. ASSUME NEW p \in Procs, NewTrunc(p)
      PROVE  LockInv'
  BY <1>4, ThreadFacts DEF NewTrunc
<1>5. ASSUME NEW p \in Procs, NewWrite(p)
      PROVE  LockInv'
  BY <1>5, ThreadFacts DEF NewWrite
<1>6. ASSUME NEW p \in Procs, NewUnlock(p)
      PROVE  LockInv'
  BY <1>6, ThreadFacts DEF NewUnlock
<1>7. ASSUME NEW p \in Procs, StartBuild(p)
      PROVE  LockInv'
  BY SMTT(30), <1>7, ThreadFacts DEF StartBuild
<1>8. ASSUME NEW p \in Procs, Solve(p)
      PROVE  LockInv'
  BY <1>8, ThreadFacts DEF Solve
<1>9. ASSUME NEW p \in Procs, Receive(p)
      PROVE  LockInv'
  BY <1>9, ThreadFacts DEF Receive
<1>10. ASSUME NEW p \in Procs, BuildDone(p)
      PROVE  LockInv'
  <2>1. held' = held /\ \A q \in Procs : pc'[Load(q)] = pc[Load(q)]
    BY <1>10, ThreadFacts DEF BuildDone, Goto
  <2>2. \A q \in Procs \ {p} : pc'[Main(q)] = pc[Main(q)]
    BY <1>10, ThreadFacts DEF BuildDone, Goto
  <2>3. pc'[Main(p)] \notin Critical /\ pc[Load(p)] \notin LoadPlaces
    BY <1>10, ThreadFacts DEF BuildDone, Goto, Critical, Changing, LoadPlaces
  <2>4. \A t \in Threads : pc'[t] \in Critical => held'[t[1]]
    BY <2>1, <2>2, <2>3, ThreadFacts
  <2>5. \A q \in Procs : pc'[Load(q)] \in LoadPlaces => pc'[Main(q)] = "solve"
    BY <2>1, <2>2, <2>3
  <2> QED
    BY <2>1, <2>4, <2>5
<1>11. ASSUME NEW p \in Procs, Die(p)
      PROVE  LockInv'
  BY SMTT(30), <1>11, ThreadFacts DEF Die
<1>12. ASSUME NEW p \in Procs, NEW j \in Jobs, NEW l \in Places, Start(p, j,
   l)
      PROVE  LockInv'
  <2>1. held' = held /\ \A q \in Procs : pc'[Load(q)] = pc[Load(q)]
    BY <1>12, ThreadFacts DEF Start, FirstPlaces, Jobs, Goto
  <2>2. \A q \in Procs \ {p} : pc'[Main(q)] = pc[Main(q)]
    BY <1>12, ThreadFacts DEF Start, FirstPlaces, Jobs, Goto
  <2>3. pc'[Main(p)] \notin Critical /\ pc[Load(p)] \notin LoadPlaces
    BY <1>12, ThreadFacts
       DEF Start, FirstPlaces, Jobs, Goto, Critical, Changing, LoadPlaces
  <2>4. \A t \in Threads : pc'[t] \in Critical => held'[t[1]]
    BY <2>1, <2>2, <2>3, ThreadFacts
  <2>5. \A q \in Procs : pc'[Load(q)] \in LoadPlaces => pc'[Main(q)] = "solve"
    BY <2>1, <2>2, <2>3
  <2> QED
    BY <2>1, <2>4, <2>5
<1>13. ASSUME NEW t \in Threads, IxLock(t)
      PROVE  LockInv'
  BY <1>13, ThreadFacts DEF IxLock
<1>14. ASSUME NEW t \in Threads, IxRead(t)
      PROVE  LockInv'
  BY <1>14, ThreadFacts DEF IxRead
<1>15. ASSUME NEW t \in Threads, OutLock(t)
      PROVE  LockInv'
  BY SMTT(30), <1>15, ThreadFacts DEF OutLock
<1>16. ASSUME NEW t \in Threads, OutUnlock(t)
      PROVE  LockInv'
  BY SMTT(30), <1>16, ThreadFacts DEF OutUnlock, Return, Home
<1>17. ASSUME NEW t \in Threads, RmRead(t)
      PROVE  LockInv'
  BY SMTT(30), <1>17, ThreadFacts DEF RmRead, ReadRoot
<1>18. ASSUME NEW t \in Threads, Truncate(t)
      PROVE  LockInv'
  BY <1>18, ThreadFacts DEF Truncate
<1>19. ASSUME NEW t \in Threads, RmWrite(t)
      PROVE  LockInv'
  BY <1>19, ThreadFacts DEF RmWrite
<1>20. ASSUME NEW t \in Threads, ApRead(t)
      PROVE  LockInv'
  BY <1>20, ThreadFacts DEF ApRead, ReadRoot
<1>21. ASSUME NEW t \in Threads, ApWrite(t)
      PROVE  LockInv'
  BY <1>21, ThreadFacts DEF ApWrite
<1>22. ASSUME NEW t \in Threads, NEW l \in Places, IxUnlock(t, l)
      PROVE  LockInv'
  BY <1>22, ThreadFacts DEF IxUnlock, AfterIndex, Return, Home
<1>23. ASSUME NEW t \in Threads, NEW l \in Places, Work(t, l)
      PROVE  LockInv'
  BY <1>23, ThreadFacts DEF Work
<1>24. ASSUME NEW t \in Threads, NEW e \in Descriptors, DwLock(t, e)
      PROVE  LockInv'
  BY SMTT(30), <1>24, ThreadFacts DEF DwLock
<1>25. ASSUME NEW t \in Threads, NEW l \in Places, DwUnlock(t, l)
      PROVE  LockInv'
  BY <1>25, ThreadFacts DEF DwUnlock, AfterWrite, Return, Home
<1>26. ASSUME UNCHANGED vars
      PROVE  LockInv'
  BY <1>26, ThreadFacts DEF vars
<1> QED
  BY <1>1, <1>2, <1>3, <1>4, <1>5, <1>6, <1>7, <1>8, <1>9, <1>10, <1>11,
     <1>12, <1>13, <1>14, <1>15, <1>16, <1>17, <1>18, <1>19, <1>20, <1>21,
     <1>22, <1>23, <1>24, <1>25, <1>26
     DEF Next, ProcStep, ThreadStep

(* Every step keeps what is known of index.json.                           *)
LEMMA RootNext ==
  TypeOK /\ LockInv /\ RootInv /\ OneDescriptorPerName /\ [Next]_vars
    => RootInv' /\ OneDescriptorPerName'
<1> SUFFICES ASSUME TypeOK, LockInv, RootInv, OneDescriptorPerName,
   [Next]_vars
             PROVE  RootInv' /\ OneDescriptorPerName'
  OBVIOUS
<1> USE DEF TypeOK, RootInv, KnowsRoot, OneDescriptorPerName
<1>0. RootExclusive
  BY Exclusive
<1> USE
   DEF Goto, RootExclusive, Critical, Changing, Appending, Writing, Without,
       fileVars, workVars
<1>1. ASSUME NEW p \in Procs, OpenCache(p)
      PROVE  RootInv' /\ OneDescriptorPerName'
  BY <1>1, <1>0, ThreadFacts DEF OpenCache
<1>2. ASSUME NEW p \in Procs, NewLock(p)
      PROVE  RootInv' /\ OneDescriptorPerName'
  BY <1>2, <1>0, ThreadFacts DEF NewLock
<1>3. ASSUME NEW p \in Procs, NewStat(p)
      PROVE  RootInv' /\ OneDescriptorPerName'
  BY <1>3, <1>0, ThreadFacts DEF NewStat
<1>4. ASSUME NEW p \in Procs, NewTrunc(p)
      PROVE  RootInv' /\ OneDescriptorPerName'
  BY SMTT(30), <1>4, <1>0, ThreadFacts DEF NewTrunc
<1>5. ASSUME NEW p \in Procs, NewWrite(p)
      PROVE  RootInv' /\ OneDescriptorPerName'
  BY <1>5, <1>0, ThreadFacts DEF NewWrite
<1>6. ASSUME NEW p \in Procs, NewUnlock(p)
      PROVE  RootInv' /\ OneDescriptorPerName'
  BY <1>6, <1>0, ThreadFacts DEF NewUnlock
<1>7. ASSUME NEW p \in Procs, StartBuild(p)
      PROVE  RootInv' /\ OneDescriptorPerName'
  BY <1>7, <1>0, ThreadFacts DEF StartBuild
<1>8. ASSUME NEW p \in Procs, Solve(p)
      PROVE  RootInv' /\ OneDescriptorPerName'
  BY SMTT(30), <1>8, <1>0, ThreadFacts DEF Solve
<1>9. ASSUME NEW p \in Procs, Receive(p)
      PROVE  RootInv' /\ OneDescriptorPerName'
  BY <1>9, <1>0, ThreadFacts DEF Receive
<1>10. ASSUME NEW p \in Procs, BuildDone(p)
      PROVE  RootInv' /\ OneDescriptorPerName'
  BY SMTT(30), <1>10, <1>0, ThreadFacts DEF BuildDone
<1>11. ASSUME NEW p \in Procs, Die(p)
      PROVE  RootInv' /\ OneDescriptorPerName'
  BY SMTT(30), <1>11, <1>0, ThreadFacts DEF Die
<1>12. ASSUME NEW p \in Procs, NEW j \in Jobs, NEW l \in Places, Start(p, j,
   l)
      PROVE  RootInv' /\ OneDescriptorPerName'
  BY <1>12, <1>0, ThreadFacts DEF Start, FirstPlaces, Jobs
<1>13. ASSUME NEW t \in Threads, IxLock(t)
      PROVE  RootInv' /\ OneDescriptorPerName'
  BY <1>13, <1>0, ThreadFacts DEF IxLock
<1>14. ASSUME NEW t \in Threads, IxRead(t)
      PROVE  RootInv' /\ OneDescriptorPerName'
  BY <1>14, <1>0, ThreadFacts DEF IxRead
<1>15. ASSUME NEW t \in Threads, OutLock(t)
      PROVE  RootInv' /\ OneDescriptorPerName'
  BY SMTT(30), <1>15, <1>0, ThreadFacts DEF OutLock
<1>16. ASSUME NEW t \in Threads, OutUnlock(t)
      PROVE  RootInv' /\ OneDescriptorPerName'
  BY SMTT(30), <1>16, <1>0, ThreadFacts DEF OutUnlock, Return, Home
<1>17. ASSUME NEW t \in Threads, RmRead(t)
      PROVE  RootInv' /\ OneDescriptorPerName'
  BY SMTT(30), <1>17, <1>0, ThreadFacts DEF RmRead, ReadRoot
<1>18. ASSUME NEW t \in Threads, Truncate(t)
      PROVE  RootInv' /\ OneDescriptorPerName'
  BY SMTT(30), <1>18, <1>0, ThreadFacts DEF Truncate
<1>19. ASSUME NEW t \in Threads, RmWrite(t)
      PROVE  RootInv' /\ OneDescriptorPerName'
  BY <1>19, <1>0, ThreadFacts DEF RmWrite
<1>20. ASSUME NEW t \in Threads, ApRead(t)
      PROVE  RootInv' /\ OneDescriptorPerName'
  BY <1>20, <1>0, ThreadFacts DEF ApRead, ReadRoot
<1>21. ASSUME NEW t \in Threads, ApWrite(t)
      PROVE  RootInv' /\ OneDescriptorPerName'
  BY SMTT(30), <1>21, <1>0, ThreadFacts DEF ApWrite
<1>22. ASSUME NEW t \in Threads, NEW l \in Places, IxUnlock(t, l)
      PROVE  RootInv' /\ OneDescriptorPerName'
  BY <1>22, <1>0, ThreadFacts DEF IxUnlock, AfterIndex, Return, Home
<1>23. ASSUME NEW t \in Threads, NEW l \in Places, Work(t, l)
      PROVE  RootInv' /\ OneDescriptorPerName'
  BY SMTT(30), <1>23, <1>0, ThreadFacts DEF Work
<1>24. ASSUME NEW t \in Threads, NEW e \in Descriptors, DwLock(t, e)
      PROVE  RootInv' /\ OneDescriptorPerName'
  BY <1>24, <1>0, ThreadFacts DEF DwLock
<1>25. ASSUME NEW t \in Threads, NEW l \in Places, DwUnlock(t, l)
      PROVE  RootInv' /\ OneDescriptorPerName'
  BY <1>25, <1>0, ThreadFacts DEF DwUnlock, AfterWrite, Return, Home
<1>26. ASSUME UNCHANGED vars
      PROVE  RootInv' /\ OneDescriptorPerName'
  BY <1>26, <1>0, ThreadFacts DEF vars
<1> QED
  BY <1>1, <1>2, <1>3, <1>4, <1>5, <1>6, <1>7, <1>8, <1>9, <1>10, <1>11,
     <1>12, <1>13, <1>14, <1>15, <1>16, <1>17, <1>18, <1>19, <1>20, <1>21,
     <1>22, <1>23, <1>24, <1>25, <1>26
     DEF Next, ProcStep, ThreadStep

(* Every step keeps the invariant.                                         *)
LEMMA InvNext == IInv /\ [Next]_vars => IInv'
BY TypeNext, LockNext, RootNext DEF IInv

(* In every reachable state the inductive invariant holds.                 *)
THEOREM Invariance == Spec => []IInv
BY InitInv, InvNext, PTL DEF Spec

(* All variables stay in their types.                                      *)
THEOREM TypeCorrect == Spec => []TypeOK
<1>1. IInv => TypeOK
  BY DEF IInv
<1> QED
  BY <1>1, Invariance, PTL

(* Provider.Lock and Unlock, nested and shared by two goroutines as they   *)
(* are, let one goroutine at a time at index.json.                         *)
THEOREM RootIsExclusive == Spec => []RootExclusive
<1>1. IInv => RootExclusive
  BY Exclusive DEF IInv
<1> QED
  BY <1>1, Invariance, PTL

(* DescriptorWrite never leaves two descriptors of one name.               *)
THEOREM OnePerName == Spec => []OneDescriptorPerName
<1>1. IInv => OneDescriptorPerName
  BY DEF IInv
<1> QED
  BY <1>1, Invariance, PTL

(* The abstract root while someone is at the file.                         *)
DescFacts ==
  /\ \A t \in Threads : pc[t] \in Appending => Desc = orig[t] /\ ~Broken
  /\ \A t \in Threads : pc[t] \in Writing => ~Broken
  /\ \A t \in Threads : pc[t] \in Critical \ Appending
                          => Desc = IF Broken THEN {} ELSE root
  /\ \A t \in Threads : pc[t] \in Critical \ Writing => Broken = torn

(* It is the root before the removal, or the file's contents.              *)
LEMMA DescOf == IInv => DescFacts
<1> SUFFICES ASSUME IInv PROVE DescFacts
  OBVIOUS
<1>1. RootExclusive
  BY Exclusive DEF IInv
<1>2. \A t, u \in Threads : pc[t] \in Critical /\ pc[u] \in Critical => t = u
  BY <1>1 DEF RootExclusive
<1>3. Appending \subseteq Critical /\ Writing \subseteq Critical
  BY DEF Appending, Writing, Critical, Changing
<1>4. \A t \in Threads : pc[t] \in Writing => ~Broken
  BY DEF Broken
<1>5. ASSUME NEW t \in Threads, pc[t] \in Appending
      PROVE  Desc = orig[t] /\ ~Broken
  <2>1. ~Broken
    BY <1>5 DEF IInv, RootInv, KnowsRoot, Broken, Appending, Writing
  <2>2. orig[t] \subseteq Descriptors
    BY DEF IInv, TypeOK
  <2>3. \A u \in Threads : pc[u] \in Appending => u = t
    BY <1>2, <1>3, <1>5
  <2> QED
    BY <1>5, <2>1, <2>2, <2>3 DEF Desc
<1>6. ASSUME NEW t \in Threads, pc[t] \in Critical \ Appending
      PROVE  Desc = IF Broken THEN {} ELSE root
  <2>1. \A u \in Threads : pc[u] \notin Appending
    BY <1>2, <1>3, <1>6
  <2> QED
    BY <2>1 DEF Desc
<1>7. ASSUME NEW t \in Threads, pc[t] \in Critical \ Writing
      PROVE  Broken = torn
  <2>1. \A u \in Threads : pc[u] \notin Writing
    BY <1>2, <1>3, <1>7
  <2> QED
    BY <2>1 DEF Broken, IInv, TypeOK
<1> QED
  BY <1>4, <1>5, <1>6, <1>7 DEF DescFacts

(* A step that leaves the file alone, and nobody enters or leaves a change. *)
Quiet ==
  /\ UNCHANGED <<root, torn>>
  /\ \A u \in Threads : pc'[u] \in Appending <=> pc[u] \in Appending
  /\ \A u \in Threads : pc'[u] \in Writing <=> pc[u] \in Writing
  /\ \A u \in Threads : pc[u] \in Appending => orig'[u] = orig[u]

(* Such a step does not show.                                              *)
LEMMA QuietStutters == Quiet => UNCHANGED <<Desc, Broken>>
<1> SUFFICES ASSUME Quiet PROVE UNCHANGED <<Desc, Broken>>
  OBVIOUS
<1>1. Broken' = Broken
  BY DEF Quiet, Broken
<1> QED
  BY <1>1 DEF Quiet, Desc

(* Every step of the goroutines is a step of the abstract root, or none.   *)
LEMMA StepRefines ==
  IInv /\ [Next]_vars => [Abstract!Next]_<<Desc, Broken>>
<1> SUFFICES ASSUME IInv, [Next]_vars PROVE [Abstract!Next]_<<Desc, Broken>>
  OBVIOUS
<1>a. IInv'
  BY InvNext
<1>b. DescFacts
  BY DescOf
<1>c. DescFacts'
  BY <1>a, DescOf, PTL
<1>1. ASSUME NEW p \in Procs, OpenCache(p)
      PROVE  [Abstract!Next]_<<Desc, Broken>>
  <2>1. Quiet
    BY <1>1, ThreadFacts
       DEF OpenCache, IInv, TypeOK, Goto, Lock, Unlock, Quiet, Appending,
           Writing, fileVars, workVars
  <2> QED
    BY <2>1, QuietStutters
<1>2. ASSUME NEW p \in Procs, NewLock(p)
      PROVE  [Abstract!Next]_<<Desc, Broken>>
  <2>1. Quiet
    BY <1>2, ThreadFacts
       DEF NewLock, IInv, TypeOK, Goto, Lock, Unlock, Quiet, Appending,
           Writing, fileVars, workVars
  <2> QED
    BY <2>1, QuietStutters
<1>3. ASSUME NEW p \in Procs, NewStat(p)
      PROVE  [Abstract!Next]_<<Desc, Broken>>
  <2>1. Quiet
    BY <1>3, ThreadFacts
       DEF NewStat, IInv, TypeOK, Goto, Lock, Unlock, Quiet, Appending,
           Writing, fileVars, workVars
  <2> QED
    BY <2>1, QuietStutters
<1>4. ASSUME NEW p \in Procs, NewTrunc(p)
      PROVE  [Abstract!Next]_<<Desc, Broken>>
  <2>0. Main(p) \in Threads
    BY ThreadFacts
  <2>1. pc[Main(p)] = "newTrunc" /\ pc'[Main(p)] = "newWrite"
    BY <1>4, <2>0 DEF NewTrunc, Goto, IInv, TypeOK
  <2>2. root' = root /\ ~torn
    BY <1>4, <2>0, <2>1 DEF NewTrunc, IInv, RootInv, KnowsRoot
  <2>3. ~Broken
    BY <2>0, <2>1, <2>2 DEF Broken, Writing
  <2>4. ~Broken'
    BY <2>0, <2>1, <2>2 DEF Broken, Writing
  <2>5. pc[Main(p)] \in Critical \ Appending /\ pc'[Main(p)] \in Critical \ Appending
    BY <2>1 DEF Critical, Changing, Appending
  <2>6. Desc = root
    BY <1>b, <2>0, <2>3, <2>5 DEF DescFacts
  <2>7. Desc' = root'
    BY <1>c, <2>0, <2>4, <2>5 DEF DescFacts
  <2>8. Broken' = Broken
    BY <2>3, <2>4 DEF Broken
  <2> QED
    BY <2>2, <2>6, <2>7, <2>8
<1>5. ASSUME NEW p \in Procs, NewWrite(p)
      PROVE  [Abstract!Next]_<<Desc, Broken>>
  <2>0. Main(p) \in Threads
    BY ThreadFacts
  <2>1. pc[Main(p)] = "newWrite" /\ pc'[Main(p)] = "newUnlock"
    BY <1>5, <2>0 DEF NewWrite, Goto, IInv, TypeOK
  <2>2. root = {} /\ root' = {} /\ ~torn'
    BY <1>5, <2>0, <2>1 DEF NewWrite, IInv, RootInv, KnowsRoot
  <2>3. ~Broken
    BY <2>0, <2>1, <2>2 DEF Broken, Writing
  <2>4. ~Broken'
    BY <2>0, <2>1, <2>2 DEF Broken, Writing
  <2>5. pc[Main(p)] \in Critical \ Appending /\ pc'[Main(p)] \in Critical \ Appending
    BY <2>1 DEF Critical, Changing, Appending
  <2>6. Desc = root
    BY <1>b, <2>0, <2>3, <2>5 DEF DescFacts
  <2>7. Desc' = root'
    BY <1>c, <2>0, <2>4, <2>5 DEF DescFacts
  <2>8. Broken' = Broken
    BY <2>3, <2>4 DEF Broken
  <2> QED
    BY <2>2, <2>6, <2>7, <2>8
<1>6. ASSUME NEW p \in Procs, NewUnlock(p)
      PROVE  [Abstract!Next]_<<Desc, Broken>>
  <2>1. Quiet
    BY <1>6, ThreadFacts
       DEF NewUnlock, IInv, TypeOK, Goto, Lock, Unlock, Quiet, Appending,
           Writing, fileVars, workVars
  <2> QED
    BY <2>1, QuietStutters
<1>7. ASSUME NEW p \in Procs, StartBuild(p)
      PROVE  [Abstract!Next]_<<Desc, Broken>>
  <2>1. Quiet
    BY <1>7, ThreadFacts
       DEF StartBuild, IInv, TypeOK, Goto, Lock, Unlock, Quiet, Appending,
           Writing, fileVars, workVars
  <2> QED
    BY <2>1, QuietStutters
<1>8. ASSUME NEW p \in Procs, Solve(p)
      PROVE  [Abstract!Next]_<<Desc, Broken>>
  <2>1. Quiet
    BY <1>8, ThreadFacts
       DEF Solve, IInv, TypeOK, Goto, Lock, Unlock, Quiet, Appending,
           Writing, fileVars, workVars
  <2> QED
    BY <2>1, QuietStutters
<1>9. ASSUME NEW p \in Procs, Receive(p)
      PROVE  [Abstract!Next]_<<Desc, Broken>>
  <2>1. Quiet
    BY <1>9, ThreadFacts
       DEF Receive, IInv, TypeOK, Goto, Lock, Unlock, Quiet, Appending,
           Writing, fileVars, workVars
  <2> QED
    BY <2>1, QuietStutters
<1>10. ASSUME NEW p \in Procs, BuildDone(p)
      PROVE  [Abstract!Next]_<<Desc, Broken>>
  <2>1. Quiet
    BY <1>10, ThreadFacts
       DEF BuildDone, IInv, TypeOK, Goto, Lock, Unlock, Quiet, Appending,
           Writing, fileVars, workVars
  <2> QED
    BY <2>1, QuietStutters
<1>11. ASSUME NEW p \in Procs, Die(p)
      PROVE  [Abstract!Next]_<<Desc, Broken>>
  <2>1. \A u \in Threads : pc'[u] = IF u[1] = p THEN "dead" ELSE pc[u]
    BY SMTT(30), <1>11, ThreadFacts DEF Die, IInv, TypeOK
  <2>2. \A u \in Threads : u[1] # p => orig'[u] = orig[u]
    BY <1>11, ThreadFacts DEF Die, IInv, TypeOK
  <2>3. UNCHANGED <<root, torn>>
    BY <1>11 DEF Die, fileVars
  <2>4. RootExclusive
    BY Exclusive DEF IInv
  <2>5. CASE \E t \in Threads : t[1] = p /\ pc[t] \in Appending \cup Writing
    <3>1. PICK t \in Threads : t[1] = p /\ pc[t] \in Appending \cup Writing
      BY <2>5
    <3>2. \A u \in Threads : pc'[u] \notin Critical
      BY <2>1, <2>4, <3>1
         DEF RootExclusive, Appending, Writing, Critical, Changing
    <3>3. Broken' = torn /\ Desc' = IF torn THEN {} ELSE root
      BY <2>3, <3>2
         DEF Broken, Desc, Appending, Writing, Critical, Changing, IInv,
             TypeOK
    <3>4. CASE pc[t] \in Writing
      <4>1. torn /\ ~Broken
        BY <3>4, <1>b DEF DescFacts, IInv, RootInv, KnowsRoot
      <4>2. Abstract!DieWriting
        BY <3>3, <4>1 DEF Abstract!DieWriting
      <4> QED
        BY <4>2 DEF Abstract!Next
    <3>5. CASE pc[t] \in Appending \ Writing
      <4>1. ~torn /\ ~Broken /\ Desc = orig[t] /\ root =
         Without(orig[t], cur[t].name)
        BY <3>5, <1>b
           DEF DescFacts, IInv, RootInv, KnowsRoot, Appending, Writing
      <4>2. cur[t].name \in Names
        BY <3>5 DEF IInv, TypeOK, Changing, Appending, Descriptors
      <4>3. Abstract!Unset(cur[t].name)
        BY <3>3, <4>1 DEF Abstract!Unset, Abstract!Without, Without, Broken
      <4> QED
        BY <4>2, <4>3 DEF Abstract!Next
    <3> QED
      BY <3>1, <3>4, <3>5
  <2>6. CASE ~ \E t \in Threads : t[1] = p /\ pc[t] \in Appending \cup Writing
    <3>1. Quiet
      BY <2>1, <2>2, <2>3, <2>6 DEF Quiet, Appending, Writing
    <3> QED
      BY <3>1, QuietStutters
  <2> QED
    BY <2>5, <2>6
<1>12. ASSUME NEW p \in Procs, NEW j \in Jobs, NEW l \in Places, Start(p, j,
   l)
      PROVE  [Abstract!Next]_<<Desc, Broken>>
  <2>1. Quiet
    BY <1>12, ThreadFacts
       DEF Start, FirstPlaces, Jobs, IInv, TypeOK, Goto, Lock, Unlock,
           Quiet, Appending, Writing, fileVars, workVars
  <2> QED
    BY <2>1, QuietStutters
<1>13. ASSUME NEW t \in Threads, IxLock(t)
      PROVE  [Abstract!Next]_<<Desc, Broken>>
  <2>1. Quiet
    BY <1>13, ThreadFacts
       DEF IxLock, IInv, TypeOK, Goto, Lock, Unlock, Quiet, Appending,
           Writing, fileVars, workVars
  <2> QED
    BY <2>1, QuietStutters
<1>14. ASSUME NEW t \in Threads, IxRead(t)
      PROVE  [Abstract!Next]_<<Desc, Broken>>
  <2>1. Quiet
    BY <1>14, ThreadFacts
       DEF IxRead, IInv, TypeOK, Goto, Lock, Unlock, Quiet, Appending,
           Writing, fileVars, workVars
  <2> QED
    BY <2>1, QuietStutters
<1>15. ASSUME NEW t \in Threads, OutLock(t)
      PROVE  [Abstract!Next]_<<Desc, Broken>>
  <2>1. Quiet
    BY <1>15, ThreadFacts
       DEF OutLock, IInv, TypeOK, Goto, Lock, Unlock, Quiet, Appending,
           Writing, fileVars, workVars
  <2> QED
    BY <2>1, QuietStutters
<1>16. ASSUME NEW t \in Threads, OutUnlock(t)
      PROVE  [Abstract!Next]_<<Desc, Broken>>
  <2>1. Quiet
    BY <1>16, ThreadFacts
       DEF OutUnlock, Return, Home, IInv, TypeOK, Goto, Lock, Unlock, Quiet,
           Appending, Writing, fileVars, workVars
  <2> QED
    BY <2>1, QuietStutters
<1>17. ASSUME NEW t \in Threads, RmRead(t)
      PROVE  [Abstract!Next]_<<Desc, Broken>>
  <2>1. Quiet
    BY <1>17, ThreadFacts
       DEF RmRead, ReadRoot, IInv, TypeOK, Goto, Lock, Unlock, Quiet,
           Appending, Writing, fileVars, workVars
  <2> QED
    BY <2>1, QuietStutters
<1>18. ASSUME NEW t \in Threads, Truncate(t)
      PROVE  [Abstract!Next]_<<Desc, Broken>>
  <2>1. ~Broken /\ ~Broken'
    BY <1>18, <1>b, <1>c, ThreadFacts
       DEF Truncate, IInv, TypeOK, RootInv, KnowsRoot, DescFacts, Goto,
           Appending, Writing, Critical, Changing, workVars
  <2>2. Desc' = Desc
    BY SMTT(30), <1>18, <2>1, <1>b, <1>c, ThreadFacts
       DEF Truncate, IInv, TypeOK, RootInv, KnowsRoot, DescFacts, Goto,
           Appending, Writing, Critical, Changing, workVars
  <2> QED
    BY <2>1, <2>2 DEF Broken
<1>19. ASSUME NEW t \in Threads, RmWrite(t)
      PROVE  [Abstract!Next]_<<Desc, Broken>>
  <2>1. cur[t] \in Descriptors /\ cur[t].name \in Names
    BY <1>19 DEF RmWrite, IInv, TypeOK, Changing, Descriptors
  <2>2. Desc = root /\ ~Broken /\ snap[t] = root /\ orig[t] = root
    BY <1>19, <1>b
       DEF RmWrite, DescFacts, IInv, RootInv, KnowsRoot, Appending, Writing,
           Critical, Changing
  <2>3. CASE job[t] = "remove"
    <3>1. pc'[t] = "dwUnlock"
      BY <1>19, <2>3 DEF RmWrite, Goto, IInv, TypeOK
    <3>2. Desc' = root' /\ ~Broken'
      BY <1>19, <1>c, <3>1
         DEF RmWrite, DescFacts, Appending, Writing, Critical
    <3>3. Abstract!Unset(cur[t].name)
      BY <1>19, <2>2, <3>2
         DEF RmWrite, Abstract!Unset, Abstract!Without, Without, Broken
    <3> QED
      BY <2>1, <3>3 DEF Abstract!Next
  <2>4. CASE job[t] # "remove"
    <3>1. pc'[t] = "apRead"
      BY <1>19, <2>4 DEF RmWrite, Goto, IInv, TypeOK
    <3>2. Desc' = orig'[t] /\ ~Broken'
      BY <1>c, <3>1 DEF DescFacts, Appending
    <3> QED
      BY <1>19, <2>2, <3>2 DEF RmWrite, workVars, Broken
  <2> QED
    BY <2>3, <2>4
<1>20. ASSUME NEW t \in Threads, ApRead(t)
      PROVE  [Abstract!Next]_<<Desc, Broken>>
  <2>1. Quiet
    BY <1>20, ThreadFacts
       DEF ApRead, ReadRoot, RootInv, KnowsRoot, IInv, TypeOK, Goto, Lock,
           Unlock, Quiet, Appending, Writing, fileVars, workVars
  <2> QED
    BY <2>1, QuietStutters
<1>21. ASSUME NEW t \in Threads, ApWrite(t)
      PROVE  [Abstract!Next]_<<Desc, Broken>>
  <2>1. cur[t] \in Descriptors
    BY <1>21 DEF ApWrite, IInv, TypeOK, Changing
  <2>2. Desc = orig[t] /\ ~Broken /\ snap[t] = Without(orig[t], cur[t].name)
    BY <1>21, <1>b DEF ApWrite, DescFacts, IInv, RootInv, KnowsRoot, Appending
  <2>3. pc'[t] = "dwUnlock"
    BY <1>21 DEF ApWrite, Goto, IInv, TypeOK
  <2>4. Desc' = root' /\ ~Broken'
    BY <1>21, <1>c, <2>3 DEF ApWrite, DescFacts, Appending, Writing, Critical
  <2>5. Abstract!Set(cur[t])
    BY <1>21, <2>2, <2>4
       DEF ApWrite, Abstract!Set, Abstract!Without, Without, Broken
  <2> QED
    BY <2>1, <2>5 DEF Abstract!Next, Abstract!Descriptors, Descriptors
<1>22. ASSUME NEW t \in Threads, NEW l \in Places, IxUnlock(t, l)
      PROVE  [Abstract!Next]_<<Desc, Broken>>
  <2>1. Quiet
    BY <1>22, ThreadFacts
       DEF IxUnlock, AfterIndex, Return, Home, IInv, TypeOK, Goto, Lock,
           Unlock, Quiet, Appending, Writing, fileVars, workVars
  <2> QED
    BY <2>1, QuietStutters
<1>23. ASSUME NEW t \in Threads, NEW l \in Places, Work(t, l)
      PROVE  [Abstract!Next]_<<Desc, Broken>>
  <2>1. Quiet
    BY <1>23, ThreadFacts
       DEF Work, IInv, TypeOK, Goto, Lock, Unlock, Quiet, Appending,
           Writing, fileVars, workVars
  <2> QED
    BY <2>1, QuietStutters
<1>24. ASSUME NEW t \in Threads, NEW e \in Descriptors, DwLock(t, e)
      PROVE  [Abstract!Next]_<<Desc, Broken>>
  <2>1. Quiet
    BY <1>24, ThreadFacts
       DEF DwLock, IInv, TypeOK, Goto, Lock, Unlock, Quiet, Appending,
           Writing, fileVars, workVars
  <2> QED
    BY <2>1, QuietStutters
<1>25. ASSUME NEW t \in Threads, NEW l \in Places, DwUnlock(t, l)
      PROVE  [Abstract!Next]_<<Desc, Broken>>
  <2>1. Quiet
    BY <1>25, ThreadFacts
       DEF DwUnlock, AfterWrite, Return, Home, IInv, TypeOK, Goto, Lock,
           Unlock, Quiet, Appending, Writing, fileVars, workVars
  <2> QED
    BY <2>1, QuietStutters
<1>26. ASSUME UNCHANGED vars
      PROVE  [Abstract!Next]_<<Desc, Broken>>
  <2>1. Quiet
    BY <1>26, ThreadFacts
       DEF vars, IInv, TypeOK, Goto, Lock, Unlock, Quiet, Appending,
           Writing, fileVars, workVars
  <2> QED
    BY <2>1, QuietStutters
<1> QED
  BY <1>1, <1>2, <1>3, <1>4, <1>5, <1>6, <1>7, <1>8, <1>9, <1>10, <1>11,
     <1>12, <1>13, <1>14, <1>15, <1>16, <1>17, <1>18, <1>19, <1>20, <1>21,
     <1>22, <1>23, <1>24, <1>25, <1>26
     DEF Next, ProcStep, ThreadStep

(* The root index that several processes read and write in place is the    *)
(* atomic store of DescriptorStore, whoever dies when.                     *)
THEOREM Refinement == Spec => Refines
<1>1. Init => Abstract!Init
  BY DEF Init, Abstract!Init, Desc, Broken, Appending
<1> QED
  BY <1>1, Invariance, StepRefines, PTL DEF Spec, Refines, Abstract!Spec

=============================================================================
