--------------------------- MODULE ServicesProofs ---------------------------
(***************************************************************************)
(* Proofs about Services, for any services and any number of commands:     *)
(* types, that no task outlives its container, and that a process runs     *)
(* prepared unless the command that started it had lost its own.           *)
(***************************************************************************)
EXTENDS Services, TLAPS

(* What containerd holds at boot satisfies the invariant.                  *)
LEMMA InitInv == Init => IInv
<1> SUFFICES ASSUME Init PROVE IInv
  OBVIOUS
<1>1. TypeOK
  BY ProcsAssumption, ServicesAssumption DEF Init, TypeOK, Procs, Places, CleaningUp, NoTask
<1>2. TaskHasContainer /\ PreparedBeforeRun /\ PreparedInv
  BY ProcsAssumption
     DEF Init, TaskHasContainer, PreparedBeforeRun, PreparedInv, Procs, NoTask
<1>3. ContainerInv
  BY ProcsAssumption DEF Init, ContainerInv, Holding, Procs, CleaningUp
<1> QED
  BY <1>1, <1>2, <1>3 DEF IInv

(* Every step keeps the variables in their types.                          *)
LEMMA TypeNext == TypeOK /\ [Next]_vars => TypeOK'
<1> SUFFICES ASSUME TypeOK, [Next]_vars PROVE TypeOK'
  OBVIOUS
<1> USE ProcsAssumption
    DEF TypeOK, Goto, Call, End, SetTask, Forget, taskVars, Procs, Places,
        CleaningUp, NoTask, Alive, Without, AfterNewTask, Deletable
<1>1. ASSUME NEW p \in Procs, PrepareFilesystem(p)
      PROVE  TypeOK'
  BY <1>1 DEF PrepareFilesystem
<1>2. ASSUME NEW p \in Procs, NewContainer(p)
      PROVE  TypeOK'
  BY <1>2 DEF NewContainer
<1>3. ASSUME NEW p \in Procs, NewTask(p)
      PROVE  TypeOK'
  BY <1>3 DEF NewTask
<1>4. ASSUME NEW p \in Procs, PrepareProcess(p)
      PROVE  TypeOK'
  BY <1>4 DEF PrepareProcess
<1>5. ASSUME NEW p \in Procs, Start(p)
      PROVE  TypeOK'
  BY <1>5 DEF Start
<1>6. ASSUME NEW p \in Procs, LoadContainer(p)
      PROVE  TypeOK'
  BY <1>6 DEF LoadContainer
<1>7. ASSUME NEW p \in Procs, GetTask(p)
      PROVE  TypeOK'
  BY <1>7 DEF GetTask
<1>8. ASSUME NEW p \in Procs, Kill(p)
      PROVE  TypeOK'
  BY <1>8 DEF Kill
<1>9. ASSUME NEW p \in Procs, DeleteTask(p)
      PROVE  TypeOK'
  BY <1>9 DEF DeleteTask
<1>10. ASSUME NEW p \in Procs, CheckTask(p)
      PROVE  TypeOK'
  BY <1>10 DEF CheckTask
<1>11. ASSUME NEW p \in Procs, DeleteContainer(p)
      PROVE  TypeOK'
  BY <1>11 DEF DeleteContainer
<1>12. ASSUME StartContainerd
      PROVE  TypeOK'
  BY <1>12 DEF StartContainerd
<1>13. ASSUME ReadServices
      PROVE  TypeOK'
  BY <1>13 DEF ReadServices
<1>14. ASSUME InitDone
      PROVE  TypeOK'
  BY <1>14 DEF InitDone
<1>15. ASSUME CleanDelete
      PROVE  TypeOK'
  BY <1>15 DEF CleanDelete
<1>16. ASSUME CleanKill
      PROVE  TypeOK'
  BY <1>16 DEF CleanKill
<1>17. ASSUME CleanKillFails
      PROVE  TypeOK'
  BY <1>17 DEF CleanKillFails
<1>18. ASSUME CleanCheck
      PROVE  TypeOK'
  BY <1>18 DEF CleanCheck
<1>19. ASSUME CleanContainer
      PROVE  TypeOK'
  BY <1>19 DEF CleanContainer
<1>20. ASSUME NEW s \in Services, Clean(s)
      PROVE  TypeOK'
  BY <1>20 DEF Clean
<1>21. ASSUME NEW s \in Services, NextService(s)
      PROVE  TypeOK'
  BY <1>21 DEF NextService
<1>22. ASSUME NEW s \in Services, Exit(s)
      PROVE  TypeOK'
  BY <1>22 DEF Exit
<1>23. ASSUME NEW s \in Services, LateDelete(s)
      PROVE  TypeOK'
  BY <1>23 DEF LateDelete
<1>24. ASSUME NEW u \in Users, NEW c \in {"start", "stop", "restart"}, NEW s \in Services,
             Command(u, c, s)
      PROVE  TypeOK'
  BY <1>24 DEF Command
<1>25. CASE UNCHANGED vars
  BY <1>25 DEF vars
<1> HIDE
    DEF TypeOK, Goto, Call, End, SetTask, Forget, taskVars, Procs, Places,
        CleaningUp, NoTask, Alive, Without, AfterNewTask, Deletable
<1> QED
  BY <1>1, <1>2, <1>3, <1>4, <1>5, <1>6, <1>7, <1>8, <1>9, <1>10, <1>11,
     <1>12, <1>13, <1>14, <1>15, <1>16, <1>17, <1>18, <1>19, <1>20, <1>21,
     <1>22, <1>23, <1>24, <1>25 DEF Next, Step, InitStep

(* No step makes two commands act on one container, or leaves a task       *)
(* without its container.                                                  *)
LEMMA ContainerNext ==
  TypeOK /\ TypeOK' /\ TaskHasContainer /\ ContainerInv /\ [Next]_vars
    => TaskHasContainer' /\ ContainerInv'
<1> SUFFICES ASSUME TypeOK, TypeOK', TaskHasContainer, ContainerInv, [Next]_vars
             PROVE  TaskHasContainer' /\ ContainerInv'
  OBVIOUS
<1> USE ProcsAssumption
    DEF TypeOK, TaskHasContainer, ContainerInv, Holding, Goto, Call, End, SetTask, Forget,
        taskVars, Procs, CleaningUp, NoTask, Alive, AfterNewTask, Deletable
<1>1. ASSUME NEW p \in Procs, PrepareFilesystem(p)
      PROVE  TaskHasContainer' /\ ContainerInv'
  BY <1>1 DEF PrepareFilesystem
<1>2. ASSUME NEW p \in Procs, NewContainer(p)
      PROVE  TaskHasContainer' /\ ContainerInv'
  BY SMTT(30), <1>2 DEF NewContainer
<1>3. ASSUME NEW p \in Procs, NewTask(p)
      PROVE  TaskHasContainer' /\ ContainerInv'
  BY <1>3 DEF NewTask
<1>4. ASSUME NEW p \in Procs, PrepareProcess(p)
      PROVE  TaskHasContainer' /\ ContainerInv'
  BY SMTT(30), <1>4 DEF PrepareProcess
<1>5. ASSUME NEW p \in Procs, Start(p)
      PROVE  TaskHasContainer' /\ ContainerInv'
  BY SMTT(30), <1>5 DEF Start
<1>6. ASSUME NEW p \in Procs, LoadContainer(p)
      PROVE  TaskHasContainer' /\ ContainerInv'
  BY <1>6 DEF LoadContainer
<1>7. ASSUME NEW p \in Procs, GetTask(p)
      PROVE  TaskHasContainer' /\ ContainerInv'
  BY SMTT(30), <1>7 DEF GetTask
<1>8. ASSUME NEW p \in Procs, Kill(p)
      PROVE  TaskHasContainer' /\ ContainerInv'
  BY SMTT(30), <1>8 DEF Kill
<1>9. ASSUME NEW p \in Procs, DeleteTask(p)
      PROVE  TaskHasContainer' /\ ContainerInv'
  BY SMTT(30), <1>9 DEF DeleteTask
<1>10. ASSUME NEW p \in Procs, CheckTask(p)
      PROVE  TaskHasContainer' /\ ContainerInv'
  BY SMTT(30), <1>10 DEF CheckTask
<1>11. ASSUME NEW p \in Procs, DeleteContainer(p)
      PROVE  TaskHasContainer' /\ ContainerInv'
  BY SMTT(30), <1>11 DEF DeleteContainer
<1>12. ASSUME StartContainerd
      PROVE  TaskHasContainer' /\ ContainerInv'
  BY SMTT(30), <1>12 DEF StartContainerd
<1>13. ASSUME ReadServices
      PROVE  TaskHasContainer' /\ ContainerInv'
  BY <1>13 DEF ReadServices
<1>14. ASSUME InitDone
      PROVE  TaskHasContainer' /\ ContainerInv'
  BY <1>14 DEF InitDone
<1>15. ASSUME CleanDelete
      PROVE  TaskHasContainer' /\ ContainerInv'
  BY SMTT(30), <1>15 DEF CleanDelete
<1>16. ASSUME CleanKill
      PROVE  TaskHasContainer' /\ ContainerInv'
  BY SMTT(30), <1>16 DEF CleanKill
<1>17. ASSUME CleanKillFails
      PROVE  TaskHasContainer' /\ ContainerInv'
  BY SMTT(30), <1>17 DEF CleanKillFails
<1>18. ASSUME CleanCheck
      PROVE  TaskHasContainer' /\ ContainerInv'
  BY SMTT(30), <1>18 DEF CleanCheck
<1>19. ASSUME CleanContainer
      PROVE  TaskHasContainer' /\ ContainerInv'
  BY <1>19 DEF CleanContainer
<1>20. ASSUME NEW s \in Services, Clean(s)
      PROVE  TaskHasContainer' /\ ContainerInv'
  BY <1>20 DEF Clean
<1>21. ASSUME NEW s \in Services, NextService(s)
      PROVE  TaskHasContainer' /\ ContainerInv'
  BY <1>21 DEF NextService
<1>22. ASSUME NEW s \in Services, Exit(s)
      PROVE  TaskHasContainer' /\ ContainerInv'
  BY SMTT(30), <1>22 DEF Exit
<1>23. ASSUME NEW s \in Services, LateDelete(s)
      PROVE  TaskHasContainer' /\ ContainerInv'
  BY SMTT(30), <1>23 DEF LateDelete
<1>24. ASSUME NEW u \in Users, NEW c \in {"start", "stop", "restart"}, NEW s \in Services,
             Command(u, c, s)
      PROVE  TaskHasContainer' /\ ContainerInv'
  BY SMTT(30), <1>24 DEF Command
<1>25. CASE UNCHANGED vars
  BY SMTT(30), <1>25 DEF vars
<1> HIDE
    DEF TypeOK, TaskHasContainer, ContainerInv, Holding, Goto, Call, End, SetTask, Forget,
        taskVars, Procs, CleaningUp, NoTask, Alive, AfterNewTask, Deletable
<1> QED
  BY <1>1, <1>2, <1>3, <1>4, <1>5, <1>6, <1>7, <1>8, <1>9, <1>10, <1>11,
     <1>12, <1>13, <1>14, <1>15, <1>16, <1>17, <1>18, <1>19, <1>20, <1>21,
     <1>22, <1>23, <1>24, <1>25 DEF Next, Step, InitStep

(* No step lets a command start the process it made without preparing it.  *)
LEMMA PreparedNext ==
  TypeOK /\ TypeOK' /\ PreparedBeforeRun /\ PreparedInv /\ [Next]_vars
    => PreparedBeforeRun' /\ PreparedInv'
<1> SUFFICES ASSUME TypeOK, TypeOK', PreparedBeforeRun, PreparedInv, [Next]_vars
             PROVE  PreparedBeforeRun' /\ PreparedInv'
  OBVIOUS
<1> USE ProcsAssumption
    DEF TypeOK, PreparedBeforeRun, PreparedInv, Goto, Call, End, SetTask, Forget,
        taskVars, Procs, NoTask, Alive, AfterNewTask, Deletable
<1>1. ASSUME NEW p \in Procs, PrepareFilesystem(p)
      PROVE  PreparedBeforeRun' /\ PreparedInv'
  BY <1>1 DEF PrepareFilesystem
<1>2. ASSUME NEW p \in Procs, NewContainer(p)
      PROVE  PreparedBeforeRun' /\ PreparedInv'
  BY <1>2 DEF NewContainer
<1>3. ASSUME NEW p \in Procs, NewTask(p)
      PROVE  PreparedBeforeRun' /\ PreparedInv'
  BY SMTT(30), <1>3 DEF NewTask
<1>4. ASSUME NEW p \in Procs, PrepareProcess(p)
      PROVE  PreparedBeforeRun' /\ PreparedInv'
  BY SMTT(30), <1>4 DEF PrepareProcess
<1>5. ASSUME NEW p \in Procs, Start(p)
      PROVE  PreparedBeforeRun' /\ PreparedInv'
  BY <1>5 DEF Start
<1>6. ASSUME NEW p \in Procs, LoadContainer(p)
      PROVE  PreparedBeforeRun' /\ PreparedInv'
  BY SMTT(30), <1>6 DEF LoadContainer
<1>7. ASSUME NEW p \in Procs, GetTask(p)
      PROVE  PreparedBeforeRun' /\ PreparedInv'
  BY <1>7 DEF GetTask
<1>8. ASSUME NEW p \in Procs, Kill(p)
      PROVE  PreparedBeforeRun' /\ PreparedInv'
  BY SMTT(30), <1>8 DEF Kill
<1>9. ASSUME NEW p \in Procs, DeleteTask(p)
      PROVE  PreparedBeforeRun' /\ PreparedInv'
  BY <1>9 DEF DeleteTask
<1>10. ASSUME NEW p \in Procs, CheckTask(p)
      PROVE  PreparedBeforeRun' /\ PreparedInv'
  BY <1>10 DEF CheckTask
<1>11. ASSUME NEW p \in Procs, DeleteContainer(p)
      PROVE  PreparedBeforeRun' /\ PreparedInv'
  BY <1>11 DEF DeleteContainer
<1>12. ASSUME StartContainerd
      PROVE  PreparedBeforeRun' /\ PreparedInv'
  BY <1>12 DEF StartContainerd
<1>13. ASSUME ReadServices
      PROVE  PreparedBeforeRun' /\ PreparedInv'
  BY <1>13 DEF ReadServices
<1>14. ASSUME InitDone
      PROVE  PreparedBeforeRun' /\ PreparedInv'
  BY <1>14 DEF InitDone
<1>15. ASSUME CleanDelete
      PROVE  PreparedBeforeRun' /\ PreparedInv'
  BY <1>15 DEF CleanDelete
<1>16. ASSUME CleanKill
      PROVE  PreparedBeforeRun' /\ PreparedInv'
  BY <1>16 DEF CleanKill
<1>17. ASSUME CleanKillFails
      PROVE  PreparedBeforeRun' /\ PreparedInv'
  BY <1>17 DEF CleanKillFails
<1>18. ASSUME CleanCheck
      PROVE  PreparedBeforeRun' /\ PreparedInv'
  BY <1>18 DEF CleanCheck
<1>19. ASSUME CleanContainer
      PROVE  PreparedBeforeRun' /\ PreparedInv'
  BY <1>19 DEF CleanContainer
<1>20. ASSUME NEW s \in Services, Clean(s)
      PROVE  PreparedBeforeRun' /\ PreparedInv'
  BY <1>20 DEF Clean
<1>21. ASSUME NEW s \in Services, NextService(s)
      PROVE  PreparedBeforeRun' /\ PreparedInv'
  BY <1>21 DEF NextService
<1>22. ASSUME NEW s \in Services, Exit(s)
      PROVE  PreparedBeforeRun' /\ PreparedInv'
  BY <1>22 DEF Exit
<1>23. ASSUME NEW s \in Services, LateDelete(s)
      PROVE  PreparedBeforeRun' /\ PreparedInv'
  BY SMTT(30), <1>23 DEF LateDelete
<1>24. ASSUME NEW u \in Users, NEW c \in {"start", "stop", "restart"}, NEW s \in Services,
             Command(u, c, s)
      PROVE  PreparedBeforeRun' /\ PreparedInv'
  BY <1>24 DEF Command
<1>25. CASE UNCHANGED vars
  BY <1>25 DEF vars
<1> HIDE
    DEF TypeOK, PreparedBeforeRun, PreparedInv, Goto, Call, End, SetTask, Forget,
        taskVars, Procs, NoTask, Alive, AfterNewTask, Deletable
<1> QED
  BY <1>1, <1>2, <1>3, <1>4, <1>5, <1>6, <1>7, <1>8, <1>9, <1>10, <1>11,
     <1>12, <1>13, <1>14, <1>15, <1>16, <1>17, <1>18, <1>19, <1>20, <1>21,
     <1>22, <1>23, <1>24, <1>25 DEF Next, Step, InitStep

(* The invariant holds in every reachable state.                           *)
THEOREM Invariant == Spec => []IInv
<1>1. IInv /\ [Next]_vars => IInv'
  BY TypeNext, ContainerNext, PreparedNext DEF IInv
<1> QED
  BY <1>1, InitInv, PTL DEF Spec

(* Types, and no service without a task bears the mark of an earlier one.  *)
THEOREM TypeCorrect == Spec => []TypeOK
<1>1. IInv => TypeOK
  BY DEF IInv
<1> QED
  BY <1>1, Invariant, PTL

(* No task outlives its container, however many commands overlap.          *)
THEOREM NoOrphanTask == Spec => []TaskHasContainer
<1>1. IInv => TaskHasContainer
  BY DEF IInv
<1> QED
  BY <1>1, Invariant, PTL

(* A process runs only after prepareProcess, unless the command that       *)
(* started it is not the one that made it.                                 *)
THEOREM PreparedFirst == Spec => []PreparedBeforeRun
<1>1. IInv => PreparedBeforeRun
  BY DEF IInv
<1> QED
  BY <1>1, Invariant, PTL
=============================================================================
