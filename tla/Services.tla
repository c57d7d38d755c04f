------------------------------- MODULE Services -------------------------------
(***************************************************************************)
(* The service containers of a LinuxKit system (pkg/init/cmd/service):     *)
(* system-init, which at boot clears away what an earlier boot has left in *)
(* containerd and starts every service, and the start, stop and restart    *)
(* commands of users, who come from services that are already running.     *)
(* Each call to containerd is a step.  containerd knows a container, and   *)
(* its task, by the name of the service; that is all a command's handle on *)
(* them amounts to, but for the pid that prepareProcess is given.          *)
(***************************************************************************)
CONSTANTS
  Services,     \* the names in /containers/services
  Users,        \* commands that may run at the same time
  SystemInit,   \* the system-init command
  Nobody

ASSUME ProcsAssumption == SystemInit \notin Users /\ Nobody \notin Users \cup {SystemInit}
ASSUME ServicesAssumption == Services # {}

VARIABLES
  ctr,       \* containerd's container of a service: absent or present
  task,      \* the state of its task
  killed,    \* a service's task has been sent SIGKILL: no or yes
  prepared,  \* prepareProcess was done for the task: no or yes
  maker,     \* the command that created the task (history)
  starter,   \* the command that started it (history)
  pc,        \* place of each command
  restart,   \* the commands that stop a service to start it again
  svc,       \* the service it is about
  todo,      \* services system-init has still to clean up, or to start
  late       \* services with a delete that cleanupTask did not wait for

vars == <<ctr, task, killed, prepared, maker, starter, pc, restart, svc, todo, late>>

Procs    == Users \cup {SystemInit}
NoTask   == "none"
Alive    == {"created", "running"}
taskVars == <<task, killed, prepared, maker, starter>>

(* At boot containerd may have containers of an earlier boot, and tasks.   *)
Init ==
  /\ ctr \in [Services -> {"absent", "present"}]
  /\ task \in [Services -> {NoTask, "created", "running", "stopped"}]
  /\ \A s \in Services : ctr[s] = "absent" => task[s] = NoTask
  /\ killed = [s \in Services |-> "no"]
  /\ prepared = [s \in Services |-> IF task[s] = "running" THEN "yes" ELSE "no"]
  /\ maker = [s \in Services |-> Nobody]
  /\ starter = [s \in Services |-> Nobody]
  /\ pc = [p \in Procs |-> IF p = SystemInit THEN "boot" ELSE "idle"]
  /\ restart = {}
  /\ svc = [p \in Procs |-> CHOOSE s \in Services : TRUE]   \* not yet used
  /\ todo = {}
  /\ late = {}
-----------------------------------------------------------------------------
Goto(p, l) == pc' = [pc EXCEPT ![p] = l]

(* The command goes on to the next call, or it ends, well or with an error *)
(* (system-init then turns to its next service).                           *)
Call(p, from, to) ==
  /\ pc[p] = from
  /\ Goto(p, to)
  /\ restart' = IF to \in {"idle", "prepareFs"} THEN restart \ {p} ELSE restart
  /\ UNCHANGED <<svc, todo, late>>

End(p, from) == Call(p, from, IF p = SystemInit THEN "next" ELSE "idle")

SetTask(s, t) == task' = [task EXCEPT ![s] = t]
-----------------------------------------------------------------------------
(* Faulty variants: a process that is started before it is prepared, a     *)
(* container that is deleted with its task, a service system-init forgets  *)
(* to tick off.                                                            *)
HastyPlace       == "startTask"
RashDeletable(s) == TRUE
Untick(s)        == todo
-----------------------------------------------------------------------------
(* start: prepareFilesystem, NewContainer, NewTask, prepareProcess, Start. *)
(* Whatever fails leaves behind what was made before.                      *)

PrepareFilesystem(p) ==
  /\ Call(p, "prepareFs", "newContainer") \/ End(p, "prepareFs")
  /\ UNCHANGED <<ctr, taskVars>>

NewContainer(p) ==
  /\ \/ /\ ctr[svc[p]] = "absent"
        /\ Call(p, "newContainer", "newTask")
        /\ ctr' = [ctr EXCEPT ![svc[p]] = "present"]
     \/ End(p, "newContainer") /\ UNCHANGED ctr
  /\ UNCHANGED taskVars

(* What follows NewTask.                                                   *)
AfterNewTask == "prepareProcess"

NewTask(p) ==
  /\ \/ /\ ctr[svc[p]] = "present" /\ task[svc[p]] = NoTask
        /\ Call(p, "newTask", AfterNewTask)
        /\ SetTask(svc[p], "created")
        /\ maker' = [maker EXCEPT ![svc[p]] = p]
     \/ End(p, "newTask") /\ UNCHANGED <<task, maker>>
  /\ UNCHANGED <<ctr, killed, prepared, starter>>

(* If the task it created is gone, a command with nothing to prepare does  *)
(* not notice.                                                             *)
PrepareProcess(p) ==
  /\ \/ /\ Call(p, "prepareProcess", "startTask")
        /\ prepared' = [prepared EXCEPT ![svc[p]] = IF maker[svc[p]] = p THEN "yes" ELSE @]
     \/ End(p, "prepareProcess") /\ UNCHANGED prepared
  /\ UNCHANGED <<ctr, task, killed, maker, starter>>

Start(p) ==
  /\ \/ /\ task[svc[p]] = "created"
        /\ End(p, "startTask")
        /\ SetTask(svc[p], "running")
        /\ starter' = [starter EXCEPT ![svc[p]] = p]
     \/ End(p, "startTask") /\ UNCHANGED <<task, starter>>
  /\ UNCHANGED <<ctr, killed, prepared, maker>>
-----------------------------------------------------------------------------
(* stop: LoadContainer, Task, Kill, Delete, and Delete of the container.   *)
(* Wait returns a channel at once, and stop does not receive from it.      *)

LoadContainer(p) ==
  /\ \/ ctr[svc[p]] = "present" /\ Call(p, "load", "getTask")
     \/ End(p, "load")
  /\ UNCHANGED <<ctr, taskVars>>

GetTask(p) ==
  /\ \/ task[svc[p]] # NoTask /\ Call(p, "getTask", "kill")
     \/ End(p, "getTask")
  /\ UNCHANGED <<ctr, taskVars>>

Kill(p) ==
  /\ \/ /\ task[svc[p]] \in Alive
        /\ Call(p, "kill", "deleteTask")
        /\ killed' = [killed EXCEPT ![svc[p]] = "yes"]
     \/ End(p, "kill") /\ UNCHANGED killed
  /\ UNCHANGED <<ctr, task, prepared, maker, starter>>

(* Only a stopped task can be deleted.                                     *)
Forget(s) ==
  /\ task[s] = "stopped"
  /\ SetTask(s, NoTask)
  /\ killed' = [killed EXCEPT ![s] = "no"]
  /\ prepared' = [prepared EXCEPT ![s] = "no"]
  /\ maker' = [maker EXCEPT ![s] = Nobody]
  /\ starter' = [starter EXCEPT ![s] = Nobody]

DeleteTask(p) ==
  /\ \/ Forget(svc[p]) /\ Call(p, "deleteTask", "checkTask")
     \/ End(p, "deleteTask") /\ UNCHANGED taskVars
  /\ UNCHANGED ctr

(* Delete of a container asks for its task and, if there is none, deletes. *)
Deletable(s) == task[s] = NoTask

CheckTask(p) ==
  /\ \/ Deletable(svc[p]) /\ Call(p, "checkTask", "deleteContainer")
     \/ End(p, "checkTask")
  /\ UNCHANGED <<ctr, taskVars>>

DeleteContainer(p) ==
  /\ \/ /\ \/ p \in restart /\ Call(p, "deleteContainer", "prepareFs")
           \/ p \notin restart /\ End(p, "deleteContainer")
        /\ ctr' = [ctr EXCEPT ![svc[p]] = "absent"]
     \/ End(p, "deleteContainer") /\ UNCHANGED ctr
  /\ UNCHANGED taskVars
-----------------------------------------------------------------------------
(* A user runs a command.  There are none before system-init has started   *)
(* its first service.                                                      *)
CleaningUp == {"boot", "failed", "clean", "cleanTask", "cleanDeleted", "cleanKilled",
               "cleanCheck", "cleanContainer"}

Command(u, c, s) ==
  /\ pc[u] = "idle"
  /\ pc[SystemInit] \notin CleaningUp
  /\ restart' = IF c = "restart" THEN restart \cup {u} ELSE restart
  /\ svc' = [svc EXCEPT ![u] = s]
  /\ Goto(u, IF c = "start" THEN "prepareFs" ELSE "load")
  /\ UNCHANGED <<ctr, taskVars, todo, late>>
-----------------------------------------------------------------------------
(* system-init: start containerd, which may fail; list its containers.     *)

StartContainerd ==
  /\ pc[SystemInit] = "boot"
  /\ \/ Goto(SystemInit, "clean") /\ todo' = {s \in Services : ctr[s] = "present"}
     \/ Goto(SystemInit, "failed") /\ UNCHANGED todo
  /\ UNCHANGED <<ctr, taskVars, restart, svc, late>>

Without(s) == todo \ {s}

(* Its next stale container, or else the services to start, if their       *)
(* directory can be read.                                                  *)
Clean(s) ==
  /\ pc[SystemInit] = "clean"
  /\ s \in todo
  /\ svc' = [svc EXCEPT ![SystemInit] = s]
  /\ todo' = Without(s)
  /\ Goto(SystemInit, IF task[s] = NoTask THEN "cleanCheck" ELSE "cleanTask")
  /\ UNCHANGED <<ctr, taskVars, restart, late>>

ReadServices ==
  /\ pc[SystemInit] = "clean" /\ todo = {}
  /\ todo' \in {{}, Services}
  /\ Goto(SystemInit, "next")
  /\ UNCHANGED <<ctr, taskVars, restart, svc, late>>

(* cleanupTask deletes the task in a goroutine and kills it meanwhile.  It *)
(* waits for the delete unless the kill fails; its errors are logged.      *)
CleanDelete ==
  LET s == svc[SystemInit] IN
  /\ pc[SystemInit] \in {"cleanTask", "cleanKilled"}
  /\ Goto(SystemInit, IF pc[SystemInit] = "cleanTask" THEN "cleanDeleted" ELSE "cleanCheck")
  /\ Forget(s) \/ UNCHANGED taskVars
  /\ UNCHANGED <<ctr, restart, svc, todo, late>>

CleanKill ==
  LET s == svc[SystemInit] IN
  /\ pc[SystemInit] \in {"cleanTask", "cleanDeleted"}
  /\ Goto(SystemInit, IF pc[SystemInit] = "cleanTask" THEN "cleanKilled" ELSE "cleanCheck")
  /\ \/ task[s] \in Alive /\ killed' = [killed EXCEPT ![s] = "yes"]
     \/ task[s] \notin Alive /\ UNCHANGED killed
  /\ UNCHANGED <<ctr, task, prepared, maker, starter, restart, svc, todo, late>>

CleanKillFails ==
  /\ pc[SystemInit] \in {"cleanTask", "cleanDeleted"}
  /\ late' = IF pc[SystemInit] = "cleanTask" THEN late \cup {svc[SystemInit]} ELSE late
  /\ Goto(SystemInit, "cleanCheck")
  /\ UNCHANGED <<ctr, taskVars, restart, svc, todo>>

LateDelete(s) ==
  /\ s \in late
  /\ late' = late \ {s}
  /\ Forget(s) \/ UNCHANGED taskVars
  /\ UNCHANGED <<ctr, pc, restart, svc, todo>>

CleanCheck ==
  /\ pc[SystemInit] = "cleanCheck"
  /\ \/ Deletable(svc[SystemInit]) /\ Goto(SystemInit, "cleanContainer")
     \/ Goto(SystemInit, "clean")
  /\ UNCHANGED <<ctr, taskVars, restart, svc, todo, late>>

CleanContainer ==
  /\ pc[SystemInit] = "cleanContainer"
  /\ ctr' \in {ctr, [ctr EXCEPT ![svc[SystemInit]] = "absent"]}
  /\ Goto(SystemInit, "clean")
  /\ UNCHANGED <<taskVars, restart, svc, todo, late>>

(* The next service to start, or none is left.                             *)
NextService(s) ==
  /\ pc[SystemInit] = "next"
  /\ s \in todo
  /\ svc' = [svc EXCEPT ![SystemInit] = s]
  /\ todo' = Without(s)
  /\ Goto(SystemInit, "prepareFs")
  /\ UNCHANGED <<ctr, taskVars, restart, late>>

InitDone ==
  /\ pc[SystemInit] = "next" /\ todo = {}
  /\ Goto(SystemInit, "done")
  /\ UNCHANGED <<ctr, taskVars, restart, svc, todo, late>>
-----------------------------------------------------------------------------
(* The process of a service ends: of itself, or because it was killed.     *)
Exit(s) ==
  /\ task[s] = "running" \/ (task[s] = "created" /\ killed[s] = "yes")
  /\ SetTask(s, "stopped")
  /\ UNCHANGED <<ctr, killed, prepared, maker, starter, pc, restart, svc, todo, late>>

Step(p) ==
  \/ PrepareFilesystem(p) \/ NewContainer(p) \/ NewTask(p) \/ PrepareProcess(p)
  \/ Start(p)
  \/ LoadContainer(p) \/ GetTask(p) \/ Kill(p) \/ DeleteTask(p) \/ CheckTask(p)
  \/ DeleteContainer(p)

InitStep ==
  \/ StartContainerd \/ ReadServices \/ InitDone
  \/ \E s \in Services : Clean(s) \/ NextService(s)
  \/ CleanDelete \/ CleanKill \/ CleanKillFails \/ CleanCheck \/ CleanContainer

Next ==
  \/ \E p \in Procs : Step(p)
  \/ InitStep
  \/ \E u \in Users, c \in {"start", "stop", "restart"}, s \in Services : Command(u, c, s)
  \/ \E s \in Services : Exit(s) \/ LateDelete(s)

(* system-init is a process of its own that waits for no one.              *)
Spec == Init /\ [][Next]_vars /\ WF_vars(Step(SystemInit) \/ InitStep)
-----------------------------------------------------------------------------
Places == CleaningUp \cup {"idle", "next", "done", "prepareFs", "newContainer",
  "newTask", "prepareProcess", "startTask", "load", "getTask", "kill",
  "deleteTask", "checkTask", "deleteContainer"}

(* The variables have their types, and a service without a task bears no   *)
(* mark of an earlier one.                                                 *)
TypeOK ==
  /\ ctr \in [Services -> {"absent", "present"}]
  /\ task \in [Services -> {NoTask, "created", "running", "stopped"}]
  /\ killed \in [Services -> {"no", "yes"}]
  /\ prepared \in [Services -> {"no", "yes"}]
  /\ maker \in [Services -> Procs \cup {Nobody}]
  /\ starter \in [Services -> Procs \cup {Nobody}]
  /\ pc \in [Procs -> Places]
  /\ restart \subseteq Users
  /\ svc \in [Procs -> Services]
  /\ todo \subseteq Services
  /\ late \subseteq Services
  /\ \A s \in Services : task[s] = NoTask =>
       killed[s] = "no" /\ prepared[s] = "no" /\ maker[s] = Nobody

(* No task outlives its container, whatever commands run at once: a stop   *)
(* that ends well has ended the service.                                   *)
TaskHasContainer == \A s \in Services : task[s] # NoTask => ctr[s] = "present"

(* "prepareProcess sets up anything that needs to be done after the        *)
(* container process is created, but before it runs": a process that runs  *)
(* was prepared, unless it was started by a command that had lost its own  *)
(* to a stop.                                                              *)
PreparedBeforeRun ==
  \A s \in Services :
    task[s] = "running" => prepared[s] = "yes" \/ starter[s] # maker[s]

(* ... without that exception: the comment, taken at its word.             *)
AlwaysPrepared == \A s \in Services : task[s] = "running" => prepared[s] = "yes"

(* system-init gets through all services, whatever fails and whatever the  *)
(* users do meanwhile.                                                     *)
InitEnds == <>(pc[SystemInit] \in {"done", "failed"})
-----------------------------------------------------------------------------
(* Why the properties hold.  Between asking for the task and acting on the *)
(* answer a command is alone with the container: it made the container, or *)
(* it deleted the task.  system-init cleans up alone.                      *)
Holding == {"newTask", "checkTask", "deleteContainer"}

ContainerInv ==
  /\ \A p \in Procs : pc[p] \in Holding => ctr[svc[p]] = "present" /\ task[svc[p]] = NoTask
  /\ \A p, q \in Procs :
       pc[p] \in Holding /\ pc[q] \in Holding /\ svc[p] = svc[q] => p = q
  /\ pc[SystemInit] \in CleaningUp => \A u \in Users : pc[u] = "idle"
  /\ pc[SystemInit] = "cleanContainer" => task[svc[SystemInit]] = NoTask

(* A command about to start the task it made has prepared it.              *)
PreparedInv ==
  \A p \in Procs : pc[p] = "startTask" /\ maker[svc[p]] = p => prepared[svc[p]] = "yes"

IInv == TypeOK /\ TaskHasContainer /\ ContainerInv /\ PreparedBeforeRun /\ PreparedInv
=============================================================================
