------------------------------ MODULE CacheLock ------------------------------
(***************************************************************************)
(* The image cache's root index, index.json, shared by linuxkit processes  *)
(* (src/cmd/linuxkit/cache): the provider's lock on top of an fcntl lock,  *)
(* and every operation that reads or changes the root, down to the single  *)
(* reads and writes of the file.                                           *)
(*                                                                         *)
(* A process has a main goroutine and, while a package is being built, an  *)
(* ImageLoad goroutine that shares its Provider.  The provider's lock does *)
(* not count: Lock by a goroutine whose process has the lock is a no-op,   *)
(* and any Unlock releases it.  Blobs are left to CacheStore.              *)
(***************************************************************************)
CONSTANTS
  Names,     \* image names of the root index
  Digests,   \* what a name may point to
  Procs      \* linuxkit processes using the cache directory

VARIABLES
  root,      \* the descriptors in index.json
  exists,    \* index.json exists
  torn,      \* index.json has been truncated and not yet written again
  held,      \* p.lock is not nil: process p has the fcntl lock
  pc,        \* place of each goroutine
  job,       \* the operation it is in
  snap,      \* the descriptors it last read
  orig,      \* the root when it began to change it (history)
  cur        \* the descriptor it is writing, <<>> if none

vars == <<root, exists, torn, held, pc, job, snap, orig, cur>>
fileVars == <<root, exists, torn>>
workVars == <<snap, orig, cur>>

Threads     == Procs \X {"main", "load"}
Main(p)     == <<p, "main">>
Load(p)     == <<p, "load">>
Descriptors == [name : Names, digest : Digests]

(* The operations.  read: Index, as in FindRoot or FindDescriptor; write:  *)
(* DescriptorWrite; remove: Remove; nested: ImagePull and IndexWrite, that *)
(* lock around one DescriptorWrite; multi: Pull and ImageLoad, that lock   *)
(* around several.                                                         *)
Jobs == {"read", "write", "remove", "nested", "multi"}

(* Places in between the Lock and the Unlock that protect the root.        *)
Changing == {"rmRead", "rmTrunc", "rmWrite", "apRead", "apTrunc", "apWrite"}
Critical == Changing \cup {"newStat", "newTrunc", "newWrite", "newUnlock",
                           "ixRead", "ixUnlock", "dwUnlock"}
Places   == Critical \cup {"new", "newLock", "idle", "build", "solve", "ixLock",
              "outLock", "work", "recv", "dwLock", "outUnlock", "dead"}

Goto(t, l) == pc' = [pc EXCEPT ![t] = l]

(* Until its ImageLoad receives the image, the main goroutine is within a  *)
(* build, and goes back to it.                                             *)
Home(t) == IF t[2] = "main" /\ pc[Load(t[1])] \in {"outLock", "recv"}
           THEN "build" ELSE "idle"

(* Go on with the operation, or end it.                                    *)
Return(t, l) ==
  /\ Goto(t, l)
  /\ job' = [job EXCEPT ![t] = IF l = Home(t) THEN "read" ELSE job[t]]

Init ==
  /\ root = {} /\ exists = FALSE /\ torn = FALSE
  /\ held = [p \in Procs |-> FALSE]
  /\ pc = [t \in Threads |-> IF t[2] = "main" THEN "new" ELSE "idle"]
  /\ job = [t \in Threads |-> "read"]
  /\ snap = [t \in Threads |-> {}]
  /\ orig = [t \in Threads |-> {}]
  /\ cur = [t \in Threads |-> <<>>]
-----------------------------------------------------------------------------
(* Provider.Lock and Provider.Unlock.                                      *)

(* Faulty variants of definitions below: a lock that is not waited for,    *)
(* and one that is kept.                                                   *)
BadFree(p)   == TRUE
BadUnlock(p) == UNCHANGED held

Without(s, n) == {e \in s : e.name # n}

(* No other process has the fcntl lock.                                    *)
Free(p) == \A q \in Procs \ {p} : ~held[q]

Lock(p)   == (held[p] \/ Free(p)) /\ held' = [held EXCEPT ![p] = TRUE]
Unlock(p) == held' = [held EXCEPT ![p] = FALSE]
-----------------------------------------------------------------------------
(* NewProvider and Get: open the cache, creating an empty one if need be.  *)

OpenCache(p) ==
  /\ pc[Main(p)] = "new"
  /\ Goto(Main(p), IF exists THEN "idle" ELSE "newLock")
  /\ UNCHANGED <<fileVars, held, job, workVars>>

NewLock(p) ==
  /\ pc[Main(p)] = "newLock"
  /\ Lock(p)
  /\ Goto(Main(p), "newStat")
  /\ UNCHANGED <<fileVars, job, workVars>>

NewStat(p) ==
  /\ pc[Main(p)] = "newStat"
  /\ Goto(Main(p), IF exists THEN "newUnlock" ELSE "newTrunc")
  /\ UNCHANGED <<fileVars, held, job, workVars>>

NewTrunc(p) ==
  /\ pc[Main(p)] = "newTrunc"
  /\ exists' = TRUE /\ torn' = TRUE
  /\ Goto(Main(p), "newWrite")
  /\ UNCHANGED <<root, held, job, workVars>>

NewWrite(p) ==
  /\ pc[Main(p)] = "newWrite"
  /\ root' = {} /\ exists' = TRUE /\ torn' = FALSE
  /\ Goto(Main(p), "newUnlock")
  /\ UNCHANGED <<held, job, workVars>>

NewUnlock(p) ==
  /\ pc[Main(p)] = "newUnlock"
  /\ Unlock(p)
  /\ Goto(Main(p), "idle")
  /\ UNCHANGED <<fileVars, job, workVars>>
-----------------------------------------------------------------------------
(* The beginning of an operation of the main goroutine.  ImagePull goes    *)
(* straight to its lock when told always to pull.  During a build only     *)
(* FindDescriptor and ImagePull are called.                                *)

FirstPlaces(j) ==
  CASE j = "read"   -> {"ixLock"}
    [] j = "remove" -> {"ixLock"}
    [] j = "write"  -> {"dwLock"}
    [] j = "nested" -> {"ixLock", "outLock"}
    [] j = "multi"  -> {"outLock"}

Start(p, j, l) ==
  /\ pc[Main(p)] = "idle" \/ (pc[Main(p)] = "build" /\ j \in {"read", "nested"})
  /\ l \in FirstPlaces(j)
  /\ job' = [job EXCEPT ![Main(p)] = j]
  /\ Goto(Main(p), l)
  /\ UNCHANGED <<fileVars, held, workVars>>

(* Pkg.buildArch: start ImageLoad in a goroutine and build.                *)
StartBuild(p) ==
  /\ pc[Main(p)] = "idle"
  /\ pc[Load(p)] = "idle"
  /\ pc' = [pc EXCEPT ![Main(p)] = "build", ![Load(p)] = "outLock"]
  /\ job' = [job EXCEPT ![Load(p)] = "multi"]
  /\ UNCHANGED <<fileVars, held, workVars>>

(* The solver writes the image to the pipe; the main goroutine is in Solve *)
(* and then in eg.Wait until ImageLoad has returned.                       *)
Solve(p) ==
  /\ pc[Main(p)] = "build"
  /\ Goto(Main(p), "solve")
  /\ UNCHANGED <<fileVars, held, job, workVars>>

Receive(p) ==
  /\ pc[Load(p)] = "recv"
  /\ pc[Main(p)] = "solve"
  /\ Goto(Load(p), "work")
  /\ UNCHANGED <<fileVars, held, job, workVars>>

BuildDone(p) ==
  /\ pc[Main(p)] = "solve"
  /\ pc[Load(p)] = "idle"
  /\ Goto(Main(p), "idle")
  /\ UNCHANGED <<fileVars, held, job, workVars>>
-----------------------------------------------------------------------------
(* Index: read the root under the lock.                                    *)

IxLock(t) ==
  /\ pc[t] = "ixLock"
  /\ Lock(t[1])
  /\ Goto(t, "ixRead")
  /\ UNCHANGED <<fileVars, job, workVars>>

IxRead(t) ==
  /\ pc[t] = "ixRead"
  /\ Goto(t, "ixUnlock")
  /\ UNCHANGED <<fileVars, held, job, workVars>>

(* The operation ends here if it is only a read, if the image is found     *)
(* (ImagePull), not found (Remove) or of the wrong kind (IndexWrite).      *)
AfterIndex(t) ==
  {Home(t)} \cup (CASE job[t] = "nested" -> {"outLock"}
                    [] job[t] = "remove" -> {"dwLock"}
                    [] OTHER             -> {})

IxUnlock(t, l) ==
  /\ pc[t] = "ixUnlock"
  /\ l \in AfterIndex(t)
  /\ Unlock(t[1])
  /\ Return(t, l)
  /\ UNCHANGED <<fileVars, workVars>>
-----------------------------------------------------------------------------
(* The outer lock of ImagePull, Pull, ImageLoad and IndexWrite: blobs are  *)
(* written, then one or more descriptors.                                  *)

OutLock(t) ==
  /\ pc[t] = "outLock"
  /\ Lock(t[1])
  /\ Goto(t, IF t[2] = "load" THEN "recv" ELSE "work")
  /\ UNCHANGED <<fileVars, job, workVars>>

(* The blobs were written, or an error returns before any descriptor is.   *)
Work(t, l) ==
  /\ pc[t] = "work"
  /\ l \in {"dwLock", "outUnlock"}
  /\ Goto(t, l)
  /\ UNCHANGED <<fileVars, held, job, workVars>>

OutUnlock(t) ==
  /\ pc[t] = "outUnlock"
  /\ Unlock(t[1])
  /\ Return(t, Home(t))
  /\ UNCHANGED <<fileVars, workVars>>
-----------------------------------------------------------------------------
(* DescriptorWrite, and RemoveDescriptors of Remove, which is its first    *)
(* half.  The layout library reads the file, then writes it in place.      *)

DwLock(t, e) ==
  /\ pc[t] = "dwLock"
  /\ cur' = [cur EXCEPT ![t] = e]
  /\ Lock(t[1])
  /\ Goto(t, "rmRead")
  /\ UNCHANGED <<fileVars, job, snap, orig>>

ReadRoot(t, l) ==
  /\ snap' = [snap EXCEPT ![t] = root]
  /\ Goto(t, IF torn \/ ~exists THEN "dwUnlock" ELSE l)

RmRead(t) ==
  /\ pc[t] = "rmRead"
  /\ ReadRoot(t, "rmTrunc")
  /\ orig' = [orig EXCEPT ![t] = root]
  /\ UNCHANGED <<fileVars, held, job, cur>>

Truncate(t) ==
  /\ pc[t] \in {"rmTrunc", "apTrunc"}
  /\ torn' = TRUE /\ exists' = TRUE
  /\ Goto(t, IF pc[t] = "rmTrunc" THEN "rmWrite" ELSE "apWrite")
  /\ UNCHANGED <<root, held, job, workVars>>

RmWrite(t) ==
  /\ pc[t] = "rmWrite"
  /\ root' = Without(snap[t], cur[t].name) /\ torn' = FALSE /\ exists' = TRUE
  /\ Goto(t, IF job[t] = "remove" THEN "dwUnlock" ELSE "apRead")
  /\ UNCHANGED <<held, job, workVars>>

ApRead(t) ==
  /\ pc[t] = "apRead"
  /\ ReadRoot(t, "apTrunc")
  /\ UNCHANGED <<fileVars, held, job, orig, cur>>

ApWrite(t) ==
  /\ pc[t] = "apWrite"
  /\ root' = snap[t] \cup {cur[t]} /\ torn' = FALSE /\ exists' = TRUE
  /\ Goto(t, "dwUnlock")
  /\ UNCHANGED <<held, job, workVars>>

(* DescriptorWrite's deferred Unlock releases its caller's lock as well.   *)
AfterWrite(t) ==
  CASE job[t] \in {"write", "remove"} -> {Home(t)}
    [] job[t] = "nested"              -> {"outUnlock"}
    [] job[t] = "multi"               -> {"outUnlock", "dwLock"}
    [] OTHER                          -> {}

DwUnlock(t, l) ==
  /\ pc[t] = "dwUnlock"
  /\ l \in AfterWrite(t)
  /\ Unlock(t[1])
  /\ Return(t, l)
  /\ snap' = [snap EXCEPT ![t] = {}]
  /\ orig' = [orig EXCEPT ![t] = {}]
  /\ cur' = [cur EXCEPT ![t] = <<>>]
  /\ UNCHANGED fileVars
-----------------------------------------------------------------------------
(* A process ends or dies anywhere: the kernel releases its lock.          *)
Die(p) ==
  /\ pc[Main(p)] # "dead"
  /\ pc' = [pc EXCEPT ![Main(p)] = "dead", ![Load(p)] = "dead"]
  /\ Unlock(p)
  /\ LET Gone(f, v) == [f EXCEPT ![Main(p)] = v, ![Load(p)] = v]
     IN  /\ job' = Gone(job, "read")
         /\ snap' = Gone(snap, {})
         /\ orig' = Gone(orig, {})
         /\ cur' = Gone(cur, <<>>)
  /\ UNCHANGED fileVars
-----------------------------------------------------------------------------
ProcStep(p) ==
  \/ OpenCache(p) \/ NewLock(p) \/ NewStat(p) \/ NewTrunc(p) \/ NewWrite(p)
  \/ NewUnlock(p)
  \/ \E j \in Jobs, l \in Places : Start(p, j, l)
  \/ StartBuild(p) \/ Solve(p) \/ Receive(p) \/ BuildDone(p)

ThreadStep(t) ==
  \/ IxLock(t) \/ IxRead(t) \/ (\E l \in Places : IxUnlock(t, l))
  \/ OutLock(t) \/ (\E l \in Places : Work(t, l)) \/ OutUnlock(t)
  \/ (\E e \in Descriptors : DwLock(t, e)) \/ RmRead(t) \/ Truncate(t)
  \/ RmWrite(t) \/ ApRead(t) \/ ApWrite(t)
  \/ (\E l \in Places : DwUnlock(t, l))

Next ==
  \/ \E p \in Procs : ProcStep(p) \/ Die(p)
  \/ \E t \in Threads : ThreadStep(t)

Spec == Init /\ [][Next]_vars

(* Each goroutine goes on, and F_SETLKW serves every waiter in the end     *)
(* (Linux queues them); a build gets to its solver.                        *)
Locking(t) == \/ IxLock(t) \/ OutLock(t) \/ (\E e \in Descriptors : DwLock(t, e))
              \/ (t[2] = "main" /\ NewLock(t[1]))

Opening(p) == NewStat(p) \/ NewTrunc(p) \/ NewWrite(p) \/ NewUnlock(p)

Fairness ==
  /\ \A t \in Threads : WF_vars(ThreadStep(t)) /\ SF_vars(Locking(t))
  /\ \A p \in Procs : WF_vars(Opening(p)) /\ WF_vars(Solve(p)) /\ WF_vars(Receive(p))

FairSpec == Spec /\ Fairness
-----------------------------------------------------------------------------
(* The variables have their types, and whoever changes the root writes a   *)
(* descriptor that has a name.                                             *)
TypeOK ==
  /\ root \subseteq Descriptors
  /\ exists \in BOOLEAN /\ torn \in BOOLEAN
  /\ held \in [Procs -> BOOLEAN]
  /\ pc \in [Threads -> Places]
  /\ job \in [Threads -> Jobs]
  /\ snap \in [Threads -> SUBSET Descriptors]
  /\ orig \in [Threads -> SUBSET Descriptors]
  /\ cur \in [Threads -> Descriptors \cup {<<>>}]
  /\ \A t \in Threads : pc[t] \in Changing => cur[t] \in Descriptors

(* Only one goroutine of all processes is reading or changing the root:    *)
(* "only one process is writing at a time, but [...] no one is reading     *)
(* while we are writing" (the comment on Provider.Index).                  *)
RootExclusive ==
  \A t, u \in Threads : pc[t] \in Critical /\ pc[u] \in Critical => t = u

(* DescriptorWrite "replaces any existing one": a name never has two       *)
(* descriptors.                                                            *)
OneDescriptorPerName ==
  \A d, e \in root : d.name = e.name => d = e

(* The root as its users may think of it: while a descriptor is between    *)
(* its removal and its append, the root is the one before the removal.     *)
Appending == {"apRead", "apTrunc", "apWrite"}
Writing   == {"newWrite", "rmWrite", "apWrite"}

Broken == torn /\ \A t \in Threads : pc[t] \notin Writing

Desc ==
  IF Broken THEN {}
  ELSE IF \E t \in Threads : pc[t] \in Appending
       THEN {e \in Descriptors :
               \E t \in Threads : pc[t] \in Appending /\ e \in orig[t]}
       ELSE root

Abstract == INSTANCE DescriptorStore WITH desc <- Desc, broken <- Broken

(* The several reads and writes of index.json by several processes amount  *)
(* to atomic changes of one name each: no update is lost.                  *)
Refines == Abstract!Spec

(* Lock returns in the end, whatever the other processes do and wherever   *)
(* they die: nobody keeps the cache to themselves.                         *)
Waiting == {"newLock", "ixLock", "outLock", "dwLock"}

LockGranted ==
  \A t \in Threads : pc[t] \in Waiting ~> pc[t] \notin Waiting
-----------------------------------------------------------------------------
(* The inductive invariant of the proofs.  The root is protected by p.lock *)
(* although the lock does not count, because ImageLoad gets beyond its     *)
(* wait for the image only while the main goroutine is in the solver.      *)
LoadPlaces == {"work", "outUnlock", "dwLock", "dwUnlock"} \cup Changing

LockInv ==
  /\ \A p, q \in Procs : held[p] /\ held[q] => p = q
  /\ \A t \in Threads : pc[t] \in Critical => held[t[1]]
  /\ \A p \in Procs :
       /\ pc[Load(p)] \in LoadPlaces \cup {"idle", "outLock", "recv", "dead"}
       /\ pc[Load(p)] \in LoadPlaces => pc[Main(p)] = "solve"

(* What a goroutine knows of index.json while it changes it.               *)
KnowsRoot(t) ==
  /\ pc[t] \in {"rmTrunc", "rmWrite"} => snap[t] = root /\ orig[t] = root
  /\ pc[t] \in Appending => root = Without(orig[t], cur[t].name)
  /\ pc[t] \in {"apTrunc", "apWrite"} => snap[t] = root
  /\ pc[t] \in {"rmTrunc", "apRead", "apTrunc"} => exists /\ ~torn
  /\ pc[t] \in Writing => torn
  /\ pc[t] = "newTrunc" => ~exists
  /\ pc[t] = "newWrite" => root = {}

RootInv ==
  /\ ~exists => root = {} /\ ~torn
  /\ \A t \in Threads : KnowsRoot(t)

IInv == TypeOK /\ LockInv /\ RootInv /\ OneDescriptorPerName
=============================================================================
