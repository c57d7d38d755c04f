------------------------------- MODULE Builder -------------------------------
(***************************************************************************)
(* The buildkit container that package builds share                        *)
(* (src/cmd/linuxkit/pkglib/dockerimpl.go, Builder and                     *)
(* builderEnsureContainer): several linuxkit processes look for it in a    *)
(* docker context, replace it when it is not what they need, and wait for  *)
(* it to answer.                                                           *)
(*                                                                         *)
(* A step is one docker command of one process.  The flags stop, remove    *)
(* and removeVolume of builderEnsureContainer outlive an iteration of its  *)
(* loop, as they do in the code; the container id does not.                *)
(***************************************************************************)
EXTENDS Naturals, FiniteSets

CONSTANTS
  Procs,         \* linuxkit processes
  Images,        \* buildkit images
  Target,        \* the image the processes want
  Configs,       \* contents of buildkitd.toml files
  NoConfig,
  Platform,      \* docker context named after the platform
  Default,       \* docker context "default"
  Restarters,    \* processes that may be told to restart the builder
  Left,          \* containers that may be there when the processes begin
  MaxIds,        \* containers created in one behaviour
  MaxDeaths,     \* processes that are killed
  Retries        \* buildKitCheckRetryCount

Contexts == {Platform, Default}

NoCtr   == [id |-> 0, image |-> Target, privileged |-> FALSE, config |-> NoConfig,
            running |-> FALSE]
Ctrs    == [id : 1 .. MaxIds, image : Images, privileged : BOOLEAN,
            config : Configs \cup {NoConfig}, running : BOOLEAN] \cup {NoCtr}

ASSUME BuilderAssumption ==
  /\ Procs # {}
  /\ Target \in Images
  /\ NoConfig \notin Configs
  /\ Platform # Default
  /\ Restarters \subseteq Procs
  /\ Left \subseteq [Contexts -> {c \in Ctrs : c.id = 1} \cup {NoCtr}]
  /\ MaxIds \in Nat \ {0} /\ MaxDeaths \in Nat
  /\ Retries \in Nat \ {0}

VARIABLES
  ctr,       \* the container of the builder's name in each context
  vol,       \* the images that have written to the state volume beside it
  ids,       \* containers created so far
  known,     \* the contexts docker knows
  current,   \* the context docker uses when not told
  config,    \* the buildkitd.toml every process was given
  given,     \* the context every process was given, or none
  restart,   \* the processes told to restart the builder
  pc,
  ctx,       \* the context it looks in
  tries,     \* iterations begun
  flags,     \* stop, remove, removeVolume
  seen,      \* the container its last inspect showed
  alone,     \* no two processes were at work at once, none was killed (history)
  late,      \* processes that waited too long for an answer (history)
  deaths

dockerVars == <<ctr, vol, ids>>
wantVars   == <<known, current, config, given, restart>>
procVars   == <<pc, ctx, tries, flags, seen>>
histVars   == <<alone, late, deaths>>
vars       == <<dockerVars, wantVars, procVars, histVars>>

Flags   == {"stop", "remove", "removeVolume"}
Nowhere == "nowhere"

Ended   == {"using", "failed", "dead"}
Working == {"inspect", "exec", "start", "stop", "remove", "removeVolume",
            "create", "copy", "startNew", "wait", "lost"}

(* A volume goes with the container that was left.  The processes are run  *)
(* with the same options, but for the restart.                             *)
Init ==
  /\ ctr \in Left
  /\ vol = [c \in Contexts |-> IF ctr[c] = NoCtr THEN {} ELSE {ctr[c].image}]
  /\ ids = 1
  /\ known \in {{Default}, Contexts}
  /\ current \in known
  /\ config \in Configs \cup {NoConfig}
  /\ given \in Contexts \cup {Nowhere}
  /\ restart \in SUBSET Restarters
  /\ pc = [p \in Procs |-> "idle"]
  /\ ctx = [p \in Procs |-> Default]
  /\ tries = [p \in Procs |-> 0]
  /\ flags = [p \in Procs |-> {}]
  /\ seen = [p \in Procs |-> NoCtr]
  /\ alone = TRUE /\ late = {}
  /\ deaths = 0
-----------------------------------------------------------------------------
Goto(p, l)   == pc' = [pc EXCEPT ![p] = l]
SetCtr(c, r) == ctr' = [ctr EXCEPT ![c] = r]
Here(p)      == ctr[ctx[p]]

(* The container whose id it has; a faulty variant goes by the name.       *)
ByName(p) == Here(p) # NoCtr
Mine(p)   == Here(p) # NoCtr /\ Here(p).id = seen[p].id

(* An iteration of the loop begins without a container id.                 *)
Iterate(p) ==
  /\ IF tries[p] < Retries THEN Goto(p, "inspect") ELSE Goto(p, "lost")
  /\ tries' = [tries EXCEPT ![p] = IF tries[p] < Retries THEN tries[p] + 1 ELSE tries[p]]
  /\ seen' = [seen EXCEPT ![p] = NoCtr]

(* builderEnsureContainer in context c.                                    *)
Ensure(p, c) ==
  /\ ctx' = [ctx EXCEPT ![p] = c]
  /\ tries' = [tries EXCEPT ![p] = 1]
  /\ flags' = [flags EXCEPT ![p] = {}]
  /\ seen' = [seen EXCEPT ![p] = NoCtr]
  /\ Goto(p, "inspect")

(* Builder: the context it was given, which must exist; else the one named *)
(* after the platform, if there is one; else the default one.              *)
Builder(p) ==
  /\ pc[p] = "idle"
  /\ alone' = (alone /\ \A q \in Procs : pc[q] \notin Working)
  /\ \/ given # Nowhere /\ given \notin known
        /\ Goto(p, "failed") /\ UNCHANGED <<ctx, tries, flags, seen>>
     \/ given \in known /\ Ensure(p, given)
     \/ given = Nowhere
        /\ Ensure(p, IF Platform \in known THEN Platform ELSE Default)
  /\ UNCHANGED <<dockerVars, wantVars, late, deaths>>

(* It failed in this context: the default one is next, unless one was      *)
(* given.                                                                  *)
GiveUp(p) ==
  /\ pc[p] = "lost"
  /\ IF given = Nowhere /\ ctx[p] = Platform
     THEN Ensure(p, Default)
     ELSE Goto(p, "failed") /\ UNCHANGED <<ctx, tries, flags, seen>>
  /\ UNCHANGED <<dockerVars, wantVars, histVars>>
-----------------------------------------------------------------------------
(* What is to be done about the container that was found, with the right   *)
(* configuration or not.  Another image's volume goes with it, but not     *)
(* when the restart was asked for.                                         *)
BadReusable(p, r, fits) == p \notin restart /\ r.image = Target /\ fits

Reusable(p, r, fits) ==
  p \notin restart /\ r.image = Target /\ r.privileged /\ fits

BadReplace(p, r) == {"stop", "remove"}

Replace(p, r) ==
  {"remove"} \cup {f \in {"stop"} : r.running} \cup
  {f \in {"removeVolume"} : f \in flags[p] \/ (p \notin restart /\ r.image # Target)}

BadFirstStep(fs) ==
  IF "remove" \in fs THEN "remove" ELSE IF "stop" \in fs THEN "stop"
  ELSE IF "removeVolume" \in fs THEN "removeVolume" ELSE "create"

FirstStep(fs) ==
  IF "stop" \in fs THEN "stop" ELSE IF "remove" \in fs THEN "remove"
  ELSE IF "removeVolume" \in fs THEN "removeVolume" ELSE "create"

Decide(p, r, fits) ==
  \/ /\ ~Reusable(p, r, fits)
     /\ flags' = [flags EXCEPT ![p] = Replace(p, r)]
     /\ Goto(p, FirstStep(Replace(p, r)))
  \/ /\ Reusable(p, r, fits)
     /\ Goto(p, IF r.running THEN "using" ELSE "start")
     /\ UNCHANGED flags

(* container inspect.  When there is none, the flags are those of the last *)
(* iteration: a container to be stopped has no id any more.                *)
Inspect(p) ==
  /\ pc[p] = "inspect"
  /\ seen' = [seen EXCEPT ![p] = Here(p)]
  /\ \/ Here(p) # NoCtr /\ config # NoConfig /\ Goto(p, "exec") /\ UNCHANGED flags
     \/ Here(p) # NoCtr /\ config = NoConfig /\ Decide(p, Here(p), TRUE)
     \/ /\ Here(p) = NoCtr
        /\ Goto(p, IF flags[p] \cap {"stop", "remove"} # {} THEN "lost"
                   ELSE FirstStep(flags[p]))
        /\ UNCHANGED flags
  /\ UNCHANGED <<dockerVars, wantVars, ctx, tries, histVars>>

(* container exec cat: only in one that runs.                              *)
Exec(p) ==
  /\ pc[p] = "exec"
  /\ Decide(p, seen[p], Here(p).running /\ Here(p).config = config)
  /\ UNCHANGED <<dockerVars, wantVars, ctx, tries, seen, histVars>>

(* container start, of a container of that name.  It opens its volume.     *)
Started(c) ==
  /\ SetCtr(c, [ctr[c] EXCEPT !.running = TRUE])
  /\ vol' = [vol EXCEPT ![c] = vol[c] \cup {ctr[c].image}]
  /\ UNCHANGED ids

Start(p) ==
  /\ pc[p] = "start"
  /\ \/ /\ Here(p) # NoCtr
        /\ Started(ctx[p])
        /\ flags' = [flags EXCEPT ![p] = flags[p] \cap {"removeVolume"}]
        /\ Goto(p, IF "removeVolume" \in flags[p] THEN "removeVolume" ELSE "wait")
     \/ Here(p) = NoCtr /\ Goto(p, "lost") /\ UNCHANGED <<dockerVars, flags>>
  /\ UNCHANGED <<wantVars, ctx, tries, seen, histVars>>
-----------------------------------------------------------------------------
(* container stop and container rm, by id; rm of one that runs fails.      *)
Stop(p) ==
  /\ pc[p] = "stop"
  /\ \/ /\ Mine(p)
        /\ SetCtr(ctx[p], [Here(p) EXCEPT !.running = FALSE])
        /\ Goto(p, FirstStep(flags[p] \ {"stop"}))
        /\ UNCHANGED <<vol, ids, tries, seen>>
     \/ ~Mine(p) /\ Iterate(p) /\ UNCHANGED dockerVars
  /\ UNCHANGED <<wantVars, ctx, flags, histVars>>

Removable(p) == Mine(p) /\ ~Here(p).running

Remove(p) ==
  /\ pc[p] = "remove"
  /\ \/ /\ Removable(p)
        /\ SetCtr(ctx[p], NoCtr)
        /\ Goto(p, FirstStep(flags[p] \ {"stop", "remove"}))
        /\ UNCHANGED <<vol, ids, tries, seen>>
     \/ ~Removable(p) /\ Iterate(p) /\ UNCHANGED dockerVars
  /\ UNCHANGED <<wantVars, ctx, flags, histVars>>

(* volume rm, as best it can: a container that has it keeps it.            *)
RemoveVolume(p) ==
  /\ pc[p] = "removeVolume"
  /\ vol' = [vol EXCEPT ![ctx[p]] = IF Here(p) = NoCtr THEN {} ELSE vol[ctx[p]]]
  /\ Goto(p, IF "remove" \in flags[p] THEN "create" ELSE "wait")
  /\ UNCHANGED <<ctr, ids, wantVars, ctx, tries, flags, seen, histVars>>

(* container create: the name must be free.                                *)
Create(p) ==
  /\ pc[p] = "create"
  /\ \/ /\ Here(p) = NoCtr
        /\ ids < MaxIds /\ ids' = ids + 1
        /\ SetCtr(ctx[p], [id |-> ids + 1, image |-> Target, privileged |-> TRUE,
                           config |-> NoConfig, running |-> FALSE])
        /\ Goto(p, IF config = NoConfig THEN "startNew" ELSE "copy")
        /\ UNCHANGED <<vol, tries, seen>>
     \/ Here(p) # NoCtr /\ Iterate(p) /\ UNCHANGED dockerVars
  /\ UNCHANGED <<wantVars, ctx, flags, histVars>>

(* copyFilesToContainer names no context.                                  *)
Copy(p) ==
  /\ pc[p] = "copy"
  /\ \/ /\ ctr[current] # NoCtr
        /\ SetCtr(current, [ctr[current] EXCEPT !.config = config])
        /\ Goto(p, "startNew")
        /\ UNCHANGED <<vol, ids>>
     \/ ctr[current] = NoCtr /\ Goto(p, "lost") /\ UNCHANGED dockerVars
  /\ UNCHANGED <<wantVars, ctx, tries, flags, seen, histVars>>

StartNew(p) ==
  /\ pc[p] = "startNew"
  /\ \/ Here(p) # NoCtr /\ Started(ctx[p]) /\ Goto(p, "wait")
     \/ Here(p) = NoCtr /\ Goto(p, "lost") /\ UNCHANGED dockerVars
  /\ UNCHANGED <<wantVars, ctx, tries, flags, seen, histVars>>
-----------------------------------------------------------------------------
(* A client that gets an answer, or half a minute without one.             *)
Ready(p) ==
  /\ pc[p] = "wait" /\ Here(p).running
  /\ Goto(p, "using")
  /\ UNCHANGED <<dockerVars, wantVars, ctx, tries, flags, seen, histVars>>

BadTimeout(p) == FALSE

Timeout(p) ==
  /\ pc[p] = "wait"
  /\ Goto(p, "lost")
  /\ late' = late \cup {p}
  /\ UNCHANGED <<dockerVars, wantVars, ctx, tries, flags, seen, alone, deaths>>

(* The process is killed.                                                  *)
Die(p) ==
  /\ pc[p] \in Working
  /\ deaths < MaxDeaths /\ deaths' = deaths + 1
  /\ alone' = FALSE
  /\ Goto(p, "dead")
  /\ UNCHANGED <<dockerVars, wantVars, ctx, tries, flags, seen, late>>

Step(p) ==
  \/ Builder(p) \/ GiveUp(p) \/ Inspect(p) \/ Exec(p) \/ Start(p)
  \/ Stop(p) \/ Remove(p) \/ RemoveVolume(p) \/ Create(p) \/ Copy(p) \/ StartNew(p)
  \/ Ready(p) \/ Timeout(p)

Next == \E p \in Procs : Step(p) \/ Die(p)

Spec == Init /\ [][Next]_vars

FairSpec == Spec /\ \A p \in Procs : WF_vars(Step(p))
-----------------------------------------------------------------------------
(* The variables have their types.                                         *)
TypeOK ==
  /\ ctr \in [Contexts -> Ctrs]
  /\ vol \in [Contexts -> SUBSET Images]
  /\ ids \in 1 .. MaxIds
  /\ pc \in [Procs -> {"idle"} \cup Working \cup Ended]
  /\ ctx \in [Procs -> Contexts]
  /\ tries \in [Procs -> 0 .. Retries]
  /\ flags \in [Procs -> SUBSET Flags]
  /\ seen \in [Procs -> Ctrs]
  /\ deaths \in 0 .. MaxDeaths

Served(p) == pc[p] # "using" /\ pc'[p] = "using"

(* A process that gets a client has the builder it asked for: the image,   *)
(* the privileges and, if nobody else was replacing the builder, the       *)
(* configuration; copyFilesToContainer finds only containers of docker's   *)
(* own context.                                                            *)
ClientFits ==
  [][\A p \in Procs : Served(p) =>
       LET r == ctr[ctx[p]] IN
         /\ r.running /\ r.image = Target /\ r.privileged
         /\ config # NoConfig /\ alone /\ ctx[p] = current => r.config = config]_vars

(* "if already running with the right image and permissions, just use it": *)
(* without a configuration file a builder in use is stopped or removed     *)
(* only by a process that was told to restart it, however old the flags    *)
(* and ids are by which the others go.                                     *)
InUseKept ==
  [][\A p \in Procs, q \in Procs :
       /\ pc[q] = "using" /\ pc[p] # pc'[p] /\ p \notin restart
       /\ config = NoConfig /\ ctr[ctx[q]].running
       => ctr'[ctx[q]].running]_vars

(* What makes the two properties above inductive.  A process past its      *)
(* look at the container has a fit one before it, or none; one that is     *)
(* about to stop it saw an unfit one, and an id it saw is never given to   *)
(* another container.  Alone, what it finds is configured.                 *)
Fit(r)  == r.image = Target /\ r.privileged
FitAt(c) == ctr[c] # NoCtr => Fit(ctr[c])
Past    == {"start", "removeVolume", "create", "copy", "startNew", "wait", "using"}

FitFound ==
  \A p \in Procs :
    /\ pc[p] \in Past => FitAt(ctx[p])
    /\ pc[p] = "exec" /\ Fit(seen[p]) => FitAt(ctx[p])

Replacing ==
  \A p \in Procs :
    /\ pc[p] = "exec" => config # NoConfig
    /\ pc[p] \in {"stop", "remove"} => "remove" \in flags[p]
    /\ pc[p] \in {"stop", "remove"} /\ p \notin restart /\ config = NoConfig => ~Fit(seen[p])

OneContainerPerId ==
  /\ \A c \in Contexts : ctr[c].id <= ids
  /\ \A p \in Procs : seen[p].id <= ids
  /\ \A p \in Procs : ctr[ctx[p]] # NoCtr /\ ctr[ctx[p]].id = seen[p].id =>
       ctr[ctx[p]].image = seen[p].image /\ ctr[ctx[p]].privileged = seen[p].privileged

Configured ==
  /\ alone => \A p, q \in Procs : pc[p] \in Working /\ pc[q] \in Working => p = q
  /\ \A p \in Procs :
       /\ alone /\ config # NoConfig /\ ctx[p] = current
       /\ pc[p] \in {"start", "removeVolume", "startNew", "wait"}
       => ctr[current] = NoCtr \/ ctr[current].config = config

WantsOK ==
  /\ known \subseteq Contexts /\ current \in Contexts
  /\ config \in Configs \cup {NoConfig}

IInv == TypeOK /\ WantsOK /\ FitFound /\ Replacing /\ OneContainerPerId /\ Configured

(* "we cannot guarantee buildkit state compatibility across versions": a   *)
(* builder does not open the state volume of another image, if processes   *)
(* come one after the other and none is told to restart the builder.       *)
VolumeFits == \A c \in Contexts : ctr[c].running => vol[c] = {ctr[c].image}

VolumeFitsAlone == alone /\ restart = {} => VolumeFits

(* What makes it inductive: who takes away another image's container has    *)
(* its volume to remove before a container is created.                     *)
Cleaning(c) == \E p \in Procs : pc[p] = "removeVolume" /\ ctx[p] = c
VolumeGoes  ==
  \A p \in Procs :
    pc[p] \in {"stop", "remove"} /\ p \notin restart /\ seen[p].image # Target => "removeVolume" \in flags[p]
VolumeOf(c) ==
  IF ctr[c] = NoCtr THEN vol[c] \subseteq {Target} \/ Cleaning(c)
  ELSE vol[c] \subseteq {ctr[c].image} /\ (ctr[c].running => ctr[c].image \in vol[c])
VolumesKept == VolumeGoes /\ (alone /\ restart = {} => \A c \in Contexts : VolumeOf(c))

(* Of processes that all want the same builder somebody gets it, unless it *)
(* never answered.                                                         *)
NoExcuse == late = {} /\ deaths = 0 /\ config = NoConfig /\ given = Nowhere

SomebodyServed ==
  (\A p \in Procs : pc[p] \in Ended) /\ NoExcuse => \E p \in Procs : pc[p] = "using"

(* What makes it inductive: where a process finds that it was beaten, or    *)
(* will, another one has what it needs to go on to a builder that runs.     *)
ToCreate(p) == pc[p] = "create" \/ (pc[p] = "removeVolume" /\ "remove" \in flags[p])
ToStart(p)  == pc[p] \in {"start", "startNew"}
GoesOn(p)   ==
  \/ pc[p] \in {"wait", "using"} \/ (pc[p] = "removeVolume" /\ "remove" \notin flags[p])
  \/ ToCreate(p) /\ Here(p) = NoCtr
  \/ ToStart(p) /\ Here(p) # NoCtr
Beaten(p) ==
  \/ pc[p] \in {"lost", "failed"}
  \/ pc[p] = "inspect" /\ flags[p] \cap {"stop", "remove"} # {}
  \/ pc[p] \in {"stop", "remove"} /\ ~Mine(p)
  \/ pc[p] = "remove" /\ Here(p).running
  \/ ToCreate(p) /\ Here(p) # NoCtr
  \/ ToStart(p) /\ Here(p) = NoCtr
Another(c)  == \E p \in Procs : ctx[p] = c /\ GoesOn(p)
OneGoesOn ==
  NoExcuse => \A p \in Procs : pc[p] \notin {"dead", "copy", "exec"} /\ (Beaten(p) => Another(ctx[p]))

(* Every process gets a client or gives up.                                *)
Ends == \A p \in Procs : <>(pc[p] \in Ended)
=============================================================================
