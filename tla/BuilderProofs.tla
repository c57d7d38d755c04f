----------------------------- MODULE BuilderProofs -----------------------------
(***************************************************************************)
(* Proofs about Builder, for any number of linuxkit processes, images and  *)
(* configurations: a process is given a builder that fits, and a builder   *)
(* in use is not taken away by a process that does not restart it.         *)
(***************************************************************************)
EXTENDS Builder, TLAPS
(* Most leaves are first-order: Zenon is tried first, SMT where it fails.   *)
USE ZenonT(30), SMTT(20)

(* What a step of p may do to the container of context c: remove it, keep  *)
(* it with its id, image and privileges, or create it.                     *)
Gone(c) == ctr'[c] = NoCtr
Kept(c) ==
  /\ ctr[c] # NoCtr /\ ctr'[c] # NoCtr
  /\ ctr'[c].id = ctr[c].id /\ ctr'[c].image = ctr[c].image /\ ctr'[c].privileged = ctr[c].privileged
Made(p, c) ==
  /\ pc[p] = "create" /\ c = ctx[p] /\ ctr[c] = NoCtr
  /\ ctr'[c].id = ids + 1 /\ ids' = ids + 1 /\ Fit(ctr'[c])

(* A container has an id that is not 0, which is what tells it from none.  *)
LEMMA CtrFacts ==
  /\ NoCtr \in Ctrs /\ NoCtr.id = 0 /\ NoCtr.running = FALSE
  /\ \A r \in Ctrs : r # NoCtr => r.id \in 1 .. MaxIds
  /\ \A r \in Ctrs : r # NoCtr => r \in [id : 1 .. MaxIds, image : Images, privileged : BOOLEAN,
                                         config : Configs \cup {NoConfig}, running : BOOLEAN]
<1>1. NoCtr \in Ctrs /\ NoCtr.id = 0 /\ NoCtr.running = FALSE
  BY DEF NoCtr, Ctrs
<1>2. ASSUME NEW r \in Ctrs, r # NoCtr
      PROVE  r \in [id : 1 .. MaxIds, image : Images, privileged : BOOLEAN,
                    config : Configs \cup {NoConfig}, running : BOOLEAN]
  BY <1>2 DEF Ctrs
<1> QED
  BY <1>1, <1>2

(* A container that is started, stopped or configured is still the same.   *)
Same(s, r) == s \in Ctrs /\ s # NoCtr /\ s.id = r.id /\ s.image = r.image /\ s.privileged = r.privileged

(* The three changes of a container's record keep it the same.             *)
LEMMA SameCtr ==
  ASSUME NEW r \in Ctrs, r # NoCtr, NEW s,
         \/ s = [r EXCEPT !.running = TRUE]
         \/ s = [r EXCEPT !.running = FALSE]
         \/ \E cf \in Configs \cup {NoConfig} : s = [r EXCEPT !.config = cf]
  PROVE  Same(s, r)
<1> DEFINE R == [id : 1 .. MaxIds, image : Images, privileged : BOOLEAN,
                 config : Configs \cup {NoConfig}, running : BOOLEAN]
<1>1. r \in R
  BY CtrFacts
<1>2. s \in R /\ s.id = r.id /\ s.image = r.image /\ s.privileged = r.privileged
  BY <1>1
<1>3. R \subseteq Ctrs
  BY DEF Ctrs
<1>4. r.id # 0
  BY <1>1, SMT
<1>5. s # NoCtr
  BY <1>2, <1>4, CtrFacts
<1> QED
  BY <1>2, <1>3, <1>5 DEF Same

(* The created container.                                                  *)
LEMMA NewCtr ==
  ASSUME ids \in Nat, ids < MaxIds
  PROVE  LET r == [id |-> ids + 1, image |-> Target, privileged |-> TRUE, config |-> NoConfig, running |-> FALSE] IN
         r \in Ctrs /\ r # NoCtr /\ r.id = ids + 1 /\ Fit(r) /\ r.running = FALSE /\ r.config = NoConfig
BY BuilderAssumption, SMT DEF Ctrs, NoCtr, Fit

(* Every step changes the containers in one of these ways, and a process   *)
(* that is not told to restart stops only what it has seen.                *)
LEMMA ContainerSteps ==
  ASSUME IInv, NEW p \in Procs, Step(p) \/ Die(p), NEW c \in Contexts
  PROVE  /\ ctr' \in [Contexts -> Ctrs]
         /\ ctr'[c] = ctr[c] \/ Gone(c) \/ Kept(c) \/ Made(p, c)
         /\ ids' = ids \/ (ids' = ids + 1 /\ ids < MaxIds)
         /\ ctr[c].running /\ ~ctr'[c].running => pc[p] = "stop" /\ c = ctx[p] /\ Mine(p)
<1> DEFINE Goal == /\ ctr' \in [Contexts -> Ctrs]
                   /\ ctr'[c] = ctr[c] \/ Gone(c) \/ Kept(c) \/ Made(p, c)
                   /\ ids' = ids \/ (ids' = ids + 1 /\ ids < MaxIds)
                   /\ ctr[c].running /\ ~ctr'[c].running => pc[p] = "stop" /\ c = ctx[p] /\ Mine(p)
<1>0. /\ ctr \in [Contexts -> Ctrs] /\ ctx[p] \in Contexts /\ current \in Contexts /\ ids \in Nat
      /\ config \in Configs \cup {NoConfig}
  BY BuilderAssumption, SMT DEF IInv, TypeOK, WantsOK
<1>1. CASE ctr' = ctr /\ ids' = ids
  BY <1>0, <1>1
<1>2. ASSUME NEW d \in Contexts, ctr[d] # NoCtr, ctr' = [ctr EXCEPT ![d] = [ctr[d] EXCEPT !.running = TRUE]], ids' = ids
      PROVE  Goal
  <2>1. ctr'[d] = [ctr[d] EXCEPT !.running = TRUE] /\ ctr[d] \in Ctrs /\ (c # d => ctr'[c] = ctr[c])
    BY <1>0, <1>2
  <2>2. Same(ctr'[d], ctr[d])
    BY <1>2, <2>1, SameCtr
  <2>3. ctr'[d].running
    BY <1>2, <2>1, CtrFacts
  <2>4. ctr' \in [Contexts -> Ctrs]
    BY <1>0, <1>2, <2>1, <2>2 DEF Same
  <2>5. ctr'[c] = ctr[c] \/ Kept(c)
    BY <1>2, <2>1, <2>2 DEF Kept, Same
  <2> QED
    BY <1>2, <2>1, <2>3, <2>4, <2>5
<1>3. CASE Copy(p) /\ ctr[current] # NoCtr
  <2>1. ctr' = [ctr EXCEPT ![current] = [ctr[current] EXCEPT !.config = config]] /\ ids' = ids
    BY <1>3 DEF Copy, SetCtr
  <2>2. ctr'[current] = [ctr[current] EXCEPT !.config = config] /\ ctr[current] \in Ctrs /\ (c # current => ctr'[c] = ctr[c])
    BY <1>0, <2>1
  <2>3. Same(ctr'[current], ctr[current])
    BY <1>0, <1>3, <2>2, SameCtr
  <2>4. ctr'[current].running = ctr[current].running
    BY <1>3, <2>2, CtrFacts
  <2>5. ctr' \in [Contexts -> Ctrs]
    BY <1>0, <2>1, <2>2, <2>3 DEF Same
  <2>6. ctr'[c] = ctr[c] \/ Kept(c)
    BY <1>3, <2>2, <2>3 DEF Kept, Same
  <2> QED
    BY <2>1, <2>2, <2>4, <2>5, <2>6
<1>4. CASE Stop(p) /\ Mine(p)
  <2> DEFINE d == ctx[p]
  <2>1. ctr' = [ctr EXCEPT ![d] = [ctr[d] EXCEPT !.running = FALSE]] /\ ids' = ids /\ pc[p] = "stop" /\ ctr[d] # NoCtr
    BY <1>4 DEF Stop, SetCtr, Here, Mine
  <2>2. ctr'[d] = [ctr[d] EXCEPT !.running = FALSE] /\ ctr[d] \in Ctrs /\ (c # d => ctr'[c] = ctr[c])
    BY <1>0, <2>1
  <2>3. Same(ctr'[d], ctr[d])
    BY <2>1, <2>2, SameCtr
  <2>4. ctr' \in [Contexts -> Ctrs]
    BY <1>0, <2>1, <2>2, <2>3 DEF Same
  <2>5. ctr'[c] = ctr[c] \/ Kept(c)
    BY <2>1, <2>2, <2>3 DEF Kept, Same
  <2> QED
    BY <1>4, <2>1, <2>2, <2>4, <2>5
<1>5. CASE Remove(p) /\ Removable(p)
  <2>1. ctr' = [ctr EXCEPT ![ctx[p]] = NoCtr] /\ ids' = ids /\ ~ctr[ctx[p]].running
    BY <1>5 DEF Remove, SetCtr, Removable, Here
  <2>2. ctr'[ctx[p]] = NoCtr /\ (c # ctx[p] => ctr'[c] = ctr[c])
    BY <1>0, <2>1
  <2>3. ctr' \in [Contexts -> Ctrs]
    BY <1>0, <2>1, CtrFacts
  <2> QED
    BY <2>1, <2>2, <2>3 DEF Gone
<1>6. CASE Create(p) /\ Here(p) = NoCtr
  <2> DEFINE r == [id |-> ids + 1, image |-> Target, privileged |-> TRUE, config |-> NoConfig, running |-> FALSE]
  <2>1. ctr' = [ctr EXCEPT ![ctx[p]] = r] /\ ids' = ids + 1 /\ ids < MaxIds /\ pc[p] = "create" /\ ctr[ctx[p]] = NoCtr
    BY <1>6 DEF Create, SetCtr, Here
  <2>2. r \in Ctrs /\ r.id = ids + 1 /\ Fit(r)
    BY <1>0, <2>1, NewCtr
  <2> HIDE DEF r
  <2>3. ctr'[ctx[p]] = r /\ (c # ctx[p] => ctr'[c] = ctr[c]) /\ ctr' \in [Contexts -> Ctrs]
    BY <1>0, <2>1, <2>2
  <2>4. ctr'[c] = ctr[c] \/ Made(p, c)
    BY <2>1, <2>2, <2>3 DEF Made, Fit
  <2>5. ctr[c].running => c # ctx[p]
    BY <2>1, CtrFacts
  <2> QED
    BY <2>1, <2>3, <2>4, <2>5
<1>7. CASE Die(p) \/ Builder(p) \/ GiveUp(p) \/ Inspect(p) \/ Exec(p) \/ RemoveVolume(p) \/ Ready(p) \/ Timeout(p)
  BY <1>1, <1>7 DEF Die, Builder, GiveUp, Inspect, Exec, RemoveVolume, Ready, Timeout, dockerVars
<1>8. CASE Start(p) \/ StartNew(p)
  <2>1. CASE Here(p) # NoCtr
    BY <1>0, <1>2, <1>8, <2>1 DEF Start, StartNew, Started, SetCtr, Here
  <2>2. CASE Here(p) = NoCtr
    BY <1>1, <1>8, <2>2 DEF Start, StartNew, dockerVars
  <2> QED
    BY <2>1, <2>2
<1>9. CASE Copy(p) /\ ctr[current] = NoCtr
  BY <1>1, <1>9 DEF Copy, dockerVars
<1>10. CASE (Stop(p) /\ ~Mine(p)) \/ (Remove(p) /\ ~Removable(p)) \/ (Create(p) /\ Here(p) # NoCtr)
  BY <1>1, <1>10 DEF Stop, Remove, Create, dockerVars
<1> QED
  BY <1>3, <1>4, <1>5, <1>6, <1>7, <1>8, <1>9, <1>10 DEF Step

(* A step of p leaves the other processes where they are, and what all     *)
(* want.                                                                   *)
LEMMA OtherProcs ==
  ASSUME IInv, NEW p \in Procs, Step(p) \/ Die(p)
  PROVE  /\ UNCHANGED wantVars
         /\ \A q \in Procs \ {p} :
              pc'[q] = pc[q] /\ ctx'[q] = ctx[q] /\ flags'[q] = flags[q] /\ seen'[q] = seen[q]
<1> USE DEF IInv, TypeOK, Goto, Ensure, Iterate, Decide
<1>1. CASE Builder(p) \/ GiveUp(p)
  BY <1>1 DEF Builder, GiveUp
<1>2. CASE Inspect(p) \/ Exec(p)
  BY <1>2 DEF Inspect, Exec
<1>3. CASE Start(p) \/ Stop(p) \/ Remove(p)
  BY <1>3 DEF Start, Stop, Remove
<1>4. CASE RemoveVolume(p) \/ Create(p) \/ Copy(p) \/ StartNew(p)
  BY <1>4 DEF RemoveVolume, Create, Copy, StartNew
<1>5. CASE Ready(p) \/ Timeout(p) \/ Die(p)
  BY <1>5 DEF Ready, Timeout, Die
<1> QED
  BY <1>1, <1>2, <1>3, <1>4, <1>5 DEF Step

(* Where the flags lead: a container that is to be removed is removed      *)
(* before anything else but its stop.                                      *)
LEMMA FirstSteps ==
  ASSUME NEW fs \in SUBSET Flags
  PROVE  /\ FirstStep(fs) \in {"stop", "remove", "removeVolume", "create"}
         /\ FirstStep(fs) \in {"stop", "remove"} <=> fs \cap {"stop", "remove"} # {}
         /\ "stop" \notin fs => FirstStep(fs) # "stop"
         /\ FirstStep(fs) = "stop" => "stop" \in fs
         /\ FirstStep(fs) = "remove" => "remove" \in fs
BY DEF FirstStep, Flags

(* What Replace asks for begins with the end of the container.             *)
LEMMA ReplaceFacts ==
  ASSUME NEW p \in Procs, NEW r
  PROVE  /\ Replace(p, r) \in SUBSET Flags /\ "remove" \in Replace(p, r)
         /\ FirstStep(Replace(p, r)) \in {"stop", "remove"}
<1>1. Replace(p, r) \in SUBSET Flags /\ "remove" \in Replace(p, r)
  BY DEF Replace, Flags
<1> QED
  BY <1>1, FirstSteps

(* Every step keeps the variables in their types.                          *)
LEMMA TypeNext == IInv /\ [Next]_vars => TypeOK' /\ WantsOK'
<1> SUFFICES ASSUME IInv, [Next]_vars PROVE TypeOK' /\ WantsOK'
  OBVIOUS
<1>1. CASE UNCHANGED vars
  BY <1>1 DEF IInv, TypeOK, WantsOK, vars, dockerVars, wantVars, procVars, histVars
<1>2. ASSUME NEW p \in Procs, Step(p) \/ Die(p) PROVE TypeOK' /\ WantsOK'
  <2>1. WantsOK'
    BY <1>2, OtherProcs DEF IInv, WantsOK, wantVars
  <2>2. ctr' \in [Contexts -> Ctrs]
    BY <1>2, ContainerSteps DEF Contexts
  <2>3. ids' \in 1 .. MaxIds
    <3>1. ids' = ids \/ (ids' = ids + 1 /\ ids < MaxIds)
      BY <1>2, ContainerSteps DEF Contexts
    <3> QED
      BY <3>1, BuilderAssumption, SMT DEF IInv, TypeOK
  <2>4. vol' \in [Contexts -> SUBSET Images]
    <3>1. vol \in [Contexts -> SUBSET Images] /\ ctx[p] \in Contexts
      BY DEF IInv, TypeOK
    <3>2. \A c \in Contexts : ctr[c].image \in Images
      BY BuilderAssumption, SMT DEF IInv, TypeOK, Ctrs, NoCtr
    <3>3. CASE vol' = vol
      BY <3>1, <3>3
    <3>4. CASE vol' = [vol EXCEPT ![ctx[p]] = vol[ctx[p]] \cup {ctr[ctx[p]].image}]
      BY <3>1, <3>2, <3>4
    <3>5. CASE RemoveVolume(p)
      BY <3>1, <3>5 DEF RemoveVolume
    <3> QED
      BY <1>2, <3>3, <3>4, <3>5
         DEF Step, Builder, GiveUp, Inspect, Exec, Start, Started, Stop, Remove, Create, Copy, StartNew, Ready,
             Timeout, Die, dockerVars
  <2>5. /\ pc' \in [Procs -> {"idle"} \cup Working \cup Ended] /\ ctx' \in [Procs -> Contexts]
        /\ tries' \in [Procs -> 0 .. Retries] /\ flags' \in [Procs -> SUBSET Flags] /\ seen' \in [Procs -> Ctrs]
    <3> DEFINE Places == {"idle"} \cup Working \cup Ended
    <3>0. /\ pc \in [Procs -> Places] /\ ctx \in [Procs -> Contexts]
          /\ tries \in [Procs -> 0 .. Retries] /\ flags \in [Procs -> SUBSET Flags] /\ seen \in [Procs -> Ctrs]
          /\ NoCtr \in Ctrs /\ ctr[ctx[p]] \in Ctrs
          /\ Platform \in Contexts /\ Default \in Contexts /\ known \subseteq Contexts /\ Retries \in Nat \ {0}
      BY CtrFacts, BuilderAssumption DEF IInv, TypeOK, WantsOK, Contexts
    <3>1. ASSUME NEW fs \in SUBSET Flags PROVE FirstStep(fs) \in Working
      BY FirstSteps DEF Working
    <3>2. ASSUME NEW r PROVE Replace(p, r) \in SUBSET Flags
      BY ReplaceFacts
    <3>3. flags[p] \ {"stop"} \in SUBSET Flags /\ flags[p] \ {"stop", "remove"} \in SUBSET Flags
      BY <3>0
    <3>4. ASSUME NEW c \in Contexts, Ensure(p, c)
          PROVE  /\ pc' \in [Procs -> Places] /\ ctx' \in [Procs -> Contexts] /\ tries' \in [Procs -> 0 .. Retries]
                 /\ flags' \in [Procs -> SUBSET Flags] /\ seen' \in [Procs -> Ctrs]
      BY <3>0, <3>4, SMT DEF Ensure, Goto, Working
    <3>5. ASSUME Iterate(p)
          PROVE  /\ pc' \in [Procs -> Places] /\ tries' \in [Procs -> 0 .. Retries] /\ seen' \in [Procs -> Ctrs]
      BY <3>0, <3>5, SMT DEF Iterate, Goto, Working
    <3>6. ASSUME NEW r, NEW fits, Decide(p, r, fits)
          PROVE  /\ pc' \in [Procs -> Places] /\ flags' \in [Procs -> SUBSET Flags]
      <4>1. FirstStep(Replace(p, r)) \in Places
        BY <3>1, <3>2
      <4>2. "using" \in Places /\ "start" \in Places
        BY DEF Working, Ended
      <4> HIDE DEF Places
      <4> QED
        BY <3>0, <3>2, <3>6, <4>1, <4>2, SMT DEF Decide, Goto
    <3>7. CASE Builder(p) \/ GiveUp(p)
      BY <3>0, <3>4, <3>7 DEF Builder, GiveUp, Goto, Ended
    <3>8. CASE Inspect(p) \/ Exec(p)
      <4>1. seen' \in [Procs -> Ctrs] /\ UNCHANGED <<ctx, tries>>
        BY <3>0, <3>8 DEF Inspect, Exec, Here
      <4>2. CASE UNCHANGED flags /\ \E l \in Working : pc' = [pc EXCEPT ![p] = l]
        BY <3>0, <4>1, <4>2
      <4>3. FirstStep(flags[p]) \in Working /\ "lost" \in Working /\ "exec" \in Working
        BY <3>0, <3>1 DEF Working
      <4>4. CASE \E r, fits : Decide(p, r, fits)
        BY <3>0, <3>6, <4>1, <4>4
      <4> QED
        BY <3>8, <4>2, <4>3, <4>4 DEF Inspect, Exec, Goto
    <3>9. CASE Start(p)
      BY <3>0, <3>9 DEF Start, Goto, Working
    <3>10. CASE Stop(p) \/ Remove(p)
      <4>1. FirstStep(flags[p] \ {"stop"}) \in Places /\ FirstStep(flags[p] \ {"stop", "remove"}) \in Places
        BY <3>1, <3>3
      <4>2. UNCHANGED <<ctx, flags>>
        BY <3>10 DEF Stop, Remove
      <4>3. CASE Iterate(p)
        BY <3>0, <3>5, <4>2, <4>3
      <4>4. CASE UNCHANGED <<tries, seen>> /\ \E l \in Places : pc' = [pc EXCEPT ![p] = l]
        BY <3>0, <4>2, <4>4
      <4> QED
        BY <3>10, <4>1, <4>3, <4>4 DEF Stop, Remove, Goto
    <3>11. CASE RemoveVolume(p) \/ Create(p) \/ Copy(p) \/ StartNew(p)
      BY <3>0, <3>5, <3>11 DEF RemoveVolume, Create, Copy, StartNew, Goto, Working
    <3>12. CASE Ready(p) \/ Timeout(p) \/ Die(p)
      BY <3>0, <3>12 DEF Ready, Timeout, Die, Goto, Working, Ended
    <3> QED
      BY <1>2, <3>7, <3>8, <3>9, <3>10, <3>11, <3>12 DEF Step
  <2>6. deaths' \in 0 .. MaxDeaths
    <3>1. deaths' = deaths \/ (deaths' = deaths + 1 /\ deaths < MaxDeaths)
      BY <1>2 DEF Step, Builder, GiveUp, Inspect, Exec, Start, Stop, Remove, RemoveVolume, Create, Copy, StartNew,
                  Ready, Timeout, Die, histVars
    <3> QED
      BY <3>1, BuilderAssumption, SMT DEF IInv, TypeOK
  <2> QED
    BY <2>1, <2>2, <2>3, <2>4, <2>5, <2>6 DEF TypeOK
<1> QED
  BY <1>1, <1>2 DEF Next

(* A fit container is never turned into an unfit one.                      *)
LEMMA FitStable ==
  ASSUME IInv, NEW p \in Procs, Step(p) \/ Die(p), NEW c \in Contexts, FitAt(c)
  PROVE  FitAt(c)'
BY ContainerSteps, SMT DEF FitAt, Fit, Gone, Kept, Made

(* A process past its look at the container has a fit one before it.       *)
LEMMA FitNext == IInv /\ [Next]_vars => FitFound'
<1> SUFFICES ASSUME IInv, [Next]_vars PROVE FitFound'
  OBVIOUS
<1>1. CASE UNCHANGED vars
  BY <1>1 DEF IInv, FitFound, FitAt, Fit, vars, dockerVars, procVars
<1>2. ASSUME NEW p \in Procs, Step(p) \/ Die(p), NEW q \in Procs
      PROVE  /\ pc'[q] \in Past => FitAt(ctx[q])'
             /\ pc'[q] = "exec" /\ Fit(seen[q])' => FitAt(ctx[q])'
  <2>0. /\ pc \in [Procs -> {"idle"} \cup Working \cup Ended] /\ flags[p] \in SUBSET Flags
        /\ ctx \in [Procs -> Contexts] /\ seen \in [Procs -> Ctrs] /\ flags \in [Procs -> SUBSET Flags]
        /\ ctr \in [Contexts -> Ctrs]
    BY DEF IInv, TypeOK
  <2>1. CASE q # p
    <3>1. pc'[q] = pc[q] /\ ctx'[q] = ctx[q] /\ seen'[q] = seen[q]
      BY <1>2, <2>1, OtherProcs
    <3>2. FitAt(ctx[q]) => (FitAt(ctx[q]))'
      BY <1>2, <2>0, <3>1, FitStable DEF FitAt, Fit
    <3>3. /\ pc[q] \in Past => FitAt(ctx[q])
          /\ pc[q] = "exec" /\ Fit(seen[q]) => FitAt(ctx[q])
      BY DEF IInv, FitFound
    <3> QED
      BY <3>1, <3>2, <3>3 DEF Fit
  <2>2. CASE q = p
    <3>0. ctx'[p] = ctx[p] /\ FitAt(ctx[p]) => (FitAt(ctx[p]))'
      BY <1>2, <2>0, FitStable DEF FitAt, Fit
    <3>1. CASE pc'[p] \notin Past \cup {"exec"}
      BY <2>2, <3>1
    <3>2. CASE pc'[p] \in Past \cup {"exec"}
      <4>1. CASE ctx'[p] = ctx[p] /\ FitAt(ctx[p])
        BY <2>2, <3>0, <4>1
      <4>2. CASE pc[p] \in Past
        <5>1. FitAt(ctx[p])
          BY <4>2 DEF IInv, FitFound
        <5>2. ctx'[p] = ctx[p]
          BY <1>2, <4>2 DEF Step, Builder, GiveUp, Inspect, Exec, Start, Stop, Remove, RemoveVolume, Create, Copy,
                            StartNew, Ready, Timeout, Die, Past
        <5> QED
          BY <4>1, <5>1, <5>2
      <4>3. CASE Inspect(p)
        <5>1. ctx'[p] = ctx[p] /\ seen'[p] = ctr[ctx[p]]
          BY <2>0, <4>3 DEF Inspect, Here
        <5>2. ctr' = ctr
          BY <4>3 DEF Inspect, dockerVars
        <5>3. CASE pc'[p] = "exec"
          BY <2>2, <5>1, <5>2, <5>3 DEF FitAt, Fit, Past
        <5>4. CASE pc'[p] \in Past
          <6>1. CASE ctr[ctx[p]] = NoCtr
            BY <4>1, <5>1, <6>1 DEF FitAt
          <6>2. CASE ctr[ctx[p]] # NoCtr
            <7>1. Reusable(p, Here(p), TRUE)
              <8>1. FirstStep(Replace(p, Here(p))) \in {"stop", "remove"}
                BY ReplaceFacts
              <8>2. pc'[p] # "exec" /\ pc'[p] \notin {"stop", "remove"}
                BY <5>4 DEF Past
              <8>3. Decide(p, Here(p), TRUE)
                BY <2>0, <4>3, <6>2, <8>2 DEF Inspect, Here, Goto
              <8> QED
                BY <2>0, <8>1, <8>2, <8>3 DEF Decide, Goto
            <7> QED
              BY <4>1, <5>1, <7>1 DEF Reusable, FitAt, Fit, Here
          <6> QED
            BY <6>1, <6>2
        <5> QED
          BY <3>2, <5>3, <5>4
      <4>4. CASE Exec(p)
        <5>1. ctx'[p] = ctx[p] /\ pc[p] = "exec"
          BY <4>4 DEF Exec
        <5>2. CASE Reusable(p, seen[p], Here(p).running /\ Here(p).config = config)
          BY <4>1, <5>1, <5>2 DEF Reusable, Fit, IInv, FitFound
        <5>3. CASE ~Reusable(p, seen[p], Here(p).running /\ Here(p).config = config)
          <6>1. pc'[p] = FirstStep(Replace(p, seen[p]))
            BY <2>0, <4>4, <5>3 DEF Exec, Decide, Goto
          <6> QED
            BY <3>2, <6>1, ReplaceFacts DEF Past
        <5> QED
          BY <5>2, <5>3
      <4>5. CASE Remove(p)
        <5>1. CASE Removable(p)
          <6>1. (ctr[ctx[p]])' = NoCtr
            BY <2>0, <4>5, <5>1 DEF Remove, SetCtr
          <6> QED
            BY <2>2, <6>1 DEF FitAt
        <5>2. CASE ~Removable(p)
          BY <2>0, <3>2, <4>5, <5>2 DEF Remove, Iterate, Goto, Past
        <5> QED
          BY <5>1, <5>2
      <4>6. CASE Stop(p)
        <5>1. CASE Mine(p)
          <6>1. "remove" \in flags[p] \ {"stop"} /\ flags[p] \ {"stop"} \in SUBSET Flags
            BY <2>0, <4>6 DEF Stop, IInv, Replacing
          <6>2. FirstStep(flags[p] \ {"stop"}) \in {"stop", "remove"}
            BY <6>1, FirstSteps
          <6>3. pc'[p] = FirstStep(flags[p] \ {"stop"})
            BY <2>0, <4>6, <5>1 DEF Stop, Goto
          <6> QED
            BY <3>2, <6>2, <6>3 DEF Past
        <5>2. CASE ~Mine(p)
          BY <2>0, <3>2, <4>6, <5>2 DEF Stop, Iterate, Goto, Past
        <5> QED
          BY <5>1, <5>2
      <4>7. CASE Builder(p) \/ GiveUp(p) \/ Die(p)
        BY <2>0, <3>2, <4>7 DEF Builder, GiveUp, Die, Ensure, Goto, Past
      <4>8. CASE Start(p) \/ RemoveVolume(p) \/ Create(p) \/ Copy(p) \/ StartNew(p) \/ Ready(p) \/ Timeout(p)
        BY <4>2, <4>8 DEF Start, RemoveVolume, Create, Copy, StartNew, Ready, Timeout, Past
      <4> QED
        BY <1>2, <4>3, <4>4, <4>5, <4>6, <4>7, <4>8 DEF Step
    <3> QED
      BY <3>1, <3>2
  <2> QED
    BY <2>1, <2>2
<1> QED
  BY <1>1, <1>2 DEF Next, FitFound

(* Who is about to stop a container, and was not told to restart it, has   *)
(* seen that it does not fit.                                              *)
LEMMA ReplacingNext == IInv /\ [Next]_vars => Replacing'
<1> SUFFICES ASSUME IInv, [Next]_vars PROVE Replacing'
  OBVIOUS
<1>1. CASE UNCHANGED vars
  BY <1>1 DEF IInv, Replacing, Fit, vars, wantVars, procVars
<1>2. ASSUME NEW p \in Procs, Step(p) \/ Die(p), NEW q \in Procs
      PROVE  /\ pc'[q] = "exec" => config' # NoConfig
             /\ pc'[q] \in {"stop", "remove"} => "remove" \in flags'[q]
             /\ pc'[q] \in {"stop", "remove"} /\ q \notin restart' /\ config' = NoConfig => ~Fit(seen[q])'
  <2>0. /\ pc \in [Procs -> {"idle"} \cup Working \cup Ended] /\ flags[p] \in SUBSET Flags
        /\ seen \in [Procs -> Ctrs] /\ flags \in [Procs -> SUBSET Flags]
        /\ config' = config /\ restart' = restart
    BY <1>2, OtherProcs DEF IInv, TypeOK, wantVars
  <2>1. CASE q # p
    <3>1. pc'[q] = pc[q] /\ flags'[q] = flags[q] /\ seen'[q] = seen[q]
      BY <1>2, <2>1, OtherProcs
    <3> QED
      BY <2>0, <3>1 DEF IInv, Replacing, Fit
  <2>2. CASE q = p
    <3>1. CASE Inspect(p)
      <4>1. seen'[p] = Here(p)
        BY <2>0, <3>1 DEF Inspect
      <4>2. CASE Here(p) # NoCtr /\ config # NoConfig
        BY <2>0, <2>2, <3>1, <4>2 DEF Inspect, Goto
      <4>3. CASE Here(p) # NoCtr /\ config = NoConfig
        <5>1. Decide(p, Here(p), TRUE)
          BY <3>1, <4>3 DEF Inspect
        <5>2. CASE Reusable(p, Here(p), TRUE)
          BY <2>0, <2>2, <5>1, <5>2 DEF Decide, Goto
        <5>3. CASE ~Reusable(p, Here(p), TRUE)
          <6>1. flags'[p] = Replace(p, Here(p)) /\ pc'[p] = FirstStep(Replace(p, Here(p)))
            BY <2>0, <5>1, <5>3 DEF Decide, Goto
          <6>2. p \notin restart => ~Fit(seen[p])'
            BY <4>1, <5>3 DEF Reusable, Fit
          <6> QED
            BY <2>0, <2>2, <6>1, <6>2, ReplaceFacts
        <5> QED
          BY <5>2, <5>3
      <4>4. CASE Here(p) = NoCtr
        <5>1. pc'[p] = IF flags[p] \cap {"stop", "remove"} # {} THEN "lost" ELSE FirstStep(flags[p])
          BY <2>0, <3>1, <4>4 DEF Inspect, Goto
        <5>2. pc'[p] \notin {"stop", "remove", "exec"}
          BY <2>0, <5>1, FirstSteps
        <5> QED
          BY <2>2, <5>2
      <4> QED
        BY <4>2, <4>3, <4>4
    <3>2. CASE Exec(p)
      <4>1. config # NoConfig
        BY <3>2 DEF Exec, IInv, Replacing
      <4>2. CASE Reusable(p, seen[p], Here(p).running /\ Here(p).config = config)
        BY <2>0, <2>2, <3>2, <4>2 DEF Exec, Decide, Goto
      <4>3. CASE ~Reusable(p, seen[p], Here(p).running /\ Here(p).config = config)
        <5>1. flags'[p] = Replace(p, seen[p]) /\ pc'[p] = FirstStep(Replace(p, seen[p]))
          BY <2>0, <3>2, <4>3 DEF Exec, Decide, Goto
        <5> QED
          BY <2>0, <2>2, <4>1, <5>1, ReplaceFacts
      <4> QED
        BY <4>2, <4>3
    <3>3. CASE Stop(p)
      <4>1. CASE ~Mine(p)
        BY <2>0, <2>2, <3>3, <4>1 DEF Stop, Iterate, Goto
      <4>2. CASE Mine(p)
        <5>1. flags'[p] = flags[p] /\ seen'[p] = seen[p] /\ pc[p] = "stop"
          BY <3>3, <4>2 DEF Stop
        <5>2. pc'[p] = FirstStep(flags[p] \ {"stop"}) /\ flags[p] \ {"stop"} \in SUBSET Flags
          BY <2>0, <3>3, <4>2 DEF Stop, Goto
        <5>3. pc'[p] # "exec"
          BY <5>2, FirstSteps
        <5> QED
          BY <2>0, <2>2, <5>1, <5>3 DEF IInv, Replacing, Fit
      <4> QED
        BY <4>1, <4>2
    <3>4. CASE Remove(p)
      <4>1. CASE ~Removable(p)
        BY <2>0, <2>2, <3>4, <4>1 DEF Remove, Iterate, Goto
      <4>2. CASE Removable(p)
        <5>1. pc'[p] = FirstStep(flags[p] \ {"stop", "remove"}) /\ flags[p] \ {"stop", "remove"} \in SUBSET Flags
          BY <2>0, <3>4, <4>2 DEF Remove, Goto
        <5>2. pc'[p] \notin {"stop", "remove", "exec"}
          BY <5>1, FirstSteps
        <5> QED
          BY <2>2, <5>2
      <4> QED
        BY <4>1, <4>2
    <3>5. CASE Builder(p) \/ GiveUp(p) \/ Die(p)
      BY <2>0, <2>2, <3>5 DEF Builder, GiveUp, Die, Ensure, Goto
    <3>6. CASE Start(p) \/ RemoveVolume(p) \/ Create(p) \/ Copy(p) \/ StartNew(p) \/ Ready(p) \/ Timeout(p)
      BY <2>0, <2>2, <3>6 DEF Start, RemoveVolume, Create, Copy, StartNew, Ready, Timeout, Iterate, Goto
    <3> QED
      BY <1>2, <3>1, <3>2, <3>3, <3>4, <3>5, <3>6 DEF Step
  <2> QED
    BY <2>1, <2>2
<1> QED
  BY <1>1, <1>2 DEF Next, Replacing

(* An id is given out once, so who goes by an id gets what they have seen. *)
LEMMA IdsNext == IInv /\ [Next]_vars => OneContainerPerId'
<1> SUFFICES ASSUME IInv, [Next]_vars PROVE OneContainerPerId'
  OBVIOUS
<1>1. CASE UNCHANGED vars
  BY <1>1 DEF IInv, OneContainerPerId, vars, dockerVars, procVars
<1>2. ASSUME NEW p \in Procs, Step(p) \/ Die(p) PROVE OneContainerPerId'
  <2>0. /\ ids \in Nat /\ ids' \in Nat /\ ids <= ids' /\ ctx \in [Procs -> Contexts] /\ ctx' \in [Procs -> Contexts]
        /\ seen \in [Procs -> Ctrs] /\ ctr \in [Contexts -> Ctrs] /\ NoCtr.id = 0
    <3>1. ids' = ids \/ ids' = ids + 1
      BY <1>2, ContainerSteps DEF Contexts
    <3>2. ids \in Nat
      BY BuilderAssumption, SMT DEF IInv, TypeOK
    <3>3. ctx' \in [Procs -> Contexts]
      BY TypeNext DEF TypeOK
    <3> QED
      BY <3>1, <3>2, <3>3, CtrFacts, SMT DEF IInv, TypeOK
  <2> DEFINE Was(c) == /\ ctr[c] # NoCtr /\ ctr'[c].id = ctr[c].id
                       /\ ctr'[c].image = ctr[c].image /\ ctr'[c].privileged = ctr[c].privileged
  <2>1. ASSUME NEW c \in Contexts
        PROVE  /\ ctr'[c] # NoCtr => ctr'[c].id = ids + 1 \/ Was(c)
               /\ ctr'[c].id <= ids'
    <3>1. ctr[c].id \in Nat
      BY <2>0, CtrFacts, BuilderAssumption, SMT
    <3>2. ctr[c].id <= ids
      BY DEF IInv, OneContainerPerId
    <3>3. ctr'[c] = ctr[c] \/ Gone(c) \/ Kept(c) \/ Made(p, c)
      BY <1>2, ContainerSteps
    <3> QED
      BY <2>0, <3>1, <3>2, <3>3, SMT DEF Gone, Kept, Made
  <2>2. \A c \in Contexts : ctr'[c].id <= ids'
    BY <2>1
  <2>3. ASSUME NEW q \in Procs
        PROVE  /\ seen'[q].id <= ids'
               /\ (ctr[ctx[q]])' # NoCtr /\ (ctr[ctx[q]])'.id = seen'[q].id =>
                    (ctr[ctx[q]])'.image = seen'[q].image /\ (ctr[ctx[q]])'.privileged = seen'[q].privileged
    <3>0. seen[q].id \in Nat /\ seen[q].id <= ids
      BY <2>0, CtrFacts, BuilderAssumption, SMT DEF IInv, OneContainerPerId
    <3>1. CASE seen'[q] = NoCtr
      <4>1. ctr'[ctx'[q]] # NoCtr => ctr'[ctx'[q]].id # 0
        BY <2>0, TypeNext, CtrFacts, SMT DEF TypeOK
      <4> QED
        BY <2>0, <3>1, <4>1, SMT
    <3>2. CASE seen'[q] = seen[q] /\ ctx'[q] = ctx[q]
      <4>1. /\ ctr[ctx[q]] # NoCtr /\ ctr[ctx[q]].id = seen[q].id =>
                 ctr[ctx[q]].image = seen[q].image /\ ctr[ctx[q]].privileged = seen[q].privileged
            /\ ctx[q] \in Contexts
        BY <2>0 DEF IInv, OneContainerPerId
      <4> QED
        BY <2>0, <2>1, <3>0, <3>2, <4>1, SMT
    <3>3. CASE q = p /\ Inspect(p)
      <4>1. seen'[p] = ctr[ctx[p]] /\ ctx'[p] = ctx[p] /\ ctr' = ctr
        BY <2>0, <3>3 DEF Inspect, Here, dockerVars
      <4> QED
        BY <2>0, <2>2, <3>3, <4>1
    <3>4. CASE q # p
      BY <1>2, <3>2, <3>4, OtherProcs
    <3>5. CASE q = p /\ ~Inspect(p)
      <4>1. seen'[p] = NoCtr \/ (seen'[p] = seen[p] /\ ctx'[p] = ctx[p])
        <5>1. CASE Builder(p) \/ GiveUp(p) \/ Die(p)
          BY <2>0, <5>1 DEF Builder, GiveUp, Die, Ensure
        <5>2. CASE Exec(p) \/ Start(p) \/ Stop(p) \/ Remove(p)
          BY <2>0, <5>2 DEF Exec, Start, Stop, Remove, Iterate
        <5>3. CASE RemoveVolume(p) \/ Create(p) \/ Copy(p) \/ StartNew(p) \/ Ready(p) \/ Timeout(p)
          BY <2>0, <5>3 DEF RemoveVolume, Create, Copy, StartNew, Ready, Timeout, Iterate
        <5> QED
          BY <1>2, <3>5, <5>1, <5>2, <5>3 DEF Step
      <4> QED
        BY <3>1, <3>2, <3>5, <4>1
    <3> QED
      BY <3>3, <3>4, <3>5
  <2> QED
    BY <2>2, <2>3 DEF OneContainerPerId
<1> QED
  BY <1>1, <1>2 DEF Next

(* A process that is alone with the builder finds in it the configuration  *)
(* it has seen there or copied to it.                                      *)
LEMMA ConfiguredNext == IInv /\ [Next]_vars => Configured'
<1> SUFFICES ASSUME IInv, [Next]_vars PROVE Configured'
  OBVIOUS
<1> DEFINE Sure == {"start", "removeVolume", "startNew", "wait"}
<1>1. CASE UNCHANGED vars
  BY <1>1 DEF IInv, Configured, vars, dockerVars, wantVars, procVars, histVars
<1>2. ASSUME NEW p \in Procs, Step(p) \/ Die(p) PROVE Configured'
  <2>0. /\ pc \in [Procs -> {"idle"} \cup Working \cup Ended] /\ ctx \in [Procs -> Contexts]
        /\ ctr \in [Contexts -> Ctrs] /\ flags[p] \in SUBSET Flags
        /\ config' = config /\ current' = current /\ current \in Contexts
    BY <1>2, OtherProcs DEF IInv, TypeOK, WantsOK, wantVars
  <2>1. alone' => alone /\ (Builder(p) => \A q \in Procs : pc[q] \notin Working)
    BY <1>2 DEF Step, Builder, GiveUp, Inspect, Exec, Start, Stop, Remove, RemoveVolume, Create, Copy, StartNew,
                Ready, Timeout, Die, histVars
  <2>2. Builder(p) \/ pc[p] \in Working
    BY <1>2 DEF Step, GiveUp, Inspect, Exec, Start, Stop, Remove, RemoveVolume, Create, Copy, StartNew,
                Ready, Timeout, Die, Working
  <2>3. ASSUME NEW q \in Procs, q # p, alone', pc'[q] \in Working PROVE FALSE
    <3>1. pc[q] \in Working
      BY <1>2, <2>3, OtherProcs
    <3> QED
      BY <2>1, <2>2, <2>3, <3>1 DEF IInv, Configured
  <2>4. ASSUME alone', config # NoConfig, ctx'[p] = current, pc'[p] \in Sure
        PROVE  ctr'[current] = NoCtr \/ ctr'[current].config = config
    <3>0. ASSUME ctx[p] = current, pc[p] \in Sure
          PROVE  ctr[current] = NoCtr \/ ctr[current].config = config
      BY <2>1, <2>4, <3>0 DEF IInv, Configured
    <3>1. CASE Inspect(p)
      <4>1. ctr' = ctr /\ ctx'[p] = ctx[p] /\ pc'[p] # "exec"
        BY <2>4, <3>1 DEF Inspect, dockerVars
      <4>2. ctr[ctx[p]] = NoCtr
        BY <2>0, <2>4, <3>1, <4>1 DEF Inspect, Goto, Here
      <4> QED
        BY <2>4, <4>1, <4>2
    <3>2. CASE Exec(p)
      <4>1. ctr' = ctr /\ ctx'[p] = ctx[p]
        BY <3>2 DEF Exec, dockerVars
      <4>2. CASE Reusable(p, seen[p], Here(p).running /\ Here(p).config = config)
        BY <2>4, <4>1, <4>2 DEF Reusable, Here
      <4>3. CASE ~Reusable(p, seen[p], Here(p).running /\ Here(p).config = config)
        <5>1. pc'[p] = FirstStep(Replace(p, seen[p]))
          BY <2>0, <3>2, <4>3 DEF Exec, Decide, Goto
        <5> QED
          BY <2>4, <5>1, ReplaceFacts
      <4> QED
        BY <4>2, <4>3
    <3>3. CASE Start(p) \/ StartNew(p)
      <4>1. ctx'[p] = ctx[p] /\ pc[p] \in Sure
        BY <3>3 DEF Start, StartNew
      <4>2. CASE Here(p) = NoCtr
        BY <2>0, <2>4, <3>3, <4>2 DEF Start, StartNew, Goto
      <4>3. CASE Here(p) # NoCtr
        <5>1. ctr'[current] = [ctr[current] EXCEPT !.running = TRUE] /\ ctr[current] # NoCtr
          BY <2>0, <2>4, <3>3, <4>1, <4>3 DEF Start, StartNew, Started, SetCtr, Here
        <5>2. ctr'[current].config = ctr[current].config
          BY <2>0, <5>1, CtrFacts, SMT
        <5> QED
          BY <2>4, <3>0, <4>1, <5>1, <5>2
      <4> QED
        BY <4>2, <4>3
    <3>4. CASE Stop(p)
      <4>1. CASE ~Mine(p)
        BY <2>0, <2>4, <3>4, <4>1 DEF Stop, Iterate, Goto
      <4>2. CASE Mine(p)
        <5>1. "remove" \in flags[p] \ {"stop"} /\ flags[p] \ {"stop"} \in SUBSET Flags
          BY <2>0, <3>4 DEF Stop, IInv, Replacing
        <5>2. pc'[p] = FirstStep(flags[p] \ {"stop"})
          BY <2>0, <3>4, <4>2 DEF Stop, Goto
        <5> QED
          BY <2>4, <5>1, <5>2, FirstSteps
      <4> QED
        BY <4>1, <4>2
    <3>5. CASE Remove(p)
      <4>1. CASE ~Removable(p)
        BY <2>0, <2>4, <3>5, <4>1 DEF Remove, Iterate, Goto
      <4>2. CASE Removable(p)
        BY <2>0, <2>4, <3>5, <4>2 DEF Remove, SetCtr
      <4> QED
        BY <4>1, <4>2
    <3>6. CASE RemoveVolume(p)
      BY <2>4, <3>0, <3>6 DEF RemoveVolume
    <3>7. CASE Create(p)
      BY <2>0, <2>4, <3>7 DEF Create, Iterate, Goto
    <3>8. CASE Copy(p)
      <4>1. CASE ctr[current] = NoCtr
        BY <2>0, <2>4, <3>8, <4>1 DEF Copy, Goto
      <4>2. CASE ctr[current] # NoCtr
        <5>1. ctr'[current] = [ctr[current] EXCEPT !.config = config]
          BY <2>0, <3>8, <4>2 DEF Copy, SetCtr
        <5> QED
          BY <2>0, <4>2, <5>1, CtrFacts, SMT
      <4> QED
        BY <4>1, <4>2
    <3>9. CASE Builder(p) \/ GiveUp(p) \/ Ready(p) \/ Timeout(p) \/ Die(p)
      BY <2>0, <2>4, <3>9 DEF Builder, GiveUp, Ready, Timeout, Die, Ensure, Goto
    <3> QED
      BY <1>2, <3>1, <3>2, <3>3, <3>4, <3>5, <3>6, <3>7, <3>8, <3>9 DEF Step
  <2>5. Sure \subseteq Working
    BY DEF Working
  <2> QED
    BY <2>0, <2>3, <2>4, <2>5 DEF Configured
<1> QED
  BY <1>1, <1>2 DEF Next

(* The processes have not begun.                                           *)
LEMMA InitInv == Init => IInv
<1> SUFFICES ASSUME Init PROVE IInv
  OBVIOUS
<1>1. TypeOK /\ WantsOK
  <2>1. ctr \in [Contexts -> Ctrs] /\ \A c \in Contexts : ctr[c] = NoCtr \/ ctr[c].id = 1
    BY BuilderAssumption, CtrFacts DEF Init
  <2>2. \A c \in Contexts : ctr[c].image \in Images
    BY <2>1, CtrFacts, BuilderAssumption, SMT DEF NoCtr
  <2>3. vol \in [Contexts -> SUBSET Images]
    BY <2>2 DEF Init
  <2> QED
    BY <2>1, <2>3, BuilderAssumption, CtrFacts, SMT DEF Init, TypeOK, WantsOK, Contexts, Working, Ended
<1>2. OneContainerPerId
  <2>1. \A c \in Contexts : ctr[c] = NoCtr \/ ctr[c].id = 1
    BY BuilderAssumption DEF Init
  <2> QED
    BY <2>1, CtrFacts, SMT DEF Init, OneContainerPerId, Contexts
<1>3. FitFound /\ Replacing /\ Configured
  BY DEF Init, FitFound, Replacing, Configured, Past, Working
<1> QED
  BY <1>1, <1>2, <1>3 DEF IInv

(* The inductive invariant of the builder.                                 *)
THEOREM Invariance == Spec => []IInv
<1>1. IInv /\ [Next]_vars => IInv'
  BY TypeNext, FitNext, ReplacingNext, IdsNext, ConfiguredNext DEF IInv
<1> QED
  BY <1>1, InitInv, PTL DEF Spec

(* The variables keep their types.                                         *)
THEOREM TypeCorrect == Spec => []TypeOK
<1>1. IInv => TypeOK
  BY DEF IInv
<1> QED
  BY <1>1, Invariance, PTL

(* ClientFits: whoever gets a client has the image and the privileges they *)
(* asked for, and alone the configuration too.                             *)
THEOREM ClientsFit == Spec => ClientFits
<1> DEFINE Fits(p) == LET r == ctr[ctx[p]] IN
                        /\ r.running /\ r.image = Target /\ r.privileged
                        /\ config # NoConfig /\ alone /\ ctx[p] = current => r.config = config
<1>1. ASSUME IInv, [Next]_vars, NEW p \in Procs, Served(p) PROVE Fits(p)
  <2>0. /\ pc \in [Procs -> {"idle"} \cup Working \cup Ended] /\ ctr[ctx[p]] \in Ctrs /\ flags[p] \in SUBSET Flags
    BY <1>1 DEF IInv, TypeOK
  <2>1. PICK q \in Procs : Step(q) \/ Die(q)
    BY <1>1 DEF Next, Served, vars, procVars
  <2>2. q = p
    BY <1>1, <2>1, OtherProcs DEF Served
  <2>3. Step(p)
    BY <1>1, <2>0, <2>1, <2>2 DEF Die, Goto, Served
  <2>4. CASE Ready(p)
    <3>1. ctr[ctx[p]].running /\ pc[p] = "wait"
      BY <2>4 DEF Ready, Here
    <3>2. ctr[ctx[p]] # NoCtr
      BY <3>1, CtrFacts
    <3>3. Fit(ctr[ctx[p]])
      BY <1>1, <3>1, <3>2 DEF IInv, FitFound, FitAt, Past
    <3>4. config # NoConfig /\ alone /\ ctx[p] = current => ctr[ctx[p]].config = config
      BY <1>1, <3>1, <3>2 DEF IInv, Configured
    <3> QED
      BY <3>1, <3>3, <3>4 DEF Fit
  <2>5. CASE Inspect(p)
    <3>1. FirstStep(Replace(p, Here(p))) \in {"stop", "remove"}
      BY ReplaceFacts
    <3>2. FirstStep(flags[p]) # "using"
      BY <2>0, FirstSteps
    <3>3. config = NoConfig /\ Reusable(p, Here(p), TRUE) /\ Here(p).running
      BY <1>1, <2>0, <2>5, <3>1, <3>2 DEF Inspect, Decide, Goto, Served
    <3> QED
      BY <3>3 DEF Reusable, Here
  <2>6. CASE Exec(p)
    <3> DEFINE fits == Here(p).running /\ Here(p).config = config
    <3>1. FirstStep(Replace(p, seen[p])) \in {"stop", "remove"}
      BY ReplaceFacts
    <3>2. Reusable(p, seen[p], fits)
      BY <1>1, <2>0, <2>6, <3>1 DEF Exec, Decide, Goto, Served
    <3>3. fits /\ Fit(seen[p]) /\ pc[p] = "exec"
      BY <2>6, <3>2 DEF Reusable, Fit, Exec
    <3>4. ctr[ctx[p]] # NoCtr
      BY <3>3, CtrFacts DEF Here
    <3>5. Fit(ctr[ctx[p]])
      BY <1>1, <3>3, <3>4 DEF IInv, FitFound, FitAt
    <3> QED
      BY <3>3, <3>5 DEF Fit, Here
  <2>7. CASE Stop(p) \/ Remove(p)
    <3>1. flags[p] \ {"stop"} \in SUBSET Flags /\ flags[p] \ {"stop", "remove"} \in SUBSET Flags
      BY <2>0
    <3>2. FirstStep(flags[p] \ {"stop"}) # "using" /\ FirstStep(flags[p] \ {"stop", "remove"}) # "using"
      BY <3>1, FirstSteps
    <3> QED
      BY <1>1, <2>0, <2>7, <3>2 DEF Stop, Remove, Iterate, Goto, Served
  <2>8. CASE Builder(p) \/ GiveUp(p) \/ Start(p) \/ RemoveVolume(p) \/ Create(p) \/ Copy(p) \/ StartNew(p) \/ Timeout(p)
    BY <1>1, <2>0, <2>8
       DEF Builder, GiveUp, Start, RemoveVolume, Create, Copy, StartNew, Timeout, Ensure, Iterate, Goto, Served
  <2> QED
    BY <2>3, <2>4, <2>5, <2>6, <2>7, <2>8 DEF Step
<1>2. IInv /\ [Next]_vars => [\A p \in Procs : Served(p) => Fits(p)]_vars
  BY <1>1
<1> QED
  BY <1>2, Invariance, PTL DEF Spec, ClientFits

(* InUseKept: without a configuration file a builder in use is stopped     *)
(* only by a process that was told to restart it.                          *)
THEOREM InUseIsKept == Spec => InUseKept
<1> DEFINE Kind(p, q) == /\ pc[q] = "using" /\ pc[p] # pc'[p] /\ p \notin restart
                         /\ config = NoConfig /\ ctr[ctx[q]].running
           Running(q) == ctr'[ctx[q]].running
<1>1. ASSUME IInv, [Next]_vars, NEW p \in Procs, NEW q \in Procs, Kind(p, q) PROVE Running(q)
  <2>1. PICK r \in Procs : Step(r) \/ Die(r)
    BY <1>1 DEF Next, vars, procVars
  <2>2. r = p
    BY <1>1, <2>1, OtherProcs
  <2>3. SUFFICES ASSUME ~Running(q) PROVE FALSE
    OBVIOUS
  <2>4. ctx[q] \in Contexts
    BY <1>1 DEF IInv, TypeOK
  <2>5. pc[p] = "stop" /\ ctx[q] = ctx[p] /\ Mine(p)
    BY <1>1, <2>1, <2>2, <2>3, <2>4, ContainerSteps
  <2>6. ctr[ctx[q]] # NoCtr
    BY <1>1, CtrFacts
  <2>7. Fit(ctr[ctx[q]])
    BY <1>1, <2>6 DEF IInv, FitFound, FitAt, Past
  <2>8. ~Fit(seen[p])
    BY <1>1, <2>5 DEF IInv, Replacing
  <2>9. ctr[ctx[p]].image = seen[p].image /\ ctr[ctx[p]].privileged = seen[p].privileged
    BY <1>1, <2>5 DEF IInv, OneContainerPerId, Mine, Here
  <2> QED
    BY <2>5, <2>7, <2>8, <2>9 DEF Fit
<1>2. IInv /\ [Next]_vars => [\A p \in Procs, q \in Procs : Kind(p, q) => Running(q)]_vars
  BY <1>1
<1> QED
  BY <1>2, Invariance, PTL DEF Spec, InUseKept

(* Who is to remove a container that another image made has its volume to   *)
(* remove too.                                                             *)
LEMMA VolumeGoesNext ==
  ASSUME IInv, VolumeGoes, NEW p \in Procs, Step(p) \/ Die(p)
  PROVE  VolumeGoes'
<1> SUFFICES ASSUME NEW q \in Procs, pc'[q] \in {"stop", "remove"}, q \notin restart', seen'[q].image # Target
             PROVE  "removeVolume" \in flags'[q]
  BY DEF VolumeGoes
<1>0. /\ pc \in [Procs -> {"idle"} \cup Working \cup Ended] /\ flags[p] \in SUBSET Flags
      /\ seen \in [Procs -> Ctrs] /\ flags \in [Procs -> SUBSET Flags] /\ restart' = restart
  BY OtherProcs DEF IInv, TypeOK, wantVars
<1>1. CASE q # p
  <2>1. pc'[q] = pc[q] /\ flags'[q] = flags[q] /\ seen'[q] = seen[q]
    BY <1>1, OtherProcs
  <2> QED
    BY <1>0, <2>1 DEF VolumeGoes
<1>2. CASE q = p
  <2>1. ASSUME NEW r, NEW fits, Decide(p, r, fits), seen'[p] = r PROVE "removeVolume" \in flags'[p]
    <3>1. flags'[p] = Replace(p, r)
      BY <1>0, <1>2, <2>1 DEF Decide, Goto
    <3> QED
      BY <1>0, <1>2, <2>1, <3>1 DEF Replace
  <2>2. CASE Inspect(p)
    <3>1. seen'[p] = Here(p)
      BY <1>0, <2>2 DEF Inspect
    <3>2. CASE Here(p) # NoCtr /\ config # NoConfig
      BY <1>0, <1>2, <2>2, <3>2, Zenon DEF Inspect, Goto
    <3>3. CASE Here(p) = NoCtr
      <4>1. pc'[p] = IF flags[p] \cap {"stop", "remove"} # {} THEN "lost" ELSE FirstStep(flags[p])
        BY <1>0, <2>2, <3>3 DEF Inspect, Goto
      <4> QED
        BY <1>0, <1>2, <4>1, FirstSteps
    <3> QED
      BY <1>2, <2>1, <2>2, <3>1, <3>2, <3>3, Zenon DEF Inspect
  <2>3. CASE Exec(p)
    BY <1>2, <2>1, <2>3 DEF Exec
  <2>4. CASE Stop(p)
    <3>1. CASE ~Mine(p)
      BY <1>0, <1>2, <2>4, <3>1 DEF Stop, Iterate, Goto
    <3>2. CASE Mine(p)
      BY <1>0, <1>2, <2>4, <3>2 DEF Stop, VolumeGoes
    <3> QED
      BY <3>1, <3>2
  <2>5. CASE Remove(p)
    <3>1. CASE ~Removable(p)
      BY <1>0, <1>2, <2>5, <3>1 DEF Remove, Iterate, Goto
    <3>2. CASE Removable(p)
      <4>1. pc'[p] = FirstStep(flags[p] \ {"stop", "remove"}) /\ flags[p] \ {"stop", "remove"} \in SUBSET Flags
        BY <1>0, <2>5, <3>2 DEF Remove, Goto
      <4> QED
        BY <1>2, <4>1, FirstSteps
    <3> QED
      BY <3>1, <3>2
  <2>6. CASE Builder(p) \/ GiveUp(p) \/ Die(p)
    BY <1>0, <1>2, <2>6 DEF Builder, GiveUp, Die, Ensure, Goto
  <2>7. CASE Start(p) \/ RemoveVolume(p) \/ Create(p) \/ Copy(p) \/ StartNew(p) \/ Ready(p) \/ Timeout(p)
    BY <1>0, <1>2, <2>7 DEF Start, RemoveVolume, Create, Copy, StartNew, Ready, Timeout, Iterate, Goto
  <2> QED
    BY <2>2, <2>3, <2>4, <2>5, <2>6, <2>7 DEF Step
<1> QED
  BY <1>1, <1>2

(* A volume stays with the image that wrote to it, or is on its way out.   *)
LEMMA VolumeOfNext ==
  ASSUME IInv, VolumesKept, NEW p \in Procs, Step(p) \/ Die(p), alone', restart = {}, alone, NEW c \in Contexts
  PROVE  VolumeOf(c)'
<1>0. /\ pc \in [Procs -> {"idle"} \cup Working \cup Ended] /\ ctx \in [Procs -> Contexts]
      /\ ctr \in [Contexts -> Ctrs] /\ vol \in [Contexts -> SUBSET Images] /\ current \in Contexts
      /\ ctx[p] \in Contexts /\ flags[p] \in SUBSET Flags /\ ids \in Nat /\ config \in Configs \cup {NoConfig}
  BY SMT DEF IInv, TypeOK, WantsOK
<1>1. VolumeOf(c)
  BY DEF VolumesKept
<1>2. ASSUME pc[p] # "removeVolume", Cleaning(c) PROVE Cleaning(c)'
  <2>1. PICK q \in Procs : pc[q] = "removeVolume" /\ ctx[q] = c
    BY <1>2 DEF Cleaning
  <2>2. pc'[q] = "removeVolume" /\ ctx'[q] = c
    BY <1>2, <2>1, OtherProcs
  <2> QED
    BY <2>2 DEF Cleaning
<1>3. CASE pc[p] # "removeVolume" /\ ctr'[c] = ctr[c] /\ vol'[c] = vol[c]
  BY <1>1, <1>2, <1>3 DEF VolumeOf
<1>4. ASSUME ctr[c] # NoCtr, Same(ctr'[c], ctr[c]), ctr'[c].running => ctr[c].running, vol'[c] = vol[c]
      PROVE  VolumeOf(c)'
  BY <1>1, <1>4 DEF VolumeOf, Same
<1>5. ASSUME ctr[c] # NoCtr, Same(ctr'[c], ctr[c]), vol'[c] = vol[c] \cup {ctr[c].image}
      PROVE  VolumeOf(c)'
  BY <1>1, <1>5 DEF VolumeOf, Same
<1>6. CASE (Start(p) \/ StartNew(p)) /\ Here(p) # NoCtr
  <2>1. /\ ctr' = [ctr EXCEPT ![ctx[p]] = [ctr[ctx[p]] EXCEPT !.running = TRUE]] /\ ctr[ctx[p]] # NoCtr
        /\ vol' = [vol EXCEPT ![ctx[p]] = vol[ctx[p]] \cup {ctr[ctx[p]].image}]
        /\ pc[p] # "removeVolume"
    BY <1>6 DEF Start, StartNew, Started, SetCtr, Here
  <2>2. Same([ctr[ctx[p]] EXCEPT !.running = TRUE], ctr[ctx[p]])
    BY <1>0, <2>1, SameCtr
  <2>3. CASE c = ctx[p]
    BY <1>0, <1>5, <2>1, <2>2, <2>3
  <2>4. CASE c # ctx[p]
    BY <1>0, <1>3, <2>1, <2>4
  <2> QED
    BY <2>3, <2>4
<1>7. CASE Stop(p) /\ Mine(p)
  <2> DEFINE s == [ctr[ctx[p]] EXCEPT !.running = FALSE]
  <2>1. /\ ctr' = [ctr EXCEPT ![ctx[p]] = s] /\ ctr[ctx[p]] # NoCtr
        /\ vol' = vol /\ pc[p] # "removeVolume"
    BY <1>7 DEF Stop, Mine, SetCtr, Here
  <2>2. Same(s, ctr[ctx[p]])
    BY <1>0, <2>1, SameCtr
  <2>3. ~s.running
    BY <1>0, <2>1, CtrFacts, SMT
  <2> HIDE DEF s
  <2>4. CASE c = ctx[p]
    BY <1>0, <1>4, <2>1, <2>2, <2>3, <2>4
  <2>5. CASE c # ctx[p]
    BY <1>0, <1>3, <2>1, <2>5
  <2> QED
    BY <2>4, <2>5
<1>8. CASE Copy(p) /\ ctr[current] # NoCtr
  <2> DEFINE s == [ctr[current] EXCEPT !.config = config]
  <2>1. ctr' = [ctr EXCEPT ![current] = s] /\ vol' = vol /\ pc[p] # "removeVolume"
    BY <1>8 DEF Copy, SetCtr
  <2>2. Same(s, ctr[current])
    BY <1>0, <1>8, SameCtr
  <2>3. s.running = ctr[current].running
    BY <1>0, <1>8, CtrFacts, SMT
  <2> HIDE DEF s
  <2>4. CASE c = current
    BY <1>0, <1>4, <1>8, <2>1, <2>2, <2>3, <2>4
  <2>5. CASE c # current
    BY <1>0, <1>3, <2>1, <2>5
  <2> QED
    BY <2>4, <2>5
<1>9. CASE Remove(p) /\ Removable(p)
  <2>1. /\ ctr' = [ctr EXCEPT ![ctx[p]] = NoCtr] /\ ctr[ctx[p]] # NoCtr /\ ctr[ctx[p]].id = seen[p].id
        /\ vol' = vol /\ pc[p] = "remove" /\ ctx' = ctx
        /\ pc' = [pc EXCEPT ![p] = FirstStep(flags[p] \ {"stop", "remove"})]
    BY <1>9 DEF Remove, Removable, Mine, SetCtr, Here, Goto
  <2>2. ctr[ctx[p]].image = seen[p].image
    BY <2>1 DEF IInv, OneContainerPerId
  <2>3. CASE c # ctx[p]
    BY <1>0, <1>3, <2>1, <2>3
  <2>4. CASE c = ctx[p] /\ seen[p].image = Target
    BY <1>0, <1>1, <2>1, <2>2, <2>4 DEF VolumeOf
  <2>5. CASE c = ctx[p] /\ seen[p].image # Target
    <3>1. "removeVolume" \in flags[p]
      BY <2>1, <2>5 DEF VolumesKept, VolumeGoes
    <3>2. pc'[p] = "removeVolume"
      BY <1>0, <2>1, <3>1 DEF FirstStep
    <3>3. Cleaning(c)'
      BY <2>1, <2>5, <3>2 DEF Cleaning
    <3> QED
      BY <1>0, <2>1, <2>5, <3>3 DEF VolumeOf
  <2> QED
    BY <2>3, <2>4, <2>5
<1>10. CASE RemoveVolume(p)
  <2>1. /\ ctr' = ctr /\ ctx' = ctx
        /\ vol' = [vol EXCEPT ![ctx[p]] = IF ctr[ctx[p]] = NoCtr THEN {} ELSE vol[ctx[p]]]
    BY <1>10 DEF RemoveVolume, Here
  <2>2. CASE c = ctx[p]
    BY <1>0, <1>1, <2>1, <2>2 DEF VolumeOf
  <2>3. CASE c # ctx[p]
    <3>1. vol'[c] = vol[c]
      BY <1>0, <2>1, <2>3
    <3>2. Cleaning(c) => Cleaning(c)'
      BY <2>3, OtherProcs DEF Cleaning
    <3> QED
      BY <1>1, <2>1, <3>1, <3>2 DEF VolumeOf
  <2> QED
    BY <2>2, <2>3
<1>11. CASE Create(p) /\ Here(p) = NoCtr
  <2> DEFINE r == [id |-> ids + 1, image |-> Target, privileged |-> TRUE, config |-> NoConfig, running |-> FALSE]
  <2>1. ctr' = [ctr EXCEPT ![ctx[p]] = r] /\ ids < MaxIds /\ vol' = vol /\ pc[p] = "create" /\ ctr[ctx[p]] = NoCtr
    BY <1>11 DEF Create, SetCtr, Here
  <2>2. r # NoCtr /\ r.image = Target /\ ~r.running
    BY <1>0, <2>1, NewCtr DEF Fit
  <2> HIDE DEF r
  <2>3. CASE c # ctx[p]
    BY <1>0, <1>3, <2>1, <2>3
  <2>4. CASE c = ctx[p]
    <3>1. ~Cleaning(c)
      BY <2>1 DEF Cleaning, IInv, Configured, Working
    <3> QED
      BY <1>0, <1>1, <2>1, <2>2, <2>4, <3>1 DEF VolumeOf
  <2> QED
    BY <2>3, <2>4
<1>12. CASE ctr' = ctr /\ vol' = vol /\ pc[p] # "removeVolume"
  BY <1>3, <1>12
<1>13. CASE Builder(p) \/ GiveUp(p) \/ Inspect(p) \/ Exec(p) \/ Ready(p) \/ Timeout(p)
  BY <1>12, <1>13 DEF Builder, GiveUp, Inspect, Exec, Ready, Timeout, dockerVars
<1>14. CASE (Start(p) \/ StartNew(p)) /\ Here(p) = NoCtr
  BY <1>12, <1>14 DEF Start, StartNew, dockerVars
<1>15. CASE (Stop(p) /\ ~Mine(p)) \/ (Remove(p) /\ ~Removable(p)) \/ (Create(p) /\ Here(p) # NoCtr)
            \/ (Copy(p) /\ ctr[current] = NoCtr)
  BY <1>12, <1>15 DEF Stop, Remove, Create, Copy, dockerVars
<1>16. ~Die(p)
  BY DEF Die
<1> QED
  BY <1>6, <1>7, <1>8, <1>9, <1>10, <1>11, <1>13, <1>14, <1>15, <1>16 DEF Step

(* At first a volume goes with the container that was left.                *)
LEMMA VolumesInit == Init => VolumesKept
<1> SUFFICES ASSUME Init PROVE VolumesKept
  OBVIOUS
<1>1. VolumeGoes
  BY DEF Init, VolumeGoes
<1>2. ASSUME NEW c \in Contexts PROVE VolumeOf(c)
  BY DEF Init, VolumeOf
<1> QED
  BY <1>1, <1>2 DEF VolumesKept

(* Every step keeps it so.                                                  *)
LEMMA VolumesNext == IInv /\ VolumesKept /\ [Next]_vars => VolumesKept'
<1> SUFFICES ASSUME IInv, VolumesKept, [Next]_vars PROVE VolumesKept'
  OBVIOUS
<1>1. CASE UNCHANGED vars
  BY <1>1 DEF VolumesKept, VolumeGoes, VolumeOf, Cleaning, vars, dockerVars, wantVars, procVars, histVars
<1>2. ASSUME NEW p \in Procs, Step(p) \/ Die(p) PROVE VolumesKept'
  <2>1. VolumeGoes'
    BY <1>2, VolumeGoesNext DEF VolumesKept
  <2>2. restart' = restart
    BY <1>2, OtherProcs DEF wantVars
  <2>3. alone' => alone
    BY <1>2 DEF Step, Builder, GiveUp, Inspect, Exec, Start, Stop, Remove, RemoveVolume, Create, Copy, StartNew,
                Ready, Timeout, Die, histVars
  <2>4. ASSUME alone', restart = {}, NEW c \in Contexts PROVE VolumeOf(c)'
    BY <1>2, <2>3, <2>4, VolumeOfNext
  <2> QED
    BY <2>1, <2>2, <2>4 DEF VolumesKept
<1> QED
  BY <1>1, <1>2 DEF Next

(* When processes come one after the other and none is told to restart the *)
(* builder, a builder that runs has a state volume to which no other image *)
(* has written (startBuilder and the clean-up before it).                  *)
THEOREM VolumesFit == Spec => []VolumeFitsAlone
<1>1. VolumesKept => VolumeFitsAlone
  <2> SUFFICES ASSUME VolumesKept, alone, restart = {}, NEW c \in Contexts, ctr[c].running
               PROVE  vol[c] = {ctr[c].image}
    BY DEF VolumeFitsAlone, VolumeFits
  <2>1. VolumeOf(c) /\ ctr[c] # NoCtr
    BY CtrFacts DEF VolumesKept
  <2> QED
    BY <2>1 DEF VolumeOf
<1> QED
  BY <1>1, VolumesInit, VolumesNext, Invariance, PTL DEF Spec

(* Nobody has an excuse after a step only if nobody had one before, and    *)
(* the step is none that waits in vain or ends a process.                  *)
LEMMA NoNewExcuse ==
  ASSUME IInv, OneGoesOn, NEW p \in Procs, Step(p) \/ Die(p), NoExcuse'
  PROVE  /\ NoExcuse /\ ~Die(p) /\ ~Timeout(p) /\ ~Exec(p) /\ ~Copy(p)
<1>1. config' = config /\ given' = given
  BY OtherProcs DEF wantVars
<1>2. ~Die(p) /\ ~Timeout(p)
  BY BuilderAssumption, SMT DEF Die, Timeout, NoExcuse, IInv, TypeOK
<1>3. late' = late /\ deaths' = deaths
  BY <1>2 DEF Step, Builder, GiveUp, Inspect, Exec, Start, Stop, Remove, RemoveVolume, Create, Copy, StartNew,
              Ready, histVars
<1>4. NoExcuse
  BY <1>1, <1>3 DEF NoExcuse
<1> QED
  BY <1>2, <1>4 DEF OneGoesOn, Exec, Copy

(* A process that changes whether a container is there, which one, or      *)
(* starts it goes on itself.                                               *)
LEMMA Changes ==
  ASSUME IInv, NoExcuse, NEW p \in Procs, Step(p), ~Copy(p), NEW c \in Contexts
  PROVE  \/ Another(c)'
         \/ /\ ctr'[c] = NoCtr <=> ctr[c] = NoCtr
            /\ ctr'[c].id = ctr[c].id /\ (ctr'[c].running => ctr[c].running)
<1>0. /\ pc \in [Procs -> {"idle"} \cup Working \cup Ended] /\ ctx \in [Procs -> Contexts]
      /\ ctr \in [Contexts -> Ctrs] /\ flags \in [Procs -> SUBSET Flags] /\ flags[p] \in SUBSET Flags
      /\ ctx[p] \in Contexts /\ ids \in Nat /\ config = NoConfig
  BY SMT DEF IInv, TypeOK, NoExcuse
<1>1. CASE ctr'[c] = ctr[c]
  BY <1>1
<1>2. CASE (Start(p) \/ StartNew(p)) /\ Here(p) # NoCtr /\ c = ctx[p]
  <2>1. pc'[p] = "wait" \/ (pc'[p] = "removeVolume" /\ "remove" \notin flags'[p])
    BY <1>0, <1>2, SMT DEF Start, StartNew, Goto
  <2>2. ctx' = ctx
    BY <1>2 DEF Start, StartNew
  <2> QED
    BY <1>2, <2>1, <2>2 DEF Another, GoesOn
<1>3. CASE Stop(p) /\ Mine(p) /\ c = ctx[p]
  <2> DEFINE s == [ctr[c] EXCEPT !.running = FALSE]
  <2>1. ctr' = [ctr EXCEPT ![c] = s] /\ ctr[c] # NoCtr
    BY <1>3 DEF Stop, Mine, SetCtr, Here
  <2>2. Same(s, ctr[c])
    BY <1>0, <2>1, SameCtr
  <2>3. ~s.running
    BY <1>0, <2>1, CtrFacts, SMT
  <2> HIDE DEF s
  <2> QED
    BY <1>0, <2>1, <2>2, <2>3 DEF Same
<1>4. CASE Remove(p) /\ Removable(p) /\ c = ctx[p]
  <2>1. /\ ctr'[c] = NoCtr /\ pc[p] = "remove" /\ ctx' = ctx /\ flags' = flags
        /\ pc'[p] = FirstStep(flags[p] \ {"stop", "remove"})
    BY <1>0, <1>4 DEF Remove, SetCtr, Goto
  <2>2. pc'[p] \in {"removeVolume", "create"}
    BY <2>1 DEF FirstStep
  <2>3. "remove" \in flags'[p]
    BY <2>1 DEF IInv, Replacing
  <2>4. GoesOn(p)'
    BY <1>4, <2>1, <2>2, <2>3 DEF GoesOn, ToCreate, Here
  <2> QED
    BY <1>4, <2>1, <2>4 DEF Another
<1>5. CASE Create(p) /\ Here(p) = NoCtr /\ c = ctx[p]
  <2> DEFINE r == [id |-> ids + 1, image |-> Target, privileged |-> TRUE, config |-> NoConfig, running |-> FALSE]
  <2>1. ctr' = [ctr EXCEPT ![c] = r] /\ ids < MaxIds /\ ctx' = ctx /\ pc'[p] = "startNew"
    BY <1>0, <1>5 DEF Create, SetCtr, Goto
  <2>2. r # NoCtr
    BY <1>0, <2>1, NewCtr
  <2> HIDE DEF r
  <2>3. GoesOn(p)'
    BY <1>0, <1>5, <2>1, <2>2 DEF GoesOn, ToStart, Here
  <2> QED
    BY <1>5, <2>1, <2>3 DEF Another
<1>6. CASE Builder(p) \/ GiveUp(p) \/ Inspect(p) \/ Exec(p) \/ RemoveVolume(p) \/ Ready(p) \/ Timeout(p)
  BY <1>1, <1>6 DEF Builder, GiveUp, Inspect, Exec, RemoveVolume, Ready, Timeout, dockerVars
<1>7. CASE (Start(p) \/ StartNew(p)) /\ ~(Here(p) # NoCtr /\ c = ctx[p])
  BY <1>0, <1>1, <1>7 DEF Start, StartNew, Started, SetCtr, dockerVars
<1>8. CASE (Stop(p) /\ ~(Mine(p) /\ c = ctx[p])) \/ (Remove(p) /\ ~(Removable(p) /\ c = ctx[p]))
  BY <1>0, <1>1, <1>8 DEF Stop, Remove, SetCtr, dockerVars
<1>9. CASE Create(p) /\ ~(Here(p) = NoCtr /\ c = ctx[p])
  BY <1>0, <1>1, <1>9 DEF Create, SetCtr, dockerVars
<1> QED
  BY <1>2, <1>3, <1>4, <1>5, <1>6, <1>7, <1>8, <1>9 DEF Step

(* Where somebody goes on, somebody still does after a step.               *)
LEMMA Going ==
  ASSUME IInv, NoExcuse, NEW p \in Procs, Step(p), ~Copy(p), ~Exec(p), ~Timeout(p), NEW c \in Contexts, Another(c)
  PROVE  Another(c)'
<1>0. /\ pc \in [Procs -> {"idle"} \cup Working \cup Ended] /\ ctx \in [Procs -> Contexts]
      /\ flags \in [Procs -> SUBSET Flags] /\ config = NoConfig
  BY DEF IInv, TypeOK, NoExcuse
<1> SUFFICES ASSUME ~Another(c)' PROVE FALSE
  OBVIOUS
<1>1. ctr'[c] = NoCtr <=> ctr[c] = NoCtr
  BY Changes
<1>2. PICK w \in Procs : ctx[w] = c /\ GoesOn(w)
  BY DEF Another
<1>3. ctx'[w] # c \/ ~GoesOn(w)'
  BY DEF Another
<1>4. CASE w # p
  <2>1. pc'[w] = pc[w] /\ ctx'[w] = ctx[w] /\ flags'[w] = flags[w]
    BY <1>4, OtherProcs
  <2> QED
    BY <1>1, <1>2, <1>3, <2>1 DEF GoesOn, ToCreate, ToStart, Here
<1>5. CASE w = p
  <2>1. pc[p] \in {"wait", "using", "removeVolume", "create", "start", "startNew"}
    BY <1>2, <1>5 DEF GoesOn, ToCreate, ToStart
  <2>2. CASE Ready(p)
    BY <1>0, <1>2, <1>3, <1>5, <2>2 DEF Ready, Goto, GoesOn
  <2>3. CASE RemoveVolume(p)
    <3>1. pc'[p] = (IF "remove" \in flags[p] THEN "create" ELSE "wait") /\ ctx' = ctx /\ pc[p] = "removeVolume"
      BY <1>0, <2>3 DEF RemoveVolume, Goto
    <3> QED
      BY <1>1, <1>2, <1>3, <1>5, <3>1 DEF GoesOn, ToCreate, ToStart, Here
  <2>4. CASE Create(p)
    <3>1. Here(p) = NoCtr
      BY <1>2, <1>5, <2>4 DEF Create, GoesOn, ToCreate, ToStart
    <3>2. ctx' = ctx /\ pc'[p] = "startNew" /\ ids < MaxIds
      BY <1>0, <2>4, <3>1 DEF Create, Goto
    <3>3. ctr'[c] # NoCtr
      <4>1. ctr \in [Contexts -> Ctrs] /\ ids \in Nat
        BY SMT DEF IInv, TypeOK
      <4> QED
        BY <1>2, <1>5, <2>4, <3>1, <3>2, <4>1, NewCtr DEF Create, SetCtr
    <3> QED
      BY <1>1, <1>2, <1>5, <3>1, <3>3 DEF Here
  <2>5. CASE Start(p) \/ StartNew(p)
    <3>1. Here(p) # NoCtr
      BY <1>2, <1>5, <2>5 DEF Start, StartNew, GoesOn, ToCreate, ToStart
    <3>2. /\ pc'[p] = "wait" \/ (pc'[p] = "removeVolume" /\ "remove" \notin flags'[p])
          /\ ctx' = ctx
      BY <1>0, <2>5, <3>1, SMT DEF Start, StartNew, Goto
    <3> QED
      BY <1>2, <1>3, <1>5, <3>2 DEF GoesOn
  <2> QED
    BY <2>1, <2>2, <2>3, <2>4, <2>5 DEF Step, Builder, GiveUp, Inspect, Stop, Remove
<1> QED
  BY <1>4, <1>5

(* Who is beaten after a step was so before, or somebody goes on.          *)
LEMMA StillBeaten ==
  ASSUME IInv, OneGoesOn, NoExcuse, NEW p \in Procs, Step(p), ~Copy(p), ~Exec(p), ~Timeout(p),
         NEW q \in Procs, Beaten(q)'
  PROVE  Another(ctx[q])' \/ (Beaten(q) /\ ctx'[q] = ctx[q])
<1>0. /\ pc \in [Procs -> {"idle"} \cup Working \cup Ended] /\ ctx \in [Procs -> Contexts]
      /\ flags \in [Procs -> SUBSET Flags] /\ seen \in [Procs -> Ctrs] /\ ctr \in [Contexts -> Ctrs]
      /\ flags[p] \in SUBSET Flags /\ ctx[p] \in Contexts /\ Here(p) \in Ctrs
      /\ config = NoConfig /\ given = Nowhere
  BY DEF IInv, TypeOK, NoExcuse, Here
<1>1. CASE q # p
  <2>1. pc'[q] = pc[q] /\ ctx'[q] = ctx[q] /\ flags'[q] = flags[q] /\ seen'[q] = seen[q]
    BY <1>1, OtherProcs
  <2>2. CASE Another(ctx[q])'
    BY <2>2
  <2>3. CASE ~Another(ctx[q])'
    <3>1. ~(\E w \in Procs : ctx'[w] = ctx[q] /\ GoesOn(w)')
      BY <2>1, <2>3 DEF Another
    <3>2. /\ ctr'[ctx[q]] = NoCtr <=> ctr[ctx[q]] = NoCtr
          /\ ctr'[ctx[q]].id = ctr[ctx[q]].id /\ (ctr'[ctx[q]].running => ctr[ctx[q]].running)
      <4>1. ctx[q] \in Contexts
        BY <1>0
      <4> QED
        BY <3>1, <4>1, Changes DEF Another
    <3> QED
      BY <2>1, <3>2 DEF Beaten, ToCreate, ToStart, Mine, Here
  <2> QED
    BY <2>2, <2>3
<1>2. CASE q = p
  <2>1. ASSUME NEW c, Ensure(p, c) PROVE FALSE
    <3>1. pc'[p] = "inspect" /\ flags'[p] = {}
      BY <1>0, <2>1 DEF Ensure, Goto
    <3> QED
      BY <1>2, <3>1 DEF Beaten, ToCreate, ToStart
  <2>2. CASE Builder(p)
    BY <1>0, <2>1, <2>2 DEF Builder
  <2>3. CASE GiveUp(p)
    BY <1>2, <2>1, <2>3 DEF GiveUp, Beaten
  <2>4. CASE Inspect(p)
    <3>0. ctr' = ctr /\ ctx' = ctx /\ pc[p] = "inspect" /\ seen'[p] = ctr[ctx[p]]
      BY <1>0, <2>4 DEF Inspect, dockerVars, Here
    <3>1. CASE Here(p) = NoCtr /\ flags[p] \cap {"stop", "remove"} # {}
      BY <1>2, <3>0, <3>1 DEF Beaten
    <3>2. CASE Here(p) = NoCtr /\ flags[p] \cap {"stop", "remove"} = {}
      <4>1. pc'[p] = FirstStep(flags[p]) /\ flags' = flags
        BY <1>0, <2>4, <3>2 DEF Inspect, Goto
      <4>2. pc'[p] \in {"removeVolume", "create"}
        BY <3>2, <4>1 DEF FirstStep
      <4> QED
        BY <1>2, <3>0, <3>2, <4>1, <4>2 DEF Beaten, ToCreate, ToStart, Here
    <3>3. CASE Here(p) # NoCtr
      <4>1. Decide(p, Here(p), TRUE)
        BY <1>0, <2>4, <3>3 DEF Inspect
      <4>2. CASE Reusable(p, Here(p), TRUE)
        <5>1. pc'[p] \in {"using", "start"}
          BY <1>0, <4>1, <4>2 DEF Decide, Goto
        <5> QED
          BY <1>2, <3>0, <3>3, <5>1 DEF Beaten, ToCreate, ToStart, Here
      <4>3. CASE ~Reusable(p, Here(p), TRUE)
        <5>1. pc'[p] = FirstStep(Replace(p, Here(p)))
          BY <1>0, <4>1, <4>3 DEF Decide, Goto
        <5>2. pc'[p] \in {"stop", "remove"}
          BY <5>1, ReplaceFacts
        <5>3. pc'[p] = "remove" => ~Here(p).running
          BY <5>1 DEF FirstStep, Replace
        <5> QED
          BY <1>2, <3>0, <3>3, <5>2, <5>3 DEF Beaten, ToCreate, ToStart, Here, Mine
      <4> QED
        BY <4>2, <4>3
    <3> QED
      BY <3>1, <3>2, <3>3
  <2>5. CASE Start(p) \/ StartNew(p)
    <3>0. ctx' = ctx /\ pc[p] \in {"start", "startNew"}
      BY <2>5 DEF Start, StartNew
    <3>1. CASE Here(p) = NoCtr
      BY <1>2, <3>0, <3>1 DEF Beaten, ToStart
    <3>2. CASE Here(p) # NoCtr
      <4>1. pc'[p] = "wait" \/ (pc'[p] = "removeVolume" /\ "remove" \notin flags'[p])
        BY <1>0, <2>5, <3>2, SMT DEF Start, StartNew, Goto
      <4> QED
        BY <1>2, <4>1 DEF Beaten, ToCreate, ToStart
    <3> QED
      BY <3>1, <3>2
  <2>6. CASE Stop(p)
    <3>0. ctx' = ctx /\ pc[p] = "stop"
      BY <2>6 DEF Stop
    <3>1. CASE ~Mine(p)
      BY <1>2, <3>0, <3>1 DEF Beaten
    <3>2. CASE Mine(p)
      <4> DEFINE s == [ctr[ctx[p]] EXCEPT !.running = FALSE]
      <4>1. /\ ctr'[ctx[p]] = s /\ ctr[ctx[p]] # NoCtr /\ seen' = seen /\ ctr[ctx[p]].id = seen[p].id
            /\ pc'[p] = FirstStep(flags[p] \ {"stop"})
        BY <1>0, <2>6, <3>2 DEF Stop, Mine, SetCtr, Goto, Here
      <4>2. Same(s, ctr[ctx[p]])
        BY <1>0, <4>1, SameCtr
      <4>3. ~s.running
        BY <1>0, <4>1, CtrFacts, SMT
      <4>4. pc'[p] = "remove"
        <5>1. "remove" \in flags[p]
          BY <3>0 DEF IInv, Replacing
        <5> QED
          BY <4>1, <5>1 DEF FirstStep
      <4> HIDE DEF s
      <4> QED
        BY <1>2, <3>0, <4>1, <4>2, <4>3, <4>4 DEF Beaten, ToCreate, ToStart, Mine, Here, Same
    <3> QED
      BY <3>1, <3>2
  <2>7. CASE Remove(p)
    <3>0. ctx' = ctx /\ pc[p] = "remove"
      BY <2>7 DEF Remove
    <3>1. CASE ~Removable(p)
      BY <1>2, <3>0, <3>1 DEF Beaten, Removable
    <3>2. CASE Removable(p)
      <4>1. ctr'[ctx[p]] = NoCtr /\ pc'[p] = FirstStep(flags[p] \ {"stop", "remove"})
        BY <1>0, <2>7, <3>2 DEF Remove, SetCtr, Goto
      <4>2. pc'[p] \in {"removeVolume", "create"}
        BY <4>1 DEF FirstStep
      <4> QED
        BY <1>2, <3>0, <4>1, <4>2 DEF Beaten, ToCreate, ToStart, Here
    <3> QED
      BY <3>1, <3>2
  <2>8. CASE RemoveVolume(p)
    <3>1. /\ ctr' = ctr /\ ctx' = ctx /\ pc[p] = "removeVolume"
          /\ pc'[p] = (IF "remove" \in flags[p] THEN "create" ELSE "wait")
      BY <1>0, <2>8 DEF RemoveVolume, Goto
    <3> QED
      BY <1>2, <3>1 DEF Beaten, ToCreate, ToStart, Here
  <2>9. CASE Create(p)
    <3>0. ctx' = ctx /\ pc[p] = "create"
      BY <2>9 DEF Create
    <3>1. CASE Here(p) # NoCtr
      BY <1>2, <3>0, <3>1 DEF Beaten, ToCreate
    <3>2. CASE Here(p) = NoCtr
      <4> DEFINE r == [id |-> ids + 1, image |-> Target, privileged |-> TRUE, config |-> NoConfig, running |-> FALSE]
      <4>1. ctr'[ctx[p]] = r /\ ids < MaxIds /\ pc'[p] = "startNew" /\ ids \in Nat
        BY <1>0, <2>9, <3>2, SMT DEF Create, SetCtr, Goto, IInv, TypeOK
      <4>2. r # NoCtr
        BY <4>1, NewCtr
      <4> HIDE DEF r
      <4> QED
        BY <1>2, <3>0, <4>1, <4>2 DEF Beaten, ToCreate, ToStart, Here
    <3> QED
      BY <3>1, <3>2
  <2>10. CASE Ready(p)
    <3>1. pc'[p] = "using"
      BY <1>0, <2>10 DEF Ready, Goto
    <3> QED
      BY <1>2, <3>1 DEF Beaten, ToCreate, ToStart
  <2> QED
    BY <2>2, <2>3, <2>4, <2>5, <2>6, <2>7, <2>8, <2>9, <2>10 DEF Step
<1> QED
  BY <1>1, <1>2

(* The step of the invariant: with no excuse nobody is killed, copies a    *)
(* configuration or looks for one, and who is beaten is so by another.     *)
LEMMA OneGoesOnNext == IInv /\ OneGoesOn /\ [Next]_vars => OneGoesOn'
<1> SUFFICES ASSUME IInv, OneGoesOn, [Next]_vars, NoExcuse', NEW q \in Procs
             PROVE  pc'[q] \notin {"dead", "copy", "exec"} /\ (Beaten(q)' => Another(ctx[q])')
  BY DEF OneGoesOn
<1>1. CASE UNCHANGED vars
  <2>1. NoExcuse /\ pc' = pc /\ (Beaten(q)' => Beaten(q)) /\ (Another(ctx[q]) => Another(ctx[q])')
    BY <1>1 DEF vars, dockerVars, wantVars, procVars, histVars, NoExcuse, Beaten, Another, GoesOn, ToCreate, ToStart,
                Mine, Here
  <2> QED
    BY <2>1 DEF OneGoesOn
<1>2. ASSUME NEW p \in Procs, Step(p) \/ Die(p)
      PROVE  pc'[q] \notin {"dead", "copy", "exec"} /\ (Beaten(q)' => Another(ctx[q])')
  <2>1. NoExcuse /\ Step(p) /\ ~Timeout(p) /\ ~Exec(p) /\ ~Copy(p)
    BY <1>2, NoNewExcuse
  <2>2. pc[q] \notin {"dead", "copy", "exec"} /\ (Beaten(q) => Another(ctx[q])) /\ ctx[q] \in Contexts
    BY <2>1 DEF OneGoesOn, IInv, TypeOK
  <2>3. pc'[q] \notin {"dead", "copy", "exec"}
    <3>0. /\ pc \in [Procs -> {"idle"} \cup Working \cup Ended] /\ flags[p] \in SUBSET Flags /\ config = NoConfig
          /\ flags[p] \ {"stop"} \in SUBSET Flags /\ flags[p] \ {"stop", "remove"} \in SUBSET Flags
      BY <2>1 DEF IInv, TypeOK, NoExcuse
    <3>1. CASE q # p
      BY <1>2, <2>2, <3>1, OtherProcs
    <3>2. CASE q = p
      <4>1. ASSUME NEW fs \in SUBSET Flags PROVE FirstStep(fs) \notin {"dead", "copy", "exec"}
        BY DEF FirstStep
      <4>2. CASE Inspect(p)
        <5>1. FirstStep(Replace(p, Here(p))) \notin {"dead", "copy", "exec"} /\ FirstStep(flags[p]) \notin {"dead", "copy", "exec"}
          BY <3>0, <4>1, ReplaceFacts
        <5> QED
          BY <3>0, <3>2, <4>2, <5>1 DEF Inspect, Decide, Goto
      <4>3. CASE Stop(p) \/ Remove(p)
        <5>1. /\ FirstStep(flags[p] \ {"stop"}) \notin {"dead", "copy", "exec"}
              /\ FirstStep(flags[p] \ {"stop", "remove"}) \notin {"dead", "copy", "exec"}
          BY <3>0, <4>1
        <5> QED
          BY <3>0, <3>2, <4>3, <5>1 DEF Stop, Remove, Iterate, Goto
      <4>4. CASE Builder(p) \/ GiveUp(p) \/ Start(p)
        BY <3>0, <3>2, <4>4 DEF Builder, GiveUp, Start, Ensure, Goto
      <4>5. CASE RemoveVolume(p) \/ Create(p) \/ StartNew(p) \/ Ready(p)
        BY <3>0, <3>2, <4>5 DEF RemoveVolume, Create, StartNew, Ready, Iterate, Goto
      <4> QED
        BY <2>1, <4>2, <4>3, <4>4, <4>5 DEF Step
    <3> QED
      BY <3>1, <3>2
  <2>4. ASSUME Beaten(q)', ~Another(ctx[q])' PROVE FALSE
    <3>1. Beaten(q) /\ ctx'[q] = ctx[q]
      BY <2>1, <2>4, StillBeaten
    <3>2. Another(ctx[q])
      BY <2>2, <3>1
    <3>3. ASSUME NEW c \in Contexts, Another(c) PROVE Another(c)'
      BY <2>1, <3>3, Going
    <3>4. \E w \in Procs : ctx'[w] = ctx[q] /\ GoesOn(w)'
      BY <2>2, <3>2, <3>3 DEF Another
    <3> QED
      BY <2>4, <3>1, <3>4 DEF Another
  <2> QED
    BY <2>3, <2>4
<1> QED
  BY <1>1, <1>2 DEF Next

(* If every process has ended, none was killed or waited in vain, and they *)
(* were given neither a configuration nor a context, one of them has a     *)
(* client: the processes that found a stale id, a name already taken or a  *)
(* container gone lost to one that goes on (builderEnsureContainer).       *)
THEOREM OneIsServed == Spec => []SomebodyServed
<1>1. Init => OneGoesOn
  BY DEF Init, OneGoesOn, Beaten, ToCreate, ToStart
<1>2. OneGoesOn /\ IInv => SomebodyServed
  <2> SUFFICES ASSUME OneGoesOn, NoExcuse, \A p \in Procs : pc[p] \in Ended
               PROVE  \E p \in Procs : pc[p] = "using"
    BY DEF SomebodyServed
  <2>1. PICK p \in Procs : TRUE
    BY BuilderAssumption
  <2>2. CASE pc[p] = "using"
    BY <2>2
  <2>3. CASE pc[p] # "using"
    <3>1. pc[p] = "failed"
      BY <2>3 DEF OneGoesOn, Ended
    <3>2. PICK w \in Procs : GoesOn(w)
      BY <3>1 DEF OneGoesOn, Beaten, Another
    <3>3. pc[w] = "using"
      BY <3>2 DEF GoesOn, ToCreate, ToStart, Ended
    <3> QED
      BY <3>3
  <2> QED
    BY <2>2, <2>3
<1> QED
  BY <1>1, <1>2, OneGoesOnNext, Invariance, PTL DEF Spec

=============================================================================
