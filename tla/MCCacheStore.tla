---------------------------- MODULE MCCacheStore ----------------------------
(* Small caches for TLC: a package of two platforms, a base image that     *)
(* shares a layer with it.                                                 *)
EXTENDS CacheStore

CONSTANTS p1, p2, pkg, rel, base, nameA, nameB, amd, arm, bas, l0, l1, l2

MCLayersOf == [i \in Images |-> Layers \cap (IF i = amd THEN {l0, l1}
                             ELSE IF i = arm THEN {l2} ELSE {l0})]
MCPlatOf   == [i \in Images |-> IF i = arm THEN "arm64" ELSE "amd64"]
MCArchName == [i \in Images |-> IF i = arm THEN nameB ELSE nameA]
MCRemote   == [n \in Names |->
                 IF n = base THEN {bas} \cap Images ELSE IF n = rel THEN {amd} ELSE {}]

(* Two that pull and build; or one that does all, and may be followed by   *)
(* another when it dies.                                                   *)
MCUses == {[p \in Procs |-> {"pull", "build"}],
           [p \in Procs |-> IF p = p1 THEN {"pull", "build", "release", "remove"} ELSE {}]}
OneBuilds == {[p \in Procs |-> {"build"}]}
=============================================================================
