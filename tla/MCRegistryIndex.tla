---------------------------- MODULE MCRegistryIndex ----------------------------
(* Two hosts, one per platform, of which one builds twice, with attestations.   *)
EXTENDS RegistryIndex

CONSTANTS h1, h2, amd, amd2, arm, attAmd, attAmd2, attArm

Amd64 == [arch |-> "amd64", variant |-> ""]
Arm64 == [arch |-> "arm64", variant |-> ""]

MCPlatOf == [d \in Digests |-> IF d \in {amd, amd2} THEN Amd64
                               ELSE IF d = arm THEN Arm64
                               ELSE Unknown]
MCRefOf  == [d \in Digests |-> IF d = attAmd THEN amd
                               ELSE IF d = attAmd2 THEN amd2
                               ELSE IF d = attArm THEN arm ELSE d]
MCSearched == {Amd64, Arm64}
MCBuilds   == [h \in Hosts |-> IF h = h1 THEN {<<amd, attAmd>>, <<amd2, attAmd2>>}
                               ELSE {<<arm, attArm>>}]
=============================================================================
