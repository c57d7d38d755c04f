----------------------------- MODULE RegistryIndex -----------------------------
(***************************************************************************)
(* The index of a package in the registry, as hosts that each build their  *)
(* own platforms push to it: pkg build and IndexWrite into a host's cache, *)
(* pkg push (Provider.Push) with its per-architecture tags, pkg manifest   *)
(* (registry.PushManifest).  The registry changes an index atomically, but *)
(* a push reads it and writes it in two requests.                          *)
(***************************************************************************)
EXTENDS IndexMerge

CONSTANTS
  Hosts,      \* machines that build and push
  Builds,     \* what a host may build: a set of sequences of manifests
  Searched,   \* the platforms pkg manifest looks for
  Absent      \* no image under a tag

VARIABLES
  local,    \* the package's index in the cache of each host, <<>> if none
  remote,   \* the package's index in the registry, <<>> if none
  tags,     \* the image under the package's tag with an architecture
  step,     \* what each host is about
  got       \* the index it is about to write

vars == <<local, remote, tags, step, got>>

Init ==
  /\ local = [h \in Hosts |-> <<>>]
  /\ remote = <<>>
  /\ tags = [p \in Searched |-> Absent]
  /\ step = [h \in Hosts |-> "idle"]
  /\ got = [h \in Hosts |-> <<>>]

Goto(h, l) == step' = [step EXCEPT ![h] = l]
Hold(h, s) == got' = [got EXCEPT ![h] = s]

Build(h, b) ==
  /\ step[h] = "idle"
  /\ b \in Builds[h]
  /\ local' = [local EXCEPT ![h] = IF local[h] = <<>> THEN b ELSE IndexWrite(local[h], b)]
  /\ UNCHANGED <<remote, tags, step, got>>

(* Provider.Pull: the host's cache has the registry's index from then on.  *)
Pull(h) ==
  /\ step[h] = "idle"
  /\ remote # <<>>
  /\ local' = [local EXCEPT ![h] = remote]
  /\ UNCHANGED <<remote, tags, step, got>>

(* Push: unless the registry has this index, merge what it has into it.    *)
Merged(h) == CleanDangling(AppendIndex(local[h], remote))

PushGet(h) ==
  /\ step[h] = "idle"
  /\ local[h] # <<>>
  /\ \/ remote = local[h] /\ UNCHANGED <<step, got>>
     \/ /\ remote # local[h]
        /\ Hold(h, IF remote = <<>> THEN local[h] ELSE Merged(h))
        /\ Goto(h, "push")
  /\ UNCHANGED <<local, remote, tags>>

PushWrite(h) ==
  /\ step[h] = "push"
  /\ remote' = got[h]
  /\ \/ Goto(h, "tag") /\ UNCHANGED got
     \/ Goto(h, "idle") /\ Hold(h, <<>>)
  /\ UNCHANGED <<local, tags>>

(* ... with the local images under their architectures' tags, if so told.  *)
PushTags(h) ==
  /\ step[h] = "tag"
  /\ tags' = [p \in Searched |->
       LET here == SelectSeq(local[h], LAMBDA d : PlatOf[d] = p)
       IN  IF here = <<>> THEN tags[p] ELSE Last(here)]
  /\ Goto(h, "idle")
  /\ Hold(h, <<>>)
  /\ UNCHANGED <<local, remote>>

(* PushManifest: an index of all tagged images, merged with the present.   *)
ManifestTags(h) ==
  /\ step[h] = "idle"
  /\ Hold(h, SetToSeq({tags[p] : p \in Searched} \ {Absent}))
  /\ Goto(h, "manifest")
  /\ UNCHANGED <<local, remote, tags>>

ManifestGet(h) ==
  /\ step[h] = "manifest"
  /\ Hold(h, IF remote = <<>> THEN got[h] ELSE AppendIndex(got[h], remote))
  /\ Goto(h, "write")
  /\ UNCHANGED <<local, remote, tags>>

ManifestWrite(h) ==
  /\ step[h] = "write"
  /\ remote' = got[h]
  /\ Goto(h, "idle")
  /\ Hold(h, <<>>)
  /\ UNCHANGED <<local, tags>>

Next ==
  \E h \in Hosts :
    \/ \E b \in Builds[h] : Build(h, b)
    \/ Pull(h)
    \/ PushGet(h) \/ PushWrite(h) \/ PushTags(h)
    \/ ManifestTags(h) \/ ManifestGet(h) \/ ManifestWrite(h)

Spec == Init /\ [][Next]_vars
-----------------------------------------------------------------------------
(* Whatever was replaced by whom, the index in the registry has one        *)
(* manifest per platform, and no attestation in it refers to an image that *)
(* is not there: AppendIndex keeps "any attestations that point to a valid *)
(* manifest in the list, discarding any that do not".                      *)
IndexSound ==
  \A d \in DigestsIn(remote) :
    /\ IsAttestation(d) => RefOf[d] \in DigestsIn(remote)
    /\ \A e \in DigestsIn(remote) : PlatOf[d] = PlatOf[e] /\ ~IsAttestation(d) => d = e

(* "In the case of conflicts, the primary wins" (AppendIndex): what a host *)
(* pushes is what the registry has for its platforms.                      *)
PushWins ==
  [][\A h \in Hosts : step[h] = "push" /\ step'[h] # "push"
       => DigestsIn(ImagesOnly(local[h])) \subseteq DigestsIn(remote')]_vars

(* pkg manifest is there "to be sure that we have an index that includes   *)
(* every architecture on the registry" (Pkg.Index): when it has written    *)
(* the index and no one else is at it, every tagged platform is in it.     *)
IndexComplete ==
  [][\A h \in Hosts :
       step[h] = "write" /\ (\A g \in Hosts : step'[g] = "idle")
       => {p \in Searched : tags[p] # Absent} \subseteq Platforms(remote')]_vars
=============================================================================
