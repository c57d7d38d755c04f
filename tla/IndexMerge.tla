------------------------------ MODULE IndexMerge ------------------------------
(***************************************************************************)
(* How linuxkit merges multi-architecture image indexes: IndexWrite        *)
(* (cache/write.go), AppendIndex (util/index.go), cleanDanglingReferences  *)
(* (cache/push.go).  An index is the sequence of the digests it lists; a   *)
(* digest determines the manifest's platform and, for an attestation, the  *)
(* digest it refers to.                                                    *)
(***************************************************************************)
EXTENDS Integers, Sequences, FiniteSets, SequencesExt

CONSTANTS
  Digests,   \* manifests
  PlatOf,    \* their platforms, [arch, variant], Unknown for an attestation
  RefOf,     \* what an attestation refers to
  Unknown    \* platform unknown/unknown

IsAttestation(d) == PlatOf[d] = Unknown
DigestsIn(s)     == ToSet(s)
Platforms(s)     == {PlatOf[d] : d \in DigestsIn(s)} \ {Unknown}
ImagesOnly(s)    == SelectSeq(s, LAMBDA d : ~IsAttestation(d))

(* Faulty variants of the definitions below.                               *)
BadSupersetOf(inner, outer) == Len(inner) <= Len(outer)
KeepDangling(s, all)        == s

(* The key IndexWrite replaces by: OS, architecture and OS version.        *)
Lookup(d) == PlatOf[d].arch

(* An attestation is kept if what it refers to is.                         *)
WithoutDangling(s, all) ==
  SelectSeq(s, LAMBDA d : IsAttestation(d) => RefOf[d] \in all)

(* Each digest at its first place only.                                    *)
Once(s) ==
  LET first == {k \in DOMAIN s : \A j \in 1..(k - 1) : s[j] # s[k]}
  IN  [n \in 1..Cardinality(first) |->
         s[CHOOSE k \in first : Cardinality({j \in first : j <= k}) = n]]

(* IndexWrite of manifests "new", at most one per key, when the name has   *)
(* the index "old": the first manifest of a key is replaced, the rest is   *)
(* appended.                                                               *)
IndexWrite(old, new) ==
  LET Same(d, e) == ~IsAttestation(d) /\ ~IsAttestation(e) /\ Lookup(d) = Lookup(e)
      Hit(k, e)  == Same(old[k], e) /\ \A j \in 1..(k - 1) : ~Same(old[j], e)
      swapped    == [k \in DOMAIN old |->
                       IF \E e \in DigestsIn(new) : Hit(k, e)
                       THEN CHOOSE e \in DigestsIn(new) : Hit(k, e) ELSE old[k]]
      left       == SelectSeq(new, LAMBDA e : ~ \E k \in DOMAIN old : Hit(k, e))
      all        == swapped \o left
  IN  Once(WithoutDangling(all, DigestsIn(all)))

(* indexSuperset.                                                          *)
SupersetOf(inner, outer) ==
  Len(inner) <= Len(outer) /\ DigestsIn(inner) \subseteq DigestsIn(outer)

(* The primary index has the platform, or the very manifest.               *)
Covered(primary, d) == PlatOf[d] \in Platforms(primary) \/ d \in DigestsIn(primary)

(* AppendIndex: the secondary's platforms that the primary has not, then   *)
(* the secondary's attestations of what is there.                          *)
AppendIndex(primary, secondary) ==
  IF SupersetOf(primary, secondary) THEN secondary
  ELSE LET images == SelectSeq(ImagesOnly(secondary), LAMBDA d : ~Covered(primary, d))
           atts   == SelectSeq(secondary, LAMBDA d :
                       IsAttestation(d) /\ d \notin DigestsIn(primary))
       IN  primary \o images
             \o WithoutDangling(atts, DigestsIn(primary) \cup DigestsIn(images))

(* cleanDanglingReferences.                                                *)
CleanDangling(s) == WithoutDangling(s, DigestsIn(ImagesOnly(s)))
=============================================================================
