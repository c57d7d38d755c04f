--------------------------- MODULE DescriptorStore ---------------------------
(***************************************************************************)
(* What the image cache promises of its root index (index.json), whoever   *)
(* else uses the same cache directory: writing the descriptor of a name    *)
(* replaces that name's descriptor and no other, removing a name removes   *)
(* that name only, and each happens at once.  A process that dies while it *)
(* changes the root loses at most the name it was writing, unless it dies  *)
(* within a file write: then the root is unreadable for good.              *)
(***************************************************************************)
CONSTANTS Names, Digests

VARIABLES
  desc,    \* the descriptors of the root index
  broken   \* index.json was left half written

Descriptors == [name : Names, digest : Digests]

Without(s, n) == {e \in s : e.name # n}

Init == desc = {} /\ broken = FALSE

Set(e) ==
  /\ ~broken
  /\ desc' = Without(desc, e.name) \cup {e}
  /\ UNCHANGED broken

Unset(n) ==
  /\ ~broken
  /\ desc' = Without(desc, n)
  /\ UNCHANGED broken

(* A writer died in the middle of a file write: nothing can be read, or    *)
(* written, any more.  Between its two writes its death is an Unset.       *)
DieWriting ==
  /\ ~broken
  /\ broken' = TRUE
  /\ desc' = {}

Next ==
  \/ \E e \in Descriptors : Set(e)
  \/ \E n \in Names : Unset(n)
  \/ DieWriting

Spec == Init /\ [][Next]_<<desc, broken>>
=============================================================================
