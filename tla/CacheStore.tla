------------------------------ MODULE CacheStore ------------------------------
(***************************************************************************)
(* The contents of the image cache (src/cmd/linuxkit/cache): the blobs on  *)
(* disk and the names of the root index, as pulls, package builds,         *)
(* releases and removals by several processes change them, and as a        *)
(* process that dies leaves them.                                          *)
(*                                                                         *)
(* The root index changes atomically, one name at a time: CacheLock shows  *)
(* that it does.  Blobs are files; a layer that is pulled is renamed into  *)
(* place when complete, every other blob is written in place.  A blob is   *)
(* never written when a file of its name exists (pulled layers excepted,   *)
(* whose size is compared).                                                *)
(***************************************************************************)
EXTENDS Naturals

CONSTANTS
  Procs,      \* linuxkit processes
  Names,      \* image names in use
  Images,     \* image manifests (with their configs)
  Layers,     \* layers
  LayersOf,   \* the layers of an image
  PlatOf,     \* the platform of an image
  Remote,     \* the images of the index a name has in the registry
  Package,    \* name of the package being built
  Release,    \* name it is released as
  ArchName,   \* name of the package with the architecture of an image
  NoImage,
  Uses,       \* what the processes are used for: some of pull, build, release, remove each
  MaxDeaths   \* how many processes may die

Nobody == "nobody"

ASSUME NamesAssumption ==
  /\ {Package, Release} \subseteq Names
  /\ LayersOf \in [Images -> SUBSET Layers]
  /\ Remote \in [Names -> SUBSET Images]
  /\ ArchName \in [Images -> Names \ {Package}]
  /\ NoImage \notin Images
  /\ Uses \subseteq [Procs -> SUBSET {"pull", "build", "release", "remove"}]
  /\ MaxDeaths \in Nat
  /\ Nobody \notin Procs

VARIABLES
  use,      \* what each process is used for
  root,     \* what each name of index.json points to
  files,    \* the blobs that have a file
  partial,  \* those whose file is not complete
  owner,    \* who holds the cache lock around several steps
  op,       \* the operation each process is in
  name,     \* the image name it is about
  img,      \* the image it builds
  todo,     \* blobs it has still to write, or to remove
  seen,     \* what it read from the root
  writing,  \* the file it is writing in place
  last,     \* image last added to the package's index, by platform (history)
  deaths    \* processes that died

vars == <<use, root, files, partial, owner, op, name, img, todo, seen, writing, last,
          deaths>>

(* Blobs, content addressed: a blob stands for its digest.  Indexes of the *)
(* same images differ in their bytes when they are made by different hands.*)
Index(by, s) == [kind |-> "index", by |-> by, of |-> s]
Image(i)     == [kind |-> "image", by |-> "build", of |-> {i}]
Layer(l)     == [kind |-> "layer", by |-> "build", of |-> {l}]
None         == [kind |-> "none", by |-> "build", of |-> {}]

Parts(i)   == {Image(i)} \cup {Layer(l) : l \in LayersOf[i]}
Content(b) ==
  IF b.kind \in {"index", "image"} THEN {b} \cup UNION {Parts(i) : i \in b.of} ELSE {}

Makers  == {"build", "cache", "registry"}
Indexes == {Index(by, s) : by \in Makers, s \in SUBSET Images}
Blobs   == Indexes \cup {Image(i) : i \in Images} \cup {Layer(l) : l \in Layers}

NoneBuilt == [t \in {PlatOf[i] : i \in Images} |-> NoImage]

Init ==
  /\ use \in Uses
  /\ root = [n \in Names |-> None]
  /\ files = {} /\ partial = {}
  /\ owner = Nobody
  /\ op = [p \in Procs |-> "idle"]
  /\ name = [p \in Procs |-> Package]
  /\ img = [p \in Procs |-> NoImage]
  /\ todo = [p \in Procs |-> {}]
  /\ seen = [p \in Procs |-> None]
  /\ writing = [p \in Procs |-> None]
  /\ last = NoneBuilt
  /\ deaths = 0
-----------------------------------------------------------------------------
Goto(p, l) == op' = [op EXCEPT ![p] = l]

(* A process begins an operation, or ends it, or goes on.                  *)
Begin(p, l, n, i, bs) ==
  /\ Goto(p, l)
  /\ name' = [name EXCEPT ![p] = n]
  /\ img' = [img EXCEPT ![p] = i]
  /\ todo' = [todo EXCEPT ![p] = bs]

Done(p) == Begin(p, "idle", Package, NoImage, {}) /\ seen' = [seen EXCEPT ![p] = None]

Lock(p)     == owner = Nobody /\ owner' = p
Unlock(p)   == owner' = IF owner = p THEN Nobody ELSE owner
Point(n, b) == root' = [root EXCEPT ![n] = b]
Readable(b) == b \in files \ partial

(* Faulty variants of the definitions below: a name that is given out      *)
(* before its blobs are written, an index that loses the other platforms,  *)
(* layers that are taken for complete because they have a file.            *)
HastyWritten(p)   == TRUE
BadMerge(s, i)    == {i}
BadRenamed(p, b)  == FALSE
-----------------------------------------------------------------------------
(* The blobs.  The layers of a pull are renamed into place when complete;  *)
(* other blobs are written in place, and any file of the name will do.     *)

Ready(p, b)   == op[p] = "load" \/ Content(b) \cap todo[p] \subseteq {b}
Renamed(p, b) == op[p] = "pull" /\ b.kind = "layer"

WriteBlob(p, b) ==
  /\ op[p] \in {"pull", "load", "index"}
  /\ writing[p] = None
  /\ b \in todo[p] /\ Ready(p, b)
  /\ todo' = [todo EXCEPT ![p] = todo[p] \ {b}]
  /\ files' = files \cup {b}
  /\ IF Renamed(p, b) THEN partial' = partial \ {b} /\ UNCHANGED writing
     ELSE IF b \in files THEN UNCHANGED <<partial, writing>>
     ELSE /\ partial' = partial \cup {b}
          /\ writing' = [writing EXCEPT ![p] = b]
  /\ UNCHANGED <<root, owner, op, name, img, seen, last>>

FinishBlob(p) ==
  /\ writing[p] # None
  /\ partial' = partial \ {writing[p]}
  /\ writing' = [writing EXCEPT ![p] = None]
  /\ UNCHANGED <<root, files, owner, op, name, img, todo, seen, last>>

Written(p) == todo[p] = {} /\ writing[p] = None

(* Unlinked: whoever is writing the file writes to no file any more.       *)
RemoveBlob(b) ==
  /\ files' = files \ {b}
  /\ partial' = partial \ {b}
  /\ writing' = [q \in Procs |-> IF writing[q] = b THEN None ELSE writing[q]]
-----------------------------------------------------------------------------
(* ImagePull: not when the cache validates the image, unless told always   *)
(* to pull; the lock is held until the descriptor is written.              *)

ImagePull(p, n) ==
  /\ "pull" \in use[p]
  /\ op[p] = "idle"
  /\ Remote[n] # {}
  /\ Lock(p)
  /\ Begin(p, "pull", n, NoImage, Content(Index("registry", Remote[n])))
  /\ UNCHANGED <<root, files, partial, seen, writing, last>>

PullDescriptor(p) ==
  /\ op[p] = "pull" /\ Written(p)
  /\ Point(name[p], Index("registry", Remote[name[p]]))
  /\ Unlock(p)
  /\ Done(p)
  /\ UNCHANGED <<files, partial, writing, last>>
-----------------------------------------------------------------------------
(* A package build: ImageLoad of the image that was built, whose lock may  *)
(* be gone by the time it writes, then IndexWrite.                         *)

ImageLoad(p, i) ==
  /\ "build" \in use[p]
  /\ op[p] = "idle"
  /\ Begin(p, "load", Package, i, Content(Index("build", {i})))
  /\ UNCHANGED <<root, files, partial, owner, seen, writing, last>>

LoadDescriptor(p) ==
  /\ op[p] = "load" /\ Written(p)
  /\ Point(ArchName[img[p]], Index("build", {img[p]}))
  /\ Goto(p, "iwRead")
  /\ UNCHANGED <<files, partial, owner, name, img, todo, seen, writing, last>>

(* IndexWrite reads the index of the name, and only then locks.            *)
IwRead(p) ==
  /\ op[p] = "iwRead"
  /\ \/ /\ root[Package] = None \/ Readable(root[Package])
        /\ seen' = [seen EXCEPT ![p] = root[Package]]
        /\ Goto(p, "iwLock")
        /\ UNCHANGED <<name, img, todo>>
     \/ /\ root[Package] # None /\ ~Readable(root[Package])
        /\ Done(p)
  /\ UNCHANGED <<root, files, partial, owner, writing, last>>

Merge(s, i) == {j \in s : PlatOf[j] # PlatOf[i]} \cup {i}
Merged(p)   == Index("cache", Merge(seen[p].of, img[p]))

(* The old index goes first, whoever else points to it.                    *)
IwRemove(p) ==
  /\ op[p] = "iwLock"
  /\ Lock(p)
  /\ RemoveBlob(seen[p])
  /\ todo' = [todo EXCEPT ![p] = {Merged(p)}]
  /\ Goto(p, "index")
  /\ UNCHANGED <<root, name, img, seen, last>>

IwDescriptor(p) ==
  /\ op[p] = "index" /\ Written(p)
  /\ Point(Package, Merged(p))
  /\ last' = [last EXCEPT ![PlatOf[img[p]]] = img[p]]
  /\ Unlock(p)
  /\ Done(p)
  /\ UNCHANGED <<files, partial, writing>>
-----------------------------------------------------------------------------
(* The release tag is given the descriptor found before the push.          *)

FindDescriptor(p) ==
  /\ "release" \in use[p]
  /\ op[p] = "idle"
  /\ root[Package] # None
  /\ seen' = [seen EXCEPT ![p] = root[Package]]
  /\ Goto(p, "release")
  /\ UNCHANGED <<root, files, partial, owner, name, img, todo, writing, last>>

ReleaseDescriptor(p) ==
  /\ op[p] = "release"
  /\ Point(Release, seen[p])
  /\ Done(p)
  /\ UNCHANGED <<files, partial, owner, writing, last>>
-----------------------------------------------------------------------------
(* Remove: without the lock, but for its last step.  What can be read of   *)
(* the image is removed; if its index cannot be, Remove fails.             *)

Remove(p, n) ==
  /\ "remove" \in use[p]
  /\ op[p] = "idle"
  /\ Begin(p, "rmFind", n, NoImage, {})
  /\ UNCHANGED <<root, files, partial, owner, seen, writing, last>>

FindRoot(p) ==
  /\ op[p] = "rmFind"
  /\ \/ /\ Readable(root[name[p]])
        /\ todo' = [todo EXCEPT ![p] =
             {root[name[p]]} \cup {Image(i) : i \in root[name[p]].of}
             \cup {Layer(l) : l \in UNION {LayersOf[i] :
                     i \in {j \in root[name[p]].of : Readable(Image(j))}}}]
        /\ Goto(p, "remove")
        /\ UNCHANGED <<name, img, seen>>
     \/ /\ ~Readable(root[name[p]])
        /\ Done(p)
  /\ UNCHANGED <<root, files, partial, owner, writing, last>>

RemoveOne(p, b) ==
  /\ op[p] = "remove"
  /\ b \in todo[p] /\ Ready(p, b)
  /\ RemoveBlob(b)
  /\ todo' = [todo EXCEPT ![p] = todo[p] \ {b}]
  /\ UNCHANGED <<root, owner, op, name, img, seen, last>>

RemoveDescriptors(p) ==
  /\ op[p] = "remove" /\ todo[p] = {}
  /\ Point(name[p], None)
  /\ last' = IF name[p] = Package THEN NoneBuilt ELSE last
  /\ Done(p)
  /\ UNCHANGED <<files, partial, owner, writing>>
-----------------------------------------------------------------------------
(* The process dies, and another is started in its place.                  *)
Die(p) ==
  /\ deaths < MaxDeaths /\ deaths' = deaths + 1
  /\ op[p] # "idle"
  /\ Unlock(p)
  /\ Done(p)
  /\ writing' = [writing EXCEPT ![p] = None]
  /\ UNCHANGED <<root, files, partial, last>>

Step(p) ==
  \/ \E b \in todo[p] : WriteBlob(p, b) \/ RemoveOne(p, b)
  \/ FinishBlob(p)
  \/ (\E n \in Names : ImagePull(p, n)) \/ PullDescriptor(p)
  \/ (\E i \in Images : ImageLoad(p, i)) \/ LoadDescriptor(p)
  \/ IwRead(p) \/ IwRemove(p) \/ IwDescriptor(p)
  \/ FindDescriptor(p) \/ ReleaseDescriptor(p)
  \/ (\E n \in Names : Remove(p, n)) \/ FindRoot(p) \/ RemoveDescriptors(p)

Next == UNCHANGED use /\ \E p \in Procs : (Step(p) /\ UNCHANGED deaths) \/ Die(p)

Spec == Init /\ [][Next]_vars
-----------------------------------------------------------------------------
Ops == {"idle", "pull", "load", "iwRead", "iwLock", "index", "release", "rmFind", "remove"}

TypeOK ==
  /\ use \in Uses
  /\ root \in [Names -> Indexes \cup {None}]
  /\ files \subseteq Blobs /\ partial \subseteq files
  /\ owner \in Procs \cup {Nobody}
  /\ op \in [Procs -> Ops] /\ name \in [Procs -> Names]
  /\ img \in [Procs -> Images \cup {NoImage}]
  /\ todo \in [Procs -> SUBSET Blobs]
  /\ seen \in [Procs -> Indexes \cup {None}]
  /\ writing \in [Procs -> Blobs \cup {None}]
  /\ deaths \in Nat
  /\ \A p \in Procs : op[p] \in {"load", "iwRead", "iwLock", "index"} => img[p] \in Images

(* Whatever a name points to is in the cache, index, manifests and layers: *)
(* names are written last.  Only IndexWrite takes an index away before it  *)
(* has its successor, so a process must not die there; it takes it away    *)
(* from another name too that has it from the registry; and the processes   *)
(* pull and build, for Remove and the release do not look at other names.  *)
Replaced == {seen[p] : p \in {q \in Procs : op[q] = "index"}}

Unshared    == \A n \in Names \ {Package} : Remote[n] = {} \/ Remote[n] # Remote[Package]
Undisturbed == deaths = 0 /\ Unshared /\ \A p \in Procs : use[p] \subseteq {"pull", "build"}

RootPresent == Undisturbed => \A n \in Names : Content(root[n]) \ Replaced \subseteq files

(* ... and is complete, whatever died in the middle of writing it before:  *)
(* ImageLoad is to "only write missing blobs, based on their content hash".*)
RootComplete == \A n \in Names : Content(root[n]) \subseteq files \ partial

(* "If a reference to the provided already exists and it is an index,      *)
(* updates the manifests in the existing index" (IndexWrite): the index    *)
(* has each platform's latest image, if one process only builds and no     *)
(* other index is put in its place by a pull or as a release.              *)
Builders   == {p \in Procs : "build" \in use[p]}
OneBuilder == (\A p, q \in Builders : p = q) /\ Remote[Package] = {} /\ Release # Package

Latest(s) == \A t \in DOMAIN last : last[t] # NoImage => last[t] \in s

IndexKeepsPlatforms == OneBuilder => Latest(root[Package].of)

(* A pull repairs the layers of its image, whatever a process that died    *)
(* has left of them, if nobody else removes images meanwhile.              *)
Removers  == {q \in Procs : "remove" \in use[q]}
PullHealsLayers ==
  [][\A p \in Procs, l \in Layers :
       /\ op[p] = "pull" /\ op'[p] = "idle" /\ todo[p] = {}
       /\ Removers \subseteq {p}
       /\ \E i \in Remote[name[p]] : l \in LayersOf[i]
       => Layer(l) \in files' \ partial']_vars

(* What makes the two inductive.  Who pulls or writes an index has the     *)
(* lock; only the package's name has an index that IndexWrite removes; and  *)
(* what a process is to give a name is in the cache or still to be written. *)
Locked == \A p \in Procs : op[p] \in {"pull", "index"} => owner = p

Used ==
  \A p \in Procs :
    /\ op[p] = "pull" => Remote[name[p]] # {}
    /\ op[p] = "release" => "release" \in use[p]
    /\ op[p] \in {"rmFind", "remove"} => "remove" \in use[p]

Pulled(n)  == {Index("registry", Remote[n])} \ {Index("registry", {})}
Own        == {None} \cup Pulled(Package) \cup {Index("cache", s) : s \in SUBSET Images}
Named ==
  /\ root[Package] \in Own
  /\ \A n \in Names \ {Package} : root[n] \in {None} \cup Pulled(n) \cup {Index("build", {i}) : i \in Images}
  /\ \A p \in Procs : op[p] \in {"iwLock", "index"} => seen[p] \in Own

Have(s) == \A i \in s : Parts(i) \subseteq files
Doing(p) ==
  /\ op[p] \in {"iwRead", "iwLock", "index"} => Have({img[p]})
  /\ op[p] \in {"iwLock", "index"} => Have(seen[p].of)
  /\ op[p] = "pull" => Content(Index("registry", Remote[name[p]])) \subseteq files \cup todo[p]
  /\ op[p] = "load" => Content(Index("build", {img[p]})) \subseteq files \cup todo[p]
  /\ op[p] = "index" => Merged(p) \in files \cup todo[p]

Present ==
  /\ \A p \in Procs : Doing(p)
  /\ \A n \in Names : Have(root[n].of)
  /\ \A n \in Names \ {Package} : root[n] \in files \cup {None}
  /\ root[Package] \in files \cup {None} \cup Replaced

Healing ==
  \A p \in Procs : op[p] = "pull" /\ Removers \subseteq {p} =>
    \A i \in Remote[name[p]] : \A l \in LayersOf[i] : Layer(l) \in todo[p] \cup (files \ partial)

(* What makes IndexKeepsPlatforms inductive: the builder has read an index  *)
(* that is still the latest when it writes its successor.                  *)
KeepsPlatforms ==
  /\ last \in [DOMAIN NoneBuilt -> Images \cup {NoImage}]
  /\ \A t \in DOMAIN NoneBuilt : last[t] # NoImage => PlatOf[last[t]] = t
  /\ \A p \in Procs : op[p] \in {"load", "iwRead", "iwLock", "index"} => p \in Builders
  /\ OneBuilder => /\ Latest(root[Package].of)
                   /\ \A p \in Procs : op[p] \in {"iwLock", "index"} => Latest(seen[p].of)

IInv == TypeOK /\ Locked /\ Used /\ Healing /\ (Undisturbed => Named /\ Present)
=============================================================================
