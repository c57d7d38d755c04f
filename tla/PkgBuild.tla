------------------------------- MODULE PkgBuild -------------------------------
(***************************************************************************)
(* linuxkit pkg build (pkg_build.go, pkglib): the tag of a package is made *)
(* from its source in git; for each platform the image is looked for in    *)
(* the cache and the registry, pulled or built; what was built is loaded   *)
(* into the cache, listed in the index of the tag, loaded into docker,     *)
(* pushed, and released.  The source is edited and committed, other        *)
(* clients push to the registry, and requests to the registry may be lost. *)
(*                                                                         *)
(* The cache and the registry hold indexes, each a function from platforms *)
(* to images, and one name per platform beside it.  How indexes are merged *)
(* manifest by manifest is module IndexMerge, what is on disk CacheStore.  *)
(***************************************************************************)
EXTENDS Integers, Sequences, Functions

CONSTANTS
  Arches,        \* the platforms of the package, in the order of build.yml
  HostArch,      \* the platform of this machine
  Contents,      \* what the source may be
  Invocations,   \* the options that are used
  Chunks,        \* the writes a builder makes to the image stream
  MaxRuns, MaxEdits, MaxOthers,
  MaxFaults      \* lost requests, failed loads and other errors, together

VARIABLES
  src,         \* committed and present content of the package, and version (1 or 2) of its extra source
  cache,       \* the image cache: name |-> index
  registry,    \* the registry: name |-> index
  docker,      \* names in docker's own image store
  run,         \* the invocation: where it is and its local variables
  counts       \* how often what is bounded has happened

vars == <<src, cache, registry, docker, run, counts>>

Content  == [bytes : Nat, names : Nat, untracked : Nat]
Releases == {o.release : o \in Invocations} \cup {"none", "v1"}
Kinds    == {o.hash : o \in Invocations} \cup {"none", "git"}
Options  == [force : BOOLEAN, nobuild : BOOLEAN, pull : BOOLEAN, push : BOOLEAN, docker : BOOLEAN, dry : BOOLEAN,
             manifest : BOOLEAN, dirty : BOOLEAN, release : Releases, hash : Kinds]

(* "all" stands beside the platforms, "git" beside the names given by hand, *)
(* and a release's name is not given to -hash.                             *)
ASSUME ArchesAssumption ==
  /\ Arches \in Seq(STRING \ {"all"}) /\ HostArch \in Range(Arches) /\ Chunks \in Nat \ {0}
  /\ \A k \in {MaxRuns, MaxEdits, MaxOthers, MaxFaults} : k \in Nat
ASSUME SourceAssumption == Contents \subseteq Content /\ \E c \in Contents : c.untracked = 0
ASSUME InvocationsAssumption ==
  /\ Invocations \subseteq Options
  /\ \A o \in Invocations : o.release # "git" /\ o.hash # "v1"

(* An index has no entry, or the images of some platforms; it is nested if *)
(* it lists an index that is no longer in the cache.                       *)
Over(f, g)    == [x \in DOMAIN f \cup DOMAIN g |-> IF x \in DOMAIN f THEN f[x] ELSE g[x]]
Put(f, x, v)  == [y \in DOMAIN f \cup {x} |-> IF y = x THEN v ELSE f[y]]
One(x, v)     == [y \in {x} |-> v]
Empty         == [p \in {} |-> "none"]
NoIndex       == [plats |-> Empty, nested |-> FALSE]
At(store, n)  == IF n \in DOMAIN store THEN store[n] ELSE NoIndex
In(store, n)  == DOMAIN At(store, n).plats
Named(t)      == [tag |-> t, arch |-> "all"]
Arch(t, p)    == [tag |-> t, arch |-> p]
Platforms     == Range(Arches)

(* A tag: of the git tree, with the contents' hash when dirty; given by     *)
(* -hash; or a release.                                                    *)
NoContent     == [bytes |-> -1, names |-> 0, untracked |-> 0]
OtherTag(k)   == [kind |-> k, tree |-> NoContent, extra |-> 0, dirty |-> NoContent]
GitTag(t, x, d) == [kind |-> "git", tree |-> t, extra |-> x, dirty |-> d]

NoOpts == [force |-> FALSE, nobuild |-> FALSE, pull |-> FALSE, push |-> FALSE, docker |-> FALSE, dry |-> FALSE,
           manifest |-> FALSE, dirty |-> FALSE, release |-> "none", hash |-> "git"]
Fresh(o, t, d, r) ==
  [pc |-> "idle", opts |-> o, tag |-> t, dirty |-> d, release |-> r,
   check |-> <<>>, build |-> <<>>, descs |-> Empty, root |-> FALSE, any |-> FALSE, built |-> FALSE, desc |-> FALSE,
   left |-> 0, loader |-> "none", late |-> FALSE, result |-> "none"]
Idle == Fresh(NoOpts, OtherTag("none"), FALSE, "none")

Init ==
  /\ LET c == CHOOSE c \in Contents : c.untracked = 0 IN
     src = [head |-> c, work |-> c, xhead |-> 1, xwork |-> 1, gittag |-> "none"]
  /\ cache = [n \in {} |-> NoIndex] /\ registry = [n \in {} |-> NoIndex]
  /\ docker = {} /\ run = Idle
  /\ counts = [runs |-> 0, edits |-> 0, others |-> 0, faults |-> 0, unseen |-> FALSE]

Unseen        == counts.faults < MaxFaults /\ counts' = [counts EXCEPT !.faults = @ + 1, !.unseen = TRUE]
Count(c, max) == counts[c] < max /\ counts' = [counts EXCEPT ![c] = @ + 1]
-----------------------------------------------------------------------------
(* The source *)

(* It is left alone while a build is under way.                            *)
Edit ==
  /\ run.pc = "idle" /\ Count("edits", MaxEdits)
  /\ \E c \in Contents : src' \in {[src EXCEPT !.work = c], [src EXCEPT !.xwork = 3 - @]}
  /\ src' # src
  /\ UNCHANGED <<cache, registry, docker, run>>

(* git commit of everything, with or without a tag.                        *)
Commit ==
  /\ run.pc = "idle" /\ Count("edits", MaxEdits)
  /\ \E t \in {"none", "v1"} :
       LET c == [src.work EXCEPT !.untracked = 0, !.bytes = src.work.bytes + src.work.untracked] IN
       src' = [head |-> c, work |-> c, xhead |-> src.xwork, xwork |-> src.xwork, gittag |-> t]
  /\ src' # src
  /\ UNCHANGED <<cache, registry, docker, run>>

(* git.isDirty: a tracked file differs from HEAD, or one is not tracked.    *)
TrackedOnly == [src.work EXCEPT !.untracked = 0] # src.head   \* faulty: untracked files are not looked for
isDirty     == src.work # src.head

(* contentHash: the bytes of all files, not their names.                   *)
contentHash(c) == [c EXCEPT !.names = 0]

(* What -force-dirty or the source makes dirty.                            *)
Dirty(o) == o.dirty \/ isDirty

(* NewFromConfig: the tag is the tree's hash in HEAD, with the hashes of    *)
(* extra sources in HEAD, and the hash of the contents if dirty; -hash      *)
(* replaces all of it.                                                     *)
Tag(o) ==
  IF o.hash # "git" THEN OtherTag(o.hash)
  ELSE GitTag(src.head, src.xhead, IF Dirty(o) THEN contentHash(src.work) ELSE NoContent)
-----------------------------------------------------------------------------
(* The command, and Build up to the choice of the platforms to build *)

Go(r)    == run' = r
To(l)    == [run EXCEPT !.pc = l]
End(res) == [Fresh(run.opts, run.tag, FALSE, run.release) EXCEPT !.result = res, !.late = run.late]

(* Build starts: -nobuild and -release are only used with -push; -docker    *)
(* pulls.  Without -release, a tag of HEAD is the release.                  *)
Effective(o) == [o EXCEPT !.nobuild = o.push /\ o.nobuild, !.pull = o.pull \/ o.docker]
ReleaseOf(o) == IF ~o.push THEN "none" ELSE IF o.release # "none" THEN o.release ELSE src.gittag
Begun(o)     == Fresh(Effective(o), Tag(o), Dirty(o), ReleaseOf(o))

(* -force builds all platforms, -nobuild none; else each is looked for.     *)
Chosen(r) ==
  IF r.opts.force THEN [r EXCEPT !.pc = "arch", !.build = Arches, !.built = TRUE]
  ELSE IF r.opts.nobuild THEN [r EXCEPT !.pc = "find"]
  ELSE [r EXCEPT !.pc = "check", !.check = Arches]

(* -force conflicts with -nobuild and -pull.                               *)
Refused(o) == o.force /\ (o.nobuild \/ o.pull)
pkgBuildCmd ==
  /\ run.pc = "idle" /\ Count("runs", MaxRuns)
  /\ \E o \in Invocations : Go(IF Refused(o) THEN [Begun(o) EXCEPT !.result = "error"] ELSE Chosen(Begun(o)))
  /\ UNCHANGED <<src, cache, registry, docker>>

(* What the cache and the registry answer.  ImageInRegistry takes a failed  *)
(* request for "not there".                                                *)
ImageInCache(t, p)    == p \in In(cache, Named(t))
ValidateImage(t, ps)  == ps \subseteq In(cache, Named(t)) /\ ~At(cache, Named(t)).nested
InRegistry(t, ps)     == ps \subseteq In(registry, Named(t))

(* ImagePull replaces what the cache has under the name.                   *)
Pulled(t) == cache' = Put(cache, Named(t), registry[Named(t)])

Platform      == Head(run.check)
Checked(r)    == [r EXCEPT !.check = Tail(@), !.pc = IF Len(run.check) = 1 THEN (IF r.build = <<>> THEN "find" ELSE "arch") ELSE "check"]
ToBuild       == Checked([run EXCEPT !.build = Append(@, Platform), !.built = TRUE])

(* A platform in the cache is done with.  Otherwise -pull pulls it, and     *)
(* without it is enough that the registry has it; else it is built.         *)
AnyInCache(p) == In(cache, Named(run.tag)) # {}   \* faulty: another platform's image will do
InCache(p)    == ImageInCache(run.tag, p)
CheckPlatform ==
  /\ run.pc = "check"
  /\ \/ InCache(Platform) /\ Go(Checked([run EXCEPT !.any = TRUE])) /\ UNCHANGED cache
     \/ /\ ~InCache(Platform) /\ InRegistry(run.tag, {Platform})
        /\ Go(Checked(run))
        /\ IF run.opts.pull THEN Pulled(run.tag) ELSE UNCHANGED cache
     \/ ~InCache(Platform) /\ ~InRegistry(run.tag, {Platform}) /\ Go(ToBuild) /\ UNCHANGED cache
  /\ UNCHANGED <<src, registry, docker, counts>>

(* The request is lost: the platform is built though it may be there.      *)
CheckLost ==
  /\ run.pc = "check" /\ ~InCache(Platform) /\ Count("faults", MaxFaults)
  /\ Go(ToBuild)
  /\ UNCHANGED <<src, cache, registry, docker>>
-----------------------------------------------------------------------------
(* buildArch *)

Building == Head(run.build)

(* Unless forced, the image is looked for once more and pulled; then it is  *)
(* the descriptor of the whole index that is returned.                      *)
NextArch(r) == [r EXCEPT !.build = Tail(@), !.left = 0, !.loader = "none", !.pc = IF Len(run.build) = 1 THEN "index" ELSE "arch"]
Solve       == [run EXCEPT !.pc = "solve", !.left = Chunks, !.loader = "reading"]
ArchFound ==
  /\ run.pc = "arch" /\ ~run.opts.force
  /\ \/ ValidateImage(run.tag, {Building}) /\ UNCHANGED cache
     \/ ~ValidateImage(run.tag, {Building}) /\ InRegistry(run.tag, {Building}) /\ Pulled(run.tag)
  /\ Go(NextArch([run EXCEPT !.root = TRUE, !.late = TRUE]))
  /\ UNCHANGED <<src, registry, docker, counts>>

(* Otherwise the packages it depends on are fetched, and the builder (see   *)
(* module Builder) is given the context; ImageLoad reads what it writes.    *)
ArchBuild ==
  /\ run.pc = "arch"
  /\ run.opts.force \/ (~ValidateImage(run.tag, {Building}) /\ ~InRegistry(run.tag, {Building}))
  /\ Go(IF run.opts.dry THEN NextArch(run) ELSE Solve)
  /\ UNCHANGED <<src, cache, registry, docker, counts>>
ArchLost ==
  /\ run.pc = "arch" /\ ~run.opts.force /\ ~ValidateImage(run.tag, {Building}) /\ Count("faults", MaxFaults)
  /\ Go(IF run.opts.dry THEN NextArch(run) ELSE Solve)
  /\ UNCHANGED <<src, cache, registry, docker>>

(* A write of the builder ends when ImageLoad has read it.                 *)
WriteChunk ==
  /\ run.pc = "solve" /\ run.loader = "reading" /\ run.left > 0
  /\ Go([run EXCEPT !.left = @ - 1])
  /\ UNCHANGED <<src, cache, registry, docker, counts>>

(* ImageLoad fails: it writes the error into the pipe it was to read, where *)
(* nobody reads, and stays there until the builder has ended.               *)
LoadFails ==
  /\ run.pc = "solve" /\ run.loader = "reading" /\ Count("faults", MaxFaults)
  /\ Go([run EXCEPT !.loader = "failed"])
  /\ UNCHANGED <<src, cache, registry, docker>>

(* The builder has written all: the pipe is closed, ImageLoad names the     *)
(* image after its platform and returns what it lists.                      *)
Image == [src |-> src.work, by |-> "me"]
NeverClosed == FALSE   \* faulty: the pipe is left open
Closed      == run.left = 0
Loaded ==
  /\ run.pc = "solve" /\ Closed
  /\ \/ /\ run.loader = "reading"
        /\ Go(NextArch([run EXCEPT !.descs = Put(@, Building, Image)]))
        /\ cache' = Put(cache, Arch(run.tag, Building), [plats |-> One(Building, Image), nested |-> FALSE])
     \/ run.loader = "failed" /\ Go(End("error")) /\ UNCHANGED cache
  /\ UNCHANGED <<src, registry, docker, counts>>

(* IndexWrite: the new images take the places of the old ones.             *)
Merged(new, old) == Over(new, old)
IndexWrite ==
  /\ run.pc = "index"
  /\ IF run.opts.dry THEN Go(End("ok")) /\ UNCHANGED cache
     ELSE /\ LET old == At(cache, Named(run.tag)) IN
             cache' = Put(cache, Named(run.tag), [plats |-> Merged(run.descs, old.plats), nested |-> run.root \/ old.nested])
          /\ Go(To("find"))
  /\ UNCHANGED <<src, registry, docker, counts>>
-----------------------------------------------------------------------------
(* Docker, push and release *)

ReleaseTag == OtherTag(run.release)
FindDescriptor ==
  /\ run.pc = "find"
  /\ Go([run EXCEPT !.pc = "docker", !.desc = Named(run.tag) \in DOMAIN cache])
  /\ UNCHANGED <<src, cache, registry, docker, counts>>

(* Each platform is loaded under its name, the host's without it as well;   *)
(* the runner of a dry run cannot.                                         *)
DockerNames == Platforms \cup {"all"}
LoadDocker ==
  /\ run.pc = "docker"
  /\ IF ~(run.opts.docker /\ run.desc) THEN Go(To("push")) /\ UNCHANGED docker
     ELSE IF ~run.opts.dry /\ \A p \in Platforms : ImageInCache(run.tag, p)
     THEN Go(To("push")) /\ docker' = docker \cup {[tag |-> run.tag, arch |-> a] : a \in DockerNames}
     ELSE Go(End("error")) /\ UNCHANGED docker
  /\ UNCHANGED <<src, cache, registry, counts>>

(* Nothing was built and nothing is in the cache: the tag is not pushed.    *)
Cached == run.any \/ \E p \in Platforms : ImageInCache(run.tag, p)
Decide ==
  /\ run.pc = "push"
  /\ Go(IF ~run.opts.push THEN End("ok")
        ELSE IF ~run.built /\ ~Cached /\ run.release = "none" THEN End("ok")
        ELSE IF run.dirty THEN End("error")
        ELSE IF ~run.built /\ ~Cached THEN To("release")
        ELSE To("index.push"))
  /\ UNCHANGED <<src, cache, registry, docker, counts>>

(* Push of a name: nothing is done if the registry has the same index;      *)
(* otherwise what is only there is added.  Then the images of the local     *)
(* index each get a name.  An index that lists a missing one cannot be      *)
(* read.                                                                   *)
Overwrite(l, r)   == l   \* faulty: what the registry has is not kept
AppendIndex(l, r) == Over(l, r)
PushIndex(n, next, seen) ==
  IF At(cache, n).nested \/ In(cache, n) = {} THEN Go(End("error")) /\ UNCHANGED registry
  ELSE IF seen /\ At(registry, n) = cache[n] THEN Go(next) /\ UNCHANGED registry
  ELSE LET all == IF seen THEN AppendIndex(cache[n].plats, At(registry, n).plats) ELSE cache[n].plats IN
       /\ registry' = Put(registry, n, [plats |-> all, nested |-> FALSE])
       /\ Go(IF run.opts.manifest THEN [next EXCEPT !.pc = IF next.pc = "release" THEN "arch.push" ELSE "arch.release"] ELSE next)

PushDefault ==
  /\ run.pc = "index.push"
  /\ PushIndex(Named(run.tag), To("release"), TRUE)
  /\ UNCHANGED <<src, cache, docker, counts>>
PushUnseen ==
  /\ run.pc = "index.push" /\ Unseen
  /\ PushIndex(Named(run.tag), To("release"), FALSE)
  /\ UNCHANGED <<src, cache, docker>>

ArchNames(t, n) == [a \in {Arch(t, p) : p \in In(cache, n)} |-> [plats |-> One(a.arch, cache[n].plats[a.arch]), nested |-> FALSE]]
PushArches ==
  /\ run.pc \in {"arch.push", "arch.release"}
  /\ LET t == IF run.pc = "arch.push" THEN run.tag ELSE ReleaseTag
     IN  registry' = Over(ArchNames(t, Named(t)), registry)
  /\ Go(To(IF run.pc = "arch.push" THEN "release" ELSE "tags"))
  /\ UNCHANGED <<src, cache, docker, counts>>

(* The release gets the descriptor of the tag, which is pulled if it is not *)
(* in the cache.                                                           *)
Release ==
  /\ run.pc = "release"
  /\ IF run.release = "none" THEN Go(End("ok")) /\ UNCHANGED cache
     ELSE IF run.desc
     THEN /\ cache' = Put(cache, Named(ReleaseTag), cache[Named(run.tag)])
          /\ Go(To("release.push"))
     ELSE IF InRegistry(run.tag, Platforms)
     THEN Pulled(run.tag) /\ Go([run EXCEPT !.desc = TRUE])
     ELSE Go(End("error")) /\ UNCHANGED cache
  /\ UNCHANGED <<src, registry, docker, counts>>

(* A release that the registry has is left alone.                          *)
Released(n)  == n \in DOMAIN registry
PushRelease ==
  /\ run.pc = "release.push"
  /\ IF Released(Named(ReleaseTag)) THEN Go(To("tags")) /\ UNCHANGED registry
     ELSE PushIndex(Named(ReleaseTag), To("tags"), TRUE)
  /\ UNCHANGED <<src, cache, docker, counts>>
(* The first request is lost, the second is not.                           *)
PushReleaseUnseen ==
  /\ run.pc = "release.push" /\ Unseen
  /\ PushIndex(Named(ReleaseTag), To("tags"), TRUE)
  /\ UNCHANGED <<src, cache, docker>>

TagDocker ==
  /\ run.pc = "tags"
  /\ IF ~run.opts.docker THEN Go(End("ok")) /\ UNCHANGED docker
     ELSE IF ~run.opts.dry /\ Arch(run.tag, HostArch) \in docker
     THEN Go(End("ok")) /\ docker' = docker \cup {[tag |-> ReleaseTag, arch |-> a] : a \in DockerNames}
     ELSE Go(End("error")) /\ UNCHANGED docker
  /\ UNCHANGED <<src, cache, registry, counts>>

(* A tool, the builder or the registry fails: Build returns the error.      *)
Fails ==
  /\ run.pc \notin {"idle", "check", "push"} /\ Count("faults", MaxFaults)
  /\ run.pc = "solve" => run.loader = "reading" \/ run.left = 0
  /\ Go(End("error"))
  /\ UNCHANGED <<src, cache, registry, docker>>
-----------------------------------------------------------------------------
(* The other clients *)

(* Another machine pushes an image it has built from the committed source.  *)
OtherPush ==
  /\ Count("others", MaxOthers)
  /\ \E p \in Platforms :
       LET n == Named(GitTag(src.head, src.xhead, NoContent))
           i == [src |-> src.head, by |-> "other"]
           a == Arch(n.tag, p)
       IN  registry' = Put(Put(registry, n, [plats |-> Put(At(registry, n).plats, p, i), nested |-> FALSE]),
                           a, [plats |-> One(p, i), nested |-> FALSE])
  /\ UNCHANGED <<src, cache, docker, run>>
-----------------------------------------------------------------------------
Check   == pkgBuildCmd \/ CheckPlatform \/ CheckLost
Arch_   == ArchFound \/ ArchBuild \/ ArchLost \/ WriteChunk \/ Loaded \/ IndexWrite
Publish == FindDescriptor \/ LoadDocker \/ Decide \/ PushDefault \/ PushUnseen \/ PushArches
Finish  == Release \/ PushRelease \/ PushReleaseUnseen \/ TagDocker

Next == Edit \/ Commit \/ Check \/ Arch_ \/ LoadFails \/ Publish \/ Finish \/ Fails \/ OtherPush

Spec == Init /\ [][Next]_vars
(* The command goes on until it ends.                                      *)
FairSpec == Spec /\ WF_vars(CheckPlatform \/ Arch_ \/ Publish \/ Finish)
-----------------------------------------------------------------------------
(* When pkg build has ended without error, each platform of the package can *)
(* be had: from the registry if it was to push, else from it or the cache,  *)
(* and from docker if it was to load it there.  Not so with -nobuild or     *)
(* -dry-run, nor when an index was pulled over the one in the cache (-pull, *)
(* or an image that appears while it is to be built), nor when Push could   *)
(* not see what the registry had.                                          *)
Served ==
  /\ run.opts.push => Platforms \subseteq In(registry, Named(run.tag))
  /\ Platforms \subseteq In(registry, Named(run.tag)) \cup In(cache, Named(run.tag))
Available ==
  (/\ run.result = "ok" /\ ~run.opts.nobuild /\ ~run.opts.dry /\ ~run.late /\ ~counts.unseen
   /\ run.opts.pull => run.opts.docker) =>
     /\ ~run.opts.docker => Served
     /\ run.opts.docker => \A p \in Platforms : Arch(run.tag, p) \in docker

(* Whatever is under a tag made from a git tree was built from that tree:   *)
(* in the registry always, in the cache unless the tag says dirty; and      *)
(* nothing dirty is in the registry.  Not so for its extra sources, whose  *)
(* changes isDirty does not look for.                                      *)
BuiltFromTag ==
  \A n \in DOMAIN cache \cup DOMAIN registry :
    n.tag.kind = "git" =>
      IF n.tag.dirty # NoContent THEN n \notin DOMAIN registry
      ELSE \A store \in {cache, registry} : \A p \in In(store, n) :
             At(store, n).plats[p].src = n.tag.tree

(* No push takes a platform away from a name in the registry, and a release *)
(* that is there stays as it is, unless the request that was to find out    *)
(* what is there was lost.                                                 *)
RegistryKept ==
  [][~counts'.unseen =>
       \A n \in DOMAIN registry :
         /\ In(registry, n) \subseteq In(registry', n)
         /\ n.tag.kind = "v1" => registry'[n] = registry[n]]_vars

-----------------------------------------------------------------------------
(* The inductive invariant *)

Tags    == [kind : Kinds, tree : Content \cup {NoContent}, extra : Nat, dirty : Content \cup {NoContent}]
Pushing == {"release", "arch.push", "arch.release", "release.push", "tags"}
Places  == {"idle", "check", "arch", "solve", "index", "find", "docker", "push", "index.push"} \cup Pushing
RunOK ==
  run \in [pc : Places, opts : Options, tag : Tags, dirty : BOOLEAN, release : Releases,
           check : Seq(Platforms), build : Seq(Platforms), descs : {run.descs}, root : BOOLEAN, any : BOOLEAN, built : BOOLEAN,
           desc : BOOLEAN, left : 0..Chunks, loader : {"none", "reading", "failed"}, late : BOOLEAN, result : {"none", "ok", "error"}]
TypeOK ==
  /\ src \in [head : Content, work : Content, xhead : 1..2, xwork : 1..2, gittag : {"none", "v1"}]
  /\ RunOK
  /\ counts \in [runs : 0..MaxRuns, edits : 0..MaxEdits, others : 0..MaxOthers, faults : 0..MaxFaults, unseen : BOOLEAN]

(* While it runs, the tag is that of the source, which stays as it is; it is *)
(* marked if the source is not the committed one, and then nothing is       *)
(* pushed.                                                                 *)
Current ==
  run.pc # "idle" =>
    /\ run.tag.kind = "git" => /\ run.tag.tree = src.head
                               /\ run.tag.dirty = NoContent <=> ~run.dirty
    /\ run.tag.kind # "v1"
    /\ ~run.dirty => src.work = src.head
    /\ \A p \in DOMAIN run.descs : run.descs[p].src = src.work
    /\ run.pc \in Pushing \cup {"index.push"} => ~run.dirty /\ run.opts.push

(* No index has other platforms than those of the package.                 *)
PlatsOK(store) == \A n \in DOMAIN store : DOMAIN store[n].plats \subseteq Platforms
OfPackage      == PlatsOK(cache) /\ PlatsOK(registry) /\ DOMAIN run.descs \subseteq Platforms

(* A platform's name has no other platform, and a release has its index     *)
(* before the names of its platforms.                                      *)
ArchNamed ==
  /\ \A n \in DOMAIN registry : n.arch # "all" => In(registry, n) \subseteq {n.arch}
  /\ ~counts.unseen =>
       /\ \A n \in DOMAIN registry : n.tag.kind = "v1" => Named(n.tag) \in DOMAIN registry
       /\ run.pc = "arch.release" /\ run.release = "v1" =>
            Named(ReleaseTag) \in DOMAIN registry /\ \A p \in Platforms : Arch(ReleaseTag, p) \notin DOMAIN registry

(* What the platforms not yet looked at, to be built and built come to with *)
(* those that are in the cache or the registry.                            *)
Had     == In(registry, Named(run.tag)) \cup In(cache, Named(run.tag))
Waiting ==
  CASE run.pc = "check" -> Range(run.check) \cup Range(run.build)
    [] run.pc \in {"arch", "solve"} -> Range(run.build) \cup DOMAIN run.descs
    [] run.pc = "index" -> DOMAIN run.descs
    [] OTHER -> {}
Expected == ~run.opts.nobuild /\ ~run.opts.dry /\ ~run.late /\ ~counts.unseen
Progress ==
  /\ run.pc = "check" => run.check # <<>>
  /\ run.pc \in {"arch", "solve"} => run.build # <<>>
  /\ run.pc = "idle" \/ run.result = "none"
  /\ run.opts.docker => run.opts.pull
  /\ run.desc => Named(run.tag) \in DOMAIN cache
  /\ (run.pc # "idle" /\ Expected /\ ~run.opts.pull) =>
       /\ Platforms \subseteq Waiting \cup Had
       /\ run.pc \in Pushing => Platforms \subseteq In(registry, Named(run.tag))
  /\ (Expected /\ run.opts.docker) =>
       /\ run.pc = "find" => Named(run.tag) \in DOMAIN cache
       /\ run.pc = "docker" => run.desc
       /\ run.pc \in {"push", "index.push"} \cup Pushing => \A p \in Platforms : Arch(run.tag, p) \in docker

IInv == TypeOK /\ Current /\ OfPackage /\ BuiltFromTag /\ ArchNamed /\ Progress /\ Available
-----------------------------------------------------------------------------
(* pkg build ends, unless the cache fails to load an image that the builder *)
(* has not written out: then each waits for the other.                     *)
Stuck     == run.pc = "solve" /\ run.loader = "failed" /\ run.left > 0
BuildEnds == run.pc # "idle" ~> run.pc = "idle" \/ Stuck

(* docs/packages.md: pkg push builds the package for all its platforms, and *)
(* pushes the manifest and all of the images to the hub.                   *)
PushComplete ==
  (run.result = "ok" /\ run.opts.push /\ ~run.opts.nobuild /\ ~run.opts.dry) => Platforms \subseteq In(registry, Named(run.tag))
===============================================================================
