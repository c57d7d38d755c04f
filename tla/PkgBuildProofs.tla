---------------------------- MODULE PkgBuildProofs ----------------------------
(***************************************************************************)
(* Proofs about PkgBuild, for any platforms, contents and invocations: a   *)
(* build that ends well leaves its platforms available, what a tag names   *)
(* was built from the tag's tree, and a push keeps what the registry has.  *)
(***************************************************************************)
EXTENDS PkgBuild, TLAPS
(* Most leaves are first-order: Zenon is tried first, SMT where it fails.   *)
USE ZenonT(30), SMTT(20)

(* What a store has after names were put into it.                          *)
LEMMA OverFacts ==
  ASSUME NEW f, NEW g
  PROVE  /\ DOMAIN Over(f, g) = DOMAIN f \cup DOMAIN g
         /\ \A m \in DOMAIN f : Over(f, g)[m] = f[m] /\ In(Over(f, g), m) = In(f, m)
         /\ \A m : m \notin DOMAIN f => In(Over(f, g), m) = In(g, m)
         /\ \A m \in DOMAIN g \ DOMAIN f : Over(f, g)[m] = g[m]
BY DEF Over, In, At

LEMMA EmptyFacts == ASSUME NEW f, NEW n, n \notin DOMAIN f PROVE In(f, n) = {}
BY DEF In, At, NoIndex, Empty

(* A list with an entry is its head and the rest.                          *)
LEMMA ListFacts ==
  ASSUME NEW S, NEW s \in Seq(S), s # <<>>
  PROVE  /\ Head(s) \in S /\ Tail(s) \in Seq(S)
         /\ Range(s) = {Head(s)} \cup Range(Tail(s))
         /\ Len(s) = 1 => Range(Tail(s)) = {}
         /\ Len(s) # 1 => Tail(s) # <<>>
<1>1. Len(s) \in Nat /\ Len(s) # 0 /\ DOMAIN s = 1..Len(s)
  BY SMT
<1>2. Tail(s) \in Seq(S) /\ Len(Tail(s)) = Len(s) - 1 /\ \A k \in 1..Len(s) - 1 : Tail(s)[k] = s[k + 1]
  BY <1>1, SMT
<1>3. Head(s) = s[1] /\ Head(s) \in S
  BY <1>1, SMT
<1>4. DOMAIN Tail(s) = 1..Len(s) - 1
  BY <1>1, <1>2, SMT
<1>5. Range(s) = {Head(s)} \cup Range(Tail(s))
  <2>1. ASSUME NEW k \in DOMAIN s PROVE s[k] \in {Head(s)} \cup Range(Tail(s))
    <3>1. k = 1 \/ k - 1 \in 1..Len(s) - 1
      BY <1>1, SMT
    <3>2. CASE k - 1 \in 1..Len(s) - 1
      <4>1. Tail(s)[k - 1] = s[k]
        BY <3>2, <1>2, <1>1, SMT
      <4> QED
        BY <4>1, <3>2, <1>4 DEF Range
    <3> QED
      BY <3>1, <3>2, <1>3
  <2>2. ASSUME NEW k \in DOMAIN Tail(s) PROVE Tail(s)[k] \in Range(s)
    BY <1>1, <1>2, <1>4, SMT DEF Range
  <2>3. Head(s) \in Range(s)
    BY <1>1, <1>3, SMT DEF Range
  <2> QED
    BY <2>1, <2>2, <2>3 DEF Range
<1>6. Len(s) = 1 => Range(Tail(s)) = {}
  BY <1>4, SMT DEF Range
<1>7. Len(s) # 1 => Tail(s) # <<>>
  <2>1. Len(<<>>) = 0
    BY SMT
  <2>2. Len(s) # 1 => Len(s) - 1 # 0
    BY <1>1, SMT
  <2> QED
    BY <1>2, <2>1, <2>2
<1> QED
  BY <1>2, <1>3, <1>5, <1>6, <1>7

LEMMA AppendFacts ==
  ASSUME NEW S, NEW s \in Seq(S), NEW e \in S
  PROVE  Append(s, e) \in Seq(S) /\ Append(s, e) # <<>> /\ Range(Append(s, e)) = Range(s) \cup {e}
<1>1. Append(s, e) \in Seq(S) /\ Len(Append(s, e)) = Len(s) + 1 /\ Len(s) \in Nat
  BY SMT
<1>2. DOMAIN s = 1..Len(s) /\ DOMAIN Append(s, e) = 1..Len(s) + 1
  BY <1>1, SMT
<1>3. Append(s, e)[Len(s) + 1] = e /\ \A k \in 1..Len(s) : Append(s, e)[k] = s[k]
  BY <1>1, SMT
<1>4. Range(Append(s, e)) = Range(s) \cup {e}
  <2>1. ASSUME NEW k \in 1..Len(s) + 1 PROVE Append(s, e)[k] \in Range(s) \cup {e}
    <3>1. k \in 1..Len(s) \/ k = Len(s) + 1
      BY <1>1, SMT
    <3> QED
      BY <3>1, <1>2, <1>3 DEF Range
  <2>2. \A k \in 1..Len(s) : k \in 1..Len(s) + 1
    BY <1>1, SMT
  <2>3. Len(s) + 1 \in 1..Len(s) + 1
    BY <1>1, SMT
  <2> QED
    BY <2>1, <2>2, <2>3, <1>2, <1>3 DEF Range
<1>5. Append(s, e) # <<>>
  BY <1>1, SMT
<1> QED
  BY <1>1, <1>4, <1>5

(* The names of a tag and of its platforms.                                *)
LEMMA NameFacts ==
  /\ HostArch \in Platforms
  /\ \A p \in Platforms : p # "all"
  /\ \A t, u : \A p \in Platforms : Arch(t, p) # Named(u)
  /\ \A t, p : Arch(t, p).tag = t /\ Arch(t, p).arch = p
  /\ \A t : Named(t).tag = t /\ Named(t).arch = "all"
<1>1. \A p \in Platforms : p # "all"
  BY ArchesAssumption, SMT DEF Platforms, Range
<1>2. HostArch \in Platforms
  BY ArchesAssumption DEF Platforms
<1> QED
  BY <1>1, <1>2 DEF Arch, Named

(* The counts.                                                             *)
CountsOK == counts \in [runs : 0..MaxRuns, edits : 0..MaxEdits, others : 0..MaxOthers, faults : 0..MaxFaults, unseen : BOOLEAN]
Counted  == CountsOK' /\ (counts.unseen => counts'.unseen)
LEMMA CountFacts ==
  ASSUME TypeOK
  PROVE  /\ Count("faults", MaxFaults) => Counted
         /\ Count("runs", MaxRuns) => Counted
         /\ Count("edits", MaxEdits) => Counted
         /\ Count("others", MaxOthers) => Counted
         /\ UNCHANGED counts => Counted
         /\ Unseen => Counted /\ counts'.unseen
<1> USE ArchesAssumption DEF TypeOK, CountsOK, Counted
<1>1. Count("faults", MaxFaults) => Counted
  BY SMT DEF Count
<1>2. Count("runs", MaxRuns) => Counted
  BY SMT DEF Count
<1>3. Count("edits", MaxEdits) => Counted
  BY SMT DEF Count
<1>4. Count("others", MaxOthers) => Counted
  BY SMT DEF Count
<1>5. UNCHANGED counts => Counted
  OBVIOUS
<1>6. Unseen => Counted /\ counts'.unseen
  <2> SUFFICES ASSUME Unseen PROVE Counted /\ counts'.unseen
    OBVIOUS
  <2>1. counts' = [runs |-> counts.runs, edits |-> counts.edits, others |-> counts.others, faults |-> counts.faults + 1, unseen |-> TRUE]
    BY DEF Unseen
  <2>2. counts.faults + 1 \in 0..MaxFaults
    BY SMT DEF Unseen
  <2> QED
    BY <2>1, <2>2
<1> QED
  BY <1>1, <1>2, <1>3, <1>4, <1>5, <1>6
-----------------------------------------------------------------------------
(* Steps that change the command alone *)

SameCommand ==
  /\ run'.opts = run.opts /\ run'.tag = run.tag /\ run'.late = run.late /\ run'.result = run.result
  /\ run'.dirty = run.dirty /\ run'.release = run.release /\ run'.descs = run.descs

LEMMA EndFacts ==
  ASSUME TypeOK, NEW res \in {"ok", "error"}, run' = End(res)
  PROVE  /\ RunOK'
         /\ run'.pc = "idle" /\ run'.opts = run.opts /\ run'.tag = run.tag /\ run'.late = run.late /\ run'.result = res
         /\ run'.descs = Empty /\ run'.desc = FALSE
<1>1. 0 \in 0..Chunks
  BY ArchesAssumption, SMT
<1>2. run' = [pc |-> "idle", opts |-> run.opts, tag |-> run.tag, dirty |-> FALSE, release |-> run.release,
              check |-> <<>>, build |-> <<>>, descs |-> Empty, root |-> FALSE, any |-> FALSE, built |-> FALSE, desc |-> FALSE,
              left |-> 0, loader |-> "none", late |-> run.late, result |-> res]
  BY DEF End, Fresh
<1>3. RunOK'
  BY <1>1, <1>2, SMT DEF TypeOK, RunOK, Places
<1> QED
  BY <1>2, <1>3, SMT

(* The command ends: the result stands for what it says.                   *)
Kept(d) ==
  Expected /\ (run.opts.pull => run.opts.docker) =>
    /\ ~run.opts.docker => Served
    /\ run.opts.docker => \A p \in Platforms : Arch(run.tag, p) \in d
LEMMA Ends ==
  ASSUME IInv, NEW res \in {"ok", "error"}, run' = End(res), UNCHANGED <<src, cache, registry>>, Counted,
         res = "ok" => Kept(docker')
  PROVE  IInv'
<1>1. /\ RunOK'
      /\ run'.pc = "idle" /\ run'.opts = run.opts /\ run'.tag = run.tag /\ run'.late = run.late /\ run'.result = res
      /\ run'.descs = Empty /\ run'.desc = FALSE
  BY EndFacts DEF IInv
<1>2. TypeOK'
  BY <1>1 DEF IInv, TypeOK, Counted, CountsOK
<1>3. Current'
  BY <1>1 DEF Current
<1>4. BuiltFromTag'
  BY DEF IInv, BuiltFromTag, At, In
<1>5. ArchNamed'
  BY <1>1 DEF IInv, ArchNamed, In, At, Counted
<1>6. Progress'
  BY <1>1 DEF IInv, Progress, Pushing
<1>7. Available'
  BY <1>1 DEF Available, Kept, Expected, Served, In, At, Counted
<1>8. OfPackage'
  BY <1>1 DEF IInv, OfPackage, PlatsOK, Empty
<1> QED
  BY <1>2, <1>3, <1>4, <1>5, <1>6, <1>7, <1>8 DEF IInv

(* The command goes on.                                                    *)
LEMMA Moves ==
  ASSUME IInv, run.pc # "idle", run'.pc \notin {"idle", "arch.release"}, RunOK', SameCommand,
         UNCHANGED <<src, cache, registry>>, Counted,
         run'.pc \in Pushing \cup {"index.push"} => run.pc \in Pushing \cup {"index.push"} \/ (~run.dirty /\ run.opts.push),
         Progress'
  PROVE  IInv'
<1>2. TypeOK'
  BY DEF IInv, TypeOK, Counted, CountsOK
<1>3. Current'
  BY DEF IInv, Current, SameCommand
<1>4. BuiltFromTag'
  BY DEF IInv, BuiltFromTag, At, In
<1>5. ArchNamed'
  BY DEF IInv, ArchNamed, In, At, Counted
<1>7. Available'
  BY DEF IInv, Available, Progress, SameCommand
<1>8. OfPackage'
  BY DEF IInv, OfPackage, PlatsOK, SameCommand
<1> QED
  BY <1>2, <1>3, <1>4, <1>5, <1>7, <1>8 DEF IInv
-----------------------------------------------------------------------------
(* The source *)

SrcOK == src \in [head : Content, work : Content, xhead : 1..2, xwork : 1..2, gittag : {"none", "v1"}]
LEMMA SourceChanges ==
  ASSUME IInv, run.pc = "idle", SrcOK', Counted, UNCHANGED <<cache, registry, docker, run>>
  PROVE  IInv'
<1>1. TypeOK' /\ Current'
  BY DEF IInv, TypeOK, Current, RunOK, SrcOK, Counted, CountsOK
<1>2. BuiltFromTag'
  BY DEF IInv, BuiltFromTag, At, In
<1>3. ArchNamed'
  BY DEF IInv, ArchNamed, In, At, Counted, ReleaseTag
<1>4. Progress'
  BY DEF IInv, Progress, Expected, Waiting, Had, In, At, Counted
<1>5. Available'
  BY DEF IInv, Available, Served, In, At, Counted
<1>6. OfPackage'
  BY DEF IInv, OfPackage, PlatsOK
<1> QED
  BY <1>1, <1>2, <1>3, <1>4, <1>5, <1>6 DEF IInv

LEMMA EditStep == ASSUME IInv, Edit PROVE IInv'
<1>1. SrcOK'
  <2>1. PICK c \in Contents : src' \in {[src EXCEPT !.work = c], [src EXCEPT !.xwork = 3 - @]}
    BY DEF Edit
  <2>2. c \in Content
    BY SourceAssumption
  <2>3. CASE src' = [src EXCEPT !.work = c]
    BY <2>2, <2>3 DEF IInv, TypeOK, SrcOK
  <2>4. CASE src' = [src EXCEPT !.xwork = 3 - @]
    <3>1. 3 - src.xwork \in 1..2
      BY SMT DEF IInv, TypeOK
    <3> QED
      BY <2>4, <3>1 DEF IInv, TypeOK, SrcOK
  <2> QED
    BY <2>1, <2>3, <2>4
<1> QED
  BY <1>1, SourceChanges, CountFacts DEF Edit, IInv

LEMMA CommitStep == ASSUME IInv, Commit PROVE IInv'
<1>1. SrcOK'
  <2> DEFINE c == [src.work EXCEPT !.untracked = 0, !.bytes = src.work.bytes + src.work.untracked]
  <2>1. PICK t \in {"none", "v1"} : src' = [head |-> c, work |-> c, xhead |-> src.xwork, xwork |-> src.xwork, gittag |-> t]
    BY DEF Commit
  <2>2. src.work \in Content
    BY DEF IInv, TypeOK
  <2>3. c \in Content
    <3>1. src.work.bytes + src.work.untracked \in Nat
      BY <2>2, SMT DEF Content
    <3> DEFINE k == src.work.bytes + src.work.untracked
    <3> HIDE DEF k
    <3>2. [src.work EXCEPT !.untracked = 0, !.bytes = k] \in Content
      BY <2>2, <3>1 DEF Content, k
    <3> QED
      BY <3>2 DEF k
  <2> HIDE DEF c
  <2> QED
    BY <2>1, <2>3 DEF IInv, TypeOK, SrcOK
<1> QED
  BY <1>1, SourceChanges, CountFacts DEF Commit, IInv
-----------------------------------------------------------------------------
(* The start of the command *)

(* The commands that have not built anything.                              *)
NewCommands ==
  [pc : Places, opts : Options, tag : Tags, dirty : BOOLEAN, release : Releases, check : Seq(Platforms), build : Seq(Platforms),
   descs : {Empty}, root : BOOLEAN, any : BOOLEAN, built : BOOLEAN, desc : BOOLEAN, left : 0..Chunks, loader : {"none"},
   late : BOOLEAN, result : {"none"}]
LEMMA BegunFacts ==
  ASSUME TypeOK, NEW o \in Invocations
  PROVE  /\ Begun(o) \in NewCommands /\ Begun(o).pc = "idle" /\ Begun(o).desc = FALSE
         /\ Begun(o).tag = Tag(o) /\ (Begun(o).dirty <=> Dirty(o))
         /\ Begun(o).opts.docker => Begun(o).opts.pull
<1>1. o \in Options /\ o.release # "git"
  BY InvocationsAssumption
<1>2. Effective(o) \in Options /\ (Effective(o).docker => Effective(o).pull)
  <2>1. ASSUME NEW x \in BOOLEAN, NEW y \in BOOLEAN
        PROVE  /\ [o EXCEPT !.nobuild = x, !.pull = y] \in Options
               /\ [o EXCEPT !.nobuild = x, !.pull = y].docker = o.docker
               /\ [o EXCEPT !.nobuild = x, !.pull = y].pull = y
    <3>1. [o EXCEPT !.nobuild = x, !.pull = y] \in Options
      BY <1>1 DEF Options
    <3> QED
      BY <1>1, <3>1 DEF Options
  <2>2. (o.push /\ o.nobuild) \in BOOLEAN /\ (o.pull \/ o.docker) \in BOOLEAN
    BY <1>1 DEF Options
  <2> QED
    BY <2>1, <2>2 DEF Effective
<1>3. ReleaseOf(o) \in Releases
  <2>1. o.release \in Releases /\ src.gittag \in {"none", "v1"}
    BY <1>1 DEF TypeOK, Options
  <2> QED
    BY <2>1 DEF ReleaseOf, Releases
<1>4. Tag(o) \in Tags
  <2>1. o.hash \in Kinds /\ "git" \in Kinds
    BY <1>1 DEF Options, Kinds
  <2>2. src.head \in Content /\ src.xhead \in Nat /\ contentHash(src.work) \in Content
    BY SMT DEF TypeOK, Content, contentHash
  <2> QED
    BY <2>1, <2>2 DEF Tag, OtherTag, GitTag, Tags
<1>5. Dirty(o) \in BOOLEAN
  BY <1>1 DEF Options, isDirty, Dirty
<1>6. Begun(o) = [pc |-> "idle", opts |-> Effective(o), tag |-> Tag(o), dirty |-> Dirty(o), release |-> ReleaseOf(o),
                  check |-> <<>>, build |-> <<>>, descs |-> Empty, root |-> FALSE, any |-> FALSE, built |-> FALSE, desc |-> FALSE,
                  left |-> 0, loader |-> "none", late |-> FALSE, result |-> "none"]
  BY DEF Begun, Fresh
<1>7. /\ Begun(o).pc = "idle" /\ Begun(o).desc = FALSE /\ Begun(o).tag = Tag(o) /\ (Begun(o).dirty <=> Dirty(o)) /\ Begun(o).opts = Effective(o)
  BY <1>6, SMT
<1>8. Begun(o) \in NewCommands
  <2>1. 0 \in 0..Chunks
    BY ArchesAssumption, SMT
  <2> QED
    BY <1>2, <1>3, <1>4, <1>5, <1>6, <2>1, SMT DEF NewCommands, Places
<1> QED
  BY <1>2, <1>7, <1>8

(* The tag says what the source is.                                        *)
LEMMA TagFacts ==
  ASSUME TypeOK, NEW o \in Invocations
  PROVE  /\ Tag(o).kind # "v1"
         /\ Tag(o).kind = "git" => Tag(o).tree = src.head /\ (Tag(o).dirty = NoContent <=> ~Dirty(o))
<1>1. o.hash # "v1"
  BY InvocationsAssumption
<1>2. contentHash(src.work) # NoContent
  <2>1. src.work \in Content
    BY DEF TypeOK
  <2>2. contentHash(src.work).bytes \in Nat
    BY <2>1 DEF Content, contentHash
  <2> QED
    BY <2>2, SMT DEF NoContent
<1>3. CASE o.hash # "git"
  BY <1>1, <1>3 DEF Tag, OtherTag
<1>4. CASE o.hash = "git"
  BY <1>2, <1>4 DEF Tag, GitTag
<1> QED
  BY <1>3, <1>4

LEMMA StartStep == ASSUME IInv, pkgBuildCmd PROVE IInv'
<1>1. PICK o \in Invocations : run' = IF Refused(o) THEN [Begun(o) EXCEPT !.result = "error"] ELSE Chosen(Begun(o))
  BY DEF pkgBuildCmd, Go
<1> DEFINE b == Begun(o)
<1>2. /\ b \in NewCommands /\ b.pc = "idle" /\ b.desc = FALSE
      /\ b.tag = Tag(o) /\ (b.dirty <=> Dirty(o)) /\ (b.opts.docker => b.opts.pull)
  BY BegunFacts DEF IInv
<1>3. UNCHANGED <<src, cache, registry, docker>> /\ Counted
  BY CountFacts DEF pkgBuildCmd, IInv
<1>4. Arches \in Seq(Platforms) /\ Arches # <<>> /\ Range(Arches) = Platforms
  <2>1. Arches \in Seq(STRING \ {"all"}) /\ HostArch \in Range(Arches)
    BY ArchesAssumption
  <2>2. Arches \in Seq(Range(Arches)) /\ Arches # <<>>
    BY <2>1, SMT DEF Range
  <2> QED
    BY <2>2 DEF Platforms
<1>5. 0 \in 0..Chunks
  BY ArchesAssumption, SMT
<1> HIDE DEF b
<1>6. /\ RunOK' /\ run'.opts = b.opts /\ run'.tag = b.tag /\ run'.dirty = b.dirty /\ run'.descs = Empty /\ run'.desc = FALSE
      /\ \/ run'.pc = "idle" /\ run'.result = "error"
         \/ run'.result = "none" /\ run'.pc = "arch" /\ run'.build = Arches
         \/ run'.result = "none" /\ run'.pc = "find" /\ run'.opts.nobuild
         \/ run'.result = "none" /\ run'.pc = "check" /\ run'.check = Arches
  <2>1. CASE run' = [b EXCEPT !.result = "error"]
    BY <2>1, <1>2, <1>5 DEF RunOK, Places, NewCommands
  <2>2. CASE run' = [b EXCEPT !.pc = "arch", !.build = Arches, !.built = TRUE]
    BY <2>2, <1>2, <1>4, <1>5 DEF RunOK, Places, NewCommands
  <2>3. CASE run' = [b EXCEPT !.pc = "find"] /\ b.opts.nobuild
    BY <2>3, <1>2, <1>5 DEF RunOK, Places, NewCommands
  <2>4. CASE run' = [b EXCEPT !.pc = "check", !.check = Arches]
    BY <2>4, <1>2, <1>4, <1>5 DEF RunOK, Places, NewCommands
  <2>5. \/ run' = [b EXCEPT !.result = "error"]
        \/ run' = [b EXCEPT !.pc = "arch", !.build = Arches, !.built = TRUE]
        \/ run' = [b EXCEPT !.pc = "find"] /\ b.opts.nobuild
        \/ run' = [b EXCEPT !.pc = "check", !.check = Arches]
    BY <1>1 DEF Chosen, b
  <2> QED
    BY <2>1, <2>2, <2>3, <2>4, <2>5
<1>7. TypeOK'
  BY <1>3, <1>6 DEF IInv, TypeOK, Counted, CountsOK
<1>8. Current'
  <2>1. b.tag.kind # "v1" /\ (b.tag.kind = "git" => b.tag.tree = src.head /\ (b.tag.dirty = NoContent <=> ~b.dirty))
    BY <1>2, TagFacts DEF IInv
  <2>2. ~b.dirty => src.work = src.head
    BY <1>2 DEF isDirty, Dirty
  <2>3. DOMAIN Empty = {} /\ run'.pc \notin Pushing \cup {"index.push"}
    BY <1>6 DEF Empty, Pushing
  <2> QED
    BY <2>1, <2>2, <2>3, <1>3, <1>6 DEF Current
<1>9. BuiltFromTag'
  BY <1>3 DEF IInv, BuiltFromTag, At, In
<1>10. ArchNamed'
  BY <1>3, <1>6 DEF IInv, ArchNamed, In, At, Counted
<1>11. Progress'
  <2>1. Platforms \subseteq Waiting' \/ run'.pc = "idle" \/ run'.opts.nobuild
    BY <1>4, <1>6 DEF Waiting
  <2> QED
    BY <2>1, <1>2, <1>4, <1>6 DEF Progress, Expected, Pushing
<1>12. Available'
  BY <1>6 DEF Available
<1>13. OfPackage'
  BY <1>3, <1>6 DEF IInv, OfPackage, PlatsOK, Empty
<1> QED
  BY <1>7, <1>8, <1>9, <1>10, <1>11, <1>12, <1>13 DEF IInv
-----------------------------------------------------------------------------
(* What is under the names *)

TagSound(store) ==
  \A n \in DOMAIN store : (n.tag.kind = "git" /\ n.tag.dirty = NoContent) =>
    \A p \in DOMAIN store[n].plats : store[n].plats[p].src = n.tag.tree
Undirtied(store) == \A n \in DOMAIN store : n.tag.kind = "git" => n.tag.dirty = NoContent

Built(c, r) ==
  \A n \in DOMAIN c \cup DOMAIN r :
    n.tag.kind = "git" =>
      IF n.tag.dirty # NoContent THEN n \notin DOMAIN r
      ELSE \A store \in {c, r} : \A p \in In(store, n) : At(store, n).plats[p].src = n.tag.tree

LEMMA BuiltEquiv ==
  ASSUME NEW c, NEW r
  PROVE  Built(c, r) <=> TagSound(c) /\ TagSound(r) /\ Undirtied(r)
<1>1. ASSUME Built(c, r) PROVE TagSound(c) /\ TagSound(r) /\ Undirtied(r)
  <2>1. ASSUME NEW store \in {c, r}, NEW n \in DOMAIN store, n.tag.kind = "git", n.tag.dirty = NoContent,
               NEW p \in DOMAIN store[n].plats
        PROVE  store[n].plats[p].src = n.tag.tree
    <3>1. p \in In(store, n) /\ At(store, n) = store[n]
      BY <2>1 DEF In, At
    <3> QED
      BY <2>1, <3>1, <1>1 DEF Built
  <2>2. Undirtied(r)
    BY <1>1 DEF Built, Undirtied
  <2> QED
    BY <2>1, <2>2 DEF TagSound
<1>2. ASSUME TagSound(c), TagSound(r), Undirtied(r) PROVE Built(c, r)
  <2>1. ASSUME NEW n \in DOMAIN c \cup DOMAIN r, n.tag.kind = "git", n.tag.dirty = NoContent,
               NEW store \in {c, r}, NEW p \in In(store, n)
        PROVE  At(store, n).plats[p].src = n.tag.tree
    <3>1. n \in DOMAIN store
      BY <2>1, EmptyFacts
    <3>2. TagSound(store)
      BY <1>2
    <3> QED
      BY <2>1, <3>1, <3>2 DEF TagSound, In, At
  <2> QED
    BY <2>1, <1>2 DEF Built, Undirtied
<1> QED
  BY <1>1, <1>2

LEMMA BuiltFacts ==
  /\ BuiltFromTag <=> TagSound(cache) /\ TagSound(registry) /\ Undirtied(registry)
  /\ BuiltFromTag' <=> TagSound(cache') /\ TagSound(registry') /\ Undirtied(registry')
<1>1. BuiltFromTag <=> Built(cache, registry)
  BY DEF BuiltFromTag, Built
<1>2. BuiltFromTag' <=> Built(cache', registry')
  BY DEF BuiltFromTag, Built, In, At
<1> QED
  BY <1>1, <1>2, BuiltEquiv

LEMMA PutSound ==
  ASSUME NEW f, NEW n, NEW v, TagSound(f),
         (n.tag.kind = "git" /\ n.tag.dirty = NoContent) => \A p \in DOMAIN v.plats : v.plats[p].src = n.tag.tree
  PROVE  TagSound(Put(f, n, v))
<1> SUFFICES ASSUME NEW m \in DOMAIN Put(f, n, v), m.tag.kind = "git", m.tag.dirty = NoContent, NEW p \in DOMAIN Put(f, n, v)[m].plats
             PROVE  Put(f, n, v)[m].plats[p].src = m.tag.tree
  BY DEF TagSound
<1>1. CASE m = n
  BY <1>1 DEF Put
<1>2. CASE m # n
  <2>1. m \in DOMAIN f /\ Put(f, n, v)[m] = f[m]
    BY <1>2 DEF Put
  <2> QED
    BY <2>1 DEF TagSound
<1> QED
  BY <1>1, <1>2

LEMMA PutOK ==
  ASSUME NEW f, NEW n, NEW v, PlatsOK(f), DOMAIN v.plats \subseteq Platforms
  PROVE  PlatsOK(Put(f, n, v))
BY DEF PlatsOK, Put

LEMMA OverSound ==
  ASSUME NEW f, NEW g, TagSound(f), TagSound(g)
  PROVE  TagSound(Over(f, g))
<1> SUFFICES ASSUME NEW m \in DOMAIN Over(f, g), m.tag.kind = "git", m.tag.dirty = NoContent, NEW p \in DOMAIN Over(f, g)[m].plats
             PROVE  Over(f, g)[m].plats[p].src = m.tag.tree
  BY DEF TagSound
<1>1. CASE m \in DOMAIN f
  <2>1. Over(f, g)[m] = f[m]
    BY <1>1, OverFacts
  <2> QED
    BY <1>1, <2>1 DEF TagSound
<1>2. CASE m \notin DOMAIN f
  <2>1. m \in DOMAIN g /\ Over(f, g)[m] = g[m]
    BY <1>2 DEF Over
  <2> QED
    BY <2>1 DEF TagSound
<1> QED
  BY <1>1, <1>2

(* A pull: the cache has what the registry has.                            *)
LEMMA PullFacts ==
  ASSUME BuiltFromTag, OfPackage, NEW ps, NEW p \in ps, InRegistry(run.tag, ps), Pulled(run.tag), UNCHANGED registry
  PROVE  /\ BuiltFromTag' /\ PlatsOK(cache')
         /\ Named(run.tag) \in DOMAIN cache' /\ DOMAIN cache \subseteq DOMAIN cache'
         /\ In(cache', Named(run.tag)) = In(registry, Named(run.tag))
<1> DEFINE n == Named(run.tag)
<1>1. n \in DOMAIN registry
  BY EmptyFacts DEF InRegistry
<1>2. cache' = Put(cache, n, registry[n])
  BY DEF Pulled
<1>3. TagSound(cache) /\ TagSound(registry) /\ Undirtied(registry)
  BY BuiltFacts
<1>4. TagSound(cache')
  <2>1. (n.tag.kind = "git" /\ n.tag.dirty = NoContent) => \A q \in DOMAIN registry[n].plats : registry[n].plats[q].src = n.tag.tree
    BY <1>1, <1>3 DEF TagSound
  <2> QED
    BY <2>1, <1>2, <1>3, PutSound
<1>5. BuiltFromTag'
  <2>1. TagSound(registry') /\ Undirtied(registry')
    BY <1>3
  <2> QED
    BY <2>1, <1>4, BuiltFacts
<1>8. PlatsOK(cache')
  BY <1>1, <1>2, PutOK DEF OfPackage, PlatsOK
<1>6. In(registry, n) = DOMAIN registry[n].plats
  BY <1>1 DEF In, At
<1> HIDE DEF n
<1>7. n \in DOMAIN cache' /\ DOMAIN cache \subseteq DOMAIN cache' /\ In(cache', n) = DOMAIN registry[n].plats
  BY <1>2 DEF Put, In, At
<1> QED
  BY <1>5, <1>6, <1>7, <1>8 DEF n
-----------------------------------------------------------------------------
(* The platforms are looked for *)

LEMMA CheckedFacts ==
  ASSUME TypeOK, run.pc = "check", run.check # <<>>,
         run' \in {Checked([run EXCEPT !.any = TRUE]), Checked(run)}
  PROVE  /\ RunOK' /\ SameCommand
         /\ run'.desc = run.desc /\ run'.check = Tail(run.check) /\ run'.build = run.build
         /\ run'.pc = IF Len(run.check) = 1 THEN (IF run.build = <<>> THEN "find" ELSE "arch") ELSE "check"
<1>1. Tail(run.check) \in Seq(Platforms)
  BY ListFacts DEF TypeOK, RunOK
<1>2. CASE run' = Checked(run)
  BY <1>1, <1>2 DEF TypeOK, RunOK, Checked, Places, SameCommand
<1>3. CASE run' = Checked([run EXCEPT !.any = TRUE])
  BY <1>1, <1>3 DEF TypeOK, RunOK, Checked, Places, SameCommand
<1> QED
  BY <1>2, <1>3

LEMMA ToBuildFacts ==
  ASSUME TypeOK, run.pc = "check", run.check # <<>>, run' = ToBuild
  PROVE  /\ RunOK' /\ SameCommand
         /\ run'.desc = run.desc /\ run'.check = Tail(run.check) /\ run'.build = Append(run.build, Platform)
         /\ run'.pc = IF Len(run.check) = 1 THEN "arch" ELSE "check"
<1>1. Tail(run.check) \in Seq(Platforms) /\ Platform \in Platforms
  BY ListFacts DEF TypeOK, RunOK, Platform
<1>2. Append(run.build, Platform) \in Seq(Platforms) /\ Append(run.build, Platform) # <<>>
  BY <1>1, AppendFacts, SMT DEF TypeOK, RunOK
<1> DEFINE bs == Append(run.build, Platform)
<1>3. run' = Checked([run EXCEPT !.build = bs, !.built = TRUE])
  BY DEF ToBuild
<1> HIDE DEF bs
<1>4. bs \in Seq(Platforms) /\ bs # <<>>
  BY <1>2 DEF bs
<1>5. /\ RunOK' /\ SameCommand /\ run'.desc = run.desc /\ run'.check = Tail(run.check) /\ run'.build = bs
      /\ run'.pc = IF Len(run.check) = 1 THEN "arch" ELSE "check"
  <2> DEFINE l == IF Len(run.check) = 1 THEN "arch" ELSE "check"
             cs == Tail(run.check)
  <2>1. run' = [run EXCEPT !.build = bs, !.built = TRUE, !.check = cs, !.pc = l]
    BY <1>3, <1>4 DEF TypeOK, RunOK, Checked
  <2>2. l \in Places /\ cs \in Seq(Platforms)
    BY <1>1 DEF Places
  <2> HIDE DEF l, cs
  <2>3. run' = [pc |-> l, opts |-> run.opts, tag |-> run.tag, dirty |-> run.dirty, release |-> run.release, check |-> cs, build |-> bs,
                descs |-> run.descs, root |-> run.root, any |-> run.any, built |-> TRUE, desc |-> run.desc, left |-> run.left,
                loader |-> run.loader, late |-> run.late, result |-> run.result]
    BY <2>1 DEF TypeOK, RunOK
  <2>4. RunOK'
    BY <1>4, <2>2, <2>3, SMT DEF TypeOK, RunOK
  <2>5. SameCommand /\ run'.desc = run.desc /\ run'.check = cs /\ run'.build = bs /\ run'.pc = l
    BY <2>3, SMT DEF SameCommand
  <2> QED
    BY <2>4, <2>5 DEF l, cs
<1> QED
  BY <1>5 DEF bs

(* A platform is in the cache, or it is enough that the registry has it.    *)
LEMMA SkipStep ==
  ASSUME IInv, run.pc = "check", UNCHANGED <<src, registry, docker, counts>>,
         run' \in {Checked([run EXCEPT !.any = TRUE]), Checked(run)},
         BuiltFromTag', PlatsOK(cache'), DOMAIN cache \subseteq DOMAIN cache',
         ~run.opts.pull => UNCHANGED cache /\ Platform \in Had,
         run.opts.pull => Named(run.tag) \in DOMAIN cache'
  PROVE  IInv'
<1>1. /\ RunOK' /\ SameCommand
      /\ run'.desc = run.desc /\ run'.check = Tail(run.check) /\ run'.build = run.build
      /\ run'.pc = IF Len(run.check) = 1 THEN (IF run.build = <<>> THEN "find" ELSE "arch") ELSE "check"
  BY CheckedFacts DEF IInv, Progress
<1>2. /\ run.check \in Seq(Platforms) /\ run.check # <<>> /\ run.build \in Seq(Platforms)
  BY DEF IInv, TypeOK, RunOK, Progress
<1>3. /\ Range(run.check) = {Platform} \cup Range(Tail(run.check))
      /\ Len(run.check) = 1 => Range(Tail(run.check)) = {}
      /\ Len(run.check) # 1 => Tail(run.check) # <<>>
  BY <1>2, ListFacts DEF Platform
<1>4. run.build = <<>> => Range(run.build) = {}
  BY SMT DEF Range
<1>5. Waiting \subseteq Waiting' \cup {Platform}
  <2>1. Waiting = Range(run.check) \cup Range(run.build)
    BY DEF Waiting
  <2>2. CASE run'.pc = "check"
    BY <1>1, <1>3, <2>1, <2>2 DEF Waiting
  <2>3. CASE run'.pc = "arch"
    BY <1>1, <1>3, <2>1, <2>3 DEF Waiting
  <2>4. CASE run'.pc = "find"
    BY <1>1, <1>3, <1>4, <2>1, <2>4
  <2> QED
    BY <1>1, <2>2, <2>3, <2>4
<1>6. TypeOK'
  BY <1>1 DEF IInv, TypeOK
<1>7. run'.pc \in {"check", "arch", "find"}
  BY <1>1
<1>8. Current'
  BY <1>1, <1>7 DEF IInv, Current, SameCommand, Pushing
<1>9. ArchNamed'
  BY <1>7 DEF IInv, ArchNamed, In, At
<1>10. Progress'
  <2>1. ~run.opts.pull => Had' = Had
    BY <1>1 DEF Had, In, At, SameCommand
  <2>2. (Expected' => Expected) /\ run'.opts = run.opts /\ run'.tag = run.tag /\ run'.result = run.result
    BY <1>1 DEF Expected, SameCommand
  <2>3. (Expected /\ ~run.opts.pull) => Platforms \subseteq Waiting' \cup Had'
    BY <2>1, <1>5, SMT DEF IInv, Progress
  <2>4. run.result = "none" /\ (run.opts.docker => run.opts.pull) /\ (run'.desc => Named(run'.tag) \in DOMAIN cache')
    BY <1>1, <2>2 DEF IInv, Progress
  <2>5. (run'.pc = "check" => run'.check # <<>>) /\ (run'.pc = "arch" => run'.build # <<>>)
    BY <1>1, <1>3
  <2> QED
    BY <2>2, <2>3, <2>4, <2>5, <1>7 DEF Progress, Pushing
<1>11. Available'
  BY <1>1 DEF IInv, Progress, Available, SameCommand
<1>12. OfPackage'
  BY <1>1 DEF IInv, OfPackage, PlatsOK, SameCommand
<1> QED
  BY <1>6, <1>8, <1>9, <1>10, <1>11, <1>12 DEF IInv

(* A platform is to be built.                                              *)
LEMMA ToBuildStep ==
  ASSUME IInv, run.pc = "check", UNCHANGED <<src, cache, registry, docker>>, Counted, run' = ToBuild
  PROVE  IInv'
<1>1. /\ RunOK' /\ SameCommand
      /\ run'.desc = run.desc /\ run'.check = Tail(run.check) /\ run'.build = Append(run.build, Platform)
      /\ run'.pc = IF Len(run.check) = 1 THEN "arch" ELSE "check"
  BY ToBuildFacts DEF IInv, Progress
<1>2. run.check \in Seq(Platforms) /\ run.check # <<>> /\ run.build \in Seq(Platforms)
  BY DEF IInv, TypeOK, RunOK, Progress
<1>3. /\ Range(run.check) = {Platform} \cup Range(Tail(run.check)) /\ Platform \in Platforms
      /\ Len(run.check) = 1 => Range(Tail(run.check)) = {}
      /\ Len(run.check) # 1 => Tail(run.check) # <<>>
  BY <1>2, ListFacts DEF Platform
<1>4. Range(run'.build) = Range(run.build) \cup {Platform} /\ run'.build # <<>>
  <2>1. Range(Append(run.build, Platform)) = Range(run.build) \cup {Platform} /\ Append(run.build, Platform) # <<>>
    BY <1>2, <1>3, AppendFacts, SMT
  <2> QED
    BY <1>1, <2>1
<1>5. Waiting \subseteq Waiting'
  <2>1. Waiting = Range(run.check) \cup Range(run.build)
    BY DEF Waiting
  <2>2. CASE run'.pc = "check"
    BY <1>1, <1>3, <1>4, <2>1, <2>2 DEF Waiting
  <2>3. CASE run'.pc = "arch"
    BY <1>1, <1>3, <1>4, <2>1, <2>3 DEF Waiting
  <2> QED
    BY <1>1, <2>2, <2>3
<1>6. run'.pc \in {"check", "arch"}
  BY <1>1
<1>7. Progress'
  <2>1. Had' = Had /\ (Expected' => Expected) /\ run'.opts = run.opts /\ run'.tag = run.tag /\ run'.result = run.result
    BY <1>1 DEF Had, In, At, Expected, SameCommand, Counted
  <2>2. (Expected /\ ~run.opts.pull) => Platforms \subseteq Waiting' \cup Had'
    BY <2>1, <1>5 DEF IInv, Progress
  <2>3. run.result = "none" /\ (run.opts.docker => run.opts.pull) /\ (run'.desc => Named(run'.tag) \in DOMAIN cache')
    BY <1>1, <2>1 DEF IInv, Progress
  <2>4. run'.pc = "check" => run'.check # <<>>
    BY <1>1, <1>3
  <2> QED
    BY <2>1, <2>2, <2>3, <2>4, <1>4, <1>6 DEF Progress, Pushing
<1> QED
  BY <1>1, <1>6, <1>7, Moves DEF Pushing

LEMMA CheckStep == ASSUME IInv, CheckPlatform \/ CheckLost PROVE IInv'
<1>1. CASE CheckLost
  BY <1>1, ToBuildStep, CountFacts DEF CheckLost, Go, IInv
<1>2. CASE CheckPlatform /\ InCache(Platform) /\ Go(Checked([run EXCEPT !.any = TRUE])) /\ UNCHANGED cache
  <2>1. BuiltFromTag' /\ PlatsOK(cache')
    BY <1>2 DEF CheckPlatform, IInv, BuiltFromTag, In, At, OfPackage, PlatsOK
  <2>2. Platform \in In(cache, Named(run.tag))
    BY <1>2 DEF InCache, ImageInCache
  <2>3. Platform \in Had /\ Named(run.tag) \in DOMAIN cache'
    BY <2>2, <1>2, EmptyFacts DEF Had
  <2> QED
    BY <2>1, <2>3, <1>2, SkipStep DEF CheckPlatform, Go
<1>3. CASE CheckPlatform /\ InRegistry(run.tag, {Platform}) /\ Go(Checked(run)) /\ (IF run.opts.pull THEN Pulled(run.tag) ELSE UNCHANGED cache)
  <2>1. Platform \in Had
    BY <1>3 DEF InRegistry, Had
  <2>2. CASE run.opts.pull
    <3>1. BuiltFromTag' /\ PlatsOK(cache') /\ DOMAIN cache \subseteq DOMAIN cache' /\ Named(run.tag) \in DOMAIN cache'
      BY <1>3, <2>2, PullFacts DEF IInv, CheckPlatform
    <3> QED
      BY <3>1, <2>2, <1>3, SkipStep DEF CheckPlatform, Go
  <2>3. CASE ~run.opts.pull
    <3>1. BuiltFromTag' /\ PlatsOK(cache')
      BY <1>3, <2>3, SMT DEF CheckPlatform, IInv, BuiltFromTag, In, At, OfPackage, PlatsOK
    <3> QED
      BY <3>1, <2>1, <2>3, <1>3, SkipStep DEF CheckPlatform, Go
  <2> QED
    BY <2>2, <2>3
<1>4. CASE CheckPlatform /\ Go(ToBuild) /\ UNCHANGED cache
  BY <1>4, ToBuildStep, CountFacts DEF CheckPlatform, Go, IInv
<1> QED
  BY <1>1, <1>2, <1>3, <1>4 DEF CheckPlatform
-----------------------------------------------------------------------------
(* The platforms are built *)

(* One platform is done with.                                              *)
LEMMA NextFacts ==
  ASSUME TypeOK, run.build # <<>>, NEW ds, NEW x \in BOOLEAN, NEW y \in BOOLEAN,
         run' = [pc |-> IF Len(run.build) = 1 THEN "index" ELSE "arch", opts |-> run.opts, tag |-> run.tag, dirty |-> run.dirty,
                 release |-> run.release, check |-> run.check, build |-> Tail(run.build), descs |-> ds, root |-> x, any |-> run.any,
                 built |-> run.built, desc |-> run.desc, left |-> 0, loader |-> "none", late |-> y, result |-> run.result]
  PROVE  /\ RunOK'
         /\ run'.opts = run.opts /\ run'.tag = run.tag /\ run'.dirty = run.dirty /\ run'.release = run.release
         /\ run'.result = run.result /\ run'.desc = run.desc /\ run'.late = y /\ run'.descs = ds
         /\ run'.build = Tail(run.build) /\ run'.pc \in {"index", "arch"}
         /\ run'.pc = "arch" => Tail(run.build) # <<>>
         /\ run'.pc = "index" => Range(Tail(run.build)) = {}
<1>1. run.build \in Seq(Platforms)
  BY DEF TypeOK, RunOK
<1> DEFINE l  == IF Len(run.build) = 1 THEN "index" ELSE "arch"
           bs == Tail(run.build)
<1>2. bs \in Seq(Platforms) /\ l \in Places /\ l \in {"index", "arch"} /\ (l = "arch" => bs # <<>>) /\ (l = "index" => Range(bs) = {})
  BY <1>1, ListFacts DEF Places
<1>3. 0 \in 0..Chunks
  BY ArchesAssumption, SMT
<1> HIDE DEF l, bs
<1>4. run' = [pc |-> l, opts |-> run.opts, tag |-> run.tag, dirty |-> run.dirty,
              release |-> run.release, check |-> run.check, build |-> bs, descs |-> ds, root |-> x, any |-> run.any,
              built |-> run.built, desc |-> run.desc, left |-> 0, loader |-> "none", late |-> y, result |-> run.result]
  BY DEF l, bs
<1>5. RunOK'
  BY <1>2, <1>3, <1>4, SMT DEF TypeOK, RunOK
<1>6. /\ run'.opts = run.opts /\ run'.tag = run.tag /\ run'.dirty = run.dirty /\ run'.release = run.release
      /\ run'.result = run.result /\ run'.desc = run.desc /\ run'.late = y /\ run'.descs = ds
      /\ run'.build = bs /\ run'.pc = l
  BY <1>4, SMT
<1> QED
  BY <1>2, <1>5, <1>6 DEF bs

LEMMA ArchFoundStep == ASSUME IInv, ArchFound PROVE IInv'
<1>1. run' = [pc |-> IF Len(run.build) = 1 THEN "index" ELSE "arch", opts |-> run.opts, tag |-> run.tag, dirty |-> run.dirty,
              release |-> run.release, check |-> run.check, build |-> Tail(run.build), descs |-> run.descs, root |-> TRUE, any |-> run.any,
              built |-> run.built, desc |-> run.desc, left |-> 0, loader |-> "none", late |-> TRUE, result |-> run.result]
  BY DEF ArchFound, Go, NextArch, IInv, TypeOK, RunOK
<1>2. run.pc = "arch" /\ run.build # <<>> /\ UNCHANGED <<src, registry, docker, counts>>
  BY DEF ArchFound, IInv, Progress
<1>3. /\ RunOK'
      /\ run'.opts = run.opts /\ run'.tag = run.tag /\ run'.dirty = run.dirty /\ run'.release = run.release
      /\ run'.result = run.result /\ run'.desc = run.desc /\ run'.late = TRUE /\ run'.descs = run.descs
      /\ run'.build = Tail(run.build) /\ run'.pc \in {"index", "arch"}
      /\ run'.pc = "arch" => Tail(run.build) # <<>>
  BY <1>1, <1>2, NextFacts DEF IInv
<1>4. BuiltFromTag' /\ PlatsOK(cache') /\ DOMAIN cache \subseteq DOMAIN cache'
  <2>1. CASE UNCHANGED cache
    BY <1>2, <2>1 DEF IInv, BuiltFromTag, In, At, OfPackage, PlatsOK
  <2>2. CASE InRegistry(run.tag, {Building}) /\ Pulled(run.tag)
    BY <1>2, <2>2, PullFacts DEF IInv
  <2> QED
    BY <2>1, <2>2 DEF ArchFound
<1>5. TypeOK' /\ OfPackage'
  BY <1>2, <1>3, <1>4 DEF IInv, TypeOK, OfPackage, PlatsOK
<1>6. Current'
  BY <1>2, <1>3 DEF IInv, Current, Pushing
<1>7. ArchNamed'
  BY <1>2, <1>3 DEF IInv, ArchNamed, In, At
<1>8. Progress'
  BY <1>2, <1>3, <1>4 DEF IInv, Progress, Expected
<1>9. Available'
  BY <1>2, <1>3 DEF IInv, Progress, Available
<1> QED
  BY <1>4, <1>5, <1>6, <1>7, <1>8, <1>9 DEF IInv

(* A platform that is being built is waited for.                           *)
LEMMA SolvesOn ==
  ASSUME IInv, run.pc \in {"arch", "solve"}, run'.pc = "solve", run.build # <<>>, SameCommand, run'.desc = run.desc, run'.build = run.build,
         UNCHANGED <<src, cache, registry, docker>>, Counted
  PROVE  Progress'
<1>1. Waiting' = Waiting /\ Had' = Had /\ (Expected' => Expected)
  BY DEF Waiting, Had, In, At, Expected, SameCommand, Counted
<1> QED
  BY <1>1 DEF IInv, Progress, SameCommand, Pushing

(* The builder is asked for a platform, or would be.                       *)
LEMMA SolveStep ==
  ASSUME IInv, run.pc = "arch", UNCHANGED <<src, cache, registry, docker>>, Counted,
         run' = IF run.opts.dry THEN NextArch(run) ELSE Solve
  PROVE  IInv'
<1>1. run.build # <<>>
  BY DEF IInv, Progress
<1>2. CASE run.opts.dry
  <2>1. run' = [pc |-> IF Len(run.build) = 1 THEN "index" ELSE "arch", opts |-> run.opts, tag |-> run.tag, dirty |-> run.dirty,
                release |-> run.release, check |-> run.check, build |-> Tail(run.build), descs |-> run.descs, root |-> run.root, any |-> run.any,
                built |-> run.built, desc |-> run.desc, left |-> 0, loader |-> "none", late |-> run.late, result |-> run.result]
    BY <1>2 DEF NextArch, IInv, TypeOK, RunOK
  <2>2. run.root \in BOOLEAN /\ run.late \in BOOLEAN
    BY DEF IInv, TypeOK, RunOK
  <2>3. /\ RunOK' /\ SameCommand /\ run'.desc = run.desc
        /\ run'.build = Tail(run.build) /\ run'.pc \in {"index", "arch"}
        /\ run'.pc = "arch" => Tail(run.build) # <<>>
    BY <1>1, <2>1, <2>2, NextFacts, SMT DEF IInv, SameCommand
  <2>4. Progress'
    BY <1>2, <2>3 DEF IInv, Progress, Expected, SameCommand
  <2> QED
    BY <2>3, <2>4, Moves DEF Pushing
<1>3. CASE ~run.opts.dry
  <2>1. run' = [run EXCEPT !.pc = "solve", !.left = Chunks, !.loader = "reading"] /\ Chunks \in 0..Chunks
    BY <1>3, ArchesAssumption, SMT DEF Solve
  <2>2. RunOK' /\ SameCommand /\ run'.desc = run.desc /\ run'.build = run.build /\ run'.pc = "solve"
    <3>1. "solve" \in Places /\ "reading" \in {"none", "reading", "failed"}
      BY DEF Places
    <3>2. RunOK'
      BY <2>1, <3>1 DEF IInv, TypeOK, RunOK
    <3>3. SameCommand /\ run'.desc = run.desc /\ run'.build = run.build
      BY <2>1 DEF IInv, TypeOK, RunOK, SameCommand
    <3>4. run'.pc = "solve"
      BY <2>1 DEF IInv, TypeOK, RunOK
    <3> QED
      BY <3>2, <3>3, <3>4
  <2>3. Progress'
    BY <1>1, <2>2, SolvesOn
  <2> QED
    BY <2>2, <2>3, Moves DEF Pushing
<1> QED
  BY <1>2, <1>3

LEMMA ArchBuildStep == ASSUME IInv, ArchBuild \/ ArchLost PROVE IInv'
<1>1. Counted
  BY CountFacts DEF ArchBuild, ArchLost, IInv
<1> QED
  BY <1>1, SolveStep DEF ArchBuild, ArchLost, Go

LEMMA WriteChunkStep == ASSUME IInv, WriteChunk PROVE IInv'
<1>1. run.left \in 0..Chunks /\ run.left > 0 /\ Chunks \in Nat
  BY ArchesAssumption DEF WriteChunk, IInv, TypeOK, RunOK
<1> DEFINE k == run.left - 1
<1>2. k \in 0..Chunks
  BY <1>1, SMT
<1> HIDE DEF k
<1>3. run' = [run EXCEPT !.left = k] /\ run.pc = "solve" /\ UNCHANGED <<src, cache, registry, docker, counts>>
  BY DEF WriteChunk, Go, k
<1>4. RunOK' /\ SameCommand /\ run'.desc = run.desc /\ run'.build = run.build /\ run'.pc = "solve"
  BY <1>2, <1>3 DEF IInv, TypeOK, RunOK, SameCommand
<1>5. Counted
  BY <1>3, CountFacts DEF IInv
<1>6. Progress'
  BY <1>3, <1>4, <1>5, SolvesOn DEF IInv, Progress
<1> QED
  BY <1>3, <1>4, <1>5, <1>6, Moves DEF Pushing

LEMMA LoadFailsStep == ASSUME IInv, LoadFails PROVE IInv'
<1>1. run' = [run EXCEPT !.loader = "failed"] /\ run.pc = "solve" /\ UNCHANGED <<src, cache, registry, docker>> /\ Counted
  BY CountFacts DEF LoadFails, Go, IInv
<1>2. RunOK' /\ SameCommand /\ run'.desc = run.desc /\ run'.build = run.build /\ run'.pc = "solve"
  BY <1>1 DEF IInv, TypeOK, RunOK, SameCommand
<1>3. Progress'
  BY <1>1, <1>2, SolvesOn DEF IInv, Progress
<1> QED
  BY <1>1, <1>2, <1>3, Moves DEF Pushing

LEMMA LoadedStep == ASSUME IInv, Loaded PROVE IInv'
<1>1. run.pc = "solve" /\ run.build # <<>> /\ run.build \in Seq(Platforms) /\ UNCHANGED <<src, registry, docker, counts>> /\ Counted
  BY CountFacts DEF Loaded, IInv, Progress, TypeOK, RunOK
<1>2. CASE run' = End("error") /\ UNCHANGED cache
  BY <1>1, <1>2, Ends
<1>3. CASE /\ run' = NextArch([run EXCEPT !.descs = Put(@, Building, Image)])
           /\ cache' = Put(cache, Arch(run.tag, Building), [plats |-> One(Building, Image), nested |-> FALSE])
  <2> DEFINE ds == Put(run.descs, Building, Image)
             n  == Named(run.tag)
             a  == Arch(run.tag, Building)
             v  == [plats |-> One(Building, Image), nested |-> FALSE]
  <2>1. run' = [pc |-> IF Len(run.build) = 1 THEN "index" ELSE "arch", opts |-> run.opts, tag |-> run.tag, dirty |-> run.dirty,
                release |-> run.release, check |-> run.check, build |-> Tail(run.build), descs |-> ds, root |-> run.root, any |-> run.any,
                built |-> run.built, desc |-> run.desc, left |-> 0, loader |-> "none", late |-> run.late, result |-> run.result]
    BY <1>3 DEF NextArch, IInv, TypeOK, RunOK
  <2>2. run.root \in BOOLEAN /\ run.late \in BOOLEAN
    BY DEF IInv, TypeOK, RunOK
  <2>3. Building \in Platforms /\ Range(run.build) = {Building} \cup Range(Tail(run.build))
    BY <1>1, ListFacts DEF Building
  <2>4. DOMAIN v.plats = {Building} /\ v.plats[Building] = Image /\ Image.src = src.work
    BY DEF One, Image
  <2>5. DOMAIN ds = DOMAIN run.descs \cup {Building} /\ \A p \in DOMAIN ds : ds[p] = Image \/ (p \in DOMAIN run.descs /\ ds[p] = run.descs[p])
    BY DEF Put
  <2>6. a # n /\ a.tag = run.tag
    BY <2>3, NameFacts
  <2>7. cache' = Put(cache, a, v)
    BY <1>3
  <2> HIDE DEF ds, n, a, v
  <2>8. /\ RunOK'
        /\ run'.opts = run.opts /\ run'.tag = run.tag /\ run'.dirty = run.dirty /\ run'.release = run.release
        /\ run'.result = run.result /\ run'.desc = run.desc /\ run'.late = run.late /\ run'.descs = ds
        /\ run'.build = Tail(run.build) /\ run'.pc \in {"index", "arch"}
        /\ run'.pc = "arch" => Tail(run.build) # <<>>
        /\ run'.pc = "index" => Range(Tail(run.build)) = {}
    BY <1>1, <2>1, <2>2, NextFacts DEF IInv
  <2>9. TypeOK'
    BY <1>1, <2>8 DEF IInv, TypeOK
  <2>10. Current'
    <3>1. \A p \in DOMAIN ds : ds[p].src = src.work
      BY <1>1, <2>4, <2>5 DEF IInv, Current
    <3> QED
      BY <1>1, <2>8, <3>1 DEF IInv, Current, Pushing
  <2>11. OfPackage'
    BY <1>1, <2>3, <2>4, <2>5, <2>7, <2>8, PutOK DEF IInv, OfPackage
  <2>12. BuiltFromTag'
    <3>1. TagSound(cache) /\ TagSound(registry) /\ Undirtied(registry)
      BY BuiltFacts DEF IInv
    <3>2. (a.tag.kind = "git" /\ a.tag.dirty = NoContent) => \A p \in DOMAIN v.plats : v.plats[p].src = a.tag.tree
      BY <1>1, <2>4, <2>6 DEF IInv, Current
    <3>3. TagSound(cache')
      BY <2>7, <3>1, <3>2, PutSound
    <3>4. TagSound(registry') /\ Undirtied(registry')
      BY <1>1, <3>1
    <3> QED
      BY <3>3, <3>4, BuiltFacts
  <2>13. ArchNamed'
    BY <1>1, <2>8 DEF IInv, ArchNamed, In, At
  <2>14. Progress'
    <3>1. DOMAIN cache' = DOMAIN cache \cup {a} /\ In(cache', n) = In(cache, n)
      BY <2>6, <2>7 DEF Put, In, At
    <3>2. Had' = Had /\ (Expected' => Expected)
      BY <1>1, <2>8, <3>1 DEF Had, Expected, n, In, At
    <3>3. Waiting = Range(run.build) \cup DOMAIN run.descs
      BY <1>1 DEF Waiting
    <3>4. Waiting \subseteq Waiting'
      <4>1. CASE run'.pc = "arch"
        BY <2>3, <2>5, <2>8, <3>3, <4>1 DEF Waiting
      <4>2. CASE run'.pc = "index"
        BY <2>3, <2>5, <2>8, <3>3, <4>2 DEF Waiting
      <4> QED
        BY <2>8, <4>1, <4>2
    <3>5. run'.desc => Named(run'.tag) \in DOMAIN cache'
      BY <2>8, <3>1 DEF IInv, Progress
    <3>6. (Expected /\ ~run.opts.pull) => Platforms \subseteq Waiting' \cup Had'
      BY <1>1, <3>2, <3>4 DEF IInv, Progress
    <3>7. run.result = "none" /\ (run.opts.docker => run.opts.pull)
      BY <1>1 DEF IInv, Progress
    <3> QED
      BY <2>8, <3>2, <3>5, <3>6, <3>7 DEF Progress, Pushing
  <2>15. Available'
    BY <1>1, <2>8 DEF IInv, Progress, Available
  <2> QED
    BY <2>9, <2>10, <2>11, <2>12, <2>13, <2>14, <2>15 DEF IInv
<1> QED
  BY <1>2, <1>3 DEF Loaded, Go

(* A step of the command that changes the cache.                           *)
LEMMA Caches ==
  ASSUME IInv, run.pc # "idle", run'.pc \notin {"idle", "arch.release"}, RunOK', SameCommand,
         UNCHANGED <<src, registry, counts>>, PlatsOK(cache'), TagSound(cache'),
         run'.pc \in Pushing \cup {"index.push"} => run.pc \in Pushing \cup {"index.push"},
         Progress'
  PROVE  IInv'
<1>1. TypeOK' /\ OfPackage'
  BY DEF IInv, TypeOK, OfPackage, PlatsOK, SameCommand
<1>2. Current'
  BY DEF IInv, Current, SameCommand
<1>3. BuiltFromTag'
  <2>1. TagSound(registry') /\ Undirtied(registry')
    BY BuiltFacts DEF IInv
  <2> QED
    BY <2>1, BuiltFacts
<1>4. ArchNamed'
  BY DEF IInv, ArchNamed, In, At
<1>5. Available'
  BY DEF IInv, Available, Progress, SameCommand
<1> QED
  BY <1>1, <1>2, <1>3, <1>4, <1>5 DEF IInv

(* A place is all that changes.                                            *)
LEMMA ToFacts ==
  ASSUME TypeOK, NEW l \in Places, run' = To(l)
  PROVE  RunOK' /\ SameCommand /\ run'.desc = run.desc /\ run'.pc = l
BY DEF TypeOK, RunOK, To, SameCommand

LEMMA IndexWriteStep == ASSUME IInv, IndexWrite PROVE IInv'
<1>1. run.pc = "index" /\ UNCHANGED <<src, registry, docker, counts>> /\ Counted
  BY CountFacts DEF IndexWrite, IInv
<1>2. CASE run.opts.dry
  <2>1. run' = End("ok") /\ UNCHANGED cache /\ Kept(docker')
    BY <1>2 DEF IndexWrite, Go, Kept, Expected
  <2> QED
    BY <1>1, <2>1, Ends
<1>3. CASE ~run.opts.dry
  <2> DEFINE n   == Named(run.tag)
             old == At(cache, n)
             v   == [plats |-> Over(run.descs, old.plats), nested |-> run.root \/ old.nested]
  <2>1. cache' = Put(cache, n, v) /\ run' = To("find")
    BY <1>3 DEF IndexWrite, Go, Merged
  <2>2. DOMAIN v.plats = DOMAIN run.descs \cup In(cache, n)
    BY DEF Over, In
  <2>3. \A p \in DOMAIN v.plats : \/ p \in DOMAIN run.descs /\ v.plats[p] = run.descs[p]
                                  \/ p \in In(cache, n) /\ v.plats[p] = At(cache, n).plats[p]
    BY DEF Over, In
  <2>4. n.tag = run.tag
    BY NameFacts
  <2> HIDE DEF n, old, v
  <2>5. RunOK' /\ SameCommand /\ run'.desc = run.desc /\ run'.pc = "find"
    BY <2>1, ToFacts DEF IInv, Places
  <2>6. TagSound(cache')
    <3>1. TagSound(cache)
      BY BuiltFacts DEF IInv
    <3>2. ASSUME n.tag.kind = "git", n.tag.dirty = NoContent, NEW p \in DOMAIN v.plats PROVE v.plats[p].src = n.tag.tree
      <4>1. CASE p \in DOMAIN run.descs /\ v.plats[p] = run.descs[p]
        BY <1>1, <2>4, <3>2, <4>1 DEF IInv, Current
      <4>2. CASE p \in In(cache, n) /\ v.plats[p] = At(cache, n).plats[p]
        <5>1. n \in DOMAIN cache
          BY <4>2, EmptyFacts
        <5> QED
          BY <5>1, <4>2, <3>1, <3>2 DEF TagSound, In, At
      <4> QED
        BY <2>3, <4>1, <4>2
    <3> QED
      BY <2>1, <3>1, <3>2, PutSound
  <2>7. PlatsOK(cache')
    <3>1. In(cache, n) \subseteq Platforms
      BY EmptyFacts DEF IInv, OfPackage, PlatsOK, In, At
    <3> QED
      BY <2>1, <2>2, <3>1, PutOK DEF IInv, OfPackage
  <2>8. Progress'
    <3>1. DOMAIN cache' = DOMAIN cache \cup {n} /\ In(cache', n) = DOMAIN run.descs \cup In(cache, n)
      BY <2>1, <2>2 DEF Put, In, At
    <3>2. Had' = Had \cup DOMAIN run.descs /\ (Expected' => Expected)
      BY <1>1, <2>5, <3>1 DEF Had, Expected, n, SameCommand, In, At
    <3>3. Waiting = DOMAIN run.descs
      BY <1>1 DEF Waiting
    <3>4. (Expected /\ ~run.opts.pull) => Platforms \subseteq Had'
      BY <1>1, <3>2, <3>3 DEF IInv, Progress
    <3>5. run.result = "none" /\ (run.opts.docker => run.opts.pull) /\ Named(run'.tag) \in DOMAIN cache'
      BY <1>1, <2>5, <3>1 DEF IInv, Progress, SameCommand, n
    <3> QED
      BY <2>5, <3>2, <3>4, <3>5 DEF Progress, Pushing, SameCommand
  <2> QED
    BY <1>1, <2>5, <2>6, <2>7, <2>8, Caches DEF Pushing
<1> QED
  BY <1>2, <1>3
-----------------------------------------------------------------------------
(* Docker, and what is to be pushed *)

(* What is had stays, and more may come.                                   *)
LEMMA GoesOn ==
  ASSUME IInv, run.pc \in {"find", "docker", "push", "index.push"} \cup Pushing, run'.pc \in {"docker", "push", "index.push"} \cup Pushing,
         SameCommand, run'.desc => run.desc \/ Named(run.tag) \in DOMAIN cache, UNCHANGED <<cache, registry>>, Counted, docker \subseteq docker',
         (Expected /\ ~run.opts.pull /\ run'.pc \in Pushing) => Platforms \subseteq In(registry, Named(run.tag)),
         (Expected /\ run.opts.docker /\ run'.pc = "docker") => run'.desc,
         (Expected /\ run.opts.docker /\ run'.pc # "docker") => \A p \in Platforms : Arch(run.tag, p) \in docker'
  PROVE  Progress'
<1>1. Had' = Had /\ (Expected' => Expected)
  BY DEF Had, In, At, Expected, SameCommand, Counted
<1>2. Waiting = {}
  BY DEF Waiting, Pushing
<1>3. (Expected /\ ~run.opts.pull) => Platforms \subseteq Had
  BY <1>2 DEF IInv, Progress, Pushing
<1>4. In(registry', Named(run'.tag)) = In(registry, Named(run.tag))
  BY DEF SameCommand
<1>5. run.result = "none" /\ (run.opts.docker => run.opts.pull) /\ (run'.desc => Named(run'.tag) \in DOMAIN cache')
  BY DEF IInv, Progress, SameCommand, Pushing
<1>6. run'.pc \notin {"check", "arch", "solve", "idle", "find"}
  BY DEF Pushing
<1>7. (Expected' /\ ~run'.opts.pull) =>
        Platforms \subseteq Had' /\ (run'.pc \in Pushing => Platforms \subseteq In(registry', Named(run'.tag)))
  BY <1>1, <1>3, <1>4 DEF SameCommand
<1>8. (Expected' /\ run'.opts.docker) =>
        /\ run'.pc = "docker" => run'.desc
        /\ run'.pc # "docker" => \A p \in Platforms : Arch(run'.tag, p) \in docker'
  BY <1>1 DEF SameCommand
<1>9. run'.result = "none" /\ (run'.opts.docker => run'.opts.pull)
  BY <1>5 DEF SameCommand
<1>10. (run'.pc \in {"push", "index.push"} \cup Pushing) => run'.pc # "docker"
  BY DEF Pushing
<1> HIDE DEF Pushing
<1> QED
  BY <1>5, <1>6, <1>7, <1>8, <1>9, <1>10 DEF Progress

LEMMA FindStep == ASSUME IInv, FindDescriptor PROVE IInv'
<1> DEFINE d == Named(run.tag) \in DOMAIN cache
<1>1. d \in BOOLEAN /\ (d <=> Named(run.tag) \in DOMAIN cache)
  BY SMT
<1>2. run' = [run EXCEPT !.pc = "docker", !.desc = d] /\ run.pc = "find" /\ UNCHANGED <<src, cache, registry, docker, counts>>
  BY DEF FindDescriptor, Go
<1> HIDE DEF d
<1>3. RunOK' /\ SameCommand /\ run'.desc = d /\ run'.pc = "docker"
  BY <1>1, <1>2 DEF IInv, TypeOK, RunOK, SameCommand, Places
<1>4. Counted
  BY <1>2, CountFacts DEF IInv
<1>5. Progress'
  <2>1. (Expected /\ run.opts.docker) => run'.desc
    BY <1>1, <1>2, <1>3 DEF IInv, Progress
  <2> QED
    BY <1>1, <1>2, <1>3, <1>4, <2>1, GoesOn DEF Pushing
<1> QED
  BY <1>2, <1>3, <1>4, <1>5, Moves DEF Pushing

LEMMA LoadDockerStep == ASSUME IInv, LoadDocker PROVE IInv'
<1>1. run.pc = "docker" /\ UNCHANGED <<src, cache, registry, counts>> /\ Counted
  BY CountFacts DEF LoadDocker, IInv
<1>2. CASE run' = End("error")
  BY <1>1, <1>2, Ends
<1>3. CASE /\ run' = To("push") /\ docker \subseteq docker'
           /\ (run.opts.docker /\ run.desc) => \A p \in Platforms : Arch(run.tag, p) \in docker'
  <2>1. RunOK' /\ SameCommand /\ run'.desc = run.desc /\ run'.pc = "push"
    BY <1>3, ToFacts DEF IInv, Places
  <2>2. (Expected /\ run.opts.docker) => run.desc
    BY <1>1 DEF IInv, Progress
  <2>3. Progress'
    BY <1>1, <1>3, <2>1, <2>2, GoesOn DEF Pushing
  <2> QED
    BY <1>1, <2>1, <2>3, Moves DEF Pushing
<1>4. CASE run' = To("push") /\ docker' = docker \cup {[tag |-> run.tag, arch |-> a] : a \in DockerNames}
  BY <1>3, <1>4 DEF DockerNames, Arch
<1> QED
  BY <1>2, <1>3, <1>4 DEF LoadDocker, Go

(* The platforms are in docker when they should be, once it was asked.     *)
LEMMA InDocker ==
  ASSUME IInv, run.pc \in {"push", "index.push"} \cup Pushing, Expected, run.opts.docker
  PROVE  \A p \in Platforms : Arch(run.tag, p) \in docker
BY DEF IInv, Progress

LEMMA AllHad ==
  ASSUME IInv, run.pc \in {"push", "index.push"}, Expected, ~run.opts.pull
  PROVE  Platforms \subseteq Had
<1>1. Waiting = {}
  BY DEF Waiting
<1> QED
  BY <1>1 DEF IInv, Progress

(* Nothing is in the cache: all of it is in the registry.                  *)
LEMMA AllPushed ==
  ASSUME IInv, run.pc = "push", Expected, ~run.opts.pull, ~Cached
  PROVE  Platforms \subseteq In(registry, Named(run.tag))
<1>1. \A p \in Platforms : p \notin In(cache, Named(run.tag))
  BY DEF Cached, ImageInCache
<1> QED
  BY <1>1, AllHad DEF Had

LEMMA DecideStep == ASSUME IInv, Decide PROVE IInv'
<1>1. run.pc = "push" /\ UNCHANGED <<src, cache, registry, docker, counts>> /\ Counted
  BY CountFacts DEF Decide, IInv
<1>2. CASE run' = End("error")
  BY <1>1, <1>2, Ends
<1>3. CASE ~run.opts.push /\ run' = End("ok")
  <2>1. Kept(docker')
    <3>1. (Expected /\ ~run.opts.pull) => Served
      BY <1>1, <1>3, AllHad DEF Served, Had
    <3> QED
      BY <1>1, <3>1, InDocker DEF Kept
  <2> QED
    BY <1>1, <1>3, <2>1, Ends
<1>4. CASE ~Cached /\ run' = End("ok")
  <2>1. Kept(docker')
    <3>1. (Expected /\ ~run.opts.pull) => Served
      BY <1>1, <1>4, AllPushed DEF Served
    <3> QED
      BY <1>1, <3>1, InDocker DEF Kept
  <2> QED
    BY <1>1, <1>4, <2>1, Ends
<1>5. CASE run.opts.push /\ ~run.dirty /\ ~Cached /\ run' = To("release")
  <2>1. RunOK' /\ SameCommand /\ run'.desc = run.desc /\ run'.pc = "release"
    BY <1>5, ToFacts DEF IInv, Places, Pushing
  <2>2. (Expected /\ ~run.opts.pull) => Platforms \subseteq In(registry, Named(run.tag))
    BY <1>1, <1>5, AllPushed
  <2>3. Progress'
    BY <1>1, <2>1, <2>2, InDocker, GoesOn DEF Pushing
  <2> QED
    BY <1>1, <1>5, <2>1, <2>3, Moves DEF Pushing
<1>6. CASE run.opts.push /\ ~run.dirty /\ run' = To("index.push")
  <2>1. RunOK' /\ SameCommand /\ run'.desc = run.desc /\ run'.pc = "index.push"
    BY <1>6, ToFacts DEF IInv, Places
  <2>2. Progress'
    BY <1>1, <2>1, InDocker, GoesOn DEF Pushing
  <2> QED
    BY <1>1, <1>6, <2>1, <2>2, Moves DEF Pushing
<1> QED
  BY <1>2, <1>3, <1>4, <1>5, <1>6 DEF Decide, Go
-----------------------------------------------------------------------------
(* Push *)

(* What may happen to the registry: it grows, by names that are sound, and  *)
(* a release that is there is left alone.                                  *)
Grown ==
  /\ DOMAIN registry \subseteq DOMAIN registry'
  /\ \A n : In(registry, n) \subseteq In(registry', n)
  /\ \A n \in DOMAIN registry : n.tag.kind = "v1" => registry'[n] = registry[n]
RegistrySound(r) == TagSound(r) /\ Undirtied(r) /\ PlatsOK(r) /\ \A n \in DOMAIN r : n.arch # "all" => DOMAIN r[n].plats \subseteq {n.arch}

LEMMA SoundFacts == ASSUME IInv PROVE RegistrySound(registry) /\ TagSound(cache) /\ PlatsOK(cache)
<1>1. \A n \in DOMAIN registry : n.arch # "all" => DOMAIN registry[n].plats \subseteq {n.arch}
  BY DEF IInv, ArchNamed, In, At
<1> QED
  BY <1>1, BuiltFacts DEF IInv, RegistrySound, OfPackage

LEMMA PutRegistry ==
  ASSUME NEW r, RegistrySound(r), NEW n, NEW v, DOMAIN v.plats \subseteq Platforms,
         n.arch # "all" => DOMAIN v.plats \subseteq {n.arch},
         n.tag.kind = "git" => n.tag.dirty = NoContent /\ \A p \in DOMAIN v.plats : v.plats[p].src = n.tag.tree
  PROVE  RegistrySound(Put(r, n, v))
<1>1. TagSound(Put(r, n, v))
  BY PutSound DEF RegistrySound
<1>2. PlatsOK(Put(r, n, v))
  BY PutOK DEF RegistrySound
<1>3. Undirtied(Put(r, n, v)) /\ \A m \in DOMAIN Put(r, n, v) : m.arch # "all" => DOMAIN Put(r, n, v)[m].plats \subseteq {m.arch}
  BY DEF Put, RegistrySound, Undirtied
<1> QED
  BY <1>1, <1>2, <1>3 DEF RegistrySound

(* A step of the command that pushes.                                      *)
LEMMA Pushes ==
  ASSUME IInv, run.pc \in {"index.push"} \cup Pushing, run'.pc \in Pushing, RunOK', SameCommand, run'.desc = run.desc,
         UNCHANGED <<src, cache, docker>>, Counted, RegistrySound(registry'), ~counts'.unseen => Grown,
         (Expected' /\ ~run.opts.pull) => Platforms \subseteq In(registry', Named(run.tag)),
         ~counts'.unseen => \A n \in DOMAIN registry' : n.tag.kind = "v1" => Named(n.tag) \in DOMAIN registry',
         ~counts'.unseen /\ run'.pc = "arch.release" /\ run.release = "v1" =>
            Named(ReleaseTag) \in DOMAIN registry' /\ \A p \in Platforms : Arch(ReleaseTag, p) \notin DOMAIN registry'
  PROVE  IInv'
<1>1. TypeOK' /\ OfPackage'
  BY DEF IInv, TypeOK, OfPackage, PlatsOK, SameCommand, Counted, CountsOK, RegistrySound
<1>2. Current'
  BY DEF IInv, Current, SameCommand, Pushing
<1>3. BuiltFromTag'
  <2>1. TagSound(cache')
    BY SoundFacts
  <2> QED
    BY <2>1, BuiltFacts DEF RegistrySound
<1>4. ArchNamed'
  <2>1. \A n \in DOMAIN registry' : n.arch # "all" => In(registry', n) \subseteq {n.arch}
    BY DEF RegistrySound, In, At
  <2>2. ReleaseTag' = ReleaseTag /\ run'.release = run.release
    BY DEF ReleaseTag, SameCommand
  <2> QED
    BY <2>1, <2>2 DEF ArchNamed
<1>5. run.result = "none" /\ (run.opts.docker => run.opts.pull) /\ (run.desc => Named(run.tag) \in DOMAIN cache) /\ (Expected' => Expected)
  BY DEF IInv, Progress, Pushing, SameCommand, Expected, Counted
<1>6. Available'
  BY <1>5 DEF Available, SameCommand
<1>7. Progress'
  <2>1. (Expected' /\ ~run'.opts.pull) =>
          Platforms \subseteq Had' /\ (run'.pc \in Pushing => Platforms \subseteq In(registry', Named(run'.tag)))
    BY DEF SameCommand, Had
  <2>2. (Expected' /\ run'.opts.docker) => \A p \in Platforms : Arch(run'.tag, p) \in docker'
    BY <1>5, InDocker DEF SameCommand
  <2>3. run'.pc \notin {"check", "arch", "solve", "idle", "find", "docker"}
    BY DEF Pushing
  <2>4. run'.result = "none" /\ (run'.opts.docker => run'.opts.pull) /\ (run'.desc => Named(run'.tag) \in DOMAIN cache')
    BY <1>5 DEF SameCommand
  <2> QED
    BY <2>1, <2>2, <2>3, <2>4 DEF Progress
<1> QED
  BY <1>1, <1>2, <1>3, <1>4, <1>6, <1>7 DEF IInv

(* An index of the cache is put into the registry.                         *)
LEMMA IndexPut ==
  ASSUME IInv, NEW n, n.arch = "all", n.tag.kind = "git" => n.tag.dirty = NoContent, In(cache, n) # {},
         NEW all \in {AppendIndex(cache[n].plats, At(registry, n).plats), cache[n].plats},
         registry' = Put(registry, n, [plats |-> all, nested |-> FALSE])
  PROVE  /\ RegistrySound(registry') /\ DOMAIN registry' = DOMAIN registry \cup {n} /\ In(registry', n) = DOMAIN all
         /\ \A m : m # n => In(registry', m) = In(registry, m)
         /\ \A m \in DOMAIN registry : m # n => registry'[m] = registry[m]
         /\ In(cache, n) \subseteq DOMAIN all
<1>1. n \in DOMAIN cache /\ In(cache, n) = DOMAIN cache[n].plats
  BY EmptyFacts DEF In, At
<1>2. /\ DOMAIN all \subseteq In(cache, n) \cup In(registry, n) /\ In(cache, n) \subseteq DOMAIN all
      /\ \A p \in DOMAIN all : \/ p \in In(cache, n) /\ all[p] = cache[n].plats[p]
                               \/ p \in In(registry, n) /\ all[p] = At(registry, n).plats[p]
  BY <1>1 DEF AppendIndex, Over, In
<1>3. RegistrySound(registry) /\ TagSound(cache) /\ PlatsOK(cache)
  BY SoundFacts
<1>4. In(registry, n) # {} => n \in DOMAIN registry /\ At(registry, n) = registry[n] /\ In(registry, n) = DOMAIN registry[n].plats
  BY EmptyFacts DEF In, At
<1>5. DOMAIN all \subseteq Platforms
  <2>1. In(cache, n) \subseteq Platforms
    BY <1>1, <1>3 DEF PlatsOK
  <2>2. In(registry, n) \subseteq Platforms
    BY <1>3, <1>4 DEF PlatsOK, RegistrySound
  <2> QED
    BY <1>2, <2>1, <2>2
<1>6. ASSUME n.tag.kind = "git", NEW p \in DOMAIN all PROVE all[p].src = n.tag.tree
  <2>1. CASE p \in In(cache, n) /\ all[p] = cache[n].plats[p]
    BY <1>1, <1>3, <1>6, <2>1 DEF TagSound
  <2>2. CASE p \in In(registry, n) /\ all[p] = At(registry, n).plats[p]
    BY <1>3, <1>4, <1>6, <2>2 DEF TagSound, RegistrySound
  <2> QED
    BY <1>2, <2>1, <2>2
<1> DEFINE v == [plats |-> all, nested |-> FALSE]
<1>7. v.plats = all /\ registry' = Put(registry, n, v)
  OBVIOUS
<1> HIDE DEF v
<1>8. RegistrySound(registry')
  BY <1>3, <1>5, <1>6, <1>7, PutRegistry
<1>9. /\ DOMAIN registry' = DOMAIN registry \cup {n} /\ In(registry', n) = DOMAIN all
      /\ \A m : m # n => In(registry', m) = In(registry, m)
      /\ \A m \in DOMAIN registry : m # n => registry'[m] = registry[m]
  BY <1>7 DEF Put, In, At
<1> QED
  BY <1>2, <1>8, <1>9

(* Push of the package's tag, which may not have seen the registry.        *)
LEMMA PushTag ==
  ASSUME IInv, run.pc = "index.push", NEW seen \in BOOLEAN, PushIndex(Named(run.tag), To("release"), seen),
         UNCHANGED <<src, cache, docker>>, Counted, ~seen => counts'.unseen
  PROVE  IInv' /\ (~counts'.unseen => Grown)
<1> DEFINE n == Named(run.tag)
<1>1. n.arch = "all" /\ n.tag = run.tag /\ run.tag.kind # "v1" /\ (n.tag.kind = "git" => n.tag.dirty = NoContent)
  BY NameFacts DEF IInv, Current
<1>2. CASE run' = End("error") /\ UNCHANGED registry
  BY <1>2, Ends DEF Grown
<1>3. (Expected /\ ~run.opts.pull) => Platforms \subseteq In(registry, n) \cup In(cache, n)
  BY AllHad DEF Had
<1>4. CASE At(registry, n) = cache[n] /\ In(cache, n) # {} /\ run' = To("release") /\ UNCHANGED registry
  <2>1. RunOK' /\ SameCommand /\ run'.desc = run.desc /\ run'.pc = "release"
    BY <1>4, ToFacts DEF IInv, Places, Pushing
  <2>2. In(registry, n) = In(cache, n)
    BY <1>4, EmptyFacts DEF In, At
  <2>3. Progress'
    BY <1>3, <1>4, <2>1, <2>2, InDocker, GoesOn DEF Pushing
  <2> QED
    BY <1>4, <2>1, <2>3, Moves DEF Pushing, Grown
<1>5. CASE /\ In(cache, n) # {}
           /\ registry' = Put(registry, n, [plats |-> IF seen THEN AppendIndex(cache[n].plats, At(registry, n).plats) ELSE cache[n].plats,
                                            nested |-> FALSE])
           /\ run' = IF run.opts.manifest THEN [To("release") EXCEPT !.pc = IF To("release").pc = "release" THEN "arch.push" ELSE "arch.release"]
                     ELSE To("release")
  <2> DEFINE all == IF seen THEN AppendIndex(cache[n].plats, At(registry, n).plats) ELSE cache[n].plats
  <2>1. /\ RegistrySound(registry') /\ DOMAIN registry' = DOMAIN registry \cup {n} /\ In(registry', n) = DOMAIN all
        /\ \A m : m # n => In(registry', m) = In(registry, m)
        /\ \A m \in DOMAIN registry : m # n => registry'[m] = registry[m]
        /\ In(cache, n) \subseteq DOMAIN all
    <3>1. all \in {AppendIndex(cache[n].plats, At(registry, n).plats), cache[n].plats}
      OBVIOUS
    <3> HIDE DEF all, n
    <3>2. registry' = Put(registry, n, [plats |-> all, nested |-> FALSE])
      BY <1>5 DEF all
    <3> QED
      BY <1>1, <1>5, <3>1, <3>2, IndexPut
  <2>2. seen => In(registry, n) \subseteq DOMAIN all
    BY DEF AppendIndex, Over, In
  <2>3. run' \in {To("arch.push"), To("release")}
    BY <1>5 DEF To, IInv, TypeOK, RunOK
  <2> HIDE DEF n, all
  <2>4. RunOK' /\ SameCommand /\ run'.desc = run.desc /\ run'.pc \in {"release", "arch.push"}
    BY <2>3, ToFacts DEF IInv, Places, Pushing
  <2>5. ~counts'.unseen => Grown
    BY <1>1, <2>1, <2>2 DEF Grown
  <2>6. (Expected' /\ ~run.opts.pull) => Platforms \subseteq In(registry', n)
    <3>1. Expected' => Expected /\ ~counts'.unseen
      BY <2>4 DEF Expected, SameCommand, Counted
    <3> QED
      BY <1>3, <2>1, <2>2, <3>1
  <2>7. ~counts'.unseen => \A m \in DOMAIN registry' : m.tag.kind = "v1" => Named(m.tag) \in DOMAIN registry'
    BY <1>1, <2>1 DEF IInv, ArchNamed, Counted
  <2> QED
    BY <2>1, <2>4, <2>5, <2>6, <2>7, Pushes DEF n, Pushing
<1> QED
  BY <1>2, <1>4, <1>5 DEF PushIndex, Go

LEMMA PushDefaultStep == ASSUME IInv, PushDefault \/ PushUnseen PROVE IInv' /\ (~counts'.unseen => Grown)
<1>1. CASE PushDefault
  BY <1>1, PushTag, CountFacts DEF PushDefault, IInv
<1>2. CASE PushUnseen
  BY <1>2, PushTag, CountFacts DEF PushUnseen, IInv
<1> QED
  BY <1>1, <1>2

(* The names of the platforms of a tag are pushed.                         *)
LEMMA ArchesPut ==
  ASSUME IInv, NEW t, t.kind = "git" => t.dirty = NoContent, registry' = Over(ArchNames(t, Named(t)), registry)
  PROVE  /\ RegistrySound(registry') /\ DOMAIN registry' = DOMAIN registry \cup {Arch(t, p) : p \in In(cache, Named(t))}
         /\ In(cache, Named(t)) \subseteq Platforms
         /\ \A m : In(registry, m) \subseteq In(registry', m)
         /\ \A m \in DOMAIN registry : m \notin {Arch(t, p) : p \in In(cache, Named(t))} => registry'[m] = registry[m]
<1> DEFINE n == Named(t)
           f == ArchNames(t, n)
<1>1. RegistrySound(registry) /\ TagSound(cache) /\ PlatsOK(cache)
  BY SoundFacts
<1>2. In(cache, n) # {} => n \in DOMAIN cache /\ In(cache, n) = DOMAIN cache[n].plats
  BY EmptyFacts DEF In, At
<1>3. In(cache, n) \subseteq Platforms
  BY <1>1, <1>2 DEF PlatsOK
<1>4. DOMAIN f = {Arch(t, p) : p \in In(cache, n)}
  BY DEF ArchNames
<1>5. ASSUME NEW a \in DOMAIN f
      PROVE  /\ a.tag = t /\ a.arch \in In(cache, n) /\ a.arch \in Platforms /\ a.arch # "all"
             /\ DOMAIN f[a].plats = {a.arch} /\ f[a].plats[a.arch] = cache[n].plats[a.arch]
  <2>1. PICK p \in In(cache, n) : a = Arch(t, p)
    BY <1>4, <1>5
  <2>2. a.tag = t /\ a.arch = p
    BY <2>1, NameFacts
  <2>3. f[a] = [plats |-> One(a.arch, cache[n].plats[a.arch]), nested |-> FALSE]
    BY <1>4, <1>5 DEF ArchNames
  <2>4. DOMAIN f[a].plats = {a.arch} /\ f[a].plats[a.arch] = cache[n].plats[a.arch]
    BY <2>3, SMT DEF One
  <2> QED
    BY <1>3, <2>2, <2>4, NameFacts
<1>6. n.tag = t
  BY NameFacts
<1>7. registry' = Over(f, registry)
  OBVIOUS
<1> HIDE DEF n, f
<1>8. /\ DOMAIN registry' = DOMAIN f \cup DOMAIN registry
      /\ \A a \in DOMAIN f : registry'[a] = f[a]
      /\ \A a \in DOMAIN registry : a \notin DOMAIN f => registry'[a] = registry[a]
  BY <1>7 DEF Over
<1>9. TagSound(f)
  BY <1>1, <1>2, <1>5, <1>6, SMT DEF TagSound
<1>10. TagSound(registry')
  BY <1>1, <1>7, <1>9, OverSound DEF RegistrySound
<1>11. Undirtied(registry')
  BY <1>1, <1>5, <1>8 DEF Undirtied, RegistrySound
<1>12. PlatsOK(registry') /\ \A m \in DOMAIN registry' : m.arch # "all" => DOMAIN registry'[m].plats \subseteq {m.arch}
  BY <1>1, <1>5, <1>8, SMT DEF PlatsOK, RegistrySound
<1>13. ASSUME NEW m PROVE In(registry, m) \subseteq In(registry', m)
  <2>1. CASE m \in DOMAIN f
    <3>1. In(registry', m) = {m.arch}
      BY <1>5, <1>8, <2>1 DEF In, At
    <3>2. In(registry, m) \subseteq {m.arch}
      BY <1>1, <1>5, <2>1, EmptyFacts DEF RegistrySound, In, At
    <3> QED
      BY <3>1, <3>2
  <2>2. CASE m \notin DOMAIN f
    BY <1>8, <2>2 DEF In, At
  <2> QED
    BY <2>1, <2>2
<1> QED
  BY <1>3, <1>4, <1>8, <1>10, <1>11, <1>12, <1>13 DEF RegistrySound, n

(* In Pushing the platforms are in the registry.                           *)
LEMMA InRegistryNow ==
  ASSUME IInv, run.pc \in Pushing, Expected, ~run.opts.pull
  PROVE  Platforms \subseteq In(registry, Named(run.tag))
BY DEF IInv, Progress, Pushing

LEMMA PushArchesStep == ASSUME IInv, PushArches PROVE IInv' /\ (~counts'.unseen => Grown)
<1> DEFINE t == IF run.pc = "arch.push" THEN run.tag ELSE ReleaseTag
           l == IF run.pc = "arch.push" THEN "release" ELSE "tags"
<1>1. /\ run.pc \in {"arch.push", "arch.release"} /\ registry' = Over(ArchNames(t, Named(t)), registry)
      /\ run' = To(l) /\ UNCHANGED <<src, cache, docker, counts>> /\ Counted
  BY CountFacts DEF PushArches, Go, IInv
<1>2. run.release # "git" /\ ReleaseTag.kind = run.release
  BY InvocationsAssumption, SMT DEF IInv, TypeOK, RunOK, Releases, ReleaseTag, OtherTag
<1>3. t.kind = "git" => t.dirty = NoContent
  BY <1>1, <1>2 DEF IInv, Current, Pushing
<1>4. l \in Places /\ l \in {"release", "tags"}
  BY DEF Places, Pushing
<1>5. t.kind = "v1" => run.pc = "arch.release" /\ run.release = "v1" /\ t = ReleaseTag
  BY <1>1, <1>2 DEF IInv, Current
<1> HIDE DEF t, l
<1>6. RunOK' /\ SameCommand /\ run'.desc = run.desc /\ run'.pc \in {"release", "tags"}
  BY <1>1, <1>4, ToFacts DEF IInv
<1>7. /\ RegistrySound(registry') /\ DOMAIN registry' = DOMAIN registry \cup {Arch(t, p) : p \in In(cache, Named(t))}
      /\ In(cache, Named(t)) \subseteq Platforms
      /\ \A m : In(registry, m) \subseteq In(registry', m)
      /\ \A m \in DOMAIN registry : m \notin {Arch(t, p) : p \in In(cache, Named(t))} => registry'[m] = registry[m]
  BY <1>1, <1>3, ArchesPut
<1>8. ASSUME ~counts'.unseen, NEW m \in DOMAIN registry, m.tag.kind = "v1" PROVE m \notin {Arch(t, p) : p \in In(cache, Named(t))}
  <2> SUFFICES ASSUME NEW p \in In(cache, Named(t)), m = Arch(t, p) PROVE FALSE
    OBVIOUS
  <2>1. m.tag = t
    BY NameFacts
  <2> QED
    BY <1>1, <1>5, <1>7, <1>8, <2>1 DEF IInv, ArchNamed
<1>9. ~counts'.unseen => Grown
  BY <1>7, <1>8 DEF Grown
<1>10. ASSUME ~counts'.unseen, NEW m \in DOMAIN registry', m.tag.kind = "v1" PROVE Named(m.tag) \in DOMAIN registry'
  <2>1. CASE m \in DOMAIN registry
    BY <1>1, <1>7, <1>10, <2>1 DEF IInv, ArchNamed
  <2>2. CASE m \notin DOMAIN registry
    <3>1. PICK p \in In(cache, Named(t)) : m = Arch(t, p)
      BY <1>7, <2>2
    <3>2. m.tag = t
      BY <3>1, NameFacts
    <3> QED
      BY <1>1, <1>5, <1>7, <1>10, <3>2 DEF IInv, ArchNamed
  <2> QED
    BY <2>1, <2>2
<1>11. (Expected' /\ ~run.opts.pull) => Platforms \subseteq In(registry', Named(run.tag))
  <2>1. Expected' => Expected
    BY <1>1, <1>6 DEF Expected, SameCommand
  <2>2. (Expected /\ ~run.opts.pull) => Platforms \subseteq In(registry, Named(run.tag))
    BY <1>1, InRegistryNow DEF Pushing
  <2> QED
    BY <1>7, <2>1, <2>2
<1> QED
  BY <1>1, <1>6, <1>7, <1>9, <1>10, <1>11, Pushes DEF Pushing
-----------------------------------------------------------------------------
(* The release *)

LEMMA ReleaseFacts == ASSUME TypeOK PROVE ReleaseTag.kind = run.release /\ run.release # "git"
BY InvocationsAssumption, SMT DEF TypeOK, RunOK, Releases, ReleaseTag, OtherTag

(* The command ends well after its pushes.                                 *)
LEMMA KeptAtEnd == ASSUME IInv, run.pc \in Pushing, NEW d, docker \subseteq d PROVE Kept(d)
BY InRegistryNow, InDocker DEF Kept, Served

LEMMA ReleaseStep == ASSUME IInv, Release PROVE IInv'
<1>1. run.pc = "release" /\ UNCHANGED <<src, registry, docker, counts>> /\ Counted
  BY CountFacts DEF Release, IInv
<1>2. CASE run' = End("ok") /\ UNCHANGED cache
  BY <1>1, <1>2, KeptAtEnd, Ends DEF Pushing
<1>3. CASE run' = End("error") /\ UNCHANGED cache
  BY <1>1, <1>3, Ends
<1>4. (Expected /\ ~run.opts.pull) => Platforms \subseteq In(registry, Named(run.tag))
  BY <1>1, InRegistryNow DEF Pushing
<1>5. ASSUME run'.pc \in Pushing, SameCommand, run'.desc => Named(run.tag) \in DOMAIN cache' PROVE Progress'
  <2>1. Expected' => Expected
    BY <1>1, <1>5 DEF Expected, SameCommand
  <2>2. (Expected' /\ ~run'.opts.pull) =>
          Platforms \subseteq Had' /\ (run'.pc \in Pushing => Platforms \subseteq In(registry', Named(run'.tag)))
    BY <1>1, <1>4, <1>5, <2>1 DEF SameCommand, Had
  <2>3. (Expected' /\ run'.opts.docker) => \A p \in Platforms : Arch(run'.tag, p) \in docker'
    BY <1>1, <1>5, <2>1, InDocker DEF SameCommand, Pushing
  <2>4. run'.pc \notin {"check", "arch", "solve", "idle", "find", "docker"}
    BY <1>5 DEF Pushing
  <2>5. run'.result = "none" /\ (run'.opts.docker => run'.opts.pull) /\ (run'.desc => Named(run'.tag) \in DOMAIN cache')
    BY <1>1, <1>5 DEF SameCommand, IInv, Progress
  <2> QED
    BY <2>2, <2>3, <2>4, <2>5 DEF Progress
<1>6. CASE /\ run.desc /\ cache' = Put(cache, Named(ReleaseTag), cache[Named(run.tag)])
           /\ run' = To("release.push")
  <2> DEFINE n == Named(ReleaseTag)
             v == cache[Named(run.tag)]
  <2>1. RunOK' /\ SameCommand /\ run'.desc = run.desc /\ run'.pc = "release.push"
    BY <1>6, ToFacts DEF IInv, Places, Pushing
  <2>2. Named(run.tag) \in DOMAIN cache
    BY <1>6 DEF IInv, Progress
  <2>3. n.tag.kind # "git"
    BY ReleaseFacts, NameFacts DEF IInv
  <2>4. DOMAIN v.plats \subseteq Platforms
    BY <2>2 DEF IInv, OfPackage, PlatsOK
  <2>5. cache' = Put(cache, n, v) /\ DOMAIN cache \subseteq DOMAIN cache'
    BY <1>6 DEF Put
  <2> HIDE DEF n, v
  <2>6. TagSound(cache') /\ PlatsOK(cache')
    BY <2>3, <2>4, <2>5, SoundFacts, PutSound, PutOK
  <2>7. Progress'
    BY <1>5, <2>1, <2>2, <2>5 DEF Pushing
  <2> QED
    BY <1>1, <2>1, <2>6, <2>7, Caches DEF Pushing
<1>7. CASE InRegistry(run.tag, Platforms) /\ Pulled(run.tag) /\ run' = [run EXCEPT !.desc = TRUE]
  <2>1. RunOK' /\ SameCommand /\ run'.pc = "release"
    BY <1>1, <1>7 DEF IInv, TypeOK, RunOK, SameCommand
  <2>2. BuiltFromTag' /\ PlatsOK(cache') /\ Named(run.tag) \in DOMAIN cache'
    BY <1>1, <1>7, PullFacts, NameFacts DEF IInv
  <2>3. TagSound(cache')
    BY <2>2, BuiltFacts
  <2>4. Progress'
    BY <1>5, <2>1, <2>2 DEF Pushing
  <2> QED
    BY <1>1, <2>1, <2>2, <2>3, <2>4, Caches DEF Pushing
<1> QED
  BY <1>2, <1>3, <1>6, <1>7 DEF Release, Go

(* The release goes to the registry, that does not have it, or did not say. *)
LEMMA PushesRelease ==
  ASSUME IInv, run.pc = "release.push", PushIndex(Named(ReleaseTag), To("tags"), TRUE), UNCHANGED <<src, cache, docker>>, Counted,
         ~counts'.unseen => ~Released(Named(ReleaseTag))
  PROVE  IInv' /\ (~counts'.unseen => Grown)
<1> DEFINE n == Named(ReleaseTag)
<1>1. n.arch = "all" /\ n.tag = ReleaseTag /\ n.tag.kind = run.release /\ n.tag.kind # "git"
  BY ReleaseFacts, NameFacts DEF IInv
<1>2. CASE run' = End("error") /\ UNCHANGED registry
  BY <1>2, Ends DEF Grown
<1>3. (Expected /\ ~run.opts.pull) => Platforms \subseteq In(registry, Named(run.tag))
  BY InRegistryNow DEF Pushing
<1>4. CASE run' = To("tags") /\ UNCHANGED registry
  <2>1. RunOK' /\ SameCommand /\ run'.desc = run.desc /\ run'.pc = "tags"
    BY <1>4, ToFacts DEF IInv, Places, Pushing
  <2>2. Progress'
    BY <1>3, <1>4, <2>1, InDocker, GoesOn DEF Pushing
  <2> QED
    BY <1>4, <2>1, <2>2, Moves DEF Pushing, Grown
<1>5. CASE /\ In(cache, n) # {}
           /\ registry' = Put(registry, n, [plats |-> AppendIndex(cache[n].plats, At(registry, n).plats), nested |-> FALSE])
           /\ run' = IF run.opts.manifest THEN [To("tags") EXCEPT !.pc = IF To("tags").pc = "release" THEN "arch.push" ELSE "arch.release"]
                     ELSE To("tags")
  <2> DEFINE all == AppendIndex(cache[n].plats, At(registry, n).plats)
  <2>1. /\ RegistrySound(registry') /\ DOMAIN registry' = DOMAIN registry \cup {n} /\ In(registry', n) = DOMAIN all
        /\ \A m : m # n => In(registry', m) = In(registry, m)
        /\ \A m \in DOMAIN registry : m # n => registry'[m] = registry[m]
    <3> HIDE DEF n
    <3> QED
      BY <1>1, <1>5, IndexPut
  <2>2. In(registry, n) \subseteq DOMAIN all
    BY DEF AppendIndex, Over, In
  <2>3. run' \in {To("arch.release"), To("tags")}
    BY <1>5 DEF To, IInv, TypeOK, RunOK
  <2> HIDE DEF n, all
  <2>4. RunOK' /\ SameCommand /\ run'.desc = run.desc /\ run'.pc \in {"tags", "arch.release"}
    BY <2>3, ToFacts DEF IInv, Places, Pushing
  <2>5. ~counts'.unseen => n \notin DOMAIN registry
    BY DEF Released, n
  <2>6. ~counts'.unseen => Grown
    BY <2>1, <2>2, <2>5 DEF Grown
  <2>7. (Expected' /\ ~run.opts.pull) => Platforms \subseteq In(registry', Named(run.tag))
    <3>1. Expected' => Expected
      BY <2>4 DEF Expected, SameCommand, Counted
    <3> QED
      BY <1>3, <2>1, <2>2, <3>1
  <2>8. ~counts'.unseen => \A m \in DOMAIN registry' : m.tag.kind = "v1" => Named(m.tag) \in DOMAIN registry'
    <3>1. Named(n.tag) = n
      BY <1>1 DEF n
    <3> QED
      BY <2>1, <3>1 DEF IInv, ArchNamed, Counted
  <2>9. ~counts'.unseen /\ run.release = "v1" =>
          Named(ReleaseTag) \in DOMAIN registry' /\ \A p \in Platforms : Arch(ReleaseTag, p) \notin DOMAIN registry'
    <3> SUFFICES ASSUME ~counts'.unseen, run.release = "v1"
                 PROVE  n \in DOMAIN registry' /\ \A p \in Platforms : Arch(ReleaseTag, p) \notin DOMAIN registry'
      BY DEF n
    <3>1. ASSUME NEW p \in Platforms, Arch(ReleaseTag, p) \in DOMAIN registry PROVE FALSE
      <4>1. Arch(ReleaseTag, p).tag = ReleaseTag /\ ReleaseTag.kind = "v1"
        BY <1>1, NameFacts
      <4>2. Named(ReleaseTag) \in DOMAIN registry
        BY <3>1, <4>1 DEF IInv, ArchNamed, Counted
      <4> QED
        BY <2>5, <4>2 DEF n
    <3>2. \A p \in Platforms : Arch(ReleaseTag, p) # n
      BY NameFacts, SMT DEF n
    <3> QED
      BY <2>1, <3>1, <3>2
  <2> QED
    BY <2>1, <2>4, <2>6, <2>7, <2>8, <2>9, Pushes DEF Pushing
<1> QED
  BY <1>2, <1>4, <1>5 DEF PushIndex, Go

LEMMA PushReleaseStep == ASSUME IInv, PushRelease \/ PushReleaseUnseen PROVE IInv' /\ (~counts'.unseen => Grown)
<1>1. CASE PushRelease /\ ~Released(Named(ReleaseTag))
  BY <1>1, PushesRelease, CountFacts DEF PushRelease, IInv
<1>2. CASE PushRelease /\ Released(Named(ReleaseTag))
  <2>1. run.pc = "release.push" /\ run' = To("tags") /\ UNCHANGED <<src, cache, docker, registry, counts>> /\ Counted
    BY <1>2, CountFacts DEF PushRelease, Go, IInv
  <2>2. RunOK' /\ SameCommand /\ run'.desc = run.desc /\ run'.pc = "tags"
    BY <2>1, ToFacts DEF IInv, Places, Pushing
  <2>3. Progress'
    BY <2>1, <2>2, InRegistryNow, InDocker, GoesOn DEF Pushing
  <2> QED
    BY <2>1, <2>2, <2>3, Moves DEF Pushing, Grown
<1>3. CASE PushReleaseUnseen
  BY <1>3, PushesRelease, CountFacts DEF PushReleaseUnseen, IInv
<1> QED
  BY <1>1, <1>2, <1>3

LEMMA TagDockerStep == ASSUME IInv, TagDocker PROVE IInv'
<1>1. run.pc \in Pushing /\ UNCHANGED <<src, cache, registry, counts>> /\ Counted
  BY CountFacts DEF TagDocker, IInv, Pushing
<1>2. CASE run' = End("error")
  BY <1>1, <1>2, Ends
<1>3. CASE run' = End("ok") /\ docker \subseteq docker'
  BY <1>1, <1>3, KeptAtEnd, Ends
<1> QED
  BY <1>2, <1>3 DEF TagDocker, Go

LEMMA FailsStep == ASSUME IInv, Fails PROVE IInv'
BY Ends, CountFacts DEF Fails, Go, IInv
-----------------------------------------------------------------------------
(* The other clients *)

LEMMA OtherPushStep == ASSUME IInv, OtherPush PROVE IInv' /\ Grown
<1> DEFINE n == Named(GitTag(src.head, src.xhead, NoContent))
           i == [src |-> src.head, by |-> "other"]
<1>1. UNCHANGED <<src, cache, docker, run>> /\ Counted
  BY CountFacts DEF OtherPush, IInv
<1>2. PICK p \in Platforms :
        registry' = Put(Put(registry, n, [plats |-> Put(At(registry, n).plats, p, i), nested |-> FALSE]),
                        Arch(n.tag, p), [plats |-> One(p, i), nested |-> FALSE])
  BY DEF OtherPush
<1> DEFINE a  == Arch(n.tag, p)
           v  == [plats |-> Put(At(registry, n).plats, p, i), nested |-> FALSE]
           w  == [plats |-> One(p, i), nested |-> FALSE]
           r  == Put(registry, n, v)
<1>3. /\ n.tag.kind = "git" /\ n.tag.dirty = NoContent /\ n.tag.tree = src.head /\ n.arch = "all" /\ Named(n.tag) = n
      /\ a.tag = n.tag /\ a.arch = p /\ p # "all" /\ a # n
  BY NameFacts, SMT DEF GitTag
<1>4. i.src = src.head
  OBVIOUS
<1>5. DOMAIN w.plats = {p} /\ w.plats[p] = i
  BY DEF One
<1>6. DOMAIN v.plats = In(registry, n) \cup {p} /\ \A q \in DOMAIN v.plats : v.plats[q] = i \/ (q \in In(registry, n) /\ v.plats[q] = At(registry, n).plats[q])
  BY DEF Put, In
<1>7. registry' = Put(r, a, w)
  BY <1>2
<1>8. r = Put(registry, n, v)
  OBVIOUS
<1> HIDE DEF n, i, a, v, w, r
<1>9. RegistrySound(registry)
  BY SoundFacts
<1>10. In(registry, n) # {} => n \in DOMAIN registry /\ At(registry, n) = registry[n] /\ In(registry, n) = DOMAIN registry[n].plats
  BY EmptyFacts DEF In, At
<1>11. DOMAIN v.plats \subseteq Platforms
  BY <1>6, <1>9, <1>10 DEF RegistrySound, PlatsOK
<1>12. \A q \in DOMAIN v.plats : v.plats[q].src = n.tag.tree
  BY <1>3, <1>4, <1>6, <1>9, <1>10, SMT DEF RegistrySound, TagSound
<1>13. RegistrySound(r)
  BY <1>3, <1>8, <1>9, <1>11, <1>12, PutRegistry
<1>14. DOMAIN w.plats \subseteq Platforms /\ DOMAIN w.plats \subseteq {a.arch} /\ \A q \in DOMAIN w.plats : w.plats[q].src = a.tag.tree
  BY <1>3, <1>4, <1>5
<1>15. RegistrySound(registry')
  BY <1>3, <1>7, <1>13, <1>14, PutRegistry
<1>16. /\ DOMAIN registry' = DOMAIN registry \cup {n, a}
       /\ \A m \in DOMAIN registry : m \notin {n, a} => registry'[m] = registry[m]
  BY <1>7, <1>8 DEF Put
<1>17. ASSUME NEW m PROVE In(registry, m) \subseteq In(registry', m)
  <2>1. CASE m = a
    <3>1. In(registry', m) = {p}
      BY <1>5, <1>7, <2>1 DEF Put, In, At
    <3>2. In(registry, m) \subseteq {p}
      BY <1>3, <1>9, <2>1, EmptyFacts DEF RegistrySound, In, At
    <3> QED
      BY <3>1, <3>2
  <2>2. CASE m = n
    <3>1. In(registry', m) = DOMAIN v.plats
      BY <1>3, <1>7, <1>8, <2>2 DEF Put, In, At
    <3> QED
      BY <1>6, <2>2, <3>1
  <2>3. CASE m # a /\ m # n
    BY <1>7, <1>8, <2>3 DEF Put, In, At
  <2> QED
    BY <2>1, <2>2, <2>3
<1>18. Grown
  BY <1>3, <1>16, <1>17 DEF Grown
<1>19. TypeOK' /\ OfPackage'
  BY <1>1, <1>15 DEF IInv, TypeOK, OfPackage, PlatsOK, Counted, CountsOK, RegistrySound, RunOK
<1>20. Current'
  BY <1>1 DEF IInv, Current
<1>21. BuiltFromTag'
  <2>1. TagSound(cache')
    BY <1>1, SoundFacts
  <2> QED
    BY <1>15, <2>1, BuiltFacts DEF RegistrySound
<1>22. ArchNamed'
  <2>1. \A m \in DOMAIN registry' : m.arch # "all" => In(registry', m) \subseteq {m.arch}
    BY <1>15 DEF RegistrySound, In, At
  <2>2. ~counts'.unseen => \A m \in DOMAIN registry' : m.tag.kind = "v1" => Named(m.tag) \in DOMAIN registry'
    BY <1>1, <1>3, <1>16 DEF IInv, ArchNamed, Counted
  <2>3. (~counts'.unseen /\ run.pc = "arch.release" /\ run.release = "v1") =>
          Named(ReleaseTag) \in DOMAIN registry' /\ \A q \in Platforms : Arch(ReleaseTag, q) \notin DOMAIN registry'
    <3>1. \A q \in Platforms : Arch(ReleaseTag, q).tag = ReleaseTag /\ Named(ReleaseTag).tag = ReleaseTag /\ ReleaseTag.kind # "git"
      BY ReleaseFacts, NameFacts DEF IInv
    <3>2. \A q \in Platforms : Arch(ReleaseTag, q) \notin {n, a}
      BY <1>3, <3>1
    <3> QED
      BY <1>1, <1>16, <3>2 DEF IInv, ArchNamed, Counted
  <2>4. ReleaseTag' = ReleaseTag
    BY <1>1 DEF ReleaseTag
  <2> QED
    BY <1>1, <2>1, <2>2, <2>3, <2>4 DEF ArchNamed
<1>23. Had \subseteq Had' /\ Waiting' = Waiting /\ (Expected' => Expected) /\ In(registry, Named(run.tag)) \subseteq In(registry', Named(run'.tag))
  BY <1>1, <1>17 DEF Had, Waiting, Expected, Counted
<1>24. Progress'
  BY <1>1, <1>23 DEF IInv, Progress
<1>25. Available'
  <2>1. Served => Served'
    BY <1>1, <1>23 DEF Served, Had
  <2> QED
    BY <1>1, <2>1 DEF IInv, Available, Counted
<1> QED
  BY <1>18, <1>19, <1>20, <1>21, <1>22, <1>24, <1>25 DEF IInv
-----------------------------------------------------------------------------
(* The invariant *)

LEMMA InitIInv == Init => IInv
<1> SUFFICES ASSUME Init PROVE IInv
  OBVIOUS
<1>1. DOMAIN cache = {} /\ DOMAIN registry = {}
  BY DEF Init
<1>2. src \in [head : Content, work : Content, xhead : 1..2, xwork : 1..2, gittag : {"none", "v1"}]
  <2> DEFINE c == CHOOSE c \in Contents : c.untracked = 0
  <2>1. c \in Content
    BY SourceAssumption
  <2>2. src = [head |-> c, work |-> c, xhead |-> 1, xwork |-> 1, gittag |-> "none"]
    BY DEF Init
  <2> HIDE DEF c
  <2> QED
    BY <2>1, <2>2, SMT
<1>3. run = [pc |-> "idle", opts |-> NoOpts, tag |-> OtherTag("none"), dirty |-> FALSE, release |-> "none",
             check |-> <<>>, build |-> <<>>, descs |-> Empty, root |-> FALSE, any |-> FALSE, built |-> FALSE, desc |-> FALSE,
             left |-> 0, loader |-> "none", late |-> FALSE, result |-> "none"]
  BY DEF Init, Idle, Fresh
<1>4. NoOpts \in Options /\ ~NoOpts.docker /\ "none" \in Releases /\ 0 \in 0..Chunks
  BY ArchesAssumption, SMT DEF NoOpts, Options, Releases, Kinds
<1>5. OtherTag("none") \in Tags
  BY DEF OtherTag, Tags, Kinds
<1>6. RunOK
  BY <1>3, <1>4, <1>5, SMT DEF RunOK, Places
<1>7. counts \in [runs : 0..MaxRuns, edits : 0..MaxEdits, others : 0..MaxOthers, faults : 0..MaxFaults, unseen : BOOLEAN]
  BY ArchesAssumption, SMT DEF Init
<1>8. run.pc = "idle" /\ run.opts = NoOpts /\ run.descs = Empty /\ run.desc = FALSE /\ run.result = "none"
  BY <1>3
<1>9. TypeOK
  BY <1>2, <1>6, <1>7 DEF TypeOK
<1>10. Current /\ Progress /\ Available
  BY <1>4, <1>8 DEF Current, Progress, Available, Pushing
<1>11. OfPackage /\ BuiltFromTag /\ ArchNamed
  BY <1>1, <1>8 DEF OfPackage, PlatsOK, BuiltFromTag, ArchNamed, Empty
<1> QED
  BY <1>9, <1>10, <1>11 DEF IInv

LEMMA StutterStep == ASSUME IInv, UNCHANGED vars PROVE IInv'
<1>1. TypeOK' /\ Current' /\ OfPackage' /\ BuiltFromTag'
  BY SMT DEF vars, IInv, TypeOK, RunOK, Current, OfPackage, PlatsOK, BuiltFromTag, In, At
<1>2. ArchNamed'
  BY DEF vars, IInv, ArchNamed, In, At, ReleaseTag
<1>3. Progress'
  BY DEF vars, IInv, Progress, Expected, Waiting, Had, In, At
<1>4. Available'
  BY DEF vars, IInv, Available, Served, In, At
<1> QED
  BY <1>1, <1>2, <1>3, <1>4 DEF IInv

LEMMA Inductive == IInv /\ [Next]_vars => IInv' /\ (~counts'.unseen => Grown)
<1> SUFFICES ASSUME IInv, [Next]_vars PROVE IInv' /\ (~counts'.unseen => Grown)
  OBVIOUS
<1>1. ASSUME UNCHANGED registry PROVE Grown
  BY <1>1 DEF Grown
<1>2. CASE Edit \/ Commit \/ Check
  <2>1. IInv'
    BY <1>2, EditStep, CommitStep, StartStep, CheckStep DEF Check
  <2>2. UNCHANGED registry
    BY <1>2 DEF Check, Edit, Commit, pkgBuildCmd, CheckPlatform, CheckLost
  <2> QED
    BY <1>1, <2>1, <2>2
<1>3. CASE Arch_ \/ LoadFails \/ Fails
  <2>1. IInv'
    BY <1>3, ArchFoundStep, ArchBuildStep, WriteChunkStep, LoadedStep, IndexWriteStep, LoadFailsStep, FailsStep DEF Arch_
  <2>2. UNCHANGED registry
    BY <1>3 DEF Arch_, ArchFound, ArchBuild, ArchLost, WriteChunk, Loaded, IndexWrite, LoadFails, Fails
  <2> QED
    BY <1>1, <2>1, <2>2
<1>4. CASE FindDescriptor \/ LoadDocker \/ Decide \/ Release \/ TagDocker
  <2>1. IInv'
    BY <1>4, FindStep, LoadDockerStep, DecideStep, ReleaseStep, TagDockerStep
  <2>2. UNCHANGED registry
    BY <1>4 DEF FindDescriptor, LoadDocker, Decide, Release, TagDocker
  <2> QED
    BY <1>1, <2>1, <2>2
<1>5. CASE PushDefault \/ PushUnseen \/ PushArches \/ PushRelease \/ PushReleaseUnseen \/ OtherPush
  BY <1>5, PushDefaultStep, PushArchesStep, PushReleaseStep, OtherPushStep
<1>6. CASE UNCHANGED vars
  BY <1>1, <1>6, StutterStep DEF vars
<1> QED
  BY <1>2, <1>3, <1>4, <1>5, <1>6 DEF Next, Publish, Finish

(* In every state the invariant holds: the tag of a command under way is   *)
(* that of the source, each platform is had, to be built or built, and a   *)
(* release is in the registry before the names of its platforms.           *)
THEOREM Invariance == Spec => []IInv
<1>1. IInv /\ [Next]_vars => IInv'
  BY Inductive
<1> QED
  BY InitIInv, <1>1, PTL DEF Spec

(* The command, the source and the counts keep their types.                *)
THEOREM TypeCorrect == Spec => []TypeOK
<1>1. IInv => TypeOK
  BY DEF IInv
<1> QED
  BY Invariance, <1>1, PTL

(* When pkg build reports success, every platform of the package can be    *)
(* had from where it was to put them.                                      *)
THEOREM BuildsServe == Spec => []Available
<1>1. IInv => Available
  BY DEF IInv
<1> QED
  BY Invariance, <1>1, PTL

(* What is under a tag of a git tree was built from that tree, and nothing *)
(* dirty is ever pushed.                                                   *)
THEOREM TagsAreHonest == Spec => []BuiltFromTag
<1>1. IInv => BuiltFromTag
  BY DEF IInv
<1> QED
  BY Invariance, <1>1, PTL

(* No push takes a platform from a name, or touches a release, unless what *)
(* the registry has could not be seen.                                     *)
THEOREM PushesKeep == Spec => RegistryKept
<1>1. IInv /\ [Next]_vars =>
        (~counts'.unseen =>
           \A n \in DOMAIN registry :
             /\ In(registry, n) \subseteq In(registry', n)
             /\ n.tag.kind = "v1" => registry'[n] = registry[n])
  BY Inductive DEF Grown
<1> QED
  BY Invariance, <1>1, PTL DEF Spec, RegistryKept
===============================================================================
