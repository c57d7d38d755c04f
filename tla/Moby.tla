-------------------------------- MODULE Moby --------------------------------
(***************************************************************************)
(* linuxkit build (build.go, moby, moby/build): yaml files are merged into *)
(* one config, and the images it names become the entries of a tar file,   *)
(* which is the output, or from which the output formats are made.  With   *)
(* -input-tar, what an earlier build has put there is copied instead when  *)
(* the config is the same.  The images are taken from the cache (see       *)
(* CacheStore), which other commands may change, or pulled.                *)
(*                                                                         *)
(* An entry of a tar has the path, the source and the location in the      *)
(* config that are recorded in it, and what it holds.                      *)
(***************************************************************************)
EXTENDS OCIConfig, FiniteSets

CONSTANTS
  Images,        \* the references of images
  Short,         \* the full reference of each abbreviated one
  KernelImages,  \* those that have a kernel
  Moving,        \* those that others push and pull meanwhile
  Labels,        \* their labels, by reference
  Commands,      \* the command lines: the yaml files and the options
  TarNames,      \* the tar files a command may name
  MaxBuilds, MaxMoves, MaxFaults

VARIABLES
  registry, cache,   \* the version of each image there; 0 in the cache: none
  tars,              \* the tar files
  out,               \* the files of the other formats
  mkimage,           \* the image that makes disk images, as kept in the home directory
  run,               \* the command: where it is and its local variables
  counts             \* how often what is bounded has happened

vars == <<registry, cache, tars, out, mkimage, run, counts>>

ASSUME MobyAssumption ==
  /\ KernelImages \subseteq Images /\ Moving \subseteq Images /\ DOMAIN Labels = Images /\ Range(Short) \subseteq Images /\ "tmp" \notin TarNames
  /\ \A k \in {MaxBuilds, MaxMoves, MaxFaults} : k \in Nat

Data(what, name, v)      == [what |-> what, name |-> name, v |-> v, oci |-> NoOCI, runtime |-> NoRuntime, root |-> <<>>]
Entry(p, src, loc, data) == [path |-> p, src |-> src, loc |-> loc, data |-> data]
EmptyDir(p, src, loc)    == Entry(p, src, loc, Data("dir", "", <<>>))

(* What is found when the tar is unpacked: the last entry of each path.     *)
Paths(es)  == {es[k].path : k \in DOMAIN es}
Unpacked(es) == [p \in Paths(es) |-> es[SelectLastInSeq(es, LAMBDA e : e.path = p)].data]
-----------------------------------------------------------------------------
(* The config *)

NoConfig == [kernel |-> [image |-> "", cmdline |-> ""], init |-> <<>>, volumes |-> <<>>, vols |-> {},
             onboot |-> <<>>, onshutdown |-> <<>>, services |-> <<>>, files |-> <<>>]
NoTar    == [entries |-> <<>>, meta |-> NoConfig, built |-> [i \in Images |-> 0], direct |-> FALSE]

Distinct(s) == \A j, k \in DOMAIN s : j # k => s[j].name # s[k].name
uniqueServices(m) == Distinct(m.services)
uniqueVolumes(m)  == Distinct(m.volumes)

(* extractReferences: the images' names, expanded, must be references.  An  *)
(* image's reference is kept with its name.                                *)
ReferenceExpand(n) == IF n \in DOMAIN Short THEN Short[n] ELSE n
Names(m) == {m.kernel.image} \cup ToSet(m.init) \cup {m.volumes[k].image : k \in DOMAIN m.volumes}
extractReferences(m) ==
  /\ {ReferenceExpand(n) : n \in Names(m) \ {""}} \subseteq Images
  /\ \A s \in {m.onboot, m.onshutdown, m.services} : \A k \in DOMAIN s : ReferenceExpand(s[k].image) \in Images

(* UpdateImages: the names are replaced by the references, but for volumes. *)
Full(s) == [k \in DOMAIN s |-> [s[k] EXCEPT !.image = ReferenceExpand(@)]]
UpdateImages(m) ==
  [m EXCEPT !.kernel.image = ReferenceExpand(@), !.init = [k \in DOMAIN @ |-> ReferenceExpand(@[k])],
            !.onboot = Full(@), !.onshutdown = Full(@), !.services = Full(@)]

(* NewConfig of a file; the volumes it defines can be found by their names. *)
NewConfig(y) == [y EXCEPT !.vols = ToSet(y.volumes)]

(* AppendConfig: of the volumes, only those of the last file can be found.  *)
NonEmpty(new, old) == IF new # "" THEN new ELSE old
AppendConfig(m0, m1) ==
  [kernel     |-> [image |-> NonEmpty(m1.kernel.image, m0.kernel.image), cmdline |-> NonEmpty(m1.kernel.cmdline, m0.kernel.cmdline)],
   init       |-> m0.init \o m1.init,
   volumes    |-> m0.volumes \o m1.volumes,
   vols       |-> m1.vols,
   onboot     |-> m0.onboot \o m1.onboot,
   onshutdown |-> m0.onshutdown \o m1.onshutdown,
   services   |-> m0.services \o m1.services,
   files      |-> m0.files \o m1.files]
Merged(ymls)  == FoldLeft(LAMBDA m, y : AppendConfig(m, NewConfig(y)), NoConfig, ymls)
BadConfig(ymls) == ~uniqueServices(Merged(ymls)) \/ \E k \in DOMAIN ymls : ~uniqueVolumes(ymls[k]) \/ ~extractReferences(ymls[k])

(* idMap: a container's name stands for an id of its own, from 100 on.      *)
Containers(m) == m.onboot \o m.onshutdown \o m.services
idMap(m) ==
  LET all == Containers(m) IN
  [n \in {all[k].name : k \in DOMAIN all} |-> 99 + SelectLastInSeq(all, LAMBDA c : c.name = n)]

(* The metadata of a tar: the config, if a file was asked for at that path. *)
MetaPath(m) == LET k == SelectLastInSeq(m.files, LAMBDA f : f.kind = "metadata") IN IF k = 0 THEN <<>> ELSE m.files[k].path
-----------------------------------------------------------------------------
(* Images as entries *)

(* tarPrefix: the directories that lead to a path.                         *)
tarPrefix(p, src, loc) == [k \in 1..Len(p) |-> EmptyDir(SubSeq(p, 1, k), src, loc)]

(* ImageTar: some files of the image are left out, some replaced, and those *)
(* that must exist are made.  resolv.conf is a link for what is unpacked in *)
(* the root.                                                               *)
ImageFiles == <<"bin", "etc/hostname", "etc/hosts", "lib/apk/db/installed">>
exclude    == {"etc/hostname"}
replace    == {"etc/hosts", "etc/resolv.conf"}
touch      == <<"etc/hosts", "etc/resolv.conf", "proc">>
Replaced(f, resolv) == Data(IF f = "etc/resolv.conf" /\ resolv THEN "link" ELSE "replaced", f, <<>>)
FileOf(f, img, v, resolv) ==
  IF f \in replace THEN Replaced(f, resolv) ELSE IF f = "proc" THEN Data("dir", "", <<>>) ELSE Data(f, img, <<v>>)
ImageTar(loc, img, v, prefix, resolv) ==
  IF img = "" THEN tarPrefix(prefix, "empty", loc)
  ELSE LET kept == SelectSeq(ImageFiles, LAMBDA f : f \notin exclude)
           all  == kept \o touch
       IN  tarPrefix(prefix, img, loc) \o [k \in 1..Len(all) |-> Entry(Append(prefix, all[k]), img, loc, FileOf(all[k], img, v, resolv))]

(* ImageOCITar: the image as it is.                                        *)
ImageOCITar(loc, img, v, prefix) == tarPrefix(prefix, img, loc) \o <<Entry(Append(prefix, "index.json"), img, loc, Data("layout", img, <<v>>))>>

(* kernelFilter: the command line, the kernel and the contents of its tar.  *)
KernelEntries(k, v) ==
  <<EmptyDir(<<"boot">>, k.image, <<"kernel", 0>>),
    Entry(<<"boot", "cmdline">>, k.image, <<"kernel", 0>>, Data("cmdline", k.cmdline, <<>>)),
    Entry(<<"boot", "kernel">>, k.image, <<"kernel", 0>>, Data("kernel", k.image, <<v>>)),
    Entry(<<"lib", "modules">>, k.image, <<"kernel", 0>>, Data("modules", k.image, <<v>>))>>

(* apkTarWriter: what each init image has installed, and then all together. *)
apkInstalledPath == <<"lib/apk/db/installed">>
Installed(es) == SelectSeq(es, LAMBDA e : e.path = apkInstalledPath /\ e.loc[1] = "init" /\ e.src # "LINUXKIT.apkinit")
Several(dbs)     == Len(dbs) > 1
WriteAPKDB(es) ==
  LET dbs == Installed(es)
      all == [Data("installed", "", [k \in DOMAIN dbs |-> dbs[k].data.v[1]]) EXCEPT !.root = [k \in DOMAIN dbs |-> dbs[k].src]]
  IN  IF Several(dbs) THEN <<Entry(apkInstalledPath, "LINUXKIT.apkinit", <<"init", 0>>, all)>> ELSE <<>>

(* A volume: what is below, and the directories for the overlay.           *)
VolumeDir(n, d) == <<"containers", "volumes", n, d>>
VolumeEntries(vol, i, v) ==
  LET loc == <<"volume", i>>
      low == VolumeDir(vol.name, "lower")
      ref == ReferenceExpand(vol.image)
  IN  (IF vol.image # "" /\ vol.format = "oci" THEN ImageOCITar(loc, ref, v, low) ELSE ImageTar(loc, ref, v, low, TRUE))
      \o <<EmptyDir(VolumeDir(vol.name, "tmp"), "linuxkit.volumes", loc), EmptyDir(VolumeDir(vol.name, "merged"), "linuxkit.volumes", loc)>>

(* updateMountsAndBindsFromVolumes: a source that is no path is a volume;   *)
(* it must be known, and a read-only one not be written.  In binds it is    *)
(* replaced by the directory, in mounts it is left.                         *)
IsVolume(b)  == b.source[1] # "/"
BadBind(b, m)  == IsVolume(b) /\ ~\E v \in m.vols : v.name = b.source[1] /\ (v.readonly => b.ro)
MergedDir(b) == IF IsVolume(b) THEN [b EXCEPT !.source = <<"/">> \o VolumeDir(b.source[1], "merged")] ELSE b
Translated(o) == IF o = <<>> THEN o ELSE <<[k \in DOMAIN o[1] |-> MergedDir(o[1][k])]>>
Listed(o)    == IF o = <<>> THEN {} ELSE ToSet(o[1])
VolumeError(c, m) == \E b \in Listed(c.cfg.mounts) \cup Listed(c.cfg.binds) \cup Listed(c.cfg.bindsAdd) : BadBind(b, m)
updateMountsAndBindsFromVolumes(c) == [c.cfg EXCEPT !.binds = Translated(@), !.bindsAdd = Translated(@)]

(* outputImage: the OCI config, and what is to be done around the container. *)
Command(img, v) == [name |-> img, v |-> v]
OCIOf(c, m, v) == ConfigToOCI(Command(c.image, v), Labels[c.image].cfg, updateMountsAndBindsFromVolumes(c), idMap(m))
OCIFails(c, m) == VolumeError(c, m) \/ BadLabel(Labels[c.image]) \/ OCIError(Labels[c.image].cfg, updateMountsAndBindsFromVolumes(c), idMap(m))
RuntimeOf(c)   == assignRuntime(Labels[c.image].cfg, c.cfg)

(* ImageBundle: the files of the image, unless they are in the tar already, *)
(* config.json, the directories to mount on, and runtime.json, which says   *)
(* where the files are.                                                    *)
Ordinal        == <<"000", "001", "002">>
BundleDir(s, i, c) == IF s = "services" THEN <<"containers", s, c.name>> ELSE <<"containers", s, Ordinal[i], c.name>>
Extract(oci)   == IF oci.readonly THEN "rootfs" ELSE "lower"
AlwaysRootfs(dir, oci) == Append(dir, "rootfs")   \* faulty: where a writable image is not
RootOf(dir, oci)       == Append(dir, Extract(oci))
ImageBundle(s, i, c, oci, runtime, v, elsewhere) ==
  LET dir  == BundleDir(s, i, c)
      loc  == <<s, i>>
      root == IF elsewhere = <<>> THEN RootOf(dir, oci) ELSE elsewhere
      dirs == IF ~oci.readonly THEN <<"tmp", "rootfs">> ELSE IF elsewhere # <<>> THEN <<"rootfs">> ELSE <<>>
      cfg  == [Data("config", c.image, <<>>) EXCEPT !.oci = oci]
      rt   == [Data(IF oci.readonly THEN "bind" ELSE "overlay", c.image, <<>>) EXCEPT !.root = root, !.runtime = runtime]
  IN  (IF elsewhere = <<>> THEN ImageTar(loc, c.image, v, Append(dir, Extract(oci)), FALSE) ELSE tarPrefix(dir, c.image, loc))
      \o <<Entry(Append(dir, "config.json"), c.image, loc, cfg)>>
      \o [k \in 1..Len(dirs) |-> EmptyDir(Append(dir, dirs[k]), c.image, loc)]
      \o <<Entry(Append(dir, "runtime.json"), c.image, loc, rt)>>

(* filesystem: a file, or the config as metadata.                          *)
FileEntries(f, i) == tarPrefix(Front(f.path), "linuxkit.files", <<"files", i>>)
                     \o <<Entry(f.path, "linuxkit.files", <<"files", i>>, Data(f.kind, f.contents, <<>>))>>

(* extractPackageFilesFromTar: what was recorded with the image and the     *)
(* location.                                                               *)
extractPackageFilesFromTar(es, img, loc) == SelectSeq(es, LAMBDA e : e.src = img /\ e.loc = loc)
-----------------------------------------------------------------------------
(* The command *)

NoCommand == [ymls |-> <<>>, formats |-> <<>>, input |-> "", output |-> "", pull |-> FALSE, sbom |-> FALSE]
Idle == [pc |-> "idle", i |-> 1, cmd |-> NoCommand, m |-> NoConfig, old |-> NoConfig, dup |-> [n \in {} |-> <<>>], oci |-> NoOCI, runtime |-> NoRuntime,
         sboms |-> <<>>, formats |-> <<>>, file |-> 1, stable |-> TRUE, result |-> "none"]
NoFile == [build |-> 0, whole |-> TRUE, maker |-> TRUE]
MkFiles == <<"kernel", "initrd", "cmdline">>

Init ==
  /\ registry = [i \in Images |-> 1] /\ cache = [i \in Images |-> 0]
  /\ tars = [n \in {} |-> NoTar] /\ run = Idle
  /\ out = [f \in {"kernel", "initrd", "cmdline", "disk", "rootfs"} |-> NoFile]
  /\ mkimage = [f \in ToSet(MkFiles) |-> "none"]
  /\ counts = [builds |-> 0, moves |-> 0, faults |-> 0]

Streamable(f) == f \in {"tar", "docker"}
Stream        == Streamable(run.cmd.formats[1])
W             == IF Stream THEN run.cmd.output ELSE "tmp"
To(l)         == [run EXCEPT !.pc = l]
Go(r)         == run' = r
Ended(res)    == [run EXCEPT !.pc = "idle", !.result = res]
NoTemp        == [n \in DOMAIN tars \ {"tmp"} |-> tars[n]]
Fail          == Go(Ended("error")) /\ tars' = NoTemp

buildCmd ==
  /\ run.pc = "idle" /\ counts.builds < MaxBuilds
  /\ counts' = [counts EXCEPT !.builds = @ + 1]
  /\ \E c \in Commands :
       Go(LET new == [Idle EXCEPT !.cmd = c, !.formats = c.formats] IN
          IF Len(c.formats) > 1 /\ \E k \in DOMAIN c.formats : Streamable(c.formats[k]) THEN [new EXCEPT !.result = "error"]
          ELSE [new EXCEPT !.pc = IF Streamable(c.formats[1]) THEN "open" ELSE "validate"])
  /\ UNCHANGED <<registry, cache, tars, out, mkimage>>

(* ValidateFormats, ensureLinuxkitImage: the disk formats need an image     *)
(* that is built once and kept; it is there if its three files are.         *)
Exists        == \A f \in ToSet(MkFiles) : mkimage[f] # "none"
NeedsMkimage  == "aws" \in ToSet(run.cmd.formats)
ValidateFormats ==
  /\ run.pc = "validate"
  /\ Go(IF NeedsMkimage /\ ~Exists THEN To("mkimage") ELSE IF run.m = NoConfig THEN To("open") ELSE To("format"))
  /\ UNCHANGED <<registry, cache, tars, out, mkimage, counts>>

(* writeKernelInitrd: each file in turn is truncated and written.           *)
CmdlineFirst(k) == <<"cmdline", "kernel", "initrd">>[k]   \* faulty: what is looked at last is written first
MkFile(k)       == MkFiles[k]
Place(n)        == (n + 1) \div 2
Truncates(n)    == n % 2 = 1
writeKernelInitrd ==
  /\ run.pc = "mkimage"
  /\ mkimage' = [mkimage EXCEPT ![MkFile(Place(run.file))] = IF Truncates(run.file) THEN "torn" ELSE "whole"]
  /\ Go(IF run.file = 6 THEN [To("validate") EXCEPT !.file = 1] ELSE [run EXCEPT !.file = @ + 1])
  /\ UNCHANGED <<registry, cache, tars, out, counts>>

(* The output file is created, the yaml files are read, and only then is    *)
(* the input compared with the output.  Build looks for the metadata.       *)
Created     == IF Stream THEN (run.cmd.output :> NoTar) @@ tars ELSE tars
OldConfig(m) ==
  IF run.cmd.input # "" /\ MetaPath(m) # <<>> /\ MetaPath(tars[run.cmd.input].meta) = MetaPath(m) THEN tars[run.cmd.input].meta ELSE NoConfig
InputFails(m) ==
  /\ run.cmd.input # "" /\ MetaPath(m) # <<>>
  /\ run.cmd.input \notin DOMAIN tars \/ ~uniqueVolumes(tars[run.cmd.input].meta)
Open ==
  /\ run.pc = "open"
  /\ LET m == Merged(run.cmd.ymls) IN
     IF run.cmd.input # "" /\ run.cmd.pull THEN Go(Ended("error")) /\ UNCHANGED tars
     ELSE IF BadConfig(run.cmd.ymls) \/ (Stream /\ run.cmd.input = run.cmd.output) \/ InputFails(m)
     THEN Go(Ended("error")) /\ tars' = Created
     ELSE Go([To("kernel") EXCEPT !.m = m, !.old = OldConfig(m)]) /\ tars' = (W :> NoTar) @@ tars
  /\ UNCHANGED <<registry, cache, out, mkimage, counts>>
-----------------------------------------------------------------------------
(* Build *)

(* ImagePull, see CacheStore.                                              *)
Version(img) == IF img = "" THEN 0 ELSE IF run.cmd.pull \/ cache[img] = 0 THEN registry[img] ELSE cache[img]
Pulled(img)  == cache' = IF img = "" THEN cache ELSE [cache EXCEPT ![img] = Version(img)]

In           == tars[run.cmd.input].entries
Written      == tars[W].entries
Write(es)    == tars' = [tars EXCEPT ![W].entries = @ \o es]
Reuse(img, loc) == Write(extractPackageFilesFromTar(In, img, loc)) /\ UNCHANGED cache
Scanned(r, img)   == [r EXCEPT !.sboms = IF run.cmd.sbom THEN Append(@, img) ELSE @]

(* The sections, in their order; the files, and so the metadata, are last.  *)
FilesEarly(s)  == CASE s = "onboot" -> "files" [] s = "files" -> "onshutdown" [] s = "onshutdown" -> "services" [] OTHER -> "close"   \* faulty
Following(s)   == CASE s = "onboot" -> "onshutdown" [] s = "onshutdown" -> "services" [] s = "services" -> "files" [] OTHER -> "close"
NextSection(r) == [r EXCEPT !.pc = Following(run.pc), !.i = 1]
NextItem(r)    == [r EXCEPT !.i = @ + 1]

Kernel ==
  /\ run.pc = "kernel"
  /\ LET k == UpdateImages(run.m).kernel IN
     \/ k.image = "" /\ Go(To("init")) /\ UNCHANGED <<tars, cache>>
     \/ k.image # "" /\ k.image = run.old.kernel.image /\ Go(To("init")) /\ Reuse(k.image, <<"kernel", 0>>)
     \/ /\ k.image # "" /\ k.image # run.old.kernel.image /\ Pulled(k.image)
        /\ IF k.image \in KernelImages THEN Write(KernelEntries(k, Version(k.image))) /\ Go(Scanned(To("init"), k.image)) ELSE Fail
  /\ UNCHANGED <<registry, out, mkimage, counts>>

InitImages ==
  /\ run.pc = "init"
  /\ LET i == run.i IN
     \/ i > Len(run.m.init) /\ Write(WriteAPKDB(Written)) /\ Go([To("volumes") EXCEPT !.i = 1]) /\ UNCHANGED cache
     \/ /\ i <= Len(run.m.init)
        /\ LET img == ReferenceExpand(run.m.init[i]) IN
           IF Len(run.old.init) >= i /\ run.old.init[i] = img
           THEN Reuse(img, <<"init", i>>) /\ Go(NextItem(run))
           ELSE Pulled(img) /\ Write(ImageTar(<<"init", i>>, img, Version(img), <<>>, TRUE)) /\ Go(NextItem(Scanned(run, img)))
  /\ UNCHANGED <<registry, out, mkimage, counts>>

(* An unchanged volume is looked for at another location than it is        *)
(* written, and by its name, not its reference.                            *)
Volumes ==
  /\ run.pc = "volumes"
  /\ LET i == run.i IN
     \/ i > Len(run.m.volumes) /\ Go([To("onboot") EXCEPT !.i = 1]) /\ UNCHANGED <<tars, cache>>
     \/ /\ i <= Len(run.m.volumes)
        /\ LET vol == run.m.volumes[i] IN
           IF run.old # NoConfig /\ Len(run.old.volumes) >= i /\ run.old.volumes[i].image = vol.image
           THEN Reuse(vol.image, <<"volumes", i>>) /\ Go(NextItem(run))
           ELSE LET ref == ReferenceExpand(vol.image) IN
                /\ Pulled(ref) /\ Write(VolumeEntries(vol, i, Version(ref)))
                /\ Go(NextItem(IF vol.image # "" /\ vol.format # "oci" THEN Scanned(run, ref) ELSE run))
  /\ UNCHANGED <<registry, out, mkimage, counts>>

(* The containers: an unchanged one is copied; for another, the config of   *)
(* the image is read first and its files later.  Equal expands the names of *)
(* both images in place, so that what is copied is found by the reference.  *)
Sections    == {"onboot", "onshutdown", "services"}
Item        == Full(run.m[run.pc])[run.i]
Equal       == Len(run.old[run.pc]) >= run.i /\ run.old[run.pc][run.i] = Item
AddContainer ==
  /\ run.pc \in Sections /\ run.oci = NoOCI
  /\ \/ run.i > Len(run.m[run.pc]) /\ Go(NextSection(run)) /\ UNCHANGED <<tars, cache>>
     \/ run.i <= Len(run.m[run.pc]) /\ Equal /\ Reuse(Item.image, <<run.pc, run.i>>) /\ Go(NextItem(run))
     \/ /\ run.i <= Len(run.m[run.pc]) /\ ~Equal /\ Pulled(Item.image)
        /\ IF OCIFails(Item, run.m) THEN Fail
           ELSE Go([run EXCEPT !.oci = OCIOf(Item, run.m, Version(Item.image)), !.runtime = RuntimeOf(Item)]) /\ UNCHANGED tars
  /\ UNCHANGED <<registry, out, mkimage, counts>>

Bundle ==
  /\ run.pc \in Sections /\ run.oci # NoOCI
  /\ LET img  == Item.image
         done == NextItem([run EXCEPT !.oci = NoOCI, !.runtime = NoRuntime])
     IN  IF img \in DOMAIN run.dup
         THEN Write(ImageBundle(run.pc, run.i, Item, run.oci, run.runtime, 0, run.dup[img])) /\ Go(done) /\ UNCHANGED cache
         ELSE /\ Pulled(img) /\ Write(ImageBundle(run.pc, run.i, Item, run.oci, run.runtime, Version(img), <<>>))
              /\ Go(Scanned([done EXCEPT !.dup = (img :> RootOf(BundleDir(run.pc, run.i, Item), run.oci)) @@ @], img))
  /\ UNCHANGED <<registry, out, mkimage, counts>>

Files ==
  /\ run.pc = "files"
  /\ \/ run.i > Len(run.m.files) /\ Go(NextSection(run)) /\ UNCHANGED tars
     \/ /\ run.i <= Len(run.m.files) /\ Go(NextItem(run))
        /\ LET f == run.m.files[run.i] IN
           tars' = [tars EXCEPT ![W].entries = @ \o FileEntries(f, run.i),
                                ![W].meta = IF f.kind = "metadata" THEN NewConfig(UpdateImages(run.m)) ELSE @]
  /\ UNCHANGED <<registry, cache, out, mkimage, counts>>

(* The Dockerfile and the sbom of all that was unpacked now.               *)
DockerEntry == IF run.cmd.formats[1] = "docker" THEN <<Entry(<<"Dockerfile">>, "", <<"", 0>>, Data("dockerfile", "", <<>>))>> ELSE <<>>
SbomEntry   == IF run.cmd.sbom THEN <<Entry(<<"sbom">>, "", <<"", 0>>, [Data("sbom", "", <<>>) EXCEPT !.root = run.sboms])>> ELSE <<>>
Close ==
  /\ run.pc = "close"
  /\ tars' = [tars EXCEPT ![W].entries = @ \o DockerEntry \o SbomEntry, ![W].built = cache,
                          ![W].direct = run.stable /\ run.old = NoConfig]
  /\ Go(IF Stream THEN Ended("ok") ELSE To("validate"))
  /\ UNCHANGED <<registry, cache, out, mkimage, counts>>
-----------------------------------------------------------------------------
(* Formats: from the tar, each format in turn.  A file is truncated or      *)
(* removed and then written, by a container (which may fail) for disks and  *)
(* root filesystems.  Without a kernel, or with an empty command line,      *)
(* kernel+initrd does not touch the file that may be there.                 *)
HasKernel  == run.m.kernel.image # ""
outputKernelInitrd == <<"initrd">> \o (IF HasKernel THEN <<"kernel">> ELSE <<>>)
                      \o (IF HasKernel /\ run.m.kernel.cmdline # "" THEN <<"cmdline">> ELSE <<>>)
outputKernelImage  == (IF HasKernel THEN <<"cmdline", "kernel">> ELSE <<>>) \o <<"rootfs">>
outputImg          == <<"disk">>
OutputFiles(f)     == CASE f = "kernel+initrd"   -> outputKernelInitrd
                        [] f = "kernel+squashfs" -> outputKernelImage
                        [] OTHER                 -> outputImg
MkimageWorks == mkimage["kernel"] = "whole" /\ mkimage["initrd"] = "whole"
Produced(f)  == [build |-> counts.builds, whole |-> TRUE, maker |-> f # "aws" \/ MkimageWorks]

Formats ==
  /\ run.pc = "format"
  /\ \/ run.formats = <<>> /\ Go(Ended("ok")) /\ tars' = NoTemp /\ UNCHANGED out
     \/ /\ run.formats # <<>> /\ UNCHANGED tars
        /\ LET f     == Head(run.formats)
               files == OutputFiles(f)
               x     == files[Place(run.file)]
           IN  /\ out' = [out EXCEPT ![x] = IF Truncates(run.file) THEN [NoFile EXCEPT !.whole = FALSE] ELSE Produced(f)]
               /\ Go(IF run.file = 2 * Len(files) THEN [run EXCEPT !.file = 1, !.formats = Tail(@)] ELSE [run EXCEPT !.file = @ + 1])
  /\ UNCHANGED <<registry, cache, mkimage, counts>>

dockerRunFails ==
  /\ run.pc = "format" /\ run.formats # <<>> /\ ~Truncates(run.file) /\ counts.faults < MaxFaults
  /\ OutputFiles(Head(run.formats))[Place(run.file)] \in {"disk", "rootfs"}
  /\ Fail /\ counts' = [counts EXCEPT !.faults = @ + 1]
  /\ UNCHANGED <<registry, cache, out, mkimage>>
-----------------------------------------------------------------------------
(* The process is killed; the temporary file stays, under a name that is not *)
(* used again.                                                              *)
Crash ==
  /\ run.pc # "idle" /\ counts.faults < MaxFaults
  /\ counts' = [counts EXCEPT !.faults = @ + 1]
  /\ Fail /\ UNCHANGED <<registry, cache, out, mkimage>>

(* Someone pushes an image; another command pulls it into the cache.        *)
Moves == counts.moves < MaxMoves /\ counts' = [counts EXCEPT !.moves = @ + 1]
Pushed ==
  /\ Moves /\ \E i \in Moving : registry' = [registry EXCEPT ![i] = @ + 1]
  /\ run' = [run EXCEPT !.stable = FALSE] /\ UNCHANGED <<cache, tars, out, mkimage>>
OtherPull ==
  /\ Moves /\ \E i \in Moving : cache[i] # registry[i] /\ cache' = [cache EXCEPT ![i] = registry[i]]
  /\ run' = [run EXCEPT !.stable = FALSE] /\ UNCHANGED <<registry, tars, out, mkimage>>

Next ==
  \/ buildCmd \/ ValidateFormats \/ writeKernelInitrd \/ Open
  \/ Kernel \/ InitImages \/ Volumes \/ AddContainer \/ Bundle \/ Files \/ Close
  \/ Formats \/ dockerRunFails \/ Crash \/ Pushed \/ OtherPull
Spec == Init /\ [][Next]_vars
-----------------------------------------------------------------------------
(* Properties *)

Complete  == run.m # NoConfig /\ (IF Stream THEN run.result = "ok" ELSE run.pc \in {"validate", "mkimage", "format"})
Tree      == Unpacked(Written)
Holds(t, p, d) == p \in DOMAIN t /\ t[p] = d
At(s)     == DOMAIN run.m[s]
Config    == UpdateImages(run.m)
Where(c, s, i, f) == Append(BundleDir(s, i, c), f)

(* An input tar stands for what would be unpacked if the images have not    *)
(* changed since, the kernel is started the same way, a container that is   *)
(* kept uses files that are kept and has the id it had; and volumes are not *)
(* kept.                                                                   *)
Kept(s, i)  == Len(run.old[s]) >= i /\ Len(Config[s]) >= i /\ run.old[s][i] = Config[s][i]
SameImages == \A i \in Images : tars[run.cmd.input].built[i] \in {0, cache[i]}
SameInput ==
  \/ run.old = NoConfig
  \/ /\ tars[run.cmd.input].direct /\ SameImages /\ run.old.kernel = Config.kernel
     /\ run.old.volumes = <<>> /\ idMap(run.old) = idMap(Config)
     /\ \A s \in Sections : \A i \in At(s) : Kept(s, i) =>
          \A r \in Sections : \A k \in DOMAIN run.old[r] : run.old[r][k].image = Config[s][i].image =>
            LET root == Unpacked(In)[Where(Config[s][i], s, i, "runtime.json")].root IN
            root = RootOf(BundleDir(r, k, run.old[r][k]), Unpacked(In)[Where(run.old[r][k], r, k, "config.json")].oci) => Kept(r, k)
Undisturbed == Complete /\ run.stable /\ SameInput

(* A finished build holds what its config names: the kernel and its command *)
(* line, the last init image's files, for each container the OCI config of  *)
(* its options and its image, and, where runtime.json says so, the files of *)
(* that version of the image, each volume, and each file; also when most of *)
(* it was copied from an input tar.  So the parts of a bundle, which are    *)
(* read from the cache at different times, belong together, unless another *)
(* pull has moved an image in between.  The package database of the root   *)
(* lists what each init image installed, unpacked now or copied, and the    *)
(* sbom all that was unpacked, if nothing was copied.                      *)
Faithful ==
  Undisturbed =>
    LET t == Tree IN
    /\ HasKernel => /\ Holds(t, <<"boot", "kernel">>, Data("kernel", Config.kernel.image, <<cache[Config.kernel.image]>>))
                    /\ Holds(t, <<"boot", "cmdline">>, Data("cmdline", Config.kernel.cmdline, <<>>))
    /\ Config.init # <<>> => Holds(t, <<"bin">>, Data("bin", Last(Config.init), <<cache[Last(Config.init)]>>))
    /\ \A s \in Sections : \A i \in At(s) :
         LET c == Config[s][i] IN
         /\ Where(c, s, i, "config.json") \in DOMAIN t /\ Where(c, s, i, "runtime.json") \in DOMAIN t
         /\ t[Where(c, s, i, "config.json")].oci = OCIOf(c, Config, cache[c.image])
         /\ Holds(t, Append(t[Where(c, s, i, "runtime.json")].root, "bin"), Data("bin", c.image, <<cache[c.image]>>))
         /\ Where(c, s, i, "rootfs") \in DOMAIN t
    /\ \A k \in DOMAIN Config.volumes : VolumeDir(Config.volumes[k].name, "merged") \in DOMAIN t
    /\ \A k \in DOMAIN Config.files : Config.files[k].path \in DOMAIN t
    /\ Len(Config.init) > 1 => ToSet(Config.init) \subseteq ToSet(t[apkInstalledPath].root)
    /\ (run.cmd.sbom /\ run.old = NoConfig) =>
         \A k \in DOMAIN Written : Written[k].data.what = "bin" => Written[k].data.name \in ToSet(t[<<"sbom">>].root)

(* What the yaml file says of a container holds whatever the label of its   *)
(* image says, a label's options hold where the file says nothing, in the   *)
(* OCI config and, field by field, in runtime.json.  What a container may   *)
(* ever do includes all it starts with, and it may use the devices it is    *)
(* given.  A volume it is given is in the tar, and one that is read-only is *)
(* given read-only.                                                        *)
Says(o, x) == o # <<>> => x = o[1]
ConfigHonoured ==
  Complete => \A s \in Sections : \A i \in At(s) :
    LET c   == Config[s][i]
        oci == Tree[Where(c, s, i, "config.json")].oci
        lab == Labels[c.image].cfg
        rt  == Tree[Where(c, s, i, "runtime.json")].runtime
    IN  /\ Says(c.cfg.readonly, oci.readonly) /\ (c.cfg.readonly = <<>> => Says(lab.readonly, oci.readonly))
        /\ c.cfg.caps = << <<"none">> >> => oci.effective = <<>>
        /\ c.cfg.caps = <<>> /\ lab.caps # <<>> => ToSet(Expand(lab.caps[1])) \subseteq ToSet(oci.effective)
        /\ ToSet(oci.effective) \cup ToSet(oci.ambient) \subseteq oci.bounding
        /\ c.cfg.net \in {"host", "root"} => ~\E n \in oci.namespaces : n.type = "network"
        /\ \A d \in ToSet(oci.devices) : [type |-> d.type, num |-> d.num] \in ToSet(oci.resources)
        /\ \A f \in DOMAIN NoRuntime :
             /\ c.cfg.runtime # <<>> => Says(c.cfg.runtime[1][f], rt[f])
             /\ (c.cfg.runtime = <<>> \/ c.cfg.runtime[1][f] = <<>>) /\ lab.runtime # <<>> => Says(lab.runtime[1][f], rt[f])
        /\ \A v \in Config.vols : \A d \in DOMAIN oci.mounts :
             oci.mounts[d].source = <<"/">> \o VolumeDir(v.name, "merged") =>
               /\ v.readonly => oci.mounts[d].ro
               /\ Undisturbed => Tail(oci.mounts[d].source) \in DOMAIN Tree

(* A tar a build copies from was finished as far as the containers: a build *)
(* that failed or was killed leaves none that says what it holds.           *)
InputWhole ==
  run.old # NoConfig => \A s \in Sections : \A i \in DOMAIN run.old[s] :
    Where(run.old[s][i], s, i, "runtime.json") \in Paths(In)

(* After a successful build, each file of each format asked for is of this  *)
(* build, and disks were made by an image whose kernel and initrd were      *)
(* whole, though an earlier build may have been killed while it made them.  *)
OutputsMade ==
  run.result = "ok" /\ ~Stream => \A k \in DOMAIN run.cmd.formats : \A x \in ToSet(OutputFiles(run.cmd.formats[k])) :
    out[x] = [build |-> counts.builds, whole |-> TRUE, maker |-> TRUE]

(* With the same yaml file and images, a build from an input tar gives what *)
(* was in it.                                                              *)
InputTarSame ==
  Complete /\ run.old # NoConfig /\ run.old = NewConfig(Config) /\ ~run.cmd.sbom /\ tars[run.cmd.input].direct /\ SameImages =>
    Tree = Unpacked(In)
===============================================================================
