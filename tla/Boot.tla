--------------------------------- MODULE Boot ---------------------------------
(***************************************************************************)
(* A LinuxKit machine from power on to power off (pkg/init): /init moves   *)
(* the root file system into a tmpfs, rc.init mounts the system's file     *)
(* systems and runs /etc/init.d, of which the onboot part runs the onboot  *)
(* containers one after the other (service/runc.go) and the containerd     *)
(* part starts the services; rc.shutdown runs the onshutdown containers,   *)
(* ends all processes, syncs, unmounts and halts.  The onboot containers   *)
(* are the disk programs of module Disks and the metadata program of       *)
(* module Metadata.  The power may fail at any time; the disks then keep   *)
(* what has been written to them.                                          *)
(***************************************************************************)
EXTENDS Disks, Metadata

CONSTANTS
  Machines,      \* image, disk arguments, disks and platform of a machine
  Onshutdown,    \* the onshutdown section
  Root,          \* the entries of the initramfs in the order of a walk
  MaxSize,       \* bound: a disk is not enlarged beyond it
  MaxBoots, MaxCrashes, MaxWrites

(* A file system that is not the whole drive's is in a partition.          *)
ASSUME MachinesAssumption ==
  \A m \in Machines :
    /\ m.disk \in [Names -> DriveStates] /\ m.opts \in Options
    /\ \A d \in Names : m.disk[d].fs.start > 0 => m.disk[d].label # "none"
ASSUME PartitionsAssumption ==
  \A m \in Machines : \A d \in Names :
    LET x == m.disk[d] IN x.fs.start > 0 => \E i \in DOMAIN x.parts : x.parts[i].start = x.fs.start
(* A partition is in a table, and mkfs has filled it.                      *)
ASSUME FilledAssumption ==
  \A m \in Machines : \A d \in Names :
    LET x == m.disk[d] IN
    /\ x.label = "none" => x.parts = <<>>
    /\ \A i \in DOMAIN x.parts : x.fs.start = x.parts[i].start => x.fs.size = x.parts[i].size
ASSUME PlatformsAssumption == \A m \in Machines : m.platform.name \in Providers

VARIABLES
  stage,     \* what runs: one of /init, rc.init, init.d, ..., or "off"
  image,     \* its onboot section, whether it is run from memory, cgroup version
  n, step,   \* runcInit: the container, and what is done for it
  created,   \* containers created and never run or removed
  old, new,  \* the entries of the initramfs, and of the tmpfs that replaces it
  points,    \* mount points that can be reached
  alive,     \* processes of services
  dirty,     \* how much of what the services wrote is only in memory
  boots, crashes

sysVars == <<stage, image, n, step, created, old, new, points, alive, dirty, boots, crashes>>
vars == <<sysVars, diskVars, mdVars>>

Init ==
  /\ \E m \in Machines : disk = m.disk /\ opts = m.opts /\ image = m.image /\ platform = m.platform
  /\ mounted = {} /\ prog = "none" /\ at = "start" /\ drive = Drives[1] /\ part = NoPart /\ done = {} /\ faults = 0
  /\ providers = <<>> /\ md = "idle" /\ look = 1 /\ userdata = NoUserData
  /\ config = NoFiles /\ hostname = "none" /\ lost = 0
  /\ stage = "off" /\ n = 1 /\ step = "bundle" /\ created = {}
  /\ old = {} /\ new = {} /\ points = {} /\ alive = {}
  /\ dirty = [d \in Names |-> 0] /\ boots = 0 /\ crashes = 0

To(s) == stage' = s /\ n' = 1 /\ step' = "bundle" /\ UNCHANGED <<image, boots, crashes>>

(* The machine is switched on; a virtual disk may have been enlarged.      *)
PowerOn ==
  /\ stage = "off" /\ boots < MaxBoots
  /\ stage' = "init" /\ boots' = boots + 1
  /\ \E s \in [Names -> {0, 1}] :
       disk' = [d \in Names |-> [disk[d] EXCEPT !.size = IF @ < MaxSize THEN @ + s[d] ELSE @]]
  /\ old' = DOMAIN Root /\ new' = {}
  /\ UNCHANGED <<image, n, step, created, points, alive, dirty, crashes, mdVars>>
  /\ UNCHANGED <<mounted, opts, prog, at, drive, part, done, faults>>
-----------------------------------------------------------------------------
(* /init: copyFS.  An entry of Root is a directory, file, link or device,   *)
(* or a directory of another file system.                                  *)
Fault  == faults < MaxFaults /\ faults' = faults + 1
OnRoot == {e \in DOMAIN Root : Root[e] # "other"}
RootStep(from, to) ==
  /\ stage = from /\ To(to)
  /\ UNCHANGED <<created, points, alive, dirty, diskVars, mdVars>>

(* main: a root file system that is not in memory is left alone.           *)
InitMain ==
  \/ image.memory  /\ RootStep("init", "directories") /\ UNCHANGED <<old, new>>
  \/ ~image.memory /\ RootStep("init", "rcinit") /\ new' = OnRoot /\ UNCHANGED old

CopyDirectories ==
  RootStep("directories", "files") /\ new' = {e \in DOMAIN Root : Root[e] \in {"dir", "other"}} /\ UNCHANGED old

(* Everything but directories is copied; a file's original is removed.     *)
FilesOnly == {e \in DOMAIN Root : Root[e] = "file"}   \* faulty: links and devices are forgotten
ToMove    == {e \in DOMAIN Root : Root[e] \notin {"dir", "other"}}
MoveFiles ==
  RootStep("files", "delete") /\ new' = new \cup ToMove /\ old' = old \ {e \in ToMove : Root[e] = "file"}

(* What remains is deleted, but for other file systems.                    *)
DeleteRest == RootStep("delete", "switch") /\ old' = old \ OnRoot /\ UNCHANGED new

(* The tmpfs is moved to / and /sbin/init executed, which runs rc.init.     *)
SwitchRoot == RootStep("switch", "rcinit") /\ UNCHANGED <<old, new>>

(* An error in copyFS is fatal to process 1.                               *)
CopyFails ==
  /\ stage \in {"directories", "files", "delete", "switch"}
  /\ Fault /\ To("panic")
  /\ UNCHANGED <<old, new, points, created, alive, dirty, mdVars>>
  /\ UNCHANGED <<disk, mounted, opts, prog, at, drive, part, done>>
-----------------------------------------------------------------------------
(* rc.init *)

(* The mounts of doMounts, each a path, in their order.                    *)
Mounts ==
  << <<"proc">>, <<"run">>, <<"tmp">>, <<"var">>, <<"dev">>, <<"dev", "mqueue">>, <<"dev", "shm">>,
     <<"dev", "pts">>, <<"sys">>, <<"sys", "kernel", "security">>, <<"sys", "kernel", "debug">>,
     <<"sys", "kernel", "config">>, <<"sys", "fs", "fuse">>, <<"sys", "fs", "selinux">>, <<"sys", "fs", "pstore">>,
     <<"sys", "fs", "bpf">>, <<"sys", "firmware", "efivars">>, <<"proc", "sys", "fs", "binfmt_misc">> >>
cgroupList == << <<"sys", "fs", "cgroup">>, <<"sys", "fs", "cgroup", "memory">>, <<"sys", "fs", "cgroup", "systemd">> >>
doMounts(v1)  == Mounts \o (IF v1 THEN cgroupList ELSE <<cgroupList[1]>>)

(* A mount hides what was mounted below its path.                          *)
Reachable(m) == {m[i] : i \in {j \in DOMAIN m : ~\E k \in DOMAIN m : k > j /\ Under(m[k], m[j])}}

(* The name in /etc/hostname is set, or one made from the address of eth0.  *)
doHostname == "rc.init"

(* main up to runInit: the mounts, the devices and the settings.            *)
RcInit ==
  /\ stage = "rcinit" /\ To("onboot")
  /\ points' = Reachable(doMounts(image.v1))
  /\ hostname' = doHostname
  /\ UNCHANGED <<old, new, created, alive, dirty, diskVars>>
  /\ UNCHANGED <<platform, providers, md, look, userdata, config, lost>>
-----------------------------------------------------------------------------
(* service: onboot and onshutdown (runcInit) *)

Section == IF stage = "onboot" THEN image.onboot ELSE Onshutdown
Running == stage \in {"onboot", "onshutdown"}
More    == n <= Len(Section)
NextBundle == n' = n + 1 /\ step' = "bundle"
Stays      == UNCHANGED <<stage, image, old, new, points, alive, dirty, boots, crashes>>

(* For a bundle: prepareFilesystem and the opening of its logs, runc create, *)
(* prepareProcess, runc start.  When one fails the next bundle has its turn; *)
(* what was created stays.                                                  *)
Follows == [bundle |-> "create", create |-> "process", process |-> "start", start |-> "run"]
Prepare ==
  /\ Running /\ More /\ step \in {"bundle", "create", "process"}
  /\ step' = Follows[step]
  /\ Stays /\ UNCHANGED <<n, created, diskVars, mdVars>>

PrepareFails ==
  /\ Running /\ More /\ step \in DOMAIN Follows
  /\ Fault /\ NextBundle
  /\ created' = IF step \in {"process", "start"} THEN created \cup {Section[n]} ELSE created
  /\ Stays /\ UNCHANGED mdVars
  /\ UNCHANGED <<disk, mounted, opts, prog, at, drive, part, done>>

(* getRuntimeConfig: a runtime.json that cannot be read ends the section.   *)
BadConfig ==
  /\ Running /\ More /\ step = "bundle"
  /\ Fault /\ To(IF stage = "onboot" THEN "containerd" ELSE "term")
  /\ UNCHANGED <<old, new, points, created, alive, dirty, mdVars>>
  /\ UNCHANGED <<disk, mounted, opts, prog, at, drive, part, done>>

Programs == {"format", "extend", "mount"}
Launch ==
  /\ Running /\ More /\ step = "start"
  /\ step' = "run"
  /\ IF Section[n] \in Programs THEN prog' = Section[n] ELSE UNCHANGED prog
  /\ IF Section[n] = "metadata" THEN \E a \in Arguments : Start(a) ELSE UNCHANGED <<providers, md>>
  /\ Stays /\ UNCHANGED <<n, created, disk, mounted, opts, at, drive, part, done, faults>>
  /\ UNCHANGED <<platform, look, userdata, config, hostname, lost>>

(* The container has ended: its root file system is unmounted, and its log *)
(* is copied to the console.                                               *)
Waited     == prog = "none" /\ md = "idle"
Ended ==
  /\ Running /\ step = "run" /\ Waited
  /\ NextBundle
  /\ Stays /\ UNCHANGED <<created, diskVars, mdVars>>

SectionDone ==
  /\ Running /\ ~More /\ step = "bundle"
  /\ To(IF stage = "onboot" THEN "containerd" ELSE "term")
  /\ UNCHANGED <<old, new, points, created, alive, dirty, diskVars, mdVars>>
-----------------------------------------------------------------------------
(* The services, and rc.shutdown (doShutdown) *)

(* What the services write is in memory until the kernel writes it back.   *)
Quiet(s, t) == stage = s /\ To(t) /\ UNCHANGED <<old, new, points, created, mdVars, part, opts, prog, at, drive, done, faults>>
StartServices == Quiet("containerd", "up") /\ alive' = {"service"} /\ UNCHANGED <<dirty, disk, mounted>>

Write ==
  /\ alive # {}
  /\ \E d \in mounted : disk[d].fs.data + dirty[d] < MaxWrites /\ dirty' = [dirty EXCEPT ![d] = @ + 1]
  /\ UNCHANGED <<stage, image, n, step, created, old, new, points, alive, boots, crashes, diskVars, mdVars>>

Flush(ds) ==
  /\ disk'  = [d \in Names |-> IF d \in ds THEN [disk[d] EXCEPT !.fs.data = @ + dirty[d]] ELSE disk[d]]
  /\ dirty' = [d \in Names |-> IF d \in ds THEN 0 ELSE dirty[d]]
WriteBack ==
  /\ \E d \in mounted : dirty[d] > 0 /\ Flush({d})
  /\ UNCHANGED <<stage, image, n, step, created, old, new, points, alive, boots, crashes, mdVars>>
  /\ UNCHANGED <<mounted, opts, prog, at, drive, part, done, faults>>

Shutdown  == Quiet("up", "onshutdown") /\ UNCHANGED <<alive, dirty, disk, mounted>>
Terminate == Quiet("term", "kill") /\ alive' \in SUBSET alive /\ UNCHANGED <<dirty, disk, mounted>>
Spared    == alive   \* faulty: processes that ignore SIGTERM are left
Killed    == {}
Kill      == Quiet("kill", "sync") /\ alive' = Killed /\ UNCHANGED <<dirty, disk, mounted>>
Sync      == Quiet("sync", "unmount") /\ Flush(mounted) /\ UNCHANGED <<alive, mounted>>
(* unmountAll goes through the mounts in the order they were made; one that *)
(* carries another is busy and stays.                                       *)
unmountAll == Quiet("unmount", "halt") /\ mounted' \in SUBSET mounted /\ UNCHANGED <<alive, dirty, disk>>

(* The power goes: what is in memory is lost, and what runs ends.          *)
Off ==
  /\ stage' = "off" /\ n' = 1 /\ step' = "bundle" /\ created' = {}
  /\ old' = {} /\ new' = {} /\ points' = {} /\ alive' = {}
  /\ dirty' = [d \in Names |-> 0]
  /\ mounted' = {} /\ prog' = "none" /\ at' = "start" /\ drive' = Drives[1] /\ part' = NoPart /\ done' = {}
  /\ providers' = <<>> /\ md' = "idle" /\ look' = 1 /\ userdata' = NoUserData /\ config' = NoFiles /\ hostname' = "none"
  /\ UNCHANGED <<image, boots, disk, opts, faults, platform, lost>>
Halt  == stage = "halt" /\ Off /\ UNCHANGED crashes
Crash == stage # "off" /\ crashes < MaxCrashes /\ Off /\ crashes' = crashes + 1
-----------------------------------------------------------------------------
RootMoves == InitMain \/ CopyDirectories \/ MoveFiles \/ DeleteRest \/ SwitchRoot
Runc      == Prepare \/ Launch \/ Ended \/ SectionDone
Programme == (Format_ \/ Extend_ \/ Mount) /\ UNCHANGED <<sysVars, mdVars>>
Asking    == MetadataStep /\ UNCHANGED <<sysVars, diskVars>>
ToolFault == ToolFails /\ UNCHANGED <<sysVars, mdVars>>
Stopping  == Terminate \/ Kill \/ Sync \/ unmountAll \/ Halt

Next ==
  \/ PowerOn \/ RootMoves \/ CopyFails \/ RcInit
  \/ Runc \/ PrepareFails \/ BadConfig \/ Programme \/ Asking \/ ToolFault
  \/ StartServices \/ Write \/ WriteBack \/ Shutdown \/ Stopping \/ Crash

Spec == Init /\ [][Next]_vars
(* The programs of the machine go on while the power is there.             *)
FairSpec ==
  /\ Spec /\ WF_vars(RootMoves) /\ WF_vars(RcInit) /\ WF_vars(Runc)
  /\ WF_vars(Programme) /\ WF_vars(Asking) /\ WF_vars(StartServices) /\ WF_vars(Stopping)
-----------------------------------------------------------------------------
(* No file system is ever replaced, nor does it lose what was written back  *)
(* to it, but on the drive that format -force was given: isEmptyDevice is   *)
(* right about every drive, whatever a power failure or an error in an      *)
(* earlier boot has left of its partition table.                            *)
NothingLost ==
  \A d \in Names :
    HasFs(d) /\ opts.force # d =>
      disk'[d].fs.start = disk[d].fs.start /\ disk'[d].fs.data >= disk[d].fs.data
DataSafe == [][NothingLost]_vars

(* As long as no tool fails and the power stays, a file system that was in  *)
(* a partition is in one that begins where it did, but while extend has the *)
(* table in hand, and but for the drive that format -force was given.       *)
Begins(d, s) == \E i \in DOMAIN disk[d].parts : disk[d].parts[i].start = s
InPart(d)    == disk[d].fs.start > 0 => Begins(d, disk[d].fs.start)
NoFailure    == crashes = 0 /\ faults = 0

PartitionKept ==
  (NoFailure /\ ~(prog = "extend" /\ at = "create")) => \A d \in Names \ {opts.force} : InPart(d)

(* What makes it inductive: format makes the file system where its          *)
(* partition begins, and extend has read where the one it deletes began.    *)
TablesKept ==
  /\ crashes \in Nat /\ faults \in Nat
  /\ \A d \in Names : OnePart(d) => DOMAIN disk[d].parts = {1}
  /\ prog = "format" /\ at \in {"wait", "mkfs"} => Begins(drive, First)
  /\ NoFailure => \A d \in Names \ {opts.force} :
       /\ InPart(d) \/ (prog = "extend" /\ at = "create" /\ drive = d)
       /\ prog = "extend" /\ at \in {"check", "delete", "create"} /\ drive = d /\ disk[d].fs.start > 0 =>
            part.start = disk[d].fs.start

(* When extend has ended without error, and no tool has failed nor the      *)
(* power, each drive with one Linux partition is used by the file system in *)
(* it to its last sector, or on a GPT, where extend takes the last sector   *)
(* for the first that is not usable, to the last but one; but for the drive *)
(* that format -force was given.                                            *)
Only(d)   == disk[d].parts[1]
Used(d)   == OnePart(d) /\ FsAt(d, Only(d))
Filled(d) == Used(d) => disk[d].fs.size = Only(d).size
Sized(d)  == Only(d).size \in {Rest(d, Only(d).start), Rest(d, Only(d).start) - IF disk[d].label = "gpt" THEN 1 ELSE 0}
Grown(d)  == Used(d) /\ Only(d).linux => Sized(d) /\ disk[d].fs.size = Only(d).size
Extended ==
  (stage = "onboot" /\ "extend" \in done /\ opts.stop /\ NoFailure) => \A d \in Names \ {opts.force} : Grown(d)

(* What makes it inductive: the drives that extend is past are done with,   *)
(* and a file system does not fill its partition only while it is resized;  *)
(* when extend runs again, what it makes anew is as large as what was.      *)
Past(d)     == \E i, j \in DOMAIN Drives : i < j /\ Drives[i] = d /\ Drives[j] = drive
Extends(ls) == prog = "extend" /\ at \in ls
Handled(d)  == "extend" \in done \/ (prog = "extend" /\ at # "start" /\ Past(d))
Growing(d)  ==
  /\ Filled(d) \/ (Extends({"activate", "resize"}) /\ drive = d)
  /\ Handled(d) => Grown(d)
  /\ (/\ "extend" \in done /\ drive = d /\ disk[d].fs.start = part.start
      /\ Extends({"check", "delete", "create", "activate", "resize"})) => disk[d].fs.size = Rest(d, part.start)
Tabulated(d) ==
  /\ disk[d].size \in Int
  /\ OnePart(d) => HasTable(d) /\ Only(d).start \in Int /\ Only(d).size \in Int
InHand ==
  /\ prog = "format" /\ at \in {"wait", "mkfs"} =>
       OnePart(drive) /\ Only(drive) = [start |-> First, size |-> Rest(drive, First), linux |-> TRUE]
  /\ prog = "extend" /\ at # "start" => drive \in Names
  /\ Extends({"check", "delete"}) => OnePart(drive) /\ part = Only(drive)
  /\ Extends({"check", "delete", "create"}) => HasTable(drive) /\ part.start \in Int
  /\ Extends({"activate", "resize", "recheck"}) =>
       OnePart(drive) /\ Only(drive).start = part.start /\ Only(drive).size = Rest(drive, part.start)
ExtendRight ==
  /\ stage = "off" => done = {}
  /\ \A d \in Names : Tabulated(d)
  /\ InHand
  /\ NoFailure /\ opts.stop => \A d \in Names \ {opts.force} : Growing(d)

(* What makes DataSafe inductive: a file system is found by blkid or has a  *)
(* table before it, so that the drive format works on has none, and gets a  *)
(* table before its file system; and a disk program begins at its start,    *)
(* when no other runs.                                                      *)
Tabled == \A d \in Names : HasFs(d) /\ disk[d].fs.start # 0 => HasTable(d)

Picked ==
  prog = "format" /\ at # "start" =>
    /\ drive \in Names
    /\ drive = opts.force \/ (at # "clear" /\ ~HasFs(drive))
    /\ at \in {"sfdisk", "wait", "mkfs"} => HasTable(drive)

OneProgram ==
  /\ prog # "none" => Running /\ step = "run"
  /\ prog = "none" => at = "start"

(* When rc.shutdown halts the machine, all that the services have written   *)
(* is on the disks: nothing writes after the sync, even where a file system *)
(* could not be unmounted.                                                  *)
SyncedAtHalt == stage = "halt" => \A d \in Names : dirty[d] = 0

(* What makes it inductive: only what is mounted is written to, by          *)
(* processes that are gone before the sync.                                 *)
WritersGone ==
  /\ stage \in {"sync", "unmount", "halt"} => alive = {}
  /\ \A d \in Names : d \in mounted \/ dirty[d] = 0
  /\ stage \in {"unmount", "halt"} => \A d \in Names : dirty[d] = 0

DisksOK ==
  /\ disk = [d \in Names |-> [size |-> disk[d].size, label |-> disk[d].label, parts |-> disk[d].parts, fs |-> disk[d].fs]]
  /\ \A d \in Names :
       /\ disk[d].fs = [start |-> disk[d].fs.start, size |-> disk[d].fs.size, data |-> disk[d].fs.data]
       /\ disk[d].fs.start \in Int /\ disk[d].fs.data \in Nat
  /\ dirty \in [Names -> Nat]
  /\ opts.label # "none" /\ opts.force \in Names \cup {"no"}

IInv == DisksOK /\ Tabled /\ Picked /\ OneProgram /\ WritersGone

(* /init loses no entry of the root file system, and rc.init starts with    *)
(* all of them in the root it runs in; whichever cgroup hierarchy is asked  *)
(* for, each of the mounts of rc.init can be reached: none hides another.   *)
RootReady ==
  /\ stage \notin {"off", "panic"} => OnRoot \subseteq old \cup new
  /\ stage \notin {"off", "panic", "init", "directories", "files", "delete", "switch"} => OnRoot \subseteq new
  /\ stage \in {"onboot", "containerd", "up"} => {Mounts[i] : i \in DOMAIN Mounts} \cup {cgroupList[1]} \subseteq points

(* What makes it inductive: what is in either root at each stage.           *)
RootMoved ==
  /\ stage \in {"init", "directories", "files"} => old = DOMAIN Root
  /\ stage = "files" => {e \in OnRoot : Root[e] = "dir"} \subseteq new
  /\ stage \notin {"off", "panic", "init", "directories", "files"} => OnRoot \subseteq new
  /\ stage \in {"onboot", "containerd", "up"} => points = Reachable(doMounts(image.v1))

(* A machine that is switched on comes up, unless its power fails or its    *)
(* root file system cannot be copied: no program of the onboot section, and *)
(* no failure of one, holds up the boot.                                    *)
ComesUp == stage = "init" ~> stage \in {"up", "off", "panic"}

(* After metadata has run, the host has the name that the user data give    *)
(* it, else the one the platform gives it, if the one or the other does;    *)
(* and the ssh keys that the platform's provider hands out are in           *)
(* /run/config, if no request was lost, it is the platform's own provider   *)
(* that was found, and the platform tells them and what Extract must have,  *)
(* whatever else it does not tell.                                          *)
Offers(p) == \E i \in DOMAIN Extract(p) : Extract(p)[i].file = Keys
Tells(p)  == \A i \in DOMAIN Extract(p) :
               Extract(p)[i].must \/ Extract(p)[i].file = Keys => Extract(p)[i].url \notin platform.lacks
NamedRight == Provider \in DOMAIN config /\ Hostname \in DOMAIN config => hostname = config[Hostname]
KeysDue    == lost = 0 /\ Tells(platform.name)
KeysThere  ==
  (KeysDue /\ Offers(platform.name) /\ Provider \in DOMAIN config /\ config[Provider] = platform.name) =>
    Keys \in DOMAIN config
MetadataApplied == md = "idle" => NamedRight /\ KeysThere

(* What makes it inductive: metadata runs only as the container whose turn  *)
(* it is, with nothing in /run/config before rc.init; and its Extract has   *)
(* seen to the keys once it is past the request for them.                   *)
BeforeRcInit == {"off", "init", "directories", "files", "delete", "switch", "rcinit"}
Extracting   == md \in {"extract", "finish"}
MetadataRight ==
  /\ platform.name \in Providers /\ lost \in Nat
  /\ md # "idle" => Running /\ step = "run" /\ providers \in Seq(Providers)
  /\ stage \in BeforeRcInit => DOMAIN config = {}
  /\ Extracting => providers # <<>>
  /\ md = "extract" => look \in DOMAIN Extract(Head(providers))
  /\ md \in {"idle", "probe"} => NamedRight
  /\ KeysThere
  /\ (Extracting /\ KeysDue /\ Head(providers) = platform.name) =>
       \A i \in DOMAIN Extract(platform.name) :
         Extract(platform.name)[i].file = Keys /\ (md = "extract" => i < look) => Keys \in DOMAIN config
===============================================================================
