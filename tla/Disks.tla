-------------------------------- MODULE Disks --------------------------------
(***************************************************************************)
(* The on-boot programs for persistent disks: pkg/format, which partitions *)
(* and formats the first empty drive, pkg/extend, which grows partitions   *)
(* and file systems to the size of their drive, and pkg/mount (mountie),   *)
(* which mounts a partition.  Each runs alone, as a container of the       *)
(* onboot section (module Boot); each tool it calls (sfdisk, fdisk, mkfs,  *)
(* resize2fs...) is a step, so that the power may fail between two of      *)
(* them, and each may fail and end the program.                            *)
(*                                                                         *)
(* A drive has a size in sectors, a partition table and the file system    *)
(* that was last made on it, which stays on the medium at its first sector *)
(* whatever becomes of the table.                                          *)
(***************************************************************************)
EXTENDS Integers, Sequences, Functions

CONSTANTS
  Drives,      \* the names findDrives lists, sorted
  LastChar,    \* the last character of a drive's name: a digit, or -1
  First,       \* the first sector of a partition that sfdisk places
  Backup,      \* the sectors at the end that a GPT keeps for itself
  MaxFaults    \* bound: tools that fail

ASSUME DrivesAssumption ==
  /\ Drives \in Seq(STRING) /\ LastChar \in [Range(Drives) -> -1..9]
  /\ \A i, j \in DOMAIN Drives : Drives[i] = Drives[j] => i = j
  /\ First \in Nat \ {0} /\ Backup \in Nat \ {0} /\ MaxFaults \in Nat

Names == Range(Drives)
Tables == Seq([start : Nat, size : Nat, linux : BOOLEAN])
DriveStates == [size : Nat, label : {"none", "dos", "gpt"}, parts : Tables, fs : [start : Int, size : Nat, data : Nat]]
NoPart == [start |-> 0, size |-> 0, linux |-> FALSE]
NoFs  == [start |-> -1, size |-> 0, data |-> 0]

VARIABLES
  disk,      \* size, partition table and file system of each drive
  mounted,   \* the drives whose file system is mounted
  opts,      \* the arguments of the programs
  prog,      \* the program that runs, or none
  at,        \* its next step
  drive,     \* the drive it works on
  part,      \* the partition extend has read from the drive's table
  done,      \* programs that have ended without error in this boot
  faults     \* tools that have failed

diskVars == <<disk, mounted, opts, prog, at, drive, part, done, faults>>

(* The arguments: format's -force with the drive it is to clear, -partition *)
(* and -type, extend's -stop-on-error, mountie's -device.                   *)
Options ==
  [force : Names \cup {"no"}, label : {"dos", "gpt"}, type : {"ext4", "btrfs", "xfs"},
   stop : BOOLEAN, device : Names \cup {"none"}]

(* What the tools see and make.  blkid finds a partition table, or a file   *)
(* system that begins with the drive; sfdisk -d any table.                  *)
HasTable(d)   == disk[d].label # "none"
Blkid(d)      == HasTable(d) \/ disk[d].fs.start = 0
LastLBA(d)    == disk[d].size - Backup - 1
Rest(d, from) == IF disk[d].label = "gpt" THEN LastLBA(d) + 1 - from ELSE disk[d].size - from
HasFs(d)      == disk[d].fs.start >= 0
FsAt(d, p)    == disk[d].fs.start = p.start
OnePart(d)    == Len(disk[d].parts) = 1

Goto(l) == at' = l /\ UNCHANGED <<prog, done>>
Exit    == prog' = "none" /\ at' = "start" /\ done' = done \cup {prog}
Abort   == prog' = "none" /\ at' = "start" /\ UNCHANGED done
SetDisk(d, r) == disk' = [disk EXCEPT ![d] = r]

(* extend goes to the next drive, or ends.                                 *)
Following(d) == (CHOOSE i \in DOMAIN Drives : Drives[i] = d) + 1
NextDrive ==
  IF Following(drive) \in DOMAIN Drives
  THEN Goto("read") /\ drive' = Drives[Following(drive)]
  ELSE Exit /\ UNCHANGED drive

(* A step fails: log.Fatalf ends the program; extend without -stop-on-error *)
(* turns to the next drive.                                                *)
Fail == IF prog = "extend" /\ ~opts.stop THEN NextDrive ELSE Abort /\ UNCHANGED drive

(* A tool ends with an error.                                              *)
ToolFails ==
  /\ prog # "none" /\ at # "start" /\ faults < MaxFaults
  /\ faults' = faults + 1
  /\ Fail
  /\ UNCHANGED <<part, disk, mounted, opts>>
-----------------------------------------------------------------------------
(* format *)

(* A drive counts as empty when blkid finds nothing on it and it has no     *)
(* partition table.                                                        *)
RashEmpty(d)     == disk[d].label = "none" \/ disk[d].parts = <<>>   \* faulty: a table without partitions passes
isEmptyDevice(d) == ~Blkid(d) /\ ~HasTable(d)

(* main and autoformat: -force takes the drive it is given; otherwise the   *)
(* first empty one.                                                        *)
Format ==
  /\ prog = "format" /\ at = "start"
  /\ \/ /\ opts.force # "no"
        /\ drive' = opts.force
        /\ Goto(IF HasTable(opts.force) THEN "clear" ELSE "fdisk")
     \/ /\ opts.force = "no"
        /\ \E i \in DOMAIN Drives :
             /\ isEmptyDevice(Drives[i]) /\ \A j \in DOMAIN Drives : j < i => ~isEmptyDevice(Drives[j])
             /\ drive' = Drives[i]
        /\ Goto("fdisk")
     \/ /\ opts.force = "no" /\ \A d \in Names : ~isEmptyDevice(d)
        /\ Abort /\ UNCHANGED drive
  /\ UNCHANGED <<part, disk, mounted, opts, faults>>

Step(p, from, to) == prog = p /\ at = from /\ Goto(to) /\ UNCHANGED <<part, mounted, opts, drive, faults>>

(* sfdisk --delete: the table stays, without partitions.                   *)
ClearTable == Step("format", "clear", "fdisk") /\ SetDisk(drive, [disk[drive] EXCEPT !.parts = <<>>])

(* fdisk: "w" writes a DOS table unless there is a table, "g" a new GPT.    *)
WriteTable ==
  /\ Step("format", "fdisk", "sfdisk")
  /\ SetDisk(drive, IF opts.label = "gpt" \/ ~HasTable(drive)
                    THEN [disk[drive] EXCEPT !.label = opts.label, !.parts = <<>>]
                    ELSE disk[drive])

(* sfdisk ";": one Linux partition that takes the drive.                   *)
MakePartition ==
  /\ Step("format", "sfdisk", "wait")
  /\ SetDisk(drive, [disk[drive] EXCEPT
       !.parts = <<[start |-> First, size |-> Rest(drive, First), linux |-> TRUE]>>])

(* The kernel puts a p before the number of a partition when the drive's    *)
(* name ends with a digit; format does so for the digits 1 to 8.            *)
KernelName(d)  == IF LastChar[d] >= 0 THEN "p1" ELSE "1"
partition(d)   == IF LastChar[d] > 0 /\ LastChar[d] < 9 THEN "p1" ELSE "1"

(* refreshDevicesAndWaitFor: the node appears, or the wait is given up.    *)
Endless == prog = "format" /\ at = "wait" /\ partition(drive) = KernelName(drive) /\ Goto("mkfs") /\ UNCHANGED <<part, disk, mounted, opts, drive, faults>>
refreshDevicesAndWaitFor ==
  /\ prog = "format" /\ at = "wait"
  /\ IF partition(drive) = KernelName(drive) THEN Goto("mkfs") ELSE Abort
  /\ UNCHANGED <<part, disk, mounted, opts, drive, faults>>

Mkfs ==
  /\ prog = "format" /\ at = "mkfs"
  /\ SetDisk(drive, [disk[drive] EXCEPT
       !.fs = [start |-> First, size |-> disk[drive].parts[1].size, data |-> 0]])
  /\ Exit
  /\ UNCHANGED <<part, mounted, opts, drive, faults>>
-----------------------------------------------------------------------------
(* extend *)

Extend ==
  /\ prog = "extend" /\ at = "start"
  /\ IF Drives = <<>> THEN Exit /\ UNCHANGED drive ELSE Goto("read") /\ drive' = Drives[1]
  /\ UNCHANGED <<part, disk, mounted, opts, faults>>

(* There is no free space when the only partition ends where the code says  *)
(* the drive ends: at the device size, or for a GPT at its last sector.     *)
NearlyFull(d) == disk[d].parts[1].start + disk[d].parts[1].size >= disk[d].size - 1   \* faulty: a sector is left
Full(d) ==
  LET p == disk[d].parts[1] IN
  p.start + p.size = IF disk[d].label = "gpt" THEN LastLBA(d) ELSE disk[d].size

(* autoextend and extend, up to what they change: a drive without table, or *)
(* with another number of partitions than one, or that is full, is skipped; *)
(* another kind of partition is an error.                                   *)
ReadTable ==
  /\ prog = "extend" /\ at = "read"
  /\ IF ~HasTable(drive) \/ ~OnePart(drive) THEN NextDrive
     ELSE IF ~disk[drive].parts[1].linux THEN Fail
     ELSE IF Full(drive) THEN NextDrive
     ELSE Goto(IF opts.type = "ext4" THEN "check" ELSE "delete") /\ UNCHANGED drive
  /\ part' = IF at' \in {"check", "delete"} THEN disk[drive].parts[1] ELSE part
  /\ UNCHANGED <<disk, mounted, opts, faults>>

(* e2fsck, twice; it needs a file system.                                  *)
Check ==
  /\ prog = "extend" /\ at = "check"
  /\ IF FsAt(drive, disk[drive].parts[1]) THEN Goto("delete") /\ UNCHANGED drive ELSE Fail
  /\ UNCHANGED <<part, disk, mounted, opts, faults>>

(* createPartition: sfdisk --delete, and sfdisk with the old first sector; *)
(* a drive in use is refused.                                              *)
DeletePartition ==
  /\ prog = "extend" /\ at = "delete"
  /\ IF drive \in mounted
     THEN Fail /\ UNCHANGED disk
     ELSE SetDisk(drive, [disk[drive] EXCEPT !.parts = <<>>]) /\ Goto("create") /\ UNCHANGED drive
  /\ UNCHANGED <<part, mounted, opts, faults>>

Misplaced(p) == First + 1   \* faulty: the new partition begins elsewhere
Placed(p)    == p.start
CreatePartition ==
  /\ Step("extend", "create", "activate")
  /\ SetDisk(drive, [disk[drive] EXCEPT
       !.parts = <<[start |-> Placed(part), size |-> Rest(drive, Placed(part)), linux |-> part.linux]>>])

(* sfdisk -A, the kernel re-reads the table, the node appears.             *)
Activate == Step("extend", "activate", "resize") /\ UNCHANGED disk

(* resize2fs, or mount, grow and unmount: they need the file system.       *)
Resize ==
  /\ prog = "extend" /\ at = "resize"
  /\ IF FsAt(drive, disk[drive].parts[1])
     THEN /\ SetDisk(drive, [disk[drive] EXCEPT !.fs.size = disk[drive].parts[1].size])
          /\ IF opts.type = "btrfs" THEN NextDrive ELSE Goto("recheck") /\ UNCHANGED drive
     ELSE Fail /\ UNCHANGED disk
  /\ UNCHANGED <<part, mounted, opts, faults>>

(* e2fsck, xfs_repair -n.                                                  *)
Recheck ==
  /\ prog = "extend" /\ at = "recheck"
  /\ NextDrive
  /\ UNCHANGED <<part, disk, mounted, opts, faults>>
-----------------------------------------------------------------------------
(* mountie *)

(* findFirst: the loop over the drives is not left when a partition is      *)
(* found, so it is the last drive with one that counts.                    *)
HasLinux(d) == HasTable(d) /\ \E i \in DOMAIN disk[d].parts : disk[d].parts[i].linux
Eligible(d) == HasLinux(d) /\ d \notin mounted
findFirst   == LET found == {i \in DOMAIN Drives : Eligible(Drives[i])}
               IN  Drives[CHOOSE i \in found : \A j \in found : j <= i]
FirstLinux(d) == LET linux == {i \in DOMAIN disk[d].parts : disk[d].parts[i].linux}
                 IN  disk[d].parts[CHOOSE i \in linux : \A j \in linux : i <= j]

(* main: the partition asked for, or the one findFirst returns; mount       *)
(* needs a file system on it.                                              *)
Mount ==
  /\ prog = "mount" /\ at = "start"
  /\ \E d \in Names :
       /\ IF opts.device # "none" THEN d = opts.device
          ELSE (\E e \in Names : Eligible(e)) => d = findFirst
       /\ IF HasLinux(d) /\ d \notin mounted /\ FsAt(d, FirstLinux(d))
          THEN mounted' = mounted \cup {d} /\ Exit
          ELSE Abort /\ UNCHANGED mounted
  /\ UNCHANGED <<part, disk, opts, drive, faults>>
-----------------------------------------------------------------------------
Format_ == Format \/ ClearTable \/ WriteTable \/ MakePartition \/ refreshDevicesAndWaitFor \/ Mkfs
Extend_ == Extend \/ ReadTable \/ Check \/ DeletePartition \/ CreatePartition \/ Activate \/ Resize \/ Recheck
DiskStep == Format_ \/ Extend_ \/ Mount \/ ToolFails
===============================================================================
