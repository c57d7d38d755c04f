------------------------------ MODULE BootProofs ------------------------------
(***************************************************************************)
(* Proofs about Boot, for any drives, machines, failures and boots: no     *)
(* file system is replaced or loses data, what was written is on the disks *)
(* when the machine halts, a file system stays in its partition and is     *)
(* grown with its drive, the root that the machine runs in is complete,    *)
(* and what the metadata says is in force when it has been read.           *)
(***************************************************************************)
EXTENDS Boot, TLAPS
(* Most leaves are first-order: Zenon is tried first, SMT where it fails.   *)
USE ZenonT(30), SMTT(20)

(* The shape of a drive, and what a step that is not mkfs may do to it.    *)
Shaped(x) ==
  /\ x = [size |-> x.size, label |-> x.label, parts |-> x.parts, fs |-> x.fs]
  /\ x.fs = [start |-> x.fs.start, size |-> x.fs.size, data |-> x.fs.data]
  /\ x.fs.start \in Int /\ x.fs.data \in Nat

Keeps(x, y) ==
  /\ y.fs.start = x.fs.start /\ y.fs.data >= x.fs.data
  /\ x.label # "none" => y.label # "none"

DrivesShaped(f) == f = [d \in Names |-> f[d]] /\ \A d \in Names : Shaped(f[d])

Calm == DrivesShaped(disk') /\ \A d \in Names : Keeps(disk[d], disk'[d])

(* DisksOK in these words.                                                 *)
LEMMA DrivesOK == DisksOK <=>
                    /\ DrivesShaped(disk) /\ dirty \in [Names -> Nat]
                    /\ opts.label # "none" /\ opts.force \in Names \cup {"no"}
BY DEF DisksOK, DrivesShaped, Shaped

LEMMA Same == ASSUME NEW a \in Nat, NEW b, b = a PROVE b >= a
BY SMT

(* A change of a drive's size, label, table or of the size of its file     *)
(* system.                                                                 *)
LEMMA Changed ==
  ASSUME NEW x, Shaped(x), NEW y, NEW v,
         \/ y = x
         \/ y = [x EXCEPT !.size = v]
         \/ y = [x EXCEPT !.parts = v]
         \/ y = [x EXCEPT !.fs.size = v]
         \/ \E l : l # "none" /\ y = [x EXCEPT !.label = l, !.parts = v]
  PROVE  Shaped(y) /\ Keeps(x, y)
<1>1. CASE y = x
  BY SMT, <1>1 DEF Shaped, Keeps
<1>2. CASE y = [x EXCEPT !.size = v]
  BY SMT, <1>2 DEF Shaped, Keeps
<1>3. CASE y = [x EXCEPT !.parts = v]
  BY SMT, <1>3 DEF Shaped, Keeps
<1>4. CASE y = [x EXCEPT !.fs.size = v]
  BY SMT, <1>4 DEF Shaped, Keeps
<1>5. CASE \E l : l # "none" /\ y = [x EXCEPT !.label = l, !.parts = v]
  <2>1. PICK l : l # "none" /\ y = [x EXCEPT !.label = l, !.parts = v]
    BY <1>5
  <2>2. DOMAIN x = {"size", "label", "parts", "fs"} /\ x.fs.data \in Nat
    BY DEF Shaped
  <2>3. y.size = x.size /\ y.label = l /\ y.parts = v /\ y.fs = x.fs
    BY <2>1, <2>2
  <2>4. y = [size |-> x.size, label |-> l, parts |-> v, fs |-> x.fs]
    BY <2>1, <2>2
  <2>5. y = [size |-> y.size, label |-> y.label, parts |-> y.parts, fs |-> y.fs]
    BY <2>3, <2>4
  <2>6. Shaped(y)
    BY <2>3, <2>5 DEF Shaped
  <2>7. y.fs.start = x.fs.start /\ y.fs.data = x.fs.data /\ y.label # "none"
    BY <2>1, <2>3
  <2>8. y.fs.data >= x.fs.data
    BY <2>2, <2>7, Same
  <2> QED
    BY <2>6, <2>7, <2>8 DEF Keeps
<1> QED
  BY <1>1, <1>2, <1>3, <1>4, <1>5

(* What is written back adds to the data of a file system.                 *)
LEMMA Flushed ==
  ASSUME NEW x, Shaped(x), NEW k \in Nat, NEW y, y = [x EXCEPT !.fs.data = @ + k]
  PROVE  Shaped(y) /\ Keeps(x, y)
BY SMT DEF Shaped, Keeps

(* One drive is changed.                                                   *)
LEMMA OneChanged ==
  ASSUME DisksOK, NEW y, disk' = [disk EXCEPT ![drive] = y],
         drive \in Names => Shaped(y) /\ Keeps(disk[drive], y)
  PROVE  Calm
<1>1. DrivesShaped(disk)
  BY DrivesOK
<1>2. disk' = [d \in Names |-> disk'[d]] /\ \A d \in Names : disk'[d] = IF d = drive THEN y ELSE disk[d]
  BY <1>1 DEF DrivesShaped
<1>3. \A d \in Names : Keeps(disk[d], disk[d])
  <2>1. \A d \in Names : disk[d].fs.data \in Nat
    BY <1>1 DEF DrivesShaped, Shaped
  <2> QED
    BY SMT, <2>1 DEF Keeps
<1> QED
  BY <1>1, <1>2, <1>3 DEF Calm, DrivesShaped

(* No drive is changed.                                                    *)
LEMMA StillCalm == ASSUME DisksOK, disk' = disk PROVE Calm
<1>1. DrivesShaped(disk) /\ \A d \in Names : disk[d].fs.data \in Nat
  BY DrivesOK DEF DrivesShaped, Shaped
<1>2. \A d \in Names : Keeps(disk[d], disk[d])
  BY <1>1, Same DEF Keeps
<1> QED
  BY <1>1, <1>2 DEF Calm

(* A step that makes no file system.                                       *)
LEMMA CalmStep ==
  ASSUME IInv, Calm
  PROVE  Tabled' /\ NothingLost /\ \A d \in Names : HasFs(d)' <=> HasFs(d)
<1>1. \A d \in Names : disk'[d].fs.start = disk[d].fs.start /\ disk'[d].fs.data >= disk[d].fs.data
  BY DEF Calm, Keeps
<1>2. \A d \in Names : HasTable(d) => HasTable(d)'
  BY DEF Calm, Keeps, HasTable
<1>3. \A d \in Names : HasFs(d)' <=> HasFs(d)
  BY <1>1 DEF HasFs
<1>4. Tabled'
  BY <1>1, <1>2, <1>3 DEF IInv, Tabled
<1> QED
  BY <1>1, <1>3, <1>4 DEF NothingLost

(* A step of the system, while no disk program runs or that leaves it      *)
(* alone.                                                                  *)
Apart ==
  /\ UNCHANGED <<opts, prog, at, drive>>
  /\ prog = "none" \/ UNCHANGED <<stage, step>>

LEMMA ApartStep ==
  ASSUME IInv, Calm, Apart, dirty' \in [Names -> Nat], WritersGone'
  PROVE  IInv' /\ NothingLost
<1>1. Tabled' /\ NothingLost /\ \A d \in Names : HasFs(d)' <=> HasFs(d)
  BY CalmStep
<1>2. DisksOK'
  BY DrivesOK DEF IInv, Calm, Apart, DisksOK, DrivesShaped, Shaped
<1>3. Picked'
  <2>1. \A d \in Names : HasTable(d) => HasTable(d)'
    BY DEF Calm, Keeps, HasTable
  <2> QED
    BY <1>1, <2>1 DEF IInv, Picked, Apart
<1>4. OneProgram'
  BY DEF IInv, OneProgram, Apart, Running
<1> QED
  BY <1>1, <1>2, <1>3, <1>4 DEF IInv

(* From power on to the services.                                          *)
LEMMA StillStep ==
  ASSUME IInv, Calm, Apart, UNCHANGED <<alive, dirty, mounted>>, stage' \notin {"sync", "unmount", "halt"}
  PROVE  IInv' /\ NothingLost
<1>1. dirty' \in [Names -> Nat]
  BY DEF IInv, DisksOK
<1>2. WritersGone'
  BY DEF IInv, WritersGone, Apart
<1> QED
  BY <1>1, <1>2, ApartStep

LEMMA PowerOnStep == ASSUME IInv, PowerOn PROVE IInv' /\ NothingLost
<1>1. DrivesShaped(disk)
  BY DrivesOK DEF IInv
<1>2. PICK s \in [Names -> {0, 1}] :
        disk' = [d \in Names |-> [disk[d] EXCEPT !.size = IF @ < MaxSize THEN @ + s[d] ELSE @]]
  BY DEF PowerOn
<1>3. \A d \in Names : \E v : disk'[d] = [disk[d] EXCEPT !.size = v]
  BY <1>2
<1>4. \A d \in Names : Shaped(disk'[d]) /\ Keeps(disk[d], disk'[d])
  BY <1>1, <1>3, Changed DEF DrivesShaped
<1>5. disk' = [d \in Names |-> disk'[d]]
  BY <1>2
<1>6. Calm
  BY <1>4, <1>5 DEF Calm, DrivesShaped
<1>7. Apart /\ UNCHANGED <<alive, dirty, mounted>> /\ stage' = "init"
  BY DEF PowerOn, Apart, IInv, OneProgram, Running
<1> QED
  BY <1>6, <1>7, StillStep

LEMMA EarlyStep ==
  ASSUME IInv, RootMoves \/ CopyFails \/ RcInit \/ Prepare \/ Ended \/ SectionDone \/ PrepareFails \/ BadConfig
  PROVE  IInv' /\ NothingLost
<1> USE DEF Apart, IInv, OneProgram, Running, To, diskVars
<1>1. CASE RootMoves
  <2>1. Apart /\ UNCHANGED <<disk, alive, dirty, mounted>> /\ stage' \notin {"sync", "unmount", "halt"}
    BY <1>1 DEF RootMoves, InitMain, CopyDirectories, MoveFiles, DeleteRest, SwitchRoot, RootStep
  <2> QED
    BY <2>1, StillCalm, StillStep
<1>2. CASE CopyFails
  BY <1>2, StillCalm, StillStep DEF CopyFails
<1>3. CASE RcInit
  BY <1>3, StillCalm, StillStep DEF RcInit
<1>4. CASE Prepare \/ Ended
  BY <1>4, StillCalm, StillStep DEF Prepare, Ended, Stays, Waited
<1>5. CASE SectionDone
  BY <1>5, StillCalm, StillStep DEF SectionDone
<1>6. CASE PrepareFails
  BY <1>6, StillCalm, StillStep DEF PrepareFails, Stays, Follows
<1>7. CASE BadConfig
  BY <1>7, StillCalm, StillStep DEF BadConfig
<1> QED
  BY <1>1, <1>2, <1>3, <1>4, <1>5, <1>6, <1>7

(* The services write, and what they write is written back.                *)
LEMMA FlushStep ==
  ASSUME IInv, NEW ds, Flush(ds)
  PROVE  Calm /\ dirty' \in [Names -> Nat] /\ \A d \in Names : dirty'[d] = IF d \in ds THEN 0 ELSE dirty[d]
<1>1. DrivesShaped(disk) /\ dirty \in [Names -> Nat]
  BY DrivesOK DEF IInv
<1>2. \A d \in Names : disk'[d] = disk[d] \/ disk'[d] = [disk[d] EXCEPT !.fs.data = @ + dirty[d]]
  BY DEF Flush
<1>3. \A d \in Names : Shaped(disk'[d]) /\ Keeps(disk[d], disk'[d])
  BY <1>1, <1>2, Changed, Flushed DEF DrivesShaped
<1>4. disk' = [d \in Names |-> disk'[d]]
  BY DEF Flush
<1>5. Calm
  BY <1>3, <1>4 DEF Calm, DrivesShaped
<1> QED
  BY <1>1, <1>5 DEF Flush

LEMMA ServiceStep ==
  ASSUME IInv, StartServices \/ Write \/ WriteBack \/ Shutdown \/ Terminate \/ Kill \/ Sync \/ unmountAll
  PROVE  IInv' /\ NothingLost
<1> USE DEF Apart, diskVars
<1>0. dirty \in [Names -> Nat] /\ DisksOK /\ WritersGone /\ OneProgram
  BY DEF IInv, DisksOK
<1>1. CASE StartServices \/ Shutdown
  <2>1. Apart /\ UNCHANGED <<disk, dirty, mounted>> /\ stage' \in {"up", "onshutdown"}
    BY <1>0, <1>1 DEF StartServices, Shutdown, Quiet, To, OneProgram, Running
  <2>2. WritersGone'
    BY <1>0, <2>1 DEF WritersGone
  <2> QED
    BY <1>0, <2>1, <2>2, StillCalm, ApartStep
<1>2. CASE Write
  <2>1. PICK d \in mounted : dirty' = [dirty EXCEPT ![d] = @ + 1]
    BY <1>2 DEF Write
  <2>2. Apart /\ UNCHANGED <<disk, mounted, alive, stage>> /\ alive # {}
    BY <1>2 DEF Write
  <2>3. dirty' \in [Names -> Nat] /\ \A e \in Names : e # d => dirty'[e] = dirty[e]
    <3>1. d \in Names => dirty[d] + 1 \in Nat
      BY SMT, <1>0
    <3> DEFINE more == dirty[d] + 1
    <3>2. dirty' = [dirty EXCEPT ![d] = more]
      BY <2>1
    <3>3. d \in Names => more \in Nat
      BY <3>1
    <3> HIDE DEF more
    <3> QED
      BY <1>0, <3>2, <3>3
  <2>4. WritersGone'
    BY <1>0, <2>2, <2>3 DEF WritersGone
  <2> QED
    BY <1>0, <2>2, <2>3, <2>4, StillCalm, ApartStep
<1>3. CASE WriteBack
  <2>1. PICK d \in mounted : Flush({d})
    BY <1>3 DEF WriteBack
  <2>2. Apart /\ UNCHANGED <<mounted, alive, stage>>
    BY <1>3 DEF WriteBack
  <2>3. Calm /\ dirty' \in [Names -> Nat] /\ \A e \in Names : dirty'[e] = IF e \in {d} THEN 0 ELSE dirty[e]
    BY <2>1, FlushStep
  <2>4. WritersGone'
    BY <1>0, <2>2, <2>3 DEF WritersGone
  <2> QED
    BY <2>2, <2>3, <2>4, ApartStep
<1>4. CASE Terminate \/ Kill
  <2>1. Apart /\ UNCHANGED <<disk, dirty, mounted>> /\ (stage' = "kill" \/ (stage' = "sync" /\ alive' = {}))
    BY <1>0, <1>4 DEF Terminate, Kill, Killed, Quiet, To, OneProgram, Running
  <2>2. WritersGone'
    BY <1>0, <2>1 DEF WritersGone
  <2> QED
    BY <1>0, <2>1, <2>2, StillCalm, ApartStep
<1>5. CASE Sync
  <2>1. Flush(mounted) /\ Apart /\ UNCHANGED <<mounted, alive>> /\ stage = "sync"
    BY <1>0, <1>5 DEF Sync, Quiet, To, OneProgram, Running
  <2>2. Calm /\ dirty' \in [Names -> Nat] /\ \A e \in Names : dirty'[e] = IF e \in mounted THEN 0 ELSE dirty[e]
    BY <2>1, FlushStep
  <2>3. WritersGone'
    BY <1>0, <2>1, <2>2 DEF WritersGone
  <2> QED
    BY <2>1, <2>2, <2>3, ApartStep
<1>6. CASE unmountAll
  <2>1. Apart /\ UNCHANGED <<disk, dirty, alive>> /\ stage = "unmount"
    BY <1>0, <1>6 DEF unmountAll, Quiet, To, OneProgram, Running
  <2>2. WritersGone'
    BY <1>0, <2>1 DEF WritersGone
  <2> QED
    BY <1>0, <2>1, <2>2, StillCalm, ApartStep
<1> QED
  BY <1>1, <1>2, <1>3, <1>4, <1>5, <1>6

(* The machine is off.                                                     *)
LEMMA OffStep == ASSUME IInv, Off PROVE IInv' /\ NothingLost
<1>1. UNCHANGED <<disk, opts>> /\ prog' = "none" /\ at' = "start" /\ stage' = "off" /\ alive' = {}
  BY DEF Off
<1>2. dirty' \in [Names -> Nat] /\ \A d \in Names : dirty'[d] = 0
  BY DEF Off
<1>3. Tabled' /\ NothingLost
  BY <1>1, StillCalm, CalmStep DEF IInv
<1>4. DisksOK'
  BY <1>1, <1>2 DEF IInv, DisksOK
<1>5. Picked' /\ OneProgram' /\ WritersGone'
  BY <1>1, <1>2 DEF Picked, OneProgram, WritersGone
<1> QED
  BY <1>3, <1>4, <1>5 DEF IInv

(* An onboot container starts, and asks for metadata.                      *)
LEMMA LaunchStep == ASSUME IInv, Launch PROVE IInv' /\ NothingLost
<1>1. UNCHANGED <<disk, opts, at, drive, mounted, alive, dirty, stage>> /\ step' = "run" /\ Running /\ step = "start"
  BY DEF Launch, Stays
<1>2. prog = "none" /\ at = "start"
  BY <1>1 DEF IInv, OneProgram
<1>3. DisksOK' /\ WritersGone'
  BY <1>1 DEF IInv, DisksOK, WritersGone
<1>4. Tabled' /\ NothingLost
  BY <1>1, StillCalm, CalmStep DEF IInv
<1>5. Picked' /\ OneProgram'
  BY <1>1, <1>2 DEF Picked, OneProgram, Running
<1> QED
  BY <1>3, <1>4, <1>5 DEF IInv

LEMMA AskingStep == ASSUME IInv, UNCHANGED <<sysVars, diskVars>> PROVE IInv' /\ NothingLost
<1>1. UNCHANGED <<disk, dirty, mounted, alive, stage>> /\ Apart
  BY DEF sysVars, diskVars, Apart
<1>2. WritersGone' /\ dirty' \in [Names -> Nat]
  BY <1>1 DEF IInv, WritersGone, DisksOK
<1> QED
  BY <1>1, <1>2, StillCalm, ApartStep DEF IInv

(* A disk program goes on, or ends.                                        *)
GoesOn == prog' = prog \/ (prog' = "none" /\ at' = "start")

LEMMA ProgramStep ==
  ASSUME IInv, Calm, UNCHANGED sysVars, opts' = opts, prog # "none", GoesOn,
         \A d \in Names : d \in mounted => d \in mounted',
         prog = "format" => Picked'
  PROVE  IInv' /\ NothingLost
<1>1. UNCHANGED <<stage, step, alive, dirty>>
  BY DEF sysVars
<1>2. Tabled' /\ NothingLost
  BY CalmStep
<1>3. DisksOK'
  BY <1>1, DrivesOK DEF IInv, Calm, DisksOK, DrivesShaped, Shaped
<1>4. Picked'
  BY DEF GoesOn, Picked
<1>5. OneProgram'
  BY <1>1 DEF IInv, OneProgram, GoesOn, Running
<1>6. WritersGone'
  BY <1>1 DEF IInv, WritersGone
<1> QED
  BY <1>2, <1>3, <1>4, <1>5, <1>6 DEF IInv

LEMMA FailGoesOn == Fail \/ NextDrive => GoesOn
BY DEF Fail, NextDrive, Goto, Exit, Abort, GoesOn

(* extend and mountie change no more than tables and the size of file      *)
(* systems.                                                                *)
LEMMA TableStep ==
  ASSUME IInv, NEW v, NEW y, SetDisk(drive, y),
         \/ y = disk[drive]
         \/ y = [disk[drive] EXCEPT !.parts = v]
         \/ y = [disk[drive] EXCEPT !.fs.size = v]
         \/ \E l : l # "none" /\ y = [disk[drive] EXCEPT !.label = l, !.parts = v]
  PROVE  Calm
<1>1. drive \in Names => Shaped(disk[drive])
  BY DrivesOK DEF IInv, DrivesShaped
<1>2. drive \in Names => Shaped(y) /\ Keeps(disk[drive], y)
  BY <1>1, Changed
<1> QED
  BY <1>2, OneChanged DEF IInv, SetDisk

LEMMA ExtendStep == ASSUME IInv, Extend_, UNCHANGED sysVars PROVE IInv' /\ NothingLost
<1>1. prog = "extend" /\ opts' = opts /\ mounted' = mounted
  BY DEF Extend_, Extend, ReadTable, Check, DeletePartition, CreatePartition, Activate, Resize, Recheck, Step
<1>2. GoesOn
  BY FailGoesOn DEF Extend_, Extend, ReadTable, Check, DeletePartition, CreatePartition, Activate, Resize, Recheck,
                    Step, Goto, Exit, GoesOn
<1>3. CASE disk' = disk
  BY <1>1, <1>2, <1>3, StillCalm, ProgramStep DEF IInv
<1>4. CASE DeletePartition
  <2>1. disk' = disk \/ \E v : SetDisk(drive, [disk[drive] EXCEPT !.parts = v])
    BY <1>4 DEF DeletePartition
  <2> QED
    BY <1>1, <1>2, <1>3, <2>1, TableStep, ProgramStep
<1>5. CASE CreatePartition
  <2>1. \E v : SetDisk(drive, [disk[drive] EXCEPT !.parts = v])
    BY <1>5 DEF CreatePartition
  <2> QED
    BY <1>1, <1>2, <2>1, TableStep, ProgramStep
<1>6. CASE Resize
  <2>1. disk' = disk \/ \E v : SetDisk(drive, [disk[drive] EXCEPT !.fs.size = v])
    BY <1>6 DEF Resize
  <2> QED
    BY <1>1, <1>2, <1>3, <2>1, TableStep, ProgramStep
<1> QED
  BY <1>3, <1>4, <1>5, <1>6 DEF Extend_, Extend, ReadTable, Check, Activate, Recheck

LEMMA MountStep == ASSUME IInv, Mount, UNCHANGED sysVars PROVE IInv' /\ NothingLost
<1>1. prog = "mount" /\ UNCHANGED <<disk, opts>> /\ GoesOn
  BY DEF Mount, Exit, Abort, GoesOn
<1>2. \A d \in Names : d \in mounted => d \in mounted'
  BY DEF Mount
<1> QED
  BY <1>1, <1>2, StillCalm, ProgramStep DEF IInv

(* format works on the drive it is told to, or on one that is empty.       *)
LEMMA EmptyHasNoFs == ASSUME IInv, NEW d \in Names, isEmptyDevice(d) PROVE ~HasFs(d)
BY DEF IInv, Tabled, isEmptyDevice, Blkid

LEMMA FormatStart == ASSUME IInv, Format, UNCHANGED sysVars PROVE IInv' /\ NothingLost
<1>1. prog = "format" /\ UNCHANGED <<disk, mounted, opts>> /\ GoesOn
  BY DEF Format, Goto, Abort, GoesOn
<1>2. Picked'
  <2>1. CASE opts.force # "no" /\ drive' = opts.force /\ at' \in {"clear", "fdisk"}
    BY <1>1, <2>1 DEF IInv, DisksOK, Picked
  <2>2. CASE at' = "fdisk" /\ \E i \in DOMAIN Drives : isEmptyDevice(Drives[i]) /\ drive' = Drives[i]
    <3>1. PICK i \in DOMAIN Drives : isEmptyDevice(Drives[i]) /\ drive' = Drives[i]
      BY <2>2
    <3>2. Drives[i] \in Names
      BY DEF Names, Range
    <3>3. ~HasFs(Drives[i])
      BY <3>1, <3>2, EmptyHasNoFs
    <3> QED
      BY <1>1, <2>2, <3>1, <3>2, <3>3 DEF Picked, HasFs
  <2>3. CASE at' = "start"
    BY <2>3 DEF Picked
  <2> QED
    BY <2>1, <2>2, <2>3 DEF Format, Goto, Abort
<1> QED
  BY <1>1, <1>2, StillCalm, ProgramStep DEF IInv

LEMMA FormatTable ==
  ASSUME IInv, ClearTable \/ WriteTable \/ MakePartition \/ refreshDevicesAndWaitFor, UNCHANGED sysVars
  PROVE  IInv' /\ NothingLost
<1>1. prog = "format" /\ UNCHANGED <<mounted, opts, drive>> /\ GoesOn
  BY DEF ClearTable, WriteTable, MakePartition, refreshDevicesAndWaitFor, Step, Goto, Abort, GoesOn
<1>2. drive \in Names /\ (drive = opts.force \/ (at # "clear" /\ ~HasFs(drive)))
  BY <1>1 DEF IInv, Picked, ClearTable, WriteTable, MakePartition, refreshDevicesAndWaitFor, Step
<1>3. Calm
  <2>1. CASE ClearTable \/ MakePartition
    <3>1. \E v : SetDisk(drive, [disk[drive] EXCEPT !.parts = v])
      BY <2>1 DEF ClearTable, MakePartition
    <3> QED
      BY <3>1, TableStep
  <2>2. CASE WriteTable
    <3>1. opts.label # "none"
      BY DEF IInv, DisksOK
    <3>2. \E y, v : SetDisk(drive, y) /\ (y = disk[drive] \/ y = [disk[drive] EXCEPT !.label = opts.label, !.parts = v])
      BY <2>2 DEF WriteTable
    <3> QED
      BY <3>1, <3>2, TableStep
  <2>3. CASE refreshDevicesAndWaitFor
    BY <2>3, StillCalm DEF refreshDevicesAndWaitFor, IInv
  <2> QED
    BY <2>1, <2>2, <2>3
<1>4. HasFs(drive)' <=> HasFs(drive)
  BY <1>1, <1>2, <1>3, CalmStep DEF HasFs
<1>5. HasTable(drive) => HasTable(drive)'
  BY <1>1, <1>2, <1>3 DEF Calm, Keeps, HasTable
<1>6. WriteTable => HasTable(drive)'
  <2>1. ASSUME WriteTable, ~HasTable(drive) PROVE disk'[drive].label = opts.label
    <3>1. DOMAIN disk = Names /\ DOMAIN disk[drive] = {"size", "label", "parts", "fs"}
      BY <1>2, DrivesOK DEF IInv, DrivesShaped, Shaped
    <3>2. \E v : disk' = [disk EXCEPT ![drive] = [disk[drive] EXCEPT !.label = opts.label, !.parts = v]]
      BY <2>1 DEF WriteTable, SetDisk
    <3> QED
      BY <1>2, <3>1, <3>2
  <2> QED
    BY <1>1, <1>5, <2>1 DEF HasTable, IInv, DisksOK
<1>7. Picked'
  <2>1. CASE ClearTable
    BY <1>1, <1>2, <1>4, <1>5, <2>1 DEF IInv, Picked, ClearTable, Step, Goto
  <2>2. CASE WriteTable
    BY <1>1, <1>2, <1>4, <1>6, <2>2 DEF IInv, Picked, WriteTable, Step, Goto
  <2>3. CASE MakePartition
    BY <1>1, <1>2, <1>4, <1>5, <2>3 DEF IInv, Picked, MakePartition, Step, Goto
  <2>4. CASE refreshDevicesAndWaitFor
    BY <1>1, <1>2, <1>4, <1>5, <2>4 DEF IInv, Picked, refreshDevicesAndWaitFor, Goto, Abort
  <2> QED
    BY <2>1, <2>2, <2>3, <2>4
<1> QED
  BY <1>1, <1>3, <1>7, ProgramStep

(* mkfs: the drive it works on has no file system, or was given by -force.  *)
LEMMA MkfsStep == ASSUME IInv, Mkfs, UNCHANGED sysVars PROVE IInv' /\ NothingLost
<1>1. drive \in Names /\ (drive = opts.force \/ ~HasFs(drive)) /\ HasTable(drive)
  BY DEF IInv, Picked, Mkfs
<1>2. DrivesShaped(disk) /\ First \in Nat /\ 0 \in Nat
  BY DrivesOK, DrivesAssumption DEF IInv
<1>3. PICK z : disk' = [disk EXCEPT ![drive] = [disk[drive] EXCEPT !.fs = [start |-> First, size |-> z, data |-> 0]]]
  BY DEF Mkfs, SetDisk
<1>4. \A d \in Names : d # drive => disk'[d] = disk[d]
  BY <1>2, <1>3 DEF DrivesShaped
<1>5. disk' = [d \in Names |-> disk'[d]]
  BY <1>2, <1>3 DEF DrivesShaped
<1>6. disk'[drive] = [size |-> disk[drive].size, label |-> disk[drive].label, parts |-> disk[drive].parts,
                      fs |-> [start |-> First, size |-> z, data |-> 0]]
  <2>1. disk'[drive] = [disk[drive] EXCEPT !.fs = [start |-> First, size |-> z, data |-> 0]]
    BY <1>1, <1>2, <1>3 DEF DrivesShaped
  <2>2. DOMAIN disk[drive] = {"size", "label", "parts", "fs"}
    <3>1. Shaped(disk[drive])
      BY <1>1, <1>2 DEF DrivesShaped
    <3> QED
      BY <3>1 DEF Shaped
  <2> QED
    BY <2>1, <2>2
<1>7. Shaped(disk'[drive]) /\ disk'[drive].label = disk[drive].label
  BY SMT, <1>2, <1>6 DEF Shaped
<1>8. UNCHANGED <<stage, step, alive, dirty, mounted, opts, drive>> /\ prog' = "none" /\ at' = "start"
  BY DEF Mkfs, Exit, sysVars
<1>9. DrivesShaped(disk')
  BY <1>2, <1>4, <1>5, <1>7 DEF DrivesShaped
<1>10. DisksOK'
  BY <1>8, <1>9, DrivesOK DEF IInv, DisksOK, DrivesShaped, Shaped
<1>11. Tabled'
  <2>1. \A d \in Names : d # drive => (HasFs(d)' <=> HasFs(d)) /\ (HasTable(d)' <=> HasTable(d)) /\ disk'[d].fs = disk[d].fs
    BY <1>4 DEF HasFs, HasTable
  <2>2. disk'[drive].label # "none"
    BY <1>1, <1>7 DEF HasTable
  <2>3. \A d \in Names : d = drive => HasTable(d)'
    BY <2>2 DEF HasTable
  <2> QED
    BY <2>1, <2>3 DEF IInv, Tabled
<1>12. Picked' /\ OneProgram' /\ WritersGone'
  BY <1>8 DEF IInv, Picked, OneProgram, WritersGone
<1>13. NothingLost
  <2>1. \A d \in Names : d # drive => disk'[d].fs.start = disk[d].fs.start /\ disk'[d].fs.data >= disk[d].fs.data
    BY <1>2, <1>4, Same DEF DrivesShaped, Shaped
  <2> QED
    BY <1>1, <2>1 DEF NothingLost
<1> QED
  BY <1>10, <1>11, <1>12, <1>13 DEF IInv

(* A tool fails.                                                           *)
LEMMA FaultStep == ASSUME IInv, ToolFault PROVE IInv' /\ NothingLost
<1>1. UNCHANGED <<sysVars, disk, mounted, opts>> /\ prog # "none" /\ GoesOn
  BY FailGoesOn DEF ToolFault, ToolFails
<1>2. prog = "format" => prog' = "none"
  BY DEF ToolFault, ToolFails, Fail, Abort
<1> QED
  BY <1>1, <1>2, StillCalm, ProgramStep DEF IInv, Picked

LEMMA NextStep == ASSUME IInv, Next PROVE IInv' /\ NothingLost
<1>1. CASE Programme
  BY <1>1, FormatStart, FormatTable, MkfsStep, ExtendStep, MountStep DEF Programme, Format_
<1>2. CASE Stopping \/ Crash
  BY <1>2, ServiceStep, OffStep DEF Stopping, Halt, Crash
<1>3. CASE Runc \/ Asking
  BY <1>3, EarlyStep, LaunchStep, AskingStep DEF Runc, Asking
<1> QED
  BY <1>1, <1>2, <1>3, PowerOnStep, EarlyStep, FaultStep, ServiceStep DEF Next

LEMMA InitInv == Init => IInv
<1> SUFFICES ASSUME Init PROVE IInv
  OBVIOUS
<1>1. PICK m \in Machines : disk = m.disk /\ opts = m.opts
  BY DEF Init
<1>2. m.disk \in [Names -> DriveStates] /\ m.opts \in Options /\ \A d \in Names : m.disk[d].fs.start > 0 => m.disk[d].label # "none"
  BY MachinesAssumption
<1>3. disk \in [Names -> DriveStates] /\ opts \in Options
  BY <1>1, <1>2
<1>4. dirty = [d \in Names |-> 0] /\ prog = "none" /\ at = "start" /\ stage = "off" /\ alive = {}
  BY DEF Init
<1>5. \A d \in Names : Shaped(disk[d])
  BY <1>3 DEF DriveStates, Shaped
<1>6. DrivesShaped(disk)
  BY <1>3, <1>5 DEF DrivesShaped
<1>7. DisksOK
  BY <1>3, <1>4, <1>6, DrivesOK DEF Options
<1>8. Tabled
  <2>1. \A d \in Names : disk[d].fs.start \in Int
    BY <1>5 DEF Shaped
  <2> QED
    BY SMT, <1>1, <1>2, <2>1 DEF Tabled, HasFs, HasTable
<1>9. Picked /\ OneProgram /\ WritersGone
  BY <1>4 DEF Picked, OneProgram, WritersGone
<1> QED
  BY <1>7, <1>8, <1>9 DEF IInv

(* The invariant of all behaviours.                                        *)
THEOREM Invariance == Spec => []IInv
<1>1. IInv /\ [Next]_vars => IInv'
  <2>1. IInv /\ UNCHANGED vars => IInv'
    BY AskingStep DEF vars
  <2> QED
    BY <2>1, NextStep
<1> QED
  BY <1>1, InitInv, PTL DEF Spec

(* No boot, crash or error replaces a file system or takes data from it,   *)
(* but on the drive given to format -force.                                *)
THEOREM FilesystemsKept == Spec => DataSafe
<1>1. IInv /\ [Next]_vars => [NothingLost]_vars
  BY NextStep
<1> QED
  BY <1>1, Invariance, PTL DEF Spec, DataSafe

(* rc.shutdown halts with all that was written on the disks.               *)
THEOREM Synced == Spec => []SyncedAtHalt
<1>1. IInv => SyncedAtHalt
  BY DEF IInv, WritersGone, SyncedAtHalt
<1> QED
  BY <1>1, Invariance, PTL

(* A step that leaves the tables and the file systems where they are, and  *)
(* the failures that were.                                                 *)
SameTables == \A d \in Names : disk'[d].parts = disk[d].parts /\ disk'[d].fs.start = disk[d].fs.start
Onward ==
  /\ crashes' \in Nat /\ faults' \in Nat /\ opts' = opts
  /\ NoFailure' => NoFailure

LEMMA SteadyStep ==
  ASSUME IInv, TablesKept, SameTables, Onward,
         \/ UNCHANGED <<prog, at, drive, part>>
         \/ /\ at' \notin {"wait", "mkfs", "check", "delete", "create"}
            /\ prog = "extend" /\ at = "create" => ~NoFailure'
  PROVE  TablesKept'
<1>1. \A d \in Names : Begins(d, disk[d].fs.start) => Begins(d, disk[d].fs.start)'
  BY DEF SameTables, Begins
<1>2. \A d \in Names : InPart(d) => InPart(d)'
  BY <1>1 DEF SameTables, InPart
<1>3. \A d \in Names : OnePart(d)' => DOMAIN disk'[d].parts = {1}
  BY DEF SameTables, TablesKept, OnePart
<1>4. CASE UNCHANGED <<prog, at, drive, part>>
  <2>1. prog' = "format" /\ at' \in {"wait", "mkfs"} => Begins(drive, First)'
    <3>1. prog = "format" /\ at \in {"wait", "mkfs"} => drive \in Names /\ Begins(drive, First)
      BY DEF TablesKept, IInv, Picked
    <3> QED
      BY <1>4, <3>1 DEF SameTables, Begins
  <2>2. ASSUME NoFailure', NEW d \in Names \ {opts.force}
        PROVE  /\ InPart(d)' \/ (prog' = "extend" /\ at' = "create" /\ drive' = d)
               /\ prog' = "extend" /\ at' \in {"check", "delete", "create"} /\ drive' = d /\ disk'[d].fs.start > 0 =>
                    part'.start = disk'[d].fs.start
    BY <1>2, <1>4, <2>2 DEF TablesKept, Onward, SameTables
  <2> QED
    BY <1>3, <2>1, <2>2 DEF TablesKept, Onward
<1>5. CASE /\ at' \notin {"wait", "mkfs", "check", "delete", "create"}
           /\ prog = "extend" /\ at = "create" => ~NoFailure'
  <2>1. ASSUME NoFailure', NEW d \in Names \ {opts.force} PROVE InPart(d)'
    BY <1>2, <1>5, <2>1 DEF TablesKept, Onward
  <2> QED
    BY <1>3, <1>5, <2>1 DEF TablesKept, Onward
<1> QED
  BY <1>4, <1>5

(* The steps that change no disk, or only its size or its data.            *)
LEMMA QuietTables ==
  ASSUME IInv, disk' = disk \/ PowerOn \/ \E ds : Flush(ds)
  PROVE  SameTables
<1>1. \A d \in Names : Shaped(disk[d])
  BY DrivesOK DEF IInv, DrivesShaped
<1>2. CASE disk' = disk
  BY <1>2 DEF SameTables
<1>3. ASSUME NEW d \in Names, NEW v, disk'[d] = [disk[d] EXCEPT !.size = v] \/ disk'[d] = [disk[d] EXCEPT !.fs.data = v]
      PROVE  disk'[d].parts = disk[d].parts /\ disk'[d].fs.start = disk[d].fs.start
  BY <1>1, <1>3 DEF Shaped
<1>4. CASE PowerOn
  <2>1. \A d \in Names : \E v : disk'[d] = [disk[d] EXCEPT !.size = v]
    BY <1>4 DEF PowerOn
  <2> QED
    BY <1>3, <2>1 DEF SameTables
<1>5. CASE \E ds : Flush(ds)
  <2>1. \A d \in Names : disk'[d] = disk[d] \/ \E v : disk'[d] = [disk[d] EXCEPT !.fs.data = v]
    BY <1>5 DEF Flush
  <2> QED
    BY <1>3, <2>1 DEF SameTables
<1> QED
  BY <1>2, <1>4, <1>5

(* The steps of the system.                                                *)
LEMMA SystemTables ==
  ASSUME IInv, TablesKept,
         \/ PowerOn \/ RootMoves \/ CopyFails \/ RcInit \/ Runc \/ PrepareFails \/ BadConfig \/ Asking \/ ToolFault
         \/ StartServices \/ Write \/ WriteBack \/ Shutdown \/ Stopping \/ Crash
  PROVE  TablesKept'
<1>0. crashes \in Nat /\ faults \in Nat /\ crashes + 1 \in Nat /\ faults + 1 \in Nat /\ crashes + 1 # 0 /\ faults + 1 # 0
  BY SMT DEF TablesKept
<1>1. CASE UNCHANGED <<opts, prog, at, drive, part, faults, crashes>> /\ SameTables
  BY <1>0, <1>1, SteadyStep DEF Onward, NoFailure
<1>2. CASE UNCHANGED <<opts, prog, at, drive, part, crashes, disk>> /\ Fault
  <2>1. Onward
    BY <1>0, <1>2 DEF Onward, NoFailure, Fault
  <2> QED
    BY <1>2, <2>1, QuietTables, SteadyStep
<1>3. CASE PowerOn
  BY <1>1, <1>3, QuietTables DEF PowerOn
<1>4. CASE RootMoves
  <2>1. UNCHANGED <<diskVars, crashes>>
    BY <1>4 DEF RootMoves, InitMain, CopyDirectories, MoveFiles, DeleteRest, SwitchRoot, RootStep, To
  <2> QED
    BY <1>1, <2>1, QuietTables DEF diskVars
<1>5. CASE RcInit \/ Prepare \/ Ended \/ SectionDone
  <2>1. UNCHANGED <<diskVars, crashes>>
    BY <1>5 DEF RcInit, Prepare, Ended, SectionDone, Stays, To
  <2> QED
    BY <1>1, <2>1, QuietTables DEF diskVars
<1>6. CASE Asking
  BY <1>1, <1>6, QuietTables DEF Asking, sysVars, diskVars
<1>7. CASE CopyFails \/ PrepareFails \/ BadConfig
  BY <1>2, <1>7 DEF CopyFails, PrepareFails, BadConfig, Stays, To
<1>8. CASE StartServices \/ Write \/ Shutdown \/ Terminate \/ Kill \/ unmountAll
  <2>1. UNCHANGED <<disk, opts, prog, at, drive, part, faults, crashes>>
    BY <1>8 DEF StartServices, Write, Shutdown, Terminate, Kill, unmountAll, Quiet, To, diskVars
  <2> QED
    BY <1>1, <2>1, QuietTables
<1>9. CASE WriteBack \/ Sync
  <2>1. UNCHANGED <<opts, prog, at, drive, part, faults, crashes>> /\ \E ds : Flush(ds)
    BY <1>9 DEF WriteBack, Sync, Quiet, To
  <2> QED
    BY <1>1, <2>1, QuietTables
<1>10. CASE Launch
  <2>1. UNCHANGED <<disk, opts, at, drive, part, faults, crashes>> /\ step = "start"
    BY <1>10 DEF Launch, Stays
  <2>2. prog = "none" /\ at = "start"
    BY <2>1 DEF IInv, OneProgram
  <2>3. Onward
    BY <1>0, <2>1 DEF Onward, NoFailure
  <2> QED
    BY <2>1, <2>2, <2>3, QuietTables, SteadyStep
<1>11. CASE Halt
  <2>1. UNCHANGED <<disk, opts, faults, crashes>> /\ stage = "halt" /\ at' = "start"
    BY <1>11 DEF Halt, Off
  <2>2. prog = "none"
    BY <2>1 DEF IInv, OneProgram, Running
  <2>3. Onward
    BY <1>0, <2>1 DEF Onward, NoFailure
  <2> QED
    BY <2>1, <2>2, <2>3, QuietTables, SteadyStep
<1>12. CASE Crash
  <2>1. UNCHANGED <<disk, opts, faults>> /\ crashes' = crashes + 1 /\ at' = "start"
    BY <1>12 DEF Crash, Off
  <2>2. Onward /\ ~NoFailure'
    BY <1>0, <2>1 DEF Onward, NoFailure
  <2> QED
    BY <2>1, <2>2, QuietTables, SteadyStep
<1>13. CASE ToolFault
  <2>1. UNCHANGED <<disk, opts, crashes>> /\ faults' = faults + 1 /\ at' \in {"start", "read"}
    BY <1>13 DEF ToolFault, ToolFails, Fail, NextDrive, Goto, Exit, Abort, sysVars
  <2>2. Onward /\ ~NoFailure'
    BY <1>0, <2>1 DEF Onward, NoFailure
  <2> QED
    BY <2>1, <2>2, QuietTables, SteadyStep
<1> QED
  BY <1>3, <1>4, <1>5, <1>6, <1>7, <1>8, <1>9, <1>10, <1>11, <1>12, <1>13 DEF Runc, Stopping

(* A table is rewritten, on one drive.                                     *)
LEMMA Rewritten ==
  ASSUME IInv, NEW v, NEW l,
         \/ SetDisk(drive, [disk[drive] EXCEPT !.parts = v])
         \/ SetDisk(drive, [disk[drive] EXCEPT !.label = l, !.parts = v])
  PROVE  \A d \in Names : /\ disk'[d].fs.start = disk[d].fs.start
                          /\ d # drive => disk'[d] = disk[d]
                          /\ d = drive => disk'[d].parts = v
<1> SUFFICES ASSUME NEW d \in Names
             PROVE  /\ disk'[d].fs.start = disk[d].fs.start
                    /\ d # drive => disk'[d] = disk[d]
                    /\ d = drive => disk'[d].parts = v
  OBVIOUS
<1>1. DrivesShaped(disk) /\ Shaped(disk[d])
  BY DrivesOK DEF IInv, DrivesShaped
<1>2. CASE d # drive
  BY <1>1, <1>2 DEF SetDisk, DrivesShaped
<1>3. CASE d = drive
  <2>1. disk'[d] = [disk[d] EXCEPT !.parts = v] \/ disk'[d] = [disk[d] EXCEPT !.label = l, !.parts = v]
    BY <1>1, <1>3 DEF SetDisk, DrivesShaped
  <2>2. DOMAIN disk[d] = {"size", "label", "parts", "fs"}
    BY <1>1 DEF Shaped
  <2> QED
    BY <1>3, <2>1, <2>2
<1> QED
  BY <1>2, <1>3

(* A table with no partition, or with one.                                 *)
LEMMA Short ==
  /\ Len(<<>>) # 1
  /\ \A x : DOMAIN <<x>> = {1} /\ <<x>>[1] = x
BY SMT

LEMMA ShortTables ==
  ASSUME TablesKept, NEW v, v = <<>> \/ (\E x : v = <<x>>), NEW e,
         \A d \in Names : (d # e => disk'[d] = disk[d]) /\ (d = e => disk'[d].parts = v)
  PROVE  \A d \in Names : OnePart(d)' => DOMAIN disk'[d].parts = {1}
BY Short, SMT DEF TablesKept, OnePart

(* format changes the table of the drive that was forced on it, or of one  *)
(* without a file system.                                                  *)
LEMMA FormatTables ==
  ASSUME IInv, TablesKept, Format_, UNCHANGED sysVars
  PROVE  TablesKept'
<1>0. /\ prog = "format" /\ UNCHANGED <<opts, faults, crashes, part>> /\ crashes \in Nat /\ faults \in Nat
      /\ NoFailure' => NoFailure
  BY DEF Format_, Format, ClearTable, WriteTable, MakePartition, refreshDevicesAndWaitFor, Mkfs, Step, sysVars, TablesKept,
         NoFailure
<1>1. Onward
  BY <1>0 DEF Onward
<1>2. CASE Format
  <2>1. disk' = disk /\ at' \in {"clear", "fdisk", "start"}
    BY <1>2 DEF Format, Goto, Abort
  <2> QED
    BY <1>0, <1>1, <2>1, QuietTables, SteadyStep
<1>3. ASSUME at # "start", drive' = drive, NEW v, v = <<>> \/ (\E x : v = <<x>>),
             \A d \in Names : /\ disk'[d].fs.start = disk[d].fs.start
                              /\ d # drive => disk'[d] = disk[d]
                              /\ d = drive => disk'[d].parts = v,
             prog' = prog, at' \in {"wait", "mkfs"} => Begins(drive, First)'
      PROVE  TablesKept'
  <2>1. \A d \in Names : OnePart(d)' => DOMAIN disk'[d].parts = {1}
    BY <1>3, ShortTables
  <2>2. ASSUME NoFailure', NEW d \in Names \ {opts.force} PROVE InPart(d)'
    <3>1. NoFailure /\ InPart(d)
      BY <1>0, <2>2 DEF TablesKept
    <3>2. CASE d # drive
      BY <1>3, <3>1, <3>2 DEF InPart, Begins
    <3>3. CASE d = drive
      <4>1. ~HasFs(d)
        BY <1>0, <1>3, <2>2, <3>3 DEF IInv, Picked
      <4>2. disk[d].fs.start \in Int /\ ~(disk[d].fs.start >= 0)
        BY <4>1 DEF HasFs, IInv, DisksOK
      <4>3. ~(disk[d].fs.start > 0)
        BY <4>2, SMT
      <4> QED
        BY <1>3, <4>3 DEF InPart
    <3> QED
      BY <3>2, <3>3
  <2> QED
    BY <1>0, <1>3, <2>1, <2>2 DEF TablesKept
<1>4. CASE ClearTable
  <2>1. SetDisk(drive, [disk[drive] EXCEPT !.parts = <<>>]) /\ at = "clear" /\ at' = "fdisk" /\ UNCHANGED <<prog, drive>>
    BY <1>4 DEF ClearTable, Step, Goto
  <2> QED
    BY <1>3, <2>1, Rewritten
<1>5. CASE WriteTable
  <2>1. at = "fdisk" /\ at' = "sfdisk" /\ UNCHANGED <<prog, drive>>
    BY <1>5 DEF WriteTable, Step, Goto
  <2>2. CASE SetDisk(drive, [disk[drive] EXCEPT !.label = opts.label, !.parts = <<>>])
    BY <1>3, <2>1, <2>2, Rewritten
  <2>3. CASE SetDisk(drive, disk[drive])
    <3>1. disk' = disk
      BY <2>3, DrivesOK DEF IInv, DrivesShaped, SetDisk
    <3> QED
      BY <1>0, <1>1, <2>1, <3>1, QuietTables, SteadyStep
  <2> QED
    BY <1>5, <2>2, <2>3 DEF WriteTable
<1>6. CASE MakePartition
  <2> DEFINE p == [start |-> First, size |-> Rest(drive, First), linux |-> TRUE]
  <2>1. SetDisk(drive, [disk[drive] EXCEPT !.parts = <<p>>]) /\ at = "sfdisk" /\ at' = "wait" /\ UNCHANGED <<prog, drive>>
    BY <1>6 DEF MakePartition, Step, Goto
  <2>2. p.start = First
    OBVIOUS
  <2> HIDE DEF p
  <2>3. drive \in Names
    BY <1>0, <2>1 DEF IInv, Picked
  <2>4. disk'[drive].parts = <<p>>
    BY <2>1, <2>3, Rewritten
  <2>5. Begins(drive, First)'
    BY <2>1, <2>2, <2>4, Short DEF Begins
  <2> QED
    BY <1>3, <2>1, <2>5, Rewritten
<1>7. CASE refreshDevicesAndWaitFor
  <2>1. disk' = disk /\ at = "wait" /\ drive' = drive
    BY <1>7 DEF refreshDevicesAndWaitFor
  <2>2. CASE Abort
    BY <1>0, <1>1, <2>1, <2>2, QuietTables, SteadyStep DEF Abort
  <2>3. CASE Goto("mkfs")
    BY <1>0, <2>1, <2>3 DEF TablesKept, Goto, NoFailure, OnePart, InPart, Begins
  <2> QED
    BY <1>7, <2>2, <2>3 DEF refreshDevicesAndWaitFor
<1>8. CASE Mkfs
  <2>1. /\ drive \in Names /\ Begins(drive, First) /\ prog' = "none" /\ at' = "start"
    BY <1>8 DEF Mkfs, IInv, Picked, TablesKept, Exit
  <2>2. PICK z : disk' = [disk EXCEPT ![drive] = [disk[drive] EXCEPT !.fs = [start |-> First, size |-> z, data |-> 0]]]
    BY <1>8 DEF Mkfs, SetDisk
  <2>3. DrivesShaped(disk) /\ Shaped(disk[drive])
    BY <2>1, DrivesOK DEF IInv, DrivesShaped
  <2>4. \A d \in Names : d # drive => disk'[d] = disk[d]
    BY <2>2, <2>3 DEF DrivesShaped
  <2>5. disk'[drive].parts = disk[drive].parts /\ disk'[drive].fs.start = First
    <3>1. disk'[drive] = [disk[drive] EXCEPT !.fs = [start |-> First, size |-> z, data |-> 0]]
      BY <2>1, <2>2, <2>3 DEF DrivesShaped
    <3>2. DOMAIN disk[drive] = {"size", "label", "parts", "fs"}
      BY <2>3 DEF Shaped
    <3> QED
      BY <3>1, <3>2, SMT
  <2>6. \A d \in Names : OnePart(d)' => DOMAIN disk'[d].parts = {1}
    BY <2>4, <2>5 DEF TablesKept, OnePart
  <2>7. ASSUME NoFailure', NEW d \in Names \ {opts.force} PROVE InPart(d)'
    <3>1. CASE d # drive
      <4>1. InPart(d)
        BY <1>0, <2>7 DEF TablesKept
      <4> QED
        BY <2>4, <3>1, <4>1 DEF InPart, Begins
    <3>2. CASE d = drive
      BY <2>1, <2>5, <3>2 DEF InPart, Begins
    <3> QED
      BY <3>1, <3>2
  <2> QED
    BY <1>0, <2>1, <2>6, <2>7 DEF TablesKept
<1> QED
  BY <1>2, <1>4, <1>5, <1>6, <1>7, <1>8 DEF Format_

(* extend deletes a partition when it knows where it began, and creates it *)
(* there again.                                                            *)
LEMMA ExtendTables ==
  ASSUME IInv, TablesKept, Extend_, UNCHANGED sysVars
  PROVE  TablesKept'
<1>0. /\ prog = "extend" /\ UNCHANGED <<opts, faults, crashes>> /\ crashes \in Nat /\ faults \in Nat
      /\ NoFailure' <=> NoFailure
  BY DEF Extend_, Extend, ReadTable, Check, DeletePartition, CreatePartition, Activate, Resize, Recheck, Step, sysVars,
         TablesKept, NoFailure
<1>1. Onward
  BY <1>0 DEF Onward
<1>2. NextDrive \/ Fail => at' \in {"read", "start"}
  BY DEF NextDrive, Fail, Goto, Exit, Abort
<1>3. CASE at # "create" /\ at' \in {"read", "start", "resize", "recheck"} /\ disk' = disk
  BY <1>1, <1>3, QuietTables, SteadyStep
<1>4. CASE Extend \/ Activate \/ Recheck
  BY <1>2, <1>3, <1>4 DEF Extend, Activate, Recheck, Step, Goto, Exit
<1>5. ASSUME disk' = disk, prog' = prog, drive' = drive, at # "create", at' \in {"check", "delete"},
             \A d \in Names \ {opts.force} : NoFailure /\ drive = d /\ disk[d].fs.start > 0 => part'.start = disk[d].fs.start
      PROVE  TablesKept'
  <2>1. ASSUME NoFailure', NEW d \in Names \ {opts.force} PROVE InPart(d)'
    BY <1>0, <1>5, <2>1 DEF TablesKept, InPart, Begins
  <2>2. \A d \in Names : OnePart(d)' => DOMAIN disk'[d].parts = {1}
    BY <1>5 DEF TablesKept, OnePart
  <2> QED
    BY <1>0, <1>5, <2>1, <2>2 DEF TablesKept
<1>6. CASE ReadTable
  <2>1. disk' = disk /\ at = "read"
    BY <1>6 DEF ReadTable
  <2>2. CASE NextDrive \/ Fail
    BY <1>2, <1>3, <2>1, <2>2
  <2>3. CASE ~(NextDrive \/ Fail)
    <3>1. OnePart(drive) /\ at' \in {"check", "delete"} /\ drive' = drive /\ prog' = prog /\ part' = disk[drive].parts[1]
      BY <1>6, <2>3 DEF ReadTable, Goto
    <3>2. ASSUME NEW d \in Names \ {opts.force}, NoFailure, drive = d, disk[d].fs.start > 0
          PROVE  part'.start = disk[d].fs.start
      <4>1. DOMAIN disk[d].parts = {1} /\ Begins(d, disk[d].fs.start)
        BY <2>1, <3>1, <3>2 DEF TablesKept, InPart
      <4> QED
        BY <3>1, <3>2, <4>1 DEF Begins
    <3> QED
      BY <1>5, <2>1, <3>1, <3>2
  <2> QED
    BY <2>2, <2>3
<1>7. CASE Check
  <2>1. disk' = disk /\ at = "check" /\ part' = part
    BY <1>7 DEF Check
  <2>2. CASE Fail
    BY <1>2, <1>3, <2>1, <2>2
  <2>3. CASE Goto("delete") /\ drive' = drive
    BY <1>0, <1>5, <2>1, <2>3 DEF Goto, TablesKept
  <2> QED
    BY <1>7, <2>2, <2>3 DEF Check
<1>8. CASE DeletePartition
  <2>1. at = "delete" /\ part' = part
    BY <1>8 DEF DeletePartition
  <2>2. CASE Fail /\ disk' = disk
    BY <1>2, <1>3, <2>1, <2>2
  <2>3. CASE SetDisk(drive, [disk[drive] EXCEPT !.parts = <<>>]) /\ Goto("create") /\ drive' = drive
    <3>1. \A d \in Names : /\ disk'[d].fs.start = disk[d].fs.start
                           /\ d # drive => disk'[d] = disk[d]
                           /\ d = drive => disk'[d].parts = <<>>
      BY <2>3, Rewritten
    <3>2. \A d \in Names : OnePart(d)' => DOMAIN disk'[d].parts = {1}
      BY <3>1, ShortTables
    <3>3. prog' = "extend" /\ at' = "create"
      BY <1>0, <2>3 DEF Goto
    <3>4. ASSUME NoFailure', NEW d \in Names \ {opts.force}
          PROVE  /\ InPart(d)' \/ drive = d
                 /\ drive = d /\ disk'[d].fs.start > 0 => part.start = disk'[d].fs.start
      <4>1. InPart(d) /\ (drive = d /\ disk[d].fs.start > 0 => part.start = disk[d].fs.start)
        BY <1>0, <2>1, <3>4 DEF TablesKept
      <4>2. d # drive => InPart(d)'
        BY <3>1, <4>1 DEF InPart, Begins
      <4> QED
        BY <3>1, <4>1, <4>2
    <3> QED
      BY <1>0, <2>1, <2>3, <3>2, <3>3, <3>4 DEF TablesKept
  <2> QED
    BY <1>8, <2>2, <2>3 DEF DeletePartition
<1>9. CASE CreatePartition
  <2>1. at = "create" /\ at' = "activate" /\ UNCHANGED <<prog, drive>>
    BY <1>9 DEF CreatePartition, Step, Goto
  <2>2. PICK p : p.start = part.start /\ SetDisk(drive, [disk[drive] EXCEPT !.parts = <<p>>])
    BY <1>9 DEF CreatePartition, Placed
  <2>3. \A d \in Names : /\ disk'[d].fs.start = disk[d].fs.start
                         /\ d # drive => disk'[d] = disk[d]
                         /\ d = drive => disk'[d].parts = <<p>>
    BY <2>2, Rewritten
  <2>4. \A d \in Names : OnePart(d)' => DOMAIN disk'[d].parts = {1}
    BY <2>3, ShortTables
  <2>5. ASSUME NoFailure', NEW d \in Names \ {opts.force} PROVE InPart(d)'
    <3>1. CASE d # drive
      <4>1. InPart(d)
        BY <1>0, <2>5, <3>1 DEF TablesKept
      <4> QED
        BY <2>3, <3>1, <4>1 DEF InPart, Begins
    <3>2. CASE d = drive
      <4>1. disk[d].fs.start > 0 => part.start = disk[d].fs.start
        BY <1>0, <2>1, <2>5, <3>2 DEF TablesKept
      <4>2. disk'[d].parts = <<p>> /\ disk'[d].fs.start = disk[d].fs.start
        BY <2>3, <3>2
      <4>3. Begins(d, p.start)'
        BY <4>2, Short DEF Begins
      <4> QED
        BY <2>2, <4>1, <4>2, <4>3 DEF InPart, Begins
    <3> QED
      BY <3>1, <3>2
  <2> QED
    BY <1>0, <2>1, <2>4, <2>5 DEF TablesKept
<1>10. CASE Resize
  <2>1. at = "resize" /\ (at' \in {"read", "start", "recheck"})
    BY <1>2, <1>10 DEF Resize, Goto
  <2>2. CASE disk' = disk
    BY <1>3, <2>1, <2>2
  <2>3. CASE \E v : SetDisk(drive, [disk[drive] EXCEPT !.fs.size = v])
    <3>1. PICK v : disk' = [disk EXCEPT ![drive] = [disk[drive] EXCEPT !.fs.size = v]]
      BY <2>3 DEF SetDisk
    <3>2. DrivesShaped(disk)
      BY DrivesOK DEF IInv
    <3>3. ASSUME NEW d \in Names PROVE disk'[d].parts = disk[d].parts /\ disk'[d].fs.start = disk[d].fs.start
      <4>1. Shaped(disk[d])
        BY <3>2 DEF DrivesShaped
      <4>2. disk'[d] = disk[d] \/ disk'[d] = [disk[d] EXCEPT !.fs.size = v]
        BY <3>1, <3>2 DEF DrivesShaped
      <4> QED
        BY <4>1, <4>2, SMT DEF Shaped
    <3> QED
      BY <1>1, <2>1, <3>3, SteadyStep DEF SameTables
  <2> QED
    BY <1>10, <2>2, <2>3 DEF Resize
<1> QED
  BY <1>4, <1>6, <1>7, <1>8, <1>9, <1>10 DEF Extend_

(* mountie changes no disk.                                                *)
LEMMA MountTables == ASSUME IInv, TablesKept, Mount, UNCHANGED sysVars PROVE TablesKept'
<1>1. UNCHANGED <<disk, opts, faults, crashes>> /\ at' = "start" /\ prog # "extend"
  BY DEF Mount, Exit, Abort, sysVars
<1>2. Onward
  BY <1>1 DEF Onward, TablesKept, NoFailure
<1> QED
  BY <1>1, <1>2, QuietTables, SteadyStep

(* At first a file system is in its partition, if it is not the drive's.   *)
LEMMA TablesInit == Init => TablesKept
<1> SUFFICES ASSUME Init PROVE TablesKept
  OBVIOUS
<1>1. PICK m \in Machines : disk = m.disk /\ opts = m.opts
  BY DEF Init
<1>2. crashes = 0 /\ faults = 0 /\ prog = "none"
  BY DEF Init
<1>3. ASSUME NEW d \in Names PROVE InPart(d)
  BY <1>1, PartitionsAssumption DEF InPart, Begins
<1>4. ASSUME NEW d \in Names, OnePart(d) PROVE DOMAIN disk[d].parts = {1}
  <2>1. disk[d].parts \in Tables
    BY <1>1, MachinesAssumption DEF DriveStates
  <2>2. DOMAIN disk[d].parts = 1 .. Len(disk[d].parts)
    BY <2>1, SMT DEF Tables
  <2> QED
    BY <1>4, <2>2, SMT DEF OnePart
<1> QED
  BY <1>2, <1>3, <1>4, SMT DEF TablesKept

LEMMA KeptNext == IInv /\ TablesKept /\ [Next]_vars => TablesKept'
<1>1. ASSUME IInv, TablesKept, UNCHANGED vars PROVE TablesKept'
  BY <1>1, SystemTables DEF vars, Asking, TablesKept, NoFailure, OnePart, InPart, Begins, sysVars, diskVars
<1> QED
  BY <1>1, SystemTables, FormatTables, ExtendTables, MountTables DEF Next, Programme

(* As long as nothing fails, extend loses no partition, and format makes   *)
(* its file system in one: a file system that is not the whole drive's can *)
(* be found through the partition table in every boot.                     *)
THEOREM PartitionsAreKept == Spec => []PartitionKept
<1>1. IInv /\ TablesKept /\ [Next]_vars => TablesKept'
  BY KeptNext
<1>2. TablesKept => PartitionKept
  BY DEF TablesKept, PartitionKept
<1> QED
  BY <1>1, <1>2, TablesInit, Invariance, PTL DEF Spec

(* The mounts of rc.init: depth[i] is how deep the i-th is, and top[i] the *)
(* directory of / that it is in.                                           *)
Layout(dom, depth, top) ==
  /\ dom = 1 .. 19 \/ (dom = 1 .. 21 /\ depth[20] = 4 /\ depth[21] = 4)
  /\ \A i \in 1 .. 5 : depth[i] = 1
  /\ \A i \in 6 .. 8 : depth[i] = 2 /\ top[i] = "dev"
  /\ depth[9] = 1 /\ top[9] = "sys"
  /\ \A i \in 10 .. 17 : depth[i] = 3
  /\ depth[18] = 4 /\ top[18] = "proc"
  /\ depth[19] = 3 /\ top[19] = "sys"

LEMMA Deep ==
  ASSUME NEW dom, NEW depth, NEW top, Layout(dom, depth, top), NEW k \in dom
  PROVE  depth[k] \in Nat /\ depth[k] >= 1 /\ 1 .. 19 \subseteq dom
BY SMT DEF Layout

LEMMA Shallower ==
  ASSUME NEW dom, NEW depth, NEW top, Layout(dom, depth, top),
         NEW j \in 1 .. 19, NEW k \in dom, k > j, depth[k] < depth[j]
  PROVE  top[k] # top[j]
<1>1. (j \in 6 .. 8 /\ k = 9) \/ (j = 18 /\ k = 19)
  BY SMT DEF Layout
<1> QED
  BY <1>1 DEF Layout

LEMMA MountLayout ==
  ASSUME NEW v1, NEW m, m = doMounts(v1)
  PROVE  Layout(DOMAIN m, [i \in 1 .. 21 |-> Len(m[i])], [i \in 1 .. 21 |-> m[i][1]])
<1>1. DOMAIN m = 1 .. 19 \/ (DOMAIN m = 1 .. 21 /\ Len(m[20]) = 4 /\ Len(m[21]) = 4)
  <2>1. CASE v1
    <3>1. DOMAIN m = 1 .. 21
      BY <2>1, SMT DEF doMounts, Mounts, cgroupList
    <3>2. Len(m[20]) = 4 /\ Len(m[21]) = 4
      BY <2>1, SMT DEF doMounts, Mounts, cgroupList
    <3> QED
      BY <3>1, <3>2
  <2>2. CASE ~v1
    <3>1. DOMAIN m = 1 .. 19
      BY <2>2, SMT DEF doMounts, Mounts, cgroupList
    <3> QED
      BY <3>1
  <2> QED
    BY <2>1, <2>2
<1>2. \A i \in 1 .. 5 : Len(m[i]) = 1
  <2>1. Len(m[1]) = 1 /\ Len(m[2]) = 1 /\ Len(m[3]) = 1 /\ Len(m[4]) = 1 /\ Len(m[5]) = 1
    BY SMT DEF doMounts, Mounts, cgroupList
  <2> QED
    BY <2>1, SMT
<1>3. \A i \in 6 .. 8 : Len(m[i]) = 2 /\ m[i][1] = "dev"
  <2>1. /\ Len(m[6]) = 2 /\ Len(m[7]) = 2 /\ Len(m[8]) = 2
        /\ m[6][1] = "dev" /\ m[7][1] = "dev" /\ m[8][1] = "dev"
    BY SMT DEF doMounts, Mounts, cgroupList
  <2> QED
    BY <2>1, SMT
<1>4. \A i \in 10 .. 17 : Len(m[i]) = 3
  <2>1. /\ Len(m[10]) = 3 /\ Len(m[11]) = 3 /\ Len(m[12]) = 3 /\ Len(m[13]) = 3
        /\ Len(m[14]) = 3 /\ Len(m[15]) = 3 /\ Len(m[16]) = 3 /\ Len(m[17]) = 3
    BY SMT DEF doMounts, Mounts, cgroupList
  <2> QED
    BY <2>1, SMT
<1>5. /\ Len(m[9]) = 1 /\ m[9][1] = "sys" /\ Len(m[18]) = 4 /\ m[18][1] = "proc"
      /\ Len(m[19]) = 3 /\ m[19][1] = "sys"
  BY SMT DEF doMounts, Mounts, cgroupList
<1>6. {9, 18, 19, 20, 21} \cup 1 .. 5 \cup 6 .. 8 \cup 10 .. 17 \subseteq 1 .. 21
  BY SMT
<1>7. \A i \in 1 .. 21 : [l \in 1 .. 21 |-> Len(m[l])][i] = Len(m[i]) /\ [l \in 1 .. 21 |-> m[l][1]][i] = m[i][1]
  OBVIOUS
<1> QED
  BY <1>1, <1>2, <1>3, <1>4, <1>5, <1>6, <1>7 DEF Layout

LEMMA UnderSame ==
  ASSUME NEW d, NEW f, Under(d, f), Len(d) \in Nat, Len(d) >= 1
  PROVE  Len(d) < Len(f) /\ d[1] = f[1]
BY SMT DEF Under

(* No mount of rc.init hides an earlier one, with either cgroup hierarchy. *)
LEMMA NoneHidden ==
  ASSUME NEW v1
  PROVE  {Mounts[i] : i \in DOMAIN Mounts} \cup {cgroupList[1]} \subseteq Reachable(doMounts(v1))
<1>0. PICK m : m = doMounts(v1)
  OBVIOUS
<1> DEFINE depth == [i \in 1 .. 21 |-> Len(m[i])]
           top   == [i \in 1 .. 21 |-> m[i][1]]
<1>a. Layout(DOMAIN m, depth, top)
  BY <1>0, MountLayout
<1>b. DOMAIN m \subseteq 1 .. 21
  BY <1>a, SMT DEF Layout
<1>1. ASSUME NEW j \in 1 .. 19, NEW k \in DOMAIN m, k > j, Under(m[k], m[j]) PROVE FALSE
  <2>1. depth[k] = Len(m[k]) /\ top[k] = m[k][1] /\ depth[j] = Len(m[j]) /\ top[j] = m[j][1]
    BY <1>a, <1>b, Deep
  <2>2. depth[k] \in Nat /\ depth[k] >= 1
    BY <1>a, Deep
  <2>3. depth[k] < depth[j] /\ top[k] = top[j]
    BY <1>1, <2>1, <2>2, UnderSame
  <2> HIDE DEF depth, top
  <2> QED
    BY <1>a, <1>1, <2>3, Shallower
<1>2. \A j \in 1 .. 19 : j \in DOMAIN m
  <2> HIDE DEF depth, top
  <2> QED
    BY <1>a, SMT DEF Layout
<1>3. DOMAIN Mounts = 1 .. 18 /\ \A i \in DOMAIN Mounts : i \in 1 .. 19 /\ Mounts[i] = m[i]
  BY <1>0, SMT DEF doMounts, Mounts, cgroupList
<1>4. 19 \in 1 .. 19 /\ cgroupList[1] = m[19]
  BY <1>0, SMT DEF doMounts, Mounts, cgroupList
<1>5. \A j \in 1 .. 19 : m[j] \in Reachable(m)
  BY <1>1, <1>2 DEF Reachable
<1>6. \A i \in DOMAIN Mounts : Mounts[i] \in Reachable(m)
  BY <1>3, <1>5
<1>7. cgroupList[1] \in Reachable(m)
  BY <1>4, <1>5
<1> QED
  BY <1>0, <1>6, <1>7

(* The steps of /init and rc.init.                                         *)
LEMMA RootNext == ASSUME RootMoved, [Next]_vars PROVE RootMoved'
<1>1. CASE PowerOn
  BY <1>1 DEF PowerOn, RootMoved
<1>2. CASE InitMain
  BY <1>2 DEF InitMain, RootStep, To, RootMoved
<1>3. CASE CopyDirectories
  BY <1>3 DEF CopyDirectories, RootStep, To, RootMoved, OnRoot
<1>4. CASE MoveFiles
  <2>1. stage = "files" /\ stage' = "delete" /\ new' = new \cup ToMove
    BY <1>4 DEF MoveFiles, RootStep, To
  <2>2. OnRoot \subseteq new'
    BY <2>1 DEF RootMoved, OnRoot, ToMove
  <2> QED
    BY <2>1, <2>2 DEF RootMoved
<1>5. CASE DeleteRest \/ SwitchRoot
  BY <1>5 DEF DeleteRest, SwitchRoot, RootStep, To, RootMoved
<1>6. CASE RcInit
  BY <1>6 DEF RcInit, To, RootMoved
<1>7. CASE CopyFails
  BY <1>7 DEF CopyFails, To, RootMoved
<1>8. CASE Crash \/ Halt
  BY <1>8 DEF Crash, Halt, Off, RootMoved
<1>9. CASE UNCHANGED <<stage, image, old, new, points>>
  BY <1>9 DEF RootMoved
<1>10. CASE Prepare \/ Launch \/ Ended \/ PrepareFails
  BY <1>9, <1>10 DEF Prepare, Launch, Ended, PrepareFails, Stays
<1>11. CASE UNCHANGED sysVars \/ Programme \/ Asking \/ ToolFault \/ UNCHANGED vars
  BY <1>9, <1>11 DEF Programme, Asking, ToolFault, sysVars, vars
<1>12. CASE Write \/ WriteBack
  BY <1>9, <1>12 DEF Write, WriteBack
<1>13. CASE SectionDone \/ BadConfig
  BY <1>13 DEF SectionDone, BadConfig, Running, To, RootMoved
<1>14. CASE StartServices \/ Shutdown
  BY <1>14 DEF StartServices, Shutdown, Quiet, To, RootMoved
<1>15. CASE Terminate \/ Kill \/ Sync \/ unmountAll
  BY <1>15 DEF Terminate, Kill, Sync, unmountAll, Quiet, To, RootMoved
<1> QED
  BY <1>1, <1>2, <1>3, <1>4, <1>5, <1>6, <1>7, <1>8, <1>10, <1>11, <1>12, <1>13, <1>14, <1>15
  DEF Next, RootMoves, Runc, Stopping

(* Whatever the root file system holds and wherever the power fails, /init *)
(* loses nothing of it, and rc.init starts in a root that has all of it;   *)
(* the mounts it then makes can all be reached.                            *)
THEOREM RootIsReady == Spec => []RootReady
<1>1. Init => RootMoved
  BY DEF Init, RootMoved
<1>2. RootMoved => RootReady
  <2> SUFFICES ASSUME RootMoved PROVE RootReady
    OBVIOUS
  <2>1. stage \notin {"off", "panic"} => OnRoot \subseteq old \cup new
    BY DEF RootMoved, OnRoot
  <2>2. stage \in {"onboot", "containerd", "up"} => {Mounts[i] : i \in DOMAIN Mounts} \cup {cgroupList[1]} \subseteq points
    BY NoneHidden DEF RootMoved
  <2> QED
    BY <2>1, <2>2 DEF RootMoved, RootReady
<1> QED
  BY <1>1, <1>2, RootNext, PTL DEF Spec

(* What the providers ask for: no answer goes to the file that holds the   *)
(* name of the provider.                                                   *)
Asks(e) ==
  /\ DOMAIN e = 1 .. Len(e) /\ Len(e) \in Nat /\ 1 \in DOMAIN e
  /\ \A i \in DOMAIN e : e[i].file # Provider

LEMMA Requests == ASSUME NEW p \in Providers PROVE Asks(Extract(p))
<1> USE DEF Must, May, MetaGet, Hostname, Keys, User, Provider
<1>1. Asks(ProviderAWS)
  BY SMT DEF Asks, ProviderAWS
<1>2. Asks(ProviderGCP)
  BY SMT DEF Asks, ProviderGCP
<1>3. Asks(ProviderHetzner)
  BY SMT DEF Asks, ProviderHetzner
<1>4. Asks(ProviderOpenstack)
  BY SMT DEF Asks, ProviderOpenstack
<1>5. Asks(ProviderScaleway)
  BY SMT DEF Asks, ProviderScaleway
<1>6. Asks(ProviderVultr)
  BY SMT DEF Asks, ProviderVultr
<1>7. Asks(ProviderDigitalOcean)
  BY SMT DEF Asks, ProviderDigitalOcean
<1>8. Asks(ProviderEquinixMetal)
  BY SMT DEF Asks, ProviderEquinixMetal
<1>9. Asks(ProviderMetaldata)
  BY SMT DEF Asks, ProviderMetaldata
<1>10. Asks(ProviderVMware)
  BY SMT DEF Asks, ProviderVMware
<1>11. Asks(ProviderCDROM)
  BY SMT DEF Asks, ProviderCDROM
<1>12. Asks(fileProvider)
  BY SMT DEF Asks, fileProvider
<1> HIDE DEF Must, May, MetaGet, Hostname, Keys, User, Provider
<1>13. Extract(p) \in {ProviderAWS, ProviderGCP, ProviderHetzner, ProviderOpenstack, ProviderScaleway, ProviderVultr,
                      ProviderDigitalOcean, ProviderEquinixMetal, ProviderMetaldata, ProviderVMware, ProviderCDROM, fileProvider}
  BY DEF Extract, Providers
<1> QED
  BY <1>1, <1>2, <1>3, <1>4, <1>5, <1>6, <1>7, <1>8, <1>9, <1>10, <1>11, <1>12, <1>13

(* The steps that leave metadata and the order of the boot alone.          *)
LEMMA SameMetadata ==
  ASSUME MetadataRight, UNCHANGED mdVars,
         md # "idle" => UNCHANGED <<stage, step>>,
         stage' \in BeforeRcInit => stage \in BeforeRcInit
  PROVE  MetadataRight'
<1>1. UNCHANGED <<platform, providers, md, look, userdata, config, hostname, lost>>
  BY DEF mdVars
<1>2. NamedRight' = NamedRight /\ KeysDue' = KeysDue /\ KeysThere' = KeysThere /\ Extracting' = Extracting
  BY <1>1 DEF NamedRight, KeysDue, Tells, KeysThere, Extracting
<1>3. md # "idle" => (Running' = Running /\ step' = step)
  BY DEF Running
<1> QED
  BY <1>1, <1>2, <1>3 DEF MetadataRight

LEMMA PowerMetadata == ASSUME MetadataRight, Off PROVE MetadataRight'
<1>1. platform' = platform /\ lost' = lost /\ md' = "idle" /\ DOMAIN config' = {}
  BY DEF Off, NoFiles
<1> QED
  BY <1>1 DEF MetadataRight, NamedRight, KeysThere, Extracting

(* main looks for a provider.                                              *)
LEMMA ProbeRight ==
  ASSUME MetadataRight, UNCHANGED sysVars, Probe \/ ProbeLost \/ NothingFound
  PROVE  MetadataRight'
<1>1. /\ md = "probe" /\ md' \in {"probe", "extract", "idle"}
      /\ UNCHANGED <<platform, config, hostname>>
      /\ md' = "extract" => look' = 1 /\ lost' = lost /\ providers' = providers
      /\ md' # "idle" => providers # <<>> /\ (providers' = providers \/ providers' = Tail(providers))
  BY DEF Probe, ProbeLost, NothingFound
<1>2. lost' \in Nat /\ (lost' = 0 => lost = 0)
  <2>1. lost' = lost \/ lost' = lost + 1
    BY DEF Probe, ProbeLost, NothingFound
  <2> QED
    BY <2>1, SMT DEF MetadataRight
<1>3. UNCHANGED <<stage, step>>
  BY DEF sysVars
<1>4. providers \in Seq(Providers)
  BY <1>1 DEF MetadataRight
<1>5. md' # "idle" => providers' \in Seq(Providers)
  <2>1. providers # <<>> => Tail(providers) \in Seq(Providers)
    BY <1>4, SMT
  <2> QED
    BY <1>1, <1>4, <2>1
<1>6. Running' = Running
  BY <1>3 DEF Running
<1>7. KeysDue' => KeysDue
  BY <1>1, <1>2 DEF KeysDue, Tells
<1>8. KeysThere' /\ NamedRight'
  BY <1>1, <1>7 DEF KeysThere, NamedRight, MetadataRight
<1>9. md' = "extract" => Asks(Extract(Head(providers')))
  <2>1. providers # <<>> => Head(providers) \in Providers
    BY <1>4, SMT
  <2> QED
    BY <1>1, <2>1, Requests
<1>10. md' = "extract" => \A i \in DOMAIN Extract(Head(providers')) : ~(i < look')
  <2>1. \A i \in Nat : i >= 1 => ~(i < 1)
    BY SMT
  <2>2. ASSUME NEW e, Asks(e) PROVE \A i \in DOMAIN e : i \in Nat /\ i >= 1
    BY <2>2, SMT DEF Asks
  <2> QED
    BY <1>1, <1>9, <2>1, <2>2
<1>11. md' = "extract" => look' \in DOMAIN Extract(Head(providers'))
  BY <1>1, <1>9 DEF Asks
<1> QED
  BY <1>1, <1>2, <1>3, <1>5, <1>6, <1>8, <1>10, <1>11 DEF MetadataRight, Extracting

(* A request that Extract makes.                                           *)
LEMMA RequestRight == ASSUME MetadataRight, UNCHANGED sysVars, Request PROVE MetadataRight'
<1> DEFINE p == Head(providers)
           e == Extract(p)
<1>1. /\ md = "extract" /\ UNCHANGED <<platform, providers, hostname>> /\ md' \in {"extract", "finish"}
      /\ Running /\ step = "run" /\ providers \in Seq(Providers) /\ providers # <<>> /\ look \in DOMAIN e
  BY DEF Request, MetadataRight, Extracting, Next_
<1>2. p \in Providers
  BY <1>1, SMT
<1>3. Asks(e)
  BY <1>2, Requests
<1>4. lost' \in Nat /\ (lost' = 0 => lost = 0)
  <2>1. lost' = lost \/ lost' = lost + 1
    BY DEF Request
  <2> QED
    BY <2>1, SMT DEF MetadataRight
<1>5. UNCHANGED <<stage, step>> /\ Running'
  BY <1>1 DEF sysVars, Running
<1>6. config' = config \/ (Asked.file # User /\ config' = Written(config, {Asked.file}, platform.name))
  BY DEF Request, Answered
<1>7. DOMAIN config \subseteq DOMAIN config' /\ (Provider \in DOMAIN config' => Provider \in DOMAIN config /\ config'[Provider] = config[Provider])
  <2>1. Asked.file # Provider
    BY <1>1, <1>3 DEF Asked, Asks
  <2>2. CASE config' = config
    BY <2>2
  <2>3. CASE config' = Written(config, {Asked.file}, platform.name)
    <3>1. DOMAIN config' = DOMAIN config \cup {Asked.file} /\ \A f \in DOMAIN config : f # Asked.file => config'[f] = config[f]
      BY <2>3 DEF Written
    <3> QED
      BY <2>1, <3>1
  <2> QED
    BY <1>6, <2>2, <2>3
<1>8. KeysDue' => KeysDue
  BY <1>1, <1>4 DEF KeysDue, Tells
<1>9. KeysThere'
  BY <1>1, <1>7, <1>8 DEF KeysThere, MetadataRight
<1>10. stage' \notin BeforeRcInit
  BY <1>1, <1>5 DEF Running, BeforeRcInit
<1>11. md' = "extract" => look' = look + 1 /\ look # Len(e)
  BY DEF Request, Next_
<1>12. md' = "extract" => look' \in DOMAIN e
  BY <1>1, <1>3, <1>11, SMT DEF Asks
<1>13. md' = "finish" => look = Len(e) \/ (Needs(Asked) /\ (~Answers(Asked.url) \/ lost' = lost + 1))
  BY DEF Request, Next_
<1>14. ASSUME KeysDue', p = platform.name, Asked.must \/ Asked.file = Keys PROVE Answers(Asked.url) /\ lost' # lost + 1
  <2>1. Answers(Asked.url)
    BY <1>1, <1>8, <1>14 DEF KeysDue, Tells, Answers, Asked
  <2>2. lost' # lost + 1
    BY <1>14, <1>4, SMT DEF KeysDue, MetadataRight
  <2> QED
    BY <2>1, <2>2
<1>15. ASSUME KeysDue', p = platform.name, Asked.file = Keys PROVE Keys \in DOMAIN config'
  <2>1. config' = Written(config, {Asked.file}, platform.name)
    <3>1. Keys # User
      BY SMT DEF Keys, User
    <3>2. Answers(Asked.url) /\ lost' # lost + 1
      BY <1>14, <1>15
    <3>3. Answered
      BY <3>2 DEF Request
    <3> QED
      BY <1>15, <3>1, <3>3 DEF Answered
  <2> QED
    BY <1>15, <2>1 DEF Written
<1>16. ASSUME KeysDue', p = platform.name, NEW i \in DOMAIN e, e[i].file = Keys, md' = "extract" => i < look'
       PROVE  Keys \in DOMAIN config'
  <2>1. CASE i < look
    BY <1>1, <1>7, <1>8, <1>16, <2>1 DEF MetadataRight, Extracting
  <2>2. CASE i = look
    BY <1>15, <1>16, <2>2 DEF Asked
  <2>3. i \in Nat /\ look \in Nat /\ i <= Len(e) /\ Len(e) \in Nat
    BY <1>1, <1>3, SMT DEF Asks
  <2>4. CASE md' = "extract"
    BY <1>11, <1>16, <2>1, <2>2, <2>3, <2>4, SMT
  <2>5. CASE md' = "finish"
    <3>1. look = Len(e)
      BY <1>13, <1>14, <1>16, <2>5 DEF Needs
    <3> QED
      BY <2>1, <2>2, <2>3, <3>1, SMT
  <2> QED
    BY <1>1, <2>4, <2>5
<1> QED
  BY <1>1, <1>4, <1>5, <1>9, <1>10, <1>12, <1>16 DEF MetadataRight, Extracting

(* The end of main.                                                        *)
LEMMA FinishRight == ASSUME MetadataRight, UNCHANGED sysVars, Finish PROVE MetadataRight'
<1> DEFINE c == Written(config, {Provider}, Head(providers))
<1>1. /\ md = "finish" /\ md' = "idle" /\ UNCHANGED <<platform, providers, lost>>
      /\ Running /\ step = "run" /\ Extracting /\ providers # <<>> /\ providers \in Seq(Providers)
  BY DEF Finish, MetadataRight, Extracting
<1>2. config' = processUserData(c, userdata)
  BY DEF Finish
<1>3. Hostname \in DOMAIN config' => hostname' = config'[Hostname]
  BY DEF Finish, SethostnameFrom
<1>4. PICK fs : config' = c \/ config' = Written(c, fs, "user")
  BY <1>2 DEF processUserData
<1>5. DOMAIN c = DOMAIN config \cup {Provider} /\ c[Provider] = Head(providers)
  BY DEF Written
<1>6. DOMAIN config \subseteq DOMAIN config' /\ config'[Provider] \in {"user", Head(providers)}
  <2>1. CASE config' = c
    BY <1>5, <2>1
  <2>2. CASE config' = Written(c, fs, "user")
    <3>1. DOMAIN config' = DOMAIN c \cup fs
      BY <2>2 DEF Written
    <3>2. Provider \in fs => config'[Provider] = "user"
      BY <2>2 DEF Written
    <3>3. Provider \notin fs => config'[Provider] = c[Provider]
      BY <1>5, <2>2 DEF Written
    <3> QED
      BY <1>5, <3>1, <3>2, <3>3
  <2> QED
    BY <1>4, <2>1, <2>2
<1>7. UNCHANGED <<stage, step>> /\ stage \notin BeforeRcInit
  BY <1>1 DEF sysVars, Running, BeforeRcInit
<1>8. KeysDue' = KeysDue /\ Offers(platform.name)' = Offers(platform.name)
  BY <1>1 DEF KeysDue, Tells, Offers
<1>9. KeysThere'
  <2> SUFFICES ASSUME KeysDue, Offers(platform.name), config'[Provider] = platform.name PROVE Keys \in DOMAIN config'
    BY <1>1, <1>8 DEF KeysThere
  <2>1. Head(providers) = platform.name
    BY <1>6 DEF MetadataRight, Providers
  <2> QED
    BY <1>1, <1>6, <2>1 DEF MetadataRight, Offers
<1> QED
  BY <1>1, <1>3, <1>7, <1>9 DEF MetadataRight, NamedRight, Extracting

(* A container is started, metadata among them.                            *)
LEMMA LaunchRight == ASSUME MetadataRight, Launch PROVE MetadataRight'
<1>1. /\ md = "idle" /\ step' = "run" /\ Running /\ UNCHANGED <<stage, platform, look, userdata, config, hostname, lost>>
  BY DEF Launch, Stays, MetadataRight
<1>2. md' = "idle" \/ (md' = "probe" /\ providers' \in Seq(Providers))
  BY <1>1, ArgumentsAssumption DEF Launch, Start
<1>3. KeysThere' = KeysThere /\ NamedRight' = NamedRight /\ Running' = Running
  BY <1>1 DEF KeysThere, KeysDue, Tells, NamedRight, Running
<1> QED
  BY <1>1, <1>2, <1>3 DEF MetadataRight, Extracting

LEMMA RightNext == ASSUME MetadataRight, [Next]_vars PROVE MetadataRight'
<1>1. CASE Asking
  BY <1>1, ProbeRight, RequestRight, FinishRight DEF Asking, MetadataStep
<1>2. CASE Launch
  BY <1>2, LaunchRight
<1>3. CASE Halt \/ Crash
  BY <1>3, PowerMetadata DEF Halt, Crash
<1>4. CASE RcInit
  <2>1. DOMAIN config = {} /\ md = "idle" /\ stage' = "onboot" /\ UNCHANGED <<platform, md, config, lost>>
    BY <1>4 DEF RcInit, To, MetadataRight, BeforeRcInit, Running
  <2> QED
    BY <2>1 DEF MetadataRight, NamedRight, KeysThere, Extracting, BeforeRcInit
<1>5. CASE UNCHANGED <<stage, step, mdVars>>
  BY <1>5, SameMetadata
<1>6. CASE UNCHANGED vars \/ Programme \/ ToolFault \/ Write \/ WriteBack
  BY <1>5, <1>6 DEF vars, sysVars, Programme, ToolFault, Write, WriteBack
<1>7. CASE PowerOn \/ RootMoves \/ CopyFails
  <2>1. /\ UNCHANGED mdVars /\ stage \in BeforeRcInit
        /\ stage' \in BeforeRcInit \cup {"panic"}
    BY <1>7 DEF PowerOn, RootMoves, InitMain, CopyDirectories, MoveFiles, DeleteRest, SwitchRoot, RootStep, CopyFails, To, BeforeRcInit
  <2>2. md = "idle"
    BY <2>1 DEF MetadataRight, Running, BeforeRcInit
  <2> QED
    BY <2>1, <2>2, SameMetadata
<1>8. CASE Prepare \/ PrepareFails \/ BadConfig \/ SectionDone
  <2>1. step # "run" /\ UNCHANGED mdVars
    BY <1>8 DEF Prepare, PrepareFails, BadConfig, SectionDone, Follows
  <2>2. stage' = stage \/ stage' \in {"containerd", "term"}
    BY <1>8 DEF Prepare, PrepareFails, BadConfig, SectionDone, Stays, To
  <2> QED
    BY <2>1, <2>2, SameMetadata DEF MetadataRight, BeforeRcInit
<1>9. CASE Ended
  BY <1>9, SameMetadata DEF Ended, Waited, Stays, MetadataRight
<1>10. CASE StartServices \/ Shutdown \/ Terminate \/ Kill \/ Sync \/ unmountAll
  <2>1. UNCHANGED mdVars /\ ~Running /\ stage' \in {"up", "onshutdown", "kill", "sync", "unmount", "halt"}
    BY <1>10 DEF StartServices, Shutdown, Terminate, Kill, Sync, unmountAll, Quiet, To, Running
  <2> QED
    BY <2>1, SameMetadata DEF MetadataRight, BeforeRcInit
<1> QED
  BY <1>1, <1>2, <1>3, <1>4, <1>6, <1>7, <1>8, <1>9, <1>10 DEF Next, Runc, Stopping

(* Whatever the platform, the arguments of metadata and the requests that  *)
(* are lost: the host gets the name in /run/config, and the keys that its  *)
(* platform tells are there.                                               *)
THEOREM MetadataIsApplied == Spec => []MetadataApplied
<1>1. Init => MetadataRight
  <2> SUFFICES ASSUME Init PROVE MetadataRight
    OBVIOUS
  <2>1. platform.name \in Providers
    BY PlatformsAssumption DEF Init
  <2>2. lost = 0 /\ md = "idle" /\ DOMAIN config = {}
    BY DEF Init, NoFiles
  <2> QED
    BY <2>1, <2>2, SMT DEF MetadataRight, NamedRight, KeysThere, Extracting
<1>2. MetadataRight => MetadataApplied
  BY DEF MetadataRight, MetadataApplied
<1> QED
  BY <1>1, <1>2, RightNext, PTL DEF Spec

(* A step that changes at most the data of a drive's file system.          *)
Like(d) ==
  /\ disk'[d].size = disk[d].size /\ disk'[d].label = disk[d].label /\ disk'[d].parts = disk[d].parts
  /\ disk'[d].fs.start = disk[d].fs.start /\ disk'[d].fs.size = disk[d].fs.size

LEMMA LikeBefore ==
  ASSUME NEW d, Like(d)
  PROVE  /\ OnePart(d)' = OnePart(d) /\ HasTable(d)' = HasTable(d) /\ Only(d)' = Only(d)
         /\ \A s : Rest(d, s)' = Rest(d, s)
         /\ Used(d)' = Used(d) /\ Filled(d)' = Filled(d) /\ Grown(d)' = Grown(d) /\ Tabulated(d)' = Tabulated(d)
<1>1. OnePart(d)' = OnePart(d) /\ HasTable(d)' = HasTable(d) /\ Only(d)' = Only(d)
  BY DEF Like, OnePart, HasTable, Only
<1>2. \A s : Rest(d, s)' = Rest(d, s)
  BY DEF Like, Rest, LastLBA
<1>3. Used(d)' = Used(d)
  BY <1>1 DEF Like, Used, FsAt
<1>4. Sized(d)' = Sized(d)
  BY <1>1, <1>2 DEF Like, Sized
<1> QED
  BY <1>1, <1>2, <1>3, <1>4 DEF Like, Filled, Grown, Tabulated

(* No disk changes, and extend does not go on.                             *)
LEMMA GrowSteady ==
  ASSUME IInv, ExtendRight, \A d \in Names : Like(d), Onward,
         stage' = "off" => done' = {}, "extend" \in done' => "extend" \in done,
         \/ UNCHANGED <<prog, at, drive, part>>
         \/ /\ prog' # "extend" \/ at' = "start"
            /\ prog' = "format" /\ at' \in {"wait", "mkfs"} => prog = "format" /\ at \in {"wait", "mkfs"} /\ drive' = drive
            /\ NoFailure' /\ opts.stop => \A d \in Names \ {opts.force} : Filled(d)
  PROVE  ExtendRight'
<1>1. \A d \in Names : Tabulated(d)'
  BY LikeBefore DEF ExtendRight
<1>2. CASE UNCHANGED <<prog, at, drive, part>>
  <2>1. \A ls : Extends(ls)' = Extends(ls)
    BY <1>2 DEF Extends
  <2>2. ASSUME NEW d \in Names, Growing(d) PROVE Growing(d)'
    <3>1. Handled(d)' => Handled(d)
      BY <1>2 DEF Handled, Past
    <3> QED
      BY <1>2, <2>1, <2>2, <3>1, LikeBefore DEF Growing, Like
  <2>3. prog = "format" /\ at \in {"wait", "mkfs"} => drive \in Names
    BY DEF IInv, Picked
  <2>4. prog = "extend" /\ at # "start" => drive \in Names
    BY DEF ExtendRight, InHand
  <2>5. CASE drive \in Names
    <3>1. InHand'
      <4>1. OnePart(drive)' = OnePart(drive) /\ HasTable(drive)' = HasTable(drive) /\ Only(drive)' = Only(drive)
            /\ Rest(drive, First)' = Rest(drive, First) /\ Rest(drive, part.start)' = Rest(drive, part.start)
        BY <1>2, <2>5, LikeBefore DEF OnePart, HasTable, Only, Rest, Like, LastLBA
      <4> QED
        BY <1>2, <2>1, <4>1 DEF ExtendRight, InHand
    <3> QED
      BY <1>1, <2>2, <3>1 DEF ExtendRight, Onward
  <2>6. CASE drive \notin Names
    <3>1. InHand'
      BY <1>2, <2>3, <2>4, <2>6 DEF InHand, Extends
    <3> QED
      BY <1>1, <2>2, <3>1 DEF ExtendRight, Onward
  <2> QED
    BY <2>5, <2>6
<1>3. CASE /\ prog' # "extend" \/ at' = "start"
           /\ prog' = "format" /\ at' \in {"wait", "mkfs"} => prog = "format" /\ at \in {"wait", "mkfs"} /\ drive' = drive
           /\ NoFailure' /\ opts.stop => \A d \in Names \ {opts.force} : Filled(d)
  <2>1. ~Extends({"check", "delete"})' /\ ~Extends({"check", "delete", "create"})'
        /\ ~Extends({"activate", "resize", "recheck"})' /\ ~Extends({"check", "delete", "create", "activate", "resize"})'
    BY <1>3 DEF Extends
  <2>2. InHand'
    <3>1. CASE prog' = "format" /\ at' \in {"wait", "mkfs"}
      <4>1. drive \in Names /\ drive' = drive /\ OnePart(drive) /\ Only(drive) = [start |-> First, size |-> Rest(drive, First), linux |-> TRUE]
        BY <1>3, <3>1 DEF IInv, Picked, ExtendRight, InHand
      <4>2. OnePart(drive)' = OnePart(drive) /\ Only(drive)' = Only(drive) /\ Rest(drive, First)' = Rest(drive, First)
        BY <4>1, LikeBefore DEF OnePart, Only, Rest, Like, LastLBA
      <4> QED
        BY <2>1, <3>1, <4>1, <4>2 DEF InHand
    <3>2. CASE ~(prog' = "format" /\ at' \in {"wait", "mkfs"})
      BY <1>3, <2>1, <3>2 DEF InHand
    <3> QED
      BY <3>1, <3>2
  <2>3. ASSUME NoFailure', opts.stop, NEW d \in Names \ {opts.force} PROVE Growing(d)'
    <3>1. Growing(d) /\ Filled(d)
      BY <1>3, <2>3 DEF ExtendRight, Onward
    <3>2. Handled(d)' => Handled(d)
      BY <1>3 DEF Handled
    <3> QED
      BY <2>1, <3>1, <3>2, LikeBefore DEF Growing
  <2> QED
    BY <1>1, <2>2, <2>3 DEF ExtendRight, Onward
<1> QED
  BY <1>2, <1>3

LEMMA AllFilled ==
  ASSUME ExtendRight, NoFailure, opts.stop, ~Extends({"activate", "resize"})
  PROVE  \A d \in Names \ {opts.force} : Filled(d)
BY DEF ExtendRight, Growing

(* extend turns to the next drive, with the one it was at behind it, or    *)
(* ends with all of them behind it.                                        *)
LEMMA Onto ==
  ASSUME ExtendRight, prog = "extend", at # "start", NextDrive, opts' = opts, stage' # "off",
         \A d \in Names : Tabulated(d)',
         NoFailure' /\ opts.stop => \A d \in Names \ {opts.force} : Filled(d)' /\ (Handled(d) \/ d = drive => Grown(d)')
  PROVE  ExtendRight'
<1>1. \E k \in DOMAIN Drives : Drives[k] = drive
  BY DEF ExtendRight, InHand, Names, Range
<1>2. PICK k \in DOMAIN Drives : Drives[k] = drive /\ Following(drive) = k + 1
  BY <1>1 DEF Following
<1>3. DOMAIN Drives = 1 .. Len(Drives) /\ Len(Drives) \in Nat
  BY DrivesAssumption, SMT
<1>4. CASE k + 1 \in DOMAIN Drives
  <2>1. prog' = "extend" /\ at' = "read" /\ drive' = Drives[k + 1] /\ done' = done
    BY <1>2, <1>4 DEF NextDrive, Goto
  <2>2. drive' \in Names
    BY <1>4, <2>1 DEF Names, Range
  <2>3. ASSUME NEW d, Handled(d)' PROVE Handled(d) \/ d = drive
    <3>1. CASE "extend" \in done
      BY <3>1 DEF Handled
    <3>2. CASE Past(d)'
      <4>1. PICK i, j \in DOMAIN Drives : i < j /\ Drives[i] = d /\ Drives[j] = drive'
        BY <3>2 DEF Past
      <4>2. j = k + 1
        BY <1>4, <2>1, <4>1, DrivesAssumption
      <4>3. i = k \/ i < k
        BY <1>3, <4>1, <4>2, SMT
      <4> QED
        BY <1>2, <4>1, <4>3 DEF Handled, Past
    <3> QED
      BY <2>1, <2>3, <3>1, <3>2 DEF Handled
  <2>4. InHand' /\ ~Extends({"activate", "resize"})' /\ ~Extends({"check", "delete", "create", "activate", "resize"})'
    BY <2>1, <2>2 DEF InHand, Extends
  <2> QED
    BY <2>3, <2>4 DEF ExtendRight, Growing
<1>5. CASE k + 1 \notin DOMAIN Drives
  <2>1. prog' = "none" /\ at' = "start"
    BY <1>2, <1>5 DEF NextDrive, Exit
  <2>2. ASSUME NEW d \in Names PROVE Handled(d) \/ d = drive
    <3>1. PICK i \in DOMAIN Drives : Drives[i] = d
      BY DEF Names, Range
    <3>2. i = k \/ i < k
      BY <1>3, <1>5, <3>1, SMT
    <3> QED
      BY <1>2, <3>1, <3>2 DEF Handled, Past
  <2>3. InHand' /\ ~Extends({"activate", "resize"})' /\ ~Extends({"check", "delete", "create", "activate", "resize"})'
    BY <2>1 DEF InHand, Extends
  <2> QED
    BY <2>2, <2>3 DEF ExtendRight, Growing
<1> QED
  BY <1>4, <1>5

(* A step of a program fails.                                              *)
LEMMA FailGrows ==
  ASSUME IInv, ExtendRight, prog # "none", at # "start", Fail, disk' = disk, stage' = stage, Onward,
         NoFailure' /\ opts.stop => \A d \in Names \ {opts.force} : Filled(d)
  PROVE  ExtendRight'
<1>1. \A d \in Names : Like(d)
  BY DEF Like
<1>2. stage' # "off"
  BY DEF IInv, OneProgram, Running
<1>3. CASE prog = "extend" /\ ~opts.stop
  <2>1. NextDrive
    BY <1>3 DEF Fail
  <2>2. \A d \in Names : Tabulated(d)'
    BY <1>1, LikeBefore DEF ExtendRight
  <2> QED
    BY <1>2, <1>3, <2>1, <2>2, Onto DEF Onward
<1>4. CASE ~(prog = "extend" /\ ~opts.stop)
  <2>1. prog' = "none" /\ done' = done
    BY <1>4 DEF Fail, Abort
  <2> QED
    BY <1>1, <1>2, <2>1, GrowSteady
<1> QED
  BY <1>3, <1>4

(* The steps of the system.                                                *)
LEMMA QuietGrow ==
  ASSUME IInv, disk' = disk \/ \E ds : Flush(ds)
  PROVE  \A d \in Names : Like(d)
<1>1. \A d \in Names : Shaped(disk[d])
  BY DrivesOK DEF IInv, DrivesShaped
<1>2. CASE disk' = disk
  BY <1>2 DEF Like
<1>3. CASE \E ds : Flush(ds)
  <2>1. ASSUME NEW d \in Names, NEW v, disk'[d] = [disk[d] EXCEPT !.fs.data = v] PROVE Like(d)
    BY <1>1, <2>1 DEF Shaped, Like
  <2>2. \A d \in Names : disk'[d] = disk[d] \/ \E v : disk'[d] = [disk[d] EXCEPT !.fs.data = v]
    BY <1>3 DEF Flush
  <2> QED
    BY <2>1, <2>2 DEF Like
<1> QED
  BY <1>2, <1>3

LEMMA PowerGrows == ASSUME IInv, ExtendRight, PowerOn PROVE ExtendRight'
<1>1. prog' = "none" /\ done' = {} /\ opts' = opts /\ stage' # "off" /\ NoFailure' = NoFailure /\ prog = "none"
  BY DEF PowerOn, ExtendRight, IInv, OneProgram, Running, NoFailure
<1>2. ASSUME NEW d \in Names
      PROVE  Tabulated(d)' /\ disk'[d].label = disk[d].label /\ disk'[d].parts = disk[d].parts /\ disk'[d].fs = disk[d].fs
  <2>1. Shaped(disk[d]) /\ Tabulated(d)
    BY DrivesOK DEF IInv, DrivesShaped, ExtendRight
  <2>2. PICK s \in [Names -> {0, 1}] : disk'[d] = [disk[d] EXCEPT !.size = IF disk[d].size < MaxSize THEN disk[d].size + s[d] ELSE disk[d].size]
    BY DEF PowerOn
  <2>3. disk'[d].size = (IF disk[d].size < MaxSize THEN disk[d].size + s[d] ELSE disk[d].size)
        /\ disk'[d].label = disk[d].label /\ disk'[d].parts = disk[d].parts /\ disk'[d].fs = disk[d].fs
    BY <2>1, <2>2 DEF Shaped
  <2>4. disk'[d].size \in Int
    <3>1. disk[d].size \in Int /\ s[d] \in {0, 1}
      BY <2>1 DEF Tabulated
    <3> QED
      BY <2>3, <3>1, SMT
  <2> QED
    BY <2>1, <2>3, <2>4 DEF Tabulated, OnePart, HasTable, Only
<1>3. ASSUME NoFailure, opts.stop, NEW d \in Names \ {opts.force} PROVE Growing(d)'
  <2>1. Filled(d)
    BY <1>1, <1>3, AllFilled DEF Extends
  <2>2. Filled(d)'
    BY <1>2, <2>1 DEF Filled, Used, OnePart, FsAt, Only
  <2> QED
    BY <1>1, <2>2 DEF Growing, Handled, Extends
<1>4. InHand'
  BY <1>1 DEF InHand, Extends
<1> QED
  BY <1>1, <1>2, <1>3, <1>4 DEF ExtendRight

LEMMA SystemGrows ==
  ASSUME IInv, TablesKept, ExtendRight,
         \/ PowerOn \/ RootMoves \/ CopyFails \/ RcInit \/ Runc \/ PrepareFails \/ BadConfig \/ Asking \/ ToolFault
         \/ StartServices \/ Write \/ WriteBack \/ Shutdown \/ Stopping \/ Crash
  PROVE  ExtendRight'
<1>0. crashes \in Nat /\ faults \in Nat /\ crashes + 1 \in Nat /\ faults + 1 \in Nat /\ crashes + 1 # 0 /\ faults + 1 # 0
  BY SMT DEF TablesKept
<1>1. CASE /\ UNCHANGED <<opts, prog, at, drive, part, done, faults, crashes>> /\ (disk' = disk \/ \E ds : Flush(ds))
           /\ stage' = "off" => stage = "off"
  <2>1. Onward
    BY <1>0, <1>1 DEF Onward, NoFailure
  <2> QED
    BY <1>1, <2>1, QuietGrow, GrowSteady DEF ExtendRight
<1>2. CASE UNCHANGED <<opts, prog, at, drive, part, done, crashes, disk>> /\ Fault /\ (stage' = "off" => stage = "off")
  <2>1. Onward
    BY <1>0, <1>2 DEF Onward, NoFailure, Fault
  <2> QED
    BY <1>2, <2>1, QuietGrow, GrowSteady DEF ExtendRight
<1>3. CASE RootMoves
  <2>1. UNCHANGED <<diskVars, crashes>> /\ stage' # "off"
    BY <1>3 DEF RootMoves, InitMain, CopyDirectories, MoveFiles, DeleteRest, SwitchRoot, RootStep, To
  <2> QED
    BY <1>1, <2>1 DEF diskVars
<1>4. CASE RcInit \/ Prepare \/ Ended \/ SectionDone
  <2>1. UNCHANGED <<diskVars, crashes>> /\ (stage' = "off" => stage = "off")
    BY <1>4 DEF RcInit, Prepare, Ended, SectionDone, Stays, To
  <2> QED
    BY <1>1, <2>1 DEF diskVars
<1>5. CASE Asking
  BY <1>1, <1>5 DEF Asking, sysVars, diskVars
<1>6. CASE CopyFails \/ PrepareFails \/ BadConfig
  BY <1>2, <1>6 DEF CopyFails, PrepareFails, BadConfig, Stays, To
<1>7. CASE StartServices \/ Write \/ Shutdown \/ Terminate \/ Kill \/ unmountAll
  <2>1. UNCHANGED <<disk, opts, prog, at, drive, part, done, faults, crashes>> /\ (stage' = "off" => stage = "off")
    BY <1>7 DEF StartServices, Write, Shutdown, Terminate, Kill, unmountAll, Quiet, To, diskVars
  <2> QED
    BY <1>1, <2>1
<1>8. CASE WriteBack \/ Sync
  <2>1. UNCHANGED <<opts, prog, at, drive, part, done, faults, crashes>> /\ (stage' = "off" => stage = "off") /\ \E ds : Flush(ds)
    BY <1>8 DEF WriteBack, Sync, Quiet, To
  <2> QED
    BY <1>1, <2>1
<1>9. CASE Launch
  <2>1. UNCHANGED <<disk, opts, at, drive, part, done, faults, crashes, stage>> /\ step = "start"
    BY <1>9 DEF Launch, Stays
  <2>2. prog = "none" /\ at = "start"
    BY <2>1 DEF IInv, OneProgram
  <2>3. Onward
    BY <1>0, <2>1 DEF Onward, NoFailure
  <2>4. NoFailure /\ opts.stop => \A d \in Names \ {opts.force} : Filled(d)
    BY <2>2, AllFilled DEF Extends
  <2>5. stage' = "off" => done' = {}
    BY <2>1 DEF ExtendRight
  <2> QED
    BY <2>1, <2>2, <2>3, <2>4, <2>5, QuietGrow, GrowSteady DEF Onward
<1>10. CASE Halt
  <2>1. UNCHANGED <<disk, opts, faults, crashes>> /\ stage = "halt" /\ prog' = "none" /\ done' = {}
    BY <1>10 DEF Halt, Off
  <2>2. prog = "none"
    BY <2>1 DEF IInv, OneProgram, Running
  <2>3. Onward
    BY <1>0, <2>1 DEF Onward, NoFailure
  <2>4. NoFailure /\ opts.stop => \A d \in Names \ {opts.force} : Filled(d)
    BY <2>2, AllFilled DEF Extends
  <2> QED
    BY <2>1, <2>3, <2>4, QuietGrow, GrowSteady DEF Onward
<1>11. CASE Crash
  <2>1. UNCHANGED <<disk, opts, faults>> /\ crashes' = crashes + 1 /\ prog' = "none" /\ done' = {}
    BY <1>11 DEF Crash, Off
  <2>2. Onward /\ ~NoFailure'
    BY <1>0, <2>1 DEF Onward, NoFailure
  <2> QED
    BY <2>1, <2>2, QuietGrow, GrowSteady
<1>12. CASE ToolFault
  <2>1. UNCHANGED <<disk, opts, crashes, stage>> /\ faults' = faults + 1 /\ Fail /\ prog # "none" /\ at # "start"
    BY <1>12 DEF ToolFault, ToolFails, sysVars
  <2>2. Onward /\ ~NoFailure'
    BY <1>0, <2>1 DEF Onward, NoFailure
  <2> QED
    BY <2>1, <2>2, FailGrows
<1> QED
  BY <1>3, <1>4, <1>5, <1>6, <1>7, <1>8, <1>9, <1>10, <1>11, <1>12, PowerGrows DEF Runc, Stopping

(* A program goes on with its drive.                                       *)
LEMMA OneDrive ==
  ASSUME IInv, ExtendRight, Onward, stage' = stage, prog # "none", at # "start",
         UNCHANGED <<prog, drive, done>>, \A d \in Names : d # drive => Like(d), InHand', Tabulated(drive)',
         NoFailure /\ opts.stop /\ drive # opts.force /\ Growing(drive) => Growing(drive)'
  PROVE  ExtendRight'
<1>1. stage' # "off"
  BY DEF IInv, OneProgram, Running
<1>2. \A d \in Names : Tabulated(d)'
  BY LikeBefore DEF ExtendRight
<1>3. ASSUME NoFailure, opts.stop, NEW d \in Names \ {opts.force} PROVE Growing(d)'
  <2>1. Growing(d)
    BY <1>3 DEF ExtendRight
  <2>2. CASE d # drive
    <3>1. Handled(d)' => Handled(d)
      BY DEF Handled, Past
    <3>2. Filled(d) /\ (Handled(d) => Grown(d))
      BY <2>1, <2>2 DEF Growing
    <3> QED
      BY <2>2, <3>1, <3>2, LikeBefore DEF Growing
  <2> QED
    BY <1>3, <2>1, <2>2
<1> QED
  BY <1>1, <1>2, <1>3 DEF ExtendRight, Onward

LEMMA Remade ==
  ASSUME IInv, drive \in Names, NEW v, NEW l,
         \/ SetDisk(drive, [disk[drive] EXCEPT !.parts = v]) /\ l = disk[drive].label
         \/ SetDisk(drive, [disk[drive] EXCEPT !.label = l, !.parts = v])
  PROVE  /\ \A d \in Names : d # drive => Like(d)
         /\ disk'[drive].parts = v /\ disk'[drive].label = l
         /\ disk'[drive].size = disk[drive].size /\ disk'[drive].fs = disk[drive].fs
<1>1. DrivesShaped(disk) /\ Shaped(disk[drive])
  BY DrivesOK DEF IInv, DrivesShaped
<1>2. ASSUME NEW d \in Names, d # drive PROVE Like(d)
  BY <1>1, <1>2 DEF SetDisk, DrivesShaped, Like
<1>3. \/ disk'[drive] = [disk[drive] EXCEPT !.parts = v] /\ l = disk[drive].label
      \/ disk'[drive] = [disk[drive] EXCEPT !.label = l, !.parts = v]
  BY <1>1 DEF SetDisk, DrivesShaped
<1>4. DOMAIN disk[drive] = {"size", "label", "parts", "fs"}
  BY <1>1 DEF Shaped
<1> QED
  BY <1>2, <1>3, <1>4

(* Where a partition that reaches to the end ends is a number.             *)
LEMMA RestInt == ASSUME NEW d, disk[d].size \in Int, NEW s \in Int PROVE Rest(d, s) \in Int
BY DrivesAssumption, SMT DEF Rest, LastLBA

(* format makes a file system that fills the only partition, and changes   *)
(* no other but on the drive that was forced on it.                        *)
LEMMA FormatGrows ==
  ASSUME IInv, ExtendRight, TablesKept, Format_, UNCHANGED sysVars
  PROVE  ExtendRight'
<1>0. /\ prog = "format" /\ UNCHANGED <<opts, faults, crashes, part, stage>> /\ NoFailure' = NoFailure /\ stage # "off"
      /\ crashes \in Nat /\ faults \in Nat
  BY DEF Format_, Format, ClearTable, WriteTable, MakePartition, refreshDevicesAndWaitFor, Mkfs, Step, sysVars,
         NoFailure, TablesKept, IInv, OneProgram, Running
<1>1. Onward /\ (NoFailure' /\ opts.stop => \A d \in Names \ {opts.force} : Filled(d))
  BY <1>0, AllFilled DEF Onward, Extends
<1>2. CASE Format
  <2>1. disk' = disk /\ at' \in {"clear", "fdisk", "start"} /\ prog' \in {"format", "none"} /\ done' = done
    BY <1>0, <1>2 DEF Format, Goto, Abort
  <2> QED
    BY <1>0, <1>1, <2>1, QuietGrow, GrowSteady
<1>3. at # "start" => drive \in Names /\ Tabulated(drive) /\ disk[drive].size \in Int /\ First \in Int
                      /\ (drive # opts.force => disk[drive].fs.start \in Int /\ ~(disk[drive].fs.start >= 0))
  <2>1. First \in Int
    BY DrivesAssumption, SMT
  <2> QED
    BY <1>0, <2>1 DEF IInv, Picked, ExtendRight, Tabulated, HasFs, DisksOK
<1>4. ASSUME at # "start", UNCHANGED <<prog, drive, done>>, \A d \in Names : d # drive => Like(d), InHand', Tabulated(drive)',
             drive # opts.force => ~Used(drive)'
      PROVE  ExtendRight'
  <2>1. drive # opts.force => Growing(drive)'
    BY <1>0, <1>4 DEF Growing, Filled, Grown, Extends
  <2> QED
    BY <1>0, <1>1, <1>4, <2>1, OneDrive
<1>5. ASSUME at # "start", at' \in {"fdisk", "sfdisk"}, UNCHANGED <<prog, drive, done>>, \A d \in Names : d # drive => Like(d),
             disk'[drive].parts = <<>>, disk'[drive].size = disk[drive].size
      PROVE  ExtendRight'
  <2>1. ~OnePart(drive)'
    BY <1>5, Short DEF OnePart
  <2>2. InHand' /\ Tabulated(drive)' /\ ~Used(drive)'
    BY <1>0, <1>3, <1>5, <2>1 DEF InHand, Extends, Tabulated, Used
  <2> QED
    BY <1>4, <1>5, <2>2
<1>6. CASE ClearTable
  <2>1. SetDisk(drive, [disk[drive] EXCEPT !.parts = <<>>]) /\ at = "clear" /\ at' = "fdisk" /\ UNCHANGED <<prog, drive, done>>
    BY <1>6 DEF ClearTable, Step, Goto
  <2> QED
    BY <1>3, <1>5, <2>1, Remade
<1>7. CASE WriteTable
  <2>1. at = "fdisk" /\ at' = "sfdisk" /\ UNCHANGED <<prog, drive, done>>
    BY <1>7 DEF WriteTable, Step, Goto
  <2>2. CASE SetDisk(drive, [disk[drive] EXCEPT !.label = opts.label, !.parts = <<>>])
    BY <1>3, <1>5, <2>1, <2>2, Remade
  <2>3. CASE SetDisk(drive, disk[drive])
    <3>1. disk' = disk
      BY <2>3, DrivesOK DEF IInv, DrivesShaped, SetDisk
    <3> QED
      BY <1>0, <1>1, <2>1, <3>1, QuietGrow, GrowSteady
  <2> QED
    BY <1>7, <2>2, <2>3 DEF WriteTable
<1>8. CASE MakePartition
  <2> DEFINE r == Rest(drive, First)
  <2>1. at = "sfdisk" /\ at' = "wait" /\ UNCHANGED <<prog, drive, done>>
    BY <1>8 DEF MakePartition, Step, Goto
  <2>2. PICK p : p = [start |-> First, size |-> r, linux |-> TRUE] /\ SetDisk(drive, [disk[drive] EXCEPT !.parts = <<p>>])
    BY <1>8 DEF MakePartition
  <2>3. /\ \A d \in Names : d # drive => Like(d)
        /\ disk'[drive].parts = <<p>> /\ disk'[drive].label = disk[drive].label
        /\ disk'[drive].size = disk[drive].size /\ disk'[drive].fs = disk[drive].fs
    BY <1>3, <2>1, <2>2, Remade
  <2>4. OnePart(drive)' /\ Only(drive)' = p
    BY <2>1, <2>3, Short, SMT DEF OnePart, Only
  <2>5. Rest(drive, First)' = r /\ HasTable(drive)'
    BY <1>0, <2>1, <2>3 DEF Rest, LastLBA, HasTable, IInv, Picked
  <2>6. r \in Int
    BY <1>3, <2>1, RestInt
  <2>7. InHand'
    BY <1>0, <2>1, <2>2, <2>4, <2>5 DEF InHand, Extends
  <2>8. Tabulated(drive)'
    BY <1>3, <2>1, <2>2, <2>3, <2>4, <2>5, <2>6 DEF Tabulated
  <2>9. drive # opts.force => ~Used(drive)'
    <3>1. drive # opts.force => disk[drive].fs.start # First
      BY <1>3, <2>1, DrivesAssumption, SMT
    <3> QED
      BY <2>1, <2>2, <2>3, <2>4, <3>1 DEF Used, FsAt
  <2> QED
    BY <1>4, <2>1, <2>3, <2>7, <2>8, <2>9
<1>9. CASE refreshDevicesAndWaitFor
  <2>1. disk' = disk /\ at = "wait" /\ drive' = drive /\ done' = done /\ (prog' = "none" \/ (prog' = "format" /\ at' = "mkfs"))
    BY <1>0, <1>9 DEF refreshDevicesAndWaitFor, Abort, Goto
  <2> QED
    BY <1>0, <1>1, <2>1, QuietGrow, GrowSteady
<1>10. CASE Mkfs
  <2>1. /\ at = "mkfs" /\ prog' = "none" /\ at' = "start" /\ drive' = drive /\ done' = done \cup {"format"}
    BY <1>0, <1>10 DEF Mkfs, Exit
  <2>2. PICK z : z = Only(drive).size /\ disk' = [disk EXCEPT ![drive] = [disk[drive] EXCEPT !.fs = [start |-> First, size |-> z, data |-> 0]]]
    BY <1>10 DEF Mkfs, SetDisk, Only
  <2>3. DrivesShaped(disk) /\ Shaped(disk[drive])
    BY <1>3, <2>1, DrivesOK DEF IInv, DrivesShaped
  <2>4. \A d \in Names : d # drive => Like(d)
    BY <2>2, <2>3 DEF DrivesShaped, Like
  <2>5. /\ disk'[drive].parts = disk[drive].parts /\ disk'[drive].label = disk[drive].label
        /\ disk'[drive].size = disk[drive].size /\ disk'[drive].fs.size = z
    <3>1. disk'[drive] = [disk[drive] EXCEPT !.fs = [start |-> First, size |-> z, data |-> 0]]
      BY <1>3, <2>1, <2>2, <2>3 DEF DrivesShaped
    <3>2. DOMAIN disk[drive] = {"size", "label", "parts", "fs"}
      BY <2>3 DEF Shaped
    <3> QED
      BY <3>1, <3>2, SMT
  <2>6. OnePart(drive)' = OnePart(drive) /\ Only(drive)' = Only(drive) /\ HasTable(drive)' = HasTable(drive)
        /\ \A f : Rest(drive, f)' = Rest(drive, f)
    BY <2>1, <2>5 DEF OnePart, Only, HasTable, Rest, LastLBA
  <2>7. Only(drive).start = First /\ Only(drive).size = Rest(drive, First)
    BY <1>0, <2>1 DEF ExtendRight, InHand
  <2>8. Tabulated(drive)'
    BY <1>3, <2>1, <2>5, <2>6 DEF Tabulated
  <2>9. \A d \in Names : Tabulated(d)'
    BY <2>1, <2>4, <2>8, LikeBefore DEF ExtendRight
  <2>10. Filled(drive)' /\ Grown(drive)'
    <3>1. Sized(drive)'
      BY <2>1, <2>6, <2>7 DEF Sized
    <3> QED
      BY <2>1, <2>2, <2>5, <2>6, <3>1 DEF Filled, Grown
  <2>11. ASSUME NoFailure', opts.stop, NEW d \in Names \ {opts.force} PROVE Growing(d)'
    <3>1. Filled(d) /\ (Handled(d) => Grown(d))
      BY <1>0, <1>1, <2>11 DEF ExtendRight, Growing
    <3>2. Handled(d)' => Handled(d)
      BY <2>1 DEF Handled
    <3>3. Filled(d)' /\ (Handled(d)' => Grown(d)')
      BY <2>1, <2>4, <2>10, <3>1, <3>2, LikeBefore
    <3> QED
      BY <2>1, <3>3 DEF Growing, Extends
  <2>12. InHand'
    BY <2>1 DEF InHand, Extends
  <2> QED
    BY <1>0, <2>9, <2>11, <2>12 DEF ExtendRight
<1> QED
  BY <1>2, <1>6, <1>7, <1>8, <1>9, <1>10 DEF Format_

(* What Full says of the only partition.                                   *)
LEMMA FullIsSized ==
  ASSUME NEW d, disk[d].size \in Int, Only(d).start \in Int, Only(d).size \in Int
  PROVE  /\ Full(d) => Sized(d)
         /\ Sized(d) /\ ~Full(d) => Only(d).size = Rest(d, Only(d).start)
<1> DEFINE a == Only(d).start
           b == Only(d).size
           l == LastLBA(d)
<1>1. l \in Int
  BY DrivesAssumption, SMT DEF LastLBA
<1>2. CASE disk[d].label = "gpt"
  <2>1. Full(d) <=> a + b = l
    BY <1>2 DEF Full, Only
  <2>2. Rest(d, a) = l + 1 - a /\ (Sized(d) <=> b \in {Rest(d, a), Rest(d, a) - 1})
    BY <1>2 DEF Rest, Sized
  <2> HIDE DEF a, b, l
  <2> QED
    BY <1>1, <2>1, <2>2, SMT DEF a, b
<1>3. CASE disk[d].label # "gpt"
  <2>1. Full(d) <=> a + b = disk[d].size
    BY <1>3 DEF Full, Only
  <2>2. Rest(d, a) = disk[d].size - a /\ (Sized(d) <=> b \in {Rest(d, a), Rest(d, a) - 0})
    BY <1>3 DEF Rest, Sized
  <2> HIDE DEF a, b, l
  <2> QED
    BY <2>1, <2>2, SMT DEF a, b
<1> QED
  BY <1>2, <1>3

(* extend leaves each drive that it is done with in its full size.         *)
LEMMA ExtendGrows ==
  ASSUME IInv, ExtendRight, TablesKept, Extend_, UNCHANGED sysVars
  PROVE  ExtendRight'
<1>0. /\ prog = "extend" /\ UNCHANGED <<opts, faults, crashes, stage>> /\ NoFailure' = NoFailure /\ stage # "off"
      /\ crashes \in Nat /\ faults \in Nat
  BY DEF Extend_, Extend, ReadTable, Check, DeletePartition, CreatePartition, Activate, Resize, Recheck, Step, sysVars,
         NoFailure, TablesKept, IInv, OneProgram, Running
<1>1. Onward
  BY <1>0 DEF Onward
<1>2. at # "start" => drive \in Names /\ Tabulated(drive) /\ disk[drive].size \in Int
  BY <1>0 DEF ExtendRight, InHand, Tabulated
<1>3. ASSUME at \notin {"start", "activate", "resize"}, disk' = disk, NextDrive,
             NoFailure /\ opts.stop /\ drive # opts.force /\ Filled(drive) => Grown(drive)
      PROVE  ExtendRight'
  <2>1. \A d \in Names : Like(d)
    BY <1>3 DEF Like
  <2>2. \A d \in Names : Tabulated(d)'
    BY <2>1, LikeBefore DEF ExtendRight
  <2>3. ASSUME NoFailure, opts.stop, NEW d \in Names \ {opts.force}
        PROVE  Filled(d)' /\ (Handled(d) \/ d = drive => Grown(d)')
    <3>1. Filled(d) /\ (Handled(d) => Grown(d))
      BY <1>3, <2>3 DEF ExtendRight, Growing, Extends
    <3> QED
      BY <1>3, <2>1, <2>3, <3>1, LikeBefore
  <2> QED
    BY <1>0, <1>3, <2>2, <2>3, Onto
<1>4. ASSUME at \notin {"start", "activate", "resize"}, disk' = disk, Fail PROVE ExtendRight'
  <2>1. NoFailure' /\ opts.stop => \A d \in Names \ {opts.force} : Filled(d)
    BY <1>0, <1>4, AllFilled DEF Extends
  <2> QED
    BY <1>0, <1>1, <1>4, <2>1, FailGrows
<1>5. ASSUME at # "start", disk' = disk, UNCHANGED <<prog, drive, done>>, InHand',
             NoFailure /\ opts.stop /\ drive # opts.force /\ Growing(drive) => Growing(drive)'
      PROVE  ExtendRight'
  <2>1. \A d \in Names : Like(d)
    BY <1>5 DEF Like
  <2>2. Tabulated(drive)'
    BY <1>2, <1>5 DEF Tabulated, OnePart, HasTable, Only
  <2> QED
    BY <1>0, <1>1, <1>5, <2>1, <2>2, OneDrive
<1>6. CASE Extend
  <2>1. CASE Drives = <<>>
    <3>1. Names = {}
      BY <2>1, SMT DEF Names, Range
    <3>2. prog' = "none"
      BY <1>6, <2>1 DEF Extend, Exit
    <3> QED
      BY <1>0, <3>1, <3>2 DEF ExtendRight, InHand, Extends
  <2>2. CASE Drives # <<>>
    <3>1. disk' = disk /\ prog' = "extend" /\ at' = "read" /\ drive' = Drives[1] /\ done' = done /\ at = "start"
      BY <1>0, <1>6, <2>2 DEF Extend, Goto
    <3>2. 1 \in DOMAIN Drives /\ \A i \in DOMAIN Drives : ~(i < 1)
      BY <2>2, DrivesAssumption, SMT
    <3>3. drive' \in Names
      BY <3>1, <3>2 DEF Names, Range
    <3>4. InHand'
      BY <3>1, <3>3 DEF InHand, Extends
    <3>5. \A d : ~Past(d)'
      BY <3>1, <3>2, DrivesAssumption DEF Past
    <3>6. \A d \in Names : Like(d)
      BY <3>1 DEF Like
    <3>7. ASSUME NoFailure, opts.stop, NEW d \in Names \ {opts.force} PROVE Growing(d)'
      <4>1. Filled(d) /\ ("extend" \in done => Grown(d))
        BY <3>1, <3>7 DEF ExtendRight, Growing, Extends, Handled
      <4> QED
        BY <3>1, <3>5, <3>6, <4>1, LikeBefore DEF Growing, Handled, Extends
    <3> QED
      BY <1>0, <3>4, <3>6, <3>7, LikeBefore DEF ExtendRight
  <2> QED
    BY <2>1, <2>2
<1>7. CASE ReadTable
  <2>1. at = "read" /\ disk' = disk
    BY <1>7 DEF ReadTable
  <2>2. CASE ~HasTable(drive) \/ ~OnePart(drive)
    <3>1. NextDrive /\ Grown(drive)
      BY <1>2, <1>7, <2>1, <2>2 DEF ReadTable, Tabulated, Grown, Used
    <3> QED
      BY <1>3, <2>1, <3>1
  <2>3. CASE HasTable(drive) /\ OnePart(drive)
    <3>1. Only(drive).start \in Int /\ Only(drive).size \in Int
      BY <1>2, <2>1, <2>3 DEF Tabulated
    <3>2. CASE ~Only(drive).linux
      BY <1>4, <1>7, <2>1, <2>3, <3>2 DEF ReadTable, Only
    <3>3. CASE Only(drive).linux /\ Full(drive)
      <4>1. NextDrive
        BY <1>7, <2>3, <3>3 DEF ReadTable, Only
      <4>2. Filled(drive) => Grown(drive)
        BY <1>2, <2>1, <3>1, <3>3, FullIsSized DEF Filled, Grown
      <4> QED
        BY <1>3, <2>1, <4>1, <4>2
    <3>4. CASE Only(drive).linux /\ ~Full(drive)
      <4>1. at' \in {"check", "delete"} /\ UNCHANGED <<prog, drive, done>> /\ part' = Only(drive)
        BY <1>7, <2>3, <3>4 DEF ReadTable, Only, Goto
      <4>2. InHand'
        BY <1>0, <1>2, <2>1, <2>3, <3>1, <4>1 DEF InHand, Extends, Only, OnePart, HasTable
      <4>3. ASSUME Growing(drive) PROVE Growing(drive)'
        <5>1. Filled(drive) /\ (Handled(drive) => Grown(drive))
          BY <2>1, <4>3 DEF Growing, Extends
        <5>2. Handled(drive)' => Handled(drive)
          BY <1>0, <2>1, <4>1 DEF Handled, Past
        <5>3. Like(drive)
          BY <2>1 DEF Like
        <5>4. Filled(drive)' /\ Grown(drive)' = Grown(drive)
          BY <4>1, <5>1, <2>1 DEF Filled, Grown, Used, Only, OnePart, FsAt, Sized, Rest, LastLBA
        <5>5. ASSUME "extend" \in done, disk[drive].fs.start = Only(drive).start
              PROVE  disk[drive].fs.size = Rest(drive, Only(drive).start)
          <6>1. Grown(drive)
            BY <5>1, <5>5 DEF Handled
          <6>2. Sized(drive) /\ disk[drive].fs.size = Only(drive).size
            BY <2>3, <3>4, <5>5, <6>1 DEF Grown, Used, FsAt
          <6> QED
            BY <1>2, <2>1, <3>1, <3>4, <6>2, FullIsSized
        <5>6. Rest(drive, part.start)' = Rest(drive, Only(drive).start)
          BY <2>1, <4>1 DEF Rest, LastLBA
        <5> QED
          BY <2>1, <4>1, <5>1, <5>2, <5>4, <5>5, <5>6 DEF Growing
      <4> QED
        BY <1>5, <2>1, <4>1, <4>2, <4>3
    <3> QED
      BY <3>2, <3>3, <3>4
  <2> QED
    BY <2>2, <2>3
<1>8. ASSUME disk' = disk, UNCHANGED <<prog, drive, done, part>>,
             (at = "check" /\ at' = "delete") \/ (at = "activate" /\ at' = "resize")
      PROVE  ExtendRight'
  <2>1. OnePart(drive)' = OnePart(drive) /\ HasTable(drive)' = HasTable(drive) /\ Only(drive)' = Only(drive)
        /\ Rest(drive, part.start)' = Rest(drive, part.start)
    BY <1>8 DEF OnePart, HasTable, Only, Rest, LastLBA
  <2>2. InHand'
    BY <1>0, <1>8, <2>1 DEF ExtendRight, InHand, Extends
  <2>3. Filled(drive)' = Filled(drive) /\ Grown(drive)' = Grown(drive)
    BY <1>8 DEF Filled, Grown, Used, Only, OnePart, FsAt, Sized, Rest, LastLBA
  <2>4. Handled(drive)' => Handled(drive)
    BY <1>8 DEF Handled, Past
  <2>5. Growing(drive) => Growing(drive)'
    BY <1>0, <1>8, <2>1, <2>3, <2>4 DEF Growing, Extends
  <2> QED
    BY <1>5, <1>8, <2>2, <2>5
<1>9. CASE Check
  <2>1. at = "check" /\ disk' = disk /\ part' = part
    BY <1>9 DEF Check
  <2>2. CASE Fail
    BY <1>4, <2>1, <2>2
  <2>3. CASE Goto("delete") /\ drive' = drive
    BY <1>8, <2>1, <2>3 DEF Goto
  <2> QED
    BY <1>9, <2>2, <2>3 DEF Check
<1>10. ~Past(drive)
  <2>1. ASSUME NEW i \in DOMAIN Drives PROVE ~(i < i)
    BY DrivesAssumption, SMT
  <2> QED
    BY <2>1, DrivesAssumption DEF Past
<1>11. CASE DeletePartition
  <2>1. at = "delete" /\ part' = part
    BY <1>11 DEF DeletePartition
  <2>2. CASE Fail /\ disk' = disk
    BY <1>4, <2>1, <2>2
  <2>3. CASE SetDisk(drive, [disk[drive] EXCEPT !.parts = <<>>]) /\ Goto("create") /\ drive' = drive
    <3>1. at' = "create" /\ UNCHANGED <<prog, drive, done>>
      BY <2>3 DEF Goto
    <3>2. /\ \A d \in Names : d # drive => Like(d)
          /\ disk'[drive].parts = <<>> /\ disk'[drive].label = disk[drive].label
          /\ disk'[drive].size = disk[drive].size /\ disk'[drive].fs = disk[drive].fs
      BY <1>2, <2>1, <2>3, Remade
    <3>3. ~OnePart(drive)'
      BY <3>1, <3>2, Short DEF OnePart
    <3>4. Tabulated(drive)' /\ ~Used(drive)'
      BY <1>2, <2>1, <3>1, <3>2, <3>3 DEF Tabulated, Used
    <3>5. HasTable(drive)' = HasTable(drive) /\ Rest(drive, part.start)' = Rest(drive, part.start)
      BY <2>1, <3>1, <3>2 DEF HasTable, Rest, LastLBA
    <3>6. InHand'
      BY <1>0, <1>2, <2>1, <3>1, <3>5 DEF ExtendRight, InHand, Extends
    <3>7. Growing(drive) => Growing(drive)'
      BY <1>0, <2>1, <3>1, <3>2, <3>4, <3>5 DEF Growing, Filled, Grown, Extends
    <3> QED
      BY <1>0, <1>1, <2>1, <3>1, <3>2, <3>4, <3>6, <3>7, OneDrive
  <2> QED
    BY <1>11, <2>2, <2>3 DEF DeletePartition
<1>12. CASE CreatePartition
  <2> DEFINE r == Rest(drive, part.start)
  <2>1. at = "create" /\ at' = "activate" /\ UNCHANGED <<prog, drive, done, part>>
    BY <1>12 DEF CreatePartition, Step, Goto
  <2>2. PICK p : p = [start |-> part.start, size |-> r, linux |-> part.linux] /\ SetDisk(drive, [disk[drive] EXCEPT !.parts = <<p>>])
    BY <1>12 DEF CreatePartition, Placed
  <2>3. /\ \A d \in Names : d # drive => Like(d)
        /\ disk'[drive].parts = <<p>> /\ disk'[drive].label = disk[drive].label
        /\ disk'[drive].size = disk[drive].size /\ disk'[drive].fs = disk[drive].fs
    BY <1>2, <2>1, <2>2, Remade
  <2>4. OnePart(drive)' /\ Only(drive)' = p
    BY <2>1, <2>3, Short, SMT DEF OnePart, Only
  <2>5. Rest(drive, part.start)' = r /\ HasTable(drive)' = HasTable(drive)
    BY <2>1, <2>3 DEF Rest, LastLBA, HasTable
  <2>6. HasTable(drive) /\ part.start \in Int
    BY <1>0, <2>1 DEF ExtendRight, InHand, Extends
  <2>7. r \in Int
    BY <1>2, <2>1, <2>6, RestInt
  <2>8. InHand'
    BY <1>0, <1>2, <2>1, <2>2, <2>4, <2>5 DEF InHand, Extends
  <2>9. Tabulated(drive)'
    BY <1>2, <2>1, <2>2, <2>3, <2>4, <2>5, <2>6, <2>7 DEF Tabulated
  <2>10. p.start = part.start /\ p.size = r
    BY <2>2
  <2>11. ASSUME Growing(drive), "extend" \in done PROVE Grown(drive)'
    <3>1. disk[drive].fs.start = part.start => disk[drive].fs.size = r
      BY <1>0, <2>1, <2>11 DEF Growing, Extends
    <3>2. Sized(drive)'
      BY <2>1, <2>4, <2>5, <2>10 DEF Sized
    <3> QED
      BY <2>1, <2>3, <2>4, <2>10, <3>1, <3>2 DEF Grown, Used, FsAt
  <2>12. Growing(drive) => Growing(drive)'
    <3>1. Handled(drive)' => "extend" \in done
      BY <1>10, <2>1 DEF Handled, Past
    <3> QED
      BY <1>0, <2>1, <2>3, <2>5, <2>11, <3>1 DEF Growing, Extends
  <2> QED
    BY <1>0, <1>1, <2>1, <2>3, <2>8, <2>9, <2>12, OneDrive
<1>13. CASE Activate
  BY <1>8, <1>13 DEF Activate, Step, Goto
<1>14. CASE Resize
  <2>1. at = "resize" /\ part' = part
    BY <1>14 DEF Resize
  <2>2. OnePart(drive) /\ Only(drive).start = part.start /\ Only(drive).size = Rest(drive, part.start)
    BY <1>0, <2>1 DEF ExtendRight, InHand, Extends
  <2>3. ASSUME NoFailure, opts.stop, NEW d \in Names \ {opts.force} PROVE (d # drive => Filled(d)) /\ (Handled(d) => Grown(d))
    BY <2>3 DEF ExtendRight, Growing
  <2>4. CASE ~FsAt(drive, Only(drive))
    <3>1. Fail /\ disk' = disk
      BY <1>14, <2>4 DEF Resize, Only
    <3>2. NoFailure' /\ opts.stop => \A d \in Names \ {opts.force} : Filled(d)
      BY <1>0, <2>3, <2>4 DEF Filled, Used
    <3> QED
      BY <1>0, <1>1, <2>1, <3>1, <3>2, FailGrows
  <2>5. CASE FsAt(drive, Only(drive))
    <3>1. PICK v : v = Only(drive).size /\ disk' = [disk EXCEPT ![drive] = [disk[drive] EXCEPT !.fs.size = v]]
      BY <1>14, <2>5 DEF Resize, SetDisk, Only
    <3>2. DrivesShaped(disk) /\ Shaped(disk[drive])
      BY <1>2, <2>1, DrivesOK DEF IInv, DrivesShaped
    <3>3. \A d \in Names : d # drive => Like(d)
      BY <3>1, <3>2 DEF DrivesShaped, Like
    <3>4. /\ disk'[drive].parts = disk[drive].parts /\ disk'[drive].label = disk[drive].label
          /\ disk'[drive].size = disk[drive].size /\ disk'[drive].fs.size = v
      <4>1. disk'[drive] = [disk[drive] EXCEPT !.fs.size = v]
        BY <1>2, <2>1, <3>1, <3>2 DEF DrivesShaped
      <4>2. DOMAIN disk[drive] = {"size", "label", "parts", "fs"} /\ DOMAIN disk[drive].fs = {"start", "size", "data"}
        BY <3>2 DEF Shaped
      <4> QED
        BY <4>1, <4>2, SMT
    <3>5. ASSUME NEW d, d = drive PROVE Tabulated(d)' /\ Filled(d)' /\ Grown(d)'
      <4>1. OnePart(d)' = OnePart(d) /\ Only(d)' = Only(d) /\ HasTable(d)' = HasTable(d) /\ \A f : Rest(d, f)' = Rest(d, f)
        BY <3>4, <3>5 DEF OnePart, Only, HasTable, Rest, LastLBA
      <4>2. Tabulated(d)'
        BY <1>2, <2>1, <3>4, <3>5, <4>1 DEF Tabulated
      <4>3. Sized(d)'
        BY <2>2, <3>5, <4>1 DEF Sized
      <4> QED
        BY <3>1, <3>4, <3>5, <4>1, <4>2, <4>3 DEF Filled, Grown
    <3>6. CASE NextDrive
      <4>1. \A d \in Names : Tabulated(d)'
        BY <3>3, <3>5, LikeBefore DEF ExtendRight
      <4>2. NoFailure' /\ opts.stop => \A d \in Names \ {opts.force} : Filled(d)' /\ (Handled(d) \/ d = drive => Grown(d)')
        BY <1>0, <2>3, <3>3, <3>5, LikeBefore
      <4> QED
        BY <1>0, <2>1, <3>6, <4>1, <4>2, Onto
    <3>7. CASE Goto("recheck") /\ drive' = drive
      <4>1. at' = "recheck" /\ UNCHANGED <<prog, drive, done>>
        BY <3>7 DEF Goto
      <4>2. OnePart(drive)' = OnePart(drive) /\ Only(drive)' = Only(drive) /\ Rest(drive, part.start)' = Rest(drive, part.start)
        BY <2>1, <3>4, <4>1 DEF OnePart, Only, Rest, LastLBA
      <4>3. InHand'
        BY <1>0, <1>2, <2>1, <2>2, <4>1, <4>2 DEF InHand, Extends
      <4>4. Tabulated(drive)' /\ Filled(drive)' /\ Grown(drive)'
        BY <3>5, <4>1 DEF Tabulated, Filled, Grown, Used, Only, OnePart, HasTable, FsAt, Sized, Rest, LastLBA
      <4>5. Growing(drive)'
        BY <4>1, <4>4 DEF Growing, Extends
      <4> QED
        BY <1>0, <1>1, <2>1, <3>3, <4>1, <4>3, <4>4, <4>5, OneDrive
    <3> QED
      BY <1>14, <2>5, <3>6, <3>7 DEF Resize, Only
  <2> QED
    BY <2>4, <2>5
<1>15. CASE Recheck
  <2>1. at = "recheck" /\ NextDrive /\ disk' = disk
    BY <1>15 DEF Recheck
  <2>2. Filled(drive) => Grown(drive)
    BY <1>0, <2>1 DEF ExtendRight, InHand, Extends, Filled, Grown, Sized
  <2> QED
    BY <1>3, <2>1, <2>2
<1> QED
  BY <1>6, <1>7, <1>9, <1>11, <1>12, <1>13, <1>14, <1>15 DEF Extend_

(* mountie changes no disk.                                                *)
LEMMA MountGrows == ASSUME IInv, ExtendRight, TablesKept, Mount, UNCHANGED sysVars PROVE ExtendRight'
<1>0. prog = "mount" /\ (Exit \/ Abort) /\ UNCHANGED <<disk, opts, faults, crashes, stage>>
  BY DEF Mount, sysVars
<1>1. /\ UNCHANGED <<disk, opts, faults, crashes, stage>> /\ prog = "mount" /\ prog' = "none" /\ stage # "off"
      /\ "extend" \in done' => "extend" \in done
  BY <1>0 DEF Exit, Abort, IInv, OneProgram, Running
<1>2. Onward
  BY <1>1 DEF Onward, TablesKept, NoFailure
<1>3. NoFailure' /\ opts.stop => \A d \in Names \ {opts.force} : Filled(d)
  BY <1>1, <1>2, AllFilled DEF Extends, Onward
<1> QED
  BY <1>1, <1>2, <1>3, QuietGrow, GrowSteady

LEMMA GrowInit == Init => ExtendRight
<1> SUFFICES ASSUME Init PROVE ExtendRight
  OBVIOUS
<1>1. PICK m \in Machines : disk = m.disk
  BY DEF Init
<1>2. prog = "none" /\ done = {}
  BY DEF Init
<1>3. ASSUME NEW d \in Names, OnePart(d)
      PROVE  HasTable(d) /\ Only(d).start \in Int /\ Only(d).size \in Int /\ Filled(d)
  <2>1. disk[d].parts \in Tables
    BY <1>1, MachinesAssumption DEF DriveStates
  <2>2. 1 \in DOMAIN disk[d].parts
    BY <1>3, <2>1, SMT DEF Tables, OnePart
  <2>3. Only(d) \in [start : Nat, size : Nat, linux : BOOLEAN]
    <3> DEFINE R == [start : Nat, size : Nat, linux : BOOLEAN]
    <3>1. disk[d].parts \in Seq(R)
      BY <2>1 DEF Tables
    <3> HIDE DEF R
    <3>2. disk[d].parts[1] \in R
      BY <2>2, <3>1, SMT
    <3> QED
      BY <3>2 DEF R, Only
  <2>4. HasTable(d)
    <3>1. disk[d].label = "none" => disk[d].parts = <<>>
      BY <1>1, FilledAssumption
    <3>2. disk[d].parts # <<>>
      BY <1>3, Short DEF OnePart
    <3> QED
      BY <3>1, <3>2 DEF HasTable
  <2>5. Filled(d)
    BY <1>1, <2>2, FilledAssumption DEF Filled, Used, FsAt, Only
  <2>6. Only(d).start \in Nat /\ Only(d).size \in Nat
    BY <2>3
  <2> QED
    BY <2>4, <2>5, <2>6, SMT
<1>4. ASSUME NEW d \in Names PROVE disk[d].size \in Int
  <2>1. disk[d].size \in Nat
    BY <1>1, MachinesAssumption DEF DriveStates
  <2> QED
    BY <2>1, SMT
<1>5. ASSUME NEW d \in Names PROVE Tabulated(d) /\ Filled(d)
  BY <1>3, <1>4 DEF Tabulated, Filled, Used
<1> QED
  BY <1>2, <1>5 DEF ExtendRight, InHand, Growing, Handled, Extends

(* Where nothing fails, extend that has ended leaves no Linux partition    *)
(* that is its drive's only one, nor the file system in it, smaller than   *)
(* the drive.                                                              *)
THEOREM DrivesAreGrown == Spec => []Extended
<1>1. IInv /\ TablesKept /\ ExtendRight /\ [Next]_vars => ExtendRight'
  <2>1. ASSUME IInv, TablesKept, ExtendRight, UNCHANGED vars PROVE ExtendRight'
    <3>1. Onward /\ \A d \in Names : Like(d)
      BY <2>1 DEF vars, sysVars, diskVars, Onward, NoFailure, TablesKept, Like
    <3> QED
      BY <2>1, <3>1, GrowSteady DEF vars, sysVars, diskVars, ExtendRight
  <2> QED
    BY <2>1, SystemGrows, FormatGrows, ExtendGrows, MountGrows DEF Next, Programme
<1>2. ExtendRight => Extended
  BY DEF ExtendRight, Extended, Growing, Handled
<1>3. IInv /\ TablesKept /\ [Next]_vars => TablesKept'
  BY KeptNext
<1> QED
  BY <1>1, <1>2, <1>3, TablesInit, GrowInit, Invariance, PTL DEF Spec

===============================================================================
