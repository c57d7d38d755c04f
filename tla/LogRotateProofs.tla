---------------------------- MODULE LogRotateProofs ----------------------------
(***************************************************************************)
(* Proofs about LogRotate, for any sizes and numbers of files, messages    *)
(* and failures: a log stays in order, rotation loses the oldest lines     *)
(* only, and no file outgrows its limit by more than a line, and one more  *)
(* for each failure.                                                       *)
(***************************************************************************)
EXTENDS LogRotate, SequenceTheorems, TLAPS

(* Lines, and what an empty or a longer file has of them.                  *)
LEMMA LineFacts ==
  /\ None \in Lines /\ None.n = 0
  /\ \A l \in Lines : l.n \in Nat /\ l.len \in Nat
  /\ \A m, len \in Nat : /\ [n |-> m, len |-> len] \in Lines
                          /\ [n |-> m, len |-> len].n = m
BY DEF Lines, None

(* The place of the next line of a file.                                   *)
End(s) == Len(s) + 1

(* Sequences of lines: appending keeps the type and adds the line.         *)
LEMMA SeqFacts ==
  /\ <<>> \in Logs /\ DOMAIN <<>> = {}
  /\ \A s \in Logs, l \in Lines :
       /\ AtEnd(s, l) \in Logs
       /\ DOMAIN AtEnd(s, l) = DOMAIN s \cup {End(s)}
       /\ \A a \in DOMAIN s : AtEnd(s, l)[a] = s[a]
       /\ AtEnd(s, l)[End(s)] = l
  /\ \A s \in Logs : End(s) \in Nat /\ DOMAIN s = 1..(End(s) - 1)
  /\ \A s \in Logs : \A a \in DOMAIN s : s[a] \in Lines
<1>1. <<>> \in Seq(Lines) /\ DOMAIN <<>> = {}
  BY EmptySeq
<1>2. ASSUME NEW s \in Seq(Lines)
      PROVE  Len(s) \in Nat /\ DOMAIN s = 1..Len(s) /\ \A a \in DOMAIN s : s[a] \in Lines
  BY LenProperties
<1>3. ASSUME NEW s \in Seq(Lines), NEW l \in Lines
      PROVE  /\ Append(s, l) \in Seq(Lines)
             /\ DOMAIN Append(s, l) = DOMAIN s \cup {Len(s) + 1}
             /\ \A a \in DOMAIN s : Append(s, l)[a] = s[a]
             /\ Append(s, l)[Len(s) + 1] = l
  BY <1>2, AppendProperties
<1>4. ASSUME NEW k \in Nat PROVE k + 1 \in Nat /\ 1..k = 1..((k + 1) - 1)
  OBVIOUS
<1> QED
  BY <1>1, <1>2, <1>3, <1>4, Zenon DEF Logs, AtEnd, End

(* A line more in the first file.                                          *)
LEMMA MoreFacts ==
  ASSUME NEW d \in [Slots -> Logs], NEW l \in Lines
  PROVE  [d EXCEPT ![0] = AtEnd(@, l)] \in [Slots -> Logs]
<1>1. 0 \in Slots
  BY RotateAssumption DEF Slots, OldestIndex
<1>2. AtEnd(d[0], l) \in Logs
  BY <1>1, SeqFacts
<1> QED
  BY <1>1, <1>2

(* The limit has room for a line, and each failure gives it room for one   *)
(* more.                                                                   *)
LEMMA LimitFacts ==
  ASSUME faults \in Nat, faults' \in Nat
  PROVE  /\ Limit \in Nat /\ Limit' \in Nat /\ Limit >= MaxLogSize + MaxLine
         /\ faults' = faults => Limit' = Limit
         /\ faults' = faults + 1 => Limit' = Limit + MaxLine
<1>1. \A f \in Nat : /\ MaxLine * (1 + f) \in Nat /\ MaxLine * (1 + f) >= MaxLine
                     /\ MaxLine * (1 + (f + 1)) = MaxLine * (1 + f) + MaxLine
  BY RotateAssumption
<1>2. MaxLogSize \in Nat /\ MaxLine \in Nat
  BY RotateAssumption
<1> DEFINE Room(f) == MaxLine * (1 + f)
<1>3. Limit = MaxLogSize + Room(faults) /\ Limit' = MaxLogSize + Room(faults')
  BY DEF Limit
<1>4. Room(faults) \in Nat /\ Room(faults') \in Nat /\ Room(faults) >= MaxLine
  BY <1>1
<1>5. faults' = faults + 1 => Room(faults') = Room(faults) + MaxLine
  BY <1>1
<1>6. faults' = faults => Room(faults') = Room(faults)
  OBVIOUS
<1> HIDE DEF Room
<1> QED
  BY <1>2, <1>3, <1>4, <1>5, <1>6

(* An empty directory satisfies the invariant.                             *)
LEMMA InitInv == Init => IInv
<1> SUFFICES ASSUME Init PROVE IInv
  OBVIOUS
<1>1. FilesOK /\ SizesOK /\ RotateShut /\ OpenExists /\ InHand /\ NotInHand /\ Numbered /\ Vacated /\ InOrder /\ OldestGoFirst
  BY RotateAssumption, LineFacts, SeqFacts
     DEF Init, FilesOK, SizesOK, RotateShut, OpenExists, InHand, NotInHand, Numbered, Vacated, InOrder,
         OldestGoFirst, Written, Slots, OldestIndex
<1>2. Sized
  <2>1. MaxLine \in Nat /\ MaxLogSize \in Nat /\ MaxLine * (1 + 0) = MaxLine
    BY RotateAssumption
  <2>2. Limit = MaxLogSize + MaxLine
    BY <2>1 DEF Init, Limit
  <2>3. msg.len = 0 /\ 0 \in Slots /\ \A k \in Slots : size[k] = 0
    BY RotateAssumption DEF Init, None, Slots
  <2> QED
    BY <2>1, <2>2, <2>3 DEF Init, Sized, SizeBounded, BytesAccounted
<1> QED
  BY <1>1, <1>2 DEF IInv

(* Every step keeps the variables in their types.                          *)
LEMMA FilesNext == IInv /\ [Next]_vars => FilesOK'
<1> SUFFICES ASSUME IInv, [Next]_vars PROVE FilesOK'
  OBVIOUS
<1> USE RotateAssumption, LineFacts, SeqFacts DEF IInv, FilesOK, Slots, OldestIndex, Fault, Continue, Lost
<1>1. ASSUME NEW len \in Sizes, NEW source \in Sources, Decode(len, source)
      PROVE  FilesOK'
  <2>1. received' = received + 1 /\ received' \in Nat
    BY <1>1 DEF Decode
  <2>2. failed' \subseteq 1..received'
    <3>1. failed' \subseteq failed \cup {received'}
      BY <1>1 DEF Decode
    <3>2. \A x \in failed : x \in 1..received
      OBVIOUS
    <3> QED
      BY <2>1, <3>1, <3>2
  <2>3. msg' \in Lines
    BY <1>1, <2>1 DEF Decode, Sizes
  <2> QED
    BY <1>1, <2>1, <2>2, <2>3 DEF Decode
<1>2. CASE NewLogFile
  BY <1>2 DEF NewLogFile
<1>3. CASE NewLogFileError
  <2>1. failed' \subseteq 1..received'
    <3>1. failed' = failed \cup {msg.n} /\ received' = received
      BY <1>3 DEF NewLogFileError
    <3>2. msg.n \in 1..received
      BY <1>3 DEF NewLogFileError, InHand
    <3> QED
      BY <3>1, <3>2
  <2> QED
    BY <1>3, <2>1 DEF NewLogFileError
<1>4. CASE Write
  <2>1. disk' = [disk EXCEPT ![0] = AtEnd(@, msg)] /\ UNCHANGED <<exists, handle, i, received, failed, faults>>
    BY <1>4 DEF Write
  <2>2. disk' \in [Slots -> Logs]
    BY <2>1, MoreFacts
  <2>3. pc' \in {"decode", "close"} /\ msg' = None
    BY <1>4 DEF Write
  <2>4. 0 \in exists
    BY <1>4 DEF Write, OpenExists
  <2>5. \A k \in Slots \ exists' : disk'[k] = <<>>
    BY <2>1, <2>4
  <2> QED
    BY <2>1, <2>2, <2>3, <2>5
<1>5. CASE WriteError
  <2>1. /\ failed' = failed \cup {msg.n} /\ handle' = "none" /\ pc' = "decode" /\ msg' = None
        /\ UNCHANGED <<exists, i, received>>
    BY <1>5 DEF WriteError
  <2>2. msg.n \in 1..received
    BY <1>5 DEF WriteError, InHand
  <2>3. failed' \subseteq 1..received' /\ faults' \in Nat
    <3>1. faults' = faults \/ faults' = faults + 1
      BY <1>5 DEF WriteError
    <3>2. faults' \in Nat
      BY <3>1
    <3>3. failed' \subseteq 1..received'
      BY <2>1, <2>2
    <3> QED
      BY <3>2, <3>3
  <2>4. disk' \in [Slots -> Logs] /\ \A k \in Slots \ exists' : disk'[k] = <<>>
    <3>1. CASE disk' = disk
      BY <2>1, <3>1
    <3>2. CASE disk' # disk
      <4>1. 0 \in exists
        BY <1>5, <3>2 DEF WriteError, OpenExists
      <4>2. PICK len \in 0..(msg.len - 1) : disk' = [disk EXCEPT ![0] = AtEnd(@, [n |-> msg.n, len |-> len])]
        BY <1>5, <3>2 DEF WriteError
      <4>3. msg.len \in Nat /\ msg.n \in Nat
        OBVIOUS
      <4>4. len \in Nat
        BY <4>3
      <4>5. [n |-> msg.n, len |-> len] \in Lines
        BY <4>3, <4>4
      <4> DEFINE l == [n |-> msg.n, len |-> len]
      <4> HIDE DEF l
      <4>6. l \in Lines /\ disk' = [disk EXCEPT ![0] = AtEnd(@, l)]
        BY <4>2, <4>5 DEF l
      <4>7. disk' \in [Slots -> Logs]
        BY <4>6, MoreFacts
      <4> QED
        BY <2>1, <4>1, <4>6, <4>7
    <3> QED
      BY <3>1, <3>2
  <2> QED
    BY <2>1, <2>3, <2>4
<1>6. CASE RotateClose
  BY SMTT(30), <1>6 DEF RotateClose, GiveUp
<1>7. CASE Rename
  <2>1. i \in Slots /\ i + 1 \in Slots /\ i # i + 1 /\ i' \in -1..OldestIndex
    <3>1. i >= 0 /\ i' = i - 1
      BY <1>7 DEF Rename
    <3> QED
      BY <3>1
  <2>2. /\ disk' \in [Slots -> Logs]
        /\ exists' \subseteq Slots
        /\ \A k \in Slots \ exists' : disk'[k] = <<>>
    <3>1. CASE i \notin exists
      BY <1>7, <3>1 DEF Rename, Newer
    <3>2. CASE i \in exists
      <4>1. /\ disk' = [disk EXCEPT ![i + 1] = disk[i], ![i] = <<>>]
            /\ exists' = (exists \ {i}) \cup {i + 1}
        BY <1>7, <3>2 DEF Rename, Newer
      <4>2. disk' \in [Slots -> Logs] /\ exists' \subseteq Slots
        BY <2>1, <4>1
      <4>3. \A k \in Slots : disk'[k] = IF k = i THEN <<>>
                                       ELSE IF k = i + 1 THEN disk[i] ELSE disk[k]
        BY <2>1, <4>1
      <4>4. ASSUME NEW k \in Slots \ exists' PROVE disk'[k] = <<>>
        <5>1. k # i + 1 /\ (k = i \/ k \notin exists)
          BY <4>1
        <5> QED
          BY <4>3, <5>1
      <4> QED
        BY <4>2, <4>4
    <3> QED
      BY <3>1, <3>2
  <2> QED
    BY <1>7, <2>1, <2>2 DEF Rename
<1>8. CASE RenameError
  BY <1>8 DEF RenameError, GiveUp
<1>9. CASE RotateCreate
  <2>1. /\ disk' \in [Slots -> Logs]
        /\ exists' \subseteq Slots
        /\ \A k \in Slots \ exists' : disk'[k] = <<>>
    <3>1. CASE UNCHANGED <<disk, exists>>
      BY <3>1
    <3>2. CASE disk' = [disk EXCEPT ![0] = <<>>] /\ exists' = exists \cup {0}
      <4>1. disk' \in [Slots -> Logs] /\ exists' \subseteq Slots
        BY <3>2
      <4>2. \A k \in Slots : disk'[k] = IF k = 0 THEN <<>> ELSE disk[k]
        BY <3>2
      <4> QED
        BY <3>2, <4>1, <4>2
    <3> QED
      BY <1>9, <3>1, <3>2 DEF RotateCreate
  <2>2. msg' \in Lines /\ faults' \in Nat
    BY <1>9 DEF RotateCreate, GiveUp
  <2>3. handle' \in {"none", "open", "closed"} /\ pc' = "decode"
    BY <1>9 DEF RotateCreate, GiveUp
  <2> QED
    BY <1>9, <2>1, <2>2, <2>3 DEF RotateCreate
<1>10. CASE Restart
  <2>1. failed' \subseteq 1..received'
    <3>1. CASE pc \in {"open", "write"}
      <4>1. msg.n \in 1..received
        BY <3>1 DEF InHand
      <4> QED
        BY <1>10, <3>1, <4>1 DEF Restart
    <3>2. CASE pc \notin {"open", "write"}
      BY <1>10, <3>2 DEF Restart
    <3> QED
      BY <3>1, <3>2
  <2>2. i' \in -1..OldestIndex
    BY <1>10 DEF Restart
  <2> QED
    BY <1>10, <2>1, <2>2 DEF Restart
<1>11. CASE UNCHANGED vars
  BY <1>11 DEF vars
<1> QED
  BY <1>1, <1>2, <1>3, <1>4, <1>5, <1>6, <1>7, <1>8, <1>9, <1>10, <1>11 DEF Next

(* The steps that change the files: a line is added to the log, Rotate     *)
(* moves a file or finds none to move, or it starts a log that is empty     *)
(* already or is the only file.                                                                *)
Adds ==
  \E l \in Lines :
    /\ l.n = received /\ received > 0 /\ pc = "write" /\ pc' # "write" /\ pc' # "open"
    /\ disk' = [disk EXCEPT ![0] = AtEnd(@, l)]

Moves ==
  /\ pc = "rename" /\ pc' = "rename"
  /\ i \in 0..OldestIndex /\ i' = i - 1
  /\ disk' = [disk EXCEPT ![i + 1] = disk[i], ![i] = <<>>]

Skips ==
  /\ pc = "rename" /\ pc' = "rename"
  /\ i \in 0..OldestIndex /\ i' = i - 1
  /\ disk[i] = <<>> /\ disk' = disk

Clears ==
  /\ MaxLogFiles = 0 \/ disk[0] = <<>>
  /\ disk' = [disk EXCEPT ![0] = <<>>]
  /\ pc = "rename" /\ pc' = "decode"

Keeps ==
  /\ disk' = disk
  /\ pc' = "rename" => i' = OldestIndex \/ (i' = i /\ pc = "rename")

(* A step writes one line, moves one file into a slot, or leaves the disk. *)
LEMMA DiskSteps ==
  IInv /\ [Next]_vars => Adds \/ Moves \/ Skips \/ Clears \/ Keeps
<1> SUFFICES ASSUME IInv, [Next]_vars
             PROVE  Adds \/ Moves \/ Skips \/ Clears \/ Keeps
  OBVIOUS
<1> USE DEF IInv, FilesOK, Continue
<1>1. ASSUME NEW len \in Sizes, NEW source \in Sources, Decode(len, source)
      PROVE  Keeps
  BY <1>1 DEF Decode, Keeps
<1>2. CASE NewLogFile \/ NewLogFileError \/ RenameError \/ Restart
  BY <1>2 DEF NewLogFile, NewLogFileError, RenameError, Restart, GiveUp, Keeps
<1>3. CASE Write
  <2>1. pc' # "write" /\ pc' # "open" /\ pc = "write"
    BY <1>3 DEF Write
  <2> QED
    BY <1>3, <2>1 DEF Write, Adds, InHand
<1>4. CASE WriteError
  <2>1. pc' # "write" /\ pc' # "open" /\ pc' # "rename" /\ pc = "write"
    BY <1>4 DEF WriteError
  <2>2. CASE disk' = disk
    BY <2>1, <2>2 DEF Keeps
  <2>3. ASSUME NEW len \in 0..(msg.len - 1),
               disk' = [disk EXCEPT ![0] = AtEnd(@, [n |-> msg.n, len |-> len])]
        PROVE  Adds
    <3> DEFINE l == [n |-> msg.n, len |-> len]
    <3>1. msg.n \in Nat /\ len \in Nat
      BY LineFacts
    <3>2. l \in Lines /\ l.n = msg.n
      BY <3>1, LineFacts
    <3>3. disk' = [disk EXCEPT ![0] = AtEnd(@, l)]
      BY <2>3
    <3> HIDE DEF l
    <3> QED
      BY <2>1, <3>2, <3>3 DEF Adds, InHand
  <2> QED
    BY <1>4, <2>2, <2>3 DEF WriteError
<1>5. CASE RotateClose
  BY <1>5 DEF RotateClose, GiveUp, Keeps
<1>6. CASE Rename
  <2>1. i \in 0..OldestIndex /\ i \in Slots
    BY <1>6, RotateAssumption DEF Rename, OldestIndex, Slots
  <2> QED
    BY <1>6, <2>1 DEF Rename, Newer, Moves, Skips
<1>7. CASE RotateCreate
  <2>1. MaxLogFiles = 0 \/ disk[0] = <<>>
    BY <1>7, RotateAssumption DEF RotateCreate, Vacated, OldestIndex
  <2> QED
    BY <1>7, <2>1 DEF RotateCreate, GiveUp, Clears, Keeps
<1>8. CASE UNCHANGED vars
  BY <1>8 DEF vars, Keeps
<1> QED
  BY <1>1, <1>2, <1>3, <1>4, <1>5, <1>6, <1>7, <1>8 DEF Next

(* The contents of the slots after such a step.                            *)
LEMMA Added ==
  ASSUME IInv, NEW l \in Lines, disk' = [disk EXCEPT ![0] = AtEnd(@, l)],
         NEW k \in Slots
  PROVE  /\ k # 0 => disk'[k] = disk[k]
         /\ DOMAIN disk'[0] = DOMAIN disk[0] \cup {End(disk[0])}
         /\ \A a \in DOMAIN disk[0] : disk'[0][a] = disk[0][a]
         /\ disk'[0][End(disk[0])] = l
<1>1. 0 \in Slots /\ disk[0] \in Logs /\ disk \in [Slots -> Logs]
  BY RotateAssumption DEF IInv, FilesOK, Slots
<1>2. disk'[0] = AtEnd(disk[0], l) /\ (k # 0 => disk'[k] = disk[k])
  BY <1>1
<1> DEFINE log == disk[0]
<1>3. /\ DOMAIN AtEnd(log, l) = DOMAIN log \cup {End(log)}
      /\ \A a \in DOMAIN log : AtEnd(log, l)[a] = log[a]
      /\ AtEnd(log, l)[End(log)] = l
  <2>1. log \in Logs
    BY <1>1
  <2> HIDE DEF log
  <2> QED
    BY <2>1, SeqFacts
<1> QED
  BY <1>2, <1>3

(* The contents of the slots after a rename.                               *)
LEMMA Moved ==
  ASSUME IInv, Moves, NEW k \in Slots
  PROVE  disk'[k] = IF k = i THEN <<>> ELSE IF k = i + 1 THEN disk[i] ELSE disk[k]
<1>1. i \in Slots /\ i + 1 \in Slots /\ i # i + 1
  BY RotateAssumption DEF Moves, OldestIndex, Slots
<1> QED
  BY <1>1 DEF Moves, IInv, FilesOK

(* The newest line of all only ever gets newer.                            *)
LEMMA HighestGrows ==
  ASSUME IInv, [Next]_vars
  PROVE  /\ Highest \in Nat /\ Highest' \in Nat /\ Highest' >= Highest
         /\ Adds => Highest = received - 1 /\ Highest' = received
<1> USE DEF IInv, FilesOK, InHand, Highest, Continue
<1>1. ASSUME NEW len \in Sizes, NEW source \in Sources, Decode(len, source)
      PROVE  Highest \in Nat /\ Highest' \in Nat /\ Highest' >= Highest
  BY <1>1 DEF Decode
<1>2. ASSUME received' = received,
             pc' = pc \/ pc \in {"open", "write"} \/ pc' \notin {"open", "write"}
      PROVE  Highest \in Nat /\ Highest' \in Nat /\ Highest' >= Highest
  BY <1>2
<1> DEFINE Quiet == /\ received' = received
                    /\ pc' = pc \/ pc \in {"open", "write"} \/ pc' \notin {"open", "write"}
<1>3. NewLogFile \/ NewLogFileError \/ RenameError \/ Restart => Quiet
  BY DEF NewLogFile, NewLogFileError, RenameError, Restart, GiveUp
<1>4. Write \/ WriteError => Quiet
  BY DEF Write, WriteError
<1>5. RotateClose \/ Rename \/ RotateCreate => Quiet
  BY DEF RotateClose, Rename, RotateCreate, GiveUp
<1>6. UNCHANGED vars => Quiet
  BY DEF vars
<1>7. ASSUME Adds
      PROVE  Highest = received - 1 /\ Highest' = received
  <2>1. received' = received /\ pc' \notin {"open", "write"}
    BY <1>7 DEF Adds, Next, Decode, NewLogFile, NewLogFileError, Write, WriteError,
       RotateClose, Rename, RenameError, RotateCreate, Restart, vars
  <2> QED
    BY <1>7, <2>1 DEF Adds
<1> QED
  BY <1>1, <1>2, <1>3, <1>4, <1>5, <1>6, <1>7 DEF Next

(* The numbers of the lines: up to the message in hand.                    *)
LEMMA NumberedNext == IInv /\ [Next]_vars => InHand' /\ NotInHand' /\ Numbered'
<1> SUFFICES ASSUME IInv, [Next]_vars PROVE InHand' /\ NotInHand' /\ Numbered'
  OBVIOUS
<1>1. InHand' /\ NotInHand'
  <2> USE LineFacts DEF IInv, FilesOK, InHand, NotInHand, Continue
  <2>1. ASSUME NEW len \in Sizes, NEW source \in Sources, Decode(len, source)
        PROVE  InHand' /\ NotInHand'
    BY <2>1 DEF Decode
  <2>2. CASE NewLogFile \/ NewLogFileError \/ RenameError \/ Restart
    BY <2>2 DEF NewLogFile, NewLogFileError, RenameError, Restart, GiveUp
  <2>3. CASE Write \/ WriteError
    BY <2>3 DEF Write, WriteError
  <2>4. CASE RotateClose \/ Rename \/ RotateCreate
    BY <2>4 DEF RotateClose, Rename, RotateCreate, GiveUp
  <2>5. CASE UNCHANGED vars
    BY <2>5 DEF vars
  <2> QED
    BY <2>1, <2>2, <2>3, <2>4, <2>5 DEF Next
<1>2. Highest' >= Highest /\ Highest \in Nat /\ Highest' \in Nat
  BY HighestGrows
<1>3. ASSUME Adds PROVE Numbered'
  <2>1. PICK l \in Lines : l.n = received /\ disk' = [disk EXCEPT ![0] = AtEnd(@, l)]
    BY <1>3 DEF Adds
  <2>2. Highest' = received /\ received > 0
    BY <1>3, HighestGrows DEF Adds
  <2>3. ASSUME NEW k \in Slots, NEW a \in DOMAIN disk'[k]
        PROVE  disk'[k][a].n \in 1..Highest'
    <3>1. CASE k # 0 \/ a # End(disk[0])
      <4>1. a \in DOMAIN disk[k] /\ disk'[k][a] = disk[k][a]
        BY <2>1, <3>1, Added
      <4>2. disk[k][a].n \in 1..Highest
        BY <4>1 DEF IInv, Numbered
      <4> QED
        BY <1>2, <4>1, <4>2
    <3>2. CASE k = 0 /\ a = End(disk[0])
      <4>1. disk'[k][a] = l
        BY <2>1, <3>2, Added
      <4> QED
        BY <2>1, <2>2, <4>1, <1>2
    <3> QED
      BY <3>1, <3>2
  <2> QED
    BY <2>3 DEF Numbered, Slots
<1>4. ASSUME Moves PROVE Numbered'
  <2>1. ASSUME NEW k \in Slots, NEW a \in DOMAIN disk'[k]
        PROVE  \E m \in Slots : a \in DOMAIN disk[m] /\ disk'[k][a] = disk[m][a]
    <3>1. i \in Slots
      BY <1>4, RotateAssumption DEF Moves, OldestIndex, Slots
    <3>2. k # i
      BY <1>4, <3>1, Moved, SeqFacts
    <3>3. disk'[k] = disk[i] \/ disk'[k] = disk[k]
      BY <1>4, <3>2, Moved
    <3> QED
      BY <3>1, <3>3
  <2> QED
    BY <1>2, <2>1 DEF IInv, Numbered, Slots
<1>5. ASSUME Clears PROVE Numbered'
  <2>1. ASSUME NEW k \in Slots, NEW a \in DOMAIN disk'[k]
        PROVE  a \in DOMAIN disk[k] /\ disk'[k][a] = disk[k][a]
    BY <1>5, SeqFacts DEF Clears, IInv, FilesOK
  <2> QED
    BY <1>2, <2>1 DEF IInv, Numbered, Slots
<1>6. ASSUME disk' = disk PROVE Numbered'
  BY <1>2, <1>6 DEF IInv, Numbered, Slots
<1>7. Numbered'
  BY <1>3, <1>4, <1>5, <1>6, DiskSteps DEF Skips, Keeps
<1> QED
  BY <1>1, <1>7

(* The slot a file is moved to has been emptied, but for the last.         *)
LEMMA VacatedNext == IInv /\ [Next]_vars => Vacated'
<1> SUFFICES ASSUME IInv, [Next]_vars PROVE Vacated'
  OBVIOUS
<1> USE RotateAssumption DEF IInv, FilesOK, Vacated, Slots, OldestIndex
<1>1. CASE Adds
  <2>1. pc' # "rename" \/ i' = OldestIndex
    BY <1>1 DEF Adds, Next, Decode, NewLogFile, NewLogFileError, Write,
       WriteError, RotateClose, Rename, RenameError, RotateCreate, Restart, vars,
       Continue, GiveUp
  <2> QED
    BY <2>1
<1>2. CASE Moves
  BY <1>2, Moved DEF Moves
<1>3. CASE Skips
  BY <1>3 DEF Skips
<1>4. CASE Clears
  BY <1>4 DEF Clears
<1>5. CASE Keeps
  BY <1>5 DEF Keeps
<1> QED
  BY <1>1, <1>2, <1>3, <1>4, <1>5, DiskSteps

(* The lines stay in order.                                                *)
LEMMA InOrderNext == IInv /\ [Next]_vars => InOrder'
<1> SUFFICES ASSUME IInv, [Next]_vars,
                    NEW k \in Slots, NEW m \in Slots,
                    NEW a \in DOMAIN disk'[k], NEW b \in DOMAIN disk'[m],
                    k > m \/ (k = m /\ a < b)
             PROVE  disk'[k][a].n < disk'[m][b].n
  BY DEF InOrder, Slots
<1>1. CASE Adds
  <2>1. PICK l \in Lines : l.n = received /\ disk' = [disk EXCEPT ![0] = AtEnd(@, l)]
    BY <1>1 DEF Adds
  <2>2. disk[0] \in Logs /\ 0 \in Slots
    BY RotateAssumption DEF IInv, FilesOK, Slots
  <2>3. ~(k = 0 /\ a = End(disk[0]))
    <3> SUFFICES ASSUME k = 0, a = End(disk[0]) PROVE FALSE
      OBVIOUS
    <3>1. m = 0 /\ a < b
      BY RotateAssumption DEF Slots
    <3>2. b \in DOMAIN disk[0] \cup {End(disk[0])}
      BY <2>1, <2>2, <3>1, Added
    <3>3. End(disk[0]) \in Nat /\ DOMAIN disk[0] = 1..(End(disk[0]) - 1)
      BY <2>2, SeqFacts
    <3> QED
      BY <3>1, <3>2, <3>3
  <2>4. a \in DOMAIN disk[k] /\ disk'[k][a] = disk[k][a]
    BY ZenonT(30), <2>1, <2>3, Added
  <2>5. disk[k][a].n \in 1..(received - 1)
    BY <1>1, <2>4, HighestGrows DEF IInv, Numbered
  <2>6. CASE m = 0 /\ b = End(disk[0])
    <3>1. disk'[m][b] = l
      BY <2>1, <2>6, Added
    <3> QED
      BY <2>1, <2>4, <2>5, <3>1 DEF IInv, FilesOK
  <2>7. CASE m # 0 \/ b # End(disk[0])
    <3>1. b \in DOMAIN disk[m] /\ disk'[m][b] = disk[m][b]
      BY <2>1, <2>7, Added
    <3> QED
      BY <2>4, <3>1 DEF IInv, InOrder
  <2> QED
    BY <2>6, <2>7
<1>2. CASE Moves
  <2> DEFINE Was(j) == IF j = i + 1 THEN i ELSE j
  <2>1. i \in Slots /\ i \in Int
    BY <1>2, RotateAssumption DEF Moves, OldestIndex, Slots
  <2>2. k # i /\ m # i
    BY <1>2, <2>1, Moved, SeqFacts
  <2>3. disk'[k] = disk[Was(k)] /\ disk'[m] = disk[Was(m)]
    BY <1>2, <2>2, Moved
  <2>4. Was(k) \in Slots /\ Was(m) \in Slots
    BY <2>1
  <2>5. k > m => Was(k) > Was(m)
    BY <2>1, <2>2 DEF Slots
  <2> HIDE DEF Was
  <2>6. Was(k) > Was(m) \/ (Was(k) = Was(m) /\ a < b)
    BY <2>5
  <2> QED
    BY <2>3, <2>4, <2>6 DEF IInv, InOrder
<1>3. CASE Clears
  BY <1>3, SeqFacts DEF Clears, IInv, FilesOK, InOrder
<1>4. CASE disk' = disk
  BY <1>4 DEF IInv, InOrder
<1> QED
  BY <1>1, <1>2, <1>3, <1>4, DiskSteps DEF Skips, Keeps

(* What counts as written: more only by a step that writes it.             *)
LEMMA WrittenSteps ==
  ASSUME IInv, [Next]_vars, NEW n \in Written'
  PROVE  n \in Written \/ (Adds /\ n = received)
<1> USE LineFacts DEF IInv, FilesOK, Written, InHand, NotInHand, Continue, Lost
<1>1. ASSUME NEW len \in Sizes, NEW source \in Sources, Decode(len, source)
      PROVE  n \in Written
  BY <1>1 DEF Decode, Sizes
<1>2. CASE NewLogFile
  BY <1>2 DEF NewLogFile
<1>3. CASE NewLogFileError
  BY <1>3 DEF NewLogFileError
<1>4. CASE Write
  <2>1. pc' # "write" /\ pc' # "open"
    BY <1>4 DEF Write
  <2>2. Adds
    BY <1>4, <2>1 DEF Write, Adds
  <2> QED
    BY <1>4, <2>2 DEF Write
<1>5. CASE WriteError
  BY <1>5 DEF WriteError
<1>6. CASE RotateClose \/ Rename \/ RenameError \/ RotateCreate
  BY <1>6 DEF RotateClose, Rename, RenameError, RotateCreate, GiveUp
<1>7. CASE Restart
  BY <1>7 DEF Restart
<1>8. CASE UNCHANGED vars
  BY <1>8 DEF vars
<1> QED
  BY <1>1, <1>2, <1>3, <1>4, <1>5, <1>6, <1>7, <1>8 DEF Next

(* Lines that are lost are older than those that are left.                 *)
LEMMA OldestNext == IInv /\ [Next]_vars => OldestGoFirst'
<1> SUFFICES ASSUME IInv, [Next]_vars,
                    NEW n \in Written', ~Kept(n)',
                    NEW k \in Slots, NEW a \in DOMAIN disk'[k]
             PROVE  n < disk'[k][a].n
  BY DEF OldestGoFirst, Slots
<1>1. CASE Adds
  <2>1. PICK l \in Lines : l.n = received /\ disk' = [disk EXCEPT ![0] = AtEnd(@, l)]
    BY <1>1 DEF Adds
  <2> 0 \in Slots
    BY RotateAssumption DEF Slots
  <2>2. End(disk[0]) \in DOMAIN disk'[0] /\ disk'[0][End(disk[0])] = l
    BY <2>1, Added
  <2>3. n # received
    BY <2>1, <2>2 DEF Kept, Slots
  <2>4. n \in Written /\ n < received
    BY <2>3, WrittenSteps DEF Written, IInv, FilesOK
  <2>5. ~Kept(n)
    <3>1. ASSUME NEW s \in Slots, NEW b \in DOMAIN disk[s]
          PROVE  b \in DOMAIN disk'[s] /\ disk'[s][b] = disk[s][b]
      BY <2>1, Added
    <3> QED
      BY <3>1 DEF Kept, Slots
  <2>6. CASE k = 0 /\ a = End(disk[0])
    BY <2>1, <2>2, <2>4, <2>6
  <2>7. CASE k # 0 \/ a # End(disk[0])
    <3>1. a \in DOMAIN disk[k] /\ disk'[k][a] = disk[k][a]
      BY <2>1, <2>7, Added
    <3> QED
      BY <2>4, <2>5, <3>1 DEF IInv, OldestGoFirst
  <2> QED
    BY <2>6, <2>7
<1>2. CASE Moves
  <2>1. i \in Slots /\ i + 1 \in Slots
    BY <1>2, RotateAssumption DEF Moves, OldestIndex, Slots
  <2>2. n \in Written
    BY <1>2, WrittenSteps DEF Moves, Adds
  <2>3. PICK j \in Slots : disk'[k] = disk[j] /\ j # i + 1
    BY <1>2, <2>1, Moved, SeqFacts DEF Slots
  <2>4. CASE ~Kept(n)
    BY <2>2, <2>3, <2>4 DEF IInv, OldestGoFirst
  <2>5. CASE Kept(n)
    <3>1. PICK s \in Slots : \E b \in DOMAIN disk[s] : disk[s][b].n = n
      BY <2>5 DEF Kept
    <3>2. s = i + 1
      <4>1. s = i => disk'[i + 1] = disk[s]
        BY <1>2, <2>1, Moved DEF Slots
      <4>2. s # i /\ s # i + 1 => disk'[s] = disk[s]
        BY <1>2, Moved
      <4> QED
        BY <2>1, <3>1, <4>1, <4>2 DEF Kept, Slots
    <3>3. i = OldestIndex
      <4>1. disk[i + 1] # <<>>
        BY <3>1, <3>2, SeqFacts
      <4>2. i \in 0..OldestIndex /\ pc = "rename"
        BY <1>2 DEF Moves
      <4> QED
        BY <4>1, <4>2, RotateAssumption DEF IInv, Vacated, OldestIndex
    <3>4. s > j
      BY <2>3, <3>2, <3>3, RotateAssumption DEF OldestIndex, Slots
    <3> QED
      BY <2>3, <3>1, <3>4 DEF IInv, InOrder
  <2> QED
    BY <2>4, <2>5
<1>3. CASE Clears
  <2>1. disk[0] = <<>> /\ disk' = disk
    BY SMTT(30), <1>3, SeqFacts, RotateAssumption DEF Clears, IInv, FilesOK, Slots
  <2> QED
    BY SMTT(30), <2>1, WrittenSteps, <1>3 DEF Clears, Adds, IInv, OldestGoFirst, Kept, Slots
<1>4. CASE disk' = disk /\ ~Adds
  BY <1>4, WrittenSteps DEF IInv, OldestGoFirst, Kept, Slots
<1> QED
  BY <1>1, <1>2, <1>3, <1>4, DiskSteps DEF Skips, Keeps

(* The sizes: a line is added where there is room for it, and a step that  *)
(* is not a failure closes the file when there is no more.                 *)
LEMMA SizedNext == IInv /\ [Next]_vars => Sized' /\ bytes' \in Nat /\ size' \in [Slots -> Nat]
<1> SUFFICES ASSUME IInv, [Next]_vars
             PROVE  Sized' /\ bytes' \in Nat /\ size' \in [Slots -> Nat]
  OBVIOUS
<1> DEFINE Goal == Sized' /\ bytes' \in Nat /\ size' \in [Slots -> Nat]
<1>0. /\ faults \in Nat /\ faults' \in Nat /\ msg \in Lines /\ msg' \in Lines /\ bytes \in Nat
      /\ size \in [Slots -> Nat] /\ 0 \in Slots /\ MaxLine \in Nat /\ MaxLogSize \in Nat
  <2>1. faults' \in Nat /\ msg' \in Lines
    BY FilesNext DEF FilesOK
  <2>2. /\ faults \in Nat /\ msg \in Lines /\ bytes \in Nat /\ size \in [Slots -> Nat]
    BY DEF IInv, FilesOK, SizesOK
  <2> QED
    BY <2>1, <2>2, RotateAssumption DEF Slots
<1>l. /\ Limit \in Nat /\ Limit' \in Nat /\ Limit >= MaxLogSize + MaxLine
      /\ faults' = faults => Limit' = Limit
      /\ faults' = faults + 1 => Limit' = Limit + MaxLine
  BY <1>0, LimitFacts
<1>m. None.len = 0 /\ msg.len \in Nat
  BY <1>0 DEF None, Lines
<1>s. /\ \A k \in Slots : size[k] \in Nat /\ size[k] <= Limit
      /\ handle = "open" => bytes = size[0]
      /\ msg.len <= MaxLine
      /\ pc \notin {"close", "rename"} => size[0] + MaxLine <= Limit
  BY <1>0 DEF IInv, Sized, SizeBounded, BytesAccounted
<1>g. ASSUME size' \in [Slots -> Nat], bytes' \in Nat, msg'.len <= MaxLine,
             \A k \in Slots : size'[k] <= Limit',
             handle' = "open" => bytes' = size'[0],
             pc' \notin {"close", "rename"} => size'[0] + MaxLine <= Limit'
      PROVE  Goal
  BY <1>g DEF Sized, SizeBounded, BytesAccounted, Slots
<1>f. ASSUME size' = size, faults' = faults + 1, handle' # "open", bytes' \in Nat, msg'.len <= MaxLine
      PROVE  Goal
  <2>1. \A k \in Slots : size'[k] <= Limit' /\ size'[k] + MaxLine <= Limit'
    BY <1>0, <1>l, <1>s, <1>f
  <2> QED
    BY <1>0, <1>g, <1>f, <2>1
<1> USE <1>0, <1>l, <1>m, <1>s
<1>1. ASSUME NEW len \in Sizes, NEW source \in Sources, Decode(len, source)
      PROVE  Goal
  <2>1. msg'.len <= MaxLine
    BY <1>1 DEF Decode, Sizes
  <2>2. UNCHANGED <<size, bytes, handle, faults>> /\ pc = "decode"
    BY <1>1 DEF Decode
  <2> QED
    BY <1>g, <2>1, <2>2
<1>2. CASE NewLogFile
  BY <1>2, <1>g DEF NewLogFile, InitialBytes
<1>3. CASE NewLogFileError
  BY <1>3, <1>g DEF NewLogFileError, Fault, Continue
<1>4. CASE Write
  <2>1. size' = [size EXCEPT ![0] = size[0] + msg.len] /\ bytes' = bytes + msg.len
        /\ faults' = faults /\ handle' = "open" /\ bytes = size[0] /\ pc = "write"
    BY <1>4 DEF Write
  <2>2. size'[0] = size[0] + msg.len /\ \A k \in Slots : k # 0 => size'[k] = size[k]
    BY <2>1
  <2>3. size' \in [Slots -> Nat] /\ bytes' \in Nat /\ \A k \in Slots : size'[k] <= Limit'
    BY <2>1, <2>2
  <2>4. pc' = "close" \/ bytes' <= MaxLogSize
    BY <1>4, <2>1 DEF Write, TooLarge
  <2>5. msg' = None
    BY <1>4 DEF Write, Continue
  <2> QED
    BY <1>g, <2>1, <2>2, <2>3, <2>4, <2>5
<1>5. CASE WriteError
  <2>1. msg' = None /\ bytes' = 0 /\ handle' = "none" /\ pc = "write"
    BY <1>5 DEF WriteError, Continue
  <2>2. CASE UNCHANGED <<size, faults>>
    BY <1>g, <2>1, <2>2
  <2>3. ASSUME NEW len \in 0..(msg.len - 1), size' = [size EXCEPT ![0] = size[0] + len], faults' = faults + 1
        PROVE  Goal
    <3>1. size'[0] = size[0] + len /\ \A k \in Slots : k # 0 => size'[k] = size[k]
      BY <2>3
    <3>2. size' \in [Slots -> Nat] /\ \A k \in Slots : size'[k] <= Limit'
      BY <2>1, <2>3, <3>1
    <3> QED
      BY <1>g, <2>1, <2>3, <3>1, <3>2
  <2> QED
    BY <1>5, <2>2, <2>3 DEF WriteError, Fault
<1>6. CASE RotateClose
  <2>1. msg'.len <= MaxLine /\ UNCHANGED <<size, bytes>> /\ handle' = "closed"
    BY <1>6 DEF RotateClose, GiveUp, Continue
  <2>2. CASE faults' = faults /\ pc' = "rename"
    BY <1>g, <2>1, <2>2
  <2>3. CASE faults' = faults + 1
    BY <1>f, <2>1, <2>3
  <2> QED
    BY <1>6, <2>2, <2>3 DEF RotateClose, Fault
<1>7. CASE Rename
  <2>1. UNCHANGED <<handle, bytes, pc, msg, faults>> /\ pc = "rename"
    BY <1>7 DEF Rename
  <2>2. i \in Slots /\ i + 1 \in Slots /\ i # i + 1
    BY <1>7, RotateAssumption DEF Rename, IInv, FilesOK, OldestIndex, Slots
  <2>3. CASE size' = size
    BY <1>g, <2>1, <2>3
  <2>4. CASE size' = [size EXCEPT ![i + 1] = size[i], ![i] = 0]
    <3>1. \A k \in Slots : size'[k] = IF k = i THEN 0 ELSE IF k = i + 1 THEN size[i] ELSE size[k]
      BY <2>2, <2>4
    <3>2. size' \in [Slots -> Nat] /\ \A k \in Slots : size'[k] <= Limit'
      BY <2>1, <2>2, <2>4, <3>1
    <3>3. handle # "open"
      BY <2>1 DEF IInv, RotateShut
    <3> QED
      BY <1>g, <2>1, <3>2, <3>3
  <2> QED
    BY <1>7, <2>3, <2>4 DEF Rename, Newer
<1>8. CASE RenameError
  BY <1>8, <1>f DEF RenameError, GiveUp, Fault, Continue
<1>9. CASE RotateCreate
  <2>1. msg' = None
    BY <1>9 DEF RotateCreate, GiveUp, Continue
  <2>2. CASE size' = [size EXCEPT ![0] = 0] /\ bytes' = 0 /\ faults' = faults
    <3>1. size'[0] = 0 /\ \A k \in Slots : size'[k] <= Limit'
      BY <2>2
    <3> QED
      BY <1>g, <2>1, <2>2, <3>1
  <2>3. CASE UNCHANGED <<size, bytes>> /\ faults' = faults + 1 /\ handle' = "closed"
    BY <1>f, <2>1, <2>3
  <2> QED
    BY <1>9, <2>2, <2>3 DEF RotateCreate, Fault, GiveUp
<1>10. CASE Restart
  BY <1>10, <1>f DEF Restart, Fault, Continue
<1>11. CASE UNCHANGED vars
  BY <1>11, <1>g DEF vars
<1> QED
  BY <1>1, <1>2, <1>3, <1>4, <1>5, <1>6, <1>7, <1>8, <1>9, <1>10, <1>11 DEF Next, Goal

(* A rotation that is under way has closed the log, and one that is open   *)
(* is there.                                                               *)
LEMMA ShutNext == IInv /\ [Next]_vars => RotateShut' /\ OpenExists'
<1> SUFFICES ASSUME IInv, [Next]_vars PROVE RotateShut' /\ OpenExists'
  OBVIOUS
<1> USE DEF IInv, RotateShut, OpenExists, Continue, GiveUp
<1>1. CASE \E len \in Sizes, source \in Sources : Decode(len, source)
  BY <1>1 DEF Decode
<1>2. CASE NewLogFile \/ NewLogFileError \/ Write \/ WriteError
  BY <1>2 DEF NewLogFile, NewLogFileError, Write, WriteError
<1>3. CASE RotateClose \/ Rename \/ RenameError
  BY <1>3 DEF RotateClose, Rename, RenameError
<1>4. CASE RotateCreate \/ Restart
  BY <1>4 DEF RotateCreate, Restart
<1>5. CASE UNCHANGED vars
  BY <1>5 DEF vars
<1> QED
  BY <1>1, <1>2, <1>3, <1>4, <1>5 DEF Next

(* The invariant holds throughout.                                         *)
THEOREM Invariance == Spec => []IInv
<1>1. IInv /\ [Next]_vars => IInv'
  BY FilesNext, SizedNext, ShutNext, NumberedNext, VacatedNext, InOrderNext, OldestNext DEF IInv, SizesOK
<1> QED
  BY InitInv, <1>1, PTL DEF Spec

(* However rotations are cut short, a log read from its oldest file to its *)
(* newest is in order (Rotate).                                            *)
THEOREM LogInOrder == Spec => []InOrder
<1>1. IInv => InOrder
  BY DEF IInv
<1> QED
  BY Invariance, <1>1, PTL

(* Rotate, NewLogFile and restarts lose no line but the oldest.            *)
THEOREM LosesOldest == Spec => []OldestGoFirst
<1>1. IInv => OldestGoFirst
  BY DEF IInv
<1> QED
  BY Invariance, <1>1, PTL

(* The variables keep their types.                                         *)
THEOREM TypeCorrect == Spec => []TypeOK
<1>1. IInv => TypeOK
  BY DEF IInv, TypeOK
<1> QED
  BY Invariance, <1>1, PTL

(* BytesWritten is the size of the file being written (NewLogFile, Write). *)
THEOREM BytesCorrect == Spec => []BytesAccounted
<1>1. IInv => BytesAccounted
  BY DEF IInv, Sized
<1> QED
  BY Invariance, <1>1, PTL

(* main rotates in time: a file is too large by a line, and one more for   *)
(* each failure, at the most.                                              *)
THEOREM SizeCorrect == Spec => []SizeBounded
<1>1. IInv => SizeBounded
  BY DEF IInv, Sized
<1> QED
  BY Invariance, <1>1, PTL
=============================================================================
