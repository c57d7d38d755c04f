------------------------------- MODULE LogRotate -------------------------------
(***************************************************************************)
(* The logwrite service (pkg/logwrite/logwrite.go): it receives messages   *)
(* from memlogd, appends them to one file per source, and rotates a file   *)
(* that has grown too large.  Files of different sources have nothing in   *)
(* common, so one source is modelled, and the messages of logwrite itself, *)
(* which are not written.                                                  *)
(*                                                                         *)
(* Any system call may fail, and the service may be killed and restarted   *)
(* between any two of them; the files survive.  Slot 0 is the log, slot k  *)
(* is the log with the suffix k - 1.                                       *)
(***************************************************************************)
EXTENDS Integers, Sequences

CONSTANTS
  MaxLogFiles,   \* -max-log-files
  MaxLogSize,    \* -max-log-size
  MaxLine,       \* longest line (memlogd truncates longer ones)
  MaxMessages,   \* bound on the messages received
  MaxFaults      \* bound on failed calls and restarts

ASSUME RotateAssumption ==
  /\ MaxLogFiles \in Nat /\ MaxLogSize \in Nat
  /\ MaxLine \in Nat \ {0}
  /\ MaxMessages \in Nat /\ MaxFaults \in Nat

VARIABLES
  disk,      \* slot -> the lines in that file, <<>> if there is none
  exists,    \* the slots that have a file
  size,      \* slot -> the size of its file, as Stat returns it
  handle,    \* the LogFile: "none" in logs, "open", or "closed"
  bytes,     \* its BytesWritten
  pc,        \* what the main loop is about
  i,         \* loop variable of Rotate, -1 outside it
  msg,       \* the message being handled, numbered as received
  received,  \* messages received so far
  failed,    \* messages that were not, or not wholly, written
  faults     \* calls that failed and restarts so far

vars == <<disk, exists, size, handle, bytes, pc, i, msg, received, failed, faults>>

Slots   == 0..MaxLogFiles
Sizes   == 1..MaxLine
Sources == {"service", "logwrite"}
Lines   == [n : Nat, len : Nat]
Logs    == Seq(Lines)
None    == [n |-> 0, len |-> 0]

Init ==
  /\ disk = [k \in Slots |-> <<>>]
  /\ exists = {}
  /\ size = [k \in Slots |-> 0]
  /\ handle = "none"
  /\ bytes = 0
  /\ pc = "decode"
  /\ i = -1
  /\ msg = None
  /\ received = 0
  /\ failed = {}
  /\ faults = 0

Fault == faults < MaxFaults /\ faults' = faults + 1

(* The message is done with; the loop goes on.                             *)
Continue == pc' = "decode" /\ msg' = None
Lost     == failed' = failed \cup {msg.n}

(* Faulty variants of the definitions below: a line does not go to the     *)
(* end of the file; files are moved youngest first; the size is never      *)
(* looked at.                                                              *)
AtStart(s, l)    == <<l>> \o s
YoungestFirst(k) == MaxLogFiles - 1 - k
NeverTooLarge    == FALSE
-----------------------------------------------------------------------------
(* Decode.  A message of logwrite's own is dropped.                        *)
Decode(len, source) ==
  /\ pc = "decode"
  /\ received < MaxMessages
  /\ received' = received + 1
  /\ \/ /\ source = "logwrite"
        /\ failed' = failed \cup {received'}
        /\ UNCHANGED <<pc, msg>>
     \/ /\ source # "logwrite"
        /\ msg' = [n |-> received', len |-> len]
        /\ pc' = IF handle = "none" THEN "open" ELSE "write"
        /\ UNCHANGED failed
  /\ UNCHANGED <<disk, exists, size, handle, bytes, i, faults>>

(* NewLogFile: a log that exists is appended to.                           *)
InitialBytes == size[0]

NewLogFile ==
  /\ pc = "open"
  /\ exists' = exists \cup {0}
  /\ handle' = "open"
  /\ bytes' = InitialBytes
  /\ pc' = "write"
  /\ UNCHANGED <<disk, size, i, msg, received, failed, faults>>

NewLogFileError ==
  /\ pc = "open"
  /\ Fault
  /\ Lost
  /\ Continue
  /\ UNCHANGED <<disk, exists, size, handle, bytes, i, received>>

(* LogFile.Write (O_APPEND), and the decision to rotate.                   *)
AtEnd(s, l) == Append(s, l)
TooLarge == bytes' > MaxLogSize

Write ==
  /\ pc = "write"
  /\ handle = "open"
  /\ disk' = [disk EXCEPT ![0] = AtEnd(@, msg)]
  /\ size' = [size EXCEPT ![0] = @ + msg.len]
  /\ bytes' = bytes + msg.len
  /\ \/ TooLarge /\ pc' = "close" /\ msg' = None
     \/ ~TooLarge /\ Continue
  /\ UNCHANGED <<exists, handle, i, received, failed, faults>>

(* A write may fail having written a part of the line.  The log is closed  *)
(* and forgotten.                                                          *)
WriteError ==
  /\ pc = "write"
  /\ \/ handle = "closed" /\ UNCHANGED <<disk, size, faults>>
     \/ /\ handle = "open"
        /\ Fault
        /\ \E len \in 0..(msg.len - 1) :
             /\ disk' = IF len = 0 THEN disk
                        ELSE [disk EXCEPT ![0] = AtEnd(@, [n |-> msg.n, len |-> len])]
             /\ size' = [size EXCEPT ![0] = @ + len]
  /\ Lost
  /\ handle' = "none"
  /\ bytes' = 0
  /\ Continue
  /\ UNCHANGED <<exists, i, received>>
-----------------------------------------------------------------------------
(* Rotate.  Its errors are ignored by the main loop: the LogFile stays in  *)
(* the map with a file that is closed.                                     *)

OldestIndex == MaxLogFiles - 1

GiveUp ==
  /\ handle' = "closed"
  /\ Continue

RotateClose ==
  /\ pc = "close"
  /\ \/ /\ handle' = "closed"
        /\ pc' = "rename"
        /\ i' = OldestIndex
        /\ UNCHANGED <<msg, faults>>
     \/ Fault /\ GiveUp /\ UNCHANGED i
  /\ UNCHANGED <<disk, exists, size, bytes, received, failed>>

(* Iteration k moves a file from one slot to the next.                     *)
Newer(k) == k

Rename ==
  /\ pc = "rename" /\ i >= 0
  /\ LET from == Newer(i)  to == from + 1 IN
       IF from \in exists
       THEN /\ disk' = [disk EXCEPT ![to] = disk[from], ![from] = <<>>]
            /\ exists' = (exists \ {from}) \cup {to}
            /\ size' = [size EXCEPT ![to] = size[from], ![from] = 0]
       ELSE UNCHANGED <<disk, exists, size>>
  /\ i' = i - 1
  /\ UNCHANGED <<handle, bytes, pc, msg, received, failed, faults>>

RenameError ==
  /\ pc = "rename" /\ i >= 0
  /\ Newer(i) \in exists
  /\ Fault
  /\ GiveUp
  /\ i' = -1
  /\ UNCHANGED <<disk, exists, size, bytes, received, failed>>

RotateCreate ==
  /\ pc = "rename" /\ i < 0
  /\ \/ /\ disk' = [disk EXCEPT ![0] = <<>>]
        /\ exists' = exists \cup {0}
        /\ size' = [size EXCEPT ![0] = 0]
        /\ handle' = "open"
        /\ bytes' = 0
        /\ Continue
        /\ UNCHANGED faults
     \/ Fault /\ GiveUp /\ UNCHANGED <<disk, exists, size, bytes>>
  /\ UNCHANGED <<i, received, failed>>
-----------------------------------------------------------------------------
(* The service is killed and started again: the map of logs is empty.  The *)
(* message in hand is lost if it has not been written; what memlogd sends  *)
(* again counts as a new message.                                          *)
Restart ==
  /\ Fault
  /\ failed' = IF pc \in {"open", "write"} THEN failed \cup {msg.n} ELSE failed
  /\ handle' = "none"
  /\ bytes' = 0
  /\ i' = -1
  /\ Continue
  /\ UNCHANGED <<disk, exists, size, received>>

Next ==
  \/ \E len \in Sizes, source \in Sources : Decode(len, source)
  \/ NewLogFile \/ NewLogFileError
  \/ Write \/ WriteError
  \/ RotateClose \/ Rename \/ RenameError \/ RotateCreate
  \/ Restart

Spec == Init /\ [][Next]_vars
-----------------------------------------------------------------------------
(* The variables have their types.                                         *)
FilesOK ==
  /\ disk \in [Slots -> Logs]
  /\ exists \subseteq Slots
  /\ \A k \in Slots \ exists : disk[k] = <<>>
  /\ handle \in {"none", "open", "closed"}
  /\ pc \in {"decode", "open", "write", "close", "rename"}
  /\ i \in -1..OldestIndex
  /\ msg \in Lines
  /\ received \in Nat
  /\ failed \subseteq 1..received
  /\ faults \in Nat

SizesOK == bytes \in Nat /\ size \in [Slots -> Nat]

TypeOK == FilesOK /\ SizesOK

(* Read from the oldest file to the newest, a log has its lines in the     *)
(* order in which they were received, each at most once, even after        *)
(* rotations that failed or were cut short (Rotate moves the oldest first).*)
InOrder ==
  \A k, m \in Slots : \A a \in DOMAIN disk[k], b \in DOMAIN disk[m] :
    k > m \/ (k = m /\ a < b) => disk[k][a].n < disk[m][b].n

(* Rotation loses the oldest lines only: a line that was written and is    *)
(* gone is older than any that is left.                                    *)
Written == (1..received) \ (failed \cup {msg.n})
Kept(n) == \E k \in Slots : \E a \in DOMAIN disk[k] : disk[k][a].n = n

OldestGoFirst ==
  \A n \in Written : \A k \in Slots : \A a \in DOMAIN disk[k] :
    ~Kept(n) => n < disk[k][a].n

(* A log file outgrows the limit by one line, and by one more for every    *)
(* failure or restart that prevented its rotation.                         *)
Limit == MaxLogSize + MaxLine * (1 + faults)
SizeBounded == \A k \in Slots : size[k] <= Limit

(* What makes the three invariants above inductive.  Lines are numbered up *)
(* to the message in hand, which is not written yet.  Rotate overwrites no *)
(* slot that has lines, but the last: it has emptied it just before.       *)
(* BytesWritten is the size of the file that is written to, whatever was   *)
(* found in it when it was opened, and until a rotation is due there is     *)
(* room for one more line.                                                 *)
BytesAccounted == handle = "open" => bytes = size[0]

RotateShut == pc = "rename" => handle = "closed"

OpenExists == handle = "open" => 0 \in exists

Sized ==
  /\ SizeBounded /\ BytesAccounted
  /\ msg.len <= MaxLine
  /\ pc \notin {"close", "rename"} => size[0] + MaxLine <= Limit

InHand == pc \in {"open", "write"} => msg.n = received /\ received > 0

Highest == IF pc \in {"open", "write"} THEN received - 1 ELSE received

Numbered == \A k \in Slots : \A a \in DOMAIN disk[k] : disk[k][a].n \in 1..Highest

Vacated == pc = "rename" /\ i < OldestIndex => disk[i + 1] = <<>>

NotInHand == pc \notin {"open", "write"} => msg = None

IInv ==
  /\ FilesOK /\ SizesOK /\ Sized /\ RotateShut /\ OpenExists
  /\ InHand /\ NotInHand /\ Numbered /\ Vacated /\ InOrder /\ OldestGoFirst
=============================================================================
