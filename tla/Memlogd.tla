------------------------------- MODULE Memlogd -------------------------------
(***************************************************************************)
(* memlogd: the in-memory circular log of pkg/memlogd/cmd/memlogd/main.go. *)
(*                                                                         *)
(* Goroutines: ringBufferHandler owns the ring and the listener list and   *)
(* selects between log messages and queries; receiveQueryHandler accepts   *)
(* query connections one at a time; one logQueryHandler per connection     *)
(* drains that connection's buffered channel; one readLogFromFd per log    *)
(* source produces messages.  Clients are the environment.                 *)
(*                                                                         *)
(* A message is its arrival number at ringBufferHandler, 1, 2, ...; text,  *)
(* source and time are left out.  0 is an empty (nil) ring slot.           *)
(* A connection's channel is represented by its whole history: sent[c] is  *)
(* every message put into it, taken[c] how many were received from it, so  *)
(* it currently buffers Len(sent[c]) - taken[c] messages.                  *)
(***************************************************************************)
EXTENDS Integers, Sequences

CONSTANTS
  RingSize,    \* capacity of the ring (-max-lines)
  ChanSize,    \* capacity of a connection's channel (main passes -max-lines)
  Conns,       \* query connections
  Sources,     \* log sources: one readLogFromFd goroutine each
  QueryHandler,\* receiveQueryHandler in its role as a sender on logCh
  MaxLog       \* bound of the model: messages of sources and failed accepts

ASSUME SizesAssumption == RingSize \in Nat \ {0} /\ ChanSize \in Nat \ {0}
ASSUME BoundAssumption == MaxLog \in Nat
ASSUME ConnsAssumption == "absent" \notin Conns
ASSUME SendersAssumption == QueryHandler \notin Sources

(* The mode byte: logDump, logFollow, logDumpFollow, and any other value.  *)
Dump       == 0
Follow     == 1
DumpFollow == 2
OtherMode  == 3
Modes      == {Dump, Follow, DumpFollow, OtherMode}
NoMode     == 4

VARIABLES
  ring,        \* ring[i]: the message in slot i, 0 if none
  pos,         \* the slot the ring pointer is at: next to be overwritten
  logged,      \* number of messages received by ringBufferHandler
  listeners,   \* connections registered for future messages
  hpc,         \* ringBufferHandler: "select", or "fill" while in ring.Do
  fconn,       \* connection being filled
  fidx,        \* slots already visited by ring.Do
  logq,        \* goroutines blocked in logCh <- ..., in arrival order
  qpc,         \* receiveQueryHandler's place
  qconn,       \* the connection it is working on
  client,      \* client side: "idle", "dialed", "gone"
  modeSent,    \* mode byte the client wrote, NoMode if none yet
  mode,        \* mode ringBufferHandler was given for the connection
  sent,        \* messages put into the connection's channel
  taken,       \* messages received from it by logQueryHandler
  closed,      \* close(l.output) done
  failed,      \* l.err != nil
  writer,      \* logQueryHandler: "none", "running", "done"
  at           \* value of logged when the query was handled (history)

ringVars   == <<ring, pos, logged>>
queryVars  == <<qpc, qconn>>
clientVars == <<client, modeSent>>
chanVars   == <<sent, closed>>
writerVars == <<taken, failed, writer>>
vars == <<ring, pos, logged, listeners, hpc, fconn, fidx, logq, qpc, qconn,
          client, modeSent, mode, sent, taken, closed, failed, writer, at>>

Senders == Sources \cup {QueryHandler}
Slots   == 0 .. RingSize - 1
Absent  == "absent"

Buffered(c) == Len(sent[c]) - taken[c]

(* Faulty variants of the definitions below, each a mistake one could make *)
(* in ringBufferHandler, to show that the properties notice it.            *)
BadStoreSlot  == IF pos + 1 = RingSize THEN 0 ELSE pos + 1
BadSelecting  == TRUE
BadLastSlot   == fidx + 2 >= RingSize
BadFollows(m) == m # OtherMode
BadEnds(m)    == FALSE
BlockingSend  == hpc = "select" /\ \A c \in listeners : Buffered(c) < ChanSize

(* ring = ring.Next()                                                      *)
NextSlot == IF pos + 1 = RingSize THEN 0 ELSE pos + 1

(* ring.Value = msg writes the slot the pointer is at.                     *)
StoreSlot == pos

(* The slot i places after the ring pointer, as visited by ring.Do.        *)
SlotAt(i) == IF pos + i < RingSize THEN pos + i ELSE pos + i - RingSize

Init ==
  /\ ring = [i \in Slots |-> 0]
  /\ pos = 0
  /\ logged = 0
  /\ listeners = {}
  /\ hpc = "select"
  /\ fconn = Absent
  /\ fidx = 0
  /\ logq = <<>>
  /\ qpc = "accept"
  /\ qconn = Absent
  /\ client = [c \in Conns |-> "idle"]
  /\ modeSent = [c \in Conns |-> NoMode]
  /\ mode = [c \in Conns |-> NoMode]
  /\ sent = [c \in Conns |-> <<>>]
  /\ taken = [c \in Conns |-> 0]
  /\ closed = [c \in Conns |-> FALSE]
  /\ failed = [c \in Conns |-> FALSE]
  /\ writer = [c \in Conns |-> "none"]
  /\ at = [c \in Conns |-> 0]
-----------------------------------------------------------------------------
(* Clients.                                                                *)

Dial(c) ==
  /\ client[c] = "idle"
  /\ client' = [client EXCEPT ![c] = "dialed"]
  /\ UNCHANGED <<ringVars, listeners, hpc, fconn, fidx, logq, queryVars,
                 modeSent, mode, chanVars, writerVars, at>>

SendMode(c, m) ==
  /\ client[c] = "dialed"
  /\ modeSent[c] = NoMode
  /\ modeSent' = [modeSent EXCEPT ![c] = m]
  /\ UNCHANGED <<ringVars, listeners, hpc, fconn, fidx, logq, queryVars,
                 client, mode, chanVars, writerVars, at>>

Hangup(c) ==
  /\ client[c] = "dialed"
  /\ client' = [client EXCEPT ![c] = "gone"]
  /\ UNCHANGED <<ringVars, listeners, hpc, fconn, fidx, logq, queryVars,
                 modeSent, mode, chanVars, writerVars, at>>
-----------------------------------------------------------------------------
(* readLogFromFd: a line is complete and the goroutine sends it on logCh,  *)
(* which is unbuffered, so it blocks until ringBufferHandler receives it.  *)

IsQueued(s) == \E i \in 1 .. Len(logq) : logq[i] = s

LogLine(s) ==
  /\ ~IsQueued(s)
  /\ logged + Len(logq) < MaxLog
  /\ logq' = Append(logq, s)
  /\ UNCHANGED <<ringVars, listeners, hpc, fconn, fidx, queryVars,
                 clientVars, mode, chanVars, writerVars, at>>
-----------------------------------------------------------------------------
(* receiveQueryHandler.  A connection is in the socket's backlog from Dial *)
(* on, even when its client has gone again.                                *)

Accept(c) ==
  /\ qpc = "accept"
  /\ client[c] # "idle"
  /\ writer[c] = "none"
  /\ qpc' = "read"
  /\ qconn' = c
  /\ UNCHANGED <<ringVars, listeners, hpc, fconn, fidx, logq,
                 clientVars, mode, chanVars, writerVars, at>>

(* AcceptUnix failed: the error is logged and the loop continues.          *)
AcceptError ==
  /\ qpc = "accept"
  /\ logged + Len(logq) < MaxLog
  /\ qpc' = "logAccept"
  /\ logq' = Append(logq, QueryHandler)
  /\ UNCHANGED <<ringVars, listeners, hpc, fconn, fidx, qconn,
                 clientVars, mode, chanVars, writerVars, at>>

ReadMode ==
  /\ qpc = "read"
  /\ modeSent[qconn] # NoMode
  /\ qpc' = "query"
  /\ mode' = [mode EXCEPT ![qconn] = modeSent[qconn]]
  /\ UNCHANGED <<ringVars, listeners, hpc, fconn, fidx, logq, qconn,
                 clientVars, chanVars, writerVars, at>>

(* The read failed: "No mode received" is logged, and the query goes on    *)
(* with the zero byte of the buffer, which is logDump.                     *)
ReadModeError ==
  /\ qpc = "read"
  /\ modeSent[qconn] = NoMode
  /\ client[qconn] = "gone"
  /\ qpc' = "logMode"
  /\ mode' = [mode EXCEPT ![qconn] = Dump]
  /\ logq' = Append(logq, QueryHandler)
  /\ UNCHANGED <<ringVars, listeners, hpc, fconn, fidx, qconn,
                 clientVars, chanVars, writerVars, at>>

(* What receiveQueryHandler does once its own message has been received.   *)
AfterLog(place) ==
  CASE place = "logAccept" -> "accept"
    [] place = "logMode"   -> "query"
    [] OTHER               -> place
-----------------------------------------------------------------------------
(* ringBufferHandler.                                                      *)

(* select { case l.output <- &msg: default: }: a full channel misses it.   *)
Offer(c, m) == IF Buffered(c) < ChanSize THEN Append(sent[c], m) ELSE sent[c]

(* The handler is at its select: not in the middle of another case.        *)
Selecting == hpc = "select"

(* case msg := <-logCh: store it in the ring, send it to every listener    *)
(* without an error whose channel has room, drop the listeners that have   *)
(* one.  l.err is written by logQueryHandler with no synchronisation, so   *)
(* the handler may still see nil after the write: seen is the set of       *)
(* errors it does see.                                                     *)
HandleLog ==
  /\ Selecting
  /\ logq # <<>>
  /\ logged' = logged + 1
  /\ ring' = [ring EXCEPT ![StoreSlot] = logged + 1]
  /\ pos' = NextSlot
  /\ \E seen \in SUBSET {c \in listeners : failed[c]} :
       /\ sent' = [c \in Conns |->
                     IF c \in listeners \ seen
                     THEN Offer(c, logged + 1) ELSE sent[c]]
       /\ listeners' = listeners \ seen
  /\ qpc' = IF Head(logq) = QueryHandler THEN AfterLog(qpc) ELSE qpc
  /\ logq' = Tail(logq)
  /\ UNCHANGED <<hpc, fconn, fidx, qconn, clientVars, mode, closed,
                 writerVars, at>>

(* Which modes register a listener, copy the ring, and end after the copy. *)
Follows(m) == m = DumpFollow \/ m = Follow
Dumps(m)   == m = DumpFollow \/ m = Dump
Ends(m)    == m = Dump

(* case msg := <-queryMsgChan: start logQueryHandler, register a follower, *)
(* and go on to ring.Do if the buffer is asked for.                        *)
HandleQuery ==
  /\ Selecting
  /\ qpc = "query"
  /\ qpc' = "accept"
  /\ qconn' = Absent
  /\ writer' = [writer EXCEPT ![qconn] = "running"]
  /\ at' = [at EXCEPT ![qconn] = logged]
  /\ listeners' = IF Follows(mode[qconn])
                  THEN listeners \cup {qconn} ELSE listeners
  /\ IF Dumps(mode[qconn])
     THEN hpc' = "fill" /\ fconn' = qconn /\ fidx' = 0
     ELSE UNCHANGED <<hpc, fconn, fidx>>
  /\ UNCHANGED <<ringVars, logq, clientVars, mode, chanVars, taken, failed>>

LastSlot == fidx + 1 = RingSize

(* One call of the function given to ring.Do: put the slot's message into  *)
(* the channel if there is one and the channel has room.  After the last   *)
(* slot the channel of a plain dump is closed.                             *)
FillSlot ==
  /\ hpc = "fill"
  /\ LET msg == ring[SlotAt(fidx)] IN
       sent' = [sent EXCEPT ![fconn] = IF msg # 0 THEN Offer(fconn, msg) ELSE @]
  /\ IF LastSlot
     THEN /\ fidx' = 0
          /\ hpc' = "select"
          /\ fconn' = Absent
          /\ closed' = [closed EXCEPT ![fconn] = Ends(mode[fconn])]
     ELSE /\ fidx' = fidx + 1
          /\ UNCHANGED <<hpc, fconn, closed>>
  /\ UNCHANGED <<ringVars, listeners, logq, queryVars, clientVars, mode,
                 writerVars, at>>
-----------------------------------------------------------------------------
(* logQueryHandler(c).                                                     *)

(* A message is received and written to a client that is still there.      *)
Encode(c) ==
  /\ writer[c] = "running"
  /\ taken[c] < Len(sent[c])
  /\ client[c] = "dialed"
  /\ taken' = [taken EXCEPT ![c] = @ + 1]
  /\ UNCHANGED <<ringVars, listeners, hpc, fconn, fidx, logq, queryVars,
                 clientVars, mode, chanVars, failed, writer, at>>

(* The write fails because the client has gone: record it and return.      *)
EncodeError(c) ==
  /\ writer[c] = "running"
  /\ taken[c] < Len(sent[c])
  /\ client[c] = "gone"
  /\ taken' = [taken EXCEPT ![c] = @ + 1]
  /\ failed' = [failed EXCEPT ![c] = TRUE]
  /\ writer' = [writer EXCEPT ![c] = "done"]
  /\ UNCHANGED <<ringVars, listeners, hpc, fconn, fidx, logq, queryVars,
                 clientVars, mode, chanVars, at>>

(* The channel is closed and empty: the connection is closed.              *)
EndOfChannel(c) ==
  /\ writer[c] = "running"
  /\ closed[c]
  /\ taken[c] = Len(sent[c])
  /\ writer' = [writer EXCEPT ![c] = "done"]
  /\ UNCHANGED <<ringVars, listeners, hpc, fconn, fidx, logq, queryVars,
                 clientVars, mode, chanVars, taken, failed, at>>
-----------------------------------------------------------------------------
Handler == HandleLog \/ HandleQuery \/ FillSlot

Next ==
  \/ \E c \in Conns : Dial(c) \/ Hangup(c) \/ Accept(c)
  \/ \E c \in Conns, m \in Modes : SendMode(c, m)
  \/ \E s \in Sources : LogLine(s)
  \/ AcceptError \/ ReadMode \/ ReadModeError
  \/ Handler
  \/ \E c \in Conns : Encode(c) \/ EncodeError(c) \/ EndOfChannel(c)

Spec == Init /\ [][Next]_vars

(* ringBufferHandler alone is scheduled: no client ever reads or hangs up. *)
(* Go's select picks among its ready cases at random, so a case that is    *)
(* ready again and again is taken: strong fairness of each case.           *)
HandlerFairness == SF_vars(HandleLog) /\ SF_vars(HandleQuery) /\ WF_vars(FillSlot)

SpecHandler == Spec /\ HandlerFairness

(* Every other goroutine is scheduled too, and every client either sends   *)
(* its mode byte or hangs up, and reads what it is sent.                   *)
ServiceFairness ==
  /\ WF_vars(ReadMode) /\ WF_vars(ReadModeError)
  /\ \A c \in Conns :
       /\ SF_vars(Accept(c))
       /\ WF_vars(Hangup(c) \/ \E m \in Modes : SendMode(c, m))
       /\ WF_vars(Encode(c)) /\ WF_vars(EncodeError(c))
       /\ WF_vars(EndOfChannel(c))
-----------------------------------------------------------------------------
(* The variables have their types: in particular the ring pointer stays in *)
(* the ring.                                                               *)
TypeOK ==
  /\ ring \in [Slots -> Nat]
  /\ pos \in Slots
  /\ logged \in Nat
  /\ listeners \subseteq Conns
  /\ hpc \in {"select", "fill"}
  /\ fconn \in Conns \cup {Absent}
  /\ fidx \in Slots
  /\ logq \in Seq(Senders)
  /\ qpc \in {"accept", "read", "logAccept", "logMode", "query"}
  /\ qconn \in Conns \cup {Absent}
  /\ client \in [Conns -> {"idle", "dialed", "gone"}]
  /\ modeSent \in [Conns -> Modes \cup {NoMode}]
  /\ mode \in [Conns -> Modes \cup {NoMode}]
  /\ sent \in [Conns -> Seq(Nat)]
  /\ taken \in [Conns -> Nat]
  /\ closed \in [Conns -> BOOLEAN]
  /\ failed \in [Conns -> BOOLEAN]
  /\ writer \in [Conns -> {"none", "running", "done"}]
  /\ at \in [Conns -> Nat]

(* How many messages the ring holds after n were logged.                   *)
Kept(n) == IF n < RingSize THEN n ELSE RingSize

(* The ring holds exactly the latest Kept(logged) messages, and ring.Do,   *)
(* which starts at the ring pointer, visits them oldest first: "the oldest *)
(* messages will be overwritten" (docs/logging.md).                        *)
RingHoldsLatest ==
  \A i \in Slots :
    ring[SlotAt(i)] = IF logged + i + 1 > RingSize
                      THEN logged + i + 1 - RingSize ELSE 0

Increasing(s) == \A i, j \in 1 .. Len(s) : i < j => s[i] < s[j]

(* No client sees a message twice or two messages out of order, even one   *)
(* in DumpFollow mode, registered as a listener before the ring is copied. *)
InOrder == \A c \in Conns : Increasing(sent[c])

(* The ring has been copied for connection c.                              *)
DumpDone(c) ==
  /\ writer[c] # "none"
  /\ Dumps(mode[c])
  /\ ~(hpc = "fill" /\ fconn = c)

(* The first messages of s are the ring's contents after n messages.       *)
HoldsDump(s, n) ==
  /\ Len(s) >= Kept(n)
  /\ \A k \in 1 .. Kept(n) : s[k] = n - Kept(n) + k

(* With channels as large as the ring, as main creates them, a dump is the *)
(* whole ring as it was when the query was handled: no message is dropped  *)
(* whatever the speed of the client, and none of a later time is mixed in. *)
DumpComplete ==
  ChanSize >= RingSize =>
    \A c \in Conns : DumpDone(c) =>
      /\ HoldsDump(sent[c], at[c])
      /\ closed[c] => Len(sent[c]) = Kept(at[c])

(* A closed channel belongs to a plain dump and is never a listener's:     *)
(* sending a later message on it would panic.                              *)
NoSendOnClosed == \A c \in Conns : closed[c] => c \notin listeners /\ fconn # c

(* The connection variables of the two handlers hold a connection wherever *)
(* the code uses them.                                                     *)
PlaceInv ==
  /\ hpc = "fill" => fconn \in Conns
  /\ qpc \in {"read", "logMode", "query"} => qconn \in Conns

(* Where a connection is in its life: fresh until its query is handled;    *)
(* then a listener, being filled, or closed, as its mode says.             *)
LifeInv ==
  /\ hpc = "select" => fconn = Absent
  /\ hpc = "fill" => /\ Dumps(mode[fconn])
                     /\ writer[fconn] # "none"
                     /\ at[fconn] = logged
  /\ qpc \in {"read", "logMode", "query"} => writer[qconn] = "none"
  /\ \A c \in Conns :
       /\ writer[c] = "none" => /\ sent[c] = <<>>
                                /\ taken[c] = 0
                                /\ c \notin listeners
                                /\ ~closed[c]
       /\ c \in listeners => Follows(mode[c])
       /\ closed[c] => mode[c] = Dump /\ c # fconn
       /\ taken[c] <= Len(sent[c])

(* Every message of s is at most b.                                        *)
UpTo(s, b) == \A i \in 1 .. Len(s) : s[i] <= b

(* What a channel has been sent lies behind what it can be sent next: the  *)
(* next message logged, and during ring.Do the next slot.                  *)
OrderInv ==
  /\ InOrder
  /\ \A c \in Conns : UpTo(sent[c], logged)
  /\ hpc = "fill" => UpTo(sent[fconn], logged + fidx - RingSize)

(* During ring.Do into a channel as large as the ring, everything visited  *)
(* so far has been sent.                                                   *)
Visited(n) == IF n + Kept(logged) > RingSize
              THEN n + Kept(logged) - RingSize ELSE 0

FillInv ==
  ChanSize >= RingSize /\ hpc = "fill" =>
    /\ Len(sent[fconn]) = Visited(fidx)
    /\ \A k \in 1 .. Len(sent[fconn]) :
         sent[fconn][k] = logged - Kept(logged) + k

(* The inductive invariant.                                                *)
IInv == /\ TypeOK /\ PlaceInv /\ RingHoldsLatest
        /\ LifeInv /\ OrderInv /\ FillInv /\ DumpComplete

(* A send on logCh is received although no client ever reads: writes to    *)
(* the log do not block because a reader is slow (TestNonblock).           *)
ProducerNotBlocked == \A s \in Senders : IsQueued(s) ~> ~IsQueued(s)

(* A client that asked for a dump gets it and then the end of the stream,  *)
(* if everyone is scheduled and no client keeps the listener waiting.      *)
DumpTerminates ==
  ServiceFairness => \A c \in Conns : modeSent[c] = Dump ~> writer[c] = "done"
=============================================================================
