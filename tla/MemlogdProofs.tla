---------------------------- MODULE MemlogdProofs ----------------------------
(***************************************************************************)
(* Proofs about memlogd, for every ring and channel size, every set of     *)
(* connections and of sources: the ring holds the latest messages, clients *)
(* see them in order, and a dump is complete when the channel is as large  *)
(* as the ring.                                                            *)
(***************************************************************************)
EXTENDS Memlogd, TLAPS

USE SizesAssumption, BoundAssumption, ConnsAssumption, SendersAssumption
    DEF Absent, Slots, Senders, Modes, NoMode, Dump, Follow, DumpFollow,
        OtherMode, ringVars, queryVars, clientVars, chanVars, writerVars

(* Sequences of messages: what Append does to length, elements and type.   *)
LEMMA AppendFacts ==
  ASSUME NEW s \in Seq(Nat), NEW m \in Nat
  PROVE  /\ Append(s, m) \in Seq(Nat)
         /\ Len(Append(s, m)) = Len(s) + 1
         /\ \A i \in 1 .. Len(s) : Append(s, m)[i] = s[i]
         /\ Append(s, m)[Len(s) + 1] = m
         /\ Len(s) \in Nat
  OBVIOUS

(* A nonblocking send leaves the channel's history as it is, or adds the   *)
(* message at its end.                                                     *)
LEMMA OfferFacts ==
  ASSUME TypeOK, NEW c \in Conns, NEW m \in Nat
  PROVE  /\ Offer(c, m) \in Seq(Nat)
         /\ Offer(c, m) = sent[c] \/ Offer(c, m) = Append(sent[c], m)
         /\ Len(sent[c]) <= Len(Offer(c, m))
<1>1. sent[c] \in Seq(Nat)
  BY DEF TypeOK
<1>2. CASE Buffered(c) < ChanSize
  BY <1>1, <1>2, AppendFacts DEF Offer
<1>3. CASE ~(Buffered(c) < ChanSize)
  BY <1>1, <1>3 DEF Offer
<1> QED BY <1>2, <1>3

(* Every slot ring.Do visits is a slot, visited once: the pointer's own    *)
(* slot comes first.                                                       *)
LEMMA SlotFacts ==
  ASSUME TypeOK
  PROVE  /\ \A i \in Slots : SlotAt(i) \in Slots
         /\ \A i \in Slots : SlotAt(i) = pos => i = 0
         /\ StoreSlot \in Slots
         /\ NextSlot \in Slots
  BY DEF SlotAt, TypeOK, StoreSlot, NextSlot

(* memlogd starts with its variables in their types.                       *)
LEMMA TypeInit == Init => TypeOK /\ PlaceInv
  BY DEF Init, TypeOK, PlaceInv

(* Every step keeps the variables in their types, and the handler in place. *)
LEMMA TypeNext == TypeOK /\ PlaceInv /\ [Next]_vars => TypeOK' /\ PlaceInv'
<1> SUFFICES ASSUME TypeOK, PlaceInv, [Next]_vars PROVE TypeOK' /\ PlaceInv'
  OBVIOUS
<1>1. ASSUME NEW c \in Conns, Dial(c) PROVE TypeOK' /\ PlaceInv'
  BY <1>1 DEF Dial, TypeOK, PlaceInv
<1>2. ASSUME NEW c \in Conns, Hangup(c) PROVE TypeOK' /\ PlaceInv'
  BY <1>2 DEF Hangup, TypeOK, PlaceInv
<1>3. ASSUME NEW c \in Conns, Accept(c) PROVE TypeOK' /\ PlaceInv'
  BY <1>3 DEF Accept, TypeOK, PlaceInv
<1>4. ASSUME NEW c \in Conns, NEW m \in Modes, SendMode(c, m) PROVE TypeOK' /\ PlaceInv'
  BY <1>4 DEF SendMode, TypeOK, PlaceInv
<1>5. ASSUME NEW s \in Sources, LogLine(s) PROVE TypeOK' /\ PlaceInv'
  <2>1. s \in Senders /\ Append(logq, s) \in Seq(Senders)
    BY DEF TypeOK
  <2> QED BY <1>5, <2>1 DEF LogLine, TypeOK, PlaceInv
<1>6. CASE AcceptError
  BY SMTT(30), <1>6 DEF AcceptError, TypeOK, PlaceInv
<1>7. CASE ReadMode
  BY <1>7 DEF ReadMode, TypeOK, PlaceInv
<1>8. CASE ReadModeError
  BY <1>8 DEF ReadModeError, TypeOK, PlaceInv
<1>9. CASE HandleLog
  <2>1. ring' \in [Slots -> Nat] /\ pos' \in Slots /\ logged' \in Nat
    BY SMTT(30), <1>9, SlotFacts DEF HandleLog, TypeOK
  <2>2. sent' \in [Conns -> Seq(Nat)] /\ listeners' \subseteq Conns
    <3>1. logged + 1 \in Nat
      BY DEF TypeOK
    <3>2. \A c \in Conns : Offer(c, logged + 1) \in Seq(Nat)
      BY <3>1, OfferFacts
    <3>3. PICK seen : /\ sent' = [c \in Conns |-> IF c \in listeners \ seen THEN Offer(c, logged + 1) ELSE sent[c]]
                      /\ listeners' = listeners \ seen
      BY <1>9 DEF HandleLog
    <3>4. sent \in [Conns -> Seq(Nat)] /\ listeners \subseteq Conns
      BY DEF TypeOK
    <3>5. \A c \in Conns : (IF c \in listeners \ seen THEN Offer(c, logged + 1) ELSE sent[c]) \in Seq(Nat)
      BY <3>2, <3>4
    <3> QED BY <3>3, <3>4, <3>5
  <2>3. qpc' \in {"accept", "read", "logAccept", "logMode", "query"}
        /\ (qpc' \in {"read", "logMode", "query"} => qconn \in Conns)
    BY <1>9 DEF HandleLog, AfterLog, TypeOK, PlaceInv
  <2>4. logq' \in Seq(Senders)
    BY <1>9 DEF HandleLog, TypeOK
  <2> QED BY <1>9, <2>1, <2>2, <2>3, <2>4 DEF HandleLog, TypeOK, PlaceInv
<1>10. CASE HandleQuery
  <2>1. qconn \in Conns
    BY <1>10 DEF HandleQuery, PlaceInv
  <2>2. writer' \in [Conns -> {"none", "running", "done"}] /\ at' \in [Conns -> Nat]
    BY <1>10, <2>1 DEF HandleQuery, TypeOK
  <2>3. listeners' \subseteq Conns
    BY <1>10, <2>1 DEF HandleQuery, TypeOK
  <2>4. /\ hpc' \in {"select", "fill"} /\ fconn' \in Conns \cup {Absent}
        /\ fidx' \in Slots /\ (hpc' = "fill" => fconn' \in Conns)
    BY <1>10, <2>1 DEF HandleQuery, TypeOK, PlaceInv
  <2> QED BY <1>10, <2>1, <2>2, <2>3, <2>4 DEF HandleQuery, TypeOK, PlaceInv
<1>11. CASE FillSlot
  <2>1. fconn \in Conns /\ SlotAt(fidx) \in Slots /\ ring[SlotAt(fidx)] \in Nat
    BY <1>11, SlotFacts DEF FillSlot, PlaceInv, TypeOK
  <2>2. sent' \in [Conns -> Seq(Nat)]
    BY <1>11, <2>1, OfferFacts DEF FillSlot, TypeOK
  <2>3. closed' \in [Conns -> BOOLEAN]
    BY <1>11 DEF FillSlot, TypeOK, Ends
  <2>4. /\ hpc' \in {"select", "fill"} /\ fconn' \in Conns \cup {Absent}
        /\ fidx' \in Slots /\ (hpc' = "fill" => fconn' \in Conns)
    BY SMTT(30), <1>11, <2>1 DEF FillSlot, LastSlot, TypeOK, PlaceInv
  <2> QED BY <1>11, <2>1, <2>2, <2>3, <2>4 DEF FillSlot, TypeOK, PlaceInv
<1>12. ASSUME NEW c \in Conns, Encode(c) PROVE TypeOK' /\ PlaceInv'
  <2>1. taken' \in [Conns -> Nat]
    BY SMTT(30), <1>12 DEF Encode, TypeOK
  <2> QED BY <1>12, <2>1 DEF Encode, TypeOK, PlaceInv
<1>13. ASSUME NEW c \in Conns, EncodeError(c) PROVE TypeOK' /\ PlaceInv'
  <2>0. taken' = [taken EXCEPT ![c] = taken[c] + 1] /\ taken \in [Conns -> Nat]
    BY <1>13 DEF EncodeError, TypeOK
  <2>1. taken' \in [Conns -> Nat]
    BY <2>0
  <2>2. failed' \in [Conns -> BOOLEAN]
    BY <1>13 DEF EncodeError, TypeOK
  <2> QED BY <1>13, <2>1, <2>2 DEF EncodeError, TypeOK, PlaceInv
<1>14. ASSUME NEW c \in Conns, EndOfChannel(c) PROVE TypeOK' /\ PlaceInv'
  BY <1>14 DEF EndOfChannel, TypeOK, PlaceInv
<1>15. CASE UNCHANGED vars
  BY <1>15 DEF vars, TypeOK, PlaceInv
<1> QED
  BY <1>1, <1>2, <1>3, <1>4, <1>5, <1>6, <1>7, <1>8, <1>9, <1>10, <1>11,
     <1>12, <1>13, <1>14, <1>15 DEF Next, Handler

(* Every variable of memlogd keeps its type.                               *)
THEOREM TypeCorrect == Spec => []TypeOK
  BY TypeInit, TypeNext, PTL DEF Spec
-----------------------------------------------------------------------------
(* The ring: storing at the pointer and advancing it shifts every message  *)
(* one place towards the front, where the oldest one was.                  *)
LEMMA RingNext == TypeOK /\ RingHoldsLatest /\ [Next]_vars => RingHoldsLatest'
<1> SUFFICES ASSUME TypeOK, RingHoldsLatest, [Next]_vars PROVE RingHoldsLatest'
  OBVIOUS
<1>1. CASE HandleLog
  <2> SUFFICES ASSUME NEW i \in Slots
               PROVE ring'[SlotAt(i)'] = IF logged' + i + 1 > RingSize
                                         THEN logged' + i + 1 - RingSize ELSE 0
    BY DEF RingHoldsLatest
  <2>1. /\ ring' = [ring EXCEPT ![pos] = logged + 1] /\ pos' = NextSlot
        /\ logged' = logged + 1 /\ pos \in Slots /\ logged \in Nat
        /\ ring \in [Slots -> Nat]
    BY <1>1 DEF HandleLog, StoreSlot, TypeOK
  <2>2. CASE i = RingSize - 1
    <3>1. SlotAt(i)' = pos
      BY <2>1, <2>2 DEF SlotAt, NextSlot
    <3> QED BY <2>1, <2>2, <3>1
  <2>3. CASE i # RingSize - 1
    <3>1. i + 1 \in Slots /\ SlotAt(i)' = SlotAt(i + 1)
      BY <2>1, <2>3 DEF SlotAt, NextSlot
    <3>2. SlotAt(i + 1) \in Slots /\ SlotAt(i + 1) # pos
      BY <3>1, SlotFacts
    <3>3. ring'[SlotAt(i)'] = ring[SlotAt(i + 1)]
      BY <2>1, <3>1, <3>2
    <3>4. ring[SlotAt(i + 1)] = IF logged + (i + 1) + 1 > RingSize
                                THEN logged + (i + 1) + 1 - RingSize ELSE 0
      BY <3>1 DEF RingHoldsLatest
    <3> QED BY <2>1, <3>3, <3>4
  <2> QED BY <2>2, <2>3
<1>2. CASE UNCHANGED ringVars
  BY <1>2 DEF RingHoldsLatest, SlotAt
<1>3. HandleLog \/ UNCHANGED ringVars
  BY DEF Next, Handler, vars, Dial, Hangup, Accept, SendMode, LogLine,
         AcceptError, ReadMode, ReadModeError, HandleQuery, FillSlot, Encode,
         EncodeError, EndOfChannel
<1> QED BY <1>1, <1>2, <1>3

(* memlogd's ring always holds the latest messages, at most RingSize of    *)
(* them, with the oldest one where the pointer is.                         *)
THEOREM RingCorrect == Spec => []RingHoldsLatest
<1>1. Init => RingHoldsLatest
  <2> SUFFICES ASSUME Init PROVE RingHoldsLatest
    OBVIOUS
  <2>1. TypeOK
    BY TypeInit
  <2> QED BY <2>1, SlotFacts DEF Init, RingHoldsLatest
<1> QED BY <1>1, TypeCorrect, RingNext, PTL DEF Spec
-----------------------------------------------------------------------------
(* The life of a connection.                                               *)
LEMMA LifeNext == TypeOK /\ PlaceInv /\ LifeInv /\ [Next]_vars => LifeInv'
<1> SUFFICES ASSUME TypeOK, PlaceInv, LifeInv, [Next]_vars PROVE LifeInv'
  OBVIOUS
<1> USE DEF Dumps, Follows
<1>0. TypeOK'
  BY TypeNext
<1>1. ASSUME NEW c \in Conns, Dial(c) PROVE LifeInv'
  BY <1>1 DEF Dial, LifeInv
<1>2. ASSUME NEW c \in Conns, Hangup(c) PROVE LifeInv'
  BY <1>2 DEF Hangup, LifeInv
<1>3. ASSUME NEW c \in Conns, Accept(c) PROVE LifeInv'
  BY <1>3 DEF Accept, LifeInv
<1>4. ASSUME NEW c \in Conns, NEW m \in Modes, SendMode(c, m) PROVE LifeInv'
  BY <1>4 DEF SendMode, LifeInv
<1>5. ASSUME NEW s \in Sources, LogLine(s) PROVE LifeInv'
  BY <1>5 DEF LogLine, LifeInv
<1>6. CASE AcceptError
  BY <1>6 DEF AcceptError, LifeInv
<1>7. CASE ReadMode
  BY <1>7 DEF ReadMode, LifeInv, TypeOK, PlaceInv
<1>8. CASE ReadModeError
  BY <1>8 DEF ReadModeError, LifeInv, TypeOK, PlaceInv
<1>9. CASE HandleLog
  <2>1. logged + 1 \in Nat
    BY DEF TypeOK
  <2>2. \A c \in Conns :
          /\ c \notin listeners => sent'[c] = sent[c]
          /\ Len(sent[c]) <= Len(sent'[c])
    <3> SUFFICES ASSUME NEW c \in Conns
                 PROVE /\ c \notin listeners => sent'[c] = sent[c]
                       /\ Len(sent[c]) <= Len(sent'[c])
      OBVIOUS
    <3>1. sent[c] \in Seq(Nat)
      BY DEF TypeOK
    <3>2. Len(sent[c]) <= Len(Offer(c, logged + 1))
      BY <2>1, OfferFacts
    <3> QED BY <1>9, <3>1, <3>2 DEF HandleLog
  <2>3. listeners' \subseteq listeners
    BY <1>9 DEF HandleLog
  <2>4. hpc = "select" /\ hpc' = "select" /\ fconn' = fconn
    BY <1>9 DEF HandleLog, Selecting
  <2>5. qpc' \in {"read", "logMode", "query"} => writer'[qconn'] = "none"
    BY <1>9 DEF HandleLog, AfterLog, LifeInv
  <2>6. \A c \in Conns : taken'[c] <= Len(sent'[c])
    <3> SUFFICES ASSUME NEW c \in Conns PROVE taken'[c] <= Len(sent'[c])
      OBVIOUS
    <3>1. taken[c] \in Nat /\ sent[c] \in Seq(Nat) /\ sent'[c] \in Seq(Nat)
      BY <1>0 DEF TypeOK
    <3>2. Len(sent[c]) \in Nat /\ Len(sent'[c]) \in Nat
      BY <3>1
    <3>3. taken[c] <= Len(sent[c]) /\ taken' = taken
      BY <1>9 DEF LifeInv, HandleLog
    <3> QED BY <3>1, <3>2, <3>3, <2>2
  <2>7. UNCHANGED <<mode, writer, closed, at, taken>>
    BY <1>9 DEF HandleLog
  <2> QED BY <2>2, <2>3, <2>4, <2>5, <2>6, <2>7 DEF LifeInv
<1>10. CASE HandleQuery
  <2>1. qconn \in Conns /\ writer[qconn] = "none"
    BY <1>10 DEF HandleQuery, PlaceInv, LifeInv
  <2>2. hpc = "select" /\ fconn = Absent
    BY <1>10 DEF HandleQuery, Selecting, LifeInv
  <2>3. UNCHANGED <<sent, taken, closed, mode, logged>>
    BY <1>10 DEF HandleQuery
  <2>4. writer' = [writer EXCEPT ![qconn] = "running"]
        /\ at' = [at EXCEPT ![qconn] = logged] /\ qpc' = "accept"
    BY <1>10 DEF HandleQuery
  <2>5. /\ hpc' = "select" => fconn' = Absent
        /\ hpc' = "fill" => fconn' = qconn /\ Dumps(mode[qconn])
        /\ hpc' \in {"select", "fill"}
    BY <1>10, <2>2 DEF HandleQuery
  <2>6. \A c \in listeners' : c \in listeners \/ (c = qconn /\ Follows(mode[c]))
    BY <1>10 DEF HandleQuery
  <2>7. writer'[qconn] = "running" /\ at'[qconn] = logged
    BY <2>1, <2>4 DEF TypeOK
  <2>8. \A c \in Conns : writer'[c] = "none" => writer[c] = "none" /\ c # qconn
    BY <2>1, <2>4 DEF TypeOK
  <2>9. \A c \in Conns : closed[c] => c # fconn'
    <3>1. ~closed[qconn]
      BY <2>1 DEF LifeInv
    <3> QED BY <2>5, <3>1
  <2> QED BY <2>1, <2>2, <2>3, <2>4, <2>5, <2>6, <2>7, <2>8, <2>9 DEF LifeInv
<1>11. CASE FillSlot
  <2>1. fconn \in Conns /\ SlotAt(fidx) \in Slots /\ ring[SlotAt(fidx)] \in Nat
    BY <1>11, SlotFacts DEF FillSlot, PlaceInv, TypeOK
  <2>2. \A c \in Conns :
          /\ c # fconn => sent'[c] = sent[c]
          /\ Len(sent[c]) <= Len(sent'[c])
    <3> SUFFICES ASSUME NEW c \in Conns
                 PROVE /\ c # fconn => sent'[c] = sent[c]
                       /\ Len(sent[c]) <= Len(sent'[c])
      OBVIOUS
    <3>1. sent[c] \in Seq(Nat)
      BY DEF TypeOK
    <3>2. Len(sent[c]) <= Len(Offer(c, ring[SlotAt(fidx)]))
      BY <2>1, OfferFacts
    <3>3. sent' = [sent EXCEPT ![fconn] =
                     IF ring[SlotAt(fidx)] # 0 THEN Offer(fconn, ring[SlotAt(fidx)])
                                               ELSE @]
      BY <1>11 DEF FillSlot
    <3> QED BY <2>1, <3>1, <3>2, <3>3 DEF TypeOK
  <2>3. \A c \in Conns : taken'[c] <= Len(sent'[c])
    <3> SUFFICES ASSUME NEW c \in Conns PROVE taken'[c] <= Len(sent'[c])
      OBVIOUS
    <3>1. taken[c] \in Nat /\ sent[c] \in Seq(Nat) /\ sent'[c] \in Seq(Nat)
      BY <1>0 DEF TypeOK
    <3>2. Len(sent[c]) \in Nat /\ Len(sent'[c]) \in Nat
      BY <3>1
    <3>3. taken[c] <= Len(sent[c]) /\ taken' = taken
      BY <1>11 DEF LifeInv, FillSlot
    <3> QED BY <3>1, <3>2, <3>3, <2>2
  <2>4. writer[fconn] # "none" /\ Dumps(mode[fconn])
    BY <1>11 DEF FillSlot, LifeInv
  <2>5. UNCHANGED <<mode, writer, at, taken, listeners, qpc, qconn, logged>>
    BY <1>11 DEF FillSlot
  <2>6. CASE LastSlot
    <3>1. /\ hpc' = "select" /\ fconn' = Absent
          /\ closed' = [closed EXCEPT ![fconn] = Ends(mode[fconn])]
      BY <1>11, <2>6 DEF FillSlot
    <3>2. \A c \in Conns : closed'[c] => mode[c] = Dump /\ c # Absent
      BY <3>1, <2>1 DEF LifeInv, Ends, TypeOK
    <3>3. \A c \in Conns : writer[c] = "none" => ~closed'[c]
      BY <3>1, <2>1, <2>4 DEF LifeInv, TypeOK
    <3> QED BY <2>1, <2>2, <2>3, <2>4, <2>5, <3>1, <3>2, <3>3 DEF LifeInv
  <2>7. CASE ~LastSlot
    <3>1. UNCHANGED <<hpc, fconn, closed>>
      BY <1>11, <2>7 DEF FillSlot
    <3> QED BY <2>1, <2>2, <2>3, <2>4, <2>5, <3>1 DEF LifeInv
  <2> QED BY <2>6, <2>7
<1>12. ASSUME NEW c \in Conns, Encode(c) PROVE LifeInv'
  <2>1. taken' = [taken EXCEPT ![c] = taken[c] + 1] /\ taken[c] < Len(sent[c])
        /\ writer[c] = "running" /\ taken \in [Conns -> Nat] /\ sent[c] \in Seq(Nat)
    BY <1>12 DEF Encode, TypeOK
  <2>2. Len(sent[c]) \in Nat
    BY <2>1
  <2>3. \A d \in Conns : taken'[d] <= Len(sent[d]) /\ (d # c => taken'[d] = taken[d])
    BY SMTT(30), <2>1, <2>2 DEF LifeInv
  <2> QED BY <1>12, <2>1, <2>3 DEF Encode, LifeInv
<1>13. ASSUME NEW c \in Conns, EncodeError(c) PROVE LifeInv'
  <2>1. taken' = [taken EXCEPT ![c] = taken[c] + 1] /\ taken[c] < Len(sent[c])
        /\ writer[c] = "running" /\ taken \in [Conns -> Nat] /\ sent[c] \in Seq(Nat)
        /\ writer' = [writer EXCEPT ![c] = "done"]
    BY <1>13 DEF EncodeError, TypeOK
  <2>2. Len(sent[c]) \in Nat
    BY <2>1
  <2>3. \A d \in Conns : taken'[d] <= Len(sent[d]) /\ (d # c => taken'[d] = taken[d])
    BY <2>1, <2>2 DEF LifeInv
  <2>4. \A d \in Conns : (writer'[d] = "none" <=> writer[d] = "none")
    BY <2>1 DEF TypeOK
  <2> QED BY <1>13, <2>1, <2>3, <2>4 DEF EncodeError, LifeInv, PlaceInv
<1>14. ASSUME NEW c \in Conns, EndOfChannel(c) PROVE LifeInv'
  <2>1. \A d \in Conns : (writer'[d] = "none" <=> writer[d] = "none")
    BY <1>14 DEF EndOfChannel, TypeOK
  <2> QED BY <1>14, <2>1 DEF EndOfChannel, LifeInv, PlaceInv
<1>15. CASE UNCHANGED vars
  BY <1>15 DEF vars, LifeInv
<1> QED
  BY <1>1, <1>2, <1>3, <1>4, <1>5, <1>6, <1>7, <1>8, <1>9, <1>10, <1>11,
     <1>12, <1>13, <1>14, <1>15 DEF Next, Handler
-----------------------------------------------------------------------------
(* The variables the order and dump invariants are about change only in    *)
(* the steps of ringBufferHandler; for the others see LifeInv.             *)
LEMMA Frame ==
  ASSUME [Next]_vars
  PROVE  HandleLog \/ HandleQuery \/ FillSlot
         \/ UNCHANGED <<sent, logged, hpc, fconn, fidx, closed, at>>
  BY DEF Next, Handler, vars, Dial, Hangup, Accept, SendMode, LogLine,
         AcceptError, ReadMode, ReadModeError, Encode, EncodeError, EndOfChannel

(* Appending a larger message keeps a channel's history strictly           *)
(* increasing, and within any bound that the message respects.             *)
LEMMA UpToWeaken ==
  ASSUME NEW s \in Seq(Nat), NEW a \in Int, NEW b \in Int, UpTo(s, a), a <= b
  PROVE  UpTo(s, b)
<1>1. \A i \in 1 .. Len(s) : s[i] \in Nat
  OBVIOUS
<1> QED BY <1>1 DEF UpTo

(* Appending a newer message keeps a sequence in order.                    *)
LEMMA AppendInOrder ==
  ASSUME NEW s \in Seq(Nat), NEW m \in Nat, Increasing(s), UpTo(s, m - 1)
  PROVE  Increasing(Append(s, m)) /\ UpTo(Append(s, m), m)
<1> DEFINE t == Append(s, m)
<1>1. /\ Len(t) = Len(s) + 1 /\ Len(s) \in Nat /\ t[Len(s) + 1] = m
      /\ \A i \in 1 .. Len(s) : t[i] = s[i] /\ s[i] \in Nat
  BY AppendFacts
<1> HIDE DEF t
<1>2. \A i \in 1 .. Len(t) : i \in 1 .. Len(s) \/ i = Len(s) + 1
  BY <1>1
<1>3. ASSUME NEW i \in 1 .. Len(t), NEW j \in 1 .. Len(t), i < j PROVE t[i] < t[j]
  <2>1. i \in 1 .. Len(s)
    BY <1>1, <1>3
  <2>2. CASE j \in 1 .. Len(s)
    BY <1>1, <1>3, <2>1, <2>2 DEF Increasing
  <2>3. CASE j = Len(s) + 1
    BY SMTT(30), <1>1, <2>1, <2>3 DEF UpTo
  <2> QED BY <1>2, <2>2, <2>3
<1>4. ASSUME NEW i \in 1 .. Len(t) PROVE t[i] <= m
  BY <1>1, <1>2 DEF UpTo
<1>5. Increasing(t) /\ UpTo(t, m)
  BY <1>3, <1>4 DEF Increasing, UpTo
<1> QED BY <1>5 DEF t

(* One send, to a channel that has only seen older messages, keeps it in   *)
(* order.                                                                  *)
LEMMA SendInOrder ==
  ASSUME NEW s \in Seq(Nat), NEW t, NEW m \in Nat, NEW b \in Int,
         Increasing(s), UpTo(s, m - 1), m <= b, t = s \/ t = Append(s, m)
  PROVE  Increasing(t) /\ UpTo(t, b)
<1>1. CASE t = s
  BY <1>1, UpToWeaken, m - 1 \in Int, m - 1 <= b
<1>2. CASE t = Append(s, m)
  <2>1. t \in Seq(Nat) /\ Increasing(t) /\ UpTo(t, m)
    BY <1>2, AppendInOrder, AppendFacts
  <2> QED BY <2>1, UpToWeaken
<1> QED BY <1>1, <1>2

(* Every step keeps what is queued and what was sent in order.             *)
LEMMA OrderNext ==
  TypeOK /\ PlaceInv /\ RingHoldsLatest /\ LifeInv /\ OrderInv /\ [Next]_vars
    => OrderInv'
<1> SUFFICES ASSUME TypeOK, PlaceInv, RingHoldsLatest, LifeInv, OrderInv, [Next]_vars
             PROVE OrderInv'
  OBVIOUS
<1>0. logged \in Nat /\ \A c \in Conns : sent[c] \in Seq(Nat)
  BY DEF TypeOK
<1>1. CASE HandleLog
  <2>1. hpc' = "select" /\ logged' = logged + 1
    BY <1>1 DEF HandleLog, Selecting
  <2>2. ASSUME NEW c \in Conns PROVE Increasing(sent'[c]) /\ UpTo(sent'[c], logged + 1)
    <3>1. sent'[c] = sent[c] \/ sent'[c] = Append(sent[c], logged + 1)
      BY SMTT(30), <1>0, <1>1, OfferFacts DEF HandleLog
    <3>2. Increasing(sent[c]) /\ UpTo(sent[c], (logged + 1) - 1)
      BY <1>0 DEF OrderInv, InOrder
    <3>3. logged + 1 \in Nat /\ logged + 1 \in Int /\ logged + 1 <= logged + 1
      BY <1>0
    <3> QED BY <1>0, <3>1, <3>2, <3>3, SendInOrder
  <2> QED BY <2>1, <2>2 DEF OrderInv, InOrder
<1>2. CASE HandleQuery
  <2>1. UNCHANGED <<sent, logged>>
    BY <1>2 DEF HandleQuery
  <2>2. hpc' = "fill" => sent[fconn'] = <<>>
    BY <1>2 DEF HandleQuery, Selecting, LifeInv, PlaceInv
  <2> QED BY <2>1, <2>2 DEF OrderInv, InOrder, UpTo
<1>3. CASE FillSlot
  <2> DEFINE m == ring[SlotAt(fidx)]
  <2>1. /\ fconn \in Conns /\ SlotAt(fidx) \in Slots /\ m \in Nat /\ fidx \in Slots
    BY <1>3, SlotFacts DEF FillSlot, PlaceInv, TypeOK
  <2>2. m = IF logged + fidx + 1 > RingSize THEN logged + fidx + 1 - RingSize ELSE 0
    BY <2>1 DEF RingHoldsLatest
  <2>3. /\ sent' = [sent EXCEPT ![fconn] = IF m # 0 THEN Offer(fconn, m) ELSE @]
        /\ logged' = logged
        /\ hpc' = "fill" => fconn' = fconn /\ fidx' = fidx + 1
    BY <1>3 DEF FillSlot
  <2>4. sent'[fconn] = sent[fconn] \/ (m # 0 /\ sent'[fconn] = Append(sent[fconn], m))
    BY <2>1, <2>3, OfferFacts DEF TypeOK
  <2>5. \A c \in Conns : c # fconn => sent'[c] = sent[c]
    BY <2>3 DEF TypeOK
  <2> HIDE DEF m
  <2> DEFINE b == logged + fidx + 1 - RingSize
  <2>6. Increasing(sent[fconn]) /\ UpTo(sent[fconn], b - 1) /\ b \in Int /\ b <= logged
    <3>1. UpTo(sent[fconn], logged + fidx - RingSize) /\ Increasing(sent[fconn])
      BY <1>3, <2>1 DEF FillSlot, OrderInv, InOrder
    <3>2. logged + fidx - RingSize = b - 1 /\ b \in Int /\ b <= logged
      BY <1>0, <2>1
    <3> QED BY <3>1, <3>2
  <2> HIDE DEF b
  <2>7. /\ Increasing(sent'[fconn])
        /\ UpTo(sent'[fconn], b) /\ UpTo(sent'[fconn], logged)
    <3>1. CASE sent'[fconn] = sent[fconn]
      BY <1>0, <2>1, <2>6, <3>1, UpToWeaken, b - 1 \in Int, b - 1 <= b, b - 1 <= logged
    <3>2. CASE m # 0 /\ sent'[fconn] = Append(sent[fconn], m)
      <4>1. m = b
        BY <2>2, <3>2 DEF b
      <4> QED BY <1>0, <2>1, <2>6, <3>2, <4>1, SendInOrder, b <= b, logged \in Int
    <3> QED BY <2>4, <3>1, <3>2
  <2>8. InOrder' /\ \A c \in Conns : UpTo(sent'[c], logged)
    BY <2>5, <2>7 DEF OrderInv, InOrder
  <2>9. hpc' = "fill" => UpTo(sent'[fconn'], logged' + fidx' - RingSize)
    <3>1. b = logged + (fidx + 1) - RingSize
      BY <1>0, <2>1 DEF b
    <3> QED BY <2>3, <2>7, <3>1
  <2> QED BY <2>3, <2>8, <2>9 DEF OrderInv
<1>4. CASE UNCHANGED <<sent, logged, hpc, fconn, fidx, closed, at>>
  BY <1>4 DEF OrderInv, InOrder
<1> QED BY <1>1, <1>2, <1>3, <1>4, Frame
-----------------------------------------------------------------------------
(* A channel that holds a dump still does after one more message.          *)
LEMMA AppendHoldsDump ==
  ASSUME NEW s \in Seq(Nat), NEW m \in Nat, NEW n \in Nat, HoldsDump(s, n)
  PROVE  HoldsDump(Append(s, m), n)
<1>1. Kept(n) \in Nat
  BY DEF Kept
<1> QED BY <1>1, AppendFacts DEF HoldsDump

(* One call of ring.Do's function on a channel that has room for the whole *)
(* ring: the messages sent are those visited, one slot further.            *)
LEMMA FillStep ==
  ASSUME TypeOK, PlaceInv, RingHoldsLatest, LifeInv, FillInv, FillSlot,
         ChanSize >= RingSize
  PROVE  /\ Len(sent'[fconn]) = Visited(fidx + 1)
         /\ \A k \in 1 .. Len(sent'[fconn]) : sent'[fconn][k] = logged - Kept(logged) + k
<1> DEFINE m == ring[SlotAt(fidx)]
           s == sent[fconn]
<1>1. /\ fconn \in Conns /\ SlotAt(fidx) \in Slots /\ m \in Nat /\ fidx \in Slots
      /\ logged \in Nat /\ s \in Seq(Nat) /\ taken[fconn] \in Nat
  BY SlotFacts DEF FillSlot, PlaceInv, TypeOK
<1>2. m = IF logged + fidx + 1 > RingSize THEN logged + fidx + 1 - RingSize ELSE 0
  BY <1>1 DEF RingHoldsLatest
<1>3. /\ Len(s) = Visited(fidx)
      /\ \A k \in 1 .. Len(s) : s[k] = logged - Kept(logged) + k
  BY DEF FillSlot, FillInv
<1>4. sent'[fconn] = IF m # 0 THEN Offer(fconn, m) ELSE s
  BY <1>1 DEF FillSlot, TypeOK
<1>5. Offer(fconn, m) = Append(s, m)
  <2>1. Visited(fidx) < ChanSize
    BY <1>1 DEF Visited, Kept
  <2>2. Buffered(fconn) < ChanSize
    BY <1>1, <1>3, <2>1 DEF Buffered
  <2> QED BY <2>2 DEF Offer
<1> HIDE DEF m, s
<1>6. CASE m = 0
  <2>1. Visited(fidx) = 0 /\ Visited(fidx + 1) = 0
    BY <1>1, <1>2, <1>6 DEF Visited, Kept
  <2> QED BY <1>3, <1>4, <1>6, <2>1
<1>7. CASE m # 0
  <2>1. Visited(fidx + 1) = Visited(fidx) + 1 /\ m = logged - Kept(logged) + Visited(fidx) + 1
        /\ Visited(fidx) \in Nat
    BY <1>1, <1>2, <1>7 DEF Visited, Kept
  <2>2. sent'[fconn] = Append(s, m)
    BY <1>4, <1>5, <1>7
  <2>3. /\ Len(sent'[fconn]) = Len(s) + 1
        /\ \A i \in 1 .. Len(s) : sent'[fconn][i] = s[i]
        /\ sent'[fconn][Len(s) + 1] = m
    BY <1>1, <2>2, AppendFacts
  <2>4. \A k \in 1 .. Len(s) + 1 : k \in 1 .. Len(s) \/ k = Len(s) + 1
    BY <1>3, <2>1
  <2>5. m = logged - Kept(logged) + (Len(s) + 1)
    BY <1>1, <1>3, <2>1 DEF Kept
  <2> QED BY <1>3, <2>1, <2>3, <2>4, <2>5
<1> QED BY <1>6, <1>7

(* Every step of a dump keeps account of the slots visited.                *)
LEMMA DumpNext ==
  TypeOK /\ PlaceInv /\ RingHoldsLatest /\ LifeInv /\ FillInv /\ DumpComplete /\ [Next]_vars
    => FillInv' /\ DumpComplete'
<1> SUFFICES ASSUME TypeOK, PlaceInv, RingHoldsLatest, LifeInv, FillInv, DumpComplete,
                    [Next]_vars, ChanSize >= RingSize
             PROVE FillInv' /\ DumpComplete'
  BY DEF FillInv, DumpComplete
<1>0. logged \in Nat /\ \A c \in Conns : sent[c] \in Seq(Nat) /\ at[c] \in Nat
  BY DEF TypeOK
<1>1. CASE HandleLog
  <2>1. /\ hpc = "select" /\ hpc' = "select"
        /\ UNCHANGED <<mode, closed, writer, at>>
    BY <1>1 DEF HandleLog, Selecting
  <2>2. ASSUME NEW c \in Conns, DumpDone(c)'
        PROVE HoldsDump(sent'[c], at[c]) /\ (closed[c] => Len(sent'[c]) = Kept(at[c]))
    <3>1. DumpDone(c)
      BY <2>1, <2>2 DEF DumpDone
    <3>2. HoldsDump(sent[c], at[c]) /\ (closed[c] => Len(sent[c]) = Kept(at[c]))
      BY <3>1 DEF DumpComplete
    <3>3. sent'[c] = sent[c] \/ (sent'[c] = Append(sent[c], logged + 1) /\ ~closed[c])
      <4>1. closed[c] => c \notin listeners
        BY DEF LifeInv, Follows
      <4>2. c \notin listeners => sent'[c] = sent[c]
        BY <1>1 DEF HandleLog
      <4>3. sent'[c] = sent[c] \/ sent'[c] = Append(sent[c], logged + 1)
        BY SMTT(30), <1>0, <1>1, OfferFacts DEF HandleLog
      <4> QED BY <4>1, <4>2, <4>3
    <3> QED BY <1>0, <3>2, <3>3, AppendHoldsDump, logged + 1 \in Nat
  <2> QED BY <2>1, <2>2 DEF FillInv, DumpComplete
<1>2. CASE HandleQuery
  <2>1. qconn \in Conns /\ hpc = "select" /\ sent[qconn] = <<>>
    BY <1>2 DEF HandleQuery, Selecting, PlaceInv, LifeInv
  <2>2. /\ UNCHANGED <<sent, logged, mode, closed>>
        /\ \A c \in Conns : c # qconn => writer'[c] = writer[c] /\ at'[c] = at[c]
    BY <1>2 DEF HandleQuery, TypeOK
  <2>3. /\ Dumps(mode[qconn]) => hpc' = "fill" /\ fconn' = qconn /\ fidx' = 0
        /\ ~Dumps(mode[qconn]) => hpc' = "select"
    BY <1>2, <2>1 DEF HandleQuery
  <2>4. FillInv'
    <3>1. SUFFICES ASSUME hpc' = "fill" PROVE Len(sent[qconn]) = Visited(0)
      BY SMTT(30), <2>1, <2>2, <2>3 DEF FillInv, Visited, Kept
    <3> QED BY <1>0, <2>1 DEF Visited, Kept
  <2>5. ASSUME NEW c \in Conns, DumpDone(c)' PROVE c # qconn /\ DumpDone(c)
    BY <2>1, <2>2, <2>3, <2>5 DEF DumpDone
  <2> QED BY <2>2, <2>4, <2>5 DEF DumpComplete
<1>3. CASE FillSlot
  <2>1. /\ Len(sent'[fconn]) = Visited(fidx + 1)
        /\ \A k \in 1 .. Len(sent'[fconn]) : sent'[fconn][k] = logged - Kept(logged) + k
    BY <1>3, FillStep
  <2>2. /\ fconn \in Conns /\ fidx \in Slots /\ hpc = "fill" /\ at[fconn] = logged
        /\ UNCHANGED <<mode, writer, at, logged>>
    BY <1>3 DEF FillSlot, PlaceInv, LifeInv, TypeOK
  <2>3. \A c \in Conns : c # fconn => sent'[c] = sent[c] /\ closed'[c] = closed[c]
    BY <1>3, <2>2 DEF FillSlot, TypeOK
  <2>4. CASE LastSlot
    <3>1. hpc' = "select" /\ fidx + 1 = RingSize
      BY <1>3, <2>4 DEF FillSlot, LastSlot
    <3>2. Visited(fidx + 1) = Kept(logged) /\ Kept(logged) \in Nat
      BY <1>0, <3>1 DEF Visited, Kept
    <3>3. HoldsDump(sent'[fconn], at[fconn]) /\ Len(sent'[fconn]) = Kept(at[fconn])
      BY <2>1, <2>2, <3>2 DEF HoldsDump
    <3>4. \A c \in Conns : c # fconn /\ DumpDone(c)' => DumpDone(c)
      BY <2>2 DEF DumpDone
    <3> QED BY <2>2, <2>3, <3>1, <3>3, <3>4 DEF FillInv, DumpComplete
  <2>5. CASE ~LastSlot
    <3>1. hpc' = "fill" /\ fconn' = fconn /\ fidx' = fidx + 1
      BY <1>3, <2>2, <2>5 DEF FillSlot
    <3>2. FillInv'
      BY <2>1, <2>2, <3>1 DEF FillInv, Visited, Kept
    <3>3. \A c \in Conns : DumpDone(c)' => c # fconn /\ DumpDone(c)
      BY <2>2, <3>1 DEF DumpDone
    <3> QED BY <2>2, <2>3, <3>2, <3>3 DEF DumpComplete
  <2> QED BY <2>4, <2>5
<1>4. CASE /\ UNCHANGED <<sent, logged, hpc, fconn, fidx, closed, at>>
           /\ ~HandleQuery
  <2>1. \A c \in Conns : writer'[c] # "none" => writer[c] # "none" /\ mode'[c] = mode[c]
    <3>1. CASE ReadMode
      BY <3>1 DEF ReadMode, PlaceInv, LifeInv, TypeOK
    <3>2. CASE ReadModeError
      BY <3>2 DEF ReadModeError, PlaceInv, LifeInv, TypeOK
    <3>3. ASSUME NEW d \in Conns, EncodeError(d)
          PROVE \A c \in Conns : writer'[c] # "none" => writer[c] # "none" /\ mode'[c] = mode[c]
      BY <3>3 DEF EncodeError, TypeOK
    <3>4. ASSUME NEW d \in Conns, EndOfChannel(d)
          PROVE \A c \in Conns : writer'[c] # "none" => writer[c] # "none" /\ mode'[c] = mode[c]
      BY <3>4 DEF EndOfChannel, TypeOK
    <3>5. \/ UNCHANGED <<writer, mode>> \/ ReadMode \/ ReadModeError
          \/ \E d \in Conns : EncodeError(d) \/ EndOfChannel(d)
      BY <1>4 DEF Next, Handler, vars, Dial, Hangup, Accept, SendMode, LogLine,
                  AcceptError, Encode, HandleLog, FillSlot
    <3> QED BY <3>1, <3>2, <3>3, <3>4, <3>5
  <2>2. \A c \in Conns : DumpDone(c)' => DumpDone(c)
    BY <1>4, <2>1 DEF DumpDone
  <2> QED BY <1>4, <2>2 DEF FillInv, DumpComplete, Visited, Kept
<1> QED BY <1>1, <1>2, <1>3, <1>4, Frame
-----------------------------------------------------------------------------
(* The inductive invariant holds of every behaviour of memlogd.            *)
THEOREM Invariance == Spec => []IInv
<1>1. Init => IInv
  <2> SUFFICES ASSUME Init PROVE IInv
    OBVIOUS
  <2>1. TypeOK /\ PlaceInv
    BY TypeInit
  <2>2. RingHoldsLatest
    BY <2>1, SlotFacts DEF Init, RingHoldsLatest
  <2>3. LifeInv
    BY DEF Init, LifeInv
  <2>4. OrderInv
    BY DEF Init, OrderInv, InOrder, Increasing, UpTo
  <2>5. FillInv /\ DumpComplete
    BY DEF Init, FillInv, DumpComplete, DumpDone
  <2> QED BY <2>1, <2>2, <2>3, <2>4, <2>5 DEF IInv
<1>2. IInv /\ [Next]_vars => IInv'
  BY TypeNext, RingNext, LifeNext, OrderNext, DumpNext DEF IInv
<1> QED BY <1>1, <1>2, PTL DEF Spec

(* No client of memlogd sees a message twice or out of order.              *)
THEOREM OrderCorrect == Spec => []InOrder
<1>1. IInv => InOrder
  BY DEF IInv, OrderInv
<1> QED BY <1>1, Invariance, PTL

(* With channels at least as large as the ring, a dump is the ring.        *)
THEOREM DumpCorrect == Spec => []DumpComplete
<1>1. IInv => DumpComplete
  BY DEF IInv
<1> QED BY <1>1, Invariance, PTL

(* ringBufferHandler never sends on a channel it has closed.               *)
THEOREM NoPanic == Spec => []NoSendOnClosed
<1>1. IInv => NoSendOnClosed
  BY DEF IInv, LifeInv, NoSendOnClosed, Follows
<1> QED BY <1>1, Invariance, PTL
=============================================================================
