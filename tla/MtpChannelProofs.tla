--------------------------- MODULE MtpChannelProofs ---------------------------
(****************************************************************************)
(* For every size of the sequence space, of the windows and of the queues:  *)
(* the channel keeps its types, delivers in order and exactly once, and     *)
(* forgets nothing.                                                         *)
(*                                                                          *)
(* The argument.  Every packet anywhere in the system is the packet of its  *)
(* position: its number is SeqnumOf(data).  The numbers of the sender are a *)
(* contiguous stretch that ends with next_outgoing_seqnum: first those on   *)
(* the wire, then queued_reliables, then toadd.  The stretch from the       *)
(* oldest packet on the wire is at most MaxAhead long, and what the network *)
(* still holds is at most MaxAge behind it, so two packets that meet in a   *)
(* comparison of numbers are closer together than the size of the space     *)
(* (theorem DistanceOfPackets) and the numbers compare like the positions.  *)
(****************************************************************************)
EXTENDS MtpChannel, MtpSeqnumProofs, WellFoundedInduction

\* The packet of a position.
P(i) == [seq |-> SeqnumOf(i), data |-> i]

\* The next position the receiver waits for.
R == Len(delivered)

\* The first position that was never put on the wire.
Unsent == Allocated - Len(toadd) - Len(queuedReliables)

\* Commands that cut the stream into consecutive pieces up to end.
Chain(q, end) ==
    /\ \A k \in DOMAIN q : ~q[k].requeued /\ q[k].first + q[k].size =< end
    /\ \A k \in DOMAIN q : k + 1 \in DOMAIN q => q[k + 1].first = q[k].first + q[k].size
    /\ q # <<>> => q[Len(q)].first + q[Len(q)].size = end

\* The queued commands reach up to submitted; the one that is processed is either
\* the first of them or the only one.
CommandsInv ==
    /\ Chain(queuedCommands, submitted)
    /\ command = NoCommand => toadd = <<>>
    /\ command # NoCommand =>
        /\ Len(toadd) =< command.size
        /\ Len(queuedReliables) + MaxChunks =< MaxAhead
        /\ command.requeued =>
            /\ queuedCommands # <<>>
            /\ command.first = Head(queuedCommands).first
            /\ command.size = Head(queuedCommands).size
        /\ ~command.requeued =>
            /\ queuedCommands = <<>>
            /\ command.first + command.size = submitted

\* The sender's packets are one stretch of the stream, not longer than MaxAhead.
SenderInv ==
    /\ Unsent >= 0
    /\ nextOutgoing = SeqnumOf(Allocated)
    /\ Len(queuedReliables) + Len(toadd) =< MaxAhead
    /\ \A k \in DOMAIN toadd : toadd[k] = P(Unsent + Len(queuedReliables) + k - 1)
    /\ \A k \in DOMAIN queuedReliables : queuedReliables[k] = P(Unsent + k - 1)
    /\ \A p \in reliablesSent :
        p = P(p.data) /\ p.data < Unsent /\ Allocated - p.data =< MaxAhead

\* What the network carries was sent, what is acknowledged was received, and every
\* packet sent is delivered, buffered or still tracked by the sender.
ReceiverInv ==
    /\ nextIncoming = SeqnumOf(R)
    /\ R =< Unsent
    /\ InOrder
    /\ \A p \in net : p = P(p.data) /\ p.data < Unsent
    /\ \A a \in acks : a = P(a.data) /\ a.data < Unsent
    /\ AckedIsHeld
    /\ \A p \in incoming :
        /\ p = P(p.data) /\ p.data < Unsent
        /\ R =< p.data /\ p.data < R + MaxReliableWindow
    /\ \A i \in R..(Unsent - 1) : P(i) \in reliablesSent \union incoming

IInv == TypeOK /\ CommandsInv /\ SenderInv /\ ReceiverInv

-----------------------------------------------------------------------------
(* The constants, and numbers against positions. *)

\* The sizes as plain numbers.
LEMMA Sizes ==
    /\ M \in Nat /\ SeqnumMax \in Nat /\ M = SeqnumMax + 1 /\ SeqnumMax >= 1
    /\ MaxReliableWindow \in 1..SeqnumMax
    /\ MaxAhead \in Nat /\ MaxAhead < MaxReliableWindow
    /\ MaxAge \in Nat /\ MaxAhead =< MaxAge /\ MaxAge + MaxReliableWindow =< M
    /\ MaxRequeued \in Nat /\ MaxChunks \in Nat \ {0}
    /\ MaxRequeued + MaxChunks =< MaxAhead
    /\ MaxSubmitted \in Nat
    /\ \A w \in WindowSizes :
        w \in Nat /\ w + 2 =< MaxAhead /\ (w \div 2) + MaxChunks =< MaxAhead
  BY SeqnumAssumption, ChannelAssumption DEF M

\* Packets closer together than the size of the space have different numbers.
LEMMA NumberTellsPacket ==
    \A i, j \in Nat : i - j < M /\ j - i < M /\ SeqnumOf(i) = SeqnumOf(j) => i = j
<1>1. \A i \in Nat, k \in 0..SeqnumMax : SeqnumOf(i + k) = SeqnumOf(i) => k = 0
  <2> SUFFICES ASSUME NEW i \in Nat, NEW k \in 0..SeqnumMax,
                      SeqnumOf(i + k) = SeqnumOf(i)
               PROVE  k = 0
    OBVIOUS
  <2>1. Distance(SeqnumOf(i), SeqnumOf(i + k)) = k
    BY DistanceOfPackets
  <2>2. Distance(SeqnumOf(i), SeqnumOf(i)) = SeqnumOf(i) - SeqnumOf(i)
    BY SeqnumOfType, DistanceCases, Sizes DEF Seqnum
  <2> QED BY <2>1, <2>2, SeqnumOfType DEF Seqnum
<1> SUFFICES ASSUME NEW i \in Nat, NEW j \in Nat, i - j < M, j - i < M,
                    SeqnumOf(i) = SeqnumOf(j)
             PROVE  i = j
  OBVIOUS
<1>2. CASE i =< j
  <2>1. j - i \in 0..SeqnumMax /\ j = i + (j - i)
    BY <1>2, Sizes
  <2> QED BY <2>1, <1>1
<1>3. CASE j < i
  <2>1. i - j \in 0..SeqnumMax /\ i = j + (i - j)
    BY <1>3, Sizes
  <2> QED BY <2>1, <1>1
<1> QED BY <1>2, <1>3

\* Going back is going forward the rest of the turn.
LEMMA DistanceBack ==
    \A i \in Nat, k \in 1..SeqnumMax : Distance(SeqnumOf(i + k), SeqnumOf(i)) = M - k
<1> SUFFICES ASSUME NEW i \in Nat, NEW k \in 1..SeqnumMax
             PROVE  Distance(SeqnumOf(i + k), SeqnumOf(i)) = M - k
  OBVIOUS
<1> DEFINE s == SeqnumOf(i)
           t == SeqnumOf(i + k)
<1>1. s \in 0..SeqnumMax /\ t \in 0..SeqnumMax
  BY SeqnumOfType DEF Seqnum
<1>2. t = IF s + k < M THEN s + k ELSE s + k - M
  BY SeqnumOfAdd
<1>3. Distance(t, s) = IF t =< s THEN s - t ELSE s - t + M
  BY <1>1, DistanceCases DEF Seqnum
<1> HIDE DEF s, t
<1>4. Distance(t, s) = M - k
  BY <1>1, <1>2, <1>3, Sizes
<1> QED BY <1>4 DEF s, t

\* Where the packet k numbers before the next one stands in the sender's window.
LEMMA DistanceFromBase ==
    \A i \in Nat, k \in 0..MaxAhead :
        Distance(Wrap(SeqnumOf(i + k) - MaxReliableWindow), SeqnumOf(i))
            = MaxReliableWindow - k
<1> SUFFICES ASSUME NEW i \in Nat, NEW k \in 0..MaxAhead
             PROVE  Distance(Wrap(SeqnumOf(i + k) - MaxReliableWindow), SeqnumOf(i))
                        = MaxReliableWindow - k
  OBVIOUS
<1> DEFINE s == SeqnumOf(i)
           t == SeqnumOf(i + k)
           W == MaxReliableWindow
           b == Wrap(t - W)
<1>1. s \in 0..SeqnumMax /\ t \in 0..SeqnumMax
  BY SeqnumOfType DEF Seqnum
<1>2. k \in 0..SeqnumMax /\ t = IF s + k < M THEN s + k ELSE s + k - M
  BY SeqnumOfAdd, Sizes
<1> HIDE DEF s, t
<1>3. b = IF t >= W THEN t - W ELSE t - W + M
  BY <1>1, WrapCases, Sizes
<1>4. b \in 0..SeqnumMax
  BY <1>1, <1>3, Sizes
<1>5. Distance(b, s) = IF b =< s THEN s - b ELSE s - b + M
  BY <1>1, <1>4, DistanceCases DEF Seqnum
<1> HIDE DEF b
<1>6. Distance(b, s) = W - k
  BY <1>1, <1>2, <1>3, <1>5, Sizes
<1> QED BY <1>6 DEF b, s, t

\* A set of numbers has a least one.
LEMMA LeastNumber ==
    ASSUME NEW T, T \subseteq Nat, T # {}
    PROVE  \E x \in T : \A y \in T : x =< y
<1> DEFINE Less == OpToRel(<, Nat)
<1>1. PICK x \in T : \A y \in T : ~(<<y, x>> \in Less)
  BY NatLessThanWellFounded, WFMin, Zenon
<1>2. \A y \in T : ~(y < x)
  BY <1>1 DEF OpToRel
<1> QED BY <1>2
-----------------------------------------------------------------------------
(* Chains of commands.                                                      *)

\* A command that starts where the chain ends makes it longer.
LEMMA ChainAppend ==
    ASSUME NEW q \in Seq(Command), NEW end \in Nat, NEW c \in Command,
           Chain(q, end), c.first = end, ~c.requeued
    PROVE  Chain(Append(q, c), end + c.size)
<1> DEFINE r == Append(q, c)
           l == Len(q)
<1>1. /\ l \in Nat /\ r \in Seq(Command) /\ Len(r) = l + 1 /\ r[l + 1] = c
      /\ \A k \in 1..l : r[k] = q[k] /\ q[k] \in Command
      /\ DOMAIN q = 1..l /\ DOMAIN r = 1..(l + 1)
      /\ q # <<>> <=> l > 0
  OBVIOUS
<1>2. c.size \in Nat /\ \A d \in Command : d.first \in Nat /\ d.size \in Nat
  BY Sizes DEF Command
<1>3. /\ \A k \in 1..l : ~q[k].requeued /\ q[k].first + q[k].size =< end
      /\ \A k \in 1..l : k + 1 \in 1..l => q[k + 1].first = q[k].first + q[k].size
      /\ l > 0 => q[l].first + q[l].size = end
  BY <1>1 DEF Chain
<1> HIDE DEF r, l
<1>4. \A k \in 1..(l + 1) : ~r[k].requeued /\ r[k].first + r[k].size =< end + c.size
  <2> TAKE k \in 1..(l + 1)
  <2>1. CASE k \in 1..l
    BY <1>1, <1>2, <1>3, <2>1, SMTT(30)
  <2>2. CASE k = l + 1
    BY <1>1, <1>2, <2>2
  <2> QED BY <1>1, <2>1, <2>2
<1>5. \A k \in 1..(l + 1) : k + 1 \in 1..(l + 1) => r[k + 1].first = r[k].first + r[k].size
  <2> SUFFICES ASSUME NEW k \in 1..(l + 1), k + 1 \in 1..(l + 1)
               PROVE  r[k + 1].first = r[k].first + r[k].size
    OBVIOUS
  <2>1. CASE k < l
    <3>1. k \in 1..l /\ k + 1 \in 1..l
      BY <1>1, <2>1
    <3> QED BY <1>1, <1>3, <3>1
  <2>2. CASE k = l
    BY <1>1, <1>3, <2>2
  <2> QED BY <1>1, <2>1, <2>2
<1>6. r[Len(r)].first + r[Len(r)].size = end + c.size
  BY <1>1
<1>7. Chain(r, end + c.size)
  BY <1>1, <1>4, <1>5, <1>6 DEF Chain
<1> QED BY <1>7 DEF r

\* A chain without its first command starts where that one ends.
LEMMA ChainTail ==
    ASSUME NEW q \in Seq(Command), NEW end \in Nat, Chain(q, end), q # <<>>
    PROVE  /\ Tail(q) \in Seq(Command) /\ Chain(Tail(q), end)
           /\ IF Tail(q) = <<>> THEN Head(q).first + Head(q).size = end
              ELSE Head(Tail(q)).first = Head(q).first + Head(q).size
<1> DEFINE t == Tail(q)
           l == Len(q)
<1>1. /\ l \in Nat /\ l >= 1 /\ t \in Seq(Command) /\ Len(t) = l - 1
      /\ DOMAIN q = 1..l /\ DOMAIN t = 1..(l - 1)
      /\ t # <<>> <=> l > 1
      /\ \A k \in 1..(l - 1) : t[k] = q[k + 1]
      /\ Head(q) = q[1]
      /\ t # <<>> => Head(t) = t[1]
  OBVIOUS
<1>2. /\ \A k \in 1..l : ~q[k].requeued /\ q[k].first + q[k].size =< end
      /\ \A k \in 1..l : k + 1 \in 1..l => q[k + 1].first = q[k].first + q[k].size
      /\ q[l].first + q[l].size = end
  BY <1>1 DEF Chain
<1> HIDE DEF t, l
<1>3. \A k \in 1..(l - 1) : ~t[k].requeued /\ t[k].first + t[k].size =< end
  BY <1>1, <1>2
<1>4. \A k \in 1..(l - 1) : k + 1 \in 1..(l - 1) => t[k + 1].first = t[k].first + t[k].size
  <2> SUFFICES ASSUME NEW k \in 1..(l - 1), k + 1 \in 1..(l - 1)
               PROVE  t[k + 1].first = t[k].first + t[k].size
    OBVIOUS
  <2>1. k + 1 \in 1..l /\ (k + 1) + 1 \in 1..l
    BY <1>1
  <2> QED BY <1>1, <1>2, <2>1
<1>5. t # <<>> => t[Len(t)].first + t[Len(t)].size = end
  BY <1>1, <1>2
<1>6. Chain(t, end)
  BY <1>1, <1>3, <1>4, <1>5 DEF Chain
<1>7. IF t = <<>> THEN Head(q).first + Head(q).size = end
      ELSE Head(t).first = Head(q).first + Head(q).size
  <2>1. CASE l = 1
    BY <1>1, <1>2, <2>1
  <2>2. CASE l > 1
    <3>1. 1 \in 1..l /\ 1 + 1 \in 1..l /\ 1 \in 1..(l - 1)
      BY <1>1, <2>2
    <3> QED BY <1>1, <1>2, <2>2, <3>1
  <2> QED BY <1>1, <2>1, <2>2
<1> QED BY <1>1, <1>6, <1>7 DEF t

-----------------------------------------------------------------------------
(* What the invariant says of a state, and what the code's comparisons of  *)
(* numbers therefore decide.                                                *)

\* A packet is its number and its position.
LEMMA PacketFields ==
    /\ \A p \in Packet : /\ p.data \in Nat /\ p.data < MaxSubmitted /\ p.seq \in Seqnum
                         /\ p = P(p.data) <=> p.seq = SeqnumOf(p.data)
    /\ \A i \in Nat : P(i).seq = SeqnumOf(i) /\ P(i).data = i
    /\ \A i \in Nat : i < MaxSubmitted => P(i) \in Packet
  BY SeqnumOfType, Sizes DEF Packet, P

\* Allocation is behind what was handed over and ahead of what was put on the wire.
LEMMA Counts ==
    ASSUME TypeOK, CommandsInv, SenderInv
    PROVE  /\ Allocated \in Nat /\ Allocated =< submitted /\ submitted =< MaxSubmitted
           /\ submitted \in Nat
           /\ Len(toadd) \in Nat /\ Len(queuedReliables) \in Nat
           /\ Unsent \in Nat
           /\ Allocated = Unsent + Len(queuedReliables) + Len(toadd)
           /\ Allocated - Unsent =< MaxAhead
           /\ Len(toadd) < command.size => Allocated < submitted
<1>1. submitted \in Nat /\ submitted =< MaxSubmitted
  BY Sizes DEF TypeOK
<1>2. Len(toadd) \in Nat /\ Len(queuedReliables) \in Nat
  BY DEF TypeOK
<1>0. Unsent >= 0 /\ Len(queuedReliables) + Len(toadd) =< MaxAhead
  BY DEF SenderInv
<1>3. ASSUME command # NoCommand
      PROVE  /\ Allocated \in Nat /\ Allocated =< submitted
             /\ Len(toadd) < command.size => Allocated < submitted
  <2>1. command \in Command /\ command.first \in Nat /\ command.size \in Nat
    BY <1>3, Sizes DEF TypeOK, Command
  <2>2. Allocated = command.first + Len(toadd) /\ Len(toadd) =< command.size
    BY <1>3 DEF Allocated, CommandsInv
  <2>3. command.first + command.size =< submitted
    <3>1. CASE command.requeued
      <4>1. /\ queuedCommands # <<>>
            /\ command.first = queuedCommands[1].first
            /\ command.size = queuedCommands[1].size
        BY <1>3, <3>1 DEF CommandsInv
      <4>2. 1 \in DOMAIN queuedCommands
        BY <4>1 DEF TypeOK
      <4> QED BY <4>1, <4>2 DEF CommandsInv, Chain
    <3>2. CASE ~command.requeued
      BY <1>1, <1>3, <3>2 DEF CommandsInv
    <3> QED BY <3>1, <3>2
  <2>4. /\ Allocated \in Nat /\ Allocated =< submitted
        /\ Len(toadd) < command.size => Allocated < submitted
    BY <1>1, <1>2, <2>1, <2>2, <2>3
  <2> QED BY <2>4
<1>4. ASSUME command = NoCommand
      PROVE  /\ Allocated \in Nat /\ Allocated =< submitted
             /\ Len(toadd) < command.size => Allocated < submitted
  <2>1. toadd = <<>> /\ Len(toadd) = 0 /\ ~(Len(toadd) < command.size)
    BY <1>4 DEF CommandsInv, NoCommand
  <2>2. Allocated \in Nat /\ Allocated =< submitted
    <3>1. CASE queuedCommands # <<>>
      <4>1. 1 \in DOMAIN queuedCommands /\ queuedCommands[1] \in Command
        BY <3>1 DEF TypeOK
      <4>2. queuedCommands[1].first + queuedCommands[1].size =< submitted
        BY <4>1 DEF CommandsInv, Chain
      <4>3. Allocated = queuedCommands[1].first
        BY <1>4, <3>1 DEF Allocated
      <4> QED BY <1>1, <4>1, <4>2, <4>3, Sizes DEF Command
    <3>2. CASE queuedCommands = <<>>
      BY <1>1, <1>4, <3>2 DEF Allocated
    <3> QED BY <3>1, <3>2
  <2> QED BY <2>1, <2>2
<1>5. /\ Allocated \in Nat /\ Allocated =< submitted
      /\ Len(toadd) < command.size => Allocated < submitted
  BY <1>3, <1>4
<1>6. MaxAhead \in Nat /\ Unsent = Allocated - Len(toadd) - Len(queuedReliables)
  BY Sizes DEF Unsent
<1>7. /\ Unsent \in Nat
      /\ Allocated = Unsent + Len(queuedReliables) + Len(toadd)
      /\ Allocated - Unsent =< MaxAhead
  BY <1>0, <1>2, <1>5, <1>6
<1> QED BY <1>1, <1>2, <1>5, <1>7

\* Where the packets on the wire stand in the sender's window.
LEMMA SentDistance ==
    ASSUME TypeOK, CommandsInv, SenderInv, NEW i \in Nat, i =< Allocated,
           Allocated - i =< MaxAhead
    PROVE  Distance(OutgoingBase, SeqnumOf(i)) = MaxReliableWindow - (Allocated - i)
<1>1. Allocated \in Nat
  BY Counts
<1>2. Allocated - i \in 0..MaxAhead /\ i + (Allocated - i) = Allocated
  BY <1>1, Sizes
<1>3. OutgoingBase = Wrap(SeqnumOf(Allocated) - MaxReliableWindow)
  BY DEF OutgoingBase, SenderInv
<1> QED BY <1>2, <1>3, DistanceFromBase

\* getFirstSeqnum of outgoing_reliables_sent is the number of the oldest packet.
LEMMA FirstSent ==
    ASSUME TypeOK, CommandsInv, SenderInv, reliablesSent # {}
    PROVE  /\ FirstPacket(reliablesSent, OutgoingBase) \in reliablesSent
           /\ \A q \in reliablesSent :
                FirstPacket(reliablesSent, OutgoingBase).data =< q.data
<1> DEFINE f == FirstPacket(reliablesSent, OutgoingBase)
<1>1. Allocated \in Nat /\ Unsent =< Allocated
  BY Counts
<1>2. \A q \in reliablesSent :
        /\ q.data \in Nat /\ q.data < Allocated /\ Allocated - q.data =< MaxAhead
        /\ q.seq = SeqnumOf(q.data)
  <2> TAKE q \in reliablesSent
  <2>1. q \in Packet
    BY DEF TypeOK
  <2>2. q = P(q.data) /\ q.data < Unsent /\ Allocated - q.data =< MaxAhead
    BY DEF SenderInv
  <2> QED BY <1>1, <2>1, <2>2, Counts, PacketFields
<1>3. \A q \in reliablesSent :
        Distance(OutgoingBase, q.seq) = MaxReliableWindow - (Allocated - q.data)
  BY <1>1, <1>2, SentDistance
<1>4. PICK x \in {q.data : q \in reliablesSent} :
            \A y \in {q.data : q \in reliablesSent} : x =< y
  <2>1. {q.data : q \in reliablesSent} \subseteq Nat
    BY <1>2
  <2>2. {q.data : q \in reliablesSent} # {}
    OBVIOUS
  <2> QED BY <2>1, <2>2, LeastNumber
<1>5. PICK p \in reliablesSent : p.data = x
  BY <1>4
<1>6. \A q \in reliablesSent : Distance(OutgoingBase, p.seq) =< Distance(OutgoingBase, q.seq)
  <2> TAKE q \in reliablesSent
  <2>1. p.data =< q.data
    BY <1>4, <1>5
  <2> QED BY <1>1, <1>2, <1>3, <2>1, Sizes
<1>7. f \in reliablesSent /\ \A q \in reliablesSent :
            Distance(OutgoingBase, f.seq) =< Distance(OutgoingBase, q.seq)
  BY <1>6, Zenon DEF FirstPacket
<1> HIDE DEF f
<1>8. \A q \in reliablesSent : f.data =< q.data
  BY <1>1, <1>2, <1>3, <1>7, Sizes
<1> QED BY <1>7, <1>8 DEF f

\* getOutgoingSequenceNumber lets allocation run at most MaxAhead packets ahead.
LEMMA AvailableBounds ==
    ASSUME TypeOK, CommandsInv, SenderInv, SeqnumAvailable, NEW q \in reliablesSent
    PROVE  (Allocated + 1) - q.data =< MaxAhead
<1> DEFINE f == FirstPacket(reliablesSent, OutgoingBase)
           d == Allocated - f.data
<1>1. f \in reliablesSent /\ f.data =< q.data
  BY FirstSent
<1>2. IF f.seq < nextOutgoing
      THEN nextOutgoing - f.seq =< windowSize
      ELSE nextOutgoing + (SeqnumMax - f.seq) =< windowSize
  BY DEF SeqnumAvailable
<1> HIDE DEF f
<1>3. f.data \in Nat /\ q.data \in Nat /\ f.seq = SeqnumOf(f.data) /\ f.seq \in Seqnum
  BY <1>1, PacketFields DEF TypeOK, SenderInv
<1>4. Allocated \in Nat /\ f.data < Allocated /\ d =< MaxAhead
  BY <1>1, <1>3, Counts DEF SenderInv
<1>5. d \in 0..SeqnumMax /\ f.data + d = Allocated /\ d \in Nat
  BY <1>3, <1>4, Sizes
<1>6. Distance(f.seq, nextOutgoing) = d
  BY <1>3, <1>5, DistanceOfPackets DEF SenderInv
<1>7. nextOutgoing \in Seqnum
  BY DEF TypeOK
<1>8. d = IF f.seq =< nextOutgoing THEN nextOutgoing - f.seq ELSE nextOutgoing - f.seq + M
  BY <1>3, <1>6, <1>7, DistanceCases
<1>9. windowSize \in Nat /\ windowSize + 2 =< MaxAhead
  BY Sizes DEF TypeOK
<1>10. d =< windowSize + 1
  <2>1. f.seq \in Nat /\ nextOutgoing \in Nat
    BY <1>3, <1>7, Sizes DEF Seqnum
  <2> HIDE DEF d
  <2>2. CASE f.seq < nextOutgoing
    BY <1>2, <1>8, <1>9, <2>1, <2>2
  <2>3. CASE f.seq >= nextOutgoing
    BY <1>2, <1>5, <1>8, <1>9, <2>1, <2>3, Sizes
  <2> QED BY <2>1, <2>2, <2>3
<1> QED BY <1>1, <1>3, <1>4, <1>9, <1>10, Sizes
\* What the receiver has buffered and what it waits for compare as positions.
LEMMA Buffered ==
    ASSUME IInv, NEW p \in incoming
    PROVE  /\ p \in Packet /\ p.data \in Nat /\ p = P(p.data) /\ p.seq = SeqnumOf(p.data)
           /\ p.data < Unsent /\ R =< p.data /\ p.data < R + MaxReliableWindow
           /\ p.seq = nextIncoming <=> p.data = R
<1>1. p \in Packet /\ R \in Nat
  BY DEF IInv, TypeOK, R
<1>2. /\ p = P(p.data) /\ p.data < Unsent /\ R =< p.data /\ p.data < R + MaxReliableWindow
      /\ nextIncoming = SeqnumOf(R)
  BY DEF IInv, ReceiverInv
<1>3. p.data \in Nat /\ p.seq = SeqnumOf(p.data)
  BY <1>1, <1>2, PacketFields
<1>4. SeqnumOf(p.data) = SeqnumOf(R) => p.data = R
  BY <1>1, <1>2, <1>3, NumberTellsPacket, Sizes
<1> QED BY <1>1, <1>2, <1>3, <1>4

\* A receiver with nothing to hand out waits for a packet that is still on the wire,
\* so the sender's allocation is not far ahead of it.
LEMMA ReceiverLag ==
    ASSUME IInv, ~CanUnbuffer
    PROVE  R \in Nat /\ R =< Unsent /\ Unsent =< Allocated /\ Allocated - R =< MaxAhead
<1>1. R \in Nat /\ R =< Unsent /\ nextIncoming = SeqnumOf(R)
  BY DEF IInv, TypeOK, ReceiverInv, R
<1>2. /\ Unsent \in Nat /\ Allocated \in Nat /\ Unsent =< Allocated
      /\ Allocated - Unsent =< MaxAhead
  BY Counts DEF IInv
<1>3. CASE R = Unsent
  BY <1>1, <1>2, <1>3
<1>4. CASE R < Unsent
  <2>1. P(R) \in reliablesSent \union incoming
    <3>1. R \in R..(Unsent - 1)
      BY <1>1, <1>2, <1>4
    <3> QED BY <3>1 DEF IInv, ReceiverInv
  <2>2. P(R).seq = nextIncoming /\ P(R).data = R
    BY <1>1, PacketFields
  <2>3. P(R) \in reliablesSent
    BY <2>1, <2>2 DEF CanUnbuffer
  <2>4. Allocated - P(R).data =< MaxAhead
    BY <2>3 DEF IInv, SenderInv
  <2> QED BY <1>1, <1>2, <2>2, <2>4
<1> QED BY <1>1, <1>2, <1>3, <1>4

\* handlePacketType_Reliable: the number tells a new packet from an old one, and
\* the next expected one from all others.
LEMMA NumbersTell ==
    ASSUME IInv, ~CanUnbuffer, NEW p \in net, Alive(p)
    PROVE  /\ p \in Packet /\ p.data \in Nat /\ p = P(p.data) /\ p.seq = SeqnumOf(p.data)
           /\ p.data < Unsent /\ p.data - R < MaxReliableWindow
           /\ p.seq = nextIncoming <=> p.data = R
           /\ InReceiveWindow(p) <=> p.data >= R
<1>1. R \in Nat /\ R =< Unsent /\ Unsent =< Allocated /\ Allocated - R =< MaxAhead
  BY ReceiverLag
<1>2. Allocated \in Nat /\ Unsent \in Nat
  BY Counts DEF IInv
<1>3. /\ p \in Packet /\ p = P(p.data) /\ p.data < Unsent /\ nextIncoming = SeqnumOf(R)
  BY DEF IInv, TypeOK, ReceiverInv
<1>4. p.data \in Nat /\ p.seq = SeqnumOf(p.data) /\ p.seq \in Seqnum
  BY <1>3, PacketFields
<1>5. Allocated - p.data =< MaxAge
  BY <1>2, <1>4, Sizes DEF Alive
<1>6. p.data - R < MaxReliableWindow /\ p.data - R < M /\ R - p.data =< MaxAge
  BY <1>1, <1>2, <1>3, <1>4, <1>5, Sizes
<1>7. R - p.data < M
  BY <1>1, <1>4, <1>6, Sizes
<1>8. p.seq = nextIncoming <=> p.data = R
  BY <1>1, <1>3, <1>4, <1>6, <1>7, NumberTellsPacket
<1>9. InReceiveWindow(p) <=> Distance(nextIncoming, p.seq) < MaxReliableWindow
  BY <1>1, <1>3, <1>4, SeqnumOfType, InWindowIsDistance, Sizes DEF InReceiveWindow
<1>10. p.data >= R => Distance(nextIncoming, p.seq) = p.data - R
  <2> SUFFICES ASSUME p.data >= R PROVE Distance(nextIncoming, p.seq) = p.data - R
    OBVIOUS
  <2>1. p.data - R \in 0..SeqnumMax /\ p.data = R + (p.data - R)
    BY <1>1, <1>4, <1>6, Sizes
  <2> QED BY <1>1, <1>3, <1>4, <2>1, DistanceOfPackets
<1>11. p.data < R => Distance(nextIncoming, p.seq) = M - (R - p.data)
  <2> SUFFICES ASSUME p.data < R PROVE Distance(nextIncoming, p.seq) = M - (R - p.data)
    OBVIOUS
  <2>1. R - p.data \in 1..SeqnumMax /\ R = p.data + (R - p.data)
    BY <1>1, <1>4, <1>7, Sizes
  <2> QED BY <1>1, <1>3, <1>4, <2>1, DistanceBack
<1>12. InReceiveWindow(p) <=> p.data >= R
  <2>1. CASE p.data >= R
    BY <1>6, <1>9, <1>10, <2>1
  <2>2. CASE p.data < R
    BY <1>1, <1>4, <1>6, <1>9, <1>11, <2>2, Sizes
  <2> QED BY <1>1, <1>4, <2>1, <2>2
<1> QED BY <1>3, <1>4, <1>6, <1>8, <1>12

-----------------------------------------------------------------------------
(* One lemma per action: it preserves the invariant.                        *)

\* Steps that leave the packets of the sender alone.
LEMMA SenderFrame ==
    ASSUME SenderInv, UNCHANGED <<toadd, queuedReliables, reliablesSent, nextOutgoing>>,
           Allocated' = Allocated
    PROVE  SenderInv' /\ Unsent' = Unsent
<1>1. Unsent' = Unsent
  BY DEF Unsent
<1> QED BY <1>1 DEF SenderInv

\* Steps that leave the network, the receiver and what is on the wire alone.
LEMMA ReceiverFrame ==
    ASSUME ReceiverInv, UNCHANGED <<reliablesSent, net, acks, receiverVars>>,
           Unsent' = Unsent
    PROVE  ReceiverInv'
<1>1. R' = R
  BY DEF R, receiverVars
<1> QED BY <1>1 DEF ReceiverInv, InOrder, AckedIsHeld, receiverVars

\* Connecting starts both halves at SEQNUM_INITIAL with nothing under way.
LEMMA InitHolds == Init => IInv
<1> SUFFICES ASSUME Init PROVE IInv
  OBVIOUS
<1>1. /\ submitted = 0 /\ queuedCommands = <<>> /\ command = NoCommand
      /\ toadd = <<>> /\ queuedReliables = <<>> /\ reliablesSent = {} /\ net = {}
      /\ acks = {} /\ incoming = {} /\ delivered = <<>> /\ windowSize \in WindowSizes
      /\ nextOutgoing = SeqnumInitial /\ nextIncoming = SeqnumInitial
  BY DEF Init
<1>2. SeqnumInitial \in Seqnum /\ SeqnumOf(0) = SeqnumInitial
  BY WrapCases, SeqnumAssumption, Sizes DEF Seqnum, SeqnumOf
<1>3. Allocated = 0 /\ Unsent = 0 /\ R = 0
  <2>1. Len(toadd) = 0 /\ Len(queuedReliables) = 0 /\ Len(delivered) = 0
    BY <1>1
  <2>2. Allocated = 0
    BY <1>1, Zenon DEF Allocated
  <2> QED BY <2>1, <2>2 DEF Unsent, R
<1>4. TypeOK
  BY <1>1, <1>2, Sizes DEF TypeOK
<1>5. CommandsInv
  BY <1>1 DEF CommandsInv, Chain
<1>6. SenderInv
  BY <1>1, <1>2, <1>3, Sizes DEF SenderInv
<1>7. ReceiverInv
  BY <1>1, <1>2, <1>3 DEF ReceiverInv, InOrder, AckedIsHeld
<1> QED BY <1>4, <1>5, <1>6, <1>7 DEF IInv

\* PutReliableSendCommand appends to the stream: as the command being processed
\* when nothing waits, as the last of the queue otherwise.
LEMMA PutKeepsInv ==
    ASSUME IInv, NEW n \in 1..MaxChunks, PutReliableSendCommand(n)
    PROVE  IInv'
<1> DEFINE c == [first |-> submitted, size |-> n, requeued |-> FALSE]
<1>1. TypeOK /\ CommandsInv /\ SenderInv /\ ReceiverInv
  BY DEF IInv
<1>2. submitted \in Nat /\ n \in Nat /\ n >= 1 /\ submitted' = submitted + n
      /\ submitted' =< MaxSubmitted /\ MaxSubmitted \in Nat
  BY <1>1, Sizes DEF TypeOK, PutReliableSendCommand
<1>3. /\ command = NoCommand /\ toadd = <<>>
      /\ UNCHANGED <<toadd, queuedReliables, reliablesSent, nextOutgoing, windowSize,
                     net, acks, receiverVars>>
  BY <1>1 DEF PutReliableSendCommand, CommandsInv
<1>4. c \in Command /\ c # NoCommand /\ c.first = submitted /\ c.size = n /\ ~c.requeued
  BY <1>2 DEF Command, NoCommand
<1>5. \/ /\ queuedCommands = <<>> /\ Len(queuedReliables) + 1 < windowSize \div 2
         /\ command' = c /\ queuedCommands' = queuedCommands
      \/ queuedCommands' = Append(queuedCommands, c) /\ command' = command
  BY DEF PutReliableSendCommand
<1> HIDE DEF c
<1>6. queuedCommands \in Seq(Command) /\ command \in Command \union {NoCommand}
  BY <1>1 DEF TypeOK
<1>7. TypeOK'
  <2>1. queuedCommands' \in Seq(Command) /\ command' \in Command \union {NoCommand}
    BY <1>4, <1>5, <1>6
  <2>2. submitted' \in 0..MaxSubmitted
    BY <1>2
  <2> QED BY <1>1, <1>3, <2>1, <2>2 DEF TypeOK, receiverVars
<1>8. CASE queuedCommands = <<>> /\ Len(queuedReliables) + 1 < windowSize \div 2
           /\ command' = c /\ queuedCommands' = queuedCommands
  <2>1. Len(toadd) = 0
    BY <1>3
  <2>2. Allocated' = Allocated
    BY <1>2, <1>3, <1>4, <1>8, <2>1 DEF Allocated
  <2>3. Len(queuedReliables) + MaxChunks =< MaxAhead
    BY <1>1, <1>8, Sizes DEF TypeOK
  <2>4. CommandsInv'
    <3>1. Chain(queuedCommands', submitted')
      BY <1>8 DEF Chain
    <3> QED BY <1>2, <1>3, <1>4, <1>8, <2>1, <2>3, <3>1 DEF CommandsInv
  <2>5. SenderInv' /\ ReceiverInv'
    BY <1>1, <1>3, <2>2, SenderFrame, ReceiverFrame
  <2> QED BY <1>7, <2>4, <2>5 DEF IInv
<1>9. CASE queuedCommands' = Append(queuedCommands, c) /\ command' = command
  <2>1. Chain(queuedCommands', submitted')
    BY <1>1, <1>2, <1>4, <1>6, <1>9, ChainAppend DEF CommandsInv
  <2>2. queuedCommands' # <<>>
    BY <1>4, <1>6, <1>9
  <2>3. Head(queuedCommands') =
            IF queuedCommands = <<>> THEN c ELSE Head(queuedCommands)
    BY <1>4, <1>6, <1>9
  <2>4. Allocated' = Allocated
    BY <1>3, <1>4, <1>9, <2>2, <2>3 DEF Allocated
  <2>5. CommandsInv'
    BY <1>3, <1>9, <2>1 DEF CommandsInv
  <2>6. SenderInv' /\ ReceiverInv'
    BY <1>1, <1>3, <2>4, SenderFrame, ReceiverFrame
  <2> QED BY <1>7, <2>5, <2>6 DEF IInv
<1> QED BY <1>5, <1>8, <1>9

\* RunCommandQueues takes up the oldest command and leaves it in the queue.
LEMMA RunKeepsInv == ASSUME IInv, RunCommandQueues PROVE IInv'
<1>1. TypeOK /\ CommandsInv /\ SenderInv /\ ReceiverInv
  BY DEF IInv
<1>2. /\ command = NoCommand /\ toadd = <<>> /\ queuedCommands # <<>>
      /\ Len(queuedReliables) < MaxRequeued
      /\ command' = [Head(queuedCommands) EXCEPT !.requeued = TRUE]
      /\ UNCHANGED <<submitted, queuedCommands, toadd, queuedReliables, reliablesSent,
                     nextOutgoing, windowSize, net, acks, receiverVars>>
  BY <1>1 DEF RunCommandQueues, CommandsInv
<1>3. Head(queuedCommands) \in Command
  BY <1>1, <1>2 DEF TypeOK
<1>4. /\ command' \in Command /\ command' # NoCommand /\ command'.requeued
      /\ command'.first = Head(queuedCommands).first
      /\ command'.size = Head(queuedCommands).size /\ command'.size \in Nat
  <2> DEFINE h == Head(queuedCommands)
             d == [h EXCEPT !.requeued = TRUE]
  <2>1. h \in Command
    BY <1>3
  <2>2. command' = d
    BY <1>2
  <2> HIDE DEF h
  <2>3. d \in Command
    BY <2>1 DEF Command
  <2>4. d.requeued /\ d.first = h.first
    BY <2>1 DEF Command
  <2>5. d.size = h.size
    BY <2>1 DEF Command
  <2>6. d.size \in Nat /\ d.size > 0
    BY <2>3, Sizes DEF Command
  <2>7. d # NoCommand
    BY <2>6 DEF NoCommand
  <2> HIDE DEF d
  <2> QED BY <2>2, <2>3, <2>4, <2>5, <2>6, <2>7 DEF h
<1>5. TypeOK'
  BY <1>1, <1>2, <1>4 DEF TypeOK, receiverVars
<1>6. Len(toadd) = 0 /\ command'.first \in Nat
  BY <1>2, <1>4 DEF Command
<1>7. Allocated' = Allocated
  BY <1>2, <1>4, <1>6 DEF Allocated
<1>8. Len(queuedReliables) + MaxChunks =< MaxAhead
  BY <1>1, <1>2, Sizes, SMTT(30) DEF TypeOK
<1>9. CommandsInv'
  BY <1>1, <1>2, <1>4, <1>6, <1>8 DEF CommandsInv
<1>10. SenderInv' /\ ReceiverInv'
  BY <1>1, <1>2, <1>7, SenderFrame, ReceiverFrame
<1> QED BY <1>5, <1>9, <1>10 DEF IInv

\* getOutgoingSequenceNumber gives the next chunk the next number.
LEMMA AllocateKeepsInv == ASSUME IInv, AllocateSeqnum PROVE IInv'
<1> DEFINE p == [seq |-> nextOutgoing, data |-> command.first + Len(toadd)]
           l == Len(toadd)
<1>1. TypeOK /\ CommandsInv /\ SenderInv /\ ReceiverInv
  BY DEF IInv
<1>2. /\ l < command.size /\ SeqnumAvailable /\ toadd' = Append(toadd, p)
      /\ nextOutgoing' = Wrap(nextOutgoing + 1)
      /\ UNCHANGED <<submitted, queuedCommands, command, queuedReliables, reliablesSent,
                     windowSize, net, acks, receiverVars>>
  BY DEF AllocateSeqnum
<1>3. l \in Nat /\ toadd \in Seq(Packet) /\ command \in Command \union {NoCommand}
  BY <1>1 DEF TypeOK
<1>4. command # NoCommand
  BY <1>2, <1>3 DEF NoCommand
<1>5. command.first \in Nat /\ command.size \in Nat /\ command.size =< MaxChunks
  BY <1>3, <1>4, Sizes DEF Command
<1>6. /\ Allocated = command.first + l /\ Allocated \in Nat /\ Allocated < submitted
      /\ Unsent \in Nat /\ Allocated = Unsent + Len(queuedReliables) + l
      /\ submitted =< MaxSubmitted /\ submitted \in Nat /\ Len(queuedReliables) \in Nat
  BY <1>1, <1>2, <1>4, Counts DEF Allocated
<1>7. p = P(Allocated) /\ p \in Packet
  <2>1. nextOutgoing = SeqnumOf(Allocated)
    BY <1>1 DEF SenderInv
  <2>2. P(Allocated) \in Packet
    BY <1>6, PacketFields, Sizes
  <2> QED BY <1>6, <2>1, <2>2 DEF P
<1> HIDE DEF p
<1>8. /\ toadd' \in Seq(Packet) /\ Len(toadd') = l + 1 /\ toadd'[l + 1] = p
      /\ DOMAIN toadd = 1..l /\ DOMAIN toadd' = 1..(l + 1)
      /\ \A k \in 1..l : toadd'[k] = toadd[k]
  BY <1>2, <1>3, <1>7
<1>9. Allocated' = Allocated + 1 /\ Unsent' = Unsent
  <2>1. Allocated' = command.first + Len(toadd')
    BY <1>2, <1>4 DEF Allocated
  <2>2. Unsent' = Allocated' - Len(toadd') - Len(queuedReliables)
    BY <1>2 DEF Unsent
  <2>3. Len(toadd') = l + 1
    BY <1>8
  <2> HIDE DEF l
  <2>4. Allocated' = Allocated + 1
    BY <1>3, <1>5, <1>6, <2>1, <2>3, SMTT(30)
  <2> QED BY <1>3, <1>6, <2>2, <2>3, <2>4
<1>10. nextOutgoing' = SeqnumOf(Allocated + 1)
  BY <1>1, <1>2, <1>6, SeqnumOfNext DEF SenderInv
<1>11. TypeOK'
  <2>1. nextOutgoing' \in Seqnum
    BY <1>6, <1>10, SeqnumOfType
  <2> QED BY <1>1, <1>2, <1>8, <2>1 DEF TypeOK, receiverVars
<1>12. CommandsInv'
  <2>1. l + 1 =< command.size
    BY <1>2, <1>3, <1>5
  <2> QED BY <1>1, <1>2, <1>4, <1>8, <2>1 DEF CommandsInv
<1>13. SenderInv'
  <2>1. Len(queuedReliables) + (l + 1) =< MaxAhead
    <3>1. Len(queuedReliables) + MaxChunks =< MaxAhead
      BY <1>1, <1>4 DEF CommandsInv
    <3> QED BY <1>2, <1>3, <1>5, <1>6, <3>1, Sizes
  <2>2. \A k \in DOMAIN toadd' : toadd'[k] = P(Unsent + Len(queuedReliables) + k - 1)
    <3> TAKE k \in DOMAIN toadd'
    <3>1. CASE k \in 1..l
      BY <1>1, <1>8, <3>1 DEF SenderInv
    <3>2. CASE k = l + 1
      <4>1. Unsent + Len(queuedReliables) + k - 1 = Allocated
        BY <1>3, <1>6, <3>2
      <4> QED BY <1>7, <1>8, <3>2, <4>1
    <3> QED BY <1>3, <1>8, <3>1, <3>2
  <2>3. \A q \in reliablesSent : q = P(q.data) /\ q.data < Unsent
                               /\ (Allocated + 1) - q.data =< MaxAhead
    BY <1>1, <1>2, AvailableBounds DEF SenderInv
  <2>4. \A k \in DOMAIN queuedReliables : queuedReliables[k] = P(Unsent + k - 1)
    BY <1>1 DEF SenderInv
  <2>5. queuedReliables' = queuedReliables /\ reliablesSent' = reliablesSent
    BY <1>2
  <2>6. Unsent' >= 0 /\ nextOutgoing' = SeqnumOf(Allocated')
        /\ Len(queuedReliables') + Len(toadd') =< MaxAhead
    BY <1>6, <1>8, <1>9, <1>10, <2>1, <2>5
  <2>7. \A k \in DOMAIN toadd' : toadd'[k] = P(Unsent' + Len(queuedReliables') + k - 1)
    BY <1>9, <2>2, <2>5
  <2>8. \A k \in DOMAIN queuedReliables' : queuedReliables'[k] = P(Unsent' + k - 1)
    BY <1>9, <2>4, <2>5
  <2>9. \A q \in reliablesSent' : q = P(q.data) /\ q.data < Unsent'
                                /\ Allocated' - q.data =< MaxAhead
    <3> TAKE q \in reliablesSent'
    <3>1. q \in reliablesSent
      BY <2>5
    <3>2. q = P(q.data) /\ q.data < Unsent /\ (Allocated + 1) - q.data =< MaxAhead
      BY <2>3, <3>1
    <3> QED BY <1>9, <3>2, Zenon
  <2> QED BY <2>6, <2>7, <2>8, <2>9 DEF SenderInv
<1>14. ReceiverInv'
  BY <1>1, <1>2, <1>9, ReceiverFrame
<1> QED BY <1>11, <1>12, <1>13, <1>14 DEF IInv

\* A command whose chunks all have a number moves to queued_reliables as it is.
LEMMA QueueKeepsInv == ASSUME IInv, QueuePackets PROVE IInv'
<1> DEFINE q == queuedReliables
           l == Len(queuedReliables)
           n == Len(toadd)
<1>1. TypeOK /\ CommandsInv /\ SenderInv /\ ReceiverInv
  BY DEF IInv
<1>2. /\ command # NoCommand /\ n = command.size /\ q' = q \o toadd /\ toadd' = <<>>
      /\ command' = NoCommand
      /\ queuedCommands' = IF command.requeued THEN Tail(queuedCommands)
                           ELSE queuedCommands
      /\ UNCHANGED <<submitted, reliablesSent, nextOutgoing, windowSize, net, acks,
                     receiverVars>>
  BY DEF QueuePackets
<1>3. /\ l \in Nat /\ n \in Nat /\ q \in Seq(Packet) /\ toadd \in Seq(Packet)
      /\ queuedCommands \in Seq(Command) /\ submitted \in Nat
  BY <1>1, Counts DEF TypeOK
<1>4. /\ q' \in Seq(Packet) /\ Len(q') = l + n /\ Len(toadd') = 0
      /\ DOMAIN q = 1..l /\ DOMAIN toadd = 1..n /\ DOMAIN q' = 1..(l + n)
      /\ DOMAIN toadd' = {}
      /\ \A k \in 1..l : q'[k] = q[k]
      /\ \A k \in 1..n : q'[l + k] = toadd[k]
  BY <1>2, <1>3
<1>5. Allocated = command.first + command.size
  BY <1>2 DEF Allocated
<1>6. /\ queuedCommands' \in Seq(Command) /\ Chain(queuedCommands', submitted)
      /\ IF queuedCommands' = <<>> THEN command.first + command.size = submitted
         ELSE Head(queuedCommands').first = command.first + command.size
  <2>1. CASE command.requeued
    <3>1. /\ queuedCommands # <<>> /\ Chain(queuedCommands, submitted)
          /\ command.first = Head(queuedCommands).first
          /\ command.size = Head(queuedCommands).size
      BY <1>1, <1>2, <2>1 DEF CommandsInv
    <3> QED BY <1>2, <1>3, <2>1, <3>1, ChainTail
  <2>2. CASE ~command.requeued
    BY <1>1, <1>2, <1>3, <2>2 DEF CommandsInv
  <2> QED BY <2>1, <2>2
<1>7. Allocated' = Allocated
  BY <1>2, <1>5, <1>6 DEF Allocated
<1>8. /\ Allocated \in Nat /\ Unsent \in Nat /\ Allocated = Unsent + l + n
  BY <1>1, Counts
<1>9. Unsent' = Unsent
  <2>1. Unsent' = Allocated' - Len(toadd') - Len(q')
    BY DEF Unsent
  <2> QED BY <1>3, <1>4, <1>7, <1>8, <2>1
<1>10. TypeOK'
  BY <1>1, <1>2, <1>4, <1>6 DEF TypeOK, receiverVars
<1>11. CommandsInv'
  BY <1>2, <1>6 DEF CommandsInv
<1>12. SenderInv'
  <2>1. /\ l + n =< MaxAhead
        /\ \A k \in 1..n : toadd[k] = P(Unsent + l + k - 1)
        /\ \A k \in 1..l : q[k] = P(Unsent + k - 1)
        /\ \A p \in reliablesSent : p = P(p.data) /\ p.data < Unsent
                                   /\ Allocated - p.data =< MaxAhead
        /\ nextOutgoing = SeqnumOf(Allocated)
    BY <1>1, <1>4 DEF SenderInv
  <2>2. \A k \in 1..(l + n) : q'[k] = P(Unsent + k - 1)
    <3> TAKE k \in 1..(l + n)
    <3>1. CASE k =< l
      BY <1>3, <1>4, <2>1, <3>1
    <3>2. CASE k > l
      <4>1. k - l \in 1..n /\ l + (k - l) = k
            /\ Unsent + l + (k - l) - 1 = Unsent + k - 1
        BY <1>3, <1>8, <3>2
      <4>2. q'[l + (k - l)] = toadd[k - l] /\ toadd[k - l] = P(Unsent + l + (k - l) - 1)
        BY <1>4, <2>1, <4>1
      <4> QED BY <4>1, <4>2
    <3> QED BY <1>3, <3>1, <3>2
  <2>3. Unsent' >= 0 /\ nextOutgoing' = SeqnumOf(Allocated')
        /\ Len(queuedReliables') + Len(toadd') =< MaxAhead
    BY <1>2, <1>3, <1>4, <1>7, <1>8, <1>9, <2>1
  <2>4. \A k \in DOMAIN toadd' : toadd'[k] = P(Unsent' + Len(queuedReliables') + k - 1)
    BY <1>4
  <2>5. \A k \in DOMAIN queuedReliables' : queuedReliables'[k] = P(Unsent' + k - 1)
    BY <1>4, <1>9, <2>2
  <2>6. \A p \in reliablesSent' : p = P(p.data) /\ p.data < Unsent'
                                /\ Allocated' - p.data =< MaxAhead
    BY <1>2, <1>7, <1>9, <2>1
  <2> QED BY <2>3, <2>4, <2>5, <2>6 DEF SenderInv
<1>13. ReceiverInv'
  BY <1>1, <1>2, <1>9, ReceiverFrame
<1> QED BY <1>10, <1>11, <1>12, <1>13 DEF IInv

\* putBackSequenceNumber takes back exactly the numbers of the current command.
LEMMA PutBackKeepsInv == ASSUME IInv, PutBackSeqnums PROVE IInv'
<1> DEFINE l == Len(queuedReliables)
           n == Len(toadd)
<1>1. TypeOK /\ CommandsInv /\ SenderInv /\ ReceiverInv
  BY DEF IInv
<1>2. /\ n < command.size /\ toadd' = <<>> /\ command' = NoCommand
      /\ nextOutgoing' = IF toadd = <<>> THEN nextOutgoing ELSE Head(toadd).seq
      /\ queuedCommands' = IF command.requeued THEN queuedCommands
                           ELSE Append(queuedCommands, command)
      /\ UNCHANGED <<submitted, queuedReliables, reliablesSent, windowSize, net, acks,
                     receiverVars>>
  BY DEF PutBackSeqnums
<1>3. /\ l \in Nat /\ n \in Nat /\ toadd \in Seq(Packet) /\ queuedCommands \in Seq(Command)
      /\ submitted \in Nat /\ command \in Command \union {NoCommand}
  BY <1>1, Counts DEF TypeOK
<1>4. command # NoCommand /\ command \in Command
  BY <1>2, <1>3 DEF NoCommand
<1>5. command.first \in Nat /\ command.size \in Nat
  BY <1>4, Sizes DEF Command
<1>6. /\ Allocated = command.first + n /\ Unsent \in Nat /\ Allocated = Unsent + l + n
      /\ Allocated \in Nat
  BY <1>1, <1>4, Counts DEF Allocated
<1>7. Len(toadd') = 0 /\ DOMAIN toadd' = {}
  BY <1>2
<1>8. /\ queuedCommands' \in Seq(Command) /\ Chain(queuedCommands', submitted)
      /\ queuedCommands' # <<>> /\ Head(queuedCommands').first = command.first
  <2>1. CASE command.requeued
    BY <1>1, <1>2, <1>3, <1>4, <2>1 DEF CommandsInv
  <2>2. CASE ~command.requeued
    <3>1. /\ queuedCommands = <<>> /\ command.first + command.size = submitted
      BY <1>1, <1>4, <2>2 DEF CommandsInv
    <3>2. queuedCommands' = <<command>>
      BY <1>2, <2>2, <3>1
    <3>3. Chain(<<command>>, submitted)
      BY <1>3, <1>5, <2>2, <3>1 DEF Chain
    <3> QED BY <1>4, <3>2, <3>3
  <2> QED BY <2>1, <2>2
<1>9. Allocated' = command.first
  BY <1>2, <1>8 DEF Allocated
<1>10. Unsent' = Unsent
  <2>1. Unsent' = Allocated' - Len(toadd') - l
    BY <1>2 DEF Unsent
  <2> HIDE DEF l, n
  <2> QED BY <1>3, <1>5, <1>6, <1>7, <1>9, <2>1
<1>11. nextOutgoing' = SeqnumOf(Allocated') /\ nextOutgoing' \in Seqnum
  <2>1. CASE toadd = <<>>
    <3>1. n = 0 /\ Allocated = command.first
      BY <1>5, <1>6, <2>1
    <3> QED BY <1>1, <1>2, <1>9, <2>1, <3>1 DEF SenderInv, TypeOK
  <2>2. CASE toadd # <<>>
    <3>1. 1 \in DOMAIN toadd /\ Head(toadd) = toadd[1] /\ toadd[1] \in Packet
      BY <1>3, <2>2
    <3>2. toadd[1] = P(Unsent + l + 1 - 1)
      BY <1>1, <3>1 DEF SenderInv
    <3>3. Unsent + l + 1 - 1 = command.first
      BY <1>3, <1>5, <1>6, SMTT(30)
    <3> QED BY <1>2, <1>5, <1>9, <2>2, <3>1, <3>2, <3>3, PacketFields
  <2> QED BY <2>1, <2>2
<1>12. TypeOK'
  BY <1>1, <1>2, <1>8, <1>11 DEF TypeOK, receiverVars
<1>13. CommandsInv'
  BY <1>2, <1>8 DEF CommandsInv
<1>14. SenderInv'
  <2>1. /\ l + n =< MaxAhead
        /\ \A k \in DOMAIN queuedReliables : queuedReliables[k] = P(Unsent + k - 1)
        /\ \A p \in reliablesSent : p = P(p.data) /\ p.data < Unsent
                                   /\ Allocated - p.data =< MaxAhead
    BY <1>1 DEF SenderInv
  <2>2. l =< MaxAhead
    BY <1>3, <2>1, Sizes
  <2>3. \A p \in reliablesSent : command.first - p.data =< MaxAhead
    <3> TAKE p \in reliablesSent
    <3>1. p.data \in Nat
      BY <1>1, PacketFields DEF TypeOK
    <3> QED BY <1>3, <1>5, <1>6, <2>1, <3>1, Sizes, SMTT(30)
  <2> QED BY <1>2, <1>6, <1>7, <1>9, <1>10, <1>11, <2>1, <2>2, <2>3 DEF SenderInv
<1>15. ReceiverInv'
  BY <1>1, <1>2, <1>10, ReceiverFrame
<1> QED BY <1>12, <1>13, <1>14, <1>15 DEF IInv

\* The head of queued_reliables is the packet after the newest one on the wire, so
\* the insert into outgoing_reliables_sent is not refused.
LEMMA SendKeepsInv == ASSUME IInv, SendQueued PROVE IInv'
<1> DEFINE q == queuedReliables
           l == Len(queuedReliables)
           p == Head(queuedReliables)
<1>1. TypeOK /\ CommandsInv /\ SenderInv /\ ReceiverInv
  BY DEF IInv
<1>2. /\ command = NoCommand /\ q # <<>> /\ q' = Tail(q)
      /\ reliablesSent' = BufferInsert(reliablesSent, p, OutgoingBase)
      /\ net' = net \union {p}
      /\ UNCHANGED <<submitted, queuedCommands, command, toadd, nextOutgoing, windowSize,
                     acks, receiverVars>>
  BY DEF SendQueued
<1>3. /\ q \in Seq(Packet) /\ l \in Nat /\ l >= 1 /\ q' \in Seq(Packet) /\ Len(q') = l - 1
      /\ DOMAIN q = 1..l /\ DOMAIN q' = 1..(l - 1) /\ p = q[1] /\ p \in Packet
      /\ \A k \in 1..(l - 1) : q'[k] = q[k + 1]
  BY <1>1, <1>2 DEF TypeOK
<1>4. toadd = <<>> /\ Len(toadd) = 0 /\ DOMAIN toadd = {}
  BY <1>1, <1>2 DEF CommandsInv
<1>5. /\ Unsent \in Nat /\ Allocated \in Nat /\ Allocated = Unsent + l + Len(toadd)
      /\ l =< MaxAhead
  BY <1>1, <1>4, Counts DEF SenderInv
<1>6. p = P(Unsent) /\ p.data = Unsent /\ p.seq = SeqnumOf(Unsent)
  <2>1. 1 \in DOMAIN q /\ Unsent + 1 - 1 = Unsent
    BY <1>3, <1>5
  <2>2. q[1] = P(Unsent + 1 - 1)
    BY <1>1, <2>1 DEF SenderInv
  <2> QED BY <1>3, <1>5, <2>1, <2>2, PacketFields
<1>7. /\ Allocated' = Allocated
      /\ Unsent' = Unsent + 1
  <2>1. Allocated' = Allocated
    BY <1>2 DEF Allocated
  <2>2. Unsent' = Allocated' - Len(toadd') - Len(q')
    BY DEF Unsent
  <2>3. Len(toadd') = 0 /\ Len(q') = l - 1
    BY <1>2, <1>3, <1>4
  <2> HIDE DEF q, l, p
  <2> QED BY <1>3, <1>4, <1>5, <2>1, <2>2, <2>3
<1>8. \A r \in reliablesSent : /\ r = P(r.data) /\ r.data \in Nat /\ r.data < Unsent
                              /\ r.seq = SeqnumOf(r.data) /\ Allocated - r.data =< MaxAhead
  <2> TAKE r \in reliablesSent
  <2>1. r \in Packet
    BY <1>1 DEF TypeOK
  <2>2. r = P(r.data) /\ r.data < Unsent /\ Allocated - r.data =< MaxAhead
    BY <1>1 DEF SenderInv
  <2> QED BY <2>1, <2>2, PacketFields
<1>9. reliablesSent' = reliablesSent \union {p}
  <2>1. Distance(OutgoingBase, p.seq) = MaxReliableWindow - l
    <3>1. Unsent =< Allocated /\ Allocated - Unsent =< MaxAhead /\ Allocated - Unsent = l
      BY <1>3, <1>4, <1>5
    <3> HIDE DEF l
    <3> QED BY <1>1, <1>5, <1>6, <3>1, SentDistance
  <2>2. OutgoingBase \in Seqnum /\ p.seq \in Seqnum
    <3>1. nextOutgoing - MaxReliableWindow \in Int
      BY <1>1, Sizes DEF TypeOK, Seqnum
    <3> QED BY <1>3, <3>1, DivMod, PacketFields DEF OutgoingBase, Wrap, Seqnum, M
  <2>3. SeqnumInWindow(p.seq, OutgoingBase, MaxReliableWindow)
    BY <1>3, <2>1, <2>2, InWindowIsDistance, Sizes
  <2>4. p.seq # OutgoingBase
    <3>1. Distance(OutgoingBase, OutgoingBase) = 0
      BY <2>2, DistanceCases DEF Seqnum
    <3> QED BY <1>3, <1>5, <2>1, <3>1, Sizes
  <2>5. \A r \in reliablesSent : r.seq # p.seq
    <3> TAKE r \in reliablesSent
    <3>1. Unsent - r.data < M /\ r.data - Unsent < M /\ r.data # Unsent
      <4>1. r.data \in Nat /\ r.data < Unsent /\ Allocated - r.data =< MaxAhead
        BY <1>8
      <4>2. Unsent \in Nat /\ Allocated \in Nat /\ Unsent =< Allocated
        BY <1>1, Counts
      <4>3. MaxAhead \in Nat /\ M \in Nat /\ MaxAhead < M
        BY Sizes
      <4> QED BY <4>1, <4>2, <4>3
    <3> QED BY <1>5, <1>6, <1>8, <3>1, NumberTellsPacket
  <2> QED BY <1>2, <2>3, <2>4, <2>5 DEF BufferInsert
<1>10. TypeOK'
  BY <1>1, <1>2, <1>3, <1>9 DEF TypeOK, receiverVars
<1>11. CommandsInv'
  BY <1>1, <1>2 DEF CommandsInv
<1>12. SenderInv'
  <2>1. Unsent' >= 0 /\ nextOutgoing' = SeqnumOf(Allocated') /\ Len(q') + Len(toadd') =< MaxAhead
    <3>1. nextOutgoing = SeqnumOf(Allocated)
      BY <1>1 DEF SenderInv
    <3> QED BY <1>2, <1>3, <1>4, <1>5, <1>7, <3>1, Sizes
  <2>2. \A k \in DOMAIN q' : q'[k] = P(Unsent' + k - 1)
    <3> TAKE k \in DOMAIN q'
    <3>1. k + 1 \in DOMAIN q /\ q'[k] = q[k + 1]
      BY <1>3
    <3>2. q[k + 1] = P(Unsent + (k + 1) - 1)
      BY <1>1, <3>1 DEF SenderInv
    <3>3. Unsent + (k + 1) - 1 = Unsent' + k - 1
      BY <1>3, <1>5, <1>7
    <3> QED BY <3>1, <3>2, <3>3
  <2>3. \A r \in reliablesSent' : r = P(r.data) /\ r.data < Unsent'
                                /\ Allocated' - r.data =< MaxAhead
    <3> TAKE r \in reliablesSent'
    <3>1. CASE r \in reliablesSent
      BY <1>5, <1>7, <1>8, <3>1
    <3>2. CASE r = p
      BY <1>3, <1>4, <1>5, <1>6, <1>7, <3>2
    <3> QED BY <1>9, <3>1, <3>2
  <2> QED BY <1>2, <1>4, <2>1, <2>2, <2>3 DEF SenderInv
<1>13. ReceiverInv'
  <2>1. R' = R /\ R \in Nat /\ R =< Unsent
    BY <1>1, <1>2 DEF R, receiverVars, TypeOK, ReceiverInv
  <2>2. \A r \in net' : r = P(r.data) /\ r.data < Unsent'
    <3> TAKE r \in net'
    <3>1. CASE r \in net
      <4>1. r = P(r.data) /\ r.data < Unsent /\ r.data \in Nat
        BY <1>1, <3>1, PacketFields DEF ReceiverInv, TypeOK
      <4> QED BY <1>5, <1>7, <4>1
    <3>2. CASE r = p
      BY <1>5, <1>6, <1>7, <3>2
    <3> QED BY <1>2, <3>1, <3>2
  <2>3. \A a \in acks' : a = P(a.data) /\ a.data < Unsent'
    <3> TAKE a \in acks'
    <3>1. a = P(a.data) /\ a.data < Unsent /\ a.data \in Nat
      BY <1>1, <1>2, PacketFields DEF ReceiverInv, TypeOK
    <3> QED BY <1>5, <1>7, <3>1
  <2>4. \A r \in incoming' : /\ r = P(r.data) /\ r.data < Unsent'
                            /\ R' =< r.data /\ r.data < R' + MaxReliableWindow
    <3> TAKE r \in incoming'
    <3>1. r \in incoming
      BY <1>2 DEF receiverVars
    <3> QED BY <1>5, <1>7, <2>1, <3>1, Buffered
  <2>5. \A i \in R'..(Unsent' - 1) : P(i) \in reliablesSent' \union incoming'
    <3> TAKE i \in R'..(Unsent' - 1)
    <3>1. CASE i = Unsent
      BY <1>6, <1>9, <3>1
    <3>2. CASE i # Unsent
      <4>1. i \in R..(Unsent - 1)
        BY <1>5, <1>7, <2>1, <3>2
      <4>2. P(i) \in reliablesSent \union incoming
        BY <1>1, <4>1 DEF ReceiverInv
      <4> QED BY <1>2, <1>9, <4>2 DEF receiverVars
    <3> QED BY <3>1, <3>2
  <2>6. nextIncoming' = SeqnumOf(R') /\ R' =< Unsent' /\ InOrder' /\ AckedIsHeld'
    BY <1>1, <1>2, <1>5, <1>7, <2>1 DEF ReceiverInv, InOrder, AckedIsHeld, receiverVars
  <2> QED BY <2>2, <2>3, <2>4, <2>5, <2>6 DEF ReceiverInv
<1> QED BY <1>10, <1>11, <1>12, <1>13 DEF IInv

\* A packet is re-sent only while it is unacknowledged.
LEMMA ResendKeepsInv == ASSUME IInv, NEW p \in reliablesSent, ResendReliable(p) PROVE IInv'
<1>1. TypeOK /\ CommandsInv /\ SenderInv /\ ReceiverInv
  BY DEF IInv
<1>2. net' = net \union {p} /\ UNCHANGED <<senderVars, acks, receiverVars>>
  BY DEF ResendReliable
<1>3. p \in Packet /\ p = P(p.data) /\ p.data < Unsent
  BY <1>1 DEF TypeOK, SenderInv
<1>4. TypeOK'
  BY <1>1, <1>2, <1>3 DEF TypeOK, senderVars, receiverVars
<1>5. CommandsInv'
  BY <1>1, <1>2 DEF CommandsInv, senderVars
<1>6. Allocated' = Allocated
  BY <1>2 DEF Allocated, senderVars
<1>7. SenderInv' /\ Unsent' = Unsent
  BY <1>1, <1>2, <1>6, SenderFrame DEF senderVars
<1>8. ReceiverInv'
  <2>1. R' = R
    BY <1>2 DEF R, receiverVars
  <2> QED BY <1>1, <1>2, <1>3, <1>7, <2>1
          DEF ReceiverInv, InOrder, AckedIsHeld, senderVars, receiverVars
<1> QED BY <1>4, <1>5, <1>7, <1>8 DEF IInv

\* The adaptive window takes any of its sizes at any time.
LEMMA WindowKeepsInv == ASSUME IInv, NEW size \in WindowSizes, UpdateWindow(size) PROVE IInv'
<1>1. TypeOK /\ CommandsInv /\ SenderInv /\ ReceiverInv
  BY DEF IInv
<1>2. /\ windowSize' = size
      /\ UNCHANGED <<submitted, queuedCommands, command, toadd, queuedReliables,
                     reliablesSent, nextOutgoing, net, acks, receiverVars>>
  BY DEF UpdateWindow
<1>3. TypeOK'
  BY <1>1, <1>2 DEF TypeOK, receiverVars
<1>4. CommandsInv'
  BY <1>1, <1>2 DEF CommandsInv
<1>5. Allocated' = Allocated
  BY <1>2 DEF Allocated
<1>6. SenderInv' /\ ReceiverInv'
  BY <1>1, <1>2, <1>5, SenderFrame, ReceiverFrame
<1> QED BY <1>3, <1>4, <1>6 DEF IInv

\* popSeqnum takes out the packet the ACK is about, and no other that has its number.
LEMMA AckKeepsInv == ASSUME IInv, NEW a \in acks, HandleAck(a) PROVE IInv'
<1>1. TypeOK /\ CommandsInv /\ SenderInv /\ ReceiverInv
  BY DEF IInv
<1>2. /\ Alive(a) /\ reliablesSent' = {p \in reliablesSent : p.seq # a.seq}
      /\ UNCHANGED <<submitted, queuedCommands, command, toadd, queuedReliables,
                     nextOutgoing, windowSize, net, acks, receiverVars>>
  BY DEF HandleAck
<1>3. /\ Allocated \in Nat /\ Unsent \in Nat /\ Unsent =< Allocated
      /\ Allocated - Unsent =< MaxAhead
  BY <1>1, Counts
<1>4. /\ a.data \in Nat /\ a.seq = SeqnumOf(a.data) /\ a.data < Unsent
      /\ Allocated =< a.data + MaxAge
      /\ a.data < R \/ a \in incoming
  BY <1>1, <1>2, PacketFields DEF TypeOK, ReceiverInv, AckedIsHeld, Alive, R
<1>5. TypeOK'
  BY <1>1, <1>2 DEF TypeOK, receiverVars
<1>6. CommandsInv'
  BY <1>1, <1>2 DEF CommandsInv
<1>7. Allocated' = Allocated
  BY <1>2 DEF Allocated
<1>8. Unsent' = Unsent
  BY <1>2, <1>7 DEF Unsent
<1>9. SenderInv'
  BY <1>1, <1>2, <1>7, <1>8 DEF SenderInv
<1>10. ReceiverInv'
  <2>1. R' = R /\ R \in Nat
    BY <1>1, <1>2 DEF R, receiverVars, TypeOK
  <2>2. \A i \in R..(Unsent - 1) : P(i) \in reliablesSent' \union incoming
    <3> TAKE i \in R..(Unsent - 1)
    <3>1. i \in Nat /\ R =< i /\ i < Unsent
      BY <1>3, <2>1
    <3>2. P(i) \in reliablesSent \union incoming
      BY <1>1 DEF ReceiverInv
    <3>3. CASE P(i) \in incoming
      BY <3>3
    <3>4. CASE P(i) \in reliablesSent /\ i = a.data
      <4>1. a \in incoming
        BY <1>4, <2>1, <3>1, <3>4
      <4> QED BY <1>1, <3>4, <4>1 DEF ReceiverInv
    <3>5. CASE P(i) \in reliablesSent /\ i # a.data
      <4>1. Allocated - P(i).data =< MaxAhead /\ P(i).data = i /\ P(i).seq = SeqnumOf(i)
        BY <1>1, <3>1, <3>5, PacketFields DEF SenderInv
      <4>2. i - a.data < M /\ a.data - i < M
        BY <1>3, <1>4, <3>1, <4>1, Sizes
      <4>3. P(i).seq # a.seq
        BY <1>4, <3>1, <3>5, <4>1, <4>2, NumberTellsPacket
      <4> QED BY <1>2, <3>5, <4>3
    <3> QED BY <3>2, <3>3, <3>4, <3>5
  <2>3. /\ net' = net /\ acks' = acks /\ incoming' = incoming
        /\ nextIncoming' = nextIncoming /\ delivered' = delivered
    BY <1>2 DEF receiverVars
  <2> QED BY <1>1, <1>8, <2>1, <2>2, <2>3 DEF ReceiverInv, InOrder, AckedIsHeld
<1> QED BY <1>5, <1>6, <1>9, <1>10 DEF IInv

\* Taking a datagram or an ACK off the network.
LEMMA LossKeepsInv ==
    ASSUME IInv, net' \subseteq net, acks' \subseteq acks,
           UNCHANGED <<senderVars, receiverVars>>
    PROVE  IInv'
<1>1. TypeOK /\ CommandsInv /\ SenderInv /\ ReceiverInv
  BY DEF IInv
<1>2. TypeOK'
  BY <1>1 DEF TypeOK, senderVars, receiverVars
<1>3. CommandsInv'
  BY <1>1 DEF CommandsInv, senderVars
<1>4. Allocated' = Allocated
  BY DEF Allocated, senderVars
<1>5. SenderInv' /\ Unsent' = Unsent
  BY <1>1, <1>4, SenderFrame DEF senderVars
<1>6. R' = R
  BY DEF R, receiverVars
<1>7. ReceiverInv'
  BY <1>1, <1>5, <1>6 DEF ReceiverInv, InOrder, AckedIsHeld, senderVars, receiverVars
<1> QED BY <1>2, <1>3, <1>5, <1>7 DEF IInv
\* Processing the packet that is expected next, from the socket or from the buffer.
LEMMA DeliverKeepsInv ==
    ASSUME IInv, UNCHANGED <<senderVars, net>>, R < Unsent,
           delivered' = Append(delivered, R),
           nextIncoming' = Wrap(nextIncoming + 1),
           incoming' = {q \in incoming : q.data # R},
           acks' \subseteq acks \union {P(R)}
    PROVE  IInv'
<1>1. TypeOK /\ CommandsInv /\ SenderInv /\ ReceiverInv
  BY DEF IInv
<1>2. /\ R \in Nat /\ Unsent \in Nat /\ R < MaxSubmitted
      /\ delivered \in Seq(0..(MaxSubmitted - 1))
  <2>1. R \in Nat /\ delivered \in Seq(0..(MaxSubmitted - 1))
    BY <1>1 DEF TypeOK, R
  <2>2. /\ Unsent \in Nat /\ Allocated \in Nat /\ submitted \in Nat /\ MaxSubmitted \in Nat
        /\ Allocated =< submitted /\ submitted =< MaxSubmitted
    BY <1>1, Counts, Sizes
  <2>3. Unsent =< Allocated
    BY <1>1, Counts
  <2> QED BY <2>1, <2>2, <2>3
<1>3. P(R) \in Packet /\ P(R).data = R
  BY <1>2, PacketFields
<1>4. R' = R + 1 /\ delivered' \in Seq(0..(MaxSubmitted - 1))
  <2>1. R \in 0..(MaxSubmitted - 1)
    BY <1>2, Sizes
  <2> QED BY <1>2, <2>1 DEF R
<1>5. nextIncoming' = SeqnumOf(R + 1) /\ nextIncoming' \in Seqnum
  <2>1. nextIncoming = SeqnumOf(R)
    BY <1>1 DEF ReceiverInv
  <2> QED BY <1>2, <2>1, SeqnumOfNext, SeqnumOfType
<1>6. TypeOK'
  BY <1>1, <1>3, <1>4, <1>5 DEF TypeOK, senderVars
<1>7. CommandsInv'
  BY <1>1 DEF CommandsInv, senderVars
<1>8. Allocated' = Allocated
  BY DEF Allocated, senderVars
<1>9. SenderInv' /\ Unsent' = Unsent
  BY <1>1, <1>8, SenderFrame DEF senderVars
<1>10. InOrder'
  <2>1. \A k \in 1..R : delivered[k] = k - 1
    BY <1>1, <1>2 DEF ReceiverInv, InOrder, R
  <2>2. /\ DOMAIN delivered' = 1..(R + 1) /\ delivered'[R + 1] = R
        /\ \A k \in 1..R : delivered'[k] = delivered[k]
    BY <1>2 DEF R
  <2>3. \A k \in 1..(R + 1) : delivered'[k] = k - 1
    BY <1>2, <2>1, <2>2
  <2> QED BY <2>2, <2>3 DEF InOrder
<1>11. \A r \in incoming' : /\ r = P(r.data) /\ r.data < Unsent
                           /\ R + 1 =< r.data /\ r.data < R + 1 + MaxReliableWindow
  <2> TAKE r \in incoming'
  <2>1. r \in incoming /\ r.data # R
    OBVIOUS
  <2> QED BY <1>2, <2>1, Buffered, Sizes
<1>12. \A a \in acks' : /\ a = P(a.data) /\ a.data < Unsent
                        /\ a.data < R + 1 \/ a \in incoming'
  <2> TAKE a \in acks'
  <2>1. CASE a = P(R)
    BY <1>2, <1>3, <2>1
  <2>2. CASE a \in acks
    <3>1. /\ a = P(a.data) /\ a.data < Unsent /\ a.data \in Nat
          /\ a.data < R \/ a \in incoming
      BY <1>1, <2>2, PacketFields DEF TypeOK, ReceiverInv, AckedIsHeld, R
    <3>2. a.data = R => a.data < R + 1
      BY <1>2
    <3>3. a.data < R => a.data < R + 1
      BY <1>2, <3>1
    <3> QED BY <3>1, <3>2, <3>3
  <2> QED BY <2>1, <2>2
<1>13. \A i \in (R + 1)..(Unsent - 1) : P(i) \in reliablesSent \union incoming'
  <2> TAKE i \in (R + 1)..(Unsent - 1)
  <2>1. i \in R..(Unsent - 1) /\ i \in Nat /\ i # R
    BY <1>2
  <2>2. P(i) \in reliablesSent \union incoming
    BY <1>1, <2>1 DEF ReceiverInv
  <2>3. P(i).data = i
    BY <2>1, PacketFields
  <2> QED BY <2>1, <2>2, <2>3
<1>14. ReceiverInv'
  <2>1. nextIncoming' = SeqnumOf(R') /\ R' =< Unsent'
    BY <1>2, <1>4, <1>5, <1>9
  <2>2. AckedIsHeld'
    BY <1>4, <1>12 DEF AckedIsHeld, R
  <2>3. \A r \in net' : r = P(r.data) /\ r.data < Unsent'
    BY <1>1, <1>9 DEF ReceiverInv
  <2>4. reliablesSent' = reliablesSent
    BY DEF senderVars
  <2> QED BY <1>4, <1>9, <1>10, <1>11, <1>12, <1>13, <2>1, <2>2, <2>3, <2>4 DEF ReceiverInv
<1> QED BY <1>6, <1>7, <1>9, <1>14 DEF IInv

\* handlePacketType_Reliable on any datagram still alive.
LEMMA ReceiveKeepsInv == ASSUME IInv, NEW p \in net, ReceiveReliable(p) PROVE IInv'
<1>1. TypeOK /\ CommandsInv /\ SenderInv /\ ReceiverInv
  BY DEF IInv
<1>2. /\ Alive(p) /\ ~CanUnbuffer /\ UNCHANGED <<senderVars, net>>
      /\ ReceiveNext(p) \/ ReceiveAhead(p) \/ ReceiveOutside(p)
  BY DEF ReceiveReliable
<1>3. /\ p \in Packet /\ p.data \in Nat /\ p = P(p.data) /\ p.seq = SeqnumOf(p.data)
      /\ p.data < Unsent /\ p.data - R < MaxReliableWindow
      /\ p.seq = nextIncoming <=> p.data = R
      /\ InReceiveWindow(p) <=> p.data >= R
  BY <1>2, NumbersTell
<1>4. R \in Nat /\ nextIncoming \in Seqnum
  BY <1>1 DEF TypeOK, R
<1>5. Unsent \in Nat
  BY <1>1, Counts
<1>6. CASE ReceiveNext(p)
  <2>1. p.data = R /\ delivered' = Append(delivered, R) /\ acks' = acks \union {P(R)}
        /\ nextIncoming' = Wrap(nextIncoming + 1)
    BY <1>3, <1>6 DEF ReceiveNext
  <2>2. incoming' = {q \in incoming : q.data # R}
    BY <1>6, Buffered DEF ReceiveNext
  <2> QED BY <1>2, <1>3, <2>1, <2>2, DeliverKeepsInv
<1>7. CASE ReceiveAhead(p) \/ ReceiveOutside(p)
  <2>1. /\ delivered' = delivered /\ nextIncoming' = nextIncoming
        /\ acks' \subseteq acks \union {p}
        /\ incoming' \subseteq incoming \union {p} /\ incoming \subseteq incoming'
    BY <1>7 DEF ReceiveAhead, ReceiveOutside, BufferInsert, receiverVars
  <2>2. p.data < R \/ p \in incoming'
    <3>1. CASE ReceiveOutside(p)
      BY <1>3, <1>4, <3>1 DEF ReceiveOutside
    <3>2. CASE ReceiveAhead(p)
      <4>1. /\ p.seq # nextIncoming /\ SeqnumInWindow(p.seq, nextIncoming, MaxReliableWindow)
            /\ p.data > R /\ incoming' = BufferInsert(incoming, p, nextIncoming)
        BY <1>3, <1>4, <3>2 DEF ReceiveAhead, InReceiveWindow
      <4>2. CASE \A q \in incoming : q.seq # p.seq
        BY <4>1, <4>2 DEF BufferInsert
      <4>3. CASE \E q \in incoming : q.seq = p.seq
        <5>1. PICK q \in incoming : q.seq = p.seq
          BY <4>3
        <5>2. /\ q.data \in Nat /\ q = P(q.data) /\ q.seq = SeqnumOf(q.data)
              /\ R =< q.data /\ q.data < R + MaxReliableWindow
          BY Buffered
        <5>3. q.data - p.data < M /\ p.data - q.data < M
          BY <1>3, <1>4, <4>1, <5>2, Sizes
        <5>4. q.data = p.data
          BY <1>3, <5>1, <5>2, <5>3, NumberTellsPacket
        <5> QED BY <1>3, <2>1, <5>2, <5>4
      <4> QED BY <4>2, <4>3
    <3> QED BY <1>7, <3>1, <3>2
  <2>3. p \in incoming' => p \in incoming \/ p.data >= R
    <3>1. CASE ReceiveOutside(p)
      BY <3>1 DEF ReceiveOutside, receiverVars
    <3>2. CASE ReceiveAhead(p)
      BY <1>3, <3>2 DEF ReceiveAhead
    <3> QED BY <1>7, <3>1, <3>2
  <2>4. TypeOK'
    BY <1>1, <1>2, <1>3, <2>1 DEF TypeOK, senderVars
  <2>5. CommandsInv'
    BY <1>1, <1>2 DEF CommandsInv, senderVars
  <2>6. Allocated' = Allocated
    BY <1>2 DEF Allocated, senderVars
  <2>7. SenderInv' /\ Unsent' = Unsent
    BY <1>1, <1>2, <2>6, SenderFrame DEF senderVars
  <2>8. R' = R
    BY <2>1 DEF R
  <2>9. ReceiverInv'
    <3>1. \A r \in incoming' : /\ r = P(r.data) /\ r.data < Unsent
                              /\ R =< r.data /\ r.data < R + MaxReliableWindow
      <4> TAKE r \in incoming'
      <4>1. CASE r \in incoming
        BY <4>1, Buffered
      <4>2. CASE r = p /\ r \notin incoming
        BY <1>3, <1>4, <2>3, <4>2, Sizes
      <4> QED BY <2>1, <4>1, <4>2
    <3>2. \A a \in acks' : /\ a = P(a.data) /\ a.data < Unsent
                           /\ a.data < R \/ a \in incoming'
      <4> TAKE a \in acks'
      <4>1. CASE a \in acks
        BY <1>1, <2>1, <4>1 DEF ReceiverInv, AckedIsHeld, R
      <4>2. CASE a = p
        BY <1>3, <2>2, <4>2
      <4> QED BY <2>1, <4>1, <4>2
    <3>3. AckedIsHeld'
      BY <2>1, <3>2 DEF AckedIsHeld, R
    <3>4. InOrder'
      BY <1>1, <2>1 DEF ReceiverInv, InOrder
    <3>5. \A i \in R..(Unsent - 1) : P(i) \in reliablesSent \union incoming'
      BY <1>1, <2>1 DEF ReceiverInv
    <3>6. net' = net /\ reliablesSent' = reliablesSent
      BY <1>2 DEF senderVars
    <3> QED BY <1>1, <2>1, <2>7, <2>8, <3>1, <3>2, <3>3, <3>4, <3>5, <3>6 DEF ReceiverInv
  <2> QED BY <2>4, <2>5, <2>7, <2>9 DEF IInv
<1> QED BY <1>2, <1>6, <1>7

\* The front of the sorted buffer is the packet expected next.
LEMMA UnbufferDelivers ==
    ASSUME IInv, Unbuffer
    PROVE  /\ R < Unsent /\ delivered' = Append(delivered, R)
           /\ incoming' = {q \in incoming : q.data # R}
<1> DEFINE p == FirstPacket(incoming, nextIncoming)
<1>1. PICK e \in incoming : e.seq = nextIncoming
  BY DEF Unbuffer, CanUnbuffer
<1>2. nextIncoming = SeqnumOf(R) /\ R \in Nat
  BY DEF IInv, ReceiverInv, TypeOK, R
<1>3. \A q \in incoming : Distance(nextIncoming, q.seq) = q.data - R
  <2> TAKE q \in incoming
  <2>1. /\ q.data \in Nat /\ q.seq = SeqnumOf(q.data)
        /\ R =< q.data /\ q.data < R + MaxReliableWindow
    BY Buffered
  <2>2. q.data - R \in 0..SeqnumMax /\ R + (q.data - R) = q.data
    BY <1>2, <2>1, Sizes
  <2> QED BY <1>2, <2>1, <2>2, DistanceOfPackets
<1>4. \A q \in incoming : q.data \in Nat /\ R =< q.data
  BY Buffered
<1>5. e.data = R
  BY <1>1, Buffered
<1>6. \A q \in incoming : Distance(nextIncoming, e.seq) =< Distance(nextIncoming, q.seq)
  BY <1>2, <1>3, <1>4, <1>5
<1>7. p \in incoming /\ \A q \in incoming :
            Distance(nextIncoming, p.seq) =< Distance(nextIncoming, q.seq)
  BY <1>6, Zenon DEF FirstPacket
<1>8. /\ incoming' = incoming \ {p} /\ delivered' = Append(delivered, p.data)
      /\ nextIncoming' = Wrap(nextIncoming + 1) /\ UNCHANGED <<senderVars, net, acks>>
  BY DEF Unbuffer
<1> HIDE DEF p
<1>9. p.data = R
  BY <1>2, <1>3, <1>4, <1>5, <1>7
<1>10. incoming' = {q \in incoming : q.data # R}
  <2>1. \A q \in incoming : q = P(q.data)
    BY Buffered
  <2>2. \A q \in incoming : q.data = R <=> q = p
    BY <1>7, <1>9, <2>1
  <2> QED BY <1>8, <2>2
<1>11. R < Unsent
  BY <1>5, Buffered
<1> QED BY <1>8, <1>9, <1>10, <1>11

\* checkIncomingBuffers hands out the packet that is next, as if it had just arrived.
LEMMA UnbufferKeepsInv == ASSUME IInv, Unbuffer PROVE IInv'
<1>1. nextIncoming' = Wrap(nextIncoming + 1) /\ UNCHANGED <<senderVars, net, acks>>
  BY DEF Unbuffer
<1> QED BY <1>1, UnbufferDelivers, DeliverKeepsInv

-----------------------------------------------------------------------------
(* The invariant, and what follows from it.                                 *)

\* Every step of the two threads and the network keeps the inductive invariant.
LEMMA StepKeepsInv == IInv /\ [Next]_vars => IInv'
<1> SUFFICES ASSUME IInv, [Next]_vars PROVE IInv'
  OBVIOUS
<1>1. ASSUME NEW n \in 1..MaxChunks, PutReliableSendCommand(n) PROVE IInv'
  BY <1>1, PutKeepsInv
<1>2. CASE RunCommandQueues
  BY <1>2, RunKeepsInv
<1>3. CASE AllocateSeqnum
  BY <1>3, AllocateKeepsInv
<1>4. CASE QueuePackets
  BY <1>4, QueueKeepsInv
<1>5. CASE PutBackSeqnums
  BY <1>5, PutBackKeepsInv
<1>6. CASE SendQueued
  BY <1>6, SendKeepsInv
<1>7. ASSUME NEW p \in reliablesSent, ResendReliable(p) PROVE IInv'
  BY <1>7, ResendKeepsInv
<1>8. ASSUME NEW size \in WindowSizes, UpdateWindow(size) PROVE IInv'
  BY <1>8, WindowKeepsInv
<1>9. ASSUME NEW a \in acks, HandleAck(a) PROVE IInv'
  BY <1>9, AckKeepsInv
<1>10. ASSUME NEW p \in net, LoseData(p) PROVE IInv'
  BY <1>10, LossKeepsInv DEF LoseData
<1>11. ASSUME NEW a \in acks, LoseAck(a) PROVE IInv'
  BY <1>11, LossKeepsInv DEF LoseAck
<1>12. ASSUME NEW p \in net, ReceiveReliable(p) PROVE IInv'
  BY <1>12, ReceiveKeepsInv
<1>13. CASE Unbuffer
  BY <1>13, UnbufferKeepsInv
<1>14. CASE UNCHANGED vars
  <2>1. net' \subseteq net /\ acks' \subseteq acks /\ UNCHANGED <<senderVars, receiverVars>>
    BY <1>14 DEF vars
  <2> QED BY <2>1, LossKeepsInv
<1> QED BY <1>1, <1>2, <1>3, <1>4, <1>5, <1>6, <1>7, <1>8, <1>9, <1>10, <1>11, <1>12,
           <1>13, <1>14 DEF Next

\* The inductive invariant: numbers and positions agree everywhere, and the stretch
\* of the stream that the sender is working on is shorter than the receive window.
THEOREM Invariant == Spec => []IInv
<1>1. Init => IInv
  BY InitHolds
<1>2. IInv /\ [Next]_vars => IInv'
  BY StepKeepsInv
<1> QED BY <1>1, <1>2, PTL DEF Spec

\* Every variable of the channel keeps its type, for every size of the space.
THEOREM TypeCorrect == Spec => []TypeOK
<1>1. IInv => TypeOK
  BY DEF IInv
<1> QED BY <1>1, Invariant, PTL

\* The receiver processes the stream in order, each packet once, none left out.
THEOREM Order == Spec => []InOrder
<1>1. IInv => InOrder
  BY DEF IInv, ReceiverInv
<1> QED BY <1>1, Invariant, PTL

\* The receiver never acknowledges a packet it neither processed nor kept.
THEOREM Acknowledged == Spec => []AckedIsHeld
<1>1. IInv => AckedIsHeld
  BY DEF IInv, ReceiverInv
<1> QED BY <1>1, Invariant, PTL

\* When the receiver looks at the socket, seqnum_in_window decides what is new.
THEOREM WindowCorrect == Spec => []WindowTellsNewFromOld
<1>1. IInv => WindowTellsNewFromOld
  BY NumbersTell DEF WindowTellsNewFromOld, R
<1> QED BY <1>1, Invariant, PTL

\* No packet that has a number is forgotten by both sides.
THEOREM Remembered == Spec => []NothingForgotten
<1>1. ASSUME IInv, NEW i \in Len(delivered)..(Allocated - 1)
      PROVE  \E p \in Held \union incoming : p.data = i
  <2> DEFINE l == Len(queuedReliables)
             n == Len(toadd)
  <2>1. /\ Unsent \in Nat /\ Allocated \in Nat /\ Allocated = Unsent + l + n
        /\ l \in Nat /\ n \in Nat /\ R \in Nat /\ R =< i /\ i < Allocated /\ i \in Nat
        /\ DOMAIN queuedReliables = 1..l /\ DOMAIN toadd = 1..n
    <3>1. Len(delivered) \in Nat /\ TypeOK
      BY <1>1 DEF IInv, TypeOK
    <3>2. /\ Unsent \in Nat /\ Allocated \in Nat /\ Allocated = Unsent + l + n
          /\ l \in Nat /\ n \in Nat
      BY <1>1, Counts DEF IInv
    <3> QED BY <3>1, <3>2 DEF R, TypeOK
  <2>2. CASE i < Unsent
    <3>1. P(i) \in reliablesSent \union incoming
      BY <1>1, <2>1, <2>2 DEF IInv, ReceiverInv
    <3> QED BY <2>1, <3>1, PacketFields DEF Held
  <2>3. CASE Unsent =< i /\ i < Unsent + l
    <3>1. (i - Unsent) + 1 \in DOMAIN queuedReliables
          /\ Unsent + ((i - Unsent) + 1) - 1 = i
      BY <2>1, <2>3
    <3>2. queuedReliables[(i - Unsent) + 1] = P(i)
      BY <1>1, <3>1 DEF IInv, SenderInv
    <3> QED BY <2>1, <3>1, <3>2, PacketFields DEF Held
  <2>4. CASE Unsent + l =< i
    <3>1. (i - (Unsent + l)) + 1 \in DOMAIN toadd
          /\ Unsent + l + ((i - (Unsent + l)) + 1) - 1 = i
      BY <2>1, <2>4
    <3>2. toadd[(i - (Unsent + l)) + 1] = P(i)
      BY <1>1, <3>1 DEF IInv, SenderInv
    <3> QED BY <2>1, <3>1, <3>2, PacketFields DEF Held
  <2> HIDE DEF l, n
  <2> QED BY <2>1, <2>2, <2>3, <2>4
<1>2. IInv => NothingForgotten
  BY <1>1 DEF NothingForgotten
<1> QED BY <1>2, Invariant, PTL
-----------------------------------------------------------------------------
(* The channel implements the FIFO.                                         *)

\* Handing a packet to the reader of the FIFO.
LEMMA DeliverIsDeliver ==
    ASSUME IInv, R < Unsent, delivered' = Append(delivered, R), submitted' = submitted
    PROVE  Fifo!Deliver
<1>1. /\ Unsent \in Nat /\ Allocated \in Nat /\ Unsent =< Allocated /\ Allocated =< submitted
      /\ submitted \in Nat
  BY Counts DEF IInv
<1>2. R \in Nat
  BY DEF IInv, TypeOK, R
<1>3. Len(delivered) < submitted
  BY <1>1, <1>2 DEF R
<1> QED BY <1>3 DEF Fifo!Deliver, R

\* Every step is a Submit or a Deliver of the FIFO, or invisible to it.
LEMMA StepImplementsFifo == IInv /\ [Next]_vars => [Fifo!Next]_(Fifo!vars)
<1> SUFFICES ASSUME IInv, [Next]_vars PROVE [Fifo!Next]_(Fifo!vars)
  OBVIOUS
<1> USE DEF Fifo!vars
<1>1. ASSUME NEW n \in 1..MaxChunks, PutReliableSendCommand(n) PROVE Fifo!Next
  <2>1. Fifo!Submit(n)
    BY <1>1 DEF PutReliableSendCommand, Fifo!Submit, receiverVars
  <2> QED BY <2>1 DEF Fifo!Next
<1>2. CASE RunCommandQueues
  BY <1>2 DEF RunCommandQueues, receiverVars
<1>3. CASE AllocateSeqnum
  BY <1>3 DEF AllocateSeqnum, receiverVars
<1>4. CASE QueuePackets
  BY <1>4 DEF QueuePackets, receiverVars
<1>5. CASE PutBackSeqnums
  BY <1>5 DEF PutBackSeqnums, receiverVars
<1>6. CASE SendQueued
  BY <1>6 DEF SendQueued, receiverVars
<1>7. ASSUME NEW p \in reliablesSent, ResendReliable(p) PROVE UNCHANGED Fifo!vars
  BY <1>7 DEF ResendReliable, senderVars, receiverVars
<1>8. ASSUME NEW size \in WindowSizes, UpdateWindow(size) PROVE UNCHANGED Fifo!vars
  BY <1>8 DEF UpdateWindow, receiverVars
<1>9. ASSUME NEW a \in acks, HandleAck(a) PROVE UNCHANGED Fifo!vars
  BY <1>9 DEF HandleAck, receiverVars
<1>10. ASSUME NEW p \in net, LoseData(p) PROVE UNCHANGED Fifo!vars
  BY <1>10 DEF LoseData, senderVars, receiverVars
<1>11. ASSUME NEW a \in acks, LoseAck(a) PROVE UNCHANGED Fifo!vars
  BY <1>11 DEF LoseAck, senderVars, receiverVars
<1>12. ASSUME NEW p \in net, ReceiveReliable(p) PROVE [Fifo!Next]_(Fifo!vars)
  <2>1. /\ Alive(p) /\ ~CanUnbuffer /\ UNCHANGED <<senderVars, net>>
        /\ ReceiveNext(p) \/ ReceiveAhead(p) \/ ReceiveOutside(p)
    BY <1>12 DEF ReceiveReliable
  <2>2. CASE ReceiveNext(p)
    <3>1. p.data = R /\ R < Unsent /\ delivered' = Append(delivered, p.data)
      BY <2>1, <2>2, NumbersTell DEF ReceiveNext
    <3>2. submitted' = submitted
      BY <2>1 DEF senderVars
    <3> QED BY <3>1, <3>2, DeliverIsDeliver DEF Fifo!Next
  <2>3. CASE ReceiveAhead(p)
    BY <2>1, <2>3 DEF ReceiveAhead, senderVars
  <2>4. CASE ReceiveOutside(p)
    BY <2>1, <2>4 DEF ReceiveOutside, senderVars, receiverVars
  <2> QED BY <2>1, <2>2, <2>3, <2>4
<1>13. CASE Unbuffer
  <2>1. R < Unsent /\ delivered' = Append(delivered, R) /\ submitted' = submitted
    BY <1>13, UnbufferDelivers DEF Unbuffer, senderVars
  <2> QED BY <2>1, DeliverIsDeliver DEF Fifo!Next
<1>14. CASE UNCHANGED vars
  BY <1>14 DEF vars, senderVars, receiverVars
<1> QED BY <1>1, <1>2, <1>3, <1>4, <1>5, <1>6, <1>7, <1>8, <1>9, <1>10, <1>11, <1>12,
           <1>13, <1>14 DEF Next

\* The channel is a FIFO of packets: each step of the code is a step of the FIFO or
\* invisible to its users.
THEOREM Refinement == Spec => ImplementsFifo
<1>1. Init => Fifo!Init
  BY DEF Init, Fifo!Init
<1>2. IInv /\ [Next]_vars => [Fifo!Next]_(Fifo!vars)
  BY StepImplementsFifo
<1> QED BY <1>1, <1>2, Invariant, PTL DEF Spec, Fifo!Spec, ImplementsFifo
=============================================================================
