------------------------------ MODULE MtpChannel ------------------------------
(****************************************************************************)
(* One direction of one reliable channel of the MTP transport: the sending  *)
(* half of a UDPPeer's Channel (driven by ConnectionSendThread), the        *)
(* datagram network between two hosts, and the receiving half of the other  *)
(* host's Channel (driven by ConnectionReceiveThread).                      *)
(*                                                                          *)
(* The send thread and the receive thread of one host share the Channel     *)
(* without a common lock: only the packet buffers and the counters have     *)
(* one.  An ACK therefore takes a packet out of outgoing_reliables_sent     *)
(* between any two steps of the send thread, also between the allocation    *)
(* of two sequence numbers of one command.                                  *)
(*                                                                          *)
(* A packet is [seq, data]: the 16 bit number on the wire and the position  *)
(* of its payload in the stream of packets handed to Connection::Send.  No  *)
(* code looks at data; the properties use it to say what was delivered.     *)
(*                                                                          *)
(* Channel 0 also carries PING and SET_PEER_ID, which take a sequence       *)
(* number outside the command queue; this module is channels 1 and 2.       *)
(****************************************************************************)
EXTENDS MtpSeqnum, Sequences, FiniteSets

CONSTANTS
    WindowSizes,      \* sizes setWindowSize can leave (32..2048 in the code)
    MaxRequeued,      \* m_max_packets_requeued (256)
    MaxChunks,        \* most packets one command is split into
    MaxAhead,         \* how far allocation can run ahead of the oldest unacked
    MaxAge,           \* lifetime of a datagram, in packets of the channel
    MaxSubmitted,     \* bound: packets handed to Send altogether
    Lossy             \* whether a datagram can be taken off the network

\* MaxAhead covers what the code allows: a command behind a queue that is just
\* short of its limit, or the window and the two numbers by which
\* getOutgoingSequenceNumber can overshoot it.  It has to stay below the receive
\* window, and a datagram must not survive until its number means another packet.
ASSUME ChannelAssumption ==
    /\ WindowSizes \subseteq Nat /\ WindowSizes # {}
    /\ MaxRequeued \in Nat \ {0}
    /\ MaxChunks \in Nat \ {0}
    /\ MaxAhead \in Nat
    /\ MaxRequeued + MaxChunks =< MaxAhead
    /\ \A w \in WindowSizes : w + 2 =< MaxAhead /\ (w \div 2) + MaxChunks =< MaxAhead
    /\ MaxAhead < MaxReliableWindow
    /\ MaxAge \in Nat
    /\ MaxAhead =< MaxAge
    /\ MaxAge + MaxReliableWindow =< SeqnumMax + 1
    /\ MaxSubmitted \in Nat
    /\ Lossy \in BOOLEAN

VARIABLES
    \* the sending half
    submitted,        \* packets handed to Send so far
    queuedCommands,   \* Channel::queued_commands
    command,          \* the command processReliableSendCommand works on, or NoCommand
    toadd,            \* its packets so far
    queuedReliables,  \* Channel::queued_reliables
    reliablesSent,    \* Channel::outgoing_reliables_sent
    nextOutgoing,     \* Channel::next_outgoing_seqnum
    windowSize,       \* Channel::m_window_size
    \* the network
    net,              \* datagrams under way to the receiver
    acks,             \* acknowledgements under way to the sender
    \* the receiving half
    nextIncoming,     \* Channel::next_incoming_seqnum
    incoming,         \* Channel::incoming_reliables
    delivered         \* packets processed (positions in the stream), in order

senderVars == <<submitted, queuedCommands, command, toadd, queuedReliables,
                reliablesSent, nextOutgoing, windowSize>>
receiverVars == <<nextIncoming, incoming, delivered>>
vars == <<senderVars, net, acks, receiverVars>>

Packet == [seq : Seqnum, data : 0..(MaxSubmitted - 1)]
Command == [first : Nat, size : 1..MaxChunks, requeued : BOOLEAN]
NoCommand == [first |-> 0, size |-> 0, requeued |-> FALSE]

(****************************************************************************)
(* ReliablePacketBuffer: a list of packets sorted by their distance from a  *)
(* base (the next expected number), so the set of them says it all.         *)
(****************************************************************************)

\* getFirstSeqnum: the front of the sorted list.
FirstPacket(buffer, base) ==
    CHOOSE p \in buffer : \A q \in buffer :
        Distance(base, p.seq) =< Distance(base, q.seq)

\* insert: outside the window, next expected or already there: not stored.
BufferInsert(buffer, p, base) ==
    IF /\ SeqnumInWindow(p.seq, base, MaxReliableWindow)
       /\ p.seq # base
       /\ \A q \in buffer : q.seq # p.seq
    THEN buffer \union {p}
    ELSE buffer

\* The base sendAsPacketReliable computes: (next - window) % (window + 1) of C++
\* is the number half the space behind.
OutgoingBase == Wrap(nextOutgoing - MaxReliableWindow)

(****************************************************************************)
(* The send thread.  It is one thread: a step other than the allocation     *)
(* itself happens only while no command is being processed.                 *)
(****************************************************************************)
Init ==
    /\ submitted = 0
    /\ queuedCommands = <<>>
    /\ command = NoCommand
    /\ toadd = <<>>
    /\ queuedReliables = <<>>
    /\ reliablesSent = {}
    /\ nextOutgoing = SeqnumInitial
    /\ windowSize \in WindowSizes
    /\ net = {}
    /\ acks = {}
    /\ nextIncoming = SeqnumInitial
    /\ incoming = {}
    /\ delivered = <<>>

\* The command overtakes those waiting when there is room for its packets.
PutOvertaking(n) ==
    /\ command = NoCommand
    /\ submitted + n =< MaxSubmitted
    /\ submitted' = submitted + n
    /\ LET c == [first |-> submitted, size |-> n, requeued |-> FALSE]
       IN  IF Len(queuedReliables) + 1 < windowSize \div 2
           THEN command' = c /\ UNCHANGED queuedCommands
           ELSE queuedCommands' = Append(queuedCommands, c) /\ UNCHANGED command
    /\ UNCHANGED <<toadd, queuedReliables, reliablesSent, nextOutgoing, windowSize,
                   net, acks, receiverVars>>

\* UDPPeer::PutReliableSendCommand: processed at once, or queued behind others.
PutReliableSendCommand(n) ==
    /\ command = NoCommand
    /\ submitted + n =< MaxSubmitted
    /\ submitted' = submitted + n
    /\ LET c == [first |-> submitted, size |-> n, requeued |-> FALSE]
       IN  IF /\ queuedCommands = <<>>
              /\ Len(queuedReliables) + 1 < windowSize \div 2
           THEN command' = c /\ UNCHANGED queuedCommands
           ELSE queuedCommands' = Append(queuedCommands, c) /\ UNCHANGED command
    /\ UNCHANGED <<toadd, queuedReliables, reliablesSent, nextOutgoing, windowSize,
                   net, acks, receiverVars>>

\* UDPPeer::RunCommandQueues: once per iteration, the oldest command is retried.
RunCommandQueues ==
    /\ command = NoCommand
    /\ queuedCommands # <<>>
    /\ Len(queuedReliables) < MaxRequeued
    /\ command' = [Head(queuedCommands) EXCEPT !.requeued = TRUE]
    /\ UNCHANGED <<submitted, queuedCommands, toadd, queuedReliables, reliablesSent,
                   nextOutgoing, windowSize, net, acks, receiverVars>>

\* Nothing limits how far the numbers run ahead of the oldest unacknowledged one.
SeqnumAlwaysAvailable == TRUE

\* The window holds even when nothing is on the wire.
SeqnumAvailableNoShortcut ==
    /\ reliablesSent # {} =>
        LET lowest == FirstPacket(reliablesSent, OutgoingBase).seq
        IN  IF lowest < nextOutgoing
            THEN nextOutgoing - lowest =< windowSize
            ELSE nextOutgoing + (SeqnumMax - lowest) =< windowSize
    /\ Len(toadd) < windowSize

\* Channel::getOutgoingSequenceNumber succeeds.  The second branch, past the wrap,
\* counts one number less than the first.
SeqnumAvailable ==
    reliablesSent # {} =>
        LET lowest == FirstPacket(reliablesSent, OutgoingBase).seq
        IN  IF lowest < nextOutgoing
            THEN nextOutgoing - lowest =< windowSize
            ELSE nextOutgoing + (SeqnumMax - lowest) =< windowSize

\* processReliableSendCommand, one turn of its loop: a number for one more chunk.
AllocateSeqnum ==
    /\ Len(toadd) < command.size
    /\ SeqnumAvailable
    /\ toadd' = Append(toadd, [seq |-> nextOutgoing, data |-> command.first + Len(toadd)])
    /\ nextOutgoing' = Wrap(nextOutgoing + 1)
    /\ UNCHANGED <<submitted, queuedCommands, command, queuedReliables, reliablesSent,
                   windowSize, net, acks, receiverVars>>

\* All chunks have a number: the packets are queued.
QueuePackets ==
    /\ command # NoCommand
    /\ Len(toadd) = command.size
    /\ queuedReliables' = queuedReliables \o toadd
    /\ toadd' = <<>>
    /\ command' = NoCommand
    /\ queuedCommands' = IF command.requeued THEN Tail(queuedCommands) ELSE queuedCommands
    /\ UNCHANGED <<submitted, reliablesSent, nextOutgoing, windowSize, net, acks,
                   receiverVars>>

\* Numbers ran out: every one is put back (putBackSequenceNumber, newest first)
\* and the command stays, or goes, at the end of the queue.
PutBackSeqnums ==
    /\ Len(toadd) < command.size
    /\ ~SeqnumAvailable
    /\ nextOutgoing' = IF toadd = <<>> THEN nextOutgoing ELSE Head(toadd).seq
    /\ toadd' = <<>>
    /\ command' = NoCommand
    /\ queuedCommands' = IF command.requeued THEN queuedCommands
                         ELSE Append(queuedCommands, command)
    /\ UNCHANGED <<submitted, queuedReliables, reliablesSent, windowSize, net, acks,
                   receiverVars>>

\* sendPackets: the next queued packet goes out while the window has room.  The
\* quota may end the loop before any packet, so the step is never forced.
SendQueued ==
    /\ command = NoCommand
    /\ queuedReliables # <<>>
    /\ Cardinality(reliablesSent) < windowSize
    /\ queuedReliables' = Tail(queuedReliables)
    /\ reliablesSent' = BufferInsert(reliablesSent, Head(queuedReliables), OutgoingBase)
    /\ net' = net \union {Head(queuedReliables)}
    /\ UNCHANGED <<submitted, queuedCommands, command, toadd, nextOutgoing, windowSize,
                   acks, receiverVars>>

\* runTimeouts: the re-send timer of a packet that was not acknowledged ran out.
ResendReliable(p) ==
    /\ command = NoCommand
    /\ p \in reliablesSent
    /\ net' = net \union {p}
    /\ UNCHANGED <<senderVars, acks, receiverVars>>

\* UpdateTimers adapts the window to the loss it measured.
UpdateWindow(size) ==
    /\ command = NoCommand
    /\ windowSize' = size
    /\ UNCHANGED <<submitted, queuedCommands, command, toadd, queuedReliables,
                   reliablesSent, nextOutgoing, net, acks, receiverVars>>

\* Position in the stream of the next packet that gets a sequence number.
Allocated ==
    IF command # NoCommand THEN command.first + Len(toadd)
    ELSE IF queuedCommands # <<>> THEN Head(queuedCommands).first
    ELSE submitted

\* The network: a datagram is gone when the channel is MaxAge packets past it.
Alive(d) == Allocated =< d.data + MaxAge

\* A duplicate or late ACK is taken for the oldest packet on the wire.
PopFirstSent(a) ==
    /\ Alive(a)
    /\ reliablesSent' = {p \in reliablesSent : p # FirstPacket(reliablesSent, OutgoingBase)}
    /\ UNCHANGED <<submitted, queuedCommands, command, toadd, queuedReliables,
                   nextOutgoing, windowSize, net, acks, receiverVars>>

\* handlePacketType_Control, CONTROLTYPE_ACK: popSeqnum, or a late ACK.
HandleAck(a) ==
    /\ Alive(a)
    /\ reliablesSent' = {p \in reliablesSent : p.seq # a.seq}
    /\ UNCHANGED <<submitted, queuedCommands, command, toadd, queuedReliables,
                   nextOutgoing, windowSize, net, acks, receiverVars>>

\* A datagram under way may be handled any number of times, or never, so only
\* liveness can tell whether it is also taken away.
LoseData(p) ==
    /\ Lossy
    /\ net' = net \ {p}
    /\ UNCHANGED <<senderVars, acks, receiverVars>>

LoseAck(a) ==
    /\ Lossy
    /\ acks' = acks \ {a}
    /\ UNCHANGED <<senderVars, net, receiverVars>>

(****************************************************************************)
(* The receive thread: handlePacketType_Reliable, and the buffered packets  *)
(* that receive() hands out before it looks at the socket again.            *)
(****************************************************************************)
InReceiveWindow(p) == SeqnumInWindow(p.seq, nextIncoming, MaxReliableWindow)

\* Any buffered packet is handed out, whether or not its turn has come.
CanUnbufferAny == incoming # {}

\* checkIncomingBuffers finds the next packet at the front of the buffer.
CanUnbuffer == \E p \in incoming : p.seq = nextIncoming

\* The packet expected next: acknowledged, processed; a buffered copy is dropped.
ReceiveNext(p) ==
    /\ p.seq = nextIncoming
    /\ incoming' = {q \in incoming : q.seq # p.seq}
    /\ nextIncoming' = Wrap(nextIncoming + 1)
    /\ delivered' = Append(delivered, p.data)
    /\ acks' = acks \union {p}

\* A packet ahead of its turn is acknowledged and dropped.
ReceiveAheadDrop(p) ==
    /\ p.seq # nextIncoming
    /\ InReceiveWindow(p)
    /\ acks' = acks \union {p}
    /\ UNCHANGED receiverVars

\* A packet ahead of its turn: acknowledged and buffered.
ReceiveAhead(p) ==
    /\ p.seq # nextIncoming
    /\ InReceiveWindow(p)
    /\ incoming' = BufferInsert(incoming, p, nextIncoming)
    /\ acks' = acks \union {p}
    /\ UNCHANGED <<nextIncoming, delivered>>

\* An old packet is dropped like a future one, without repeating its ACK.
ReceiveOutsideNoAck(p) ==
    /\ ~InReceiveWindow(p)
    /\ UNCHANGED <<acks, receiverVars>>

\* A packet before the window was processed: only its ACK was lost.  One beyond
\* the window is dropped without an ACK.
ReceiveOutside(p) ==
    /\ ~InReceiveWindow(p)
    /\ acks' = IF SeqnumHigher(p.seq, nextIncoming) THEN acks ELSE acks \union {p}
    /\ UNCHANGED receiverVars

ReceiveReliable(p) ==
    /\ Alive(p)
    /\ ~CanUnbuffer
    /\ ReceiveNext(p) \/ ReceiveAhead(p) \/ ReceiveOutside(p)
    /\ UNCHANGED <<senderVars, net>>

\* checkIncomingBuffers
Unbuffer ==
    /\ CanUnbuffer
    /\ LET p == FirstPacket(incoming, nextIncoming)
       IN  /\ incoming' = incoming \ {p}
           /\ delivered' = Append(delivered, p.data)
    /\ nextIncoming' = Wrap(nextIncoming + 1)
    /\ UNCHANGED <<senderVars, net, acks>>

Next ==
    \/ \E n \in 1..MaxChunks : PutReliableSendCommand(n)
    \/ RunCommandQueues
    \/ AllocateSeqnum
    \/ QueuePackets
    \/ PutBackSeqnums
    \/ SendQueued
    \/ \E p \in reliablesSent : ResendReliable(p)
    \/ \E size \in WindowSizes : UpdateWindow(size)
    \/ \E a \in acks : HandleAck(a)
    \/ \E p \in net : LoseData(p)
    \/ \E a \in acks : LoseAck(a)
    \/ \E p \in net : ReceiveReliable(p)
    \/ Unbuffer

Spec == Init /\ [][Next]_vars

\* What the loop of the send thread and the network owe each packet; for progress
\* it is enough that the oldest packet not acknowledged gets it.
OldestSent == FirstPacket(reliablesSent, OutgoingBase)
ResendOldest == reliablesSent # {} /\ ResendReliable(OldestSent)
ReceiveOldest == reliablesSent # {} /\ OldestSent \in net /\ ReceiveReliable(OldestSent)
AckOldest == reliablesSent # {} /\ OldestSent \in acks /\ HandleAck(OldestSent)

\* processReliableSendCommand returns, and the loop of the send thread comes round
\* to each of its phases for ever.  The timer of a packet that is not acknowledged
\* runs out again and again.  The network's part: a datagram that is sent again and
\* again gets through.
Fairness ==
    /\ WF_vars(AllocateSeqnum \/ QueuePackets \/ PutBackSeqnums)
    /\ SF_vars(RunCommandQueues)
    /\ SF_vars(SendQueued)
    /\ SF_vars(ResendOldest)
    /\ SF_vars(ReceiveOldest)
    /\ SF_vars(AckOldest)
    /\ WF_vars(Unbuffer)

FairSpec == Spec /\ Fairness

-----------------------------------------------------------------------------

\* What the sender still holds on behalf of the receiver.
Held == {queuedReliables[k] : k \in DOMAIN queuedReliables}
        \union {toadd[k] : k \in DOMAIN toadd} \union reliablesSent

\* Every variable keeps to the values the code's types and macros allow.
TypeOK ==
    /\ submitted \in 0..MaxSubmitted
    /\ queuedCommands \in Seq(Command)
    /\ command \in Command \union {NoCommand}
    /\ toadd \in Seq(Packet)
    /\ queuedReliables \in Seq(Packet)
    /\ reliablesSent \subseteq Packet
    /\ nextOutgoing \in Seqnum
    /\ windowSize \in WindowSizes
    /\ net \subseteq Packet
    /\ acks \subseteq Packet
    /\ nextIncoming \in Seqnum
    /\ incoming \subseteq Packet
    /\ delivered \in Seq(0..(MaxSubmitted - 1))

\* handlePacketType_Reliable and checkIncomingBuffers process the packets of the
\* stream in order, none twice and none left out, although the wire carries only
\* 16 bit numbers that are used again and again.
InOrder == \A k \in DOMAIN delivered : delivered[k] = k - 1

\* A packet that was given a number and has not reached the receiver is one the
\* sender will (re-)send: an ACK, a put-back or an insert into a buffer never makes
\* both sides forget it.
NothingForgotten ==
    \A i \in Len(delivered)..(Allocated - 1) :
        \E p \in Held \union incoming : p.data = i

\* handlePacketType_Reliable acknowledges only what it keeps or has processed.
AckedIsHeld == \A a \in acks : a.data < Len(delivered) \/ a \in incoming

\* The receive thread looks at the socket only when it has nothing buffered to hand
\* out.  Then seqnum_in_window is right about every datagram: in the window means
\* new, outside means processed before.  getOutgoingSequenceNumber, the limit of
\* queued_reliables and the age of datagrams together make it so.
WindowTellsNewFromOld ==
    ~CanUnbuffer => \A p \in net :
        Alive(p) => (InReceiveWindow(p) <=> p.data >= Len(delivered))

Fifo == INSTANCE MtpFifo WITH submitted <- submitted, delivered <- delivered

\* The channel is a FIFO of packets whatever the network does.
ImplementsFifo == Fifo!Spec

\* ... and it delivers everything, given a network that does not lose for ever.
ImplementsFairFifo == Fifo!FairSpec

\* Everything handed over is acknowledged in the end, the queues drain, and the
\* sender stops re-sending.
EventuallyDrained ==
    <>[](reliablesSent = {} /\ queuedReliables = <<>> /\ queuedCommands = <<>>)
=============================================================================
