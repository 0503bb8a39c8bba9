---------------------------- MODULE MtpPeerProofs ---------------------------
(****************************************************************************)
(* For any ids and addresses, and whether or not ids are reused: types, no  *)
(* thread gets at a deleted Peer, a forgotten Peer was deleted once, and no *)
(* address has two peers. If ids are not reused: the user's clients follow  *)
(* the peers, and a new peer's event finds no client of its id.             *)
(*                                                                          *)
(* The argument. The use count of a peer is the number of PeerHelpers on    *)
(* the stacks of the two threads, and how many a stack holds follows from   *)
(* the program counter of its thread. A peer is in the container, in one    *)
(* deletePeer, or was dropped; it is deleted when it was dropped and nobody *)
(* uses it, by whoever comes last. The receive thread alone creates peers,  *)
(* so an address it did not find is still new when it creates one. After    *)
(* ~Connection both threads are at the start of their loops, hold nothing,  *)
(* and nothing is in the container.                                         *)
(*                                                                          *)
(* The clients after the events that wait are a recursive function along    *)
(* the queue (After), to whose end an event is put and from whose head one  *)
(* is taken: each is one step of it. Whatever the events, a client it gives *)
(* is of a peer with its id. Without reuse the ids of all peers differ, so  *)
(* each event changes what it is about and nothing else, and nothing else a *)
(* thread does touches the clients, the events or the ids.                  *)
(****************************************************************************)
EXTENDS MtpPeer, RecursionFacts, SequenceTheorems

Bit(yes) == IF yes THEN 1 ELSE 0

\* How often a thread with the PeerHelpers s holds the peer o, and both threads together.
\* No thread has more than two.
Helpers(s, o) == Bit(1 \in DOMAIN s /\ s[1] = o) + Bit(2 \in DOMAIN s /\ s[2] = o)
Uses(o) == Helpers(held["receive"], o) + Helpers(held["send"], o)

\* The thread is in deletePeer with the peer o.
Dooms(t, o) == doomed[t].step # "none" /\ doomed[t].peer = o

Types ==
    /\ TypeOK
    /\ \A k \in DOMAIN events : events[k].peer \in Object

\* How many PeerHelpers are on the stack of a thread where.
ReceiverDepths(pc) ==
    IF pc \in {"socket", "lookup", "create", "find"} THEN {0}
    ELSE IF pc \in {"check", "process", "data"} THEN {1}
    ELSE IF pc = "handle" THEN {2} ELSE {0, 1, 2}
SenderDepths(pc) == IF pc = "idle" THEN {0} ELSE {0, 1}

StackInv ==
    /\ Len(held["receive"]) \in ReceiverDepths(receiver.pc)
    /\ Len(held["send"]) \in SenderDepths(sender.pc)

\* What the receive thread knows of the sender of the datagram where.
Datagram(at) ==
    /\ at.pc \in {"lookup", "create"} => at.address \in Address
    /\ at.pc \in {"find", "check", "process", "handle", "data"} => at.id \in Id
ReceiverInv ==
    /\ Datagram(receiver)
    /\ receiver.pc = "create" =>
         \A i \in DOMAIN peers : heap[peers[i]].address # receiver.address

\* Nothing goes on when the Connection is gone.
DoneInv ==
    running = "done" => /\ receiver.pc = "socket" /\ sender.pc = "idle" /\ DOMAIN peers = {}
                        /\ \A t \in Thread : NotInDelete(t)

\* The use count is the number of PeerHelpers.  A dropped peer is deleted once nobody uses it,
\* one that was not dropped by ~Connection.
UseInv ==
    \A o \in Object :
        /\ heap[o].usage = Uses(o)
        /\ heap[o].frees = IF heap[o].pendingDeletion THEN Bit(heap[o].usage = 0)
                           ELSE Bit(running = "done")

\* A peer is in the container, in one deletePeer, or was dropped.
PlaceInv ==
    /\ \A i \in DOMAIN peers :
         /\ heap[peers[i]].id = i /\ ~heap[peers[i]].pendingDeletion
         /\ \A t \in Thread : ~Dooms(t, peers[i])
    /\ \A t \in Thread : doomed[t].step # "none" =>
         /\ doomed[t].peer \in Object /\ ~heap[doomed[t].peer].pendingDeletion
         /\ \A u \in Thread \ {t} : ~Dooms(u, doomed[t].peer)
    /\ \A o \in Object : ~heap[o].pendingDeletion /\ running # "done" =>
         \/ \E i \in DOMAIN peers : peers[i] = o
         \/ \E t \in Thread : Dooms(t, o)

IInv ==
    /\ Types /\ StackInv /\ ReceiverInv /\ DoneInv
    /\ UseInv /\ PlaceInv /\ OneAddressOnePeer
-----------------------------------------------------------------------------
(* PeerHelpers and the heap.                                                 *)

\* A PeerHelper more.
LEMMA Push ==
    ASSUME NEW s \in Seq(Object), Len(s) =< 1, NEW p \in Object
    PROVE  /\ <<p>> \o s \in Seq(Object) /\ Len(<<p>> \o s) = Len(s) + 1
           /\ \A o : Helpers(<<p>> \o s, o) = Helpers(s, o) + Bit(p = o)
<1>1. /\ <<p>> \o s \in Seq(Object) /\ Len(<<p>> \o s) = Len(s) + 1
      /\ DOMAIN (<<p>> \o s) = 1..(Len(s) + 1) /\ DOMAIN s = 1..Len(s) /\ Len(s) \in {0, 1}
      /\ (<<p>> \o s)[1] = p /\ \A k \in DOMAIN s : (<<p>> \o s)[k + 1] = s[k]
  OBVIOUS
<1>2. ASSUME NEW o PROVE Helpers(<<p>> \o s, o) = Helpers(s, o) + Bit(p = o)
  <2>1. CASE Len(s) = 0
    BY <1>1, <2>1 DEF Helpers, Bit
  <2>2. CASE Len(s) = 1
    BY <1>1, <2>2 DEF Helpers, Bit
  <2> QED BY <1>1, <2>1, <2>2
<1> QED BY <1>1, <1>2

\* The innermost PeerHelper less.
LEMMA Pull ==
    ASSUME NEW s \in Seq(Object), Len(s) =< 2, s # <<>>
    PROVE  /\ Tail(s) \in Seq(Object) /\ Len(Tail(s)) = Len(s) - 1 /\ Head(s) \in Object
           /\ \A o : Helpers(Tail(s), o) = Helpers(s, o) - Bit(Head(s) = o)
<1>1. /\ Tail(s) \in Seq(Object) /\ Len(Tail(s)) = Len(s) - 1 /\ Head(s) \in Object
      /\ DOMAIN s = 1..Len(s) /\ DOMAIN Tail(s) = 1..(Len(s) - 1) /\ Len(s) \in {1, 2}
      /\ Head(s) = s[1] /\ \A k \in DOMAIN Tail(s) : Tail(s)[k] = s[k + 1]
  <2>1. /\ Tail(s) \in Seq(Object) /\ Len(Tail(s)) = Len(s) - 1 /\ Head(s) \in Object
        /\ \A k \in 1..Len(Tail(s)) : Tail(s)[k] = s[k + 1]
    BY HeadTailProperties
  <2>2. DOMAIN s = 1..Len(s) /\ DOMAIN Tail(s) = 1..Len(Tail(s)) /\ Len(s) \in Nat
    BY <2>1, LenProperties
  <2>3. Len(s) # 0 /\ Head(s) = s[1]
    OBVIOUS
  <2> QED BY <2>1, <2>2, <2>3
<1>2. ASSUME NEW o PROVE Helpers(Tail(s), o) = Helpers(s, o) - Bit(Head(s) = o)
  <2>1. CASE Len(s) = 1
    BY <1>1, <2>1, SMTT(30) DEF Helpers, Bit
  <2>2. CASE Len(s) = 2
    <3>1. DOMAIN s = {1, 2} /\ DOMAIN Tail(s) = {1} /\ Tail(s)[1] = s[2] /\ Head(s) = s[1]
      BY <1>1, <2>2
    <3>2. Helpers(Tail(s), o) = Bit(s[2] = o)
      BY <3>1 DEF Helpers, Bit
    <3>3. Helpers(s, o) = Bit(s[1] = o) + Bit(s[2] = o)
      BY <3>1 DEF Helpers, Bit
    <3> QED BY <3>1, <3>2, <3>3 DEF Bit
  <2> QED BY <1>1, <2>1, <2>2
<1> QED BY <1>1, <1>2

LEMMA HelpersType ==
    ASSUME NEW s, NEW o
    PROVE  /\ Helpers(s, o) \in Nat
           /\ 1 \in DOMAIN s /\ s[1] = o => Helpers(s, o) > 0
           /\ 2 \in DOMAIN s /\ s[2] = o => Helpers(s, o) > 0
BY DEF Helpers, Bit

LEMMA NoHelpers ==
    ASSUME NEW o PROVE Helpers(<<>>, o) = 0
BY DEF Helpers, Bit

\* The objects but one stay as they are.
LEMMA HeapExcept ==
    ASSUME Types, NEW o \in Object, NEW p \in Peer, heap' = [heap EXCEPT ![o] = p]
    PROVE  /\ heap' \in Seq(Peer) /\ Len(heap') = Len(heap) /\ Object' = Object
           /\ heap'[o] = p /\ \A x \in Object \ {o} : heap'[x] = heap[x]
<1>1. heap \in Seq(Peer) /\ o \in 1..Len(heap)
  BY DEF Types, TypeOK, Object
<1> QED BY <1>1, ExceptSeq DEF Object
LEMMA DepthsSmall ==
    ASSUME StackInv, NEW t \in Thread PROVE Len(held[t]) =< 2
BY DEF StackInv, ReceiverDepths, SenderDepths, Thread

LEMMA InitInvariant ==
    Init => IInv
<1> SUFFICES ASSUME Init PROVE IInv
  OBVIOUS
<1>1. Object = {} /\ DOMAIN peers = {} /\ DOMAIN clients = {} /\ DOMAIN events = {}
  BY DEF Init, Object
<1>2. \A t \in Thread : held[t] = <<>> /\ doomed[t].step = "none" /\ Len(held[t]) = 0
  BY DEF Init, NotDeleting
<1>3. Types
  BY <1>1, PeerAssumption DEF Init, Types, TypeOK, AtSocket, NotDeleting, Thread
<1>4. UseInv /\ PlaceInv /\ OneAddressOnePeer
  BY <1>1, <1>2 DEF UseInv, PlaceInv, OneAddressOnePeer
<1>5. StackInv /\ ReceiverInv /\ DoneInv
  BY <1>2 DEF Init, AtSocket, StackInv, ReceiverDepths, SenderDepths, ReceiverInv, Datagram,
              DoneInv, Thread
<1> QED BY <1>3, <1>4, <1>5 DEF IInv

-----------------------------------------------------------------------------
(* What a change of the heap does to the counts and the places.              *)

Core == UseInv /\ PlaceInv /\ OneAddressOnePeer

\* The peers keep their names, and the counts follow the PeerHelpers.
LEMMA CountsFollow ==
    ASSUME IInv, running # "done", running' # "done", UNCHANGED <<peers, doomed>>,
           Object' = Object,
           \A o \in Object :
               /\ heap'[o].id = heap[o].id /\ heap'[o].address = heap[o].address
               /\ heap'[o].pendingDeletion = heap[o].pendingDeletion
               /\ heap'[o].usage = Uses(o)'
               /\ heap'[o].frees = IF heap[o].pendingDeletion THEN Bit(heap'[o].usage = 0) ELSE 0
    PROVE  Core'
<1>1. UseInv'
  BY DEF UseInv, Bit
<1>2. \A i \in DOMAIN peers : peers[i] \in Object
  BY DEF IInv, Types, TypeOK
<1>3. PlaceInv'
  BY <1>2 DEF IInv, PlaceInv, Dooms
<1>4. OneAddressOnePeer'
  BY <1>2 DEF IInv, OneAddressOnePeer
<1> QED BY <1>1, <1>3, <1>4 DEF Core

\* A peer, used and deleted as said, and one that was dropped.
Counted(p, n, f) == [p EXCEPT !.usage = n, !.frees = f]
Dropped(p, f) == [p EXCEPT !.pendingDeletion = TRUE, !.frees = f]

LEMMA PeerFields ==
    ASSUME NEW p \in Peer
    PROVE  /\ p.usage \in Nat /\ p.frees \in Nat /\ p.pendingDeletion \in BOOLEAN
           /\ p.id \in Id /\ p.address \in Address
BY DEF Peer

LEMMA CountedFields ==
    ASSUME NEW p \in Peer, NEW n \in Nat, NEW f \in Nat
    PROVE  /\ Counted(p, n, f) \in Peer
           /\ Counted(p, n, f).id = p.id /\ Counted(p, n, f).address = p.address
           /\ Counted(p, n, f).usage = n /\ Counted(p, n, f).frees = f
           /\ Counted(p, n, f).pendingDeletion = p.pendingDeletion
BY DEF Peer, Counted

LEMMA DroppedFields ==
    ASSUME NEW p \in Peer, NEW f \in Nat
    PROVE  /\ Dropped(p, f) \in Peer
           /\ Dropped(p, f).id = p.id /\ Dropped(p, f).address = p.address
           /\ Dropped(p, f).usage = p.usage /\ Dropped(p, f).frees = f
           /\ Dropped(p, f).pendingDeletion
BY DEF Peer, Dropped

\* One more PeerHelper, for a peer that is in the container.
LEMMA HoldStep ==
    ASSUME IInv, running # "done", running' = running, UNCHANGED <<peers, doomed>>,
           NEW t \in Thread, NEW id, Hold(t, id), Len(held[t]) =< 1
    PROVE  /\ heap' \in Seq(Peer) /\ Len(heap') = Len(heap) /\ Object' = Object
           /\ \A o \in Object : heap'[o].id = heap[o].id /\ heap'[o].address = heap[o].address
           /\ held' \in [Thread -> Seq(Object)] /\ Len(held'[t]) = Len(held[t]) + 1
           /\ \A u \in Thread \ {t} : held'[u] = held[u]
           /\ Core'
<1> DEFINE p == peers[id]
           q == [heap[p] EXCEPT !.usage = @ + 1]
<1>1. p \in Object /\ heap[p] \in Peer /\ ~heap[p].pendingDeletion
  BY DEF Hold, IInv, Types, TypeOK, PlaceInv, Object
<1>2. /\ heap' = [heap EXCEPT ![p] = q] /\ held' = [held EXCEPT ![t] = <<p>> \o @]
      /\ held \in [Thread -> Seq(Object)] /\ held[t] \in Seq(Object)
  BY DEF Hold, IInv, Types, TypeOK
<1>3. /\ q \in Peer /\ q.id = heap[p].id /\ q.address = heap[p].address
      /\ q.pendingDeletion = heap[p].pendingDeletion
      /\ q.usage = heap[p].usage + 1 /\ q.frees = heap[p].frees
  BY <1>1 DEF Peer
<1> HIDE DEF p, q
<1>4. /\ heap' \in Seq(Peer) /\ Len(heap') = Len(heap) /\ Object' = Object
      /\ heap'[p] = q /\ \A x \in Object \ {p} : heap'[x] = heap[x]
  BY <1>1, <1>2, <1>3, HeapExcept DEF IInv
<1>5. /\ held' \in [Thread -> Seq(Object)] /\ Len(held'[t]) = Len(held[t]) + 1
      /\ \A u \in Thread \ {t} : held'[u] = held[u]
      /\ \A o : Helpers(held'[t], o) = Helpers(held[t], o) + Bit(p = o)
  BY <1>1, <1>2, Push
<1>6. \A o : Uses(o)' = Uses(o) + Bit(p = o)
  <2>1. \A u \in Thread : \A o : Helpers(held[u], o) \in Nat
    BY HelpersType
  <2> QED BY <1>5, <2>1 DEF Uses, Thread, Bit
<1>7. \A o \in Object : /\ heap'[o].usage = Uses(o)'
                        /\ heap'[o].frees = IF heap[o].pendingDeletion
                                            THEN Bit(heap'[o].usage = 0) ELSE 0
  <2> SUFFICES ASSUME NEW o \in Object
               PROVE  /\ heap'[o].usage = Uses(o)'
                      /\ heap'[o].frees = IF heap[o].pendingDeletion
                                          THEN Bit(heap'[o].usage = 0) ELSE 0
    OBVIOUS
  <2>1. /\ heap[o].usage = Uses(o) /\ Uses(o) \in Nat
        /\ heap[o].frees = IF heap[o].pendingDeletion THEN Bit(heap[o].usage = 0) ELSE 0
    BY HelpersType DEF IInv, UseInv, Uses, Bit
  <2> QED BY <1>1, <1>3, <1>4, <1>6, <2>1 DEF Bit
<1>8. \A o \in Object : /\ heap'[o].id = heap[o].id /\ heap'[o].address = heap[o].address
                        /\ heap'[o].pendingDeletion = heap[o].pendingDeletion
  BY <1>3, <1>4
<1>9. Core'
  BY <1>4, <1>7, <1>8, CountsFollow
<1> QED BY <1>4, <1>5, <1>8, <1>9

\* The innermost PeerHelper goes, whatever else is noted with the peer.
LEMMA DecStep ==
    ASSUME IInv, running # "done", running' = running, UNCHANGED <<peers, doomed>>,
           NEW t \in Thread, held[t] # <<>>, held' = [held EXCEPT ![t] = Tail(@)],
           NEW q \in Peer, heap' = [heap EXCEPT ![Head(held[t])] = q],
           q.id = heap[Head(held[t])].id, q.address = heap[Head(held[t])].address,
           q.pendingDeletion = heap[Head(held[t])].pendingDeletion,
           q.usage = heap[Head(held[t])].usage - 1,
           q.frees = IF /\ heap[Head(held[t])].pendingDeletion
                        /\ heap[Head(held[t])].usage = 1
                     THEN heap[Head(held[t])].frees + 1 ELSE heap[Head(held[t])].frees
    PROVE  /\ heap' \in Seq(Peer) /\ Len(heap') = Len(heap) /\ Object' = Object
           /\ \A o \in Object : heap'[o].id = heap[o].id /\ heap'[o].address = heap[o].address
           /\ held' \in [Thread -> Seq(Object)] /\ Len(held'[t]) = Len(held[t]) - 1
           /\ \A u \in Thread \ {t} : held'[u] = held[u]
           /\ Core'
<1> DEFINE p == Head(held[t])
<1>1. Len(held[t]) =< 2
  BY DepthsSmall DEF IInv
<1>2. held \in [Thread -> Seq(Object)] /\ held[t] \in Seq(Object)
  BY DEF IInv, Types, TypeOK
<1>3. /\ p \in Object /\ Tail(held[t]) \in Seq(Object) /\ Len(Tail(held[t])) = Len(held[t]) - 1
      /\ \A o : Helpers(Tail(held[t]), o) = Helpers(held[t], o) - Bit(p = o)
  BY <1>1, <1>2, Pull
<1> HIDE DEF p
<1>4. /\ heap' \in Seq(Peer) /\ Len(heap') = Len(heap) /\ Object' = Object
      /\ heap'[p] = q /\ \A x \in Object \ {p} : heap'[x] = heap[x]
  BY <1>3, HeapExcept DEF IInv, p
<1>5. /\ held' \in [Thread -> Seq(Object)] /\ Len(held'[t]) = Len(held[t]) - 1
      /\ \A u \in Thread \ {t} : held'[u] = held[u]
      /\ \A o : Helpers(held'[t], o) = Helpers(held[t], o) - Bit(p = o)
  BY <1>2, <1>3
<1>6. \A o : Uses(o)' = Uses(o) - Bit(p = o)
  <2>1. \A u \in Thread : \A o : Helpers(held[u], o) \in Nat
    BY HelpersType
  <2> QED BY <1>5, <2>1 DEF Uses, Thread, Bit
<1>7. \A o \in Object : /\ heap'[o].usage = Uses(o)'
                        /\ heap'[o].frees = IF heap[o].pendingDeletion
                                            THEN Bit(heap'[o].usage = 0) ELSE 0
  <2> SUFFICES ASSUME NEW o \in Object
               PROVE  /\ heap'[o].usage = Uses(o)'
                      /\ heap'[o].frees = IF heap[o].pendingDeletion
                                          THEN Bit(heap'[o].usage = 0) ELSE 0
    OBVIOUS
  <2>1. /\ heap[o].usage = Uses(o) /\ Uses(o) \in Nat
        /\ heap[o].frees = IF heap[o].pendingDeletion THEN Bit(heap[o].usage = 0) ELSE 0
    BY HelpersType DEF IInv, UseInv, Uses, Bit
  <2>2. CASE o = p
    <3>1. Uses(p) > 0
      <4>1. 1 \in DOMAIN held[t] /\ held[t][1] = p
        BY <1>2 DEF p
      <4>2. Helpers(held[t], p) > 0 /\ \A u \in Thread : Helpers(held[u], p) \in Nat
        BY <4>1, HelpersType
      <4> QED BY <4>2 DEF Uses, Thread
    <3> QED BY <1>4, <1>6, <2>1, <2>2, <3>1 DEF Bit, p
  <2>3. CASE o # p
    BY <1>4, <1>6, <2>1, <2>3 DEF Bit
  <2> QED BY <2>2, <2>3
<1>8. \A o \in Object : /\ heap'[o].id = heap[o].id /\ heap'[o].address = heap[o].address
                        /\ heap'[o].pendingDeletion = heap[o].pendingDeletion
  BY <1>4 DEF p
<1>9. Core'
  BY <1>4, <1>7, <1>8, CountsFollow
<1> QED BY <1>4, <1>5, <1>8, <1>9
\* The peer of a PeerHelper is counted.
LEMMA HeldIsUsed ==
    ASSUME IInv, NEW t \in Thread, held[t] # <<>>
    PROVE  /\ Head(held[t]) \in Object /\ heap[Head(held[t])] \in Peer
           /\ heap[Head(held[t])].usage \in Nat \ {0}
           /\ Len(held[t]) \in {1, 2} /\ held[t] \in Seq(Object)
<1> DEFINE p == Head(held[t])
<1>1. held[t] \in Seq(Object) /\ Len(held[t]) =< 2 /\ heap \in Seq(Peer)
  BY DepthsSmall DEF IInv, Types, TypeOK
<1>2. /\ p \in Object /\ 1 \in DOMAIN held[t] /\ held[t][1] = p /\ Len(held[t]) \in {1, 2}
  <2>1. Len(held[t]) \in Nat /\ DOMAIN held[t] = 1..Len(held[t]) /\ Head(held[t]) \in Object
    BY <1>1, LenProperties, HeadTailProperties
  <2>2. Len(held[t]) # 0 /\ Head(held[t]) = held[t][1]
    BY <1>1
  <2>3. Len(held[t]) \in {1, 2}
    <3>1. \A n \in Nat : n # 0 /\ n =< 2 => n \in {1, 2}
      OBVIOUS
    <3> QED BY <1>1, <2>1, <2>2, <3>1, Zenon
  <2> QED BY <2>1, <2>2, <2>3
<1>3. heap[p] \in Peer /\ heap[p].usage \in Nat
  <2>1. p \in 1..Len(heap)
    BY <1>1, <1>2 DEF Object
  <2>2. heap[p] \in Peer
    BY <1>1, <2>1, ElementOfSeq
  <2> QED BY <2>2, PeerFields
<1>4. heap[p].usage = Uses(p)
  BY <1>2 DEF IInv, UseInv
<1>5. Helpers(held[t], p) > 0 /\ \A u \in Thread : Helpers(held[u], p) \in Nat
  BY <1>2, HelpersType
<1>6. Uses(p) > 0
  BY <1>5 DEF Uses, Thread
<1> QED BY <1>1, <1>2, <1>3, <1>4, <1>6

LEMMA ReleaseStep ==
    ASSUME IInv, running # "done", running' = running, UNCHANGED <<peers, doomed>>,
           NEW t \in Thread, Release(t)
    PROVE  /\ heap' \in Seq(Peer) /\ Len(heap') = Len(heap) /\ Object' = Object
           /\ \A o \in Object : heap'[o].id = heap[o].id /\ heap'[o].address = heap[o].address
           /\ held' \in [Thread -> Seq(Object)] /\ Len(held'[t]) = Len(held[t]) - 1
           /\ \A u \in Thread \ {t} : held'[u] = held[u]
           /\ Core'
<1> DEFINE p == Head(held[t])
           n == heap[p].usage - 1
           f == IF heap[p].pendingDeletion /\ heap[p].usage = 1
                THEN heap[p].frees + 1 ELSE heap[p].frees
           q == Counted(heap[p], n, f)
<1>1. held[t] # <<>> /\ p \in Object /\ heap[p] \in Peer /\ heap[p].usage \in Nat \ {0}
  BY HeldIsUsed DEF Release
<1>2. heap' = [heap EXCEPT ![p] = q] /\ held' = [held EXCEPT ![t] = Tail(@)]
  BY DEF Release, DecUseCount, Counted
<1>3. /\ q \in Peer /\ q.id = heap[p].id /\ q.address = heap[p].address
      /\ q.pendingDeletion = heap[p].pendingDeletion /\ q.usage = n /\ q.frees = f
  <2>1. n \in Nat /\ f \in Nat
    <3>1. heap[p].frees \in Nat
      BY <1>1, PeerFields
    <3> QED BY <1>1, <3>1
  <2> DEFINE w == heap[p]
  <2>2. w \in Peer
    BY <1>1
  <2> HIDE DEF w, n, f
  <2>3. /\ Counted(w, n, f) \in Peer
        /\ Counted(w, n, f).id = w.id /\ Counted(w, n, f).address = w.address
        /\ Counted(w, n, f).usage = n /\ Counted(w, n, f).frees = f
        /\ Counted(w, n, f).pendingDeletion = w.pendingDeletion
    BY <2>1, <2>2, CountedFields
  <2> QED BY <2>3 DEF w
<1> HIDE DEF q
<1> QED BY <1>1, <1>2, <1>3, DecStep

\* deletePeer takes the peer out of the container.
LEMMA EraseStep ==
    ASSUME IInv, running # "done", running' = running, UNCHANGED <<heap, held>>,
           NEW t \in Thread, NotInDelete(t), NEW id, Erase(t, id)
    PROVE  /\ doomed' \in [Thread -> [peer : Object \union {0}, step : {"none", "event", "drop"}]]
           /\ DOMAIN peers' \subseteq DOMAIN peers
           /\ \A i \in DOMAIN peers' : peers'[i] = peers[i]
           /\ Core'
<1> DEFINE p == peers[id]
<1>1. /\ id \in DOMAIN peers /\ p \in Object
      /\ doomed' = [doomed EXCEPT ![t] = [peer |-> p, step |-> "event"]]
      /\ DOMAIN peers' = DOMAIN peers \ {id} /\ \A i \in DOMAIN peers' : peers'[i] = peers[i]
      /\ doomed \in [Thread -> [peer : Object \union {0}, step : {"none", "event", "drop"}]]
      /\ \A i \in DOMAIN peers : peers[i] \in Object
  BY DEF Erase, IInv, Types, TypeOK
<1>2. /\ doomed'[t].peer = p /\ doomed'[t].step = "event"
      /\ \A u \in Thread \ {t} : doomed'[u] = doomed[u]
      /\ doomed' \in [Thread -> [peer : Object \union {0}, step : {"none", "event", "drop"}]]
  BY <1>1
<1> HIDE DEF p
<1>3. \A o : /\ ~Dooms(t, o) /\ (Dooms(t, o)' <=> o = p)
             /\ \A u \in Thread \ {t} : Dooms(u, o)' <=> Dooms(u, o)
  BY <1>2 DEF Dooms, NotInDelete
<1>4. /\ heap[p].id = id /\ ~heap[p].pendingDeletion /\ \A u \in Thread : ~Dooms(u, p)
      /\ \A i \in DOMAIN peers : heap[peers[i]].id = i
  BY <1>1 DEF p, IInv, PlaceInv
<1>5. PlaceInv'
  <2>1. ASSUME NEW i \in DOMAIN peers'
        PROVE  /\ heap[peers'[i]].id = i /\ ~heap[peers'[i]].pendingDeletion
               /\ \A u \in Thread : ~Dooms(u, peers[i])'
    BY <1>1, <1>3, <1>4 DEF p, IInv, PlaceInv
  <2>2. ASSUME NEW u \in Thread, doomed'[u].step # "none"
        PROVE  /\ doomed'[u].peer \in Object /\ ~heap[doomed'[u].peer].pendingDeletion
               /\ \A v \in Thread \ {u} : ~Dooms(v, doomed[u].peer)'
    <3>1. CASE u = t
      BY <1>1, <1>2, <1>3, <1>4, <3>1
    <3>2. CASE u # t
      <4>1. doomed'[u] = doomed[u] /\ Dooms(u, doomed[u].peer)
        BY <1>2, <2>2, <3>2 DEF Dooms
      <4>2. doomed[u].peer # p
        BY <1>4, <4>1
      <4> QED BY <1>3, <2>2, <4>1, <4>2 DEF IInv, PlaceInv
    <3> QED BY <3>1, <3>2
  <2>3. ASSUME NEW o \in Object, ~heap[o].pendingDeletion
        PROVE  \/ \E i \in DOMAIN peers' : peers'[i] = o
               \/ \E u \in Thread : Dooms(u, o)'
    <3>1. CASE \E i \in DOMAIN peers : peers[i] = o
      BY <1>1, <1>3, <3>1 DEF p
    <3>2. CASE \E u \in Thread : Dooms(u, o)
      BY <1>3, <3>2
    <3> QED BY <2>3, <3>1, <3>2 DEF IInv, PlaceInv
  <2>4. Object' = Object
    BY DEF Object
  <2> QED BY <2>1, <2>2, <2>3, <2>4 DEF PlaceInv
<1>6. UseInv'
  BY DEF IInv, UseInv, Uses, Object
<1>7. OneAddressOnePeer'
  BY <1>1 DEF IInv, OneAddressOnePeer
<1> QED BY <1>1, <1>2, <1>5, <1>6, <1>7 DEF Core

\* Peer::Drop, at the end of deletePeer.
LEMMA DropStep ==
    ASSUME IInv, running # "done", NEW t \in Thread, DropDoomed(t)
    PROVE  /\ heap' \in Seq(Peer) /\ Len(heap') = Len(heap) /\ Object' = Object
           /\ \A o \in Object : heap'[o].id = heap[o].id /\ heap'[o].address = heap[o].address
           /\ doomed' \in [Thread -> [peer : Object \union {0}, step : {"none", "event", "drop"}]]
           /\ Core'
<1> DEFINE p == doomed[t].peer
           f == IF heap[p].usage = 0 THEN heap[p].frees + 1 ELSE heap[p].frees
           q == Dropped(heap[p], f)
<1>1. /\ doomed[t].step # "none" /\ heap' = [heap EXCEPT ![p] = q]
      /\ doomed' = [doomed EXCEPT ![t] = NotDeleting]
      /\ UNCHANGED <<peers, held, running>>
  BY DEF DropDoomed, Drop, Dropped
<1>2. /\ p \in Object /\ ~heap[p].pendingDeletion /\ Dooms(t, p)
      /\ \A u \in Thread \ {t} : ~Dooms(u, p)
      /\ \A i \in DOMAIN peers : peers[i] # p
  BY <1>1 DEF IInv, PlaceInv, Dooms
<1>3. heap[p] \in Peer /\ heap[p].frees = 0 /\ heap[p].usage \in Nat
  <2>1. heap[p] \in Peer
    BY <1>2, ElementOfSeq DEF IInv, Types, TypeOK, Object
  <2>2. heap[p].frees = 0
    BY <1>2 DEF IInv, UseInv, Bit
  <2> QED BY <2>1, <2>2, PeerFields
<1>4. /\ q \in Peer /\ q.id = heap[p].id /\ q.address = heap[p].address /\ q.pendingDeletion
      /\ q.usage = heap[p].usage /\ q.frees = Bit(q.usage = 0)
  <2>1. f = Bit(heap[p].usage = 0) /\ f \in Nat
    BY <1>3 DEF Bit
  <2> HIDE DEF f
  <2> QED BY <1>3, <2>1, DroppedFields
<1>5. /\ doomed' \in [Thread -> [peer : Object \union {0}, step : {"none", "event", "drop"}]]
      /\ doomed'[t].step = "none" /\ \A u \in Thread \ {t} : doomed'[u] = doomed[u]
  BY <1>1 DEF IInv, Types, TypeOK, NotDeleting
<1> HIDE DEF p, q
<1>6. /\ heap' \in Seq(Peer) /\ Len(heap') = Len(heap) /\ Object' = Object
      /\ heap'[p] = q /\ \A x \in Object \ {p} : heap'[x] = heap[x]
  BY <1>1, <1>2, <1>4, HeapExcept DEF IInv
<1>7. \A o \in Object : heap'[o].id = heap[o].id /\ heap'[o].address = heap[o].address
  BY <1>4, <1>6
<1>8. \A o : /\ ~Dooms(t, o)' /\ \A u \in Thread \ {t} : Dooms(u, o)' <=> Dooms(u, o)
             /\ Dooms(t, o) => o = p
  BY <1>5 DEF Dooms, p
<1>9. \A i \in DOMAIN peers : peers[i] \in Object
  BY DEF IInv, Types, TypeOK
<1>10. UseInv'
  BY <1>1, <1>4, <1>6 DEF IInv, UseInv, Uses
<1>11. PlaceInv'
  <2>1. ASSUME NEW i \in DOMAIN peers
        PROVE  /\ heap'[peers[i]].id = i /\ ~heap'[peers[i]].pendingDeletion
               /\ \A u \in Thread : ~Dooms(u, peers[i])'
    BY <1>1, <1>2, <1>6, <1>8, <1>9 DEF IInv, PlaceInv
  <2>2. ASSUME NEW u \in Thread, doomed'[u].step # "none"
        PROVE  /\ doomed'[u].peer \in Object /\ ~heap'[doomed'[u].peer].pendingDeletion
               /\ \A v \in Thread \ {u} : ~Dooms(v, doomed[u].peer)'
    <3>1. u # t /\ doomed'[u] = doomed[u] /\ Dooms(u, doomed[u].peer)
      BY <1>5, <2>2 DEF Dooms
    <3>2. doomed[u].peer # p
      BY <1>2, <3>1
    <3> QED BY <1>6, <1>8, <2>2, <3>1, <3>2 DEF IInv, PlaceInv
  <2>3. ASSUME NEW o \in Object, ~heap'[o].pendingDeletion
        PROVE  \/ \E i \in DOMAIN peers : peers[i] = o
               \/ \E u \in Thread : Dooms(u, o)'
    BY <1>4, <1>6, <1>8, <2>3 DEF IInv, PlaceInv
  <2> QED BY <1>1, <1>6, <2>1, <2>2, <2>3 DEF PlaceInv
<1>12. OneAddressOnePeer'
  BY <1>1, <1>7, <1>9 DEF IInv, OneAddressOnePeer
<1> QED BY <1>5, <1>6, <1>7, <1>10, <1>11, <1>12 DEF Core
\* createPeer: a peer that nobody holds, with an address that no other has.
LEMMA CreateStep ==
    ASSUME IInv, running # "done", NEW id \in Id, CreatePeer(id)
    PROVE  /\ heap' \in Seq(Peer) /\ Len(heap') =< MaxPeers
           /\ Object' = Object \union {Len(heap) + 1}
           /\ DOMAIN peers' \subseteq Id /\ \A i \in DOMAIN peers' : peers'[i] \in Object'
           /\ events' \in Seq(Event) /\ \A k \in DOMAIN events' : events'[k].peer \in Object'
           /\ Core'
<1>0. PICK n : n = Len(heap) + 1
  OBVIOUS
<1> DEFINE p == [id |-> id, address |-> receiver.address, halfOpen |-> TRUE, usage |-> 0,
                 pendingDeletion |-> FALSE, pendingDisconnect |-> FALSE, frees |-> 0]
           e == [type |-> "added", id |-> id, peer |-> n]
<1>1. /\ receiver.pc = "create" /\ Len(heap) < MaxPeers /\ id \notin DOMAIN peers
      /\ heap' = Append(heap, p) /\ events' = Append(events, e)
      /\ DOMAIN peers' = DOMAIN peers \union {id} /\ peers'[id] = n
      /\ \A i \in DOMAIN peers : peers'[i] = peers[i]
      /\ UNCHANGED <<held, doomed, running>>
  BY <1>0 DEF CreatePeer, ReceiverAt, Drawable
<1>2. /\ heap \in Seq(Peer) /\ events \in Seq(Event) /\ DOMAIN peers \subseteq Id
      /\ \A i \in DOMAIN peers : peers[i] \in Object
      /\ \A k \in DOMAIN events : events[k].peer \in Object
      /\ held \in [Thread -> Seq(Object)]
  BY DEF IInv, Types, TypeOK
<1>3. /\ p \in Peer /\ p.id = id /\ p.address = receiver.address /\ p.usage = 0
      /\ ~p.pendingDeletion /\ p.frees = 0
  BY <1>1 DEF Peer, IInv, ReceiverInv, Datagram
<1>4. n \in 1..MaxPeers /\ n \notin Object /\ Object = 1..Len(heap) /\ Len(heap) \in Nat
  BY <1>0, <1>1, <1>2, LenProperties, PeerAssumption DEF Object
<1>5. e \in Event /\ e.peer = n
  BY <1>4 DEF Event
<1> HIDE DEF p, e
<1>6. /\ heap' \in Seq(Peer) /\ Len(heap') = n /\ Object' = Object \union {n}
      /\ heap'[n] = p /\ \A o \in Object : heap'[o] = heap[o]
  <2>1. heap' \in Seq(Peer) /\ Len(heap') = n /\ heap'[n] = p
    BY <1>0, <1>1, <1>2, <1>3, AppendProperties
  <2>2. \A o \in 1..Len(heap) : heap'[o] = heap[o]
    BY <1>1, <1>2, <1>3, AppendProperties
  <2>3. Object' = 1..n
    BY <2>1, LenProperties DEF Object
  <2> QED BY <1>0, <1>4, <2>1, <2>2, <2>3
<1>7. events' \in Seq(Event) /\ \A k \in DOMAIN events' : events'[k].peer \in Object'
  <2>1. /\ events' \in Seq(Event) /\ DOMAIN events' = 1..(Len(events) + 1)
        /\ events'[Len(events) + 1] = e
        /\ \A k \in 1..Len(events) : k \in DOMAIN events /\ events'[k] = events[k]
    BY <1>1, <1>2, <1>5
  <2>2. Len(events) \in Nat
    BY <1>2
  <2>3. \A k \in 1..(Len(events) + 1) : k = Len(events) + 1 \/ k \in 1..Len(events)
    BY <2>2
  <2> QED BY <1>2, <1>5, <1>6, <2>1, <2>3
<1>8. DOMAIN peers' \subseteq Id /\ \A i \in DOMAIN peers' : peers'[i] \in Object'
  BY <1>1, <1>2, <1>6
<1>9. UseInv'
  <2>1. \A t \in Thread : Helpers(held[t], n) = 0
    <3> SUFFICES ASSUME NEW t \in Thread PROVE Helpers(held[t], n) = 0
      OBVIOUS
    <3>1. held[t] \in Seq(Object)
      BY <1>2
    <3>2. \A k \in DOMAIN held[t] : held[t][k] \in Object
      BY <3>1
    <3> QED BY <1>4, <3>2 DEF Helpers, Bit
  <2>2. Uses(n) = 0
    BY <2>1 DEF Uses, Thread
  <2>3. \A o : Uses(o)' = Uses(o)
    BY <1>1 DEF Uses
  <2>4. heap'[n].usage = Uses(n)' /\ heap'[n].frees = 0 /\ ~heap'[n].pendingDeletion
    BY <1>3, <1>6, <2>2, <2>3
  <2>5. \A o \in Object :
            /\ heap'[o].usage = Uses(o)'
            /\ heap'[o].frees = IF heap'[o].pendingDeletion THEN Bit(heap'[o].usage = 0) ELSE 0
    BY <1>6, <2>3 DEF IInv, UseInv, Bit
  <2>6. running' # "done"
    BY <1>1
  <2> QED BY <1>6, <2>4, <2>5, <2>6 DEF UseInv, Bit
<1>10. PlaceInv'
  <2>1. \A t \in Thread : \A o : /\ Dooms(t, o)' <=> Dooms(t, o)
                                 /\ Dooms(t, o) => o \in Object
    BY <1>1 DEF Dooms, IInv, PlaceInv
  <2>2. ASSUME NEW i \in DOMAIN peers'
        PROVE  /\ heap'[peers'[i]].id = i /\ ~heap'[peers'[i]].pendingDeletion
               /\ \A t \in Thread : ~Dooms(t, peers[i])'
    <3>1. CASE i = id
      BY <1>1, <1>3, <1>4, <1>6, <2>1, <3>1
    <3>2. CASE i # id
      <4>1. i \in DOMAIN peers /\ peers'[i] = peers[i] /\ peers[i] \in Object
        BY <1>1, <1>2, <3>2
      <4>2. heap'[peers[i]] = heap[peers[i]]
        BY <1>6, <4>1
      <4>3. /\ heap[peers[i]].id = i /\ ~heap[peers[i]].pendingDeletion
            /\ \A t \in Thread : ~Dooms(t, peers[i])
        BY <4>1 DEF IInv, PlaceInv
      <4> QED BY <1>1, <4>1, <4>2, <4>3 DEF Dooms
    <3> QED BY <3>1, <3>2
  <2>3. ASSUME NEW t \in Thread, doomed'[t].step # "none"
        PROVE  /\ doomed'[t].peer \in Object' /\ ~heap'[doomed'[t].peer].pendingDeletion
               /\ \A u \in Thread \ {t} : ~Dooms(u, doomed[t].peer)'
    BY <1>1, <1>6, <2>1, <2>3, ZenonT(60) DEF IInv, PlaceInv
  <2>4. ASSUME NEW o \in Object', ~heap'[o].pendingDeletion
        PROVE  \/ \E i \in DOMAIN peers' : peers'[i] = o
               \/ \E t \in Thread : Dooms(t, o)'
    <3>1. CASE o = n
      BY <1>1, <3>1
    <3>2. CASE o \in Object
      <4>1. ~heap[o].pendingDeletion
        BY <1>6, <2>4, <3>2
      <4>2. (\E i \in DOMAIN peers : peers[i] = o) \/ \E t \in Thread : Dooms(t, o)
        BY <3>2, <4>1 DEF IInv, PlaceInv
      <4> QED BY <1>1, <2>1, <4>2
    <3> QED BY <1>6, <3>1, <3>2
  <2> QED BY <2>2, <2>3, <2>4 DEF PlaceInv
<1>11. OneAddressOnePeer'
  <2>1. \A i \in DOMAIN peers : heap[peers[i]].address # heap'[peers'[id]].address
    BY <1>1, <1>3, <1>6 DEF IInv, ReceiverInv
  <2>2. \A i \in DOMAIN peers : heap'[peers'[i]].address = heap[peers[i]].address
    BY <1>1, <1>2, <1>6
  <2>3. \A i, j \in DOMAIN peers : heap[peers[i]].address = heap[peers[j]].address => i = j
    BY DEF IInv, OneAddressOnePeer
  <2>4. ASSUME NEW i \in DOMAIN peers', NEW j \in DOMAIN peers',
               heap'[peers'[i]].address = heap'[peers'[j]].address
        PROVE  i = j
    <3>1. (i = id \/ i \in DOMAIN peers) /\ (j = id \/ j \in DOMAIN peers)
      BY <1>1
    <3>2. CASE i = id
      BY <2>1, <2>2, <2>4, <3>1, <3>2
    <3>3. CASE j = id
      BY <2>1, <2>2, <2>4, <3>1, <3>3
    <3>4. CASE i # id /\ j # id
      BY <2>2, <2>3, <2>4, <3>1, <3>4
    <3> QED BY <3>2, <3>3, <3>4
  <2> QED BY <2>4 DEF OneAddressOnePeer
<1> QED BY <1>0, <1>1, <1>4, <1>6, <1>7, <1>8, <1>9, <1>10, <1>11 DEF Core

\* ~Connection deletes what is left; no thread holds or drops a peer any more.
LEMMA DeleteStep ==
    ASSUME IInv, running # "done", DeletePeers
    PROVE  /\ heap' \in Seq(Peer) /\ Len(heap') = Len(heap) /\ Object' = Object
           /\ DOMAIN peers' = {} /\ DoneInv' /\ Core'
<1>1. /\ receiver.pc = "socket" /\ sender.pc = "idle" /\ \A t \in Thread : NotInDelete(t)
      /\ running' = "done" /\ DOMAIN peers' = {}
      /\ UNCHANGED <<held, doomed, receiver, sender>>
      /\ heap' = [o \in Object |-> IF \E i \in DOMAIN peers : peers[i] = o
                                   THEN [heap[o] EXCEPT !.frees = @ + 1] ELSE heap[o]]
  BY DEF DeletePeers, ReceiverAt, SenderAt, Thread
<1>2. heap \in Seq(Peer) /\ Object = 1..Len(heap) /\ Len(heap) \in Nat
  BY LenProperties DEF IInv, Types, TypeOK, Object
<1>3. \A o \in Object : /\ heap[o] \in Peer
                        /\ [heap[o] EXCEPT !.frees = @ + 1] \in Peer
                        /\ [heap[o] EXCEPT !.frees = @ + 1].usage = heap[o].usage
                        /\ [heap[o] EXCEPT !.frees = @ + 1].frees = heap[o].frees + 1
                        /\ [heap[o] EXCEPT !.frees = @ + 1].pendingDeletion = heap[o].pendingDeletion
  <2>1. \A o \in Object : heap[o] \in Peer
    BY <1>2, ElementOfSeq
  <2> QED BY <2>1 DEF Peer
<1>4. heap' \in Seq(Peer) /\ Len(heap') = Len(heap) /\ Object' = Object
  <2>1. heap' \in [1..Len(heap) -> Peer]
    BY <1>1, <1>2, <1>3
  <2> QED BY <1>2, <2>1 DEF Object
<1>5. \A o \in Object : Uses(o)' = 0 /\ Uses(o) = 0
  <2>1. \A t \in Thread : held[t] \in Seq(Object) /\ Len(held[t]) = 0
    BY <1>1 DEF IInv, Types, TypeOK, StackInv, ReceiverDepths, SenderDepths, Thread
  <2>2. \A t \in Thread : held[t] = <<>>
    BY <2>1, EmptySeq
  <2> QED BY <1>1, <2>2, NoHelpers DEF Uses, Thread
<1>6. \A o \in Object : heap[o].usage = 0
  BY <1>5 DEF IInv, UseInv
<1>7. \A o \in Object : ~heap[o].pendingDeletion <=> \E i \in DOMAIN peers : peers[i] = o
  BY <1>1 DEF IInv, PlaceInv, Dooms, NotInDelete
<1>8. UseInv'
  <2> SUFFICES ASSUME NEW o \in Object
               PROVE  /\ heap'[o].usage = 0
                      /\ heap'[o].frees = IF heap'[o].pendingDeletion THEN Bit(0 = 0) ELSE Bit(TRUE)
    BY <1>1, <1>4, <1>5, ZenonT(60) DEF UseInv, Bit
  <2>1. heap[o].frees = IF heap[o].pendingDeletion THEN 1 ELSE 0
    BY <1>6 DEF IInv, UseInv, Bit
  <2>2. CASE \E i \in DOMAIN peers : peers[i] = o
    <3>1. heap'[o] = [heap[o] EXCEPT !.frees = @ + 1]
      BY <1>1, <2>2
    <3> QED BY <1>3, <1>6, <1>7, <2>1, <2>2, <3>1 DEF Bit
  <2>3. CASE ~\E i \in DOMAIN peers : peers[i] = o
    <3>1. heap'[o] = heap[o]
      BY <1>1, <2>3
    <3> QED BY <1>6, <1>7, <2>1, <2>3, <3>1 DEF Bit
  <2> QED BY <2>2, <2>3
<1>9. PlaceInv' /\ OneAddressOnePeer' /\ DoneInv'
  BY <1>1 DEF PlaceInv, OneAddressOnePeer, DoneInv, NotInDelete
<1> QED BY <1>1, <1>4, <1>8, <1>9 DEF Core
-----------------------------------------------------------------------------
(* The steps.                                                                *)

Doomed == [Thread -> [peer : Object \union {0}, step : {"none", "event", "drop"}]]
Receiver == [pc : {"socket", "lookup", "create", "find", "check", "process", "handle", "data",
                   "unwind"},
             id : Id \union {NoId}, known : BOOLEAN, address : Address \union {NoAddress}]
Sender == [pc : {"idle", "timeouts", "commands", "sending"}, todo : SUBSET Id, marked : SUBSET Id]

\* The heap has the same peers, by the same names.
SameHeap ==
    /\ heap' \in Seq(Peer) /\ Len(heap') = Len(heap) /\ Object' = Object
    /\ \A o \in Object : heap'[o].id = heap[o].id /\ heap'[o].address = heap[o].address

LEMMA HeapKept ==
    ASSUME Types, UNCHANGED heap
    PROVE  SameHeap
BY DEF Types, TypeOK, SameHeap, Object

\* Steps of the receive thread that leave the container alone.
LEMMA ReceiveMoves ==
    ASSUME IInv, running # "done", running' = running, SameHeap, Core',
           UNCHANGED <<peers, commands, doomed, sender, clients>>,
           held' \in [Thread -> Seq(Object)], held'["send"] = held["send"],
           Len(held'["receive"]) \in ReceiverDepths(receiver'.pc),
           events' \in Seq(Event), \A k \in DOMAIN events' : events'[k].peer \in Object,
           receiver' \in Receiver, Datagram(receiver'),
           receiver'.pc = "create" =>
               \A i \in DOMAIN peers : heap[peers[i]].address # receiver'.address
    PROVE  IInv'
<1>1. Types'
  BY DEF IInv, Types, TypeOK, SameHeap, Receiver
<1>2. StackInv'
  BY DEF IInv, StackInv
<1>3. ReceiverInv'
  BY DEF IInv, ReceiverInv, SameHeap, Types, TypeOK
<1> QED BY <1>1, <1>2, <1>3 DEF IInv, DoneInv, Core

\* Steps of the send thread that leave the container alone.
LEMMA SendMoves ==
    ASSUME IInv, running # "done", running' = running, SameHeap, Core',
           UNCHANGED <<peers, events, doomed, receiver, clients>>,
           held' \in [Thread -> Seq(Object)], held'["receive"] = held["receive"],
           Len(held'["send"]) \in SenderDepths(sender'.pc),
           commands' \in Seq(Id), sender' \in Sender
    PROVE  IInv'
<1>1. Types'
  BY DEF IInv, Types, TypeOK, SameHeap, Sender
<1>2. StackInv'
  BY DEF IInv, StackInv
<1>3. ReceiverInv'
  BY DEF IInv, ReceiverInv, SameHeap, Types, TypeOK
<1> QED BY <1>1, <1>2, <1>3 DEF IInv, DoneInv, Core

\* deletePeer begins, called by either thread.
LEMMA EraseMoves ==
    ASSUME IInv, running # "done", running' = running, UNCHANGED <<heap, held, events, commands, clients>>,
           Core', doomed' \in Doomed,
           DOMAIN peers' \subseteq DOMAIN peers, \A i \in DOMAIN peers' : peers'[i] = peers[i],
           receiver' \in Receiver, Datagram(receiver'), sender' \in Sender,
           Len(held["receive"]) \in ReceiverDepths(receiver'.pc),
           Len(held["send"]) \in SenderDepths(sender'.pc),
           receiver'.pc = "create" => UNCHANGED receiver
    PROVE  IInv'
<1>1. Object' = Object
  BY DEF Object
<1>2. Types'
  BY <1>1 DEF IInv, Types, TypeOK, Doomed, Receiver, Sender
<1>3. StackInv'
  BY DEF IInv, StackInv
<1>4. ReceiverInv'
  BY DEF IInv, ReceiverInv
<1> QED BY <1>2, <1>3, <1>4 DEF IInv, DoneInv, Core

\* Nothing changes that the counts and places are about.
LEMMA CoreKept ==
    ASSUME IInv, UNCHANGED <<heap, peers, held, doomed, running>>
    PROVE  Core'
BY DEF IInv, Core, UseInv, Uses, PlaceInv, Dooms, OneAddressOnePeer, Object

\* Where the receive thread goes.
LEMMA Goes ==
    ASSUME Types, NEW pc \in {"socket", "create", "check", "process", "handle", "data", "unwind"},
           ReceiverGoes(pc)
    PROVE  /\ receiver' \in Receiver /\ receiver'.pc = pc
           /\ pc # "socket" => receiver'.id = receiver.id
           /\ pc = "create" => receiver'.address = receiver.address
BY DEF Types, TypeOK, ReceiverGoes, Receiver, AtSocket

\* Steps of the receive thread that only look, or put an event.
LEMMA ReceiveLooks ==
    ASSUME IInv, running # "done", UNCHANGED <<heap, peers, commands, held, doomed, sender, clients, running>>,
           events' \in Seq(Event), \A k \in DOMAIN events' : events'[k].peer \in Object,
           receiver' \in Receiver, Datagram(receiver'),
           Len(held["receive"]) \in ReceiverDepths(receiver'.pc),
           receiver'.pc = "create" =>
               \A i \in DOMAIN peers : heap[peers[i]].address # receiver'.address
    PROVE  IInv'
<1>1. SameHeap /\ Core'
  BY HeapKept, CoreKept DEF IInv
<1>2. held' \in [Thread -> Seq(Object)]
  BY DEF IInv, Types, TypeOK
<1> QED BY <1>1, <1>2, ReceiveMoves

LEMMA SendLooks ==
    ASSUME IInv, running # "done", UNCHANGED <<heap, peers, events, held, doomed, receiver, clients, running>>,
           commands' \in Seq(Id), sender' \in Sender,
           Len(held["send"]) \in SenderDepths(sender'.pc)
    PROVE  IInv'
<1>1. SameHeap /\ Core'
  BY HeapKept, CoreKept DEF IInv
<1>2. held' \in [Thread -> Seq(Object)]
  BY DEF IInv, Types, TypeOK
<1> QED BY <1>1, <1>2, SendMoves
\* The receive thread, in the order of its program counter.
LEMMA ReceiveStep ==
    ASSUME IInv, running # "done", NEW a \in Address, NEW id \in Id \union {NoId}, Receive(a, id)
    PROVE  IInv'
<1>1. /\ receiver.pc = "socket"
      /\ receiver' = [pc |-> IF id = NoId THEN "lookup" ELSE "find", id |-> id,
                      known |-> id # NoId, address |-> a]
      /\ UNCHANGED <<heap, peers, events, commands, held, doomed, sender, clients, running>>
  BY DEF Receive, ReceiverAt
<1>2. receiver' \in Receiver /\ Datagram(receiver') /\ receiver'.pc \in {"lookup", "find"}
  BY <1>1 DEF Receiver, Datagram
<1>3. Len(held["receive"]) \in ReceiverDepths(receiver'.pc)
  BY <1>1, <1>2 DEF IInv, StackInv, ReceiverDepths
<1> QED BY <1>1, <1>2, <1>3, ReceiveLooks DEF IInv, Types, TypeOK

LEMMA LookupPeerStep ==
    ASSUME IInv, running # "done", LookupPeer
    PROVE  IInv'
<1>1. /\ receiver.pc = "lookup" /\ receiver \in Receiver /\ receiver.address \in Address
      /\ UNCHANGED <<heap, peers, events, commands, held, doomed, sender, clients, running>>
      /\ Len(held["receive"]) = 0
  BY DEF LookupPeer, ReceiverAt, IInv, Types, TypeOK, Receiver, ReceiverInv, Datagram, StackInv,
         ReceiverDepths
<1>2. CASE \E i \in DOMAIN peers : receiver' = [receiver EXCEPT !.pc = "find", !.id = i]
  <2>1. PICK i \in DOMAIN peers : receiver' = [receiver EXCEPT !.pc = "find", !.id = i]
    BY <1>2
  <2>2. i \in Id
    BY DEF IInv, Types, TypeOK
  <2>3. receiver' \in Receiver /\ receiver'.pc = "find" /\ receiver'.id = i
    BY <1>1, <2>1, <2>2 DEF Receiver
  <2>4. Datagram(receiver') /\ 0 \in ReceiverDepths(receiver'.pc)
    BY <2>2, <2>3 DEF Datagram, ReceiverDepths
  <2> QED BY <1>1, <2>3, <2>4, ReceiveLooks DEF IInv, Types, TypeOK
<1>3. CASE /\ ReceiverGoes("create")
           /\ \A i \in DOMAIN peers : heap[peers[i]].address # receiver.address
  <2>1. receiver' \in Receiver /\ receiver'.pc = "create" /\ receiver'.address = receiver.address
    BY <1>3, Goes DEF IInv
  <2>2. Datagram(receiver') /\ 0 \in ReceiverDepths(receiver'.pc)
    BY <1>1, <2>1 DEF Datagram, ReceiverDepths
  <2> QED BY <1>1, <1>3, <2>1, <2>2, ReceiveLooks DEF IInv, Types, TypeOK
<1>4. \A i \in DOMAIN peers : ~heap[peers[i]].pendingDeletion
  BY DEF IInv, PlaceInv
<1> QED BY <1>2, <1>3, <1>4 DEF LookupPeer

LEMMA CreatePeerStep ==
    ASSUME IInv, running # "done", NEW id \in Id, CreatePeer(id)
    PROVE  IInv'
<1>1. /\ receiver.pc = "create" /\ receiver' = [receiver EXCEPT !.pc = "find", !.id = id]
      /\ UNCHANGED <<commands, held, doomed, sender, clients, running>>
      /\ receiver \in Receiver
  BY DEF CreatePeer, ReceiverAt, IInv, Types, TypeOK, Receiver
<1>2. receiver' \in Receiver /\ receiver'.pc = "find" /\ receiver'.id = id
  BY <1>1 DEF Receiver
<1>3. StackInv'
  BY <1>1, <1>2 DEF IInv, StackInv, ReceiverDepths
<1>4. ReceiverInv'
  BY <1>2 DEF ReceiverInv, Datagram
<1>5. /\ heap' \in Seq(Peer) /\ Len(heap') =< MaxPeers
      /\ Object' = Object \union {Len(heap) + 1}
      /\ DOMAIN peers' \subseteq Id /\ \A i \in DOMAIN peers' : peers'[i] \in Object'
      /\ events' \in Seq(Event) /\ \A k \in DOMAIN events' : events'[k].peer \in Object'
      /\ Core'
  BY CreateStep
<1>6. Types'
  <2>1. held' \in [Thread -> Seq(Object')]
    <3>1. \A t \in Thread : held[t] \in Seq(Object)
      BY DEF IInv, Types, TypeOK
    <3>2. \A t \in Thread : held[t] \in Seq(Object')
      BY <1>5, <3>1, SeqMonotonic
    <3> QED BY <1>1, <3>2 DEF IInv, Types, TypeOK
  <2>2. doomed' \in [Thread -> [peer : Object' \union {0}, step : {"none", "event", "drop"}]]
    BY <1>1, <1>5 DEF IInv, Types, TypeOK
  <2>3. \A i \in DOMAIN clients' : clients'[i] \in Object'
    BY <1>1, <1>5 DEF IInv, Types, TypeOK
  <2> QED BY <1>1, <1>2, <1>5, <2>1, <2>2, <2>3 DEF IInv, Types, TypeOK, Receiver
<1> QED BY <1>1, <1>3, <1>4, <1>5, <1>6 DEF IInv, DoneInv, Core

LEMMA RefuseNewPeerStep ==
    ASSUME IInv, running # "done", RefuseNewPeer
    PROVE  IInv'
<1>1. /\ receiver.pc = "create" /\ ReceiverGoes("socket")
      /\ UNCHANGED <<heap, peers, events, commands, held, doomed, sender, clients, running>>
  BY DEF RefuseNewPeer, ReceiverAt
<1>2. receiver' \in Receiver /\ receiver'.pc = "socket"
  BY <1>1, Goes DEF IInv
<1>3. Datagram(receiver') /\ Len(held["receive"]) \in ReceiverDepths(receiver'.pc)
  BY <1>1, <1>2 DEF Datagram, IInv, StackInv, ReceiverDepths
<1> QED BY <1>1, <1>2, <1>3, ReceiveLooks DEF IInv, Types, TypeOK

\* A PeerHelper more on the stack of the receive thread.
LEMMA ReceiveHolds ==
    ASSUME IInv, running # "done", UNCHANGED <<peers, events, commands, doomed, sender, clients, running>>,
           NEW id, Hold("receive", id), Len(held["receive"]) =< 1,
           receiver' \in Receiver, Datagram(receiver'), receiver'.pc # "create",
           Len(held["receive"]) + 1 \in ReceiverDepths(receiver'.pc)
    PROVE  IInv'
<1>1. "receive" \in Thread /\ "send" \in Thread \ {"receive"}
  BY DEF Thread
<1>2. /\ heap' \in Seq(Peer) /\ Len(heap') = Len(heap) /\ Object' = Object
      /\ \A o \in Object : heap'[o].id = heap[o].id /\ heap'[o].address = heap[o].address
      /\ held' \in [Thread -> Seq(Object)] /\ Len(held'["receive"]) = Len(held["receive"]) + 1
      /\ held'["send"] = held["send"] /\ Core'
  BY <1>1, HoldStep
<1> QED BY <1>2, ReceiveMoves DEF SameHeap, IInv, Types, TypeOK

\* A PeerHelper less.
LEMMA ReceiveReleases ==
    ASSUME IInv, running # "done", UNCHANGED <<peers, events, commands, doomed, sender, clients, running>>,
           Release("receive"), receiver' \in Receiver, Datagram(receiver'), receiver'.pc # "create",
           Len(held["receive"]) - 1 \in ReceiverDepths(receiver'.pc)
    PROVE  IInv'
<1>1. "receive" \in Thread /\ "send" \in Thread \ {"receive"}
  BY DEF Thread
<1>2. /\ heap' \in Seq(Peer) /\ Len(heap') = Len(heap) /\ Object' = Object
      /\ \A o \in Object : heap'[o].id = heap[o].id /\ heap'[o].address = heap[o].address
      /\ held' \in [Thread -> Seq(Object)] /\ Len(held'["receive"]) = Len(held["receive"]) - 1
      /\ held'["send"] = held["send"] /\ Core'
  BY <1>1, ReleaseStep
<1> QED BY <1>2, ReceiveMoves DEF SameHeap, IInv, Types, TypeOK
LEMMA FindPeerStep ==
    ASSUME IInv, running # "done", FindPeer
    PROVE  IInv'
<1>1. /\ receiver.pc = "find" /\ receiver.id \in Id /\ Len(held["receive"]) = 0
      /\ UNCHANGED <<peers, events, commands, doomed, sender, clients, running>>
  BY DEF FindPeer, ReceiverAt, IInv, ReceiverInv, Datagram, StackInv, ReceiverDepths
<1>2. CASE Hold("receive", receiver.id) /\ ReceiverGoes("check")
  <2>1. receiver' \in Receiver /\ receiver'.pc = "check" /\ receiver'.id = receiver.id
    BY <1>2, Goes DEF IInv
  <2>2. Datagram(receiver') /\ 0 + 1 \in ReceiverDepths(receiver'.pc)
    BY <1>1, <2>1 DEF Datagram, ReceiverDepths
  <2> QED BY <1>1, <1>2, <2>1, <2>2, ReceiveHolds
<1>3. CASE ReceiverGoes("socket") /\ UNCHANGED <<heap, held>>
  <2>1. receiver' \in Receiver /\ receiver'.pc = "socket"
    BY <1>3, Goes DEF IInv
  <2>2. Datagram(receiver') /\ 0 \in ReceiverDepths(receiver'.pc)
    BY <2>1 DEF Datagram, ReceiverDepths
  <2> QED BY <1>1, <1>3, <2>1, <2>2, ReceiveLooks DEF IInv, Types, TypeOK
<1> QED BY <1>2, <1>3 DEF FindPeer

\* The address is compared; halfOpen is all that may change.
LEMMA CheckSenderStep ==
    ASSUME IInv, running # "done", CheckSender
    PROVE  IInv'
<1> DEFINE o == Head(held["receive"])
<1>1. /\ receiver.pc = "check" /\ receiver.id \in Id /\ Len(held["receive"]) = 1
      /\ UNCHANGED <<peers, events, commands, held, doomed, sender, clients, running>>
      /\ heap' = heap \/ heap' = [heap EXCEPT ![o].halfOpen = FALSE]
  BY DEF CheckSender, ReceiverAt, IInv, ReceiverInv, Datagram, StackInv, ReceiverDepths
<1>2. PICK pc \in {"process", "unwind"} : ReceiverGoes(pc)
  BY DEF CheckSender
<1>3. receiver' \in Receiver /\ receiver'.pc = pc /\ receiver'.id = receiver.id
  BY <1>2, Goes DEF IInv
<1>4. Datagram(receiver') /\ 1 \in ReceiverDepths(receiver'.pc)
  BY <1>1, <1>3 DEF Datagram, ReceiverDepths
<1>5. CASE heap' = heap
  BY <1>1, <1>3, <1>4, <1>5, ReceiveLooks DEF IInv, Types, TypeOK
<1>6. CASE heap' = [heap EXCEPT ![o].halfOpen = FALSE]
  <2> DEFINE q == [heap[o] EXCEPT !.halfOpen = FALSE]
  <2>1. held["receive"] # <<>> /\ "receive" \in Thread
    BY <1>1 DEF Thread
  <2>2. o \in Object /\ heap[o] \in Peer
    BY <2>1, HeldIsUsed
  <2>3. /\ q \in Peer /\ q.id = heap[o].id /\ q.address = heap[o].address
        /\ q.usage = heap[o].usage /\ q.frees = heap[o].frees
        /\ q.pendingDeletion = heap[o].pendingDeletion /\ heap' = [heap EXCEPT ![o] = q]
    BY <1>6, <2>2 DEF Peer
  <2> HIDE DEF q, o
  <2>4. /\ heap' \in Seq(Peer) /\ Len(heap') = Len(heap) /\ Object' = Object
        /\ heap'[o] = q /\ \A x \in Object \ {o} : heap'[x] = heap[x]
    BY <2>2, <2>3, HeapExcept DEF IInv
  <2>5. \A x \in Object :
            /\ heap'[x].id = heap[x].id /\ heap'[x].address = heap[x].address
            /\ heap'[x].pendingDeletion = heap[x].pendingDeletion
            /\ heap'[x].usage = heap[x].usage /\ heap'[x].frees = heap[x].frees
    BY <2>3, <2>4
  <2>6. \A x \in Object :
            /\ heap'[x].usage = Uses(x)'
            /\ heap'[x].frees = IF heap[x].pendingDeletion THEN Bit(heap'[x].usage = 0) ELSE 0
    <3>1. \A x : Uses(x)' = Uses(x)
      BY <1>1 DEF Uses
    <3> QED BY <2>5, <3>1 DEF IInv, UseInv, Bit
  <2>7. Core'
    BY <1>1, <2>4, <2>5, <2>6, CountsFollow
  <2>8. SameHeap /\ held' \in [Thread -> Seq(Object)]
    BY <1>1, <2>4, <2>5 DEF SameHeap, IInv, Types, TypeOK
  <2> QED BY <1>1, <1>3, <1>4, <2>7, <2>8, ReceiveMoves DEF IInv, Types, TypeOK
<1> QED BY <1>1, <1>5, <1>6

LEMMA UnbufferStep ==
    ASSUME IInv, running # "done", NEW id \in Id, Unbuffer(id)
    PROVE  IInv'
<1>1. /\ receiver.pc = "socket" /\ Len(held["receive"]) = 0 /\ Hold("receive", id)
      /\ receiver' = [AtSocket EXCEPT !.pc = "process", !.id = id]
      /\ UNCHANGED <<peers, events, commands, doomed, sender, clients, running>>
  BY DEF Unbuffer, ReceiverAt, IInv, StackInv, ReceiverDepths
<1>2. receiver' \in Receiver /\ receiver'.pc = "process" /\ receiver'.id = id
  BY <1>1 DEF Receiver, AtSocket
<1>3. Datagram(receiver') /\ 0 + 1 \in ReceiverDepths(receiver'.pc)
  BY <1>2 DEF Datagram, ReceiverDepths
<1> QED BY <1>1, <1>2, <1>3, ReceiveHolds

LEMMA ProcessPacketStep ==
    ASSUME IInv, running # "done", ProcessPacket
    PROVE  IInv'
<1>1. /\ receiver.pc = "process" /\ receiver.id \in Id /\ Len(held["receive"]) = 1
      /\ UNCHANGED <<peers, events, commands, doomed, sender, clients, running>>
  BY DEF ProcessPacket, ReceiverAt, IInv, ReceiverInv, Datagram, StackInv, ReceiverDepths
<1>2. CASE Hold("receive", receiver.id) /\ ReceiverGoes("handle")
  <2>1. receiver' \in Receiver /\ receiver'.pc = "handle" /\ receiver'.id = receiver.id
    BY <1>2, Goes DEF IInv
  <2>2. Datagram(receiver') /\ 1 + 1 \in ReceiverDepths(receiver'.pc)
    BY <1>1, <2>1 DEF Datagram, ReceiverDepths
  <2> QED BY <1>1, <1>2, <2>1, <2>2, ReceiveHolds
<1>3. CASE ReceiverGoes("unwind") /\ UNCHANGED <<heap, held>>
  <2>1. receiver' \in Receiver /\ receiver'.pc = "unwind"
    BY <1>3, Goes DEF IInv
  <2>2. Datagram(receiver') /\ 1 \in ReceiverDepths(receiver'.pc)
    BY <2>1 DEF Datagram, ReceiverDepths
  <2> QED BY <1>1, <1>3, <2>1, <2>2, ReceiveLooks DEF IInv, Types, TypeOK
<1> QED BY <1>2, <1>3 DEF ProcessPacket

LEMMA HandleDataStep ==
    ASSUME IInv, running # "done", HandleData
    PROVE  IInv'
<1>1. /\ receiver.pc = "handle" /\ receiver.id \in Id /\ Len(held["receive"]) = 2
      /\ Release("receive")
      /\ UNCHANGED <<peers, events, commands, doomed, sender, clients, running>>
  BY DEF HandleData, ReceiverAt, IInv, ReceiverInv, Datagram, StackInv, ReceiverDepths
<1>2. PICK pc \in {"data", "unwind"} : ReceiverGoes(pc)
  BY DEF HandleData
<1>3. receiver' \in Receiver /\ receiver'.pc = pc /\ receiver'.id = receiver.id
  BY <1>2, Goes DEF IInv
<1>4. Datagram(receiver') /\ 2 - 1 \in ReceiverDepths(receiver'.pc)
  BY <1>1, <1>3 DEF Datagram, ReceiverDepths
<1> QED BY <1>1, <1>3, <1>4, ReceiveReleases

LEMMA HandleDiscoStep ==
    ASSUME IInv, running # "done", HandleDisco
    PROVE  IInv'
<1> DEFINE id == heap[Head(held["receive"])].id
<1>1. /\ receiver.pc = "handle" /\ Len(held["receive"]) = 2 /\ NotInDelete("receive")
      /\ UNCHANGED <<heap, events, commands, held, sender, clients, running>>
      /\ "receive" \in Thread /\ ReceiverGoes("unwind")
  BY DEF HandleDisco, ReceiverAt, IInv, StackInv, ReceiverDepths, Thread
<1>2. receiver' \in Receiver /\ receiver'.pc = "unwind"
  BY <1>1, Goes DEF IInv
<1>3. Datagram(receiver') /\ 2 \in ReceiverDepths(receiver'.pc)
  BY <1>2 DEF Datagram, ReceiverDepths
<1>4. Erase("receive", id) \/ UNCHANGED <<peers, doomed>>
  BY DEF HandleDisco
<1> HIDE DEF id
<1>5. CASE Erase("receive", id)
  <2>1. /\ doomed' \in Doomed /\ DOMAIN peers' \subseteq DOMAIN peers
        /\ \A i \in DOMAIN peers' : peers'[i] = peers[i]
        /\ Core'
    BY <1>1, <1>5, EraseStep DEF Doomed
  <2> QED BY <1>1, <1>2, <1>3, <2>1, EraseMoves DEF IInv, Types, TypeOK, StackInv, Sender
<1>6. CASE UNCHANGED <<peers, doomed>>
  BY <1>1, <1>2, <1>3, <1>6, ReceiveLooks DEF IInv, Types, TypeOK
<1> QED BY <1>4, <1>5, <1>6

\* Events go to the end of the queue.
LEMMA PutEvent ==
    ASSUME Types, NEW e \in Event, e.peer \in Object, events' = Append(events, e)
    PROVE  events' \in Seq(Event) /\ \A k \in DOMAIN events' : events'[k].peer \in Object
<1>1. /\ events \in Seq(Event) /\ \A k \in DOMAIN events : events[k].peer \in Object
  BY DEF Types, TypeOK
<1>2. /\ events' \in Seq(Event) /\ DOMAIN events' = 1..(Len(events) + 1)
      /\ events'[Len(events) + 1] = e
      /\ \A k \in 1..Len(events) : k \in DOMAIN events /\ events'[k] = events[k]
  BY <1>1
<1>3. \A k \in 1..(Len(events) + 1) : k = Len(events) + 1 \/ k \in 1..Len(events)
  BY <1>1
<1> QED BY <1>1, <1>2, <1>3

LEMMA ObjectBound ==
    ASSUME Types, NEW o \in Object PROVE o \in 1..MaxPeers
<1>1. /\ Len(heap) \in Nat /\ Len(heap) =< MaxPeers /\ o \in 1..Len(heap)
  BY LenProperties DEF Types, TypeOK, Object
<1> QED BY <1>1, PeerAssumption

LEMMA PutDataStep ==
    ASSUME IInv, running # "done", PutData
    PROVE  IInv'
<1> DEFINE o == Head(held["receive"])
           e == [type |-> "data", id |-> receiver.id, peer |-> o]
<1>1. /\ receiver.pc = "data" /\ receiver.id \in Id /\ Len(held["receive"]) = 1
      /\ events' = Append(events, e) /\ ReceiverGoes("unwind")
      /\ UNCHANGED <<heap, peers, commands, held, doomed, sender, clients, running>>
  BY DEF PutData, ReceiverAt, IInv, ReceiverInv, Datagram, StackInv, ReceiverDepths
<1>2. held["receive"] # <<>> /\ "receive" \in Thread
  BY <1>1 DEF Thread
<1>3. o \in Object /\ o \in 1..MaxPeers
  BY <1>2, HeldIsUsed, ObjectBound DEF IInv
<1> HIDE DEF o
<1>4. e \in Event /\ e.peer = o
  BY <1>1, <1>3 DEF Event
<1> HIDE DEF e
<1>5. events' \in Seq(Event) /\ \A k \in DOMAIN events' : events'[k].peer \in Object
  BY <1>1, <1>3, <1>4, PutEvent DEF IInv
<1>6. receiver' \in Receiver /\ receiver'.pc = "unwind"
  BY <1>1, Goes DEF IInv
<1>7. Datagram(receiver') /\ 1 \in ReceiverDepths(receiver'.pc)
  BY <1>6 DEF Datagram, ReceiverDepths
<1> QED BY <1>1, <1>5, <1>6, <1>7, ReceiveLooks

LEMMA UnwindStep ==
    ASSUME IInv, running # "done", Unwind
    PROVE  IInv'
<1>1. /\ receiver.pc = "unwind" /\ Len(held["receive"]) \in {0, 1, 2} /\ receiver \in Receiver
      /\ UNCHANGED <<peers, events, commands, doomed, sender, clients, running>>
  BY DEF Unwind, ReceiverAt, IInv, StackInv, ReceiverDepths, Types, TypeOK, Receiver
<1>2. CASE Release("receive") /\ UNCHANGED receiver
  <2>1. held["receive"] # <<>> /\ "receive" \in Thread
    BY <1>2 DEF Release, Thread
  <2>2. Len(held["receive"]) \in {1, 2}
    BY <2>1, HeldIsUsed
  <2>3. Datagram(receiver') /\ Len(held["receive"]) - 1 \in ReceiverDepths(receiver'.pc)
    <3>1. Len(held["receive"]) - 1 \in {0, 1, 2} /\ receiver'.pc = "unwind"
      BY <1>1, <1>2, <2>2
    <3> QED BY <3>1 DEF Datagram, ReceiverDepths
  <2> QED BY <1>1, <1>2, <2>3, ReceiveReleases
<1>3. CASE held["receive"] = <<>> /\ ReceiverGoes("socket") /\ UNCHANGED <<heap, held>>
  <2>1. receiver' \in Receiver /\ receiver'.pc = "socket" /\ Len(held["receive"]) = 0
    BY <1>3, Goes DEF IInv
  <2>2. Datagram(receiver') /\ 0 \in ReceiverDepths(receiver'.pc)
    BY <2>1 DEF Datagram, ReceiverDepths
  <2> QED BY <1>1, <1>3, <2>1, <2>2, ReceiveLooks DEF IInv, Types, TypeOK
<1> QED BY <1>2, <1>3 DEF Unwind
\* deletePeer, after the container, in either thread.
LEMMA PutRemovedStep ==
    ASSUME IInv, running # "done", NEW t \in Thread, PutRemoved(t)
    PROVE  IInv'
<1> DEFINE o == doomed[t].peer
           e == [type |-> "removed", id |-> heap[o].id, peer |-> o]
<1>1. /\ doomed[t].step = "event" /\ doomed' = [doomed EXCEPT ![t].step = "drop"]
      /\ events' = Append(events, e)
      /\ UNCHANGED <<heap, peers, commands, held, receiver, sender, clients, running>>
  BY DEF PutRemoved
<1>2. o \in Object /\ o \in 1..MaxPeers
  BY <1>1, ObjectBound DEF IInv, PlaceInv
<1>3. heap[o].id \in Id
  <2>1. heap[o] \in Peer
    BY <1>2, ElementOfSeq DEF IInv, Types, TypeOK, Object
  <2> QED BY <2>1, PeerFields
<1> HIDE DEF o
<1>4. e \in Event /\ e.peer = o
  BY <1>2, <1>3 DEF Event
<1> HIDE DEF e
<1>5. events' \in Seq(Event) /\ \A k \in DOMAIN events' : events'[k].peer \in Object
  BY <1>1, <1>2, <1>4, PutEvent DEF IInv
<1>6. /\ doomed' \in Doomed /\ \A u \in Thread : doomed'[u].peer = doomed[u].peer
      /\ \A u \in Thread : doomed'[u].step # "none" <=> doomed[u].step # "none"
  BY <1>1 DEF IInv, Types, TypeOK, Doomed
<1>7. Object' = Object /\ \A u \in Thread : \A x : Dooms(u, x)' <=> Dooms(u, x)
  BY <1>1, <1>6 DEF Object, Dooms
<1>8. Core'
  <2>1. UseInv' /\ OneAddressOnePeer'
    BY <1>1, <1>7 DEF IInv, UseInv, Uses, OneAddressOnePeer
  <2>2. PlaceInv'
    BY <1>1, <1>6, <1>7 DEF IInv, PlaceInv, Dooms
  <2> QED BY <2>1, <2>2 DEF Core
<1>9. Types'
  BY <1>1, <1>5, <1>6, <1>7 DEF IInv, Types, TypeOK, Doomed
<1>10. StackInv' /\ ReceiverInv'
  BY <1>1 DEF IInv, StackInv, ReceiverInv
<1>11. DoneInv'
  BY <1>1 DEF DoneInv
<1> QED BY <1>8, <1>9, <1>10, <1>11 DEF IInv, Core

LEMMA DropDoomedStep ==
    ASSUME IInv, running # "done", NEW t \in Thread, DropDoomed(t)
    PROVE  IInv'
<1>1. UNCHANGED <<peers, events, commands, held, receiver, sender, clients, running>>
  BY DEF DropDoomed
<1>2. /\ heap' \in Seq(Peer) /\ Len(heap') = Len(heap) /\ Object' = Object
      /\ \A o \in Object : heap'[o].id = heap[o].id /\ heap'[o].address = heap[o].address
      /\ doomed' \in Doomed /\ Core'
  BY DropStep DEF Doomed
<1>3. Types'
  BY <1>1, <1>2 DEF IInv, Types, TypeOK, Doomed
<1>4. StackInv'
  BY <1>1 DEF IInv, StackInv
<1>5. ReceiverInv'
  BY <1>1, <1>2 DEF IInv, ReceiverInv, Types, TypeOK
<1>6. DoneInv'
  BY <1>1 DEF DoneInv
<1> QED BY <1>2, <1>3, <1>4, <1>5, <1>6 DEF IInv, Core

\* The send thread takes a PeerHelper, gives it back, or moves on.
LEMMA SendHolds ==
    ASSUME IInv, running # "done", UNCHANGED <<peers, events, doomed, receiver, clients, running>>,
           NEW id, Hold("send", id), held["send"] = <<>>,
           commands' \in Seq(Id), sender' \in Sender, sender'.pc # "idle"
    PROVE  IInv'
<1>1. /\ "send" \in Thread /\ "receive" \in Thread \ {"send"}
      /\ Len(held["send"]) = 0 /\ Len(held["send"]) =< 1
  BY DEF Thread
<1>2. /\ heap' \in Seq(Peer) /\ Len(heap') = Len(heap) /\ Object' = Object
      /\ \A o \in Object : heap'[o].id = heap[o].id /\ heap'[o].address = heap[o].address
      /\ held' \in [Thread -> Seq(Object)] /\ Len(held'["send"]) = Len(held["send"]) + 1
      /\ held'["receive"] = held["receive"] /\ Core'
  <2>1. /\ UNCHANGED <<peers, doomed>> /\ running' = running
    OBVIOUS
  <2> QED BY <1>1, <2>1, HoldStep
<1>3. Len(held'["send"]) \in SenderDepths(sender'.pc)
  BY <1>1, <1>2 DEF SenderDepths
<1> QED BY <1>2, <1>3, SendMoves DEF SameHeap

LEMMA SendReleases ==
    ASSUME IInv, running # "done",
           UNCHANGED <<peers, events, commands, doomed, receiver, clients, running>>,
           Release("send"), sender' \in Sender
    PROVE  IInv'
<1>1. "send" \in Thread /\ "receive" \in Thread \ {"send"} /\ held["send"] # <<>>
  BY DEF Thread, Release
<1>2. /\ heap' \in Seq(Peer) /\ Len(heap') = Len(heap) /\ Object' = Object
      /\ \A o \in Object : heap'[o].id = heap[o].id /\ heap'[o].address = heap[o].address
      /\ held' \in [Thread -> Seq(Object)] /\ Len(held'["send"]) = Len(held["send"]) - 1
      /\ held'["receive"] = held["receive"] /\ Core'
  BY <1>1, ReleaseStep
<1>3. Len(held["send"]) \in {1, 2} /\ Len(held["send"]) \in {0, 1}
  BY <1>1, HeldIsUsed DEF IInv, StackInv, SenderDepths
<1>4. Len(held'["send"]) \in SenderDepths(sender'.pc)
  <2>1. Len(held["send"]) = 1
    BY <1>3
  <2>2. Len(held'["send"]) = 0
    BY <1>2, <2>1
  <2> QED BY <2>2 DEF SenderDepths
<1> QED BY <1>2, <1>4, SendMoves DEF SameHeap, IInv, Types, TypeOK

\* The loop of the send thread.
LEMMA LoopSteps ==
    ASSUME IInv, running # "done", StartIteration \/ StartSending \/ EndTimeouts \/ EndIteration
    PROVE  IInv'
<1>1. /\ UNCHANGED <<heap, peers, events, commands, held, doomed, receiver, clients, running>>
      /\ sender \in Sender /\ DOMAIN peers \subseteq Id /\ commands \in Seq(Id)
  BY DEF StartIteration, StartSending, StartLoop, EndTimeouts, EndIteration, IInv, Types, TypeOK,
         Sender
<1>2. sender' \in Sender /\ (sender'.pc = "idle" => held["send"] = <<>>)
  BY <1>1 DEF StartIteration, StartSending, StartLoop, EndTimeouts, EndIteration, LoopDone, Sender
<1>3. Len(held["send"]) \in {0, 1} /\ (held["send"] = <<>> => Len(held["send"]) = 0)
  BY DEF IInv, StackInv, SenderDepths
<1>4. Len(held["send"]) \in SenderDepths(sender'.pc)
  BY <1>2, <1>3 DEF SenderDepths
<1> QED BY <1>1, <1>2, <1>4, SendLooks

LEMMA VisitPeerStep ==
    ASSUME IInv, running # "done", NEW id \in Id, VisitPeer(id)
    PROVE  IInv'
<1>1. /\ UNCHANGED <<peers, events, commands, doomed, receiver, clients, running>>
      /\ sender.pc \in {"timeouts", "sending"} /\ held["send"] = <<>> /\ Len(held["send"]) = 0
      /\ sender' = [sender EXCEPT !.todo = @ \ {id}]
      /\ sender \in Sender /\ commands \in Seq(Id)
  BY DEF VisitPeer, SenderAt, IInv, Types, TypeOK, Sender
<1>2. sender' \in Sender /\ sender'.pc = sender.pc
  BY <1>1 DEF Sender
<1>3. CASE Hold("send", id)
  BY <1>1, <1>2, <1>3, SendHolds
<1>4. CASE UNCHANGED <<heap, held>>
  <2>1. Len(held["send"]) \in SenderDepths(sender'.pc)
    BY <1>1 DEF SenderDepths
  <2> QED BY <1>1, <1>2, <1>4, <2>1, SendLooks
<1> QED BY <1>3, <1>4 DEF VisitPeer

LEMMA LeaveSteps ==
    ASSUME IInv, running # "done", TimedOut \/ PendingDisconnect \/ LeavePeer
    PROVE  IInv'
<1>1. /\ UNCHANGED <<peers, events, commands, doomed, receiver, clients, running>>
      /\ Release("send") /\ sender \in Sender /\ "send" \in Thread
  BY DEF TimedOut, PendingDisconnect, LeavePeer, IInv, Types, TypeOK, Sender, Thread
<1>2. heap[Head(held["send"])].id \in Id
  BY <1>1, HeldIsUsed, PeerFields DEF Release
<1>3. sender' \in Sender
  BY <1>1, <1>2 DEF TimedOut, PendingDisconnect, LeavePeer, Sender
<1> QED BY <1>1, <1>3, SendReleases

LEMMA DeleteMarkedStep ==
    ASSUME IInv, running # "done", NEW id \in Id, DeleteMarked(id)
    PROVE  IInv'
<1>1. /\ UNCHANGED <<heap, events, commands, held, receiver, clients, running>>
      /\ NotInDelete("send") /\ "send" \in Thread /\ Len(held["send"]) = 0
      /\ sender.pc \in {"timeouts", "sending"} /\ sender' = [sender EXCEPT !.marked = @ \ {id}]
      /\ sender \in Sender /\ commands \in Seq(Id)
  BY DEF DeleteMarked, SenderAt, IInv, Types, TypeOK, Sender, Thread
<1>2. /\ sender' \in Sender /\ sender'.pc = sender.pc
      /\ Len(held["send"]) \in SenderDepths(sender'.pc)
  BY <1>1 DEF Sender, SenderDepths
<1>3. CASE Erase("send", id)
  <2>1. /\ doomed' \in Doomed /\ DOMAIN peers' \subseteq DOMAIN peers
        /\ \A i \in DOMAIN peers' : peers'[i] = peers[i]
        /\ Core'
    BY <1>1, <1>3, EraseStep DEF Doomed
  <2> QED BY <1>1, <1>2, <2>1, EraseMoves
          DEF IInv, Types, TypeOK, StackInv, Receiver, ReceiverInv
<1>4. CASE UNCHANGED <<peers, doomed>>
  BY <1>1, <1>2, <1>4, SendLooks
<1> QED BY <1>3, <1>4 DEF DeleteMarked

LEMMA TakeCommandStep ==
    ASSUME IInv, running # "done", TakeCommand
    PROVE  IInv'
<1>1. /\ UNCHANGED <<peers, events, doomed, receiver, sender, clients, running>>
      /\ sender.pc = "commands" /\ held["send"] = <<>> /\ Len(held["send"]) = 0
      /\ commands # <<>> /\ commands' = Tail(commands)
      /\ sender \in Sender /\ commands \in Seq(Id)
  BY DEF TakeCommand, SenderAt, IInv, Types, TypeOK, Sender
<1>2. commands' \in Seq(Id)
  BY <1>1, HeadTailProperties
<1>3. CASE Hold("send", Head(commands))
  BY <1>1, <1>2, <1>3, SendHolds
<1>4. CASE UNCHANGED <<heap, held>>
  <2>1. Len(held["send"]) \in SenderDepths(sender'.pc)
    BY <1>1 DEF SenderDepths
  <2> QED BY <1>1, <1>2, <1>4, <2>1, SendLooks
<1> QED BY <1>3, <1>4 DEF TakeCommand

\* The PeerHelper of disconnect_peer goes, and the peer is noted.
LEMMA DisconnectPeerStep ==
    ASSUME IInv, running # "done", DisconnectPeer
    PROVE  IInv'
<1> DEFINE o == Head(held["send"])
           n == heap[o].usage - 1
           f == IF heap[o].pendingDeletion /\ heap[o].usage = 1
                THEN heap[o].frees + 1 ELSE heap[o].frees
           c == Counted(heap[o], n, f)
           q == [c EXCEPT !.pendingDisconnect = TRUE]
<1>1. /\ UNCHANGED <<peers, events, commands, doomed, receiver, sender, clients, running>>
      /\ held["send"] # <<>> /\ held' = [held EXCEPT !["send"] = <<>>]
      /\ heap' = [DecUseCount(o) EXCEPT ![o].pendingDisconnect = TRUE]
      /\ "send" \in Thread /\ "receive" \in Thread \ {"send"}
      /\ Len(held["send"]) \in {0, 1} /\ held["send"] \in Seq(Object)
      /\ held \in [Thread -> Seq(Object)] /\ sender \in Sender
  BY DEF DisconnectPeer, IInv, Types, TypeOK, StackInv, SenderDepths, Thread, Sender
<1>2. /\ o \in Object /\ heap[o] \in Peer /\ heap[o].usage \in Nat \ {0}
      /\ Len(held["send"]) \in {1, 2}
  BY <1>1, HeldIsUsed
<1>3. Tail(held["send"]) = <<>> /\ Len(held["send"]) - 1 = 0
  <2>1. Len(held["send"]) = 1
    BY <1>1, <1>2
  <2>2. Tail(held["send"]) \in Seq(Object) /\ Len(Tail(held["send"])) = 0
    BY <1>1, <2>1, HeadTailProperties
  <2>3. Tail(held["send"]) = <<>>
    BY <2>2, EmptySeq, Zenon
  <2> QED BY <2>1, <2>3
<1>4. heap' = [heap EXCEPT ![o] = q]
  <2>1. DecUseCount(o) = [heap EXCEPT ![o] = c]
    BY DEF DecUseCount, Counted
  <2>2. heap \in Seq(Peer) /\ o \in DOMAIN heap
    BY <1>2 DEF IInv, Types, TypeOK, Object
  <2> HIDE DEF c
  <2>3. [heap EXCEPT ![o] = c][o] = c
    BY <2>2
  <2> QED BY <1>1, <2>1, <2>2, <2>3
<1>5. /\ c \in Peer /\ c.id = heap[o].id /\ c.address = heap[o].address
      /\ c.pendingDeletion = heap[o].pendingDeletion /\ c.usage = n /\ c.frees = f
  <2>1. n \in Nat /\ f \in Nat
    <3>1. heap[o].frees \in Nat
      BY <1>2, PeerFields
    <3> QED BY <1>2, <3>1
  <2> HIDE DEF o, n, f
  <2>2. heap[o] \in Peer
    BY <1>2
  <2> QED BY <2>1, <2>2, CountedFields
<1>6. /\ q \in Peer /\ q.id = heap[o].id /\ q.address = heap[o].address
      /\ q.pendingDeletion = heap[o].pendingDeletion /\ q.usage = n /\ q.frees = f
  <2> HIDE DEF c, n, f
  <2>1. /\ q \in Peer /\ q.id = c.id /\ q.address = c.address
        /\ q.pendingDeletion = c.pendingDeletion /\ q.usage = c.usage /\ q.frees = c.frees
    BY <1>5 DEF Peer
  <2> QED BY <1>5, <2>1
<1> HIDE DEF q, c
<1>7. /\ heap' \in Seq(Peer) /\ Len(heap') = Len(heap) /\ Object' = Object
      /\ \A x \in Object : heap'[x].id = heap[x].id /\ heap'[x].address = heap[x].address
      /\ held' \in [Thread -> Seq(Object)] /\ Len(held'["send"]) = Len(held["send"]) - 1
      /\ held'["receive"] = held["receive"] /\ Core'
  <2>1. held' = [held EXCEPT !["send"] = Tail(@)]
    BY <1>1, <1>3
  <2> QED BY <1>1, <1>4, <1>6, <2>1, DecStep, ZenonT(60)
<1>8. Len(held'["send"]) \in SenderDepths(sender'.pc)
  BY <1>3, <1>7 DEF SenderDepths
<1> QED BY <1>1, <1>7, <1>8, SendMoves DEF SameHeap, IInv, Types, TypeOK
\* The user's thread.
LEMMA ReceiveEventStep ==
    ASSUME IInv, running # "done", ReceiveEvent
    PROVE  IInv'
<1> DEFINE e == Head(events)
<1>1. /\ UNCHANGED <<heap, peers, commands, held, doomed, receiver, sender, running>>
      /\ events # <<>> /\ events' = Tail(events) /\ clients' = HandleEvent(clients, e)
      /\ events \in Seq(Event) /\ \A k \in DOMAIN events : events[k].peer \in Object
  BY DEF ReceiveEvent, IInv, Types, TypeOK
<1>2. /\ e \in Event /\ Tail(events) \in Seq(Event) /\ e.peer \in Object
      /\ \A k \in DOMAIN Tail(events) : Tail(events)[k].peer \in Object
  <2>1. /\ e \in Event /\ Tail(events) \in Seq(Event) /\ Len(Tail(events)) = Len(events) - 1
        /\ \A k \in 1..Len(Tail(events)) : Tail(events)[k] = events[k + 1]
    BY <1>1, HeadTailProperties
  <2>2. Len(events) \in Nat \ {0} /\ DOMAIN events = 1..Len(events) /\ e = events[1]
    BY <1>1, LenProperties, EmptySeq
  <2>3. DOMAIN Tail(events) = 1..Len(Tail(events))
    BY <2>1, LenProperties
  <2>4. 1 \in DOMAIN events /\ \A k \in DOMAIN Tail(events) : k + 1 \in DOMAIN events
    BY <2>1, <2>2, <2>3
  <2> QED BY <1>1, <2>1, <2>2, <2>3, <2>4
<1>3. e.id \in Id
  BY <1>2 DEF Event
<1> HIDE DEF e
<1>4. DOMAIN clients' \subseteq Id /\ \A i \in DOMAIN clients' : clients'[i] \in Object
  BY <1>1, <1>2, <1>3 DEF HandleEvent, IInv, Types, TypeOK
<1>5. Object' = Object /\ Core'
  BY <1>1, CoreKept DEF Object
<1>6. Types'
  BY <1>1, <1>2, <1>4, <1>5 DEF IInv, Types, TypeOK
<1>7. StackInv' /\ ReceiverInv' /\ DoneInv'
  BY <1>1 DEF IInv, StackInv, ReceiverInv, DoneInv
<1> QED BY <1>5, <1>6, <1>7 DEF IInv, Core

LEMMA DenyAccessStep ==
    ASSUME IInv, running # "done", NEW id \in Id, DenyAccess(id)
    PROVE  IInv'
<1>1. /\ UNCHANGED <<heap, peers, events, held, doomed, receiver, sender, clients, running>>
      /\ commands' = Append(commands, id)
  BY DEF DenyAccess
<1>2. commands' \in Seq(Id) /\ sender' \in Sender /\ Len(held["send"]) \in SenderDepths(sender'.pc)
  BY <1>1, AppendProperties DEF IInv, Types, TypeOK, StackInv, Sender
<1> QED BY <1>1, <1>2, SendLooks

LEMMA StopThreadsStep ==
    ASSUME IInv, running # "done", StopThreads
    PROVE  IInv'
<1>1. /\ UNCHANGED <<heap, peers, events, commands, held, doomed, receiver, sender, clients>>
      /\ running' = "joining"
  BY DEF StopThreads
<1>2. Object' = Object /\ Types'
  BY <1>1 DEF IInv, Types, TypeOK, Object
<1>3. UseInv' /\ PlaceInv' /\ OneAddressOnePeer'
  BY <1>1, <1>2 DEF IInv, UseInv, Uses, PlaceInv, Dooms, OneAddressOnePeer, Bit
<1>4. StackInv' /\ ReceiverInv' /\ DoneInv'
  BY <1>1 DEF IInv, StackInv, ReceiverInv, DoneInv
<1> QED BY <1>2, <1>3, <1>4 DEF IInv

LEMMA DeletePeersStep ==
    ASSUME IInv, running # "done", DeletePeers
    PROVE  IInv'
<1>1. /\ UNCHANGED <<events, commands, held, doomed, receiver, sender, clients>>
      /\ running' = "done" /\ receiver.pc = "socket"
  BY DEF DeletePeers, ReceiverAt
<1>2. /\ heap' \in Seq(Peer) /\ Len(heap') = Len(heap) /\ Object' = Object
      /\ DOMAIN peers' = {} /\ DoneInv' /\ Core'
  BY DeleteStep
<1>3. Types'
  BY <1>1, <1>2 DEF IInv, Types, TypeOK
<1>4. StackInv' /\ ReceiverInv'
  BY <1>1 DEF IInv, StackInv, ReceiverInv
<1> QED BY <1>2, <1>3, <1>4 DEF IInv, Core

\* Nothing happens when the Connection is gone.
LEMMA NothingWhenDone ==
    ASSUME IInv, Next
    PROVE  running # "done"
<1> SUFFICES ASSUME running = "done" PROVE FALSE
  OBVIOUS
<1>1. /\ receiver.pc = "socket" /\ sender.pc = "idle"
      /\ \A t \in Thread : doomed[t].step = "none"
  BY DEF IInv, DoneInv, NotInDelete
<1>2. "receive" \in Thread /\ "send" \in Thread
  BY DEF Thread
<1>3. ~ReceiveThread
  BY <1>1, <1>2 DEF ReceiveThread, ReceiverAt, Receive, Unbuffer, LookupPeer, CreatePeer,
        RefuseNewPeer, FindPeer, CheckSender, ProcessPacket, HandleData, HandleDisco, PutData,
        Unwind, PutRemoved, DropDoomed
<1>4. ~SendThread
  BY <1>1, <1>2 DEF SendThread, SenderAt, StartIteration, StartLoop, VisitPeer, TimedOut,
        PendingDisconnect, LeavePeer, DeleteMarked, EndTimeouts, TakeCommand, DisconnectPeer,
        StartSending, EndIteration, PutRemoved, DropDoomed
<1>5. ~User
  BY DEF User, ReceiveEvent, DenyAccess, StopThreads, DeletePeers
<1> QED BY <1>3, <1>4, <1>5 DEF Next

LEMMA NextInvariant ==
    IInv /\ [Next]_vars => IInv'
<1> SUFFICES ASSUME IInv, [Next]_vars PROVE IInv'
  OBVIOUS
<1>1. CASE UNCHANGED vars
  BY <1>1 DEF vars, IInv, Types, TypeOK, StackInv, ReceiverInv, DoneInv, UseInv, Uses, PlaceInv,
              Dooms, OneAddressOnePeer, Object, NotInDelete
<1>2. CASE Next
  <2>1. running # "done" /\ "receive" \in Thread /\ "send" \in Thread
    BY <1>2, NothingWhenDone DEF Thread
  <2>2. CASE ReceiveThread
    BY <2>1, <2>2, ReceiveStep, UnbufferStep, LookupPeerStep, CreatePeerStep, RefuseNewPeerStep,
       FindPeerStep, CheckSenderStep, ProcessPacketStep, HandleDataStep, HandleDiscoStep,
       PutDataStep, UnwindStep, PutRemovedStep, DropDoomedStep DEF ReceiveThread
  <2>3. CASE SendThread
    BY <2>1, <2>3, LoopSteps, VisitPeerStep, LeaveSteps, DeleteMarkedStep, TakeCommandStep,
       DisconnectPeerStep, PutRemovedStep, DropDoomedStep DEF SendThread
  <2>4. CASE User
    BY <2>1, <2>4, ReceiveEventStep, DenyAccessStep, StopThreadsStep, DeletePeersStep DEF User
  <2> QED BY <1>2, <2>2, <2>3, <2>4 DEF Next
<1> QED BY <1>1, <1>2

LEMMA Invariant == Spec => []IInv
BY InitInvariant, NextInvariant, PTL DEF Spec

-----------------------------------------------------------------------------
(* The theorems.                                                             *)

\* Every variable keeps to the values the code's types allow; no use count goes below 0.
THEOREM TypeCorrect == Spec => []TypeOK
<1>1. IInv => TypeOK
  BY DEF IInv, Types
<1> QED BY <1>1, Invariant, PTL

\* Where the peers that can still be got at are.
LEMMA ReachableIs ==
    ASSUME NEW o
    PROVE  o \in Reachable <=> \/ \E i \in DOMAIN peers : peers[i] = o
                               \/ \E t \in Thread : \E k \in DOMAIN held[t] : held[t][k] = o
                               \/ \E t \in Thread : Dooms(t, o)
<1> DEFINE A == {peers[i] : i \in DOMAIN peers}
           F(t) == {held[t][k] : k \in DOMAIN held[t]}
           B == UNION {F(t) : t \in Thread}
           C == {doomed[t].peer : t \in {u \in Thread : doomed[u].step # "none"}}
<1>1. Reachable = A \union C \union B
  BY DEF Reachable
<1>2. o \in A <=> \E i \in DOMAIN peers : peers[i] = o
  BY Zenon
<1>3. o \in B <=> \E t \in Thread : \E k \in DOMAIN held[t] : held[t][k] = o
  <2>1. \A t \in Thread : o \in F(t) <=> \E k \in DOMAIN held[t] : held[t][k] = o
    BY Zenon
  <2> HIDE DEF F
  <2>2. o \in B <=> \E t \in Thread : o \in F(t)
    BY Zenon
  <2> QED BY <2>1, <2>2, Zenon
<1>4. o \in C <=> \E t \in Thread : Dooms(t, o)
  BY Zenon DEF Dooms
<1> HIDE DEF A, B, C
<1> QED BY <1>1, <1>2, <1>3, <1>4, Zenon

\* deletePeer and the PeerHelpers never let a thread get at a deleted Peer.
THEOREM NoLateUse == Spec => []NoUseAfterFree
<1>1. IInv => NoUseAfterFree
  <2> SUFFICES ASSUME IInv, NEW o \in Reachable PROVE heap[o].frees = 0
    BY DEF NoUseAfterFree
  <2>1. CASE \E i \in DOMAIN peers : peers[i] = o
    <3>1. PICK i \in DOMAIN peers : peers[i] = o
      BY <2>1
    <3>2. o \in Object /\ ~heap[o].pendingDeletion /\ running # "done"
      BY <3>1 DEF IInv, Types, TypeOK, PlaceInv, DoneInv
    <3> QED BY <3>2 DEF IInv, UseInv, Bit
  <2>2. CASE \E t \in Thread : \E k \in DOMAIN held[t] : held[t][k] = o
    <3>1. PICK t \in Thread : \E k \in DOMAIN held[t] : held[t][k] = o
      BY <2>2
    <3>2. PICK k \in DOMAIN held[t] : held[t][k] = o
      BY <3>1
    <3>3. held[t] \in Seq(Object) /\ Len(held[t]) =< 2 /\ Len(held[t]) \in Nat
          /\ DOMAIN held[t] = 1..Len(held[t])
      BY DepthsSmall, LenProperties DEF IInv, Types, TypeOK
    <3>4. o \in Object /\ k \in {1, 2}
      BY <3>2, <3>3
    <3>5. Helpers(held[t], o) > 0 /\ \A u \in Thread : Helpers(held[u], o) \in Nat
      BY <3>2, <3>4, HelpersType
    <3>6. heap[o].usage > 0
      BY <3>4, <3>5 DEF IInv, UseInv, Uses, Thread
    <3>7. running # "done"
      <4>1. ASSUME running = "done" PROVE Len(held[t]) = 0
        BY <4>1 DEF IInv, DoneInv, StackInv, ReceiverDepths, SenderDepths, Thread
      <4> QED BY <3>2, <3>3, <4>1
    <3> QED BY <3>4, <3>6, <3>7 DEF IInv, UseInv, Bit
  <2>3. CASE \E t \in Thread : Dooms(t, o)
    <3>1. o \in Object /\ ~heap[o].pendingDeletion /\ running # "done"
      BY <2>3 DEF IInv, PlaceInv, DoneInv, Dooms, NotInDelete
    <3> QED BY <3>1 DEF IInv, UseInv, Bit
  <2> QED BY <2>1, <2>2, <2>3, ReachableIs
<1> QED BY <1>1, Invariant, PTL

\* Every Peer is deleted, once, when nothing leads to it any more.
THEOREM DeletedOnce == Spec => []FreedWhenForgotten
<1>1. IInv => FreedWhenForgotten
  <2> SUFFICES ASSUME IInv, NEW o \in Object, o \notin Reachable PROVE heap[o].frees = 1
    BY DEF FreedWhenForgotten
  <2>1. /\ \A i \in DOMAIN peers : peers[i] # o
        /\ \A t \in Thread : ~Dooms(t, o)
        /\ \A t \in Thread : \A k \in DOMAIN held[t] : held[t][k] # o
    BY ReachableIs, Zenon
  <2>2. heap[o].usage = 0
    BY <2>1 DEF IInv, UseInv, Uses, Helpers, Bit, Thread
  <2>3. heap[o].pendingDeletion \/ running = "done"
    BY <2>1 DEF IInv, PlaceInv
  <2> QED BY <2>2, <2>3 DEF IInv, UseInv, Bit
<1> QED BY <1>1, Invariant, PTL

\* lookupPeer and createPeer never give an address two peers.
THEOREM OnePeerPerAddress == Spec => []OneAddressOnePeer
<1>1. IInv => OneAddressOnePeer
  BY DEF IInv
<1> QED BY <1>1, Invariant, PTL
-----------------------------------------------------------------------------
(* The user's clients follow the peers.                                      *)

\* A map of clients.
Known == UNION {[ids -> 1..MaxPeers] : ids \in SUBSET Id}

LEMMA KnownIs ==
    ASSUME NEW m \in Known
    PROVE  /\ DOMAIN m \subseteq Id /\ \A i \in DOMAIN m : m[i] \in 1..MaxPeers
           /\ m = [i \in DOMAIN m |-> m[i]]
<1>1. PICK ids \in SUBSET Id : m \in [ids -> 1..MaxPeers]
  BY DEF Known
<1> QED BY <1>1

LEMMA IsKnown ==
    ASSUME NEW ids \in SUBSET Id, NEW m \in [ids -> 1..MaxPeers]
    PROVE  m \in Known
<1>1. [ids -> 1..MaxPeers] \in {[s -> 1..MaxPeers] : s \in SUBSET Id}
  BY Zenon
<1> QED BY <1>1, Zenon DEF Known

\* What an event makes of it.
LEMMA HandleAdded ==
    ASSUME NEW m \in Known, NEW e \in Event, e.type = "added", e.id \notin DOMAIN m
    PROVE  /\ HandleEvent(m, e) \in Known /\ DOMAIN HandleEvent(m, e) = DOMAIN m \union {e.id}
           /\ HandleEvent(m, e)[e.id] = e.peer
           /\ \A i \in DOMAIN m : HandleEvent(m, e)[i] = m[i]
<1> DEFINE g == [i \in DOMAIN m \union {e.id} |-> IF i = e.id THEN e.peer ELSE m[i]]
<1>1. HandleEvent(m, e) = g
  BY DEF HandleEvent
<1>2. DOMAIN m \union {e.id} \in SUBSET Id /\ e.peer \in 1..MaxPeers
  BY KnownIs DEF Event
<1>3. g \in [DOMAIN m \union {e.id} -> 1..MaxPeers]
  BY <1>2, KnownIs
<1>4. g \in Known
  BY <1>2, <1>3, IsKnown
<1> QED BY <1>1, <1>4

LEMMA HandleRemoved ==
    ASSUME NEW m \in Known, NEW e \in Event, e.type = "removed"
    PROVE  /\ HandleEvent(m, e) \in Known /\ DOMAIN HandleEvent(m, e) = DOMAIN m \ {e.id}
           /\ \A i \in DOMAIN m \ {e.id} : HandleEvent(m, e)[i] = m[i]
<1> DEFINE g == [i \in DOMAIN m \ {e.id} |-> m[i]]
<1>1. HandleEvent(m, e) = g
  BY DEF HandleEvent
<1>2. DOMAIN m \ {e.id} \in SUBSET Id /\ g \in [DOMAIN m \ {e.id} -> 1..MaxPeers]
  BY KnownIs
<1>3. g \in Known
  BY <1>2, IsKnown
<1> QED BY <1>1, <1>3

LEMMA HandleOther ==
    ASSUME NEW m, NEW e, e.type # "removed", e.type = "added" => e.id \in DOMAIN m
    PROVE  HandleEvent(m, e) = m
BY DEF HandleEvent

LEMMA HandleKnown ==
    ASSUME NEW m \in Known, NEW e \in Event
    PROVE  HandleEvent(m, e) \in Known
<1>1. CASE e.type = "removed"
  BY <1>1, HandleRemoved
<1>2. CASE e.type = "added" /\ e.id \notin DOMAIN m
  BY <1>2, HandleAdded
<1>3. CASE e.type # "removed" /\ (e.type = "added" => e.id \in DOMAIN m)
  BY <1>3, HandleOther
<1> QED BY <1>1, <1>2, <1>3

\* After goes from event to event.
LEMMA AfterSteps ==
    ASSUME NEW m \in Known, NEW q \in Seq(Event)
    PROVE  \E f \in [0..Len(q) -> Known] :
               /\ f[0] = m /\ f[Len(q)] = After(m, q)
               /\ \A k \in 1..Len(q) : f[k] = HandleEvent(f[k - 1], q[k])
<1> DEFINE n == Len(q)
           h == [x \in Known \X (1..n) |-> HandleEvent(x[1], q[x[2]])]
           Steps(g) == g = [k \in 0..n |-> IF k = 0 THEN m ELSE HandleEvent(g[k - 1], q[k])]
<1>1. n \in Nat
  OBVIOUS
<1>2. \A v \in Known, k \in 1..n :
          h[<<v, k>>] = HandleEvent(v, q[k]) /\ HandleEvent(v, q[k]) \in Known
  <2> SUFFICES ASSUME NEW v \in Known, NEW k \in 1..n
               PROVE  h[<<v, k>>] = HandleEvent(v, q[k]) /\ HandleEvent(v, q[k]) \in Known
    BY Zenon
  <2>1. q[k] \in Event
    BY ElementOfSeq
  <2>2. HandleEvent(v, q[k]) \in Known
    BY <2>1, HandleKnown
  <2> QED BY <2>2
<1> HIDE DEF h
<1>3. PICK g : g \in [0..n -> Known] /\ g[0] = m /\ \A k \in 1..n : g[k] = h[<<g[k - 1], k>>]
  <2>1. Closed(h, Known, n)
    BY <1>2 DEF Closed
  <2>2. \E g : Chain(g, Known, m, h, n)
    BY <1>1, <2>1, ChainExists
  <2> QED BY <2>2 DEF Chain
<1>4. \A k \in 1..n : g[k] = HandleEvent(g[k - 1], q[k])
  <2> SUFFICES ASSUME NEW k \in 1..n PROVE g[k] = HandleEvent(g[k - 1], q[k])
    OBVIOUS
  <2>1. g[k - 1] \in Known
    BY <1>1, <1>3
  <2>2. h[<<g[k - 1], k>>] = HandleEvent(g[k - 1], q[k])
    BY <1>2, <2>1
  <2> QED BY <1>3, <2>2
<1>5. Steps(g)
  <2> SUFFICES ASSUME NEW k \in 0..n
               PROVE  g[k] = IF k = 0 THEN m ELSE HandleEvent(g[k - 1], q[k])
    BY <1>3
  <2> QED BY <1>3, <1>4
<1> DEFINE f == CHOOSE x : Steps(x)
<1>6. Steps(f)
  BY <1>5, Zenon
<1>7. After(m, q) = f[n]
  BY DEF After
<1> HIDE DEF f
<1>8. f[0] = m /\ \A k \in 1..n : f[k] = HandleEvent(f[k - 1], q[k])
  BY <1>1, <1>6
<1>9. \A k \in 0..n : f[k] = g[k]
  <2>1. Alike(f, g, n)
    BY <1>1, <1>3, <1>4, <1>8 DEF Alike
  <2> QED BY <1>1, <2>1, AlikeAgree
<1>10. g[n] = After(m, q)
  BY <1>1, <1>7, <1>9
<1> QED BY <1>3, <1>4, <1>10

LEMMA AfterKnown ==
    ASSUME NEW m \in Known, NEW q \in Seq(Event)
    PROVE  After(m, q) \in Known
<1>1. PICK f \in [0..Len(q) -> Known] : f[Len(q)] = After(m, q)
  BY AfterSteps
<1> QED BY <1>1

\* One more event at the end is handled last ...
LEMMA AfterAppend ==
    ASSUME NEW m \in Known, NEW q \in Seq(Event), NEW e \in Event
    PROVE  After(m, Append(q, e)) = HandleEvent(After(m, q), e)
<1> DEFINE n == Len(q)
           p == Append(q, e)
<1>1. n \in Nat /\ p \in Seq(Event) /\ Len(p) = n + 1 /\ p[n + 1] = e
      /\ \A k \in 1..n : p[k] = q[k]
  OBVIOUS
<1>2. PICK f \in [0..n -> Known] :
          /\ f[0] = m /\ f[n] = After(m, q)
          /\ \A k \in 1..n : f[k] = HandleEvent(f[k - 1], q[k])
  BY AfterSteps
<1> HIDE DEF p
<1>3. PICK g \in [0..Len(p) -> Known] :
          /\ g[0] = m /\ g[Len(p)] = After(m, p)
          /\ \A k \in 1..Len(p) : g[k] = HandleEvent(g[k - 1], p[k])
  BY <1>1, AfterSteps
<1>4. Alike(f, g, n)
  BY <1>1, <1>2, <1>3 DEF Alike
<1>5. f[n] = g[n]
  <2>1. \A k \in 0..n : f[k] = g[k]
    BY <1>1, <1>4, AlikeAgree
  <2> QED BY <1>1, <2>1
<1>6. g[n + 1] = HandleEvent(g[n], e)
  <2>1. n + 1 \in 1..Len(p) /\ (n + 1) - 1 = n
    BY <1>1
  <2> QED BY <1>1, <1>3, <2>1
<1> QED BY <1>1, <1>2, <1>3, <1>5, <1>6 DEF p

\* ... and the first one first.
LEMMA AfterHead ==
    ASSUME NEW m \in Known, NEW q \in Seq(Event), q # <<>>
    PROVE  After(HandleEvent(m, Head(q)), Tail(q)) = After(m, q)
<1> DEFINE n == Len(q)
           p == Tail(q)
           c == HandleEvent(m, Head(q))
<1>1. n \in Nat \ {0} /\ p \in Seq(Event) /\ Len(p) = n - 1 /\ Head(q) = q[1] /\ Head(q) \in Event
      /\ \A k \in 1..n - 1 : p[k] = q[k + 1]
  BY HeadTailProperties
<1>2. c \in Known
  BY <1>1, HandleKnown
<1> HIDE DEF p, c
<1>3. PICK f \in [0..n -> Known] :
          /\ f[0] = m /\ f[n] = After(m, q)
          /\ \A k \in 1..n : f[k] = HandleEvent(f[k - 1], q[k])
  BY AfterSteps
<1>4. PICK g \in [0..Len(p) -> Known] :
          /\ g[0] = c /\ g[Len(p)] = After(c, p)
          /\ \A k \in 1..Len(p) : g[k] = HandleEvent(g[k - 1], p[k])
  BY <1>1, <1>2, AfterSteps
<1> DEFINE e == [k \in 0..n - 1 |-> f[k + 1]]
<1>5. \A k \in 0..n - 1 : e[k] = f[k + 1]
  OBVIOUS
<1> HIDE DEF e
<1>6. n - 1 \in Nat /\ e[0] = g[0]
  <2>1. 0 \in 0..n - 1 /\ 1 \in 1..n
    BY <1>1
  <2>2. f[1] = HandleEvent(f[0], q[1])
    BY <1>3, <2>1
  <2> QED BY <1>1, <1>3, <1>4, <1>5, <2>1, <2>2 DEF c
<1>7. \A k \in 1..n - 1 : e[k - 1] = g[k - 1] => e[k] = g[k]
  <2> SUFFICES ASSUME NEW k \in 1..n - 1, e[k - 1] = g[k - 1] PROVE e[k] = g[k]
    OBVIOUS
  <2>1. k - 1 \in 0..n - 1 /\ k \in 0..n - 1 /\ k + 1 \in 1..n /\ (k - 1) + 1 = k /\ (k + 1) - 1 = k
    BY <1>1
  <2>2. f[k + 1] = HandleEvent(f[k], q[k + 1])
    BY <1>3, <2>1
  <2>3. g[k] = HandleEvent(g[k - 1], p[k])
    BY <1>1, <1>4
  <2> QED BY <1>1, <1>5, <2>1, <2>2, <2>3
<1>8. e[n - 1] = g[n - 1]
  <2>1. Alike(e, g, n - 1)
    BY <1>6, <1>7 DEF Alike
  <2>2. \A k \in 0..n - 1 : e[k] = g[k]
    BY <1>6, <2>1, AlikeAgree
  <2> QED BY <1>6, <2>2
<1>9. e[n - 1] = f[n]
  BY <1>1, <1>5
<1> QED BY <1>1, <1>3, <1>4, <1>8, <1>9 DEF p, c
\* What the user will know is about peers that have those ids, and no id is drawn twice.
ClientsInv ==
    /\ clients \in Known
    /\ \A o, p \in Object : heap[o].id = heap[p].id => o = p
    /\ \A i \in DOMAIN After(clients, events) :
         /\ After(clients, events)[i] \in Object
         /\ heap[After(clients, events)[i]].id = i

Follows == ClientsInv /\ ClientsFollowPeers

\* A peer keeps its id.
IdsKept == Object \subseteq Object' /\ \A o \in Object : heap'[o].id = heap[o].id

LEMMA InitFollows ==
    Init => Follows
<1> SUFFICES ASSUME Init PROVE Follows
  OBVIOUS
<1>1. clients = <<>> /\ events = <<>> /\ Object = {} /\ DOMAIN peers = {} /\ DOMAIN clients = {}
  BY DEF Init, Object
<1>2. clients \in Known
  <2>1. {} \in SUBSET Id /\ clients \in [{} -> 1..MaxPeers]
    BY <1>1
  <2> QED BY <2>1, IsKnown
<1>3. After(clients, events) = clients
  <2>1. events \in Seq(Event) /\ Len(events) = 0
    BY <1>1
  <2>2. PICK f \in [0..Len(events) -> Known] :
            f[0] = clients /\ f[Len(events)] = After(clients, events)
    BY <1>2, <2>1, AfterSteps
  <2> QED BY <2>1, <2>2
<1> QED BY <1>1, <1>2, <1>3 DEF Follows, ClientsInv, ClientsFollowPeers

\* Steps that leave the user's clients, the events and the peers as they are.
LEMMA NothingNew ==
    ASSUME IInv, Follows, IdsKept, Object' = Object,
           After(clients, events)' = After(clients, events), clients' \in Known,
           UNCHANGED peers, running' = "yes" => running = "yes",
           \A t \in Thread : doomed[t].step = "event" => doomed'[t] = doomed[t]
    PROVE  Follows'
<1>1. ClientsInv'
  BY DEF Follows, ClientsInv, IdsKept
<1>2. ClientsFollowPeers'
  BY DEF Follows, ClientsFollowPeers
<1> QED BY <1>1, <1>2 DEF Follows

\* createPeer: the user will know the new peer, whose id it cannot know yet.
LEMMA CreateFollows ==
    ASSUME ~IdsReused, IInv, Follows, NEW id \in Id, CreatePeer(id)
    PROVE  Follows'
<1> DEFINE o == Len(heap) + 1
           e == [type |-> "added", id |-> id, peer |-> o]
           then == After(clients, events)
<1>1. /\ heap \in Seq(Peer) /\ Len(heap) \in Nat /\ o \in 1..MaxPeers /\ Object = 1..Len(heap)
      /\ events \in Seq(Event) /\ clients \in Known
  BY LenProperties, PeerAssumption
     DEF CreatePeer, IInv, Types, TypeOK, Object, Follows, ClientsInv
<1>2. /\ Object' = Object \union {o} /\ heap'[o].id = id /\ \A x \in Object : heap'[x] = heap[x]
      /\ events' = Append(events, e) /\ UNCHANGED <<clients, doomed, running>>
      /\ DOMAIN peers' = DOMAIN peers \union {id}
      /\ peers'[id] = o /\ \A i \in DOMAIN peers \ {id} : peers'[i] = peers[i]
      /\ \A x \in Object : heap[x].id # id
  BY <1>1 DEF CreatePeer, Drawable, Object
<1>3. e \in Event /\ e.type = "added" /\ e.id = id /\ e.peer = o
  BY <1>1 DEF Event
<1>4. then \in Known
  BY <1>1, AfterKnown
<1>5. After(clients, events)' = HandleEvent(then, e)
  BY <1>1, <1>2, <1>3, AfterAppend
<1>6. id \notin DOMAIN then
  BY <1>2 DEF Follows, ClientsInv
<1> HIDE DEF e, then
<1>7. /\ DOMAIN After(clients, events)' = DOMAIN then \union {id}
      /\ After(clients, events)'[id] = o
      /\ \A i \in DOMAIN then : After(clients, events)'[i] = then[i]
  BY <1>3, <1>4, <1>5, <1>6, HandleAdded
<1>8. ClientsInv'
  <2>1. \A x, y \in Object' : heap'[x].id = heap'[y].id => x = y
    BY <1>2 DEF Follows, ClientsInv
  <2>2. \A i \in DOMAIN After(clients, events)' :
            /\ After(clients, events)'[i] \in Object'
            /\ heap'[After(clients, events)'[i]].id = i
    BY <1>2, <1>7 DEF Follows, ClientsInv, then
  <2> QED BY <1>1, <1>2, <2>1, <2>2 DEF ClientsInv
<1>9. ClientsFollowPeers'
  BY <1>2, <1>6, <1>7 DEF Follows, ClientsFollowPeers, then
<1> QED BY <1>8, <1>9 DEF Follows

\* deletePeer: out of the container, and the event is still to come.
LEMMA EraseFollows ==
    ASSUME IInv, Follows, IdsKept, Object' = Object, UNCHANGED <<clients, events, running>>,
           NEW t \in Thread, NotInDelete(t), NEW id, Erase(t, id)
    PROVE  Follows'
<1> DEFINE then == After(clients, events)
<1>1. /\ doomed' = [doomed EXCEPT ![t] = [peer |-> peers[id], step |-> "event"]]
      /\ DOMAIN peers' = DOMAIN peers \ {id} /\ \A i \in DOMAIN peers' : peers'[i] = peers[i]
      /\ id \in DOMAIN peers /\ DOMAIN doomed = Thread
  BY DEF Erase, IInv, Types, TypeOK
<1>2. /\ After(clients, events)' = then
      /\ doomed'[t] = [peer |-> peers[id], step |-> "event"]
      /\ \A u \in Thread : doomed[u].step = "event" => doomed'[u] = doomed[u]
  BY <1>1 DEF NotInDelete
<1>3. ClientsInv'
  BY <1>2 DEF Follows, ClientsInv, IdsKept
<1> HIDE DEF then
<1>4. ASSUME running = "yes" PROVE ClientsFollowPeers'
  <2>1. \A i \in DOMAIN peers : i \in DOMAIN then /\ then[i] = peers[i]
    BY <1>4 DEF Follows, ClientsFollowPeers, then
  <2>2. \A i \in DOMAIN then \ DOMAIN peers :
            \E u \in Thread : doomed[u] = [peer |-> then[i], step |-> "event"]
    BY <1>4 DEF Follows, ClientsFollowPeers, then
  <2>3. ASSUME NEW i \in DOMAIN then \ DOMAIN peers'
        PROVE  \E u \in Thread : doomed'[u] = [peer |-> then[i], step |-> "event"]
    <3>1. CASE i = id
      BY <1>1, <1>2, <2>1, <3>1
    <3>2. CASE i \notin DOMAIN peers
      <4>1. PICK u \in Thread : doomed[u] = [peer |-> then[i], step |-> "event"]
        BY <2>2, <3>2
      <4>2. doomed'[u] = doomed[u]
        BY <1>2, <4>1
      <4> QED BY <4>1, <4>2
    <3> QED BY <1>1, <2>3, <3>1, <3>2
  <2> QED BY <1>1, <1>2, <2>1, <2>3 DEF ClientsFollowPeers
<1> QED BY <1>3, <1>4 DEF Follows, ClientsFollowPeers

\* The event of the removal: no other peer has the id.
LEMMA RemovedFollows ==
    ASSUME IInv, Follows, NEW t \in Thread, PutRemoved(t)
    PROVE  Follows'
<1> DEFINE o == doomed[t].peer
           e == [type |-> "removed", id |-> heap[o].id, peer |-> o]
           then == After(clients, events)
<1>1. /\ doomed[t].step = "event" /\ o \in Object /\ events \in Seq(Event) /\ clients \in Known
      /\ heap \in Seq(Peer) /\ Object = 1..Len(heap) /\ Len(heap) =< MaxPeers /\ MaxPeers \in Nat
      /\ DOMAIN doomed = Thread
  BY LenProperties, PeerAssumption
     DEF PutRemoved, IInv, Types, TypeOK, Object, Follows, ClientsInv, PlaceInv
<1>2. /\ events' = Append(events, e) /\ UNCHANGED <<heap, peers, clients, running>>
      /\ \A u \in Thread \ {t} : doomed'[u] = doomed[u]
  BY <1>1 DEF PutRemoved
<1>3. e \in Event /\ e.type = "removed" /\ e.id = heap[o].id
  <2>1. heap[o] \in Peer
    BY <1>1, ElementOfSeq
  <2>2. heap[o].id \in Id /\ o \in 1..MaxPeers
    BY <1>1, <2>1, PeerFields, LenProperties
  <2> QED BY <2>2 DEF Event
<1>4. then \in Known
  BY <1>1, AfterKnown
<1>5. After(clients, events)' = HandleEvent(then, e)
  BY <1>1, <1>2, <1>3, AfterAppend
<1>6. \A i \in DOMAIN then : then[i] \in Object /\ heap[then[i]].id = i
  BY DEF Follows, ClientsInv
<1>7. heap[o].id \notin DOMAIN peers
  <2> SUFFICES ASSUME heap[o].id \in DOMAIN peers PROVE FALSE
    OBVIOUS
  <2>1. /\ peers[heap[o].id] \in Object /\ heap[peers[heap[o].id]].id = heap[o].id
        /\ ~Dooms(t, peers[heap[o].id])
    BY DEF IInv, Types, TypeOK, PlaceInv
  <2>2. peers[heap[o].id] = o
    BY <1>1, <2>1 DEF Follows, ClientsInv
  <2> QED BY <1>1, <2>1, <2>2 DEF Dooms
<1> DEFINE id == heap[o].id
<1>8. then[id] = then[id] /\ \A i \in DOMAIN then : then[i] = o => i = id
  BY <1>6
<1> HIDE DEF e, then, o, id
<1>9. /\ DOMAIN After(clients, events)' = DOMAIN then \ {id}
      /\ \A i \in DOMAIN then \ {id} : After(clients, events)'[i] = then[i]
  BY <1>3, <1>4, <1>5, HandleRemoved DEF id
<1>10. ClientsInv'
  BY <1>1, <1>2, <1>6, <1>9 DEF Follows, ClientsInv, Object
<1>11. ASSUME running = "yes" PROVE ClientsFollowPeers'
  <2>1. \A i \in DOMAIN peers : i \in DOMAIN then /\ then[i] = peers[i]
    BY <1>11 DEF Follows, ClientsFollowPeers, then
  <2>2. \A i \in DOMAIN then \ DOMAIN peers :
            \E u \in Thread : doomed[u] = [peer |-> then[i], step |-> "event"]
    BY <1>11 DEF Follows, ClientsFollowPeers, then
  <2>3. ASSUME NEW i \in (DOMAIN then \ {id}) \ DOMAIN peers
        PROVE  \E u \in Thread : doomed'[u] = [peer |-> then[i], step |-> "event"]
    <3>1. PICK u \in Thread : doomed[u] = [peer |-> then[i], step |-> "event"]
      BY <2>2
    <3>2. u # t
      BY <1>8, <2>3, <3>1 DEF o
    <3> QED BY <1>2, <3>1, <3>2
  <2>4. \A i \in DOMAIN peers : i # id
    BY <1>7 DEF id
  <2> QED BY <1>2, <1>9, <2>1, <2>3, <2>4 DEF ClientsFollowPeers
<1> QED BY <1>2, <1>10, <1>11 DEF Follows, ClientsFollowPeers

\* The user handles an event: it knows in the end what it would have known.
LEMMA ReceiveFollows ==
    ASSUME IInv, Follows, ReceiveEvent
    PROVE  Follows'
<1>1. /\ clients \in Known /\ events \in Seq(Event) /\ events # <<>>
      /\ clients' = HandleEvent(clients, Head(events)) /\ events' = Tail(events)
      /\ UNCHANGED <<heap, peers, doomed, running>>
  BY DEF ReceiveEvent, IInv, Types, TypeOK, Follows, ClientsInv
<1>2. After(clients, events)' = After(clients, events)
  BY <1>1, AfterHead
<1>3. clients' \in Known
  BY <1>1, HandleKnown, HeadTailProperties
<1> QED BY <1>1, <1>2, <1>3, NothingNew DEF IdsKept, Object

\* Data of a peer changes nothing.
LEMMA DataFollows ==
    ASSUME IInv, Follows, PutData
    PROVE  Follows'
<1> DEFINE e == [type |-> "data", id |-> receiver.id, peer |-> Head(held["receive"])]
<1>1. /\ clients \in Known /\ events \in Seq(Event) /\ events' = Append(events, e)
      /\ UNCHANGED <<heap, peers, doomed, running, clients>>
  BY DEF PutData, IInv, Types, TypeOK, Follows, ClientsInv
<1>2. e \in Event
  <2>1. receiver.id \in Id /\ held["receive"] # <<>>
    <3>1. receiver.pc = "data" /\ Len(held["receive"]) = 1
      BY DEF PutData, ReceiverAt, IInv, StackInv, ReceiverDepths
    <3>2. held["receive"] # <<>>
      BY <3>1
    <3> QED BY <3>1, <3>2 DEF IInv, ReceiverInv, Datagram
  <2>2. Head(held["receive"]) \in Object
    BY <2>1, HeldIsUsed DEF Thread
  <2>3. Object \subseteq 1..MaxPeers
    BY LenProperties, PeerAssumption DEF IInv, Types, TypeOK, Object
  <2> QED BY <2>1, <2>2, <2>3 DEF Event
<1>3. After(clients, events)' = After(clients, events)
  <2>1. After(clients, events)' = HandleEvent(After(clients, events), e)
    BY <1>1, <1>2, AfterAppend
  <2>2. e.type = "data"
    OBVIOUS
  <2> QED BY <2>1, <2>2, HandleOther
<1> QED BY <1>1, <1>3, NothingNew DEF IdsKept, Object
\* Nothing happens that the user will ever hear of.
Quiet ==
    /\ IdsKept /\ Object' = Object
    /\ UNCHANGED <<clients, events, peers>>
    /\ running' = "yes" => running = "yes"
    /\ \A t \in Thread : doomed[t].step = "event" => doomed'[t] = doomed[t]

LEMMA QuietFollows ==
    ASSUME IInv, Follows, Quiet PROVE Follows'
<1>1. clients' \in Known /\ After(clients, events)' = After(clients, events)
  BY DEF Quiet, Follows, ClientsInv
<1> QED BY <1>1, NothingNew DEF Quiet

LEMMA SamePeers ==
    ASSUME IInv, UNCHANGED heap PROVE IdsKept /\ Object' = Object
BY DEF IdsKept, Object

LEMMA ExceptIds ==
    ASSUME IInv, NEW p \in Object, NEW q \in Peer, q.id = heap[p].id,
           heap' = [heap EXCEPT ![p] = q]
    PROVE  IdsKept /\ Object' = Object
<1>1. Object' = Object /\ heap'[p] = q /\ \A x \in Object \ {p} : heap'[x] = heap[x]
  BY HeapExcept DEF IInv
<1> QED BY <1>1 DEF IdsKept

LEMMA HoldIds ==
    ASSUME IInv, NEW t, NEW id, Hold(t, id) PROVE IdsKept /\ Object' = Object
<1> DEFINE p == peers[id]
           q == [heap[p] EXCEPT !.usage = @ + 1]
<1>1. p \in Object /\ heap[p] \in Peer /\ heap' = [heap EXCEPT ![p] = q]
  BY DEF Hold, IInv, Types, TypeOK, Object
<1>2. q \in Peer /\ q.id = heap[p].id
  BY <1>1 DEF Peer
<1> HIDE DEF p, q
<1> QED BY <1>1, <1>2, ExceptIds

\* The peer of a PeerHelper that goes.
LEMMA DecFields ==
    ASSUME NEW w \in Peer, w.usage \in Nat \ {0}
    PROVE  LET q == Counted(w, w.usage - 1,
                            IF w.pendingDeletion /\ w.usage = 1 THEN w.frees + 1 ELSE w.frees)
           IN  q \in Peer /\ q.id = w.id
<1> DEFINE n == w.usage - 1
           f == IF w.pendingDeletion /\ w.usage = 1 THEN w.frees + 1 ELSE w.frees
<1>1. n \in Nat /\ f \in Nat
  BY PeerFields
<1> HIDE DEF n, f
<1>2. Counted(w, n, f) \in Peer /\ Counted(w, n, f).id = w.id
  BY <1>1, CountedFields
<1> QED BY <1>2 DEF n, f

LEMMA ReleaseIds ==
    ASSUME IInv, NEW t \in Thread, Release(t) PROVE IdsKept /\ Object' = Object
<1> DEFINE p == Head(held[t])
           w == heap[p]
           q == Counted(w, w.usage - 1,
                        IF w.pendingDeletion /\ w.usage = 1 THEN w.frees + 1 ELSE w.frees)
<1>1. p \in Object /\ w \in Peer /\ w.usage \in Nat \ {0} /\ heap' = [heap EXCEPT ![p] = q]
  BY HeldIsUsed DEF Release, DecUseCount, Counted
<1> HIDE DEF w
<1>2. q \in Peer /\ q.id = w.id
  BY <1>1, DecFields
<1> HIDE DEF p, q
<1> QED BY <1>1, <1>2, ExceptIds DEF w

LEMMA DropIds ==
    ASSUME IInv, NEW t \in Thread, doomed[t].step = "drop", heap' = Drop(doomed[t].peer)
    PROVE  IdsKept /\ Object' = Object
<1> DEFINE p == doomed[t].peer
           w == heap[p]
           f == IF w.usage = 0 THEN w.frees + 1 ELSE w.frees
           q == Dropped(w, f)
<1>1. p \in Object /\ heap \in Seq(Peer)
  BY DEF IInv, PlaceInv, Types, TypeOK
<1>2. w \in Peer /\ heap' = [heap EXCEPT ![p] = q]
  <2>1. w \in Peer
    BY <1>1, ElementOfSeq DEF Object
  <2>2. Drop(p) = [heap EXCEPT ![p] = q]
    BY <1>1 DEF Drop, Dropped
  <2> QED BY <2>1, <2>2
<1>3. f \in Nat
  BY <1>2, PeerFields
<1> HIDE DEF w, f
<1>4. q \in Peer /\ q.id = w.id
  BY <1>2, <1>3, DroppedFields
<1> HIDE DEF p, q
<1> QED BY <1>1, <1>2, <1>4, ExceptIds DEF w

LEMMA CheckIds ==
    ASSUME IInv, CheckSender PROVE IdsKept /\ Object' = Object
<1> DEFINE p == Head(held["receive"])
           q == [heap[p] EXCEPT !.halfOpen = FALSE]
<1>1. p \in Object /\ heap[p] \in Peer
  <2>1. held["receive"] # <<>>
    <3>1. Len(held["receive"]) = 1
      BY DEF CheckSender, ReceiverAt, IInv, StackInv, ReceiverDepths
    <3> QED BY <3>1
  <2> QED BY <2>1, HeldIsUsed DEF Thread
<1>2. q \in Peer /\ q.id = heap[p].id
  BY <1>1 DEF Peer
<1>3. heap' = [heap EXCEPT ![p] = q] \/ heap' = heap
  BY DEF CheckSender
<1> HIDE DEF p, q
<1> QED BY <1>1, <1>2, <1>3, ExceptIds, SamePeers

LEMMA DisconnectIds ==
    ASSUME IInv, DisconnectPeer PROVE IdsKept /\ Object' = Object
<1> DEFINE p == Head(held["send"])
           d == DecUseCount(p)
           w == heap[p]
           q == Counted(w, w.usage - 1,
                        IF w.pendingDeletion /\ w.usage = 1 THEN w.frees + 1 ELSE w.frees)
           r == [q EXCEPT !.pendingDisconnect = TRUE]
<1>1. p \in Object /\ w \in Peer /\ w.usage \in Nat \ {0} /\ heap \in Seq(Peer)
  BY HeldIsUsed DEF DisconnectPeer, Thread, IInv, Types, TypeOK
<1>2. d = [heap EXCEPT ![p] = q] /\ heap' = [d EXCEPT ![p].pendingDisconnect = TRUE]
  BY DEF DisconnectPeer, DecUseCount, Counted
<1> HIDE DEF w
<1>3. q \in Peer /\ q.id = w.id
  BY <1>1, DecFields
<1> HIDE DEF p, q
<1>4. r \in Peer /\ r.id = w.id
  BY <1>3 DEF Peer
<1> HIDE DEF d
<1>5. heap' = [heap EXCEPT ![p] = r]
  BY <1>1, <1>2 DEF Object
<1> HIDE DEF r
<1> QED BY <1>1, <1>4, <1>5, ExceptIds DEF w

\* deletePeer takes a peer out of the container; the event is still to come.
Erasing ==
    /\ IdsKept /\ Object' = Object /\ UNCHANGED <<clients, events, running>>
    /\ \E t \in Thread : NotInDelete(t) /\ \E id : Erase(t, id)

\* What the steps of the receive thread are for the user.
LEMMA ReceiveThreadDoes ==
    ASSUME IInv, ReceiveThread
    PROVE  \/ Quiet \/ Erasing \/ PutData \/ PutRemoved("receive")
           \/ \E id \in Id : CreatePeer(id)
<1>1. ASSUME NEW a \in Address, NEW id \in Id \union {NoId}, Receive(a, id) PROVE Quiet
  BY <1>1, SamePeers DEF Receive, Quiet
<1>2. ASSUME NEW id \in Id, Unbuffer(id) PROVE Quiet
  BY <1>2, HoldIds DEF Unbuffer, Quiet
<1>3. ASSUME LookupPeer \/ RefuseNewPeer PROVE Quiet
  BY <1>3, SamePeers DEF LookupPeer, RefuseNewPeer, Quiet
<1>4. ASSUME FindPeer \/ ProcessPacket PROVE Quiet
  <2>1. IdsKept /\ Object' = Object
    BY <1>4, HoldIds, SamePeers DEF FindPeer, ProcessPacket
  <2> QED BY <1>4, <2>1 DEF FindPeer, ProcessPacket, Quiet
<1>5. ASSUME CheckSender PROVE Quiet
  BY <1>5, CheckIds DEF CheckSender, Quiet
<1>6. ASSUME HandleData \/ Unwind PROVE Quiet
  <2>1. IdsKept /\ Object' = Object
    BY <1>6, ReleaseIds, SamePeers DEF HandleData, Unwind, Thread
  <2> QED BY <1>6, <2>1 DEF HandleData, Unwind, Quiet
<1>7. ASSUME HandleDisco PROVE Quiet \/ Erasing
  <2>1. /\ UNCHANGED <<heap, clients, events, running>> /\ NotInDelete("receive")
        /\ \/ \E id : Erase("receive", id)
           \/ UNCHANGED <<peers, doomed>>
    BY <1>7 DEF HandleDisco, ReceiverAt
  <2>2. IdsKept /\ Object' = Object
    BY <2>1, SamePeers
  <2> QED BY <2>1, <2>2 DEF Quiet, Erasing, Thread
<1>8. ASSUME DropDoomed("receive") PROVE Quiet
  BY <1>8, DropIds DEF DropDoomed, Quiet, Thread, IInv, Types, TypeOK
<1> QED BY <1>1, <1>2, <1>3, <1>4, <1>5, <1>6, <1>7, <1>8 DEF ReceiveThread

\* Those of the send thread.
LEMMA SendThreadDoes ==
    ASSUME IInv, SendThread
    PROVE  Quiet \/ Erasing \/ PutRemoved("send")
<1>1. ASSUME StartIteration \/ EndTimeouts \/ StartSending \/ EndIteration PROVE Quiet
  BY <1>1, SamePeers DEF StartIteration, StartLoop, EndTimeouts, StartSending, EndIteration, Quiet
<1>2. ASSUME NEW id \in Id, VisitPeer(id) PROVE Quiet
  <2>1. IdsKept /\ Object' = Object
    BY <1>2, HoldIds, SamePeers DEF VisitPeer
  <2> QED BY <1>2, <2>1 DEF VisitPeer, Quiet
<1>3. ASSUME TimedOut \/ PendingDisconnect \/ LeavePeer PROVE Quiet
  <2>1. IdsKept /\ Object' = Object
    BY <1>3, ReleaseIds DEF TimedOut, PendingDisconnect, LeavePeer, Thread
  <2> QED BY <1>3, <2>1 DEF TimedOut, PendingDisconnect, LeavePeer, Quiet
<1>4. ASSUME NEW id \in Id, DeleteMarked(id) PROVE Quiet \/ Erasing
  <2>1. /\ UNCHANGED <<heap, clients, events, running>> /\ NotInDelete("send")
        /\ Erase("send", id) \/ UNCHANGED <<peers, doomed>>
    BY <1>4 DEF DeleteMarked, SenderAt
  <2>2. IdsKept /\ Object' = Object
    BY <2>1, SamePeers
  <2> QED BY <2>1, <2>2 DEF Quiet, Erasing, Thread
<1>5. ASSUME TakeCommand PROVE Quiet
  <2>1. IdsKept /\ Object' = Object
    BY <1>5, HoldIds, SamePeers DEF TakeCommand
  <2> QED BY <1>5, <2>1 DEF TakeCommand, Quiet
<1>6. ASSUME DisconnectPeer PROVE Quiet
  BY <1>6, DisconnectIds DEF DisconnectPeer, Quiet
<1>7. ASSUME DropDoomed("send") PROVE Quiet
  BY <1>7, DropIds DEF DropDoomed, Quiet, Thread, IInv, Types, TypeOK
<1> QED BY <1>1, <1>2, <1>3, <1>4, <1>5, <1>6, <1>7 DEF SendThread

\* The user's other steps, and no step at all.
LEMMA UserDoes ==
    ASSUME IInv, User \/ UNCHANGED vars
    PROVE  Quiet \/ ReceiveEvent \/ DeletePeers
<1>1. ASSUME NEW id \in Id, DenyAccess(id) PROVE Quiet
  BY <1>1, SamePeers DEF DenyAccess, Quiet
<1>2. ASSUME StopThreads PROVE Quiet
  BY <1>2, SamePeers DEF StopThreads, Quiet
<1>3. ASSUME UNCHANGED vars PROVE Quiet
  BY <1>3, SamePeers DEF vars, Quiet
<1> QED BY <1>1, <1>2, <1>3 DEF User

\* ~Connection deletes the peers, which keep their ids.
LEMMA DeletePeersIds ==
    ASSUME IInv, DeletePeers
    PROVE  IdsKept /\ Object' = Object
<1>1. heap' = [o \in Object |-> IF \E i \in DOMAIN peers : peers[i] = o
                                THEN [heap[o] EXCEPT !.frees = @ + 1] ELSE heap[o]]
  BY DEF DeletePeers
<1>2. Object' = Object
  BY <1>1 DEF Object
<1>3. \A o \in Object : heap'[o].id = heap[o].id
  <2> SUFFICES ASSUME NEW o \in Object PROVE heap'[o].id = heap[o].id
    OBVIOUS
  <2>1. heap[o] \in Peer
    BY DEF IInv, Types, TypeOK, Object
  <2> QED BY <1>1, <2>1 DEF Peer
<1> QED BY <1>2, <1>3 DEF IdsKept

\* Nobody asks what the user knows then.
LEMMA DeletePeersFollows ==
    ASSUME IInv, Follows, DeletePeers
    PROVE  Follows'
<1>1. /\ UNCHANGED <<clients, events>> /\ running' = "done"
      /\ Object' = Object /\ \A o \in Object : heap'[o].id = heap[o].id
  BY DeletePeersIds DEF DeletePeers, IdsKept
<1>2. ClientsInv'
  BY <1>1 DEF Follows, ClientsInv
<1>3. ClientsFollowPeers'
  BY <1>1 DEF ClientsFollowPeers
<1> QED BY <1>2, <1>3 DEF Follows

LEMMA NextFollows ==
    ASSUME ~IdsReused, IInv, Follows, [Next]_vars
    PROVE  Follows'
<1>1. \/ Quiet \/ Erasing \/ PutData \/ ReceiveEvent \/ DeletePeers
      \/ \E t \in Thread : PutRemoved(t)
      \/ \E id \in Id : CreatePeer(id)
  BY ReceiveThreadDoes, SendThreadDoes, UserDoes DEF Next, Thread
<1>2. CASE Erasing
  BY <1>2, EraseFollows DEF Erasing
<1> QED BY <1>1, <1>2, QuietFollows, CreateFollows, DataFollows, RemovedFollows, ReceiveFollows,
           DeletePeersFollows

\* If no peer id is drawn twice, the clients the user will have once it has handled the events
\* that wait are the peers of the Connection, and those whose deletePeer has yet to say so,
\* whichever thread deleted them and in whatever order.
THEOREM ClientsFollow ==
    ASSUME ~IdsReused PROVE Spec => []ClientsFollowPeers
<1>1. Init => Follows
  BY InitFollows
<1>2. IInv /\ Follows /\ [Next]_vars => Follows'
  BY NextFollows
<1>3. Follows => ClientsFollowPeers
  BY DEF Follows
<1> QED BY <1>1, <1>2, <1>3, Invariant, PTL DEF Spec
-----------------------------------------------------------------------------
(* A new peer's event finds no client of its id, unless ids are drawn again.  *)

\* The ids of the clients, and of the peers whose events wait, are those of peers there
\* are or were, and all differ.
Drawn(id) == \E o \in Object : heap[o].id = id
AddedOnce ==
    /\ \A k \in DOMAIN events : events[k].type = "added" => Drawn(events[k].id)
    /\ \A j, k \in DOMAIN events :
         /\ events[j].type = "added" /\ events[k].type = "added"
         /\ events[j].id = events[k].id
         => j = k
    /\ \A i \in DOMAIN clients :
         /\ Drawn(i)
         /\ \A k \in DOMAIN events : events[k].type = "added" => events[k].id # i

\* Steps that bring no new event of a new peer.
LEMMA NothingAdded ==
    ASSUME AddedOnce, IdsKept, UNCHANGED clients,
           \/ UNCHANGED events
           \/ \E e : events' = Append(events, e) /\ e.type # "added" /\ events \in Seq(Event)
    PROVE  AddedOnce'
<1>1. \A id : Drawn(id) => Drawn(id)'
  BY DEF Drawn, IdsKept
<1>2. \A k \in DOMAIN events' : events'[k].type = "added"
                                => k \in DOMAIN events /\ events'[k] = events[k]
  <2>1. CASE UNCHANGED events
    BY <2>1
  <2>2. ASSUME NEW e, events' = Append(events, e), e.type # "added", events \in Seq(Event)
        PROVE  \A k \in DOMAIN events' : events'[k].type = "added"
                                       => k \in DOMAIN events /\ events'[k] = events[k]
    <3>1. events \in Seq(Event \union {e}) /\ e \in Event \union {e}
      BY <2>2
    <3>2. /\ DOMAIN events' = DOMAIN events \union {Len(events) + 1}
          /\ events'[Len(events) + 1] = e
          /\ \A k \in DOMAIN events : events'[k] = events[k]
      BY <2>2, <3>1
    <3> QED BY <2>2, <3>2
  <2> QED BY <2>1, <2>2
<1> QED BY <1>1, <1>2 DEF AddedOnce

\* createPeer: nobody has the id.
LEMMA CreateAdded ==
    ASSUME ~IdsReused, IInv, AddedOnce, NEW id \in Id, CreatePeer(id)
    PROVE  AddedOnce'
<1> DEFINE o == Len(heap) + 1
           e == [type |-> "added", id |-> id, peer |-> o]
<1>1. /\ heap \in Seq(Peer) /\ Len(heap) \in Nat /\ o \in 1..MaxPeers /\ Object = 1..Len(heap)
      /\ events \in Seq(Event)
  BY LenProperties, PeerAssumption DEF CreatePeer, IInv, Types, TypeOK, Object
<1>2. /\ Object' = Object \union {o} /\ heap'[o].id = id /\ \A x \in Object : heap'[x] = heap[x]
      /\ events' = Append(events, e) /\ UNCHANGED clients
      /\ ~Drawn(id)
  BY <1>1 DEF CreatePeer, Drawable, Object, Drawn
<1>3. Drawn(id)' /\ \A i : Drawn(i) => Drawn(i)'
  BY <1>2 DEF Drawn
<1>4. e \in Event /\ e.id = id
  BY <1>1 DEF Event
<1> HIDE DEF e
<1>5. /\ DOMAIN events' = DOMAIN events \union {Len(events) + 1}
      /\ events'[Len(events) + 1] = e
      /\ \A k \in DOMAIN events : events'[k] = events[k]
  BY <1>1, <1>2, <1>4
<1>6. \A k \in DOMAIN events : events[k].type = "added" => events[k].id # id
  BY <1>2 DEF AddedOnce
<1>7. \A i \in DOMAIN clients : i # id
  BY <1>2 DEF AddedOnce
<1> QED BY <1>2, <1>3, <1>4, <1>5, <1>6, <1>7 DEF AddedOnce

\* Server::peerAdded: the id goes from the events to the clients.
LEMMA ReceiveAdded ==
    ASSUME IInv, AddedOnce, clients \in Known, ReceiveEvent
    PROVE  AddedOnce'
<1> DEFINE e == Head(events)
<1>1. /\ events \in Seq(Event) /\ events # <<>> /\ events' = Tail(events)
      /\ clients' = HandleEvent(clients, e) /\ UNCHANGED heap
  BY DEF ReceiveEvent, IInv, Types, TypeOK
<1>2. /\ 1 \in DOMAIN events /\ events[1] = e
      /\ \A k \in DOMAIN events' : /\ k + 1 \in DOMAIN events /\ k + 1 # 1
                                   /\ events'[k] = events[k + 1]
      /\ \A j, k \in DOMAIN events' : j + 1 = k + 1 => j = k
  BY <1>1
<1> HIDE DEF e
<1>3. \A id : Drawn(id)' = Drawn(id)
  BY <1>1 DEF Drawn, Object
<1>4. \A i \in DOMAIN clients' : i \in DOMAIN clients \/ (e.type = "added" /\ i = e.id)
  BY <1>1 DEF HandleEvent
<1>5. ASSUME NEW i \in DOMAIN clients'
      PROVE  /\ Drawn(i)
             /\ \A k \in DOMAIN events' : events'[k].type = "added" => events'[k].id # i
  <2>1. CASE i \in DOMAIN clients
    BY <1>2, <2>1 DEF AddedOnce
  <2>2. CASE e.type = "added" /\ i = e.id
    BY <1>2, <2>2 DEF AddedOnce
  <2> QED BY <1>4, <2>1, <2>2
<1>6. \A k \in DOMAIN events' : events'[k].type = "added" => Drawn(events'[k].id)
  BY <1>2 DEF AddedOnce
<1>7. ASSUME NEW j \in DOMAIN events', NEW k \in DOMAIN events',
             events'[j].type = "added", events'[k].type = "added",
             events'[j].id = events'[k].id
      PROVE  j = k
  <2>1. j + 1 = k + 1
    BY <1>2, <1>7 DEF AddedOnce
  <2> QED BY <1>2, <2>1
<1> QED BY <1>3, <1>5, <1>6, <1>7 DEF AddedOnce

LEMMA NextAdded ==
    ASSUME ~IdsReused, IInv, Follows, AddedOnce, [Next]_vars
    PROVE  AddedOnce'
<1>1. \/ Quiet \/ Erasing \/ PutData \/ ReceiveEvent \/ DeletePeers
      \/ \E t \in Thread : PutRemoved(t)
      \/ \E id \in Id : CreatePeer(id)
  BY ReceiveThreadDoes, SendThreadDoes, UserDoes DEF Next, Thread
<1>2. CASE Quiet \/ Erasing
  BY <1>2, NothingAdded DEF Quiet, Erasing
<1>3. CASE PutData
  <2> DEFINE e == [type |-> "data", id |-> receiver.id, peer |-> Head(held["receive"])]
  <2>1. events' = Append(events, e) /\ UNCHANGED <<heap, clients>> /\ e.type # "added"
    BY <1>3 DEF PutData
  <2>2. events \in Seq(Event) /\ IdsKept
    BY <2>1, SamePeers DEF IInv, Types, TypeOK
  <2> HIDE DEF e
  <2> QED BY <2>1, <2>2, NothingAdded
<1>4. ASSUME NEW t \in Thread, PutRemoved(t) PROVE AddedOnce'
  <2> DEFINE e == [type |-> "removed", id |-> heap[doomed[t].peer].id, peer |-> doomed[t].peer]
  <2>1. events' = Append(events, e) /\ UNCHANGED <<heap, clients>> /\ e.type # "added"
    BY <1>4 DEF PutRemoved
  <2>2. events \in Seq(Event) /\ IdsKept
    BY <2>1, SamePeers DEF IInv, Types, TypeOK
  <2> HIDE DEF e
  <2> QED BY <2>1, <2>2, NothingAdded
<1>5. CASE DeletePeers
  <2>1. UNCHANGED <<clients, events>>
    BY <1>5 DEF DeletePeers
  <2> QED BY <1>5, <2>1, DeletePeersIds, NothingAdded
<1>6. clients \in Known
  BY DEF Follows, ClientsInv
<1> QED BY <1>1, <1>2, <1>3, <1>4, <1>5, <1>6, CreateAdded, ReceiveAdded

\* If no peer id is drawn twice, a new peer's event finds no client of that id: the client
\* that CreateClient says should not exist yet does so only if the id was drawn again.
THEOREM NewClients ==
    ASSUME ~IdsReused PROVE Spec => []ClientDoesNotExistYet
<1>1. Init => AddedOnce
  <2> SUFFICES ASSUME Init PROVE AddedOnce
    OBVIOUS
  <2>1. events = <<>> /\ clients = <<>>
    BY DEF Init
  <2> QED BY <2>1 DEF AddedOnce
<1>2. IInv /\ Follows /\ AddedOnce /\ [Next]_vars => Follows' /\ AddedOnce'
  BY NextFollows, NextAdded
<1>3. IInv /\ AddedOnce => ClientDoesNotExistYet
  <2> SUFFICES ASSUME IInv, AddedOnce, events # <<>>, Head(events).type = "added"
               PROVE  Head(events).id \notin DOMAIN clients
    BY DEF ClientDoesNotExistYet
  <2>1. 1 \in DOMAIN events /\ events[1] = Head(events)
    BY DEF IInv, Types, TypeOK
  <2> QED BY <2>1 DEF AddedOnce
<1> QED BY <1>1, <1>2, <1>3, InitFollows, Invariant, PTL DEF Spec
=============================================================================
