---------------------------- MODULE SessionProofs ----------------------------
(****************************************************************************)
(* For any number of connections, names and attempts, and any limit: types, *)
(* the limit on the players in the game, one player for each of them, and,  *)
(* with users who wait for an answer, authentications that end on both      *)
(* sides.                                                                   *)
(*                                                                          *)
(* The argument. Until a client has read the answer to INIT nothing but the *)
(* end of the peer is under way between it and the server, and there is one *)
(* answer. Then one side has the word: Talk lists, for every state of the   *)
(* RemoteClient, which packet is under way or which side is to speak, and   *)
(* what the two think of the authentication; only a user's change of the    *)
(* password can come while the server does not know yet that the client is  *)
(* ready. When the peer has gone, the news of it is the last the server     *)
(* reads, so a client in the game with nothing under way has its peer. A    *)
(* client is counted in the game when it has got its player, and its player *)
(* loses its peer when the RemoteClient goes.                               *)
(****************************************************************************)
EXTENDS Session, FiniteSetTheorems, SequenceTheorems, TLAPS

InGame == {"active", "sudoMode", "denied"}

\* The server has not answered INIT, or the client has not read the answer.
Expecting(c) ==
    \/ server[c].state = "created"
    \/ \E k \in DOMAIN toClient[c] : toClient[c][k].type = "hello"

\* A client that has not started is unknown, and before it reads the answer to INIT there
\* is nothing else between it and the server than the news that it is over.
BeginsWithHello(c) ==
    /\ client[c].pc = "idle" =>
         /\ server[c].state = "none" /\ peer[c] = "none" /\ client[c].attempt = 0
         /\ toClient[c] = <<>> /\ toServer[c] = <<>> /\ ~client[c].changing
    /\ client[c].pc = "out" => toClient[c] = <<>>
    /\ Expecting(c) =>
         /\ client[c].attempt = 0 /\ client[c].pc \in {"created", "out"}
         /\ server[c].state \in {"created", "helloSent", "denied", "none"}
         /\ \A k \in DOMAIN toServer[c] : toServer[c][k].type = "deletingPeer"
         /\ \A k \in DOMAIN toClient[c] :
              toClient[c][k].type \in {"hello", "accessDenied", "deletingPeer"}
    /\ server[c].state = "created" => \A k \in DOMAIN toClient[c] : toClient[c][k].type # "hello"
    /\ \A j, k \in DOMAIN toClient[c] :
         toClient[c][j].type = "hello" /\ toClient[c][k].type = "hello" => j = k
HelloInv == \A c \in Conn : BeginsWithHello(c)

\* The players, and the clients in the game.
PlacesInv ==
    /\ \A k \in DOMAIN players :
         players[k].conn # NoConn => server[players[k].conn].state \in InGame
    /\ \A j, k \in DOMAIN players :
         players[j].conn = players[k].conn /\ players[j].conn # NoConn => j = k
    /\ \A c \in Joined : \E k \in DOMAIN players : players[k].conn = c

\* When the peer has gone, the last the server reads is that it has.
Gone(c) ==
    peer[c] # "up" /\ server[c].state # "none" =>
        toServer[c] # <<>> /\ toServer[c][Len(toServer[c])].type = "deletingPeer"
GoneInv == \A c \in Conn : Gone(c)

\* The talk between client and server, in which one of them has the word.
Asks(c, type) ==
    Len(toServer[c]) = 1 /\ toServer[c][1].type = type /\ toClient[c] = <<>>
Told(c, type) ==
    Len(toClient[c]) = 1 /\ toClient[c][1].type = type /\ toServer[c] = <<>>
Silent(c) == toServer[c] = <<>> /\ toClient[c] = <<>>

\* The password is asked for, at the login or for a change.
SrpExchange(c) ==
    /\ client[c].mech = "srp"
    /\ \/ server[c].mech = "none" /\ Asks(c, "srpA")
       \/ server[c].mech = "srp" /\ (Told(c, "srpSB") \/ Asks(c, "srpM"))

Login(c) ==
    \/ SrpExchange(c)
    \/ server[c].mech = "none" /\ (Told(c, "hello") \/ Asks(c, "firstSrp"))

Loading(c) ==
    /\ server[c].mech = "none" /\ client[c].mech = "none"
    /\ \/ client[c].pc = "init" /\ Told(c, "content")
       \/ client[c].pc = "loading" /\ (Asks(c, "requestMedia") \/ Told(c, "media"))
       \/ client[c].pc = "loaded" /\ Silent(c)
       \/ client[c].pc = "ready" /\ ~client[c].changing /\ Asks(c, "clientReady")

\* The user may ask for a new password before the server knows that it is ready.
ReadyAndChanging(c) ==
    /\ server[c].mech = "none" /\ client[c].mech = "srp"
    /\ client[c].pc = "ready" /\ client[c].changing
    /\ Len(toServer[c]) = 2 /\ toServer[c][1].type = "clientReady" /\ toServer[c][2].type = "srpA"
    /\ toClient[c] = <<>>

InTheGame(c) ==
    /\ client[c].pc = "ready"
    /\ \/ /\ server[c].mech = "none" /\ client[c].mech = "none" /\ ~client[c].changing
          /\ Silent(c)
       \/ /\ client[c].changing
          /\ \/ SrpExchange(c)
             \/ server[c].mech = "none" /\ Told(c, "denySudoMode")
             \/ server[c].mech = "none" /\ client[c].mech = "none" /\ Told(c, "changed")

InSudoMode(c) ==
    /\ client[c].pc = "ready" /\ client[c].changing /\ server[c].mech = "none"
    /\ Told(c, "acceptSudoMode") \/ (client[c].mech = "none" /\ Asks(c, "firstSrp"))

Talk(c) ==
    /\ client[c].pc # "ready" /\ server[c].state \notin {"none", "denied"} => ~client[c].changing
    /\ server[c].state = "created" => Silent(c) /\ server[c].mech = "none" /\ client[c].pc = "created"
    /\ server[c].state = "helloSent" => client[c].pc = "created" /\ Login(c)
    /\ server[c].state = "awaitingInit2" =>
         /\ server[c].mech = "none"
         /\ \/ client[c].pc = "created" /\ Told(c, "authAccept")
            \/ client[c].pc = "init" /\ client[c].mech = "none" /\ Asks(c, "init2")
    /\ server[c].state = "definitionsSent" => Loading(c) \/ ReadyAndChanging(c)
    /\ server[c].state = "active" => InTheGame(c)
    /\ server[c].state = "sudoMode" => InSudoMode(c)

Talks(c) == Patient /\ peer[c] = "up" /\ client[c].pc # "out" => Talk(c)
TalkInv == \A c \in Conn : Talks(c)

IInv ==
    /\ TypeOK
    /\ HelloInv
    /\ PlacesInv
    /\ JoinedWithinLimit
    /\ GoneInv
    /\ TalkInv

\* What belongs to one connection of HelloInv, GoneInv and TalkInv.
Local(c) == BeginsWithHello(c) /\ Gone(c) /\ Talks(c)
-----------------------------------------------------------------------------
(* Queues and packets.                                                       *)

LEMMA TailFacts ==
    ASSUME NEW S, NEW q \in Seq(S), q # <<>>
    PROVE  /\ Tail(q) \in Seq(S) /\ Len(q) \in Nat \ {0} /\ Len(Tail(q)) = Len(q) - 1
           /\ Head(q) = q[1] /\ Head(q) \in S
           /\ DOMAIN q = 1..Len(q) /\ DOMAIN Tail(q) = 1..Len(Tail(q))
           /\ \A k \in DOMAIN Tail(q) : k + 1 \in DOMAIN q /\ Tail(q)[k] = q[k + 1]
           /\ Len(q) = 1 => Tail(q) = <<>>
<1>1. /\ Tail(q) \in Seq(S) /\ Len(Tail(q)) = Len(q) - 1 /\ Head(q) \in S
      /\ \A k \in 1..Len(Tail(q)) : Tail(q)[k] = q[k + 1]
  BY HeadTailProperties
<1>2. Len(q) \in Nat /\ DOMAIN q = 1..Len(q) /\ DOMAIN Tail(q) = 1..Len(Tail(q))
  BY <1>1, LenProperties
<1>3. Len(q) # 0
  BY EmptySeq
<1>4. Head(q) = q[1]
  OBVIOUS
<1>5. Len(q) = 1 => Tail(q) = <<>>
  <2>1. Len(q) = 1 => Len(Tail(q)) = 0
    BY <1>1
  <2>2. Tail(q) # <<>> => Len(Tail(q)) \in Nat \ {0}
    BY <1>1, EmptySeq
  <2> QED BY <2>1, <2>2
<1> QED BY <1>1, <1>2, <1>3, <1>4, <1>5

LEMMA AppendFacts ==
    ASSUME NEW S, NEW q \in Seq(S), NEW e \in S
    PROVE  /\ Append(q, e) \in Seq(S) /\ Append(q, e) # <<>>
           /\ Len(q) \in Nat /\ Len(Append(q, e)) = Len(q) + 1
           /\ DOMAIN q = 1..Len(q) /\ DOMAIN Append(q, e) = 1..Len(q) + 1
           /\ \A k \in DOMAIN q : Append(q, e)[k] = q[k]
           /\ Append(q, e)[Len(q) + 1] = e
           /\ q = <<>> <=> Len(q) = 0
<1>1. /\ Append(q, e) \in Seq(S) /\ Append(q, e) # <<>> /\ Len(Append(q, e)) = Len(q) + 1
      /\ \A k \in 1..Len(q) : Append(q, e)[k] = q[k]
      /\ Append(q, e)[Len(q) + 1] = e
  BY AppendProperties
<1>2. Len(q) \in Nat /\ DOMAIN q = 1..Len(q) /\ DOMAIN Append(q, e) = 1..Len(Append(q, e))
  BY <1>1, LenProperties
<1>3. q = <<>> <=> Len(q) = 0
  BY EmptySeq
<1> QED BY <1>1, <1>2, <1>3

LEMMA PlainIsPacket ==
    ASSUME NEW type \in PacketType
    PROVE  Plain(type) \in Packet /\ Plain(type).type = type
BY SessionAssumption DEF Plain, Packet, Mech, Attempt

\* The queue q is q0, or q0 and a packet p after it.
MayEndWith(q, q0, p, does) == q = IF does THEN Append(q0, p) ELSE q0

LEMMA EndsWithFacts ==
    ASSUME NEW q0 \in Seq(Packet), NEW p \in Packet, NEW does \in BOOLEAN, NEW q,
           MayEndWith(q, q0, p, does)
    PROVE  /\ \A k \in DOMAIN q : (k \in DOMAIN q0 /\ q[k] = q0[k]) \/ q[k] = p
           /\ \A j, k \in DOMAIN q : j \notin DOMAIN q0 /\ k \notin DOMAIN q0 => j = k
           /\ \A k \in DOMAIN q0 : k \in DOMAIN q /\ q[k] = q0[k]
           /\ does => Len(q) \in DOMAIN q /\ q[Len(q)] = p /\ q # <<>>
<1>1. CASE does
  <2>1. q = Append(q0, p)
    BY <1>1 DEF MayEndWith
  <2>2. /\ DOMAIN q = 1..Len(q0) + 1 /\ DOMAIN q0 = 1..Len(q0) /\ Len(q0) \in Nat
        /\ \A k \in DOMAIN q0 : q[k] = q0[k]
        /\ q[Len(q0) + 1] = p /\ Len(q) = Len(q0) + 1 /\ q # <<>>
    BY <2>1, AppendFacts
  <2>3. \A k \in DOMAIN q : k \in DOMAIN q0 \/ k = Len(q0) + 1
    BY <2>2
  <2>4. DOMAIN q0 \subseteq DOMAIN q /\ Len(q) \in DOMAIN q
    BY <2>2
  <2> QED BY <2>2, <2>3, <2>4
<1>2. CASE ~does
  BY <1>2 DEF MayEndWith
<1> QED BY <1>1, <1>2

LEMMA PutFacts ==
    ASSUME NEW queues \in [Conn -> Seq(Packet)], NEW c \in Conn, NEW p \in Packet
    PROVE  /\ Put(queues, c, p) \in [Conn -> Seq(Packet)]
           /\ \A d \in Conn \ {c} : Put(queues, c, p)[d] = queues[d]
           /\ MayEndWith(Put(queues, c, p)[c], queues[c], p, peer[c] = "up")
<1>1. queues[c] \in Seq(Packet) /\ Append(queues[c], p) \in Seq(Packet)
  BY AppendProperties
<1> QED BY <1>1 DEF Put, MayEndWith

LEMMA AnswerFacts ==
    ASSUME toClient \in [Conn -> Seq(Packet)], NEW c \in Conn, NEW p \in Packet, Answer(c, p)
    PROVE  /\ toClient' \in [Conn -> Seq(Packet)]
           /\ \A d \in Conn \ {c} : toClient'[d] = toClient[d]
           /\ MayEndWith(toClient'[c], toClient[c], p, client[c].pc # "out" /\ peer[c] = "up")
BY PutFacts DEF Answer, MayEndWith

\* DenyAccess.
LEMMA DenyFacts ==
    ASSUME TypeOK, NEW c \in Conn, DenyAccess(c)
    PROVE  /\ server' \in [Conn -> RemoteClient] /\ server'[c].state = "denied"
           /\ server'[c].name = server[c].name
           /\ \A d \in Conn \ {c} : server'[d] = server[d]
           /\ toClient' \in [Conn -> Seq(Packet)]
           /\ \A d \in Conn \ {c} : toClient'[d] = toClient[d]
           /\ MayEndWith(toClient'[c], toClient[c], Plain("accessDenied"),
                         client[c].pc # "out" /\ peer[c] = "up")
<1>1. Plain("accessDenied") \in Packet
  BY PlainIsPacket DEF PacketType
<1>2. Answer(c, Plain("accessDenied"))
  BY DEF DenyAccess
<1>3. /\ server' \in [Conn -> RemoteClient] /\ server'[c].state = "denied"
      /\ server'[c].name = server[c].name
      /\ \A d \in Conn \ {c} : server'[d] = server[d]
  <2> DEFINE m == IF server[c].state = "helloSent" THEN "none" ELSE server[c].mech
             k == IF server[c].state = "helloSent" THEN 0 ELSE server[c].attempt
  <2>1. server' = [server EXCEPT ![c].state = "denied", ![c].mech = m, ![c].attempt = k]
    BY DEF DenyAccess
  <2>2. m \in Mech /\ k \in Attempt /\ server \in [Conn -> RemoteClient]
    BY SessionAssumption DEF TypeOK, RemoteClient, Attempt, Mech
  <2> HIDE DEF m, k
  <2> QED BY <2>1, <2>2, ZenonT(60) DEF RemoteClient
<1> QED BY <1>1, <1>2, <1>3, AnswerFacts DEF TypeOK

-----------------------------------------------------------------------------
(* What a step of one connection leaves as it is.                            *)

\* The connection d has no part in the step.
Apart(d) ==
    /\ client'[d] = client[d] /\ server'[d] = server[d] /\ peer'[d] = peer[d]
    /\ toServer'[d] = toServer[d] /\ toClient'[d] = toClient[d]

\* The client of c comes into no game, leaves none but by being denied, and keeps its name.
KeepsItsPlace(c) ==
    /\ server'[c].state \in {"active", "sudoMode"} =>
         server[c].state \in {"active", "sudoMode"} /\ server'[c].name = server[c].name
    /\ server[c].state \in InGame => server'[c].state \in InGame

LEMMA ApartKeeps ==
    ASSUME NEW d, Local(d), Apart(d)
    PROVE  Local(d)' /\ KeepsItsPlace(d)
<1>1. BeginsWithHello(d)' /\ Gone(d)'
  BY DEF Local, Apart, BeginsWithHello, Expecting, Gone
<1>2. Talks(d)'
  BY DEF Local, Apart, Talks, Talk, Silent, Asks, Told, Login, SrpExchange, Loading,
         ReadyAndChanging, InTheGame, InSudoMode
<1> QED BY <1>1, <1>2 DEF Apart, KeepsItsPlace, Local

LEMMA JoinedIsFinite ==
    ASSUME NEW S, S \subseteq Conn
    PROVE  IsFiniteSet(S) /\ Cardinality(S) \in Nat
           /\ \A T : T \subseteq S => Cardinality(T) =< Cardinality(S)
<1>1. IsFiniteSet(S)
  BY SessionAssumption, FS_Subset
<1> QED BY <1>1, FS_Subset, FS_CardinalityType

\* A step of one connection in which nobody joins.
LEMMA PlacesKept ==
    ASSUME IInv, TypeOK', players' = players, \A c \in Conn : KeepsItsPlace(c)
    PROVE  PlacesInv' /\ JoinedWithinLimit'
<1>1. Joined' \subseteq Joined /\ \A c \in Joined' : server'[c].name = server[c].name
  BY DEF Joined, KeepsItsPlace
<1>2. PlacesInv'
  <2>1. \A k \in DOMAIN players : players[k].conn \in Conn \union {NoConn}
    <3>1. players \in Seq(Player)
      BY DEF IInv, TypeOK
    <3>2. \A k \in DOMAIN players : players[k] \in Player
      BY <3>1, LenProperties, ElementOfSeq
    <3> QED BY <3>2 DEF Player
  <2> QED BY <1>1, <2>1 DEF IInv, PlacesInv, KeepsItsPlace
<1>3. JoinedWithinLimit'
  <2> DEFINE S == {c \in Joined : server[c].name \notin MayBypass}
             T == {c \in Joined' : server'[c].name \notin MayBypass}
  <2>1. T \subseteq S /\ S \subseteq Conn /\ T \subseteq Conn
    BY <1>1 DEF Joined
  <2>2. Cardinality(S) =< MaxUsers
    BY DEF IInv, JoinedWithinLimit
  <2> HIDE DEF S, T
  <2>3. Cardinality(T) =< MaxUsers
    <3>1. Cardinality(T) =< Cardinality(S) /\ Cardinality(T) \in Nat /\ Cardinality(S) \in Nat
      BY <2>1, JoinedIsFinite
    <3> QED BY <2>2, <3>1, SessionAssumption
  <2> QED BY <2>3 DEF T, JoinedWithinLimit
<1> QED BY <1>2, <1>3

LEMMA OneMoves ==
    ASSUME IInv, NEW c \in Conn, \A d \in Conn \ {c} : Apart(d),
           TypeOK', Local(c)', players' = players, KeepsItsPlace(c)
    PROVE  IInv'
<1>1. \A d \in Conn : Local(d)
  BY DEF IInv, HelloInv, GoneInv, TalkInv, Local
<1>2. \A d \in Conn : Local(d)' /\ KeepsItsPlace(d)
  BY <1>1, ApartKeeps
<1>3. PlacesInv' /\ JoinedWithinLimit'
  BY <1>2, PlacesKept
<1> QED BY <1>2, <1>3 DEF IInv, HelloInv, GoneInv, TalkInv, Local
-----------------------------------------------------------------------------
(* The steps of the client.                                                  *)

LEMMA LocalHolds ==
    ASSUME IInv, NEW c \in Conn
    PROVE  /\ Local(c) /\ client[c] \in Client /\ server[c] \in RemoteClient
           /\ toServer[c] \in Seq(Packet) /\ toClient[c] \in Seq(Packet)
BY DEF IInv, TypeOK, HelloInv, GoneInv, TalkInv, Local

LEMMA ConnectStep ==
    ASSUME IInv, NEW c \in Conn, Connect(c)
    PROVE  IInv'
<1>1. Fresh(client[c].name) \in RemoteClient /\ Fresh(client[c].name).state = "created"
      /\ Fresh(client[c].name).mech = "none"
  BY LocalHolds, SessionAssumption DEF Fresh, RemoteClient, Client, Mech, Attempt
<1>2. /\ server[c].state = "none" /\ toServer[c] = <<>> /\ toClient[c] = <<>>
      /\ client[c].attempt = 0 /\ ~client[c].changing
  BY LocalHolds DEF Connect, Local, BeginsWithHello
<1>3. TypeOK'
  BY <1>1, ZenonT(60) DEF IInv, TypeOK, Connect, Client
<1>4. client'[c].pc = "created" /\ server'[c] = Fresh(client[c].name) /\ peer'[c] = "up"
      /\ client'[c].attempt = 0 /\ client'[c].changing = client[c].changing
  BY <1>2 DEF IInv, TypeOK, Connect, Client
<1>5. \A d \in Conn \ {c} : Apart(d)
  BY DEF Apart, Connect, IInv, TypeOK
<1>6. UNCHANGED <<toServer, toClient, players>>
  BY DEF Connect
<1>7. Local(c)'
  <2>1. BeginsWithHello(c)'
    BY <1>1, <1>2, <1>4, <1>6 DEF BeginsWithHello, Expecting
  <2>2. Gone(c)' /\ Talks(c)'
    BY <1>1, <1>2, <1>4, <1>6 DEF Gone, Talks, Talk, Silent
  <2> QED BY <2>1, <2>2 DEF Local
<1>8. KeepsItsPlace(c)
  BY <1>1, <1>2, <1>4 DEF KeepsItsPlace, InGame
<1> QED BY <1>3, <1>5, <1>6, <1>7, <1>8, OneMoves

\* INIT is sent or lost.
LEMMA InitsStep ==
    ASSUME IInv, NEW c \in Conn, SendInit(c) \/ LoseInit(c)
    PROVE  IInv'
<1>1. UNCHANGED <<client, server, peer, toServer, toClient, players, accounts>>
      /\ inits' \subseteq Conn
  BY DEF SendInit, LoseInit, IInv, TypeOK
<1>2. \A d \in Conn : Apart(d)
  BY <1>1 DEF Apart
<1>3. TypeOK'
  BY <1>1 DEF IInv, TypeOK
<1>4. Local(c)' /\ KeepsItsPlace(c)
  BY <1>2, LocalHolds, ApartKeeps
<1> QED BY <1>1, <1>2, <1>3, <1>4, OneMoves

\* The client has read a packet that is not the answer to INIT.
LEMMA ReadFacts ==
    ASSUME IInv, NEW c \in Conn, NEW type, Comes(c, type)
    PROVE  /\ UNCHANGED <<server, peer, inits, players, accounts>>
           /\ toClient' \in [Conn -> Seq(Packet)]
           /\ \A d \in Conn \ {c} : toClient'[d] = toClient[d]
           /\ Len(toClient[c]) \in Nat \ {0} /\ toClient[c][1].type = type
           /\ toClient[c] # <<>> /\ Head(toClient[c]) \in Packet
           /\ Len(toClient[c]) = 1 => toClient'[c] = <<>>
           /\ client[c].pc \notin {"idle", "out"}
           /\ type \notin {"accessDenied", "deletingPeer"} =>
                \A k \in DOMAIN toClient'[c] : toClient'[c][k].type # "hello"
           /\ type \notin {"hello", "accessDenied", "deletingPeer"} => ~Expecting(c)
<1>1. /\ UNCHANGED <<server, peer, inits, players, accounts>>
      /\ toClient[c] # <<>> /\ Head(toClient[c]).type = type
      /\ toClient' = [toClient EXCEPT ![c] = Tail(@)]
  BY DEF Comes, linkVars
<1> DEFINE q == toClient[c]
<1>2. /\ Tail(q) \in Seq(Packet) /\ Len(q) \in Nat \ {0} /\ Len(Tail(q)) = Len(q) - 1
      /\ Head(q) = q[1] /\ Head(q) \in Packet
      /\ DOMAIN q = 1..Len(q) /\ DOMAIN Tail(q) = 1..Len(Tail(q))
      /\ \A k \in DOMAIN Tail(q) : k + 1 \in DOMAIN q /\ Tail(q)[k] = q[k + 1]
      /\ Len(q) = 1 => Tail(q) = <<>>
  <2>1. q \in Seq(Packet) /\ q # <<>>
    BY <1>1, LocalHolds
  <2> HIDE DEF q
  <2> QED BY <2>1, TailFacts
<1>3. /\ toClient' \in [Conn -> Seq(Packet)] /\ toClient'[c] = Tail(q)
      /\ \A d \in Conn \ {c} : toClient'[d] = toClient[d]
  BY <1>1, <1>2 DEF IInv, TypeOK
<1>4. client[c].pc \notin {"idle", "out"}
  BY <1>1, LocalHolds DEF Local, BeginsWithHello
<1>5. type \notin {"hello", "accessDenied", "deletingPeer"} => ~Expecting(c)
  BY <1>1, <1>2, LocalHolds DEF Local, BeginsWithHello
<1>6. ASSUME type \notin {"accessDenied", "deletingPeer"}, NEW k \in DOMAIN Tail(q)
      PROVE  Tail(q)[k].type # "hello"
  <2>1. CASE type = "hello"
    <3>1. q[1].type = "hello" /\ 1 \in DOMAIN q /\ k + 1 \in DOMAIN q /\ k + 1 # 1
      BY <1>1, <1>2, <1>6, <2>1
    <3> QED BY <1>2, <1>6, <3>1, LocalHolds DEF Local, BeginsWithHello
  <2>2. CASE type # "hello"
    BY <1>2, <1>5, <1>6, <2>2 DEF Expecting
  <2> QED BY <2>1, <2>2
<1> QED BY <1>1, <1>2, <1>3, <1>4, <1>5, <1>6
\* A packet for the server, or none.
LEMMA ToServerFacts ==
    ASSUME IInv, NEW c \in Conn, peer' = peer, server' = server,
           toServer' = toServer \/ \E p \in Packet : toServer' = Put(toServer, c, p)
    PROVE  /\ toServer' \in [Conn -> Seq(Packet)]
           /\ \A d \in Conn \ {c} : toServer'[d] = toServer[d]
           /\ Gone(c)'
<1>1. CASE toServer' = toServer
  BY <1>1, LocalHolds DEF IInv, TypeOK, Local, Gone
<1>2. ASSUME NEW p \in Packet, toServer' = Put(toServer, c, p)
      PROVE  /\ toServer' \in [Conn -> Seq(Packet)]
             /\ \A d \in Conn \ {c} : toServer'[d] = toServer[d]
             /\ Gone(c)'
  <2>1. toServer \in [Conn -> Seq(Packet)]
    BY DEF IInv, TypeOK
  <2>2. /\ Put(toServer, c, p) \in [Conn -> Seq(Packet)]
        /\ \A d \in Conn \ {c} : Put(toServer, c, p)[d] = toServer[d]
        /\ MayEndWith(Put(toServer, c, p)[c], toServer[c], p, peer[c] = "up")
    BY <2>1, PutFacts
  <2> QED BY <1>2, <2>2, LocalHolds DEF Local, Gone, MayEndWith
<1> QED BY <1>1, <1>2

\* The client reads a packet and answers, or does not.
LEMMA ReadStep ==
    ASSUME IInv, NEW c \in Conn, NEW type, Comes(c, type),
           type \notin {"accessDenied", "deletingPeer"},
           client' \in [Conn -> Client], \A d \in Conn \ {c} : client'[d] = client[d],
           client'[c].pc \notin {"idle", "out"},
           toServer' = toServer \/ \E p \in Packet : toServer' = Put(toServer, c, p),
           Talks(c)'
    PROVE  IInv'
<1>1. /\ UNCHANGED <<server, peer, inits, players, accounts>>
      /\ toClient' \in [Conn -> Seq(Packet)]
      /\ \A d \in Conn \ {c} : toClient'[d] = toClient[d]
      /\ Len(toClient[c]) \in Nat \ {0} /\ toClient[c][1].type = type /\ toClient[c] # <<>>
      /\ \A k \in DOMAIN toClient'[c] : toClient'[c][k].type # "hello"
      /\ type # "hello" => ~Expecting(c)
  BY ReadFacts
<1>2. /\ toServer' \in [Conn -> Seq(Packet)]
      /\ \A d \in Conn \ {c} : toServer'[d] = toServer[d]
      /\ Gone(c)'
  BY <1>1, ToServerFacts
<1>3. server[c].state # "created"
  <2>1. CASE type = "hello"
    <3>1. 1 \in DOMAIN toClient[c]
      BY <1>1, LocalHolds, LenProperties
    <3> QED BY <1>1, <2>1, <3>1, LocalHolds DEF Local, BeginsWithHello
  <2>2. CASE type # "hello"
    BY <1>1, <2>2 DEF Expecting
  <2> QED BY <2>1, <2>2
<1>4. BeginsWithHello(c)'
  BY <1>1, <1>3 DEF BeginsWithHello, Expecting
<1>5. TypeOK'
  BY <1>1, <1>2 DEF IInv, TypeOK
<1>6. (\A d \in Conn \ {c} : Apart(d)) /\ KeepsItsPlace(c)
  BY <1>1, <1>2 DEF Apart, KeepsItsPlace
<1> QED BY <1>1, <1>2, <1>4, <1>5, <1>6, OneMoves DEF Local

LEMMA StartSrpFacts ==
    ASSUME IInv, NEW c \in Conn, NEW right \in BOOLEAN, StartSrp(c, right),
           client[c].attempt < MaxAttempts[c]
    PROVE  /\ client' \in [Conn -> Client] /\ \A d \in Conn \ {c} : client'[d] = client[d]
           /\ client'[c].pc = client[c].pc /\ client'[c].mech = "srp"
           /\ client'[c].changing = (client[c].pc = "ready")
           /\ \E p \in Packet : p.type = "srpA" /\ toServer' = Put(toServer, c, p)
<1> DEFINE k == client[c].attempt + 1
           p == [type |-> "srpA", mech |-> "srp", attempt |-> k, right |-> FALSE]
<1>1. k \in Attempt /\ client[c] \in Client /\ client \in [Conn -> Client]
  BY LocalHolds, SessionAssumption DEF Client, Attempt, IInv, TypeOK
<1>2. PICK ch \in BOOLEAN : ch = (client[c].pc = "ready")
  OBVIOUS
<1>3. toServer' = Put(toServer, c, p)
  BY DEF StartSrp
<1>4. p \in Packet /\ p.type = "srpA"
  BY <1>1 DEF Packet, PacketType, Mech
<1> HIDE DEF k, p
<1>5. PICK y : y = [client[c] EXCEPT !.mech = "srp", !.attempt = k, !.right = right,
                                    !.changing = ch]
  OBVIOUS
<1>6. y \in Client /\ y.pc = client[c].pc /\ y.mech = "srp" /\ y.changing = ch
  BY <1>1, <1>2, <1>5 DEF Client, Mech
<1>7. client' = [client EXCEPT ![c] = y]
  BY <1>2, <1>5, Zenon DEF StartSrp, k
<1> QED BY <1>1, <1>2, <1>3, <1>4, <1>6, <1>7

\* While they talk, the client has read the one packet for it and may have answered.
LEMMA TurnTaken ==
    ASSUME IInv, NEW c \in Conn, NEW type, Comes(c, type), Told(c, type),
           NEW p \in Packet, toServer' = Put(toServer, c, p), peer[c] = "up"
    PROVE  Asks(c, p.type)'
<1>1. /\ Len(toClient[c]) = 1 /\ toServer[c] = <<>> /\ toClient'[c] = <<>> /\ peer' = peer
  BY ReadFacts DEF Told
<1>2. toServer \in [Conn -> Seq(Packet)]
  BY DEF IInv, TypeOK
<1>3. toServer'[c] = Append(toServer[c], p)
  BY <1>2, PutFacts DEF MayEndWith
<1>4. Len(toServer[c]) = 0
  BY <1>1, <1>2, EmptySeq
<1>5. toServer[c] \in Seq(Packet)
  BY <1>2
<1>6. Len(toServer'[c]) = 1 /\ toServer'[c][1] = p
  BY <1>3, <1>4, <1>5, AppendFacts
<1> QED BY <1>1, <1>6 DEF Asks

\* The talk of the client in the state in which the packet comes.
LEMMA WhoIsTold ==
    ASSUME IInv, NEW c \in Conn, NEW type, Comes(c, type), Patient, peer[c] = "up",
           server[c].state \notin {"none", "denied"}
    PROVE  /\ Talk(c) /\ Told(c, type)
           /\ \A t \in PacketType : Told(c, t) => t = type
<1>1. Talk(c)
  BY LocalHolds, ReadFacts DEF Local, Talks
<1>2. Len(toClient[c]) \in Nat \ {0} /\ toClient[c][1].type = type /\ toClient[c] # <<>>
  BY ReadFacts
<1>3. server[c].state \in {"created", "helloSent", "awaitingInit2", "definitionsSent", "active",
                           "sudoMode"}
  BY LocalHolds DEF RemoteClient
<1>4. Len(toClient[c]) = 1 /\ toServer[c] = <<>>
  BY <1>1, <1>2, <1>3 DEF Talk, Silent, Asks, Told, Login, SrpExchange, Loading,
         ReadyAndChanging, InTheGame, InSudoMode
<1> QED BY <1>1, <1>2, <1>4 DEF Told
LEMMA HandleHelloStep ==
    ASSUME IInv, NEW c \in Conn, HandleHello(c)
    PROVE  IInv'
<1>1. Comes(c, "hello") /\ toClient[c] # <<>> /\ toClient[c][1].type = "hello"
      /\ UNCHANGED <<server, peer>> /\ client[c].pc \notin {"idle", "out"} /\ Len(toClient[c]) \in Nat \ {0}
  <2>1. Comes(c, "hello")
    BY DEF HandleHello
  <2> QED BY <2>1, ReadFacts
<1>2. Expecting(c)
  <2>1. 1 \in DOMAIN toClient[c]
    BY <1>1, LocalHolds, LenProperties
  <2> QED BY <1>1, <2>1 DEF Expecting
<1>3. client[c].attempt = 0 /\ 0 < MaxAttempts[c]
  BY <1>2, LocalHolds, SessionAssumption DEF Local, BeginsWithHello
<1>4. ASSUME client' \in [Conn -> Client], \A d \in Conn \ {c} : client'[d] = client[d],
             client'[c].pc = client[c].pc,
             client[c].pc # "ready" /\ ~client[c].changing => ~client'[c].changing,
             NEW p \in Packet, toServer' = Put(toServer, c, p),
             \/ p.type = "firstSrp"
             \/ p.type = "srpA" /\ client'[c].mech = "srp"
      PROVE  IInv'
  <2>1. ASSUME Patient, peer'[c] = "up", client'[c].pc # "out"
        PROVE  Talk(c)'
    <3>1. CASE server[c].state \in {"none", "denied"}
      BY <1>1, <3>1 DEF Talk
    <3>2. CASE server[c].state \notin {"none", "denied"}
      <4>1. /\ Talk(c) /\ Told(c, "hello")
            /\ \A t \in PacketType : Told(c, t) => t = "hello"
        BY <1>1, <1>4, <2>1, <3>2, WhoIsTold
      <4>2. Asks(c, p.type)'
        BY <1>1, <1>4, <2>1, <4>1, TurnTaken
      <4>3. toClient[c] # <<>>
        BY <1>1
      <4>4. server[c].state = "helloSent" /\ client[c].pc = "created" /\ server[c].mech = "none"
            /\ ~client[c].changing
        BY <1>1, <3>2, <4>1, LocalHolds DEF RemoteClient, Talk, Login, Loading, Told, Asks, Silent, SrpExchange,
               InTheGame, InSudoMode, ReadyAndChanging, PacketType
      <4> QED BY <1>1, <1>4, <4>2, <4>4 DEF Talk, Login, SrpExchange
    <3> QED BY <3>1, <3>2
  <2> QED BY <1>1, <1>4, <2>1, ReadStep DEF Talks
<1>5. CASE Head(toClient[c]).mech = "first" /\ client' = [client EXCEPT ![c].mech = "first", ![c].attempt = @ + 1]
           /\ toServer' = Put(toServer, c, Plain("firstSrp"))
  <2>1. Plain("firstSrp") \in Packet /\ Plain("firstSrp").type = "firstSrp"
    BY PlainIsPacket DEF PacketType
  <2>2. /\ client' \in [Conn -> Client] /\ \A d \in Conn \ {c} : client'[d] = client[d]
        /\ client'[c].pc = client[c].pc /\ client'[c].changing = client[c].changing
    <3>1. client' = [client EXCEPT ![c].mech = "first", ![c].attempt = 1]
      BY <1>3, <1>5
    <3>2. 1 \in Attempt
      BY SessionAssumption DEF Attempt
    <3>3. PICK y : y = [client[c] EXCEPT !.mech = "first", !.attempt = 1]
      OBVIOUS
    <3>4. y \in Client /\ y.pc = client[c].pc /\ y.changing = client[c].changing
      BY <3>2, <3>3, LocalHolds DEF Client, Mech
    <3>5. client' = [client EXCEPT ![c] = y]
      BY <3>1, <3>3, Zenon
    <3> QED BY <3>4, <3>5 DEF IInv, TypeOK
  <2> QED BY <1>4, <1>5, <2>1, <2>2
<1>6. ASSUME NEW right \in BOOLEAN, StartSrp(c, right) PROVE IInv'
  <2>1. /\ client' \in [Conn -> Client] /\ \A d \in Conn \ {c} : client'[d] = client[d]
        /\ client'[c].pc = client[c].pc /\ client'[c].mech = "srp"
        /\ client'[c].changing = (client[c].pc = "ready")
        /\ \E p \in Packet : p.type = "srpA" /\ toServer' = Put(toServer, c, p)
    BY <1>3, <1>6, StartSrpFacts
  <2> QED BY <1>4, <2>1
<1> QED BY <1>5, <1>6 DEF HandleHello
\* The client has read a packet and does not answer.
LEMMA ReadInSilence ==
    ASSUME IInv, NEW c \in Conn, NEW type, Comes(c, type), Told(c, type), toServer' = toServer
    PROVE  Silent(c)'
BY ReadFacts DEF Told, Silent

\* The state of the server, and of the client, in which the packet comes.
LEMMA ToldWhen ==
    ASSUME IInv, NEW c \in Conn, NEW type \in PacketType, Comes(c, type), Patient, peer[c] = "up",
           server[c].state \notin {"none", "denied"}
    PROVE  /\ Told(c, type)
           /\ client[c].pc # "ready" => ~client[c].changing
           /\ type = "srpSB" =>
                \/ server[c].state = "helloSent" /\ client[c].pc = "created" /\ SrpExchange(c)
                   /\ server[c].mech = "srp"
                \/ server[c].state = "active" /\ client[c].pc = "ready" /\ client[c].changing
                   /\ SrpExchange(c) /\ server[c].mech = "srp"
           /\ type = "authAccept" =>
                /\ server[c].state = "awaitingInit2" /\ server[c].mech = "none"
                /\ client[c].pc = "created"
           /\ type \in {"content", "media"} =>
                /\ server[c].state = "definitionsSent" /\ server[c].mech = "none"
                /\ client[c].mech = "none" /\ client[c].pc \in {"init", "loading"}
           /\ type = "acceptSudoMode" =>
                /\ server[c].state = "sudoMode" /\ server[c].mech = "none"
                /\ client[c].pc = "ready" /\ client[c].changing
           /\ type \in {"denySudoMode", "changed"} =>
                /\ server[c].state = "active" /\ server[c].mech = "none"
                /\ client[c].pc = "ready"
           /\ type = "changed" => client[c].mech = "none"
<1>1. /\ Talk(c) /\ Told(c, type)
      /\ \A t \in PacketType : Told(c, t) => t = type
  BY WhoIsTold
<1>2. toClient[c] # <<>>
  BY ReadFacts
<1>3. server[c].state \in {"created", "helloSent", "awaitingInit2", "definitionsSent", "active",
                           "sudoMode"}
  BY LocalHolds DEF RemoteClient
<1>4. ~Silent(c) /\ ~ReadyAndChanging(c) /\ \A t \in PacketType : ~Asks(c, t)
  BY <1>2 DEF Silent, ReadyAndChanging, Asks
<1>5. CASE server[c].state \in {"created", "helloSent"}
  BY <1>1, <1>4, <1>5 DEF Talk, Login, SrpExchange, PacketType
<1>6. CASE server[c].state = "awaitingInit2"
  BY <1>1, <1>4, <1>6 DEF Talk, PacketType
<1>7. CASE server[c].state = "definitionsSent"
  BY <1>1, <1>4, <1>7 DEF Talk, Loading, PacketType
<1>8. CASE server[c].state = "active"
  BY <1>1, <1>4, <1>8 DEF Talk, InTheGame, SrpExchange, PacketType
<1>9. CASE server[c].state = "sudoMode"
  BY <1>1, <1>4, <1>9 DEF Talk, InSudoMode, PacketType
<1> QED BY <1>3, <1>5, <1>6, <1>7, <1>8, <1>9

LEMMA HandleSrpBytesSandBStep ==
    ASSUME IInv, NEW c \in Conn, HandleSrpBytesSandB(c)
    PROVE  IInv'
<1> DEFINE k == client[c].attempt
           right == client[c].right /\ Head(toClient[c]).attempt = k
           p == [type |-> "srpM", mech |-> "srp", attempt |-> k, right |-> right]
<1>1. Comes(c, "srpSB") /\ client' = client /\ "srpSB" \in PacketType
  BY DEF HandleSrpBytesSandB, PacketType
<1>2. UNCHANGED <<server, peer>> /\ client[c].pc \notin {"idle", "out"}
  BY <1>1, ReadFacts
<1>3. IF client[c].mech = "srp" THEN toServer' = Put(toServer, c, p) ELSE toServer' = toServer
  BY DEF HandleSrpBytesSandB
<1>4. p \in Packet /\ p.type = "srpM"
  <2>1. k \in Attempt /\ right \in BOOLEAN
    BY LocalHolds DEF Client
  <2> HIDE DEF k, right
  <2> QED BY <2>1 DEF Packet, PacketType, Mech
<1> HIDE DEF p
<1>5. ASSUME Patient, peer[c] = "up", client[c].pc # "out" PROVE Talk(c)'
  <2>1. CASE server[c].state \in {"none", "denied"}
    BY <1>2, <2>1 DEF Talk
  <2>2. CASE server[c].state \notin {"none", "denied"}
    <3>1. /\ Told(c, "srpSB") /\ SrpExchange(c) /\ server[c].mech = "srp"
          /\ (client[c].pc # "ready" => ~client[c].changing)
          /\ \/ server[c].state = "helloSent" /\ client[c].pc = "created"
             \/ server[c].state = "active" /\ client[c].pc = "ready" /\ client[c].changing
      BY <1>1, <1>5, <2>2, ToldWhen
    <3>2. client[c].mech = "srp"
      BY <3>1 DEF SrpExchange
    <3>3. toServer' = Put(toServer, c, p)
      BY <1>3, <3>2
    <3>4. Asks(c, "srpM")'
      BY <1>1, <1>4, <1>5, <3>1, <3>3, TurnTaken
    <3>5. SrpExchange(c)'
      BY <1>1, <1>2, <3>1, <3>2, <3>4 DEF SrpExchange
    <3> QED BY <1>1, <1>2, <3>1, <3>5 DEF Talk, Login, InTheGame
  <2> QED BY <2>1, <2>2
<1> QED BY <1>1, <1>2, <1>3, <1>4, <1>5, ReadStep DEF Talks, IInv, TypeOK
\* The client with another state, and the authentication over.
LEMMA ClientWith ==
    ASSUME IInv, NEW c \in Conn, NEW y \in Client, client' = [client EXCEPT ![c] = y]
    PROVE  client' \in [Conn -> Client] /\ client'[c] = y
           /\ \A d \in Conn \ {c} : client'[d] = client[d]
BY DEF IInv, TypeOK

LEMMA HandleAuthAcceptStep ==
    ASSUME IInv, NEW c \in Conn, HandleAuthAccept(c)
    PROVE  IInv'
<1>1. Comes(c, "authAccept") /\ "authAccept" \in PacketType
      /\ toServer' = Put(toServer, c, Plain("init2"))
  BY DEF HandleAuthAccept, PacketType
<1>2. UNCHANGED <<server, peer>>
  BY <1>1, ReadFacts
<1>3. PICK y : y = [client[c] EXCEPT !.pc = "init", !.mech = "none", !.right = FALSE]
  OBVIOUS
<1>4. y \in Client /\ y.pc = "init" /\ y.mech = "none" /\ y.changing = client[c].changing
  BY <1>3, LocalHolds DEF Client, Mech
<1>5. client' = [client EXCEPT ![c] = y]
  BY <1>3, Zenon DEF HandleAuthAccept
<1>6. client' \in [Conn -> Client] /\ client'[c] = y /\ \A d \in Conn \ {c} : client'[d] = client[d]
  BY <1>4, <1>5, ClientWith
<1>7. Plain("init2") \in Packet /\ Plain("init2").type = "init2"
  BY PlainIsPacket DEF PacketType
<1>8. ASSUME Patient, peer[c] = "up" PROVE Talk(c)'
  <2>1. CASE server[c].state \in {"none", "denied"}
    BY <1>2, <2>1 DEF Talk
  <2>2. CASE server[c].state \notin {"none", "denied"}
    <3>1. /\ Told(c, "authAccept") /\ server[c].state = "awaitingInit2" /\ server[c].mech = "none"
          /\ ~client[c].changing
      BY <1>1, <1>8, <2>2, ToldWhen
    <3>2. Asks(c, "init2")'
      BY <1>1, <1>7, <1>8, <3>1, TurnTaken
    <3> QED BY <1>2, <1>4, <1>6, <3>1, <3>2 DEF Talk
  <2> QED BY <2>1, <2>2
<1> QED BY <1>1, <1>2, <1>4, <1>6, <1>7, <1>8, ReadStep DEF Talks
\* handleCommand_ItemDef and the like, and handleCommand_Media.
LEMMA ContentSteps ==
    ASSUME IInv, NEW c \in Conn, HandleContent(c) \/ HandleMedia(c)
    PROVE  IInv'
<1>1. ASSUME NEW type \in {"content", "media"}, Comes(c, type), NEW pc \in {"loaded", "loading"},
             client' = [client EXCEPT ![c].pc = pc],
             \/ pc = "loaded" /\ toServer' = toServer
             \/ pc = "loading" /\ toServer' = Put(toServer, c, Plain("requestMedia"))
      PROVE  IInv'
  <2>1. UNCHANGED <<server, peer>> /\ type \in PacketType
    BY <1>1, ReadFacts DEF PacketType
  <2>2. PICK y : y = [client[c] EXCEPT !.pc = pc]
    OBVIOUS
  <2>3. y \in Client /\ y.pc = pc /\ y.mech = client[c].mech /\ y.changing = client[c].changing
    BY <1>1, <2>2, LocalHolds DEF Client
  <2>4. client' = [client EXCEPT ![c] = y]
    BY <1>1, <2>2, Zenon
  <2>5. client' \in [Conn -> Client] /\ client'[c] = y
        /\ \A d \in Conn \ {c} : client'[d] = client[d]
    BY <2>3, <2>4, ClientWith
  <2>6. Plain("requestMedia") \in Packet /\ Plain("requestMedia").type = "requestMedia"
    BY PlainIsPacket DEF PacketType
  <2>7. ASSUME Patient, peer[c] = "up" PROVE Talk(c)'
    <3>1. CASE server[c].state \in {"none", "denied"}
      BY <2>1, <3>1 DEF Talk
    <3>2. CASE server[c].state \notin {"none", "denied"}
      <4>1. /\ Told(c, type) /\ server[c].state = "definitionsSent" /\ server[c].mech = "none"
            /\ client[c].mech = "none" /\ ~client[c].changing
        BY <1>1, <2>1, <2>7, <3>2, ToldWhen
      <4>2. CASE pc = "loaded" /\ toServer' = toServer
        <5>1. Silent(c)'
          BY <1>1, <4>1, <4>2, ReadInSilence
        <5> QED BY <2>1, <2>3, <2>5, <4>1, <4>2, <5>1 DEF Talk, Loading
      <4>3. CASE pc = "loading" /\ toServer' = Put(toServer, c, Plain("requestMedia"))
        <5>1. Asks(c, "requestMedia")'
          BY <1>1, <2>6, <2>7, <4>1, <4>3, TurnTaken
        <5> QED BY <2>1, <2>3, <2>5, <4>1, <4>3, <5>1 DEF Talk, Loading
      <4> QED BY <1>1, <4>2, <4>3
    <3> QED BY <3>1, <3>2
  <2> QED BY <1>1, <2>1, <2>3, <2>5, <2>6, <2>7, ReadStep DEF Talks
<1>2. CASE HandleContent(c)
  BY <1>1, <1>2 DEF HandleContent
<1>3. CASE HandleMedia(c)
  BY <1>1, <1>3 DEF HandleMedia
<1> QED BY <1>2, <1>3

LEMMA HandleAcceptSudoModeStep ==
    ASSUME IInv, NEW c \in Conn, HandleAcceptSudoMode(c)
    PROVE  IInv'
<1>1. Comes(c, "acceptSudoMode") /\ "acceptSudoMode" \in PacketType
      /\ toServer' = Put(toServer, c, Plain("firstSrp"))
  BY DEF HandleAcceptSudoMode, PacketType
<1>2. UNCHANGED <<server, peer>> /\ client[c].pc \notin {"idle", "out"}
  BY <1>1, ReadFacts
<1>3. PICK y : y = [client[c] EXCEPT !.mech = "none", !.right = FALSE]
  OBVIOUS
<1>4. y \in Client /\ y.pc = client[c].pc /\ y.mech = "none" /\ y.changing = client[c].changing
  BY <1>3, LocalHolds DEF Client, Mech
<1>5. client' = [client EXCEPT ![c] = y]
  BY <1>3, Zenon DEF HandleAcceptSudoMode
<1>6. client' \in [Conn -> Client] /\ client'[c] = y /\ \A d \in Conn \ {c} : client'[d] = client[d]
  BY <1>4, <1>5, ClientWith
<1>7. Plain("firstSrp") \in Packet /\ Plain("firstSrp").type = "firstSrp"
  BY PlainIsPacket DEF PacketType
<1>8. ASSUME Patient, peer[c] = "up" PROVE Talk(c)'
  <2>1. CASE server[c].state \in {"none", "denied"}
    BY <1>2, <2>1 DEF Talk
  <2>2. CASE server[c].state \notin {"none", "denied"}
    <3>1. /\ Told(c, "acceptSudoMode") /\ server[c].state = "sudoMode" /\ server[c].mech = "none"
          /\ client[c].pc = "ready" /\ client[c].changing
      BY <1>1, <1>8, <2>2, ToldWhen
    <3>2. Asks(c, "firstSrp")'
      BY <1>1, <1>7, <1>8, <3>1, TurnTaken
    <3> QED BY <1>2, <1>4, <1>6, <3>1, <3>2 DEF Talk, InSudoMode
  <2> QED BY <2>1, <2>2
<1> QED BY <1>1, <1>2, <1>4, <1>6, <1>7, <1>8, ReadStep DEF Talks

LEMMA HandleChangeAnswerStep ==
    ASSUME IInv, NEW c \in Conn, HandleChangeAnswer(c)
    PROVE  IInv'
<1>1. ASSUME NEW type \in {"denySudoMode", "changed"}, Comes(c, type), NEW y \in Client,
             client' = [client EXCEPT ![c] = y], y.pc = client[c].pc, ~y.changing,
             y.mech = IF type = "changed" THEN client[c].mech ELSE "none"
      PROVE  IInv'
  <2>1. UNCHANGED <<server, peer>> /\ type \in PacketType /\ client[c].pc \notin {"idle", "out"}
        /\ toServer' = toServer
    BY <1>1, ReadFacts DEF PacketType, HandleChangeAnswer
  <2>2. client' \in [Conn -> Client] /\ client'[c] = y
        /\ \A d \in Conn \ {c} : client'[d] = client[d]
    BY <1>1, ClientWith
  <2>3. ASSUME Patient, peer[c] = "up" PROVE Talk(c)'
    <3>1. CASE server[c].state \in {"none", "denied"}
      BY <2>1, <3>1 DEF Talk
    <3>2. CASE server[c].state \notin {"none", "denied"}
      <4>1. /\ Told(c, type) /\ server[c].state = "active" /\ server[c].mech = "none"
            /\ client[c].pc = "ready" /\ (type = "changed" => client[c].mech = "none")
        BY <1>1, <2>1, <2>3, <3>2, ToldWhen
      <4>2. Silent(c)'
        BY <1>1, <2>1, <4>1, ReadInSilence
      <4> QED BY <1>1, <2>1, <2>2, <4>1, <4>2 DEF Talk, InTheGame
    <3> QED BY <3>1, <3>2
  <2> QED BY <1>1, <2>1, <2>2, <2>3, ReadStep DEF Talks
<1>2. CASE Comes(c, "denySudoMode")
           /\ client' = [client EXCEPT ![c].mech = "none", ![c].right = FALSE, ![c].changing = FALSE]
  <2>1. PICK y : y = [client[c] EXCEPT !.mech = "none", !.right = FALSE, !.changing = FALSE]
    OBVIOUS
  <2>2. y \in Client /\ y.pc = client[c].pc /\ ~y.changing /\ y.mech = "none"
    BY <2>1, LocalHolds DEF Client, Mech
  <2>3. client' = [client EXCEPT ![c] = y]
    BY <1>2, <2>1, Zenon
  <2> QED BY <1>1, <1>2, <2>2, <2>3
<1>3. CASE Comes(c, "changed") /\ client' = [client EXCEPT ![c].changing = FALSE]
  <2>1. PICK y : y = [client[c] EXCEPT !.changing = FALSE]
    OBVIOUS
  <2>2. y \in Client /\ y.pc = client[c].pc /\ ~y.changing /\ y.mech = client[c].mech
    BY <2>1, LocalHolds DEF Client
  <2>3. client' = [client EXCEPT ![c] = y]
    BY <1>3, <2>1, Zenon
  <2> QED BY <1>1, <1>3, <2>2, <2>3
<1> QED BY <1>2, <1>3 DEF HandleChangeAnswer
\* The client sends a packet unasked, in the game or about to enter it.
LEMMA SpeaksStep ==
    ASSUME IInv, NEW c \in Conn, UNCHANGED <<server, peer, inits, toClient, players, accounts>>,
           client[c].pc \in {"loaded", "ready"}, client'[c].pc \in {"loaded", "ready"},
           client' \in [Conn -> Client], \A d \in Conn \ {c} : client'[d] = client[d],
           \E p \in Packet : toServer' = Put(toServer, c, p), Talks(c)'
    PROVE  IInv'
<1>1. /\ toServer' \in [Conn -> Seq(Packet)]
      /\ \A d \in Conn \ {c} : toServer'[d] = toServer[d]
      /\ Gone(c)'
  BY ToServerFacts
<1>2. BeginsWithHello(c)'
  BY LocalHolds DEF Local, BeginsWithHello, Expecting
<1>3. TypeOK'
  BY <1>1 DEF IInv, TypeOK
<1>4. (\A d \in Conn \ {c} : Apart(d)) /\ KeepsItsPlace(c)
  BY <1>1 DEF Apart, KeepsItsPlace
<1> QED BY <1>1, <1>2, <1>3, <1>4, OneMoves DEF Local

\* The packet comes behind those that are there.
LEMMA SpeaksFacts ==
    ASSUME IInv, NEW c \in Conn, NEW p \in Packet, toServer' = Put(toServer, c, p),
           peer[c] = "up"
    PROVE  /\ toServer[c] = <<>> => Len(toServer'[c]) = 1 /\ toServer'[c][1] = p
           /\ Len(toServer[c]) = 1 =>
                Len(toServer'[c]) = 2 /\ toServer'[c][1] = toServer[c][1] /\ toServer'[c][2] = p
<1>1. toServer \in [Conn -> Seq(Packet)]
  BY DEF IInv, TypeOK
<1>2. toServer'[c] = Append(toServer[c], p)
  BY <1>1, PutFacts DEF MayEndWith
<1> DEFINE q == toServer[c]
<1>3. q \in Seq(Packet)
  BY <1>1
<1> HIDE DEF q
<1>4. /\ Len(Append(q, p)) = Len(q) + 1 /\ DOMAIN q = 1..Len(q)
      /\ \A k \in DOMAIN q : Append(q, p)[k] = q[k]
      /\ Append(q, p)[Len(q) + 1] = p
      /\ q = <<>> <=> Len(q) = 0
  BY <1>3, AppendFacts
<1>5. q = <<>> => Len(Append(q, p)) = 1 /\ Append(q, p)[1] = p
  BY <1>4
<1>6. ASSUME Len(q) = 1
      PROVE  Len(Append(q, p)) = 2 /\ Append(q, p)[1] = q[1] /\ Append(q, p)[2] = p
  <2>1. 1 \in DOMAIN q /\ Len(q) + 1 = 2
    BY <1>4, <1>6
  <2> QED BY <1>4, <2>1
<1> QED BY <1>2, <1>5, <1>6 DEF q

LEMMA AfterContentReceivedStep ==
    ASSUME IInv, NEW c \in Conn, AfterContentReceived(c)
    PROVE  IInv'
<1>1. /\ UNCHANGED <<server, peer, inits, toClient, players, accounts>>
      /\ client[c].pc = "loaded" /\ toServer' = Put(toServer, c, Plain("clientReady"))
  BY DEF AfterContentReceived, linkVars
<1>2. PICK y : y = [client[c] EXCEPT !.pc = "ready"]
  OBVIOUS
<1>3. y \in Client /\ y.pc = "ready" /\ y.mech = client[c].mech /\ y.changing = client[c].changing
  BY <1>2, LocalHolds DEF Client
<1>4. client' = [client EXCEPT ![c] = y]
  BY <1>2, Zenon DEF AfterContentReceived
<1>5. client' \in [Conn -> Client] /\ client'[c] = y /\ \A d \in Conn \ {c} : client'[d] = client[d]
  BY <1>3, <1>4, ClientWith
<1>6. Plain("clientReady") \in Packet /\ Plain("clientReady").type = "clientReady"
  BY PlainIsPacket DEF PacketType
<1>7. ASSUME Patient, peer[c] = "up" PROVE Talk(c)'
  <2>1. Talk(c)
    BY <1>1, <1>7, LocalHolds DEF Local, Talks
  <2>2. server[c].state \notin {"created", "helloSent", "awaitingInit2", "active", "sudoMode"}
    BY <1>1, <2>1 DEF Talk, InTheGame, InSudoMode
  <2>3. CASE server[c].state = "definitionsSent"
    <3>1. /\ Silent(c) /\ server[c].mech = "none" /\ client[c].mech = "none"
          /\ ~client[c].changing
      BY <1>1, <2>1, <2>3 DEF Talk, Loading, ReadyAndChanging
    <3>2. Len(toServer'[c]) = 1 /\ toServer'[c][1] = Plain("clientReady")
      BY <1>1, <1>6, <1>7, <3>1, SpeaksFacts DEF Silent
    <3>3. Asks(c, "clientReady")'
      BY <1>1, <1>6, <3>1, <3>2 DEF Asks, Silent
    <3> QED BY <1>1, <1>3, <1>5, <2>3, <3>1, <3>3 DEF Talk, Loading
  <2>4. CASE server[c].state \in {"none", "denied"}
    BY <1>1, <2>4 DEF Talk
  <2> QED BY <2>2, <2>3, <2>4, LocalHolds DEF RemoteClient
<1> QED BY <1>1, <1>3, <1>5, <1>6, <1>7, SpeaksStep DEF Talks
LEMMA SendChangePasswordStep ==
    ASSUME IInv, NEW c \in Conn, SendChangePassword(c)
    PROVE  IInv'
<1>1. /\ UNCHANGED <<server, peer, inits, toClient, players, accounts>>
      /\ client[c].pc = "ready" /\ client[c].attempt < MaxAttempts[c]
      /\ Patient => ~client[c].changing
  BY DEF SendChangePassword, linkVars
<1>2. PICK right \in BOOLEAN : StartSrp(c, right)
  BY DEF SendChangePassword
<1>3. /\ client' \in [Conn -> Client] /\ \A d \in Conn \ {c} : client'[d] = client[d]
      /\ client'[c].pc = "ready" /\ client'[c].mech = "srp" /\ client'[c].changing
      /\ \E p \in Packet : p.type = "srpA" /\ toServer' = Put(toServer, c, p)
  BY <1>1, <1>2, StartSrpFacts
<1>4. PICK p \in Packet : p.type = "srpA" /\ toServer' = Put(toServer, c, p)
  BY <1>3
<1>5. ASSUME Patient, peer[c] = "up" PROVE Talk(c)'
  <2>1. Talk(c) /\ ~client[c].changing
    BY <1>1, <1>5, LocalHolds DEF Local, Talks
  <2>2. server[c].state \notin {"created", "helloSent", "awaitingInit2", "sudoMode"}
    BY <1>1, <2>1 DEF Talk, InSudoMode
  <2>3. CASE server[c].state = "definitionsSent"
    <3>1. Asks(c, "clientReady") /\ server[c].mech = "none"
      BY <1>1, <2>1, <2>3 DEF Talk, Loading, ReadyAndChanging
    <3>2. /\ Len(toServer'[c]) = 2 /\ toServer'[c][1] = toServer[c][1] /\ toServer'[c][2] = p
      BY <1>4, <1>5, <3>1, SpeaksFacts DEF Asks
    <3>3. ReadyAndChanging(c)'
      BY <1>1, <1>3, <1>4, <3>1, <3>2 DEF ReadyAndChanging, Asks
    <3> QED BY <1>1, <1>3, <2>3, <3>3 DEF Talk
  <2>4. CASE server[c].state = "active"
    <3>1. Silent(c) /\ server[c].mech = "none"
      BY <1>1, <2>1, <2>4 DEF Talk, InTheGame
    <3>2. Len(toServer'[c]) = 1 /\ toServer'[c][1] = p
      BY <1>4, <1>5, <3>1, SpeaksFacts DEF Silent
    <3>3. SrpExchange(c)'
      BY <1>1, <1>3, <1>4, <3>1, <3>2 DEF SrpExchange, Asks, Silent
    <3> QED BY <1>1, <1>3, <2>4, <3>3 DEF Talk, InTheGame
  <2>5. CASE server[c].state \in {"none", "denied"}
    BY <1>1, <2>5 DEF Talk
  <2> QED BY <2>2, <2>3, <2>4, <2>5, LocalHolds DEF RemoteClient
<1> QED BY <1>1, <1>3, <1>4, <1>5, SpeaksStep DEF Talks

\* The client ends, told to or by its user.
LEMMA QuitStep ==
    ASSUME IInv, NEW c \in Conn, Quit(c), client[c].pc # "idle"
    PROVE  IInv'
<1>1. /\ UNCHANGED <<server, peer, inits, toServer, players, accounts>>
      /\ client' = [client EXCEPT ![c] = NotRunning("out", client[c].name)]
      /\ toClient' = [toClient EXCEPT ![c] = <<>>]
  BY DEF Quit, linkVars
<1> DEFINE y == NotRunning("out", client[c].name)
<1>2. y \in Client /\ y.pc = "out" /\ y.attempt = 0
  BY LocalHolds, SessionAssumption DEF NotRunning, Client, Mech, Attempt
<1> HIDE DEF y
<1>3. /\ client' \in [Conn -> Client] /\ client'[c] = y
      /\ \A d \in Conn \ {c} : client'[d] = client[d]
  BY <1>1, <1>2, ClientWith DEF y
<1>4. /\ toClient' \in [Conn -> Seq(Packet)] /\ toClient'[c] = <<>>
      /\ \A d \in Conn \ {c} : toClient'[d] = toClient[d]
  BY <1>1 DEF IInv, TypeOK
<1>5. DOMAIN toClient'[c] = {}
  BY <1>4
<1>6. BeginsWithHello(c)'
  <2>1. Expecting(c)' => server[c].state = "created"
    BY <1>1, <1>5 DEF Expecting
  <2>2. server[c].state = "created" =>
          \A k \in DOMAIN toServer[c] : toServer[c][k].type = "deletingPeer"
    BY LocalHolds DEF Local, BeginsWithHello, Expecting
  <2> QED BY <1>1, <1>2, <1>3, <1>4, <1>5, <2>1, <2>2 DEF BeginsWithHello
<1>7. Gone(c)' /\ Talks(c)'
  BY <1>1, <1>2, <1>3, LocalHolds DEF Local, Gone, Talks
<1>8. TypeOK'
  BY <1>1, <1>3, <1>4 DEF IInv, TypeOK
<1>9. (\A d \in Conn \ {c} : Apart(d)) /\ KeepsItsPlace(c)
  BY <1>1, <1>3, <1>4 DEF Apart, KeepsItsPlace
<1> QED BY <1>1, <1>6, <1>7, <1>8, <1>9, OneMoves DEF Local

LEMMA EndSteps ==
    ASSUME IInv, NEW c \in Conn, HandleAccessDenied(c) \/ Leave(c)
    PROVE  IInv'
<1>1. Quit(c) /\ client[c].pc # "idle"
  BY LocalHolds DEF HandleAccessDenied, Leave, Local, BeginsWithHello
<1> QED BY <1>1, QuitStep

-----------------------------------------------------------------------------
(* The steps of the server.                                                  *)

LEMMA ArriveFacts ==
    ASSUME IInv, NEW c \in Conn, NEW type, Arrives(c, type)
    PROVE  /\ UNCHANGED <<client, peer, inits>>
           /\ toServer' \in [Conn -> Seq(Packet)]
           /\ \A d \in Conn \ {c} : toServer'[d] = toServer[d]
           /\ toServer[c] # <<>> /\ toServer[c][1].type = type /\ Head(toServer[c]) \in Packet
           /\ Len(toServer[c]) \in Nat \ {0}
           /\ Len(toServer[c]) = 1 => toServer'[c] = <<>>
           /\ Len(toServer[c]) = 2 => Len(toServer'[c]) = 1 /\ toServer'[c][1] = toServer[c][2]
           /\ client[c].pc # "idle"
           /\ type # "deletingPeer" => ~Expecting(c)
           /\ peer[c] # "up" /\ server[c].state # "none" /\ type # "deletingPeer" =>
                toServer'[c] # <<>> /\ toServer'[c][Len(toServer'[c])].type = "deletingPeer"
           /\ \A k \in DOMAIN toServer'[c] : \E l \in DOMAIN toServer[c] :
                toServer'[c][k] = toServer[c][l]
<1>1. /\ UNCHANGED <<client, peer, inits>>
      /\ toServer[c] # <<>> /\ Head(toServer[c]).type = type
      /\ toServer' = [toServer EXCEPT ![c] = Tail(@)]
  BY DEF Arrives, linkVars
<1> DEFINE q == toServer[c]
<1>2. /\ Tail(q) \in Seq(Packet) /\ Len(q) \in Nat \ {0} /\ Len(Tail(q)) = Len(q) - 1
      /\ Head(q) = q[1] /\ Head(q) \in Packet
      /\ DOMAIN q = 1..Len(q) /\ DOMAIN Tail(q) = 1..Len(Tail(q))
      /\ \A k \in DOMAIN Tail(q) : k + 1 \in DOMAIN q /\ Tail(q)[k] = q[k + 1]
      /\ Len(q) = 1 => Tail(q) = <<>>
  <2>1. q \in Seq(Packet) /\ q # <<>>
    BY <1>1, LocalHolds
  <2> HIDE DEF q
  <2> QED BY <2>1, TailFacts
<1>3. /\ toServer' \in [Conn -> Seq(Packet)] /\ toServer'[c] = Tail(q)
      /\ \A d \in Conn \ {c} : toServer'[d] = toServer[d]
  BY <1>1, <1>2 DEF IInv, TypeOK
<1>4. client[c].pc # "idle"
  BY <1>1, LocalHolds DEF Local, BeginsWithHello
<1>5. type # "deletingPeer" => ~Expecting(c)
  BY <1>1, <1>2, LocalHolds DEF Local, BeginsWithHello
<1>6. ASSUME peer[c] # "up", server[c].state # "none", type # "deletingPeer"
      PROVE  Tail(q) # <<>> /\ Tail(q)[Len(Tail(q))].type = "deletingPeer"
  <2>1. q[Len(q)].type = "deletingPeer"
    BY <1>6, LocalHolds DEF Local, Gone
  <2>2. Len(q) # 1
    BY <1>1, <1>2, <1>6, <2>1
  <2> HIDE DEF q
  <2>3. Len(Tail(q)) \in DOMAIN Tail(q) /\ Len(Tail(q)) + 1 = Len(q)
    <3>1. Len(Tail(q)) \in 1..Len(Tail(q)) /\ Len(Tail(q)) + 1 = Len(q)
      <4>1. Len(q) \in Nat /\ Len(q) # 0 /\ Len(q) # 1 /\ Len(Tail(q)) = Len(q) - 1
        BY <1>2, <2>2
      <4> QED BY <4>1
    <3> QED BY <1>2, <3>1
  <2>4. Tail(q)[Len(Tail(q))] = q[Len(q)]
    BY <1>2, <2>3
  <2>5. Tail(q) # <<>>
    <3>1. Len(Tail(q)) # 0
      BY <1>2, <2>2
    <3> QED BY <3>1, EmptySeq
  <2> QED BY <2>1, <2>4, <2>5
<1>7. Len(q) = 2 => Len(Tail(q)) = 1 /\ Tail(q)[1] = q[2]
  BY <1>2
<1>8. \A k \in DOMAIN Tail(q) : \E l \in DOMAIN q : Tail(q)[k] = q[l]
  BY <1>2
<1> QED BY <1>1, <1>2, <1>3, <1>4, <1>5, <1>6, <1>7, <1>8

\* The server reads a packet and answers, or does not, and nobody joins.
LEMMA ServeStep ==
    ASSUME IInv, NEW c \in Conn, NEW type, Arrives(c, type), type # "deletingPeer",
           server' \in [Conn -> RemoteClient], \A d \in Conn \ {c} : server'[d] = server[d],
           server'[c].state # "created", server'[c].state # "none" => server[c].state # "none",
           toClient' = toClient \/ \E p \in Packet : p.type # "hello" /\ Answer(c, p),
           players' = players, accounts' \subseteq Name, KeepsItsPlace(c),
           Patient /\ peer[c] = "up" /\ client[c].pc # "out" => Talk(c)'
    PROVE  IInv'
<1>1. /\ UNCHANGED <<client, peer, inits>>
      /\ toServer' \in [Conn -> Seq(Packet)]
      /\ \A d \in Conn \ {c} : toServer'[d] = toServer[d]
      /\ client[c].pc # "idle" /\ ~Expecting(c)
      /\ peer[c] # "up" /\ server[c].state # "none" =>
           toServer'[c] # <<>> /\ toServer'[c][Len(toServer'[c])].type = "deletingPeer"
  BY ArriveFacts
<1>2. /\ toClient' \in [Conn -> Seq(Packet)]
      /\ \A d \in Conn \ {c} : toClient'[d] = toClient[d]
      /\ \A k \in DOMAIN toClient'[c] : toClient'[c][k].type # "hello"
      /\ client[c].pc = "out" => toClient'[c] = toClient[c]
  <2>1. toClient \in [Conn -> Seq(Packet)] /\ \A k \in DOMAIN toClient[c] : toClient[c][k].type # "hello"
    BY <1>1 DEF IInv, TypeOK, Expecting
  <2>2. CASE toClient' = toClient
    BY <2>1, <2>2
  <2>3. ASSUME NEW p \in Packet, p.type # "hello", Answer(c, p)
        PROVE  /\ toClient' \in [Conn -> Seq(Packet)]
               /\ \A d \in Conn \ {c} : toClient'[d] = toClient[d]
               /\ \A k \in DOMAIN toClient'[c] : toClient'[c][k].type # "hello"
               /\ client[c].pc = "out" => toClient'[c] = toClient[c]
    <3>1. /\ toClient' \in [Conn -> Seq(Packet)]
          /\ \A d \in Conn \ {c} : toClient'[d] = toClient[d]
          /\ MayEndWith(toClient'[c], toClient[c], p, client[c].pc # "out" /\ peer[c] = "up")
      BY <2>1, <2>3, AnswerFacts
    <3> DEFINE q == toClient[c]
    <3>2. q \in Seq(Packet)
      BY <2>1
    <3> HIDE DEF q
    <3>3. /\ DOMAIN Append(q, p) = 1..Len(q) + 1 /\ DOMAIN q = 1..Len(q) /\ Len(q) \in Nat
          /\ \A k \in DOMAIN q : Append(q, p)[k] = q[k]
          /\ Append(q, p)[Len(q) + 1] = p
      BY <3>2, AppendFacts
    <3>4. \A k \in DOMAIN Append(q, p) : k \in DOMAIN q \/ k = Len(q) + 1
      BY <3>3
    <3>5. ASSUME NEW k \in DOMAIN Append(q, p) PROVE Append(q, p)[k].type # "hello"
      BY <2>1, <2>3, <3>3, <3>4, <3>5 DEF q
    <3> QED BY <2>1, <3>1, <3>5 DEF MayEndWith, q
  <2> QED BY <2>2, <2>3
<1>3. BeginsWithHello(c)'
  BY <1>1, <1>2, LocalHolds DEF Local, BeginsWithHello, Expecting
<1>4. Gone(c)' /\ Talks(c)'
  BY <1>1 DEF Gone, Talks
<1>5. TypeOK'
  BY <1>1, <1>2 DEF IInv, TypeOK
<1>6. \A d \in Conn \ {c} : Apart(d)
  BY <1>1, <1>2 DEF Apart
<1> QED BY <1>3, <1>4, <1>5, <1>6, OneMoves DEF Local
\* The state of both in which a packet of the talk arrives.
LEMMA AsksWhen ==
    ASSUME IInv, NEW c \in Conn, NEW type \in PacketType, Arrives(c, type), Patient,
           peer[c] = "up", client[c].pc # "out", server[c].state \notin {"none", "denied"}
    PROVE  /\ type # "clientReady" => Asks(c, type)
           /\ client[c].pc # "ready" => ~client[c].changing
           /\ type \in {"srpA", "srpM"} =>
                /\ \/ server[c].state = "helloSent" /\ client[c].pc = "created"
                   \/ server[c].state = "active" /\ client[c].pc = "ready" /\ client[c].changing
                /\ client[c].mech = "srp"
                /\ server[c].mech = IF type = "srpA" THEN "none" ELSE "srp"
           /\ type = "firstSrp" =>
                /\ server[c].mech = "none"
                /\ \/ server[c].state = "helloSent" /\ client[c].pc = "created"
                   \/ server[c].state = "sudoMode" /\ client[c].pc = "ready"
                      /\ client[c].changing /\ client[c].mech = "none"
           /\ type = "init2" =>
                /\ server[c].state = "awaitingInit2" /\ client[c].pc = "init"
                /\ server[c].mech = "none" /\ client[c].mech = "none"
           /\ type = "requestMedia" =>
                /\ server[c].state = "definitionsSent" /\ client[c].pc = "loading"
                /\ server[c].mech = "none" /\ client[c].mech = "none"
           /\ type = "clientReady" =>
                /\ server[c].state = "definitionsSent" /\ client[c].pc = "ready"
                /\ server[c].mech = "none"
                /\ \/ Asks(c, "clientReady") /\ client[c].mech = "none" /\ ~client[c].changing
                   \/ ReadyAndChanging(c)
<1>1. Talk(c)
  BY LocalHolds DEF Local, Talks
<1>2. toServer[c] # <<>> /\ toServer[c][1].type = type
  BY ArriveFacts
<1>3. server[c].state \in {"created", "helloSent", "awaitingInit2", "definitionsSent", "active",
                           "sudoMode"}
  BY LocalHolds DEF RemoteClient
<1>4. ~Silent(c) /\ \A t \in PacketType : ~Told(c, t) /\ (Asks(c, t) => t = type)
  BY <1>2 DEF Silent, Told, Asks
<1>5. ReadyAndChanging(c) => type = "clientReady"
  BY <1>2 DEF ReadyAndChanging
<1>6. CASE server[c].state \in {"created", "helloSent"}
  BY <1>1, <1>4, <1>6 DEF Talk, Login, SrpExchange, PacketType
<1>7. CASE server[c].state = "awaitingInit2"
  BY <1>1, <1>4, <1>7 DEF Talk, PacketType
<1>8. CASE server[c].state = "definitionsSent"
  <2>1. CASE Loading(c)
    BY <1>1, <1>4, <1>8, <2>1 DEF Talk, Loading, PacketType
  <2>2. CASE ReadyAndChanging(c)
    <3>1. client[c].pc = "ready" /\ server[c].mech = "none"
      BY <2>2 DEF ReadyAndChanging
    <3> QED BY <1>5, <1>8, <2>2, <3>1
  <2> QED BY <1>1, <1>8, <2>1, <2>2 DEF Talk
<1>9. CASE server[c].state = "active"
  BY <1>1, <1>4, <1>9 DEF Talk, InTheGame, SrpExchange, PacketType
<1>10. CASE server[c].state = "sudoMode"
  BY <1>1, <1>4, <1>10 DEF Talk, InSudoMode, PacketType
<1> QED BY <1>3, <1>6, <1>7, <1>8, <1>9, <1>10

\* The server has read the one packet for it, and answered or not.
LEMMA TurnBack ==
    ASSUME IInv, NEW c \in Conn, NEW type, Arrives(c, type), Asks(c, type),
           peer[c] = "up", client[c].pc # "out"
    PROVE  /\ toClient' = toClient => Silent(c)'
           /\ \A p \in Packet : Answer(c, p) => Told(c, p.type)'
<1>1. toServer'[c] = <<>> /\ toClient[c] = <<>>
  BY ArriveFacts DEF Asks
<1>2. ASSUME NEW p \in Packet, Answer(c, p) PROVE Told(c, p.type)'
  <2>1. toClient \in [Conn -> Seq(Packet)]
    BY DEF IInv, TypeOK
  <2>2. toClient'[c] = Append(toClient[c], p)
    BY <1>2, <2>1, AnswerFacts DEF MayEndWith
  <2> DEFINE q == toClient[c]
  <2>3. q \in Seq(Packet) /\ q = <<>>
    BY <1>1, <2>1
  <2> HIDE DEF q
  <2>4. Len(q) = 0 /\ Len(Append(q, p)) = Len(q) + 1 /\ Append(q, p)[Len(q) + 1] = p
    BY <2>3, AppendFacts
  <2>5. Len(Append(q, p)) = 1 /\ Append(q, p)[1] = p
    BY <2>4
  <2> QED BY <1>1, <2>2, <2>5 DEF Told, q
<1> QED BY <1>1, <1>2 DEF Silent

\* The server with another state of the connection.
LEMMA ServerWith ==
    ASSUME IInv, NEW c \in Conn, NEW z \in RemoteClient, server' = [server EXCEPT ![c] = z]
    PROVE  server' \in [Conn -> RemoteClient] /\ server'[c] = z
           /\ \A d \in Conn \ {c} : server'[d] = server[d]
BY DEF IInv, TypeOK

\* The server reads a packet and denies access.
LEMMA DenyStep ==
    ASSUME IInv, NEW c \in Conn, NEW type, Arrives(c, type), type # "deletingPeer",
           DenyAccess(c), players' = players, accounts' \subseteq Name,
           server[c].state # "none"
    PROVE  IInv'
<1>1. /\ server' \in [Conn -> RemoteClient] /\ server'[c].state = "denied"
      /\ \A d \in Conn \ {c} : server'[d] = server[d]
  BY DenyFacts DEF IInv
<1>2. /\ Plain("accessDenied") \in Packet /\ Plain("accessDenied").type # "hello"
      /\ Answer(c, Plain("accessDenied"))
  BY PlainIsPacket DEF PacketType, DenyAccess
<1>3. KeepsItsPlace(c)
  BY <1>1 DEF KeepsItsPlace, InGame
<1>4. client[c].pc # "idle"
  BY ArriveFacts
<1>5. Talk(c)'
  BY <1>1 DEF Talk
<1> QED BY <1>1, <1>2, <1>3, <1>5, ServeStep

\* The server reads a packet that has nothing to say to it now.
LEMMA IgnoreStep ==
    ASSUME IInv, NEW c \in Conn, NEW type \in PacketType, Arrives(c, type), type # "deletingPeer",
           UNCHANGED <<server, toClient, players, accounts>>,
           \/ server[c].state \in {"none", "denied"}
           \/ type \in {"srpA", "srpM"} /\ server[c].state \notin {"helloSent", "active"}
           \/ type = "firstSrp" /\ server[c].state \notin {"helloSent", "sudoMode"}
           \/ type = "init2" /\ server[c].state # "awaitingInit2"
           \/ type \in {"clientReady", "requestMedia"} /\ server[c].state # "definitionsSent"
    PROVE  IInv'
<1>1. server \in [Conn -> RemoteClient] /\ accounts \subseteq Name
  BY DEF IInv, TypeOK
<1>2. server[c].state # "created"
  BY ArriveFacts DEF Expecting
<1>3. KeepsItsPlace(c)
  BY DEF KeepsItsPlace
<1>4. ASSUME Patient, peer[c] = "up", client[c].pc # "out" PROVE Talk(c)'
  <2>1. server[c].state \in {"none", "denied"}
    BY <1>4, AsksWhen
  <2> QED BY <2>1 DEF Talk
<1> QED BY <1>1, <1>2, <1>3, <1>4, ServeStep
\* acceptAuth, at the login or before a change of the password.
LEMMA AcceptStep ==
    ASSUME IInv, NEW c \in Conn, NEW type \in {"firstSrp", "srpM"}, Arrives(c, type),
           server[c].state = "helloSent" \/ (server[c].state = "active" /\ type = "srpM"),
           NEW a \in Mech, AcceptAuth(c, a), players' = players, accounts' \subseteq Name
    PROVE  IInv'
<1>0. PICK t : t = IF server[c].state = "active" THEN "acceptSudoMode" ELSE "authAccept"
  OBVIOUS
<1> DEFINE s == IF server[c].state = "active" THEN "sudoMode" ELSE "awaitingInit2"
           b == IF server[c].state = "active" THEN server[c].allowed ELSE a
<1>1. PICK z : z = [server[c] EXCEPT !.state = s, !.mech = "none", !.attempt = 0, !.allowed = b]
  OBVIOUS
<1>2. server[c] \in RemoteClient /\ server \in [Conn -> RemoteClient] /\ 0 \in Attempt
  BY LocalHolds, SessionAssumption DEF Attempt, IInv, TypeOK
<1>3. z \in RemoteClient /\ z.state = s /\ z.name = server[c].name /\ z.mech = "none"
  BY <1>1, <1>2 DEF RemoteClient, Mech
<1>4. server' = [server EXCEPT ![c] = z] /\ Answer(c, Plain(t))
  BY <1>0, <1>1, <1>2, ZenonT(60) DEF AcceptAuth, RemoteClient
<1>5. server' \in [Conn -> RemoteClient] /\ server'[c] = z
      /\ \A d \in Conn \ {c} : server'[d] = server[d]
  BY <1>3, <1>4, ServerWith
<1>6. Plain(t) \in Packet /\ Plain(t).type = t
  BY <1>0, PlainIsPacket DEF PacketType
<1>7. ASSUME Patient, peer[c] = "up", client[c].pc # "out" PROVE Talk(c)'
  <2>1. type \in PacketType /\ UNCHANGED <<client, peer>>
    BY ArriveFacts DEF PacketType
  <2>2. /\ Asks(c, type)
        /\ client[c].pc # "ready" => ~client[c].changing
        /\ server[c].state = "helloSent" => client[c].pc = "created"
        /\ server[c].state = "active" => client[c].pc = "ready" /\ client[c].changing
    BY <1>7, <2>1, AsksWhen
  <2>3. Told(c, t)'
    BY <1>4, <1>6, <1>7, <2>2, TurnBack
  <2>4. CASE server[c].state = "active"
    BY <1>0, <1>3, <1>5, <2>1, <2>2, <2>3, <2>4 DEF Talk, InSudoMode
  <2>5. CASE server[c].state = "helloSent"
    BY <1>0, <1>3, <1>5, <2>1, <2>2, <2>3, <2>5 DEF Talk
  <2> QED BY <2>4, <2>5
<1>8. KeepsItsPlace(c)
  BY <1>3, <1>5 DEF KeepsItsPlace, InGame
<1>9. t # "hello" /\ type # "deletingPeer" /\ server'[c].state # "created"
  BY <1>0, <1>3, <1>5
<1> QED BY <1>4, <1>5, <1>6, <1>7, <1>8, <1>9, ServeStep

LEMMA HandleFirstSrpStep ==
    ASSUME IInv, NEW c \in Conn, HandleFirstSrp(c)
    PROVE  IInv'
<1>1. Arrives(c, "firstSrp") /\ players' = players /\ "firstSrp" \in PacketType
  BY DEF HandleFirstSrp, PacketType
<1>2. server \in [Conn -> RemoteClient] /\ server[c] \in RemoteClient /\ accounts \subseteq Name
  BY DEF IInv, TypeOK
<1>3. CASE server[c].state = "helloSent"
  <2>1. \/ DenyAccess(c) /\ UNCHANGED accounts
        \/ accounts' = accounts \union {server[c].name} /\ AcceptAuth(c, "srp")
    BY <1>3 DEF HandleFirstSrp
  <2>2. accounts' \subseteq Name /\ "srp" \in Mech
    BY <1>2, <2>1 DEF RemoteClient, Mech
  <2>3. CASE DenyAccess(c) /\ UNCHANGED accounts
    BY <1>1, <1>3, <2>2, <2>3, DenyStep
  <2>4. CASE AcceptAuth(c, "srp")
    BY <1>1, <1>3, <2>2, <2>4, AcceptStep
  <2> QED BY <2>1, <2>3, <2>4
<1>4. CASE server[c].state = "sudoMode"
  <2>1. PICK z : z = [server[c] EXCEPT !.state = "active"]
    OBVIOUS
  <2>2. z \in RemoteClient /\ z.state = "active" /\ z.name = server[c].name
        /\ z.mech = server[c].mech
    BY <1>2, <2>1 DEF RemoteClient
  <2>3. server' = [server EXCEPT ![c] = z] /\ Answer(c, Plain("changed")) /\ accounts' = accounts
    BY <1>4, <2>1 DEF HandleFirstSrp
  <2>4. server' \in [Conn -> RemoteClient] /\ server'[c] = z
        /\ \A d \in Conn \ {c} : server'[d] = server[d]
    BY <2>2, <2>3, ServerWith
  <2>5. Plain("changed") \in Packet /\ Plain("changed").type = "changed"
    BY PlainIsPacket DEF PacketType
  <2>6. ASSUME Patient, peer[c] = "up", client[c].pc # "out" PROVE Talk(c)'
    <3>1. UNCHANGED <<client, peer>>
      BY <1>1, ArriveFacts
    <3>2. /\ Asks(c, "firstSrp") /\ server[c].mech = "none" /\ client[c].mech = "none"
          /\ client[c].pc = "ready" /\ client[c].changing
      BY <1>1, <1>4, <2>6, AsksWhen
    <3>3. Told(c, "changed")'
      BY <1>1, <2>3, <2>5, <2>6, <3>2, TurnBack
    <3> QED BY <2>2, <2>4, <3>1, <3>2, <3>3 DEF Talk, InTheGame
  <2>7. KeepsItsPlace(c)
    BY <1>4, <2>2, <2>4 DEF KeepsItsPlace, InGame
  <2> QED BY <1>1, <1>2, <1>4, <2>2, <2>3, <2>4, <2>5, <2>6, <2>7, ServeStep
<1>5. CASE server[c].state \notin {"helloSent", "sudoMode"}
  <2>1. UNCHANGED <<server, toClient, accounts>>
    BY <1>5 DEF HandleFirstSrp
  <2> QED BY <1>1, <1>5, <2>1, IgnoreStep
<1> QED BY <1>3, <1>4, <1>5

\* DenyAuth: a change of the password is refused, or access.
LEMMA DenyAuthStep ==
    ASSUME IInv, NEW c \in Conn, NEW type \in {"srpA", "srpM"}, Arrives(c, type),
           server[c].state \in {"helloSent", "active"}, NEW failed \in BOOLEAN,
           DenyAuth(c, failed), players' = players, accounts' = accounts,
           failed \/ type = "srpA" \/ server[c].mech # "srp"
    PROVE  IInv'
<1>1. accounts' \subseteq Name
  BY DEF IInv, TypeOK
<1>2. CASE server[c].state = "helloSent"
  <2>1. DenyAccess(c)
    BY <1>2 DEF DenyAuth
  <2> QED BY <1>1, <1>2, <2>1, DenyStep
<1>3. CASE server[c].state = "active"
  <2> DEFINE m == IF failed THEN "none" ELSE server[c].mech
             k == IF failed THEN 0 ELSE server[c].attempt
  <2>1. PICK z : z = [server[c] EXCEPT !.mech = m, !.attempt = k]
    OBVIOUS
  <2>2. server[c] \in RemoteClient /\ server \in [Conn -> RemoteClient] /\ 0 \in Attempt
        /\ m \in Mech /\ k \in Attempt
    BY LocalHolds, SessionAssumption DEF Attempt, IInv, TypeOK, RemoteClient, Mech
  <2>3. z \in RemoteClient /\ z.state = "active" /\ z.name = server[c].name /\ z.mech = m
    <3> HIDE DEF m, k
    <3> QED BY <1>3, <2>1, <2>2 DEF RemoteClient
  <2>4. server' = [server EXCEPT ![c] = z]
    <3>1. CASE failed
      BY <1>3, <2>1, <3>1 DEF DenyAuth
    <3>2. CASE ~failed
      <4>1. z = server[c]
        BY <2>1, <2>2, <3>2 DEF RemoteClient
      <4> QED BY <1>3, <2>2, <3>2, <4>1 DEF DenyAuth
    <3> QED BY <3>1, <3>2
  <2>5. server' \in [Conn -> RemoteClient] /\ server'[c] = z
        /\ \A d \in Conn \ {c} : server'[d] = server[d]
    BY <2>3, <2>4, ServerWith
  <2>6. /\ Plain("denySudoMode") \in Packet /\ Plain("denySudoMode").type = "denySudoMode"
        /\ Answer(c, Plain("denySudoMode"))
    BY <1>3, PlainIsPacket DEF PacketType, DenyAuth
  <2>7. ASSUME Patient, peer[c] = "up", client[c].pc # "out" PROVE Talk(c)'
    <3>1. type \in PacketType /\ UNCHANGED <<client, peer>>
      BY ArriveFacts DEF PacketType
    <3>2. /\ Asks(c, type) /\ client[c].pc = "ready" /\ client[c].changing
          /\ server[c].mech = IF type = "srpA" THEN "none" ELSE "srp"
      BY <1>3, <2>7, <3>1, AsksWhen
    <3>3. z.mech = "none"
      BY <2>3, <3>2
    <3>4. Told(c, "denySudoMode")'
      BY <2>6, <2>7, <3>2, TurnBack
    <3> QED BY <2>3, <2>5, <3>1, <3>2, <3>3, <3>4 DEF Talk, InTheGame
  <2>8. KeepsItsPlace(c)
    BY <1>3, <2>3, <2>5 DEF KeepsItsPlace, InGame
  <2> QED BY <1>1, <1>3, <2>3, <2>5, <2>6, <2>7, <2>8, ServeStep
<1> QED BY <1>2, <1>3
LEMMA HandleSrpBytesAStep ==
    ASSUME IInv, NEW c \in Conn, HandleSrpBytesA(c)
    PROVE  IInv'
<1> DEFINE k == Head(toServer[c]).attempt
           p == [Plain("srpSB") EXCEPT !.attempt = k]
<1>1. /\ Arrives(c, "srpA") /\ UNCHANGED <<players, accounts>> /\ "srpA" \in PacketType
      /\ accounts \subseteq Name
  BY DEF HandleSrpBytesA, PacketType, IInv, TypeOK
<1>2. server \in [Conn -> RemoteClient] /\ server[c] \in RemoteClient
      /\ Head(toServer[c]) \in Packet /\ k \in Attempt
  <2>1. Head(toServer[c]) \in Packet
    BY <1>1, ArriveFacts
  <2> QED BY <2>1 DEF IInv, TypeOK, Packet
<1>3. CASE server[c].state \notin {"helloSent", "active"}
  <2>1. UNCHANGED <<server, toClient>>
    BY <1>3 DEF HandleSrpBytesA
  <2> QED BY <1>1, <1>3, <2>1, IgnoreStep
<1>4. CASE server[c].state \in {"helloSent", "active"} /\ DenyAuth(c, FALSE)
  <2>1. players' = players /\ accounts' = accounts
    BY <1>1
  <2> QED BY <1>1, <1>4, <2>1, DenyAuthStep
<1>5. CASE /\ server[c].state \in {"helloSent", "active"}
           /\ server' = [server EXCEPT ![c].mech = "srp", ![c].attempt = k]
           /\ Answer(c, p)
  <2>1. PICK z : z = [server[c] EXCEPT !.mech = "srp", !.attempt = k]
    OBVIOUS
  <2>2. z \in RemoteClient /\ z.state = server[c].state /\ z.name = server[c].name /\ z.mech = "srp"
    <3> HIDE DEF k
    <3> QED BY <1>2, <2>1 DEF RemoteClient, Mech
  <2>3. server' = [server EXCEPT ![c] = z]
    BY <1>5, <2>1, Zenon
  <2>4. server' \in [Conn -> RemoteClient] /\ server'[c] = z
        /\ \A d \in Conn \ {c} : server'[d] = server[d]
    BY <2>2, <2>3, ServerWith
  <2>5. p \in Packet /\ p.type = "srpSB"
    <3>1. Plain("srpSB") \in Packet /\ Plain("srpSB").type = "srpSB"
      BY PlainIsPacket DEF PacketType
    <3> HIDE DEF k
    <3> QED BY <1>2, <3>1 DEF Packet
  <2> HIDE DEF k, p
  <2>6. ASSUME Patient, peer[c] = "up", client[c].pc # "out" PROVE Talk(c)'
    <3>1. UNCHANGED <<client, peer>>
      BY <1>1, ArriveFacts
    <3>2. /\ Asks(c, "srpA") /\ client[c].mech = "srp"
          /\ (client[c].pc # "ready" => ~client[c].changing)
          /\ \/ server[c].state = "helloSent" /\ client[c].pc = "created"
             \/ server[c].state = "active" /\ client[c].pc = "ready" /\ client[c].changing
      BY <1>1, <1>5, <2>6, AsksWhen
    <3>3. Told(c, "srpSB")'
      BY <1>1, <1>5, <2>5, <2>6, <3>2, TurnBack
    <3>4. SrpExchange(c)'
      BY <2>2, <2>4, <3>1, <3>2, <3>3 DEF SrpExchange
    <3> QED BY <2>2, <2>4, <3>1, <3>2, <3>4 DEF Talk, InTheGame, Login
  <2>7. KeepsItsPlace(c)
    BY <2>2, <2>4 DEF KeepsItsPlace, InGame
  <2> QED BY <1>1, <1>5, <2>2, <2>4, <2>5, <2>6, <2>7, ServeStep
<1> QED BY <1>3, <1>4, <1>5 DEF HandleSrpBytesA

LEMMA HandleSrpBytesMStep ==
    ASSUME IInv, NEW c \in Conn, HandleSrpBytesM(c)
    PROVE  IInv'
<1>1. /\ Arrives(c, "srpM") /\ UNCHANGED <<players, accounts>> /\ "srpM" \in PacketType
      /\ accounts \subseteq Name
  BY DEF HandleSrpBytesM, PacketType, IInv, TypeOK
<1>2. server[c] \in RemoteClient /\ server[c].allowed \in Mech
  BY DEF IInv, TypeOK, RemoteClient
<1>3. CASE server[c].state \notin {"helloSent", "active"}
  <2>1. UNCHANGED <<server, toClient>>
    BY <1>3 DEF HandleSrpBytesM
  <2> QED BY <1>1, <1>3, <2>1, IgnoreStep
<1>4. CASE server[c].state \in {"helloSent", "active"} /\ server[c].mech # "srp"
  <2>1. DenyAuth(c, FALSE)
    BY <1>4 DEF HandleSrpBytesM
  <2> QED BY <1>1, <1>4, <2>1, DenyAuthStep
<1>5. CASE server[c].state \in {"helloSent", "active"} /\ DenyAuth(c, TRUE)
  BY <1>1, <1>5, DenyAuthStep
<1>6. CASE server[c].state \in {"helloSent", "active"} /\ AcceptAuth(c, server[c].allowed)
  BY <1>1, <1>2, <1>6, AcceptStep
<1> QED BY <1>3, <1>4, <1>5, <1>6 DEF HandleSrpBytesM

LEMMA HandleInit2Step ==
    ASSUME IInv, NEW c \in Conn, HandleInit2(c)
    PROVE  IInv'
<1>1. /\ Arrives(c, "init2") /\ UNCHANGED <<players, accounts>> /\ "init2" \in PacketType
      /\ accounts \subseteq Name /\ server[c] \in RemoteClient
  BY DEF HandleInit2, PacketType, IInv, TypeOK
<1>2. CASE server[c].state # "awaitingInit2"
  <2>1. UNCHANGED <<server, toClient>>
    BY <1>2 DEF HandleInit2
  <2> QED BY <1>1, <1>2, <2>1, IgnoreStep
<1>3. CASE server[c].state = "awaitingInit2"
  <2>1. PICK z : z = [server[c] EXCEPT !.state = "definitionsSent"]
    OBVIOUS
  <2>2. z \in RemoteClient /\ z.state = "definitionsSent" /\ z.mech = server[c].mech
    BY <1>1, <2>1 DEF RemoteClient
  <2>3. server' = [server EXCEPT ![c] = z] /\ Answer(c, Plain("content"))
    BY <1>3, <2>1 DEF HandleInit2
  <2>4. server' \in [Conn -> RemoteClient] /\ server'[c] = z
        /\ \A d \in Conn \ {c} : server'[d] = server[d]
    BY <2>2, <2>3, ServerWith
  <2>5. Plain("content") \in Packet /\ Plain("content").type = "content"
    BY PlainIsPacket DEF PacketType
  <2>6. ASSUME Patient, peer[c] = "up", client[c].pc # "out" PROVE Talk(c)'
    <3>1. UNCHANGED <<client, peer>>
      BY <1>1, ArriveFacts
    <3>2. /\ Asks(c, "init2") /\ client[c].mech = "none" /\ server[c].mech = "none"
          /\ client[c].pc = "init" /\ ~client[c].changing
      BY <1>1, <1>3, <2>6, AsksWhen
    <3>3. Told(c, "content")'
      BY <1>1, <2>3, <2>5, <2>6, <3>2, TurnBack
    <3> QED BY <2>2, <2>4, <3>1, <3>2, <3>3 DEF Talk, Loading
  <2>7. KeepsItsPlace(c)
    BY <1>3, <2>2, <2>4 DEF KeepsItsPlace, InGame
  <2> QED BY <1>1, <1>3, <2>2, <2>3, <2>4, <2>5, <2>6, <2>7, ServeStep
<1> QED BY <1>2, <1>3

LEMMA HandleRequestMediaStep ==
    ASSUME IInv, NEW c \in Conn, HandleRequestMedia(c)
    PROVE  IInv'
<1>1. /\ Arrives(c, "requestMedia") /\ UNCHANGED <<server, players, accounts>>
      /\ "requestMedia" \in PacketType /\ accounts \subseteq Name
      /\ server \in [Conn -> RemoteClient]
  BY DEF HandleRequestMedia, PacketType, IInv, TypeOK
<1>2. UNCHANGED <<client, peer>> /\ server[c].state # "created"
  BY <1>1, ArriveFacts DEF Expecting
<1>3. Plain("media") \in Packet /\ Plain("media").type = "media"
  BY PlainIsPacket DEF PacketType
<1>4. toClient' = toClient \/ Answer(c, Plain("media"))
  BY DEF HandleRequestMedia
<1>5. ASSUME Patient, peer[c] = "up", client[c].pc # "out" PROVE Talk(c)'
  <2>1. CASE server[c].state \in {"none", "denied"}
    BY <1>1, <2>1 DEF Talk
  <2>2. CASE server[c].state \notin {"none", "denied"}
    <3>1. /\ Asks(c, "requestMedia") /\ server[c].state = "definitionsSent"
          /\ client[c].pc = "loading" /\ server[c].mech = "none" /\ client[c].mech = "none"
          /\ ~client[c].changing
      BY <1>1, <1>5, <2>2, AsksWhen
    <3>2. Answer(c, Plain("media"))
      BY <3>1 DEF HandleRequestMedia
    <3>3. Told(c, "media")'
      BY <1>1, <1>3, <1>5, <3>1, <3>2, TurnBack
    <3> QED BY <1>1, <1>2, <3>1, <3>3 DEF Talk, Loading
  <2> QED BY <2>1, <2>2
<1>6. KeepsItsPlace(c)
  BY <1>1 DEF KeepsItsPlace
<1> QED BY <1>1, <1>2, <1>3, <1>4, <1>5, <1>6, ServeStep
\* A step of c, with what it does to the two tables of players and clients.
LEMMA OneMovesPlaces ==
    ASSUME IInv, NEW c \in Conn, \A d \in Conn \ {c} : Apart(d),
           TypeOK', Local(c)', PlacesInv', JoinedWithinLimit'
    PROVE  IInv'
<1>1. \A d \in Conn : Local(d)
  BY DEF IInv, HelloInv, GoneInv, TalkInv, Local
<1>2. \A d \in Conn : Local(d)'
  BY <1>1, ApartKeeps
<1> QED BY <1>2 DEF IInv, HelloInv, GoneInv, TalkInv, Local

LEMMA PlayersTyped ==
    ASSUME IInv
    PROVE  /\ players \in Seq(Player) /\ DOMAIN players = 1..Len(players) /\ Len(players) \in Nat
           /\ \A k \in DOMAIN players : players[k] \in Player
                                       /\ players[k].conn \in Conn \union {NoConn}
<1>1. players \in Seq(Player)
  BY DEF IInv, TypeOK
<1>2. DOMAIN players = 1..Len(players) /\ Len(players) \in Nat
      /\ \A k \in DOMAIN players : players[k] \in Player
  BY <1>1, LenProperties, ElementOfSeq
<1> QED BY <1>1, <1>2 DEF Player

\* The client gets into the game.
LEMMA JoinStep ==
    ASSUME IInv, NEW c \in Conn, HandleClientReady(c), server[c].state = "definitionsSent",
           ~CheckUserLimit(c),
           players' = Append(players, [name |-> server[c].name, conn |-> c]),
           server' = [server EXCEPT ![c].state = "active"], UNCHANGED toClient
    PROVE  IInv'
<1>1. /\ Arrives(c, "clientReady") /\ UNCHANGED accounts /\ "clientReady" \in PacketType
      /\ server[c] \in RemoteClient /\ server \in [Conn -> RemoteClient]
  BY DEF HandleClientReady, PacketType, IInv, TypeOK
<1>2. /\ UNCHANGED <<client, peer, inits>>
      /\ toServer' \in [Conn -> Seq(Packet)]
      /\ \A d \in Conn \ {c} : toServer'[d] = toServer[d]
      /\ Len(toServer[c]) = 1 => toServer'[c] = <<>>
      /\ Len(toServer[c]) = 2 => Len(toServer'[c]) = 1 /\ toServer'[c][1] = toServer[c][2]
      /\ client[c].pc # "idle" /\ ~Expecting(c)
      /\ peer[c] # "up" =>
           toServer'[c] # <<>> /\ toServer'[c][Len(toServer'[c])].type = "deletingPeer"
  BY <1>1, ArriveFacts
<1>3. PICK z : z = [server[c] EXCEPT !.state = "active"]
  OBVIOUS
<1>4. z \in RemoteClient /\ z.state = "active" /\ z.name = server[c].name /\ z.mech = server[c].mech
  BY <1>1, <1>3 DEF RemoteClient
<1>5. server' \in [Conn -> RemoteClient] /\ server'[c] = z
      /\ \A d \in Conn \ {c} : server'[d] = server[d]
  <2>1. server' = [server EXCEPT ![c] = z]
    BY <1>3
  <2> QED BY <1>4, <2>1, ServerWith
<1> DEFINE n == Len(players) + 1
           e == [name |-> server[c].name, conn |-> c]
<1>6. /\ players' \in Seq(Player) /\ DOMAIN players = 1..Len(players) /\ Len(players) \in Nat
      /\ DOMAIN players' = 1..n /\ players'[n] = e
      /\ \A k \in DOMAIN players : players'[k] = players[k]
  <2>1. players \in Seq(Player) /\ e \in Player
    BY <1>1 DEF IInv, TypeOK, Player, RemoteClient
  <2> HIDE DEF e
  <2>2. players' = Append(players, e)
    BY DEF e
  <2> QED BY <2>1, <2>2, AppendFacts
<1>7. TypeOK'
  BY <1>1, <1>2, <1>5, <1>6 DEF IInv, TypeOK
<1>8. Local(c)'
  <2>1. BeginsWithHello(c)'
    BY <1>2, <1>4, <1>5, LocalHolds DEF Local, BeginsWithHello, Expecting
  <2>2. Gone(c)'
    BY <1>2 DEF Gone
  <2>3. ASSUME Patient, peer[c] = "up", client[c].pc # "out" PROVE Talk(c)'
    <3>1. /\ client[c].pc = "ready" /\ server[c].mech = "none"
          /\ \/ Asks(c, "clientReady") /\ client[c].mech = "none" /\ ~client[c].changing
             \/ ReadyAndChanging(c)
      BY <1>1, <2>3, AsksWhen
    <3>2. CASE Asks(c, "clientReady") /\ client[c].mech = "none" /\ ~client[c].changing
      <4>1. Silent(c)'
        BY <1>2, <3>2 DEF Asks, Silent
      <4> QED BY <1>2, <1>4, <1>5, <3>1, <3>2, <4>1 DEF Talk, InTheGame
    <3>3. CASE ReadyAndChanging(c)
      <4>1. SrpExchange(c)' /\ client[c].changing
        BY <1>2, <1>4, <1>5, <3>3 DEF SrpExchange, ReadyAndChanging, Asks
      <4> QED BY <1>2, <1>4, <1>5, <3>1, <4>1 DEF Talk, InTheGame
    <3> QED BY <3>1, <3>2, <3>3
  <2> QED BY <1>2, <2>1, <2>2, <2>3 DEF Local, Talks
<1>9. \A d \in Conn \ {c} : Apart(d)
  BY <1>2, <1>5 DEF Apart
<1>10. Joined' = Joined \union {c} /\ Joined \subseteq Conn /\ c \notin Joined
  BY <1>4, <1>5 DEF Joined
<1>11. PlacesInv'
  <2>1. \A k \in DOMAIN players : players[k].conn # c
    BY SessionAssumption DEF IInv, PlacesInv, InGame
  <2>2. \A k \in DOMAIN players' : k \in DOMAIN players \/ k = n
    BY <1>6
  <2>3. n \in DOMAIN players' /\ players'[n].conn = c /\ c # NoConn
    BY <1>6, SessionAssumption
  <2>4. ASSUME NEW k \in DOMAIN players', players'[k].conn # NoConn
        PROVE  server'[players'[k].conn].state \in InGame
    BY <1>4, <1>5, <1>6, <2>1, <2>2, <2>3, <2>4, PlayersTyped DEF IInv, PlacesInv, InGame
  <2>5. ASSUME NEW j \in DOMAIN players', NEW k \in DOMAIN players',
               players'[j].conn = players'[k].conn, players'[j].conn # NoConn
        PROVE  j = k
    BY <1>6, <2>1, <2>2, <2>3, <2>5 DEF IInv, PlacesInv
  <2>6. ASSUME NEW d \in Joined' PROVE \E k \in DOMAIN players' : players'[k].conn = d
    <3>1. CASE d = c
      BY <2>3, <3>1
    <3>2. CASE d \in Joined
      <4>1. PICK k \in DOMAIN players : players[k].conn = d
        BY <3>2 DEF IInv, PlacesInv
      <4>2. k \in DOMAIN players' /\ players'[k] = players[k]
        BY <1>6
      <4> QED BY <4>1, <4>2
    <3> QED BY <1>10, <2>6, <3>1, <3>2
  <2> QED BY <2>4, <2>5, <2>6 DEF PlacesInv
<1>12. JoinedWithinLimit'
  <2> DEFINE S == {d \in Joined : server[d].name \notin MayBypass}
             T == {d \in Joined' : server'[d].name \notin MayBypass}
  <2>1. /\ T \subseteq S \union {c} /\ S \subseteq Joined
        /\ server[c].name \in MayBypass => T \subseteq S
    BY <1>4, <1>5, <1>10
  <2>2. Cardinality(S) =< MaxUsers
    BY DEF IInv, JoinedWithinLimit
  <2>3. Cardinality(Joined) \in Nat /\ MaxUsers \in Nat
    BY <1>10, SessionAssumption, JoinedIsFinite
  <2>4. server[c].name \in MayBypass \/ Cardinality(Joined) + 1 =< MaxUsers
    BY <2>3 DEF CheckUserLimit
  <2>5. T \subseteq Joined \union {c} /\ Joined \union {c} \subseteq Conn /\ S \subseteq Conn
        /\ T \subseteq Conn
    BY <1>10, <2>1
  <2>6. Cardinality(Joined \union {c}) = Cardinality(Joined) + 1
    <3>1. IsFiniteSet(Joined)
      BY <1>10, JoinedIsFinite
    <3> QED BY <1>10, <3>1, FS_AddElement
  <2> HIDE DEF S, T
  <2>7. /\ Cardinality(T) \in Nat /\ Cardinality(S) \in Nat
        /\ Cardinality(T) =< Cardinality(Joined \union {c})
        /\ T \subseteq S => Cardinality(T) =< Cardinality(S)
    BY <2>5, JoinedIsFinite
  <2>8. Cardinality(T) =< MaxUsers
    BY <2>1, <2>2, <2>3, <2>4, <2>6, <2>7
  <2> QED BY <2>8 DEF T, JoinedWithinLimit
<1> QED BY <1>7, <1>8, <1>9, <1>11, <1>12, OneMovesPlaces

LEMMA HandleClientReadyStep ==
    ASSUME IInv, NEW c \in Conn, HandleClientReady(c)
    PROVE  IInv'
<1>1. Arrives(c, "clientReady") /\ UNCHANGED accounts /\ "clientReady" \in PacketType
      /\ accounts \subseteq Name
  BY DEF HandleClientReady, PacketType, IInv, TypeOK
<1>2. CASE server[c].state # "definitionsSent"
  <2>1. UNCHANGED <<server, toClient, players>>
    BY <1>2 DEF HandleClientReady
  <2> QED BY <1>1, <1>2, <2>1, IgnoreStep
<1>3. CASE server[c].state = "definitionsSent" /\ DenyAccess(c) /\ UNCHANGED players
  BY <1>1, <1>3, DenyStep
<1>4. CASE server[c].state = "definitionsSent"
           /\ ~(CheckUserLimit(c) \/ FirstOf(server[c].name) # NoConn)
  BY <1>4, JoinStep DEF HandleClientReady
<1> QED BY <1>2, <1>3, <1>4 DEF HandleClientReady
\* The client goes, and its player loses its peer.
LEMMA DeletingPeerStep ==
    ASSUME IInv, NEW c \in Conn, DeletingPeer(c)
    PROVE  IInv'
<1>1. /\ Arrives(c, "deletingPeer") /\ UNCHANGED <<toClient, accounts>>
      /\ server' = [server EXCEPT ![c] = Nobody]
      /\ players' = [k \in DOMAIN players |->
                        IF players[k].conn = c THEN [players[k] EXCEPT !.conn = NoConn]
                        ELSE players[k]]
  BY DEF DeletingPeer
<1>2. /\ UNCHANGED <<client, peer, inits>>
      /\ toServer' \in [Conn -> Seq(Packet)]
      /\ \A d \in Conn \ {c} : toServer'[d] = toServer[d]
      /\ client[c].pc # "idle"
      /\ \A k \in DOMAIN toServer'[c] : \E l \in DOMAIN toServer[c] :
           toServer'[c][k] = toServer[c][l]
  BY <1>1, ArriveFacts
<1>3. Nobody \in RemoteClient /\ Nobody.state = "none"
  <2>1. server[c].name \in Name
    BY DEF IInv, TypeOK, RemoteClient
  <2>2. (CHOOSE m \in Name : TRUE) \in Name
    BY <2>1
  <2> DEFINE name == CHOOSE m \in Name : TRUE
  <2>3. name \in Name
    BY <2>2
  <2> HIDE DEF name
  <2>4. Fresh(name) \in RemoteClient
    BY <2>3, SessionAssumption DEF Fresh, RemoteClient, Mech, Attempt
  <2>5. [Fresh(name) EXCEPT !.state = "none"] \in RemoteClient
        /\ [Fresh(name) EXCEPT !.state = "none"].state = "none"
    BY <2>4 DEF RemoteClient
  <2> QED BY <2>5 DEF Nobody, name
<1>4. server' \in [Conn -> RemoteClient] /\ server'[c] = Nobody
      /\ \A d \in Conn \ {c} : server'[d] = server[d]
  BY <1>1, <1>3, ServerWith
<1>5. /\ players' \in Seq(Player) /\ DOMAIN players' = DOMAIN players
      /\ \A k \in DOMAIN players :
           players'[k].conn = IF players[k].conn = c THEN NoConn ELSE players[k].conn
  <2>1. \A k \in DOMAIN players : players[k] \in Player
    BY PlayersTyped
  <2>2. DOMAIN players' = DOMAIN players
    BY <1>1
  <2>3. \A k \in DOMAIN players :
          /\ players'[k] \in Player
          /\ players'[k].conn = IF players[k].conn = c THEN NoConn ELSE players[k].conn
    BY <1>1, <2>1 DEF Player
  <2>4. players' \in [1..Len(players) -> Player] /\ Len(players) \in Nat
    BY <1>1, <2>2, <2>3, PlayersTyped
  <2>5. players' \in Seq(Player)
    BY <2>4, SeqDef
  <2> QED BY <2>2, <2>3, <2>5
<1>6. TypeOK'
  BY <1>1, <1>2, <1>4, <1>5 DEF IInv, TypeOK
<1>7. Local(c)'
  <2>1. BeginsWithHello(c)'
    <3>1. server'[c].state # "created" /\ server'[c].state = "none"
      BY <1>3, <1>4
    <3>2. Expecting(c)' => Expecting(c)
      BY <1>1, <3>1 DEF Expecting
    <3>3. Expecting(c) => \A k \in DOMAIN toServer'[c] : toServer'[c][k].type = "deletingPeer"
      BY <1>2, LocalHolds DEF Local, BeginsWithHello
    <3> QED BY <1>1, <1>2, <3>1, <3>2, <3>3, LocalHolds DEF Local, BeginsWithHello
  <2>2. Gone(c)' /\ Talks(c)'
    BY <1>3, <1>4 DEF Gone, Talks, Talk
  <2> QED BY <2>1, <2>2 DEF Local
<1>8. \A d \in Conn \ {c} : Apart(d)
  BY <1>1, <1>2, <1>4 DEF Apart
<1>9. Joined' = Joined \ {c} /\ Joined \subseteq Conn
  BY <1>3, <1>4 DEF Joined
<1>10. PlacesInv'
  <2>1. ASSUME NEW k \in DOMAIN players', players'[k].conn # NoConn
        PROVE  server'[players'[k].conn].state \in InGame
    <3>1. players[k].conn # c /\ players'[k].conn = players[k].conn
      BY <1>5, <2>1
    <3>2. players[k].conn \in Conn \ {c}
      BY <1>5, <2>1, <3>1, PlayersTyped
    <3> QED BY <1>4, <1>5, <2>1, <3>1, <3>2 DEF IInv, PlacesInv
  <2>2. ASSUME NEW j \in DOMAIN players', NEW k \in DOMAIN players',
               players'[j].conn = players'[k].conn, players'[j].conn # NoConn
        PROVE  j = k
    BY <1>5, <2>2 DEF IInv, PlacesInv
  <2>3. ASSUME NEW d \in Joined' PROVE \E k \in DOMAIN players' : players'[k].conn = d
    <3>1. d \in Joined /\ d # c
      BY <1>9, <2>3
    <3>2. PICK k \in DOMAIN players : players[k].conn = d
      BY <3>1 DEF IInv, PlacesInv
    <3> QED BY <1>5, <3>1, <3>2
  <2> QED BY <2>1, <2>2, <2>3 DEF PlacesInv
<1>11. JoinedWithinLimit'
  <2> DEFINE S == {d \in Joined : server[d].name \notin MayBypass}
             T == {d \in Joined' : server'[d].name \notin MayBypass}
  <2>1. T \subseteq S /\ S \subseteq Conn /\ T \subseteq Conn
    BY <1>4, <1>9
  <2>2. Cardinality(S) =< MaxUsers
    BY DEF IInv, JoinedWithinLimit
  <2> HIDE DEF S, T
  <2>3. Cardinality(T) =< Cardinality(S) /\ Cardinality(T) \in Nat /\ Cardinality(S) \in Nat
    BY <2>1, JoinedIsFinite
  <2>4. Cardinality(T) =< MaxUsers
    BY <2>2, <2>3, SessionAssumption
  <2> QED BY <2>4 DEF T, JoinedWithinLimit
<1> QED BY <1>6, <1>7, <1>8, <1>10, <1>11, OneMovesPlaces

\* What comes after a queue without "hello" is the only one in it.
LEMMA FirstHello ==
    ASSUME NEW q0 \in Seq(Packet), NEW p \in Packet, NEW does \in BOOLEAN, NEW q,
           MayEndWith(q, q0, p, does),
           \A k \in DOMAIN q0 : q0[k].type \in {"accessDenied", "deletingPeer"}
    PROVE  /\ \A k \in DOMAIN q : q[k].type \in {p.type, "accessDenied", "deletingPeer"}
           /\ \A j, k \in DOMAIN q : q[j].type = "hello" /\ q[k].type = "hello" => j = k
<1>1. /\ \A k \in DOMAIN q : (k \in DOMAIN q0 /\ q[k] = q0[k]) \/ q[k] = p
      /\ \A j, k \in DOMAIN q : j \notin DOMAIN q0 /\ k \notin DOMAIN q0 => j = k
      /\ \A k \in DOMAIN q0 : k \in DOMAIN q /\ q[k] = q0[k]
  BY EndsWithFacts
<1> QED BY <1>1

LEMMA HandleInitStep ==
    ASSUME IInv, NEW c \in Conn, HandleInit(c)
    PROVE  IInv'
<1> DEFINE name == server[c].name
           mech == IF name \in accounts THEN "srp" ELSE "first"
           p == [Plain("hello") EXCEPT !.mech = mech]
<1>1. /\ inits' \subseteq Conn /\ UNCHANGED <<client, peer, toServer, players, accounts>>
      /\ server[c] \in RemoteClient /\ server \in [Conn -> RemoteClient]
      /\ toClient \in [Conn -> Seq(Packet)] /\ \A d \in Conn : toClient[d] \in Seq(Packet)
  BY DEF HandleInit, IInv, TypeOK
<1>2. CASE server[c].state # "created"
  <2>1. UNCHANGED <<server, toClient>>
    BY <1>2 DEF HandleInit
  <2>2. \A d \in Conn : Apart(d)
    BY <1>1, <2>1 DEF Apart
  <2>3. TypeOK'
    BY <1>1, <2>1 DEF IInv, TypeOK
  <2>4. Local(c)' /\ KeepsItsPlace(c)
    BY <2>2, LocalHolds, ApartKeeps
  <2> QED BY <1>1, <2>2, <2>3, <2>4, OneMoves
<1>3. ASSUME server[c].state = "created" PROVE
           /\ client[c].pc \in {"created", "out"} /\ client[c].attempt = 0
           /\ \A k \in DOMAIN toServer[c] : toServer[c][k].type = "deletingPeer"
           /\ \A k \in DOMAIN toClient[c] : toClient[c][k].type \in {"accessDenied", "deletingPeer"}
           /\ client[c].pc = "out" => toClient[c] = <<>>
  BY <1>3, LocalHolds DEF Local, BeginsWithHello, Expecting
<1>4. CASE server[c].state = "created" /\ DenyAccess(c)
  <2>1. /\ server' \in [Conn -> RemoteClient] /\ server'[c].state = "denied"
        /\ \A d \in Conn \ {c} : server'[d] = server[d]
        /\ toClient' \in [Conn -> Seq(Packet)]
        /\ \A d \in Conn \ {c} : toClient'[d] = toClient[d]
        /\ MayEndWith(toClient'[c], toClient[c], Plain("accessDenied"),
                      client[c].pc # "out" /\ peer[c] = "up")
    BY <1>4, DenyFacts DEF IInv
  <2>2. \A k \in DOMAIN toClient'[c] : toClient'[c][k].type # "hello"
    <3>1. Plain("accessDenied") \in Packet /\ Plain("accessDenied").type = "accessDenied"
      BY PlainIsPacket DEF PacketType
    <3> DEFINE q0 == toClient[c]
               q == toClient'[c]
               does == client[c].pc # "out" /\ peer[c] = "up"
               a == Plain("accessDenied")
    <3>2. /\ q0 \in Seq(Packet) /\ a \in Packet /\ does \in BOOLEAN /\ MayEndWith(q, q0, a, does)
          /\ \A k \in DOMAIN q0 : q0[k].type \in {"accessDenied", "deletingPeer"}
      BY <1>1, <1>3, <1>4, <2>1, <3>1
    <3>3. a.type = "accessDenied"
      BY <3>1
    <3> HIDE DEF q0, q, does, a
    <3>4. \A k \in DOMAIN q : q[k].type # "hello"
      BY <3>2, <3>3, FirstHello
    <3> QED BY <3>4 DEF q
  <2>3. BeginsWithHello(c)'
    BY <1>1, <1>3, <1>4, <2>1, <2>2 DEF BeginsWithHello, Expecting, MayEndWith
  <2>4. Gone(c)' /\ Talks(c)'
    BY <1>1, <1>4, <2>1, LocalHolds DEF Local, Gone, Talks, Talk
  <2>5. TypeOK'
    BY <1>1, <2>1 DEF IInv, TypeOK
  <2>6. KeepsItsPlace(c) /\ \A d \in Conn \ {c} : Apart(d)
    BY <1>1, <1>4, <2>1 DEF KeepsItsPlace, InGame, Apart
  <2> QED BY <1>1, <2>3, <2>4, <2>5, <2>6, OneMoves DEF Local
<1>5. CASE /\ server[c].state = "created" /\ Answer(c, p)
           /\ server' = [server EXCEPT ![c].state = "helloSent", ![c].allowed = mech]
  <2>1. mech \in Mech
    BY DEF Mech
  <2> HIDE DEF mech
  <2>2. p \in Packet /\ p.type = "hello"
    <3>1. Plain("hello") \in Packet /\ Plain("hello").type = "hello"
      BY PlainIsPacket DEF PacketType
    <3> QED BY <2>1, <3>1 DEF Packet
  <2> HIDE DEF p
  <2>3. PICK z : z = [server[c] EXCEPT !.state = "helloSent", !.allowed = mech]
    OBVIOUS
  <2>4. z \in RemoteClient /\ z.state = "helloSent" /\ z.mech = server[c].mech
    BY <1>1, <2>1, <2>3 DEF RemoteClient
  <2>5. server' = [server EXCEPT ![c] = z]
    BY <1>5, <2>3, Zenon
  <2>6. server' \in [Conn -> RemoteClient] /\ server'[c] = z
        /\ \A d \in Conn \ {c} : server'[d] = server[d]
    BY <2>4, <2>5, ServerWith
  <2>7. /\ toClient' \in [Conn -> Seq(Packet)]
        /\ \A d \in Conn \ {c} : toClient'[d] = toClient[d]
        /\ MayEndWith(toClient'[c], toClient[c], p, client[c].pc # "out" /\ peer[c] = "up")
    BY <1>1, <1>5, <2>2, AnswerFacts
  <2>8. /\ \A k \in DOMAIN toClient'[c] :
             toClient'[c][k].type \in {"hello", "accessDenied", "deletingPeer"}
        /\ \A j, k \in DOMAIN toClient'[c] :
             toClient'[c][j].type = "hello" /\ toClient'[c][k].type = "hello" => j = k
    <3> DEFINE q0 == toClient[c]
               q == toClient'[c]
               does == client[c].pc # "out" /\ peer[c] = "up"
    <3>1. /\ q0 \in Seq(Packet) /\ does \in BOOLEAN /\ MayEndWith(q, q0, p, does)
          /\ \A k \in DOMAIN q0 : q0[k].type \in {"accessDenied", "deletingPeer"}
      BY <1>1, <1>3, <1>5, <2>7
    <3> HIDE DEF q0, q, does
    <3>2. /\ \A k \in DOMAIN q : q[k].type \in {p.type, "accessDenied", "deletingPeer"}
          /\ \A j, k \in DOMAIN q : q[j].type = "hello" /\ q[k].type = "hello" => j = k
      BY <2>2, <3>1, FirstHello
    <3> QED BY <2>2, <3>2 DEF q
  <2>9. BeginsWithHello(c)'
    BY <1>1, <1>3, <1>5, <2>4, <2>6, <2>7, <2>8 DEF BeginsWithHello, Expecting, MayEndWith
  <2>10. Gone(c)'
    BY <1>1, <1>5, LocalHolds DEF Local, Gone
  <2>11. ASSUME Patient, peer[c] = "up", client[c].pc # "out" PROVE Talk(c)'
    <3>1. /\ Silent(c) /\ server[c].mech = "none" /\ client[c].pc = "created"
          /\ ~client[c].changing
      BY <1>5, <2>11, LocalHolds DEF Local, Talks, Talk
    <3>2. toClient'[c] = Append(toClient[c], p)
      BY <2>7, <2>11 DEF MayEndWith
    <3> DEFINE q == toClient[c]
    <3>3. q \in Seq(Packet) /\ q = <<>>
      BY <1>1, <3>1 DEF Silent
    <3> HIDE DEF q
    <3>4. Len(q) = 0 /\ Len(Append(q, p)) = Len(q) + 1 /\ Append(q, p)[Len(q) + 1] = p
      BY <2>2, <3>3, AppendFacts
    <3>5. Len(Append(q, p)) = 1 /\ Append(q, p)[1] = p
      BY <3>4
    <3>6. Told(c, "hello")'
      BY <1>1, <2>2, <3>1, <3>2, <3>5 DEF Told, Silent, q
    <3> QED BY <1>1, <2>4, <2>6, <3>1, <3>6 DEF Talk, Login
  <2>12. TypeOK'
    BY <1>1, <2>6, <2>7 DEF IInv, TypeOK
  <2>13. KeepsItsPlace(c) /\ \A d \in Conn \ {c} : Apart(d)
    BY <1>1, <1>5, <2>4, <2>6, <2>7 DEF KeepsItsPlace, InGame, Apart
  <2> QED BY <1>1, <2>9, <2>10, <2>11, <2>12, <2>13, OneMoves DEF Local, Talks
<1> QED BY <1>2, <1>4, <1>5 DEF HandleInit
-----------------------------------------------------------------------------
(* The steps of neither: kicks, the end of a peer, players taken out.        *)

LEMMA KickStep ==
    ASSUME IInv, NEW c \in Conn, Kick(c)
    PROVE  IInv'
<1>1. /\ server[c].state \in {"active", "sudoMode"} /\ DenyAccess(c)
      /\ UNCHANGED <<client, peer, inits, toServer, players, accounts>>
  BY DEF Kick, Joined, linkVars
<1>2. /\ server' \in [Conn -> RemoteClient] /\ server'[c].state = "denied"
      /\ \A d \in Conn \ {c} : server'[d] = server[d]
      /\ toClient' \in [Conn -> Seq(Packet)]
      /\ \A d \in Conn \ {c} : toClient'[d] = toClient[d]
      /\ MayEndWith(toClient'[c], toClient[c], Plain("accessDenied"),
                    client[c].pc # "out" /\ peer[c] = "up")
  BY <1>1, DenyFacts DEF IInv
<1>3. /\ client[c].pc # "idle" /\ (client[c].pc = "out" => toClient[c] = <<>>)
      /\ \A k \in DOMAIN toClient[c] : toClient[c][k].type # "hello"
  BY <1>1, LocalHolds DEF Local, BeginsWithHello, Expecting
<1> DEFINE q0 == toClient[c]
           q == toClient'[c]
           does == client[c].pc # "out" /\ peer[c] = "up"
           a == Plain("accessDenied")
<1>4. /\ q0 \in Seq(Packet) /\ a \in Packet /\ does \in BOOLEAN /\ a.type = "accessDenied"
      /\ MayEndWith(q, q0, a, does)
  BY <1>2, LocalHolds, PlainIsPacket DEF PacketType
<1>5. \A k \in DOMAIN q : q[k].type # "hello"
  <2> HIDE DEF q, does, a
  <2>1. \A k \in DOMAIN q : (k \in DOMAIN q0 /\ q[k] = q0[k]) \/ q[k] = a
    <3> HIDE DEF q0
    <3> QED BY <1>4, EndsWithFacts
  <2> QED BY <1>3, <1>4, <2>1
<1>6. BeginsWithHello(c)'
  BY <1>1, <1>2, <1>3, <1>5 DEF BeginsWithHello, Expecting, MayEndWith
<1>7. Gone(c)' /\ Talks(c)'
  BY <1>1, <1>2, LocalHolds DEF Local, Gone, Talks, Talk
<1>8. TypeOK'
  BY <1>1, <1>2 DEF IInv, TypeOK
<1>9. KeepsItsPlace(c) /\ \A d \in Conn \ {c} : Apart(d)
  BY <1>1, <1>2 DEF KeepsItsPlace, InGame, Apart
<1> QED BY <1>1, <1>6, <1>7, <1>8, <1>9, OneMoves DEF Local

LEMMA PeerGoneStep ==
    ASSUME IInv, NEW c \in Conn, PeerGone(c)
    PROVE  IInv'
<1> DEFINE p == Plain("deletingPeer")
           q0 == toClient[c]
           q == toClient'[c]
           does == client[c].pc # "out" /\ peer[c] = "up"
           s == toServer[c]
<1>1. /\ p \in Packet /\ p.type = "deletingPeer"
      /\ toServer \in [Conn -> Seq(Packet)] /\ s \in Seq(Packet) /\ q0 \in Seq(Packet)
      /\ peer \in [Conn -> {"none", "up", "down"}] /\ inits \subseteq Conn
      /\ toClient \in [Conn -> Seq(Packet)]
  BY PlainIsPacket, LocalHolds DEF PacketType, IInv, TypeOK
<1>2. /\ peer[c] = "up" /\ peer' = [peer EXCEPT ![c] = "down"] /\ inits' = inits \ {c}
      /\ toServer' = [toServer EXCEPT ![c] = Append(s, p)]
      /\ Answer(c, p) /\ UNCHANGED <<client, server, players, accounts>>
  BY DEF PeerGone
<1> HIDE DEF p
<1>3. /\ toClient' \in [Conn -> Seq(Packet)]
      /\ \A d \in Conn \ {c} : toClient'[d] = toClient[d]
      /\ MayEndWith(q, q0, p, does)
  BY <1>1, <1>2, AnswerFacts
<1>4. /\ Append(s, p) \in Seq(Packet) /\ Append(s, p) # <<>>
      /\ Append(s, p)[Len(Append(s, p))] = p
      /\ \A k \in DOMAIN Append(s, p) : (k \in DOMAIN s /\ Append(s, p)[k] = s[k])
                                        \/ Append(s, p)[k] = p
  <2> HIDE DEF s
  <2>1. /\ Append(s, p) \in Seq(Packet) /\ Append(s, p) # <<>>
        /\ Len(s) \in Nat /\ Len(Append(s, p)) = Len(s) + 1
        /\ DOMAIN s = 1..Len(s) /\ DOMAIN Append(s, p) = 1..Len(s) + 1
        /\ \A k \in DOMAIN s : Append(s, p)[k] = s[k]
        /\ Append(s, p)[Len(s) + 1] = p
    BY <1>1, AppendFacts, SMTT(30)
  <2>2. \A k \in DOMAIN Append(s, p) : k \in DOMAIN s \/ k = Len(s) + 1
    BY <2>1
  <2> QED BY <2>1, <2>2
<1>5. /\ toServer' \in [Conn -> Seq(Packet)] /\ toServer'[c] = Append(s, p)
      /\ \A d \in Conn \ {c} : toServer'[d] = toServer[d]
  <2>1. toServer \in [Conn -> Seq(Packet)] /\ Append(s, p) \in Seq(Packet)
    BY <1>1, <1>4
  <2> HIDE DEF s
  <2> QED BY <1>2, <2>1
<1>6. /\ \A k \in DOMAIN q : (k \in DOMAIN q0 /\ q[k] = q0[k]) \/ q[k] = p
      /\ \A k \in DOMAIN q0 : k \in DOMAIN q /\ q[k] = q0[k]
  <2>1. does \in BOOLEAN /\ q0 \in Seq(Packet)
    BY <1>1
  <2> HIDE DEF q, q0, does
  <2> QED BY <1>1, <1>3, <2>1, EndsWithFacts
<1>7. BeginsWithHello(c)'
  <2>1. Expecting(c)' => Expecting(c)
    BY <1>1, <1>2, <1>6 DEF Expecting
  <2>2. client[c].pc # "idle"
    BY <1>2, LocalHolds DEF Local, BeginsWithHello
  <2>3. client[c].pc = "out" => toClient'[c] = <<>>
    BY <1>3, LocalHolds DEF Local, BeginsWithHello, MayEndWith
  <2>4. Expecting(c) =>
          /\ client[c].attempt = 0 /\ client[c].pc \in {"created", "out"}
          /\ server[c].state \in {"created", "helloSent", "denied", "none"}
          /\ \A k \in DOMAIN s : s[k].type = "deletingPeer"
          /\ \A k \in DOMAIN q0 : q0[k].type \in {"hello", "accessDenied", "deletingPeer"}
    BY LocalHolds DEF Local, BeginsWithHello
  <2>5. ASSUME Expecting(c)
        PROVE  /\ \A k \in DOMAIN toServer'[c] : toServer'[c][k].type = "deletingPeer"
               /\ \A k \in DOMAIN q : q[k].type \in {"hello", "accessDenied", "deletingPeer"}
    <3>1. /\ \A k \in DOMAIN s : s[k].type = "deletingPeer"
          /\ \A k \in DOMAIN q0 : q0[k].type \in {"hello", "accessDenied", "deletingPeer"}
      BY <2>4, <2>5
    <3> HIDE DEF s, q, q0
    <3>2. \A k \in DOMAIN Append(s, p) : Append(s, p)[k].type = "deletingPeer"
      BY <1>1, <1>4, <3>1
    <3>3. \A k \in DOMAIN q : q[k].type \in {"hello", "accessDenied", "deletingPeer"}
      BY <1>1, <1>6, <3>1
    <3> QED BY <1>5, <3>2, <3>3
  <2>6. ASSUME server[c].state = "created" PROVE \A k \in DOMAIN q : q[k].type # "hello"
    <3>1. \A k \in DOMAIN q0 : q0[k].type # "hello"
      BY <2>6, LocalHolds DEF Local, BeginsWithHello
    <3> HIDE DEF q, q0
    <3> QED BY <1>1, <1>6, <3>1
  <2>7. \A j, k \in DOMAIN q : q[j].type = "hello" /\ q[k].type = "hello" => j = k
    <3>1. \A j, k \in DOMAIN q0 : q0[j].type = "hello" /\ q0[k].type = "hello" => j = k
      BY LocalHolds DEF Local, BeginsWithHello
    <3> HIDE DEF q, q0
    <3> QED BY <1>1, <1>6, <3>1
  <2> QED BY <1>2, <2>1, <2>2, <2>3, <2>4, <2>5, <2>6, <2>7 DEF BeginsWithHello
<1>8. Gone(c)' /\ Talks(c)'
  <2>1. Gone(c)'
    BY <1>1, <1>4, <1>5 DEF Gone
  <2>2. peer'[c] = "down"
    BY <1>1, <1>2
  <2> QED BY <2>1, <2>2 DEF Talks
<1>9. TypeOK'
  BY <1>1, <1>2, <1>3, <1>5 DEF IInv, TypeOK
<1>10. KeepsItsPlace(c) /\ \A d \in Conn \ {c} : Apart(d)
  BY <1>1, <1>2, <1>3, <1>5 DEF KeepsItsPlace, Apart
<1> QED BY <1>2, <1>7, <1>8, <1>9, <1>10, OneMoves DEF Local

\* What is after the i-th comes one place earlier.
LEMMA RemoveAtFacts ==
    ASSUME NEW S, NEW s \in Seq(S), NEW i \in 1..Len(s)
    PROVE  /\ RemoveAt(s, i) \in Seq(S)
           /\ DOMAIN RemoveAt(s, i) = 1..Len(s) - 1
           /\ \A k \in 1..Len(s) - 1 : RemoveAt(s, i)[k] = s[IF k < i THEN k ELSE k + 1]
<1> DEFINE a == SubSeq(s, 1, i - 1)
           b == SubSeq(s, i + 1, Len(s))
<1>1. Len(s) \in Nat /\ \A k \in 1..Len(s) : s[k] \in S
  BY LenProperties, ElementOfSeq
<1>2. /\ a \in Seq(S) /\ Len(a) = i - 1 /\ \A k \in 1..(i - 1) : a[k] = s[k]
  <2>1. \A k \in 1..(i - 1) : s[k] \in S
    BY <1>1
  <2>2. /\ a \in Seq(S) /\ Len(a) = IF 1 <= i - 1 THEN (i - 1) - 1 + 1 ELSE 0
        /\ \A k \in 1..((i - 1) - 1 + 1) : a[k] = s[1 + k - 1]
    <3>1. 1 \in Int /\ i - 1 \in Int
      BY <1>1
    <3> QED BY <2>1, <3>1, SubSeqProperties
  <2> HIDE DEF a
  <2> QED BY <1>1, <2>2
<1>3. /\ b \in Seq(S) /\ Len(b) = Len(s) - i /\ \A k \in 1..(Len(s) - i) : b[k] = s[i + k]
  <2>1. \A k \in (i + 1)..Len(s) : s[k] \in S
    BY <1>1
  <2>2. /\ b \in Seq(S) /\ Len(b) = IF i + 1 <= Len(s) THEN Len(s) - (i + 1) + 1 ELSE 0
        /\ \A k \in 1..(Len(s) - (i + 1) + 1) : b[k] = s[i + 1 + k - 1]
    <3>1. Len(s) \in Int /\ i + 1 \in Int
      BY <1>1
    <3> QED BY <2>1, <3>1, SubSeqProperties
  <2> HIDE DEF b
  <2> QED BY <1>1, <2>2
<1>4. RemoveAt(s, i) = a \o b
  BY DEF RemoveAt
<1> HIDE DEF a, b
<1>5. /\ a \o b \in Seq(S) /\ Len(a \o b) = Len(a) + Len(b)
      /\ \A k \in 1..Len(a) + Len(b) : (a \o b)[k] = IF k <= Len(a) THEN a[k] ELSE b[k - Len(a)]
  BY <1>2, <1>3, ConcatProperties
<1>6. DOMAIN (a \o b) = 1..Len(s) - 1
  <2>1. DOMAIN (a \o b) = 1..Len(a \o b)
    BY <1>5, LenProperties
  <2> QED BY <1>1, <1>2, <1>3, <1>5, <2>1
<1>7. ASSUME NEW k \in 1..Len(s) - 1 PROVE (a \o b)[k] = s[IF k < i THEN k ELSE k + 1]
  <2>1. Len(a) + Len(b) = Len(s) - 1 /\ k \in 1..Len(a) + Len(b)
    BY <1>1, <1>2, <1>3
  <2>2. CASE k < i
    BY <1>1, <1>2, <1>5, <2>1, <2>2
  <2>3. CASE ~(k < i)
    <3>1. ~(k <= Len(a)) /\ k - Len(a) \in 1..(Len(s) - i) /\ i + (k - Len(a)) = k + 1
      BY <1>1, <1>2, <2>3
    <3> QED BY <1>3, <1>5, <2>1, <2>3, <3>1
  <2> QED BY <2>2, <2>3
<1> QED BY <1>4, <1>5, <1>6, <1>7

\* A player without a peer is taken out: those of clients stay.
LEMMA RemovePlayerStep ==
    ASSUME IInv, RemovePlayer
    PROVE  IInv'
<1>1. PICK i \in DOMAIN players : players[i].conn = NoConn /\ players' = RemoveAt(players, i)
  BY DEF RemovePlayer
<1>2. /\ UNCHANGED <<client, server, peer, inits, toServer, toClient, accounts>>
  BY DEF RemovePlayer, linkVars
<1>3. players \in Seq(Player) /\ DOMAIN players = 1..Len(players) /\ Len(players) \in Nat
  BY PlayersTyped
<1> DEFINE From(k) == IF k < i THEN k ELSE k + 1
<1>4. /\ players' \in Seq(Player) /\ DOMAIN players' = 1..Len(players) - 1
      /\ \A k \in DOMAIN players' : players'[k] = players[From(k)]
  BY <1>1, <1>3, RemoveAtFacts
<1>5. /\ \A k \in DOMAIN players' : From(k) \in DOMAIN players
      /\ \A j, k \in DOMAIN players' : From(j) = From(k) => j = k
      /\ \A l \in DOMAIN players \ {i} : \E k \in DOMAIN players' : From(k) = l
  <2>1. ASSUME NEW l \in DOMAIN players \ {i} PROVE \E k \in DOMAIN players' : From(k) = l
    <3>1. CASE l < i
      <4>1. l \in DOMAIN players' /\ From(l) = l
        BY <1>3, <1>4, <3>1
      <4> QED BY <4>1
    <3>2. CASE ~(l < i)
      <4>1. l - 1 \in DOMAIN players' /\ From(l - 1) = l
        BY <1>3, <1>4, <3>2
      <4> QED BY <4>1
    <3> QED BY <3>1, <3>2
  <2> QED BY <1>3, <1>4, <2>1
<1> HIDE DEF From
<1>6. PlacesInv'
  <2>1. ASSUME NEW k \in DOMAIN players', players'[k].conn # NoConn
        PROVE  server'[players'[k].conn].state \in InGame
    BY <1>2, <1>4, <1>5, <2>1 DEF IInv, PlacesInv
  <2>2. ASSUME NEW j \in DOMAIN players', NEW k \in DOMAIN players',
               players'[j].conn = players'[k].conn, players'[j].conn # NoConn
        PROVE  j = k
    <3>1. From(j) = From(k)
      BY <1>4, <1>5, <2>2 DEF IInv, PlacesInv
    <3> QED BY <1>5, <3>1
  <2>3. ASSUME NEW d \in Joined' PROVE \E k \in DOMAIN players' : players'[k].conn = d
    <3>1. d \in Joined /\ d # NoConn
      BY <1>2, <2>3, SessionAssumption DEF Joined
    <3>2. PICK l \in DOMAIN players : players[l].conn = d
      BY <3>1 DEF IInv, PlacesInv
    <3>3. PICK k \in DOMAIN players' : From(k) = l
      BY <1>1, <1>5, <3>1, <3>2
    <3> QED BY <1>4, <3>2, <3>3
  <2> QED BY <2>1, <2>2, <2>3 DEF PlacesInv
<1>7. TypeOK'
  BY <1>2, <1>4 DEF IInv, TypeOK
<1>8. JoinedWithinLimit'
  BY <1>2 DEF IInv, JoinedWithinLimit, Joined
<1>9. \A d \in Conn : Local(d)'
  <2>1. \A d \in Conn : Local(d) /\ Apart(d)
    BY <1>2, LocalHolds DEF Apart
  <2> QED BY <2>1, ApartKeeps
<1> QED BY <1>6, <1>7, <1>8, <1>9 DEF IInv, HelloInv, GoneInv, TalkInv, Local
-----------------------------------------------------------------------------
(* The invariant.                                                            *)

LEMMA InitInvariant == Init => IInv
<1> SUFFICES ASSUME Init PROVE IInv
  OBVIOUS
<1>1. PICK cast \in Casts : client = [c \in Conn |-> NotRunning("idle", cast[c])]
  BY DEF Init
<1>2. cast \in [Conn -> Name]
  BY <1>1, SessionAssumption
<1>3. \A c \in Conn : /\ client[c] \in Client /\ client[c].pc = "idle"
                      /\ client[c].attempt = 0 /\ ~client[c].changing
  BY <1>1, <1>2, SessionAssumption DEF NotRunning, Client, Mech, Attempt
<1>4. Nobody.state = "none" /\ (Conn # {} => Nobody \in RemoteClient)
  <2> DEFINE n == CHOOSE m \in Name : TRUE
  <2>1. Conn # {} => n \in Name
    BY <1>2
  <2> HIDE DEF n
  <2>2. Nobody = [Fresh(n) EXCEPT !.state = "none"]
    BY DEF Nobody, n
  <2>3. Nobody.state = "none" /\ (n \in Name => Nobody \in RemoteClient)
    BY <2>2, SessionAssumption DEF Fresh, RemoteClient, Mech, Attempt
  <2> QED BY <2>1, <2>3
<1>5. \A c \in Conn : server[c] = Nobody /\ peer[c] = "none" /\ toServer[c] = <<>> /\ toClient[c] = <<>>
  BY DEF Init
<1>6. TypeOK
  <2>1. client \in [Conn -> Client] /\ server \in [Conn -> RemoteClient]
    BY <1>1, <1>3, <1>4 DEF Init
  <2>2. /\ peer \in [Conn -> {"none", "up", "down"}] /\ inits \subseteq Conn
        /\ players \in Seq(Player) /\ accounts \subseteq Name
    BY SessionAssumption, EmptySeq DEF Init
  <2>3. toServer \in [Conn -> Seq(Packet)] /\ toClient \in [Conn -> Seq(Packet)]
    BY EmptySeq DEF Init
  <2> QED BY <2>1, <2>2, <2>3 DEF TypeOK
<1>7. \A c \in Conn : Local(c)
  <2> SUFFICES ASSUME NEW c \in Conn PROVE Local(c)
    OBVIOUS
  <2>1. server[c].state = "none" /\ DOMAIN toClient[c] = {} /\ ~Expecting(c)
    BY <1>4, <1>5 DEF Expecting
  <2> QED BY <1>3, <1>5, <2>1 DEF Local, BeginsWithHello, Gone, Talks
<1>8. Joined = {}
  BY <1>4, <1>5 DEF Joined
<1>9. PlacesInv
  BY <1>8 DEF PlacesInv, Init
<1>10. JoinedWithinLimit
  <2>1. {c \in Joined : server[c].name \notin MayBypass} = {}
    BY <1>8
  <2>2. Cardinality({c \in Joined : server[c].name \notin MayBypass}) = 0
    BY <2>1, FS_EmptySet, Zenon
  <2> QED BY <2>2, SessionAssumption DEF JoinedWithinLimit
<1> QED BY <1>6, <1>7, <1>9, <1>10 DEF IInv, HelloInv, GoneInv, TalkInv, Local

LEMMA NextInvariant == IInv /\ [Next]_vars => IInv'
<1> SUFFICES ASSUME IInv, [Next]_vars PROVE IInv'
  OBVIOUS
<1>1. ASSUME NEW c \in Conn,
             \/ Connect(c) \/ SendInit(c) \/ AfterContentReceived(c) \/ SendChangePassword(c)
             \/ Leave(c) \/ HandleInit(c) \/ Kick(c) \/ LoseInit(c) \/ PeerGone(c)
      PROVE  IInv'
  BY <1>1, ConnectStep, InitsStep, AfterContentReceivedStep, SendChangePasswordStep, EndSteps,
     HandleInitStep, KickStep, PeerGoneStep
<1>2. ASSUME NEW c \in Conn, ClientReceives(c) PROVE IInv'
  BY <1>2, HandleHelloStep, HandleSrpBytesSandBStep, HandleAuthAcceptStep, ContentSteps,
     HandleAcceptSudoModeStep, HandleChangeAnswerStep, EndSteps DEF ClientReceives
<1>3. ASSUME NEW c \in Conn, ServerReceives(c) PROVE IInv'
  BY <1>3, HandleFirstSrpStep, HandleSrpBytesAStep, HandleSrpBytesMStep, HandleInit2Step,
     HandleRequestMediaStep, HandleClientReadyStep, DeletingPeerStep DEF ServerReceives
<1>4. CASE RemovePlayer
  BY <1>4, RemovePlayerStep
<1>5. CASE UNCHANGED vars
  <2>1. UNCHANGED <<client, server, peer, inits, toServer, toClient, players, accounts>>
    BY <1>5 DEF vars
  <2>2. TypeOK'
    BY <2>1 DEF IInv, TypeOK
  <2>3. \A d \in Conn : Apart(d) /\ Local(d)
    BY <2>1, LocalHolds DEF Apart
  <2>4. \A d \in Conn : Local(d)' /\ KeepsItsPlace(d)
    BY <2>3, ApartKeeps
  <2>5. PlacesInv' /\ JoinedWithinLimit'
    BY <2>1, <2>2, <2>4, PlacesKept
  <2> QED BY <2>2, <2>4, <2>5 DEF IInv, HelloInv, GoneInv, TalkInv, Local
<1> QED BY <1>1, <1>2, <1>3, <1>4, <1>5 DEF Next

LEMMA Invariant == Spec => []IInv
BY InitInvariant, NextInvariant, PTL DEF Spec

\* The variables keep their types: no handler leaves a client, a packet or a player behind
\* that is not one.
THEOREM TypeCorrect == Spec => []TypeOK
<1>1. IInv => TypeOK
  BY DEF IInv
<1> QED BY <1>1, Invariant, PTL

\* Whatever the number of clients that race the join process, those in the game that may
\* not bypass the limit are no more than max_users.
THEOREM LimitKept == Spec => []JoinedWithinLimit
<1>1. IInv => JoinedWithinLimit
  BY DEF IInv
<1> QED BY <1>1, Invariant, PTL

\* Every client in the game has one player in m_players, and every player that has a peer
\* has its client: joins, kicks, time-outs and removals keep the tables together.
THEOREM PlayersKept == Spec => []PlayersFollowClients
<1>1. IInv => PlayersFollowClients
  <2> SUFFICES ASSUME IInv PROVE PlayersFollowClients
    OBVIOUS
  <2>1. ASSUME NEW c \in Joined
        PROVE  Cardinality({k \in DOMAIN players : players[k].conn = c}) = 1
    <3>1. c # NoConn
      BY SessionAssumption DEF Joined
    <3>2. PICK k \in DOMAIN players : players[k].conn = c
      BY DEF IInv, PlacesInv
    <3>3. {j \in DOMAIN players : players[j].conn = c} = {k}
      BY <3>1, <3>2 DEF IInv, PlacesInv
    <3> QED BY <3>3, FS_Singleton
  <2> QED BY <2>1 DEF IInv, PlacesInv, InGame, PlayersFollowClients
<1> QED BY <1>1, Invariant, PTL

\* If users wait for the answer before they try again, every authentication that has begun
\* ends on both sides: when nothing is under way, neither side thinks that one is going on.
THEOREM AuthEnds == ASSUME Patient PROVE Spec => []AuthEndsOnBothSides
<1>1. IInv => AuthEndsOnBothSides
  <2> SUFFICES ASSUME IInv, NEW c \in Conn,
                      server[c].state = "active", client[c].pc = "ready",
                      toServer[c] = <<>>, toClient[c] = <<>>
               PROVE  server[c].mech = "none" /\ client[c].mech = "none" /\ ~client[c].changing
    BY DEF AuthEndsOnBothSides
  <2>1. peer[c] = "up"
    BY LocalHolds DEF Local, Gone
  <2>2. InTheGame(c)
    BY <2>1, LocalHolds DEF Local, Talks, Talk
  <2>3. Len(toServer[c]) = 0 /\ Len(toClient[c]) = 0
    BY EmptySeq
  <2> QED BY <2>2, <2>3 DEF InTheGame, SrpExchange, Asks, Told
<1> QED BY <1>1, Invariant, PTL
=============================================================================
