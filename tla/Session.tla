------------------------------- MODULE Session -------------------------------
(****************************************************************************)
(* How a client joins a server, is authenticated, changes its password and  *)
(* leaves: the client's side in client.cpp and clientpackethandler.cpp, the *)
(* server's in serverpackethandler.cpp, clientiface.cpp and                 *)
(* serverenvironment.cpp.                                                   *)
(*                                                                          *)
(* A connection is one run of the client and its peer on the server.        *)
(* Reliable packets reach the other side in order (see MtpChannel), INIT is *)
(* unreliable and is sent again until the server answers.  The server       *)
(* handles one packet or event at a time, under the environment's lock.     *)
(*                                                                          *)
(* "srp" stands for the two mechanisms that check a password, "first" for   *)
(* the one that registers a name.  What an SRP exchange proves is modelled  *)
(* by which attempt the messages belong to and whether the password typed   *)
(* is the right one.  default_password is empty, as by default.             *)
(****************************************************************************)
EXTENDS Integers, FiniteSetsExt, SequencesExt

CONSTANTS
    Conn,           \* connections, each used once
    NoConn,         \* PEER_ID_INEXISTENT
    Name,           \* player names
    Casts,          \* who may play under which name: a set of functions from Conn to Name
    Registered,     \* the names with a password at the start
    MayBypass,      \* the names can_bypass_userlimit or "name" lets in
    MaxUsers,       \* the setting max_users
    MaxAttempts,    \* bound: per connection, its authentications, the login included
    Patient         \* whether users wait for the answer before they try again

ASSUME SessionAssumption ==
    /\ NoConn \notin Conn /\ IsFiniteSet(Conn)
    /\ Casts \subseteq [Conn -> Name]
    /\ Registered \subseteq Name /\ MayBypass \subseteq Name
    /\ MaxUsers \in Nat /\ MaxAttempts \in [Conn -> Nat \ {0}]
    /\ Patient \in BOOLEAN

VARIABLES
    client,         \* per connection: Client::m_state, its authentication and its user
    server,         \* per connection: the RemoteClient
    peer,           \* per connection: the server's MTP peer
    inits,          \* the connections with an INIT under way
    toServer,       \* per connection: reliable packets and events for the server
    toClient,       \* per connection: packets and events for the client
    players,        \* ServerEnvironment::m_players
    accounts        \* the names with an entry in the auth database

vars == <<client, server, peer, inits, toServer, toClient, players, accounts>>
linkVars == <<peer, inits>>

Attempt == Nat
Mech == {"none", "srp", "first"}

\* mech, attempt: m_chosen_auth_mech and m_auth_data.  right: the password typed is the
\* right one.  changing: the user waits for a password change.
Client == [pc : {"idle", "created", "init", "loading", "loaded", "ready", "out"},
           name : Name, mech : Mech, attempt : Attempt, right : BOOLEAN, changing : BOOLEAN]

\* state: m_state, "none": there is no RemoteClient.  CS_InitDone and CS_Disconnecting
\* last no longer than the handler that sets them.
RemoteClient ==
    [state : {"none", "created", "helloSent", "awaitingInit2", "definitionsSent",
              "active", "sudoMode", "denied"},
     name : Name, mech : Mech, attempt : Attempt, allowed : Mech]

Player == [name : Name, conn : Conn \union {NoConn}]

\* The packets to the server, those to the client, and on either side the end of the peer.
PacketType ==
    {"firstSrp", "srpA", "srpM", "init2", "requestMedia", "clientReady"} \union
    {"hello", "srpSB", "authAccept", "content", "media", "acceptSudoMode", "denySudoMode",
     "changed", "accessDenied"} \union {"deletingPeer"}
Packet == [type : PacketType, mech : Mech, attempt : Attempt, right : BOOLEAN]
Plain(type) == [type |-> type, mech |-> "none", attempt |-> 0, right |-> FALSE]

Fresh(name) ==
    [state |-> "created", name |-> name, mech |-> "none", attempt |-> 0, allowed |-> "none"]
Nobody == [Fresh(CHOOSE n \in Name : TRUE) EXCEPT !.state = "none"]

\* A client that is not running.
NotRunning(pc, name) == [pc |-> pc, name |-> name, mech |-> "none", attempt |-> 0,
                         right |-> FALSE, changing |-> FALSE]

Init ==
    /\ \E cast \in Casts : client = [c \in Conn |-> NotRunning("idle", cast[c])]
    /\ server = [c \in Conn |-> Nobody]
    /\ peer = [c \in Conn |-> "none"]
    /\ inits = {}
    /\ toServer = [c \in Conn |-> <<>>]
    /\ toClient = [c \in Conn |-> <<>>]
    /\ players = <<>>
    /\ accounts = Registered

\* The states from CS_Active on, in which a client counts for the user limit.
Joined == {c \in Conn : server[c].state \in {"active", "sudoMode"}}

\* The queue of c with one more packet, unless the peer is gone.
Put(queues, c, packet) ==
    IF peer[c] = "up" THEN [queues EXCEPT ![c] = Append(@, packet)] ELSE queues

(****************************************************************************)
(* The client                                                               *)
(****************************************************************************)

\* Client::connect; the server's peerAdded makes a RemoteClient before anything else.
Connect(c) ==
    /\ client[c].pc = "idle"
    /\ client' = [client EXCEPT ![c].pc = "created"]
    /\ server' = [server EXCEPT ![c] = Fresh(client[c].name)]
    /\ peer' = [peer EXCEPT ![c] = "up"]
    /\ UNCHANGED <<inits, toServer, toClient, players, accounts>>

\* Client::step while in LC_Created, every 1.5 seconds.
SendInit(c) ==
    /\ client[c].pc = "created" /\ peer[c] = "up"
    /\ c \notin inits
    /\ inits' = inits \union {c}
    /\ UNCHANGED <<client, server, peer, toServer, toClient, players, accounts>>

\* The packet is of this type and comes next.
Comes(c, type) ==
    /\ toClient[c] # <<>> /\ Head(toClient[c]).type = type
    /\ toClient' = [toClient EXCEPT ![c] = Tail(@)]
    /\ UNCHANGED <<server, linkVars, players, accounts>>

\* startAuth with an SRP mechanism.
StartSrp(c, right) ==
    /\ client' = [client EXCEPT ![c].mech = "srp", ![c].attempt = @ + 1, ![c].right = right,
                                ![c].changing = client[c].pc = "ready"]
    /\ toServer' = Put(toServer, c, [type |-> "srpA", mech |-> "srp",
                                     attempt |-> client[c].attempt + 1, right |-> FALSE])

\* handleCommand_Hello: register the name, or log in.
HandleHello(c) ==
    /\ Comes(c, "hello")
    /\ \/ /\ Head(toClient[c]).mech = "first"
          /\ client' = [client EXCEPT ![c].mech = "first", ![c].attempt = @ + 1]
          /\ toServer' = Put(toServer, c, Plain("firstSrp"))
       \/ /\ Head(toClient[c]).mech = "srp"
          /\ \E right \in BOOLEAN : StartSrp(c, right)

\* handleCommand_SrpBytesSandB: the proof fits the server's challenge only if the
\* exchange was not started anew since.
HandleSrpBytesSandB(c) ==
    /\ Comes(c, "srpSB")
    /\ LET k == client[c].attempt
       IN  IF client[c].mech = "srp"
           THEN toServer' = Put(toServer, c,
                    [type |-> "srpM", mech |-> "srp", attempt |-> k,
                     right |-> client[c].right /\ Head(toClient[c]).attempt = k])
           ELSE UNCHANGED toServer
    /\ UNCHANGED client

\* handleCommand_AuthAccept
HandleAuthAccept(c) ==
    /\ Comes(c, "authAccept")
    /\ client' = [client EXCEPT ![c].pc = "init", ![c].mech = "none", ![c].right = FALSE]
    /\ toServer' = Put(toServer, c, Plain("init2"))

\* handleCommand_ItemDef, NodeDef and AnnounceMedia: what is not cached is asked for.
HandleContent(c) ==
    /\ Comes(c, "content")
    /\ \/ /\ client' = [client EXCEPT ![c].pc = "loaded"]
          /\ UNCHANGED toServer
       \/ /\ client' = [client EXCEPT ![c].pc = "loading"]
          /\ toServer' = Put(toServer, c, Plain("requestMedia"))

\* handleCommand_Media
HandleMedia(c) ==
    /\ Comes(c, "media")
    /\ client' = [client EXCEPT ![c].pc = "loaded"]
    /\ UNCHANGED toServer

\* afterContentReceived: the client is ready and says so.
AfterContentReceived(c) ==
    /\ client[c].pc = "loaded"
    /\ client' = [client EXCEPT ![c].pc = "ready"]
    /\ toServer' = Put(toServer, c, Plain("clientReady"))
    /\ UNCHANGED <<server, linkVars, toClient, players, accounts>>

\* sendChangePassword, with the old password typed rightly or wrongly.
SendChangePassword(c) ==
    /\ client[c].pc = "ready"
    /\ client[c].attempt < MaxAttempts[c]
    /\ Patient => ~client[c].changing
    /\ \E right \in BOOLEAN : StartSrp(c, right)
    /\ UNCHANGED <<server, linkVars, toClient, players, accounts>>

\* handleCommand_AcceptSudoMode: the new password is sent.
HandleAcceptSudoMode(c) ==
    /\ Comes(c, "acceptSudoMode")
    /\ client' = [client EXCEPT ![c].mech = "none", ![c].right = FALSE]
    /\ toServer' = Put(toServer, c, Plain("firstSrp"))

\* handleCommand_DenySudoMode, and the chat message about a change that was made.
HandleChangeAnswer(c) ==
    /\ \/ /\ Comes(c, "denySudoMode")
          /\ client' = [client EXCEPT ![c].mech = "none", ![c].right = FALSE,
                                      ![c].changing = FALSE]
       \/ /\ Comes(c, "changed")
          /\ client' = [client EXCEPT ![c].changing = FALSE]
    /\ UNCHANGED toServer

\* The client ends: nothing it is sent is read any more.
Quit(c) ==
    /\ client' = [client EXCEPT ![c] = NotRunning("out", client[c].name)]
    /\ toClient' = [toClient EXCEPT ![c] = <<>>]
    /\ UNCHANGED <<server, linkVars, toServer, players, accounts>>

\* handleCommand_AccessDenied and deletingPeer, after either of which Game leaves.
HandleAccessDenied(c) ==
    /\ toClient[c] # <<>>
    /\ Head(toClient[c]).type \in {"accessDenied", "deletingPeer"}
    /\ Quit(c)

\* The user leaves.
Leave(c) == client[c].pc \notin {"idle", "out"} /\ Quit(c)

ClientReceives(c) ==
    \/ HandleHello(c)
    \/ HandleSrpBytesSandB(c)
    \/ HandleAuthAccept(c)
    \/ HandleContent(c)
    \/ HandleMedia(c)
    \/ HandleAcceptSudoMode(c)
    \/ HandleChangeAnswer(c)
    \/ HandleAccessDenied(c)

(****************************************************************************)
(* The server                                                               *)
(****************************************************************************)

\* Two clients that race the join process have both passed handleCommand_Init.
CheckUserLimitEarlyOnly(c) == server[c].state = "created" /\ Cardinality(Joined) >= MaxUsers

\* checkUserLimit: the server is full and c may not join.
CheckUserLimit(c) == Cardinality(Joined) >= MaxUsers /\ server[c].name \notin MayBypass

\* getPlayer by name: the first entry decides, whether or not it is one that left.
FirstOf(name) ==
    LET ks == {k \in DOMAIN players : players[k].name = name}
    IN  IF ks = {} THEN NoConn ELSE players[Min(ks)].conn

\* Send, to a client that still reads.
Answer(c, packet) ==
    toClient' = IF client[c].pc = "out" THEN toClient ELSE Put(toClient, c, packet)

\* DenyAccess: the client is told, and its peer will be disconnected.
DenyAccess(c) ==
    /\ Answer(c, Plain("accessDenied"))
    /\ server' = [server EXCEPT ![c].state = "denied",
                                ![c].mech = IF server[c].state = "helloSent" THEN "none" ELSE @,
                                ![c].attempt = IF server[c].state = "helloSent" THEN 0 ELSE @]

\* handleCommand_Init.  A name or a version that is not accepted, a ban and a mod's
\* on_prejoinplayer are one refusal.
HandleInit(c) ==
    /\ c \in inits
    /\ inits' = inits \ {c}
    /\ LET name == server[c].name
           mech == IF name \in accounts THEN "srp" ELSE "first"
       IN  IF server[c].state # "created"
           THEN UNCHANGED <<server, toClient>>
           ELSE \/ DenyAccess(c)
                \/ /\ FirstOf(name) = NoConn
                   /\ ~CheckUserLimit(c)
                   /\ Answer(c, [Plain("hello") EXCEPT !.mech = mech])
                   /\ server' = [server EXCEPT ![c].state = "helloSent", ![c].allowed = mech]
    /\ UNCHANGED <<client, peer, toServer, players, accounts>>

\* The packet is of this type and comes next.
Arrives(c, type) ==
    /\ toServer[c] # <<>> /\ Head(toServer[c]).type = type
    /\ toServer' = [toServer EXCEPT ![c] = Tail(@)]
    /\ UNCHANGED <<client, linkVars>>

\* acceptAuth: into the game, or into sudo mode.
AcceptAuth(c, newAllowed) ==
    IF server[c].state = "active"
    THEN /\ Answer(c, Plain("acceptSudoMode"))
         /\ server' = [server EXCEPT ![c].state = "sudoMode", ![c].mech = "none",
                                     ![c].attempt = 0]
    ELSE /\ Answer(c, Plain("authAccept"))
         /\ server' = [server EXCEPT ![c].state = "awaitingInit2", ![c].mech = "none",
                                     ![c].attempt = 0, ![c].allowed = newAllowed]

\* handleCommand_FirstSrp: a new name is registered, unless another client was faster
\* or the password is refused; in sudo mode the password is changed, or not, and either
\* is said in the chat.
HandleFirstSrp(c) ==
    /\ Arrives(c, "firstSrp")
    /\ CASE server[c].state = "helloSent" ->
                \/ DenyAccess(c) /\ UNCHANGED accounts
                \/ /\ server[c].allowed = "first"
                   /\ server[c].name \notin accounts
                   /\ accounts' = accounts \union {server[c].name}
                   /\ AcceptAuth(c, "srp")
         [] server[c].state = "sudoMode" ->
                /\ server' = [server EXCEPT ![c].state = "active"]
                /\ Answer(c, Plain("changed"))
                /\ UNCHANGED accounts
         [] OTHER -> UNCHANGED <<server, toClient, accounts>>
    /\ UNCHANGED players

\* DenySudoAccess, or DenyAccess if the client is not in the game yet; an exchange that
\* has failed is over (resetChosenMech).
DenyAuth(c, failed) ==
    IF server[c].state = "active"
    THEN /\ Answer(c, Plain("denySudoMode"))
         /\ server' = IF failed THEN [server EXCEPT ![c].mech = "none", ![c].attempt = 0]
                      ELSE server
    ELSE DenyAccess(c)

\* handleCommand_SrpBytesA
HandleSrpBytesA(c) ==
    /\ Arrives(c, "srpA")
    /\ LET k == Head(toServer[c]).attempt
       IN  IF server[c].state \notin {"helloSent", "active"}
           THEN UNCHANGED <<server, toClient>>
           ELSE IF server[c].mech # "none" \/ server[c].allowed # "srp"
           THEN DenyAuth(c, FALSE)
           ELSE /\ server' = [server EXCEPT ![c].mech = "srp", ![c].attempt = k]
                /\ Answer(c, [Plain("srpSB") EXCEPT !.attempt = k])
    /\ UNCHANGED <<players, accounts>>

\* A wrong password does not end the exchange.
HandleSrpBytesMKeepingMech(c) ==
    /\ Arrives(c, "srpM")
    /\ LET m == Head(toServer[c])
       IN  IF server[c].state \notin {"helloSent", "active"}
           THEN UNCHANGED <<server, toClient>>
           ELSE IF server[c].mech # "srp"
           THEN DenyAuth(c, FALSE)
           ELSE IF ~m.right \/ m.attempt # server[c].attempt
           THEN DenyAuth(c, FALSE)
           ELSE AcceptAuth(c, server[c].allowed)
    /\ UNCHANGED <<players, accounts>>

\* handleCommand_SrpBytesM
HandleSrpBytesM(c) ==
    /\ Arrives(c, "srpM")
    /\ LET m == Head(toServer[c])
       IN  IF server[c].state \notin {"helloSent", "active"}
           THEN UNCHANGED <<server, toClient>>
           ELSE IF server[c].mech # "srp"
           THEN DenyAuth(c, FALSE)
           ELSE IF ~m.right \/ m.attempt # server[c].attempt
           THEN DenyAuth(c, TRUE)
           ELSE AcceptAuth(c, server[c].allowed)
    /\ UNCHANGED <<players, accounts>>

\* The definitions are sent, but CSE_SetDefinitionsSent is not.
HandleInit2HalfWay(c) ==
    /\ Arrives(c, "init2")
    /\ IF server[c].state = "awaitingInit2"
       THEN /\ server' = [server EXCEPT ![c].state = "initDone"]
            /\ Answer(c, Plain("content"))
       ELSE UNCHANGED <<server, toClient>>
    /\ UNCHANGED <<players, accounts>>

\* handleCommand_Init2
HandleInit2(c) ==
    /\ Arrives(c, "init2")
    /\ IF server[c].state = "awaitingInit2"
       THEN /\ server' = [server EXCEPT ![c].state = "definitionsSent"]
            /\ Answer(c, Plain("content"))
       ELSE UNCHANGED <<server, toClient>>
    /\ UNCHANGED <<players, accounts>>

\* The command is taken for one of the game.
HandleRequestMediaInGame(c) ==
    /\ Arrives(c, "requestMedia")
    /\ IF c \in Joined THEN Answer(c, Plain("media")) ELSE UNCHANGED toClient
    /\ UNCHANGED <<server, players, accounts>>

\* handleCommand_RequestMedia, a command of the startup: ProcessData lets it in from
\* CS_InitDone on.
HandleRequestMedia(c) ==
    /\ Arrives(c, "requestMedia")
    /\ IF server[c].state = "definitionsSent" \/ c \in Joined
       THEN Answer(c, Plain("media"))
       ELSE UNCHANGED toClient
    /\ UNCHANGED <<server, players, accounts>>

\* handleCommand_ClientReady with StageTwoClientInit and emergePlayer: the limit is
\* checked again, and the name.
HandleClientReady(c) ==
    /\ Arrives(c, "clientReady")
    /\ IF server[c].state # "definitionsSent"
       THEN UNCHANGED <<server, toClient, players>>
       ELSE IF CheckUserLimit(c) \/ FirstOf(server[c].name) # NoConn
       THEN DenyAccess(c) /\ UNCHANGED players
       ELSE /\ players' = Append(players, [name |-> server[c].name, conn |-> c])
            /\ server' = [server EXCEPT ![c].state = "active"]
            /\ UNCHANGED toClient
    /\ UNCHANGED accounts

\* The player stays as it is when its client goes.
DeletingPeerOnly(c) ==
    /\ Arrives(c, "deletingPeer")
    /\ server' = [server EXCEPT ![c] = Nobody]
    /\ UNCHANGED <<toClient, players, accounts>>

\* deletingPeer and DeleteClient: the player loses its peer (PlayerSAO::disconnected)
\* and the RemoteClient goes.
DeletingPeer(c) ==
    /\ Arrives(c, "deletingPeer")
    /\ server' = [server EXCEPT ![c] = Nobody]
    /\ players' = [k \in DOMAIN players |->
                      IF players[k].conn = c THEN [players[k] EXCEPT !.conn = NoConn]
                      ELSE players[k]]
    /\ UNCHANGED <<toClient, accounts>>

ServerReceives(c) ==
    \/ HandleFirstSrp(c)
    \/ HandleSrpBytesA(c)
    \/ HandleSrpBytesM(c)
    \/ HandleInit2(c)
    \/ HandleRequestMedia(c)
    \/ HandleClientReady(c)
    \/ DeletingPeer(c)

\* removeRemovedObjects every half second, once no client knows the object: the player
\* is saved and taken out of m_players (unlinkPlayerSessionAndSave).
RemovePlayer ==
    /\ \E k \in DOMAIN players :
          /\ players[k].conn = NoConn
          /\ players' = RemoveAt(players, k)
    /\ UNCHANGED <<client, server, linkVars, toServer, toClient, accounts>>

\* A mod or an administrator kicks a player.
Kick(c) ==
    /\ c \in Joined
    /\ DenyAccess(c)
    /\ UNCHANGED <<client, linkVars, toServer, players, accounts>>

(****************************************************************************)
(* The network                                                              *)
(****************************************************************************)
LoseInit(c) ==
    /\ c \in inits
    /\ inits' = inits \ {c}
    /\ UNCHANGED <<client, server, peer, toServer, toClient, players, accounts>>

\* The peer is gone: the server disconnects it after DenyAccess or, in
\* ClientInterface::step, because it does not get on with joining; or the client left; or
\* one side did not hear of the other for too long.  Both learn of it after what is
\* queued already.
PeerGone(c) ==
    /\ peer[c] = "up"
    /\ peer' = [peer EXCEPT ![c] = "down"]
    /\ inits' = inits \ {c}
    /\ toServer' = [toServer EXCEPT ![c] = Append(@, Plain("deletingPeer"))]
    /\ Answer(c, Plain("deletingPeer"))
    /\ UNCHANGED <<client, server, players, accounts>>

Next ==
    \/ \E c \in Conn :
          \/ Connect(c) \/ SendInit(c) \/ ClientReceives(c) \/ AfterContentReceived(c)
          \/ SendChangePassword(c) \/ Leave(c)
          \/ HandleInit(c) \/ ServerReceives(c) \/ Kick(c)
          \/ LoseInit(c) \/ PeerGone(c)
    \/ RemovePlayer

Spec == Init /\ [][Next]_vars

\* Both sides handle what arrives, INIT is sent again and not lost for ever, and a peer
\* that is to go, or whose client is gone, goes.
FairSpec ==
    /\ Spec
    /\ \A c \in Conn :
          /\ WF_vars(SendInit(c)) /\ SF_vars(HandleInit(c))
          /\ WF_vars(ClientReceives(c)) /\ WF_vars(AfterContentReceived(c))
          /\ WF_vars(ServerReceives(c))
          /\ WF_vars(PeerGone(c) /\ (server[c].state = "denied" \/ client[c].pc = "out"))
    /\ WF_vars(RemovePlayer)

-----------------------------------------------------------------------------

\* Every variable keeps to the values the code's types allow.
TypeOK ==
    /\ client \in [Conn -> Client]
    /\ server \in [Conn -> RemoteClient]
    /\ peer \in [Conn -> {"none", "up", "down"}]
    /\ inits \subseteq Conn
    /\ toServer \in [Conn -> Seq(Packet)] /\ toClient \in [Conn -> Seq(Packet)]
    /\ players \in Seq(Player)
    /\ accounts \subseteq Name

\* The clients in the game that may not bypass the limit are no more than max_users,
\* although "two could race the join process".
JoinedWithinLimit ==
    Cardinality({c \in Joined : server[c].name \notin MayBypass}) =< MaxUsers

\* A client in the game has one player, and a player that has a peer has its client:
\* joining, kicks, time-outs and removals keep the two tables together.
PlayersFollowClients ==
    /\ \A c \in Joined : Cardinality({k \in DOMAIN players : players[k].conn = c}) = 1
    /\ \A k \in DOMAIN players :
          players[k].conn # NoConn => server[players[k].conn].state \in {"active", "sudoMode", "denied"}

\* When nothing is under way between the two sides of a client in the game, both think
\* that no authentication is going on: a later change of the password is not refused.
AuthEndsOnBothSides ==
    \A c \in Conn :
        /\ server[c].state = "active" /\ client[c].pc = "ready"
        /\ toServer[c] = <<>> /\ toClient[c] = <<>>
        => server[c].mech = "none" /\ client[c].mech = "none" /\ ~client[c].changing

\* Whoever connects gets into the game or learns that it does not, and a change of the
\* password is answered: when the users have done what they want, nobody waits.
Waiting(c) == client[c].pc \notin {"idle", "ready", "out"} \/ client[c].changing
EveryRequestIsAnswered == <>[](\A c \in Conn : ~Waiting(c))

\* addPlayer: "Name has to be unique." It makes an exception for players without a peer.
OnePlayerPerName ==
    \A j, k \in DOMAIN players :
        /\ players[j].conn # NoConn /\ players[k].conn # NoConn
        /\ players[j].name = players[k].name
        => j = k
=============================================================================
