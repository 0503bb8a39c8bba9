------------------------------- MODULE MtpPeer -------------------------------
(****************************************************************************)
(* The life of the Peer objects of a serving MTP Connection.                *)
(*                                                                          *)
(* The receive thread creates a peer when a stranger talks to it, the       *)
(* receive thread (DISCO) and the send thread (time-out, DisconnectPeer)    *)
(* delete peers, and both work on peers through a PeerHelper, a counted     *)
(* reference taken with m_peers_mutex held and given back without it.       *)
(* The user's thread learns of peers by events and keeps the map of clients *)
(* (ClientInterface) after them.                                            *)
(*                                                                          *)
(* A step is what one thread does under one lock.  A Peer object is named   *)
(* by its place in heap, so that a late use of it can be told.              *)
(****************************************************************************)
EXTENDS Integers, Sequences

CONSTANTS
    Id,           \* the peer ids createPeer draws from (2 .. MAX_UDP_PEERS - 1)
    NoId,         \* PEER_ID_INEXISTENT (0)
    Address,      \* the addresses datagrams come from
    NoAddress,    \* no address
    IdsReused,    \* whether createPeer may draw an id a second time
    MaxPeers,     \* bound: peers ever created
    MaxEvents,    \* bound: events waiting for the user, when data is received
    MaxCommands   \* bound: DisconnectPeer commands waiting for the send thread

ASSUME PeerAssumption ==
    /\ NoId \notin Id /\ NoAddress \notin Address
    /\ IdsReused \in BOOLEAN
    /\ MaxPeers \in Nat /\ MaxEvents \in Nat /\ MaxCommands \in Nat

VARIABLES
    heap,      \* the Peer objects, in the order of their creation
    peers,     \* Connection::m_peers: peer id -> place in heap (and m_peer_ids)
    events,    \* Connection::m_event_queue
    commands,  \* Connection::m_command_queue: the ids to disconnect
    held,      \* per thread: the peers its PeerHelpers refer to, innermost first
    doomed,    \* per thread: the peer deletePeer works on, and how far it got
    receiver,  \* the receive thread: program counter and current datagram
    sender,    \* the send thread: program counter and what is left of its loop
    clients,   \* ClientInterface::m_clients: peer id -> the peer it is about
    running    \* whether ~Connection has not begun, is joining, or is done

vars == <<heap, peers, events, commands, held, doomed, receiver, sender, clients, running>>

Thread == {"receive", "send"}
Object == DOMAIN heap

Peer == [id : Id, address : Address, halfOpen : BOOLEAN, usage : Nat,
         pendingDeletion : BOOLEAN, pendingDisconnect : BOOLEAN, frees : Nat]
Event == [type : {"added", "removed", "data"}, id : Id, peer : 1..MaxPeers]
AtSocket == [pc |-> "socket", id |-> NoId, known |-> FALSE, address |-> NoAddress]
NotDeleting == [peer |-> 0, step |-> "none"]

Init ==
    /\ heap = <<>>
    /\ peers = <<>>
    /\ events = <<>>
    /\ commands = <<>>
    /\ held = [t \in Thread |-> <<>>]
    /\ doomed = [t \in Thread |-> NotDeleting]
    /\ receiver = AtSocket
    /\ sender = [pc |-> "idle", todo |-> {}, marked |-> {}]
    /\ clients = <<>>
    /\ running = "yes"

(****************************************************************************)
(* PeerHelper and Peer's use count                                          *)
(****************************************************************************)

\* Drop deletes at once, whoever still holds a PeerHelper.
DropAtOnce(o) == [heap EXCEPT ![o].pendingDeletion = TRUE, ![o].frees = @ + 1]

\* Peer::Drop: delete now, or leave it to the last PeerHelper.
Drop(o) ==
    [heap EXCEPT ![o].pendingDeletion = TRUE,
                 ![o].frees = IF heap[o].usage = 0 THEN @ + 1 ELSE @]

\* The last PeerHelper of a dropped peer does not delete it.
DecUseCountOnly(o) == [heap EXCEPT ![o].usage = @ - 1]

\* Peer::DecUseCount, by ~PeerHelper.
DecUseCount(o) ==
    [heap EXCEPT ![o].usage = @ - 1,
                 ![o].frees = IF heap[o].pendingDeletion /\ heap[o].usage = 1 THEN @ + 1 ELSE @]

\* A PeerHelper that does not count.
HoldUncounted(t, id) ==
    /\ id \in DOMAIN peers
    /\ held' = [held EXCEPT ![t] = <<peers[id]>> \o @]
    /\ UNCHANGED heap

\* Connection::getPeerNoEx finds the peer: a PeerHelper counts it (IncUseCount).
Hold(t, id) ==
    /\ id \in DOMAIN peers
    /\ heap' = [heap EXCEPT ![peers[id]].usage = @ + 1]
    /\ held' = [held EXCEPT ![t] = <<peers[id]>> \o @]

\* The innermost PeerHelper of the thread goes out of scope.
Release(t) ==
    /\ held[t] # <<>>
    /\ heap' = DecUseCount(Head(held[t]))
    /\ held' = [held EXCEPT ![t] = Tail(@)]

(****************************************************************************)
(* Connection::deletePeer: erase under the lock, then the event, then Drop. *)
(****************************************************************************)

Erase(t, id) ==
    /\ id \in DOMAIN peers
    /\ doomed' = [doomed EXCEPT ![t] = [peer |-> peers[id], step |-> "event"]]
    /\ peers' = [i \in DOMAIN peers \ {id} |-> peers[i]]

\* The user is not told of a peer that never opened fully.
PutRemovedUnlessHalfOpen(t) ==
    /\ doomed[t].step = "event"
    /\ doomed' = [doomed EXCEPT ![t].step = "drop"]
    /\ LET o == doomed[t].peer
       IN  events' = IF heap[o].halfOpen THEN events
                     ELSE Append(events, [type |-> "removed", id |-> heap[o].id, peer |-> o])
    /\ UNCHANGED <<heap, peers, commands, held, receiver, sender, clients, running>>

PutRemoved(t) ==
    /\ doomed[t].step = "event"
    /\ doomed' = [doomed EXCEPT ![t].step = "drop"]
    /\ LET o == doomed[t].peer
       IN  events' = Append(events, [type |-> "removed", id |-> heap[o].id, peer |-> o])
    /\ UNCHANGED <<heap, peers, commands, held, receiver, sender, clients, running>>

DropDoomed(t) ==
    /\ doomed[t].step = "drop"
    /\ heap' = Drop(doomed[t].peer)
    /\ doomed' = [doomed EXCEPT ![t] = NotDeleting]
    /\ UNCHANGED <<peers, events, commands, held, receiver, sender, clients, running>>

\* deletePeer has returned, or was not called.
NotInDelete(t) == doomed[t].step = "none"

(****************************************************************************)
(* The receive thread                                                       *)
(****************************************************************************)
ReceiverAt(pc) == receiver.pc = pc /\ NotInDelete("receive")
ReceiverGoes(pc) ==
    receiver' = CASE pc = "socket" -> AtSocket
                  [] pc = "create" -> [receiver EXCEPT !.pc = pc]
                  [] pc = "check" -> [receiver EXCEPT !.pc = pc]
                  [] OTHER -> [AtSocket EXCEPT !.pc = pc, !.id = receiver.id]

\* ConnectionReceiveThread::receive: a datagram, with or without a peer id.
Receive(a, id) ==
    /\ ReceiverAt("socket")
    /\ running = "yes"
    /\ receiver' = [pc |-> IF id = NoId THEN "lookup" ELSE "find", id |-> id,
                    known |-> id # NoId, address |-> a]
    /\ UNCHANGED <<heap, peers, events, commands, held, doomed, sender, clients, running>>

\* A peer that is half-open is not found.
LookupFullyOpenPeer ==
    /\ ReceiverAt("lookup")
    /\ LET found == {i \in DOMAIN peers : /\ ~heap[peers[i]].halfOpen
                                          /\ heap[peers[i]].address = receiver.address}
       IN  \/ \E i \in found : receiver' = [receiver EXCEPT !.pc = "find", !.id = i]
           \/ found = {} /\ ReceiverGoes("create")
    /\ UNCHANGED <<heap, peers, events, commands, held, doomed, sender, clients, running>>

\* Connection::lookupPeer, for a sender that does not know its id yet.
LookupPeer ==
    /\ ReceiverAt("lookup")
    /\ LET found == {i \in DOMAIN peers : /\ ~heap[peers[i]].pendingDeletion
                                          /\ heap[peers[i]].address = receiver.address}
       IN  \/ \E i \in found : receiver' = [receiver EXCEPT !.pc = "find", !.id = i]
           \/ found = {} /\ ReceiverGoes("create")
    /\ UNCHANGED <<heap, peers, events, commands, held, doomed, sender, clients, running>>

Drawable(id) ==
    /\ id \notin DOMAIN peers
    /\ IdsReused \/ \A o \in Object : heap[o].id # id

\* Connection::createPeer: the peer, its place in the container and its event
\* under one lock.
CreatePeer(id) ==
    /\ ReceiverAt("create")
    /\ Len(heap) < MaxPeers
    /\ Drawable(id)
    /\ heap' = Append(heap, [id |-> id, address |-> receiver.address, halfOpen |-> TRUE,
                             usage |-> 0, pendingDeletion |-> FALSE,
                             pendingDisconnect |-> FALSE, frees |-> 0])
    /\ peers' = [i \in DOMAIN peers \union {id} |-> IF i = id THEN Len(heap) + 1 ELSE peers[i]]
    /\ events' = Append(events, [type |-> "added", id |-> id, peer |-> Len(heap) + 1])
    /\ receiver' = [receiver EXCEPT !.pc = "find", !.id = id]
    /\ UNCHANGED <<commands, held, doomed, sender, clients, running>>

\* Too many strangers within a second, or no free id: the datagram is dropped.
RefuseNewPeer ==
    /\ ReceiverAt("create")
    /\ ReceiverGoes("socket")
    /\ UNCHANGED <<heap, peers, events, commands, held, doomed, sender, clients, running>>

FindPeer ==
    /\ ReceiverAt("find")
    /\ \/ Hold("receive", receiver.id) /\ ReceiverGoes("check")
       \/ /\ receiver.id \notin DOMAIN peers
          /\ ReceiverGoes("socket")
          /\ UNCHANGED <<heap, held>>
    /\ UNCHANGED <<peers, events, commands, doomed, sender, clients, running>>

\* The address must match; one who knows the id opens the connection fully, after
\* which nobody is heard who does not.
CheckSender ==
    /\ ReceiverAt("check")
    /\ LET o == Head(held["receive"])
           ours == heap[o].address = receiver.address
       IN  /\ heap' = IF ours /\ receiver.known THEN [heap EXCEPT ![o].halfOpen = FALSE]
                      ELSE heap
           /\ ReceiverGoes(IF ours /\ (receiver.known \/ heap[o].halfOpen)
                           THEN "process" ELSE "unwind")
    /\ UNCHANGED <<peers, events, commands, held, doomed, sender, clients, running>>

\* getFromBuffers: a buffered packet of any peer, without those checks.
Unbuffer(id) ==
    /\ ReceiverAt("socket")
    /\ running = "yes"
    /\ Hold("receive", id)
    /\ receiver' = [AtSocket EXCEPT !.pc = "process", !.id = id]
    /\ UNCHANGED <<peers, events, commands, doomed, sender, clients, running>>

\* processPacket takes a second PeerHelper, by the id.
ProcessPacket ==
    /\ ReceiverAt("process")
    /\ \/ Hold("receive", receiver.id) /\ ReceiverGoes("handle")
       \/ /\ receiver.id \notin DOMAIN peers
          /\ ReceiverGoes("unwind")
          /\ UNCHANGED <<heap, held>>
    /\ UNCHANGED <<peers, events, commands, doomed, sender, clients, running>>

\* The handler returns data for the user, or has dealt with the packet itself.
HandleData ==
    /\ ReceiverAt("handle")
    /\ Release("receive")
    /\ \/ Len(events) < MaxEvents /\ ReceiverGoes("data")
       \/ ReceiverGoes("unwind")
    /\ UNCHANGED <<peers, events, commands, doomed, sender, clients, running>>

\* CONTROLTYPE_DISCO: deletePeer, while this thread holds the peer twice.
HandleDisco ==
    /\ ReceiverAt("handle")
    /\ LET id == heap[Head(held["receive"])].id
       IN  Erase("receive", id) \/ (id \notin DOMAIN peers /\ UNCHANGED <<peers, doomed>>)
    /\ ReceiverGoes("unwind")
    /\ UNCHANGED <<heap, events, commands, held, sender, clients, running>>

PutData ==
    /\ ReceiverAt("data")
    /\ events' = Append(events, [type |-> "data", id |-> receiver.id, peer |-> Head(held["receive"])])
    /\ ReceiverGoes("unwind")
    /\ UNCHANGED <<heap, peers, commands, held, doomed, sender, clients, running>>

\* The stack of receive() unwinds to the next datagram.
Unwind ==
    /\ ReceiverAt("unwind")
    /\ \/ Release("receive") /\ UNCHANGED receiver
       \/ held["receive"] = <<>> /\ ReceiverGoes("socket") /\ UNCHANGED <<heap, held>>
    /\ UNCHANGED <<peers, events, commands, doomed, sender, clients, running>>

ReceiveThread ==
    \/ \E a \in Address, id \in Id \union {NoId} : Receive(a, id)
    \/ \E id \in Id : Unbuffer(id)
    \/ LookupPeer
    \/ \E id \in Id : CreatePeer(id)
    \/ RefuseNewPeer
    \/ FindPeer
    \/ CheckSender
    \/ ProcessPacket
    \/ HandleData
    \/ HandleDisco
    \/ PutData
    \/ Unwind
    \/ PutRemoved("receive")
    \/ DropDoomed("receive")

(****************************************************************************)
(* The send thread: runTimeouts, the command queue, sendPackets             *)
(****************************************************************************)
SenderAt(pc) == sender.pc = pc /\ NotInDelete("send")

\* Both loops go over the ids that are there at the start.
StartLoop(from, to) ==
    /\ SenderAt(from)
    /\ sender' = [pc |-> to, todo |-> DOMAIN peers, marked |-> {}]
    /\ UNCHANGED <<heap, peers, events, commands, held, doomed, receiver, clients, running>>

\* After a stop the loop goes on for as long as packets are queued.
StartIteration == running # "done" /\ StartLoop("idle", "timeouts")

\* The next id of the loop; its peer may be gone by now.
VisitPeer(id) ==
    /\ SenderAt("timeouts") \/ SenderAt("sending")
    /\ id \in sender.todo
    /\ held["send"] = <<>>
    /\ \/ Hold("send", id)
       \/ id \notin DOMAIN peers /\ UNCHANGED <<heap, held>>
    /\ sender' = [sender EXCEPT !.todo = @ \ {id}]
    /\ UNCHANGED <<peers, events, commands, doomed, receiver, clients, running>>

\* Peer::isTimedOut may say so of any peer; the loops note the id.
TimedOut ==
    /\ SenderAt("timeouts")
    /\ held["send"] # <<>>
    /\ sender' = [sender EXCEPT !.marked = @ \union {heap[Head(held["send"])].id}]
    /\ Release("send")
    /\ UNCHANGED <<peers, events, commands, doomed, receiver, clients, running>>

\* m_pending_disconnect, unless the DISCO datagram itself still waits for quota.
PendingDisconnect ==
    /\ SenderAt("sending")
    /\ held["send"] # <<>>
    /\ heap[Head(held["send"])].pendingDisconnect
    /\ sender' = [sender EXCEPT !.marked = @ \union {heap[Head(held["send"])].id}]
    /\ Release("send")
    /\ UNCHANGED <<peers, events, commands, doomed, receiver, clients, running>>

LeavePeer ==
    /\ SenderAt("timeouts") \/ SenderAt("sending")
    /\ Release("send")
    /\ UNCHANGED <<peers, events, commands, doomed, receiver, sender, clients, running>>

\* After the loop: deletePeer by id for each that was noted.
DeleteMarked(id) ==
    /\ SenderAt("timeouts") \/ SenderAt("sending")
    /\ sender.todo = {} /\ held["send"] = <<>>
    /\ id \in sender.marked
    /\ sender' = [sender EXCEPT !.marked = @ \ {id}]
    /\ Erase("send", id) \/ (id \notin DOMAIN peers /\ UNCHANGED <<peers, doomed>>)
    /\ UNCHANGED <<heap, events, commands, held, receiver, clients, running>>

LoopDone == sender.todo = {} /\ sender.marked = {} /\ held["send"] = <<>>

EndTimeouts ==
    /\ SenderAt("timeouts")
    /\ LoopDone
    /\ sender' = [sender EXCEPT !.pc = "commands"]
    /\ UNCHANGED <<heap, peers, events, commands, held, doomed, receiver, clients, running>>

\* disconnect_peer: the peer that has the id now is marked for sendPackets.
TakeCommand ==
    /\ SenderAt("commands")
    /\ held["send"] = <<>>
    /\ commands # <<>>
    /\ commands' = Tail(commands)
    /\ \/ Hold("send", Head(commands))
       \/ Head(commands) \notin DOMAIN peers /\ UNCHANGED <<heap, held>>
    /\ UNCHANGED <<peers, events, doomed, receiver, sender, clients, running>>

DisconnectPeer ==
    /\ SenderAt("commands")
    /\ held["send"] # <<>>
    /\ LET o == Head(held["send"])
       IN  heap' = [DecUseCount(o) EXCEPT ![o].pendingDisconnect = TRUE]
    /\ held' = [held EXCEPT !["send"] = <<>>]
    /\ UNCHANGED <<peers, events, commands, doomed, receiver, sender, clients, running>>

StartSending == commands = <<>> /\ held["send"] = <<>> /\ StartLoop("commands", "sending")

EndIteration ==
    /\ SenderAt("sending")
    /\ LoopDone
    /\ sender' = [sender EXCEPT !.pc = "idle"]
    /\ UNCHANGED <<heap, peers, events, commands, held, doomed, receiver, clients, running>>

SendThread ==
    \/ StartIteration
    \/ \E id \in Id : VisitPeer(id)
    \/ TimedOut
    \/ PendingDisconnect
    \/ LeavePeer
    \/ \E id \in Id : DeleteMarked(id)
    \/ EndTimeouts
    \/ TakeCommand
    \/ DisconnectPeer
    \/ StartSending
    \/ EndIteration
    \/ PutRemoved("send")
    \/ DropDoomed("send")

(****************************************************************************)
(* The user's thread: Server::Receive, DenyAccess, and the end              *)
(****************************************************************************)

\* Server::peerAdded and deletingPeer, by id; data of no client is ignored.
HandleEvent(known, e) ==
    CASE e.type = "added" /\ e.id \notin DOMAIN known ->
             [i \in DOMAIN known \union {e.id} |-> IF i = e.id THEN e.peer ELSE known[i]]
      [] e.type = "removed" -> [i \in DOMAIN known \ {e.id} |-> known[i]]
      [] OTHER -> known

ReceiveEvent ==
    /\ running = "yes"
    /\ events # <<>>
    /\ clients' = HandleEvent(clients, Head(events))
    /\ events' = Tail(events)
    /\ UNCHANGED <<heap, peers, commands, held, doomed, receiver, sender, running>>

\* Connection::DisconnectPeer of a client that is denied access or kicked.
DenyAccess(id) ==
    /\ running = "yes"
    /\ id \in DOMAIN clients
    /\ Len(commands) < MaxCommands
    /\ commands' = Append(commands, id)
    /\ UNCHANGED <<heap, peers, events, held, doomed, receiver, sender, clients, running>>

\* ~Connection: the threads are stopped and end their current iteration ...
StopThreads ==
    /\ running = "yes"
    /\ running' = "joining"
    /\ UNCHANGED <<heap, peers, events, commands, held, doomed, receiver, sender, clients>>

\* ... and the peers that are left are deleted.
DeletePeers ==
    /\ running = "joining"
    /\ ReceiverAt("socket") /\ SenderAt("idle")
    /\ running' = "done"
    /\ heap' = [o \in Object |-> IF \E i \in DOMAIN peers : peers[i] = o
                                 THEN [heap[o] EXCEPT !.frees = @ + 1] ELSE heap[o]]
    /\ peers' = <<>>
    /\ UNCHANGED <<events, commands, held, doomed, receiver, sender, clients>>

User ==
    \/ ReceiveEvent
    \/ \E id \in Id : DenyAccess(id)
    \/ StopThreads
    \/ DeletePeers

Next == ReceiveThread \/ SendThread \/ User

Spec == Init /\ [][Next]_vars

-----------------------------------------------------------------------------

\* Every variable keeps to the values the code's types allow.
TypeOK ==
    /\ heap \in Seq(Peer) /\ Len(heap) =< MaxPeers
    /\ DOMAIN peers \subseteq Id /\ \A i \in DOMAIN peers : peers[i] \in Object
    /\ events \in Seq(Event)
    /\ commands \in Seq(Id)
    /\ held \in [Thread -> Seq(Object)]
    /\ doomed \in [Thread -> [peer : Object \union {0}, step : {"none", "event", "drop"}]]
    /\ receiver \in [pc : {"socket", "lookup", "create", "find", "check", "process",
                           "handle", "data", "unwind"},
                     id : Id \union {NoId}, known : BOOLEAN, address : Address \union {NoAddress}]
    /\ sender \in [pc : {"idle", "timeouts", "commands", "sending"},
                   todo : SUBSET Id, marked : SUBSET Id]
    /\ DOMAIN clients \subseteq Id /\ \A i \in DOMAIN clients : clients[i] \in Object
    /\ running \in {"yes", "joining", "done"}

\* The peers some thread can still get at: through the container, through a
\* PeerHelper, or in the middle of deletePeer.
Reachable ==
    {peers[i] : i \in DOMAIN peers}
    \union {doomed[t].peer : t \in {u \in Thread : doomed[u].step # "none"}}
    \union UNION {{held[t][k] : k \in DOMAIN held[t]} : t \in Thread}

\* No thread gets at a Peer that was deleted, although deletePeer drops a peer that
\* the other thread, or its own caller, is working on.
NoUseAfterFree == \A o \in Reachable : heap[o].frees = 0

\* A Peer that nothing leads to any more was deleted, once: by Drop, by the last
\* PeerHelper, or by ~Connection.
FreedWhenForgotten == \A o \in Object \ Reachable : heap[o].frees = 1

\* lookupPeer and createPeer take the lock one after the other, yet an address never
\* gets two peers.
OneAddressOnePeer ==
    \A i, j \in DOMAIN peers : heap[peers[i]].address = heap[peers[j]].address => i = j

\* What is known once the user has handled the events q.
After(known, q) ==
    LET f[k \in 0..Len(q)] == IF k = 0 THEN known ELSE HandleEvent(f[k - 1], q[k])
    IN  f[Len(q)]

\* What the user will think once it has handled the events that wait: the peers that
\* are in the container, and those whose removal has no event yet.
ClientsFollowPeers ==
    running = "yes" =>
        LET then == After(clients, events)
        IN  /\ \A i \in DOMAIN peers : i \in DOMAIN then /\ then[i] = peers[i]
            /\ \A i \in DOMAIN then \ DOMAIN peers :
                   \E t \in Thread : doomed[t] = [peer |-> then[i], step |-> "event"]

\* ClientInterface::CreateClient: "The client shouldn't already exist".
ClientDoesNotExistYet ==
    events # <<>> /\ Head(events).type = "added" => Head(events).id \notin DOMAIN clients
=============================================================================
