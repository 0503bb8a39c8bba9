----------------------------- MODULE BlockTransfer -----------------------------
(****************************************************************************)
(* How a server keeps the map of one client up to date (RemoteClient,       *)
(* Server::SendBlocks, Server::sendNodeChangePkt and the client's handlers).*)
(*                                                                          *)
(* Whole blocks travel on channel 2 and changes of single nodes on channel  *)
(* 0: each channel is in order (MtpFifo), the two are unordered.  The       *)
(* client acknowledges a block after it has been meshed and says when it    *)
(* has unloaded one; both messages name a position, not a version.          *)
(*                                                                          *)
(* All of the server's handlers and steps run in the server thread under    *)
(* the environment lock, so each is one action.  A block's content is the   *)
(* value of each of its nodes; lighting, which both sides derive from the   *)
(* nodes, sight, occlusion and the player's movement are left out.          *)
(****************************************************************************)
EXTENDS Naturals, Integers, FiniteSets, Sequences, SequencesExt

CONSTANTS
    Order,          \* the blocks in the order GetNextBlocks visits them
    Distance,       \* [Blocks -> Nat] from the centre, in blocks
    MaxDistance,    \* full_d_max
    Increment,      \* max_d_increment_at_time
    CullDistance,   \* m_block_cull_optimize_distance
    MaxSimulSends,  \* m_max_simul_sends
    MaxTotalSends,  \* max_blocks_to_send of a step
    OnDisk,         \* the blocks the database has
    InMemory,       \* the blocks in memory at the start
    GenDistance,    \* d_max_gen: how far away blocks are generated
    Nodes,          \* node positions within a block
    Ranges,         \* subset of {"near", "far"}: how far the client is from changes
    MaxMoves        \* bound: changes, interactions, unloads, extra sends

Blocks == ToSet(Order)

ASSUME TransferAssumption ==
    /\ Order \in Seq(Blocks) /\ Distance \in [Blocks -> 0..MaxDistance]
    /\ \A i, j \in 1..Len(Order) : i < j => Distance[Order[i]] =< Distance[Order[j]]
    /\ {MaxDistance, Increment, CullDistance, GenDistance, MaxMoves} \subseteq Nat
    /\ OnDisk \subseteq Blocks /\ InMemory \subseteq OnDisk
    /\ {MaxSimulSends, MaxTotalSends} \subseteq Nat \ {0}
    /\ Nodes # {} /\ Ranges \subseteq {"near", "far"}

VARIABLES
    \* the server's map
    content,    \* the nodes of each block, in memory or in the database
    loaded,     \* blocks in memory
    emerging,   \* blocks asked of the emerge threads
    emerged,    \* blocks loaded, their MEET_OTHER event not dispatched yet
    events,     \* m_unsent_map_edit_queue
    \* the RemoteClient
    sending,    \* m_blocks_sending
    sent,       \* m_blocks_sent
    nearest,    \* m_nearest_unsent_d
    paused,     \* m_nothing_to_send_pause_timer >= 0
    \* the channels
    blockData,  \* BLOCKDATA, channel 2
    nodeData,   \* ADDNODE, REMOVENODE, NODEMETA_CHANGED, channel 0
    notices,    \* GOTBLOCKS and DELETEDBLOCKS, channel 2
    interacts,  \* INTERACT, channel 0
    \* the client
    view,       \* the nodes of each block it has, or Absent
    unacked,    \* how often each block waits to be meshed and acknowledged
    \* bookkeeping of this specification
    passed,     \* blocks that a change of theirs passed on the way, or that passed one,
                \* since they were last sent
    moves       \* how many of MaxMoves were made

mapVars == <<content, loaded, emerging, emerged>>
remoteVars == <<sending, sent, nearest, paused>>
clientVars == <<view, unacked>>
vars == <<mapVars, events, remoteVars, blockData, nodeData, notices, interacts,
          clientVars, passed, moves>>

Absent == <<>>
Values == 0..MaxMoves
NodeChange == [block : Blocks, node : Nodes, value : Values]
Event ==
    [type : {"node"}, change : NodeChange]
      \cup [type : {"meta"}, block : Blocks, node : Nodes]
      \cup [type : {"other"}, block : Blocks, low : BOOLEAN]

BlockOf(e) == IF e.type = "node" THEN e.change.block ELSE e.block

TypeOK ==
    /\ content \in [Blocks -> [Nodes -> Values]]
    /\ loaded \subseteq Blocks /\ emerging \subseteq Blocks /\ emerged \subseteq Blocks
    /\ events \in Seq(Event)
    /\ sending \subseteq Blocks /\ sent \subseteq Blocks \ sending
    /\ nearest \in 0..MaxDistance + 1 /\ paused \in BOOLEAN
    /\ blockData \in Seq([block : Blocks, nodes : [Nodes -> Values]])
    /\ nodeData \in Seq(NodeChange)
    /\ notices \in Seq([type : {"got", "deleted"}, blocks : SUBSET Blocks])
    /\ interacts \in Seq(NodeChange)
    /\ view \in [Blocks -> [Nodes -> Values] \cup {Absent}]
    /\ unacked \in [Blocks -> Nat]
    /\ passed \subseteq Blocks /\ moves \in Values

Init ==
    /\ content = [b \in Blocks |-> [n \in Nodes |-> 0]]
    /\ loaded = InMemory /\ emerging = {} /\ emerged = {} /\ events = <<>>
    /\ sending = {} /\ sent = {} /\ nearest = 0 /\ paused = FALSE
    /\ blockData = <<>> /\ nodeData = <<>> /\ notices = <<>> /\ interacts = <<>>
    /\ view = [b \in Blocks |-> Absent] /\ unacked = [b \in Blocks |-> 0]
    /\ passed = {} /\ moves = 0

Move == moves < MaxMoves /\ moves' = moves + 1

-----------------------------------------------------------------------------
(* RemoteClient, as functions of its state r. *)

Remote == [sending |-> sending, sent |-> sent, nearest |-> nearest, paused |-> paused]

Become(r) ==
    /\ sending' = r.sending /\ sent' = r.sent
    /\ nearest' = r.nearest /\ paused' = r.paused

Smaller(a, b) == IF a < b THEN a ELSE b

\* A block on the wire is left to arrive.
SetBlockNotSentIfArrived(r, b, low) ==
    [r EXCEPT !.sent = @ \ {b}, !.paused = FALSE,
              !.nearest = IF b \in r.sent THEN Smaller(@, Distance[b]) ELSE @]

SetBlockNotSent(r, b, low) ==
    LET held == b \in r.sending \cup r.sent
    IN  [sending |-> r.sending \ {b},
         sent    |-> r.sent \ {b},
         nearest |-> IF held /\ (~low \/ Distance[b] < CullDistance)
                     THEN Smaller(r.nearest, Distance[b]) ELSE r.nearest,
         paused  |-> FALSE]

\* What the client unloaded is not noted.
SetBlocksNotSentNoted(r, bs) == r

\* SetBlockNotSent of each of them.
SetBlocksNotSent(r, bs) ==
    [sending |-> r.sending \ bs,
     sent    |-> r.sent \ bs,
     nearest |-> Min({r.nearest} \cup {Distance[b] : b \in bs \cap (r.sending \cup r.sent)}),
     paused  |-> bs = {} /\ r.paused]

ResendBlockIfOnWire(r, b) ==
    IF b \in r.sending THEN SetBlockNotSent(r, b, FALSE) ELSE r

\* A block stays among those being sent.
GotBlocksSending(r, bs) == [r EXCEPT !.sent = @ \cup (bs \cap r.sending)]

\* An acknowledgement of a block not being sent only counts in m_excess_gotblocks
GotBlocks(r, bs) ==
    [r EXCEPT !.sending = @ \ bs, !.sent = @ \cup (bs \cap r.sending)]

-----------------------------------------------------------------------------
(* Sending blocks. *)

\* One iteration of the loop of GetNextBlocks.
Visit(g, b) ==
    IF g.full THEN g
    ELSE IF Cardinality(sending) + Len(g.selected) >= MaxSimulSends
    THEN [g EXCEPT !.full = TRUE, !.d = Distance[b]]
    ELSE IF b \in sending \cup sent THEN g
    ELSE IF b \in loaded
    THEN [g EXCEPT !.selected = Append(@, b)]
    ELSE [g EXCEPT !.emerge = Append(@, b)]

GetNextBlocks(start) ==
    LET last == Smaller(MaxDistance, start + Increment)
        g[k \in 0..Len(Order)] ==
            IF k = 0 THEN [selected |-> <<>>, emerge |-> <<>>, full |-> FALSE, d |-> last + 1]
            ELSE IF Distance[Order[k]] \in start..last THEN Visit(g[k - 1], Order[k])
            ELSE g[k - 1]
    IN  g[Len(Order)]

\* The scan goes on outwards and never starts again.
NextNearestOnwards(g) ==
    IF g.emerge # <<>> THEN Distance[Head(g.emerge)]
    ELSE IF g.selected # <<>> THEN Distance[Head(g.selected)] ELSE g.d

\* Where the next scan begins, after the scan g.
NextNearest(g) ==
    IF g.emerge # <<>> THEN Distance[Head(g.emerge)]
    ELSE IF g.d > MaxDistance THEN 0
    ELSE IF g.selected # <<>> THEN Distance[Head(g.selected)] ELSE g.d

\* restart: the camera has turned, or the scan has taken too long
SendBlocks(restart) ==
    /\ ~paused
    /\ Cardinality(sending) < MaxSimulSends
    /\ LET g   == GetNextBlocks(IF restart THEN 0 ELSE nearest)
           out == SubSeq(g.selected, 1,
                         Smaller(Len(g.selected),
                                 IF Cardinality(sending) < MaxTotalSends
                                 THEN MaxTotalSends - Cardinality(sending) ELSE 0))
       IN  /\ sending' = sending \cup ToSet(out)
           /\ blockData' = blockData \o
                [i \in 1..Len(out) |-> [block |-> out[i], nodes |-> content[out[i]]]]
           /\ passed' = passed \ ToSet(out)
           /\ emerging' = emerging \cup ToSet(g.emerge)
           /\ nearest' = NextNearest(g)
           /\ paused' = (g.emerge = <<>> /\ g.d > MaxDistance)
    /\ UNCHANGED <<content, loaded, emerged, events, sent, nodeData, notices, interacts,
                   clientVars, moves>>

\* m_nothing_to_send_pause_timer runs out.
PauseOver ==
    /\ paused
    /\ paused' = FALSE
    /\ UNCHANGED <<mapVars, events, sending, sent, nearest, blockData, nodeData, notices,
                   interacts, clientVars, passed, moves>>

\* Server::SendBlock, called for attachments and by mods: SentBlock is not called.
SendBlock(b) ==
    /\ Move
    /\ b \in loaded \ sent
    /\ blockData' = Append(blockData, [block |-> b, nodes |-> content[b]])
    /\ passed' = passed \ {b}
    /\ UNCHANGED <<mapVars, events, remoteVars, nodeData, notices, interacts, clientVars>>

-----------------------------------------------------------------------------
(* The map and its changes. *)

\* An emerge thread (module Emerge) loads the block, generates it where that is wanted,
\* or gives up; a block it has got is reported in a second step.
Emerge(b) ==
    /\ b \in emerging
    /\ emerging' = emerging \ {b}
    /\ LET got == IF b \in OnDisk \/ Distance[b] =< GenDistance THEN {b} ELSE {}
       IN  loaded' = loaded \cup got /\ emerged' = emerged \cup got
    /\ UNCHANGED <<content, events, remoteVars, blockData, nodeData, notices, interacts,
                   clientVars, passed, moves>>

EmergeReport(b) ==
    /\ b \in emerged
    /\ emerged' = emerged \ {b}
    /\ events' = Append(events, [type |-> "other", block |-> b, low |-> FALSE])
    /\ UNCHANGED <<content, loaded, emerging, remoteVars, blockData, nodeData, notices,
                   interacts, clientVars, passed, moves>>

\* Only a block unused for server_unload_unused_data_timeout is unloaded: not one that
\* was changed within the last step.
ServerUnload(b) ==
    /\ Move
    /\ b \in loaded
    /\ \A i \in DOMAIN events : BlockOf(events[i]) # b
    /\ loaded' = loaded \ {b}
    /\ UNCHANGED <<content, emerging, emerged, events, remoteVars, blockData, nodeData,
                   notices, interacts, clientVars, passed>>

\* A change by a mod, another player, liquids: the map changes at once, the event is
\* queued.
Change(b, n, e) ==
    /\ Move
    /\ b \in loaded
    /\ content' = [content EXCEPT ![b][n] = moves']
    /\ events' = Append(events, e)
    /\ UNCHANGED <<loaded, emerging, emerged, remoteVars, blockData, nodeData, notices,
                   interacts, clientVars, passed>>

ChangeNode(b, n) ==
    Change(b, n, [type |-> "node", change |-> [block |-> b, node |-> n, value |-> moves + 1]])
ChangeMeta(b, n) == Change(b, n, [type |-> "meta", block |-> b, node |-> n])
ChangeBlock(b, n, low) == Change(b, n, [type |-> "other", block |-> b, low |-> low])

\* sendNodeChangePkt: the change itself, or the whole block later.
SendNodeChange(s, c, range) ==
    IF c.block \in s.remote.sent /\ range = "near"
    THEN [s EXCEPT !.packets = Append(@, c)]
    ELSE [s EXCEPT !.remote = SetBlockNotSent(@, c.block, FALSE)]

HandleEvent(s, e, range) ==
    CASE e.type = "node"  -> SendNodeChange(s, e.change, range)
      [] e.type = "other" -> [s EXCEPT !.remote = SetBlockNotSent(@, e.block, e.low)]
      [] e.type = "meta"  -> s

\* sendMetadataChanged, after all events: the metadata the map has now.
HandleMeta(s, e, range) ==
    IF e.type # "meta" \/ e.block \notin loaded THEN s
    ELSE SendNodeChange(s, [block |-> e.block, node |-> e.node,
                            value |-> content[e.block][e.node]], range)

\* The remote client and the packets for it after each event has been handled, and
\* after the metadata has.
EventsHandled(range) ==
    LET s[k \in 0..Len(events)] ==
            IF k = 0 THEN [remote |-> Remote, packets |-> <<>>]
            ELSE HandleEvent(s[k - 1], events[k], range)
    IN  s[Len(events)]
MetaHandled(range) ==
    LET s[k \in 0..Len(events)] ==
            IF k = 0 THEN EventsHandled(range) ELSE HandleMeta(s[k - 1], events[k], range)
    IN  s[Len(events)]

\* The server step goes through m_unsent_map_edit_queue.
HandleMapEdits(range) ==
    /\ events # <<>>
    /\ Become(MetaHandled(range).remote)
    /\ nodeData' = nodeData \o MetaHandled(range).packets
    /\ events' = <<>>
    /\ UNCHANGED <<mapVars, blockData, notices, interacts, clientVars, passed, moves>>

-----------------------------------------------------------------------------
(* The server's packet handlers. *)

HandleNotice ==
    /\ notices # <<>>
    /\ LET m == Head(notices)
       IN  Become(IF m.type = "got" THEN GotBlocks(Remote, m.blocks)
                  ELSE SetBlocksNotSent(Remote, m.blocks))
    /\ notices' = Tail(notices)
    /\ UNCHANGED <<mapVars, events, blockData, nodeData, interacts, clientVars, passed, moves>>

\* handleCommand_Interact: the change is refused, or made; a predicted placement or an
\* unusual result re-sends the block anyway.
HandleInteract(accepted, resend) ==
    /\ interacts # <<>>
    /\ LET c == Head(interacts)
       IN  /\ accepted => c.block \in loaded
           /\ content' = IF accepted THEN [content EXCEPT ![c.block][c.node] = c.value] ELSE content
           /\ events' = IF accepted THEN Append(events, [type |-> "node", change |-> c]) ELSE events
           /\ Become(IF ~accepted \/ resend THEN SetBlockNotSent(Remote, c.block, FALSE)
                     ELSE ResendBlockIfOnWire(Remote, c.block))
    /\ interacts' = Tail(interacts)
    /\ UNCHANGED <<loaded, emerging, emerged, blockData, nodeData, notices, clientVars, passed,
                   moves>>

-----------------------------------------------------------------------------
(* The client. *)

\* A message about block b is received while the other channel has one, too.
Crossed(b, other) ==
    IF \E i \in DOMAIN other : other[i].block = b THEN passed \cup {b} ELSE passed

HandleBlockData ==
    /\ blockData # <<>>
    /\ LET m == Head(blockData)
       IN  /\ view' = [view EXCEPT ![m.block] = m.nodes]
           /\ unacked' = [unacked EXCEPT ![m.block] = @ + 1]
           /\ passed' = Crossed(m.block, nodeData)
    /\ blockData' = Tail(blockData)
    /\ UNCHANGED <<mapVars, events, remoteVars, nodeData, notices, interacts, moves>>

\* A change in a block the client does not have is dropped (InvalidPositionException).
HandleNodeData ==
    /\ nodeData # <<>>
    /\ LET c == Head(nodeData)
       IN  /\ view' = IF view[c.block] = Absent THEN view
                      ELSE [view EXCEPT ![c.block][c.node] = c.value]
           /\ passed' = Crossed(c.block, blockData)
    /\ nodeData' = Tail(nodeData)
    /\ UNCHANGED <<mapVars, events, remoteVars, blockData, notices, interacts, unacked, moves>>

\* Client::step: meshes are ready, their blocks are acknowledged.
SendGotBlocks(bs) ==
    /\ bs # {} /\ \A b \in bs : unacked[b] > 0
    /\ unacked' = [b \in Blocks |-> IF b \in bs THEN unacked[b] - 1 ELSE unacked[b]]
    /\ notices' = Append(notices, [type |-> "got", blocks |-> bs])
    /\ UNCHANGED <<mapVars, events, remoteVars, blockData, nodeData, interacts, view, passed,
                   moves>>

\* Client::step: old blocks are unloaded; a block being meshed is referenced and stays.
ClientUnload(bs) ==
    /\ Move
    /\ bs # {} /\ \A b \in bs : view[b] # Absent /\ unacked[b] = 0
    /\ view' = [b \in Blocks |-> IF b \in bs THEN Absent ELSE view[b]]
    /\ notices' = Append(notices, [type |-> "deleted", blocks |-> bs])
    /\ UNCHANGED <<mapVars, events, remoteVars, blockData, nodeData, interacts, unacked, passed>>

\* The player digs or places: the client shows the result at once and tells the server.
Predict(b, n) ==
    /\ Move
    /\ view[b] # Absent
    /\ view' = [view EXCEPT ![b][n] = moves']
    /\ interacts' = Append(interacts, [block |-> b, node |-> n, value |-> moves'])
    /\ UNCHANGED <<mapVars, events, remoteVars, blockData, nodeData, notices, unacked, passed>>

-----------------------------------------------------------------------------
Sending ==
    \/ \E restart \in BOOLEAN : SendBlocks(restart)
    \/ PauseOver

ServerNext ==
    \/ Sending
    \/ \E b \in Blocks : SendBlock(b) \/ Emerge(b) \/ EmergeReport(b) \/ ServerUnload(b)
    \/ \E b \in Blocks, n \in Nodes :
         \/ ChangeNode(b, n)
         \/ ChangeMeta(b, n)
         \/ \E low \in BOOLEAN : ChangeBlock(b, n, low)
    \/ \E range \in Ranges : HandleMapEdits(range)
    \/ HandleNotice
    \/ \E accepted, resend \in BOOLEAN : HandleInteract(accepted, resend)

ClientNext ==
    \/ HandleBlockData
    \/ HandleNodeData
    \/ \E bs \in SUBSET Blocks : SendGotBlocks(bs) \/ ClientUnload(bs)
    \/ \E b \in Blocks, n \in Nodes : Predict(b, n)

Next == ServerNext \/ ClientNext

Spec == Init /\ [][Next]_vars

\* The server thread steps and receives, the emerge threads and the client run, and
\* the channels are reliable.  Nothing makes a player or a mod act.
FairSpec ==
    /\ Spec
    /\ WF_vars(SendBlocks(FALSE)) /\ WF_vars(PauseOver)
    /\ \A b \in Blocks : WF_vars(Emerge(b)) /\ WF_vars(EmergeReport(b))
    /\ WF_vars(\E range \in Ranges : HandleMapEdits(range))
    /\ WF_vars(HandleNotice)
    /\ WF_vars(\E accepted, resend \in BOOLEAN : HandleInteract(accepted, resend))
    /\ WF_vars(HandleBlockData) /\ WF_vars(HandleNodeData)
    /\ \A b \in Blocks : WF_vars(\E bs \in SUBSET Blocks : b \in bs /\ SendGotBlocks(bs))

-----------------------------------------------------------------------------
(* Properties. *)

\* Nothing about block b is under way, between the sides or within one of them.
Quiet(b) ==
    /\ \A i \in DOMAIN blockData : blockData[i].block # b
    /\ \A i \in DOMAIN nodeData : nodeData[i].block # b
    /\ \A i \in DOMAIN interacts : interacts[i].block # b
    /\ \A i \in DOMAIN notices : b \notin notices[i].blocks
    /\ \A i \in DOMAIN events : BlockOf(events[i]) # b
    /\ unacked[b] = 0

\* "Blocks that have been sent to client. - These don't have to be sent again." (the
\* comment of m_blocks_sent): once all is quiet, the client shows such a block as the
\* server has it.  A node change on channel 0 can pass a block on channel 2: an
\* acknowledgement of an older copy makes the server believe the newer one arrived.
SentNeedNotBeSentAgain == \A b \in sent : Quiet(b) => view[b] = content[b]

\* The only way for a client to be left with an old block is a node change that passed a
\* copy of that block on the way: changes while a block is on the wire, acknowledgements
\* of old copies, mispredictions, and unloading at either side never leave one behind.
OnlyPassedBlocksAreStale == \A b \in sent \ passed : Quiet(b) => view[b] = content[b]

\* A node change that finds no block at the client is not lost: the server does not count
\* the block as sent, or a copy of it or the client's notice that it was unloaded is on
\* the way.
DroppedChangeIsMadeUpFor ==
    [][\A c \in Blocks :
         (nodeData # <<>> /\ nodeData' = Tail(nodeData) /\ Head(nodeData).block = c
            /\ view[c] = Absent)
         => \/ c \notin sent
            \/ \E i \in DOMAIN blockData : blockData[i].block = c
            \/ \E i \in DOMAIN notices : notices[i].type = "deleted" /\ c \in notices[i].blocks]_vars

\* The client is eventually left with the whole of what exists within the range, and the
\* server knows it: no lost or surplus acknowledgement keeps a place among the
\* simultaneous sends taken, and no block is skipped by the growing scan for good.
EverythingIsSentInTheEnd == <>[](OnDisk \subseteq sent /\ \A b \in OnDisk : view[b] # Absent)
=============================================================================
