------------------------------ MODULE MeshQueue ------------------------------
(****************************************************************************)
(* Mesh generation in the client: the main thread changes map blocks and    *)
(* asks for their meshes (MeshUpdateManager::updateBlock), worker threads   *)
(* take the updates out of a MeshUpdateQueue, copy the blocks and make the  *)
(* meshes, and Client::step takes the results, replaces the mesh of the     *)
(* block and acknowledges the block to the server.                          *)
(*                                                                          *)
(* The queue has a mutex and so have the result queues; the MapBlocks do    *)
(* not: a worker copies them while the main thread may be writing them.     *)
(* They are kept alive by a reference count that only the main thread       *)
(* touches.                                                                 *)
(*                                                                          *)
(* The cell size of the mesh grid is 1 (the default): one mesh per block,   *)
(* and a mesh needs its block and all of its neighbours.  The content of a  *)
(* block is the number of changes made so far when it last changed.         *)
(****************************************************************************)
EXTENDS Integers, FiniteSets, FiniteSetsExt, SequencesExt

CONSTANTS
    Block,        \* the blocks the server sends, each a neighbour of every other
    Worker,       \* the mesh generation threads
    NoBlock,
    Urgencies,    \* the kinds of update in use: urgent or not
    MaxChanges    \* bound: changes to blocks altogether

ASSUME MeshAssumption ==
    /\ NoBlock \notin Block
    /\ IsFiniteSet(Worker)
    /\ Urgencies \subseteq BOOLEAN
    /\ MaxChanges \in Nat

VARIABLES
    loaded,       \* the blocks in the client's map
    content,      \* what each of them contains
    refs,         \* MapBlock::m_refcount
    changes,      \* changes made so far
    main,         \* the main thread: what of updateBlock is left to do
    queue,        \* MeshUpdateQueue::m_queue
    urgents,      \* MeshUpdateQueue::m_urgents
    inflight,     \* MeshUpdateQueue::m_inflight_blocks
    worker,       \* per worker: program counter and the update it works on
    signal,       \* per worker: whether its semaphore is above 0
    out,          \* MeshUpdateManager::m_queue_out
    outUrgent,    \* MeshUpdateManager::m_queue_out_urgent
    mesh,         \* which content the mesh of each block shows, 0: no mesh
    owed,         \* how many acknowledgements of each block the server waits for
    \* bookkeeping of this specification
    overtaken     \* blocks that an urgent result was taken of while an older one waited,
                  \* since they last changed

mapVars == <<loaded, content, refs, changes, mesh, owed, overtaken>>
queueVars == <<queue, urgents, inflight>>
vars == <<mapVars, main, queueVars, worker, signal, out, outUrgent>>

Content == 0..MaxChanges
Update == [block : Block, acks : Nat, urgent : BOOLEAN, blocks : SUBSET Block, shows : Content]
NoUpdate == [block |-> NoBlock, acks |-> 0, urgent |-> FALSE, blocks |-> {}, shows |-> 0]

\* pc "step": in Client::step or elsewhere, no update pending.  "update": a block was
\* written, its addBlock comes next.  "neighbors": the rest of updateBlock.
Idle == [pc |-> "step", block |-> NoBlock, ack |-> FALSE, urgent |-> FALSE, neighbors |-> {}]

Init ==
    /\ loaded = {}
    /\ content = [b \in Block |-> 0]
    /\ refs = [b \in Block |-> 0]
    /\ changes = 0
    /\ main = Idle
    /\ queue = <<>>
    /\ urgents = {}
    /\ inflight = {}
    /\ worker = [w \in Worker |-> [pc |-> "wait", update |-> NoUpdate]]
    /\ signal = [w \in Worker |-> FALSE]
    /\ out = <<>>
    /\ outUrgent = <<>>
    /\ mesh = [b \in Block |-> 0]
    /\ owed = [b \in Block |-> 0]
    /\ overtaken = {}

\* The blocks are used without a reference.
NoGrab(blocks) == refs

\* refGrab or refDrop of all of these blocks.
Grab(blocks) == [b \in Block |-> refs[b] + (IF b \in blocks THEN 1 ELSE 0)]
DropRefs(blocks) == [b \in Block |-> refs[b] - (IF b \in blocks THEN 1 ELSE 0)]

(****************************************************************************)
(* MeshUpdateQueue::addBlock, called by the main thread                     *)
(****************************************************************************)

\* The index of the update of b in the queue, if there is one.
Queued(b) == {k \in DOMAIN queue : queue[k].block = b}

\* The update found is kept as it is: its ack_list is not extended.
MergeWithoutAck(b, ack, urgent) ==
    /\ Queued(b) # {}
    /\ LET k == CHOOSE i \in Queued(b) : TRUE
       IN  /\ queue' = [queue EXCEPT ![k].urgent = @ \/ urgent, ![k].blocks = loaded]
           /\ refs' = Grab(loaded \ queue[k].blocks)
    /\ urgents' = IF urgent THEN urgents \union {b} ELSE urgents

\* It is already in the queue: one update, urgent if either is, with the blocks that
\* were missing.
Merge(b, ack, urgent) ==
    /\ Queued(b) # {}
    /\ LET k == CHOOSE i \in Queued(b) : TRUE
       IN  /\ queue' = [queue EXCEPT ![k].acks = IF ack THEN @ + 1 ELSE @,
                                     ![k].urgent = @ \/ urgent,
                                     ![k].blocks = @ \union loaded]
           /\ refs' = Grab(loaded \ queue[k].blocks)
    /\ urgents' = IF urgent THEN urgents \union {b} ELSE urgents

\* A worker that has an update of the block is taken to see to this one, too.
EnqueueUnlessInFlight(b, ack, urgent) ==
    /\ Queued(b) = {}
    /\ queue' = IF b \in inflight /\ ~ack THEN queue
                ELSE Append(queue, [block |-> b, acks |-> IF ack THEN 1 ELSE 0,
                                    urgent |-> urgent, blocks |-> loaded, shows |-> 0])
    /\ refs' = IF b \in inflight /\ ~ack THEN refs ELSE Grab(loaded)
    /\ urgents' = IF urgent /\ (b \notin inflight \/ ack) THEN urgents \union {b} ELSE urgents

\* It is put into the queue.
Enqueue(b, ack, urgent) ==
    /\ Queued(b) = {}
    /\ queue' = Append(queue, [block |-> b, acks |-> IF ack THEN 1 ELSE 0, urgent |-> urgent,
                               blocks |-> loaded, shows |-> 0])
    /\ refs' = Grab(loaded)
    /\ urgents' = IF urgent THEN urgents \union {b} ELSE urgents

\* An update only for a neighbour's sake, of nothing but air, is skipped.
Skip(b, urgent) ==
    /\ Queued(b) = {}
    /\ urgents' = urgents \ {b}
    /\ UNCHANGED <<queue, refs>>

(****************************************************************************)
(* The main thread                                                          *)
(****************************************************************************)

\* The main thread writes block b, and updateBlock is next.
Change(b, ack, urgent) ==
    /\ main.pc = "step"
    /\ changes < MaxChanges
    /\ changes' = changes + 1
    /\ loaded' = loaded \union {b}
    /\ content' = [content EXCEPT ![b] = changes + 1]
    /\ main' = [pc |-> "update", block |-> b, ack |-> ack, urgent |-> urgent,
                neighbors |-> Block \ {b}]
    /\ owed' = [owed EXCEPT ![b] = IF ack THEN @ + 1 ELSE @]
    /\ overtaken' = overtaken \ {b}
    /\ UNCHANGED <<refs, mesh, queueVars, worker, signal, out, outUrgent>>

\* handleCommand_BlockData: the block comes, or comes again, and is to be acked.
HandleBlockData(b) == FALSE \in Urgencies /\ Change(b, TRUE, FALSE)

\* addNode or removeNode: by the server, or predicted for the player's own digging.
ChangeNode(b) == TRUE \in Urgencies /\ b \in loaded /\ Change(b, FALSE, TRUE)

\* updateBlock, first the block itself ...
UpdateBlock ==
    /\ main.pc = "update"
    /\ Merge(main.block, main.ack, main.urgent) \/ Enqueue(main.block, main.ack, main.urgent)
    /\ main' = [main EXCEPT !.pc = "neighbors"]
    /\ UNCHANGED <<loaded, content, changes, mesh, owed, overtaken, inflight, worker, signal,
                   out, outUrgent>>

\* ... then its neighbours, those that are loaded ...
UpdateNeighbor(b) ==
    /\ main.pc = "neighbors"
    /\ b \in main.neighbors
    /\ \/ b \notin loaded /\ UNCHANGED <<queue, urgents, refs>>
       \/ b \in loaded /\ Merge(b, FALSE, main.urgent)
       \/ b \in loaded /\ Enqueue(b, FALSE, main.urgent)
       \/ b \in loaded /\ Skip(b, main.urgent)
    /\ main' = [main EXCEPT !.neighbors = @ \ {b}]
    /\ UNCHANGED <<loaded, content, changes, mesh, owed, overtaken, inflight, worker, signal,
                   out, outUrgent>>

\* ... then every worker is told.
DeferUpdate ==
    /\ main.pc = "neighbors"
    /\ main.neighbors = {}
    /\ main' = Idle
    /\ signal' = [w \in Worker |-> TRUE]
    /\ UNCHANGED <<mapVars, queueVars, worker, out, outUrgent>>

\* Client::step with the next result: the mesh, the acks, the references.
Apply(r) ==
    /\ mesh' = [mesh EXCEPT ![r.block] = r.shows]
    /\ owed' = [owed EXCEPT ![r.block] = @ - r.acks]
    /\ refs' = DropRefs(r.blocks)
    /\ UNCHANGED <<loaded, content, changes, main, queueVars, worker, signal>>

Older(r, s) == r.block = s.block /\ r.shows < s.shows

\* MeshUpdateManager::getNextResult looks at the urgent ones first.
ReplaceMesh ==
    /\ main.pc = "step"
    /\ \/ /\ outUrgent # <<>>
          /\ Apply(Head(outUrgent))
          /\ outUrgent' = Tail(outUrgent)
          /\ overtaken' = IF \E k \in DOMAIN out : Older(out[k], Head(outUrgent))
                          THEN overtaken \union {Head(outUrgent).block} ELSE overtaken
          /\ UNCHANGED out
       \/ /\ outUrgent = <<>> /\ out # <<>>
          /\ Apply(Head(out))
          /\ out' = Tail(out)
          /\ UNCHANGED <<outUrgent, overtaken>>

\* The map is full and the reference count is forgotten.
UnloadReferenced(b) ==
    /\ main.pc = "step"
    /\ b \in loaded
    /\ loaded' = loaded \ {b}
    /\ content' = [content EXCEPT ![b] = 0]
    /\ mesh' = [mesh EXCEPT ![b] = 0]
    /\ UNCHANGED <<refs, changes, owed, overtaken, main, queueVars, worker, signal, out, outUrgent>>

\* Map::timerUpdate unloads a block nobody has used for a while.
Unload(b) ==
    /\ main.pc = "step"
    /\ b \in loaded
    /\ refs[b] = 0
    /\ loaded' = loaded \ {b}
    /\ content' = [content EXCEPT ![b] = 0]
    /\ mesh' = [mesh EXCEPT ![b] = 0]
    /\ UNCHANGED <<refs, changes, owed, overtaken, main, queueVars, worker, signal, out, outUrgent>>

\* Client::Stop: the workers are stopped, and nudged once more.
Stop ==
    /\ main.pc = "step"
    /\ main' = [main EXCEPT !.pc = "joining"]
    /\ signal' = [w \in Worker |-> TRUE]
    /\ UNCHANGED <<mapVars, queueVars, worker, out, outUrgent>>

\* clearAllQueues(true), once the workers have ended: every reference is dropped.
ClearAllQueues ==
    /\ main.pc = "joining"
    /\ \A w \in Worker : worker[w].pc = "ended"
    /\ LET all == queue \o out \o outUrgent
       IN  refs' = [b \in Block |->
                       refs[b] - Cardinality({k \in DOMAIN all : b \in all[k].blocks})]
    /\ urgents' = urgents \ {queue[k].block : k \in DOMAIN queue}
    /\ inflight' = inflight \ {queue[k].block : k \in DOMAIN queue}
    /\ queue' = <<>> /\ out' = <<>> /\ outUrgent' = <<>>
    /\ main' = [main EXCEPT !.pc = "stopped"]
    /\ UNCHANGED <<loaded, content, changes, mesh, owed, overtaken, worker, signal>>

Main ==
    \/ \E b \in Block : HandleBlockData(b)
    \/ \E b \in Block : ChangeNode(b)
    \/ UpdateBlock
    \/ \E b \in Block : UpdateNeighbor(b)
    \/ DeferUpdate
    \/ ReplaceMesh
    \/ \E b \in Block : Unload(b)
    \/ Stop
    \/ ClearAllQueues

(****************************************************************************)
(* The workers: UpdateThread::run and MeshUpdateWorkerThread::doUpdate      *)
(****************************************************************************)
WorkerGoes(w, pc) == worker' = [worker EXCEPT ![w].pc = pc]

\* The semaphore is taken down to 0; after a stop the thread ends.
Wake(w) ==
    /\ worker[w].pc = "wait"
    /\ signal[w]
    /\ signal' = [signal EXCEPT ![w] = FALSE]
    /\ WorkerGoes(w, IF main.pc = "joining" THEN "ended" ELSE "pop")
    /\ UNCHANGED <<mapVars, main, queueVars, out, outUrgent>>

\* Two workers may make the mesh of one block.
EligibleInFlight(k) == urgents = {} \/ queue[k].block \in urgents

\* pop passes over the updates that are not urgent while some are, and over those
\* of a block that another worker has.
Eligible(k) ==
    /\ urgents = {} \/ queue[k].block \in urgents
    /\ queue[k].block \notin inflight

\* The mark of the update that is taken stays in m_urgents.
PopKeepingMark(w) ==
    /\ worker[w].pc = "pop"
    /\ \E k \in DOMAIN queue :
          /\ Eligible(k)
          /\ \A i \in 1..(k - 1) : ~Eligible(i)
          /\ queue' = RemoveAt(queue, k)
          /\ inflight' = inflight \union {queue[k].block}
          /\ worker' = [worker EXCEPT ![w] = [pc |-> "fill", update |-> queue[k]]]
    /\ UNCHANGED <<mapVars, main, urgents, signal, out, outUrgent>>

\* MeshUpdateQueue::pop takes the first update it may.
Pop(w) ==
    /\ worker[w].pc = "pop"
    /\ \E k \in DOMAIN queue :
          /\ Eligible(k)
          /\ \A i \in 1..(k - 1) : ~Eligible(i)
          /\ queue' = RemoveAt(queue, k)
          /\ urgents' = urgents \ {queue[k].block}
          /\ inflight' = inflight \union {queue[k].block}
          /\ worker' = [worker EXCEPT ![w] = [pc |-> "fill", update |-> queue[k]]]
    /\ UNCHANGED <<mapVars, main, signal, out, outUrgent>>

\* There is none: doUpdate returns.
PopNothing(w) ==
    /\ worker[w].pc = "pop"
    /\ \A k \in DOMAIN queue : ~Eligible(k)
    /\ WorkerGoes(w, IF main.pc = "joining" THEN "ended" ELSE "wait")
    /\ UNCHANGED <<mapVars, main, queueVars, signal, out, outUrgent>>

\* fillDataFromMapBlocks, without the mutex.  A copy torn by the main thread's writing
\* is no better than one made just before, and is taken for that.
FillData(w) ==
    /\ worker[w].pc = "fill"
    /\ worker' = [worker EXCEPT ![w].pc = "put",
                                ![w].update.shows = content[worker[w].update.block]]
    /\ UNCHANGED <<mapVars, main, queueVars, signal, out, outUrgent>>

\* The result is put at the front: the newest mesh is shown first.
PutResultInFront(w) ==
    /\ worker[w].pc = "put"
    /\ IF worker[w].update.urgent
       THEN outUrgent' = <<worker[w].update>> \o outUrgent /\ UNCHANGED out
       ELSE out' = <<worker[w].update>> \o out /\ UNCHANGED outUrgent
    /\ WorkerGoes(w, "done")
    /\ UNCHANGED <<mapVars, main, queueVars, signal>>

\* MeshUpdateManager::putResult
PutResult(w) ==
    /\ worker[w].pc = "put"
    /\ IF worker[w].update.urgent
       THEN outUrgent' = Append(outUrgent, worker[w].update) /\ UNCHANGED out
       ELSE out' = Append(out, worker[w].update) /\ UNCHANGED outUrgent
    /\ WorkerGoes(w, "done")
    /\ UNCHANGED <<mapVars, main, queueVars, signal>>

\* The position is not marked as finished.
DoneUnmarked(w) ==
    /\ worker[w].pc = "done"
    /\ worker' = [worker EXCEPT ![w] = [pc |-> "pop", update |-> NoUpdate]]
    /\ UNCHANGED <<mapVars, main, queueVars, signal, out, outUrgent>>

\* MeshUpdateQueue::done, and the loop goes on.
Done(w) ==
    /\ worker[w].pc = "done"
    /\ inflight' = inflight \ {worker[w].update.block}
    /\ worker' = [worker EXCEPT ![w] = [pc |-> "pop", update |-> NoUpdate]]
    /\ UNCHANGED <<mapVars, main, queue, urgents, signal, out, outUrgent>>

Work(w) ==
    \/ Wake(w)
    \/ Pop(w)
    \/ PopNothing(w)
    \/ FillData(w)
    \/ PutResult(w)
    \/ Done(w)

Next == Main \/ \E w \in Worker : Work(w)

Spec == Init /\ [][Next]_vars

\* The workers run, and the main thread ends what it began and comes round to the
\* results; nobody has to change a block, to unload one or to stop.
FairSpec ==
    /\ Spec
    /\ \A w \in Worker : WF_vars(Work(w))
    /\ WF_vars(UpdateBlock \/ (\E b \in Block : UpdateNeighbor(b)) \/ DeferUpdate
               \/ ReplaceMesh \/ ClearAllQueues)

-----------------------------------------------------------------------------

\* Every variable keeps to the values the code's types allow.
TypeOK ==
    /\ loaded \subseteq Block
    /\ content \in [Block -> Content] /\ mesh \in [Block -> Content]
    /\ refs \in [Block -> Nat] /\ owed \in [Block -> Nat]
    /\ changes \in 0..MaxChanges
    /\ main \in [pc : {"step", "update", "neighbors", "joining", "stopped"},
                 block : Block \union {NoBlock}, ack : BOOLEAN, urgent : BOOLEAN,
                 neighbors : SUBSET Block]
    /\ queue \in Seq(Update) /\ out \in Seq(Update) /\ outUrgent \in Seq(Update)
    /\ urgents \subseteq Block /\ inflight \subseteq Block /\ overtaken \subseteq Block
    /\ worker \in [Worker -> [pc : {"wait", "pop", "fill", "put", "done", "ended"},
                              update : Update \union {NoUpdate}]]
    /\ signal \in [Worker -> BOOLEAN]

Working(w) == worker[w].pc \in {"fill", "put"}

\* The updates on their way from addBlock to the main thread.
Waiting == queue \o out \o outUrgent
UnderWay(b) ==
    \/ \E k \in DOMAIN Waiting : Waiting[k].block = b
    \/ \E w \in Worker : Working(w) /\ worker[w].update.block = b

\* pop: "Make sure no two threads are processing the same mapblock, as that causes
\* racing conditions", until the result is put and done is called.
OneThreadPerBlock ==
    \A v, w \in Worker :
        /\ v # w
        /\ worker[v].pc \in {"fill", "put", "done"} /\ worker[w].pc \in {"fill", "put", "done"}
        => worker[v].update.block # worker[w].update.block

\* The acknowledgements in the updates of b among s, and in those of the workers ws.
AcksIn(s, b) ==
    LET f[k \in 0..Len(s)] ==
            IF k = 0 THEN 0 ELSE f[k - 1] + (IF s[k].block = b THEN s[k].acks ELSE 0)
    IN  f[Len(s)]
AcksWith(ws) == MapThenSumSet(LAMBDA w : worker[w].update.acks, ws)
WorkersOn(b) == {w \in Worker : Working(w) /\ worker[w].update.block = b}

\* Merging, popping and passing results on keeps every acknowledgement the server
\* waits for, and makes none up.
AcksCarried ==
    main.pc # "stopped" =>
        \A b \in Block :
            owed[b] = AcksIn(queue, b) + AcksIn(out, b) + AcksIn(outUrgent, b)
                      + AcksWith(WorkersOn(b))
                      + (IF main.pc = "update" /\ main.ack /\ main.block = b THEN 1 ELSE 0)

\* A block that a worker may copy is not unloaded, and no reference is left at the end.
BlocksStayLoaded ==
    /\ \A k \in DOMAIN Waiting : Waiting[k].blocks \subseteq loaded
    /\ \A w \in Worker : Working(w) => worker[w].update.blocks \subseteq loaded
    /\ main.pc = "stopped" => \A b \in Block : refs[b] = 0

\* A mark in m_urgents without its update would keep pop from everything that is
\* not urgent.
UrgentIsQueued == \A b \in urgents : Queued(b) # {}

\* The results of a block come in the order of what they show, in each of the two
\* queues by itself: workers do not overtake each other, the copies are not older.
EachQueueInOrder ==
    \A results \in {out, outUrgent} :
        \A j, k \in DOMAIN results :
            j < k /\ results[j].block = results[k].block
            => results[j].shows =< results[k].shows

\* When nothing is under way for a block, its mesh shows what it contains: Client::step
\* did "Replace with the new mesh", not with an older one.  It does so when an urgent
\* result overtakes an older one.
MeshUpToDate ==
    main.pc = "step" =>
        \A b \in loaded : ~UnderWay(b) => mesh[b] = content[b]

\* That is the only way: an update that waits or is being made when its block changes
\* again, merges, skipped neighbours and a block that comes back never leave an old mesh.
OnlyOvertakenMeshesAreOld ==
    main.pc = "step" =>
        \A b \in loaded \ overtaken : ~UnderWay(b) => mesh[b] = content[b]

\* Once no more blocks come, every one has been acknowledged: no wake-up of the workers
\* is lost, and no acknowledgement is left in an update that was merged or skipped.
EventuallyAcked == <>[](main.pc = "stopped" \/ \A b \in Block : owed[b] = 0)
=============================================================================
