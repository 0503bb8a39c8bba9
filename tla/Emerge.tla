-------------------------------- MODULE Emerge --------------------------------
(****************************************************************************)
(* Emerge threads (EmergeManager, EmergeThread): map blocks that a server   *)
(* needs are asked for, kept in a queue per thread, and found in memory,    *)
(* loaded from the database or generated with their whole chunk.            *)
(*                                                                          *)
(* The queues and the table of requests are under m_queue_mutex, the map is *)
(* under the environment lock; both are released between the steps of a     *)
(* thread, so that threads race for a block and for a chunk.  Callbacks of  *)
(* mods run under the environment lock and may ask for further blocks,      *)
(* which takes m_queue_mutex.  An action that holds one of the locks from   *)
(* beginning to end needs the lock free; the two that wait for the second   *)
(* lock with the first one held are cut there.                              *)
(****************************************************************************)
EXTENDS Naturals, FiniteSets, Sequences, SequencesExt

CONSTANTS
    Block,
    Chunk,
    ChunkOf,         \* [Block -> Chunk], getContainingChunk
    NumThreads,
    Peer,            \* clients that ask
    NoPeer,          \* PEER_ID_INEXISTENT
    OnDisk,          \* blocks in the database at the start
    OverLimit,       \* blocks for which blockpos_over_max_limit holds
    AtMapgenLimit,   \* chunks not fully inside the mapgen limits
    QLimitTotal, QLimitDiskonly, QLimitGenerate,
    CallbacksAsk,    \* whether mods call emerge_area in their callbacks
    Unloadable,      \* bound: blocks that may be unloaded
    MaxRequests      \* bound: requests altogether

Thread == 1..NumThreads

ASSUME EmergeAssumption ==
    /\ IsFiniteSet(Block)
    /\ ChunkOf \in [Block -> Chunk]
    /\ NumThreads \in Nat \ {0}
    /\ NoPeer \notin Peer
    /\ OnDisk \subseteq Block /\ OverLimit \subseteq Block \ OnDisk
    /\ Unloadable \subseteq Block
    /\ AtMapgenLimit \subseteq Chunk
    /\ {QLimitTotal, QLimitDiskonly, QLimitGenerate, MaxRequests} \subseteq Nat
    /\ CallbacksAsk \in BOOLEAN

VARIABLES
    \* under m_queue_mutex
    enqueued,    \* m_blocks_enqueued: a BlockEmergeData for some of the blocks
    peerCount,   \* m_peer_queue_count
    queue,       \* per thread: m_block_queue
    \* under the environment lock
    memory,      \* blocks in the map: "none", "blank" or "generated"
    disk,        \* blocks in the database, "none" or "generated"
    inProgress,  \* m_chunks_in_progress
    \* threads
    thread,      \* program counter, and the block and its data at hand
    signal,      \* per thread: m_queue_event
    stop,        \* per thread: stopRequested
    envLock,     \* who waits with the environment lock held
    queueLock,   \* who keeps m_queue_mutex
    \* what was asked and answered
    asked,       \* the requests so far
    ran          \* per request: how often its callback ran

tableVars == <<enqueued, peerCount, queue>>
worldVars == <<memory, disk, inProgress>>
lockVars == <<envLock, queueLock>>
bookVars == <<asked, ran>>
vars == <<tableVars, worldVars, thread, signal, stop, lockVars, bookVars>>

Free == 0
Request == 1..MaxRequests
EmergeData == [peer : Peer \cup {NoPeer}, gen : BOOLEAN, callbacks : SUBSET Request]
Empty == [b \in {} |-> 0]
Idle == [pc |-> "check", block |-> {}, gen |-> FALSE, callbacks |-> {}, data |-> "none"]

TypeOK ==
    /\ DOMAIN enqueued \subseteq Block
    /\ \A b \in DOMAIN enqueued : enqueued[b] \in EmergeData
    /\ peerCount \in [Peer \cup {NoPeer} -> Nat]
    /\ queue \in [Thread -> Seq(Block)]
    /\ memory \in [Block -> {"none", "blank", "generated"}]
    /\ disk \in [Block -> {"none", "generated"}]
    /\ inProgress \subseteq Chunk
    /\ thread \in [Thread ->
         [pc : {"check", "pop", "wait", "look", "load", "decide", "make", "report",
                "ask", "cancel", "cancelling", "ended"},
          block : SUBSET Block, gen : BOOLEAN, callbacks : SUBSET Request,
          data : {"none", "generated"}]]
    /\ signal \in [Thread -> BOOLEAN] /\ stop \in [Thread -> BOOLEAN]
    /\ envLock \in Thread \cup {Free} /\ queueLock \in Thread \cup {Free}
    /\ asked \in Seq([block : Block, gen : BOOLEAN, callback : BOOLEAN])
    /\ ran \in [Request -> Nat]

Init ==
    /\ enqueued = Empty
    /\ peerCount = [p \in Peer \cup {NoPeer} |-> 0]
    /\ queue = [t \in Thread |-> <<>>]
    /\ memory = [b \in Block |-> "none"]
    /\ disk = [b \in Block |-> IF b \in OnDisk THEN "generated" ELSE "none"]
    /\ inProgress = {}
    /\ thread = [t \in Thread |-> Idle]
    /\ signal = [t \in Thread |-> FALSE]
    /\ stop = [t \in Thread |-> FALSE]
    /\ envLock = Free /\ queueLock = Free
    /\ asked = <<>>
    /\ ran = [r \in Request |-> 0]

Running == \A t \in Thread : ~stop[t]

-----------------------------------------------------------------------------
(* Asking for a block. *)

\* The limits of pushBlockEmergeData.
WithinLimits(peer, gen) ==
    /\ Cardinality(DOMAIN enqueued) < QLimitTotal
    /\ IF peer # NoPeer
       THEN peerCount[peer] < (IF gen THEN QLimitGenerate ELSE QLimitDiskonly)
       ELSE peerCount[peer] * 2 < QLimitTotal

\* getOptimalThread: the first of the shortest queues, whatever its thread does.
OptimalThread ==
    CHOOSE t \in Thread :
        \A u \in Thread : \/ Len(queue[t]) < Len(queue[u])
                          \/ Len(queue[t]) = Len(queue[u]) /\ t =< u

\* An entry for b exists: it takes over the flags and the callback.  The faulty forms lose
\* one of the two.
AddToEntryNoCallback(b, gen, cbs) ==
    /\ enqueued' = [enqueued EXCEPT ![b].gen = @ \/ gen]
    /\ UNCHANGED <<peerCount, queue, signal>>

AddToEntryNoFlag(b, gen, cbs) ==
    /\ enqueued' = [enqueued EXCEPT ![b].callbacks = @ \cup cbs]
    /\ UNCHANGED <<peerCount, queue, signal>>

AddToEntry(b, gen, cbs) ==
    /\ enqueued' = [enqueued EXCEPT ![b].gen = @ \/ gen, ![b].callbacks = @ \cup cbs]
    /\ UNCHANGED <<peerCount, queue, signal>>

\* A new entry goes to a queue, and its thread is woken; the faulty form wakes nobody.
InsertEntry(b, peer, gen, cbs) ==
    /\ enqueued' = [x \in DOMAIN enqueued \cup {b} |->
                      IF x = b THEN [peer |-> peer, gen |-> gen, callbacks |-> cbs]
                      ELSE enqueued[x]]
    /\ peerCount' = [peerCount EXCEPT ![peer] = @ + 1]
    /\ queue' = [queue EXCEPT ![OptimalThread] = Append(@, b)]

NewEntrySilent(b, peer, gen, cbs) ==
    /\ InsertEntry(b, peer, gen, cbs)
    /\ UNCHANGED signal

NewEntry(b, peer, gen, cbs) ==
    /\ InsertEntry(b, peer, gen, cbs)
    /\ signal' = [signal EXCEPT ![OptimalThread] = TRUE]

\* enqueueBlockEmergeEx, once it is within the limits or forced.
Enqueue(b, peer, gen, callback) ==
    LET r   == Len(asked) + 1
        cbs == IF callback THEN {r} ELSE {}
    IN  /\ r \in Request
        /\ queueLock = Free
        /\ asked' = Append(asked, [block |-> b, gen |-> gen, callback |-> callback])
        /\ IF b \in DOMAIN enqueued THEN AddToEntry(b, gen, cbs) ELSE NewEntry(b, peer, gen, cbs)

\* The server thread: for a client (GetNextBlocks), for an active block
\* (getBlockOrEmerge), or for a mod (emerge_area, which ignores the limits).
AskForClient(b, p, gen) ==
    /\ Running /\ envLock = Free
    /\ WithinLimits(p, gen)
    /\ Enqueue(b, p, gen, FALSE)
    /\ UNCHANGED <<worldVars, thread, stop, lockVars, ran>>

EmergeArea(b) ==
    /\ Running /\ envLock = Free
    /\ Enqueue(b, NoPeer, TRUE, TRUE)
    /\ UNCHANGED <<worldVars, thread, stop, lockVars, ran>>

-----------------------------------------------------------------------------
(* The thread, EmergeThread::run. *)

Goto(t, pc) == thread' = [thread EXCEPT ![t].pc = pc]

\* while (!stopRequested())
CheckStop(t) ==
    /\ thread[t].pc = "check"
    /\ Goto(t, IF stop[t] THEN "cancel" ELSE "pop")
    /\ UNCHANGED <<tableVars, worldVars, signal, stop, lockVars, bookVars>>

\* popBlockEmergeData: the request of block b leaves the table.  The faulty forms count it
\* down for the wrong peer, or not at all.
PopDataOfServer(b) ==
    /\ enqueued' = [x \in DOMAIN enqueued \ {b} |-> enqueued[x]]
    /\ peerCount' = [peerCount EXCEPT ![NoPeer] = @ - 1]

PopDataUncounted(b) ==
    /\ enqueued' = [x \in DOMAIN enqueued \ {b} |-> enqueued[x]]
    /\ UNCHANGED peerCount

PopData(b) ==
    /\ enqueued' = [x \in DOMAIN enqueued \ {b} |-> enqueued[x]]
    /\ peerCount' = [peerCount EXCEPT ![enqueued[b].peer] = @ - 1]

\* The next request.  One beyond the limit of the map is passed over.
Pop(t) ==
    /\ thread[t].pc = "pop"
    /\ queueLock = Free
    /\ IF queue[t] = <<>>
       THEN /\ Goto(t, "wait")
            /\ UNCHANGED tableVars
       ELSE LET b == Head(queue[t])
            IN  /\ queue' = [queue EXCEPT ![t] = Tail(@)]
                /\ PopData(b)
                /\ thread' = [thread EXCEPT ![t] =
                     IF b \in OverLimit THEN Idle
                     ELSE [pc |-> "look", block |-> {b}, gen |-> enqueued[b].gen,
                           callbacks |-> enqueued[b].callbacks, data |-> "none"]]
    /\ UNCHANGED <<worldVars, signal, stop, lockVars, bookVars>>

\* m_queue_event.wait()
Wake(t) ==
    /\ thread[t].pc = "wait"
    /\ signal[t]
    /\ signal' = [signal EXCEPT ![t] = FALSE]
    /\ Goto(t, "check")
    /\ UNCHANGED <<tableVars, worldVars, stop, lockVars, bookVars>>

BlockAt(t) == CHOOSE b \in Block : thread[t].block = {b}
ChunkAt(t) == ChunkOf[BlockAt(t)]

\* getBlockOrStartGen, part 3: initBlockMake claims the chunk, and has it and the
\* blocks around in memory.
\* The faulty form does not look whether someone has it.
GenerateIf(t, mem, claims) ==
    LET c     == ChunkAt(t)
        makes == claims /\ c \notin AtMapgenLimit
    IN  /\ inProgress' = IF claims THEN inProgress \cup {c} ELSE inProgress
        /\ memory' = IF ~makes THEN mem
                     ELSE [b \in Block |-> IF mem[b] # "none" THEN mem[b]
                                           ELSE IF disk[b] = "none" THEN "blank" ELSE disk[b]]
        /\ Goto(t, IF makes THEN "make" ELSE "report")

StartGenUnclaimed(t, mem) == GenerateIf(t, mem, thread[t].gen)

StartGen(t, mem) == GenerateIf(t, mem, thread[t].gen /\ ChunkAt(t) \notin inProgress)

\* First call: it is in memory, has to be looked for in the database, or made.
Look(t) ==
    /\ thread[t].pc = "look"
    /\ envLock = Free
    /\ LET m == memory[BlockAt(t)]
       IN  IF m = "blank" THEN StartGen(t, memory)
           ELSE Goto(t, IF m = "generated" THEN "report" ELSE "load")
                /\ UNCHANGED <<memory, inProgress>>
    /\ UNCHANGED <<tableVars, disk, signal, stop, lockVars, bookVars>>

\* The database is read without the environment lock.
Load(t) ==
    /\ thread[t].pc = "load"
    /\ thread' = [thread EXCEPT ![t].pc = "decide", ![t].data = disk[BlockAt(t)]]
    /\ UNCHANGED <<tableVars, worldVars, signal, stop, lockVars, bookVars>>

\* Second call: someone may have been faster.
Decide(t) ==
    /\ thread[t].pc = "decide"
    /\ envLock = Free
    /\ LET b   == BlockAt(t)
           mem == IF memory[b] = "none" THEN [memory EXCEPT ![b] = thread[t].data] ELSE memory
       IN  IF mem[b] = "generated"
           THEN memory' = mem /\ Goto(t, "report") /\ UNCHANGED inProgress
           ELSE StartGen(t, mem)
    /\ UNCHANGED <<tableVars, disk, signal, stop, lockVars, bookVars>>

\* A mod's code has been run by the thread under the environment lock.  If it wants
\* to ask for more, the thread goes for m_queue_mutex with that lock held.
AfterMod(t, th) ==
    \/ /\ thread' = [thread EXCEPT ![t] = th]
       /\ UNCHANGED envLock
    \/ /\ CallbacksAsk /\ Len(asked) < MaxRequests
       /\ thread' = [thread EXCEPT ![t] = [th EXCEPT !.pc = "ask"]]
       /\ envLock' = t

\* Mapgen::makeChunk ends, and in finishGen the chunk is written to the map and mods see
\* it (on_generated).
FinishGen(t) ==
    /\ thread[t].pc = "make"
    /\ envLock = Free
    /\ memory' = [b \in Block |-> IF ChunkOf[b] = ChunkAt(t) THEN "generated" ELSE memory[b]]
    /\ inProgress' = inProgress \ {ChunkAt(t)}
    /\ AfterMod(t, [thread[t] EXCEPT !.pc = "report"])
    /\ UNCHANGED <<tableVars, disk, signal, stop, queueLock, bookVars>>

\* runCompletionCallbacks, one after the other; each takes the environment lock.
RunCallback(t, r) ==
    /\ thread[t].pc \in {"report", "cancelling"}
    /\ r \in thread[t].callbacks
    /\ envLock = Free
    /\ ran' = [ran EXCEPT ![r] = @ + 1]
    /\ AfterMod(t, [thread[t] EXCEPT !.callbacks = @ \ {r}])
    /\ UNCHANGED <<tableVars, worldVars, signal, stop, queueLock, asked>>

\* emerge_area, called by a mod in this thread.
Ask(t, b) ==
    /\ thread[t].pc = "ask"
    /\ Enqueue(b, NoPeer, TRUE, TRUE)
    /\ envLock' = Free
    /\ Goto(t, "report")
    /\ UNCHANGED <<worldVars, stop, queueLock, ran>>

\* All callbacks were run; the changed blocks are reported (module BlockTransfer).
Reported(t) ==
    /\ thread[t].pc = "report"
    /\ thread[t].callbacks = {}
    /\ thread' = [thread EXCEPT ![t] = Idle]
    /\ UNCHANGED <<tableVars, worldVars, signal, stop, lockVars, bookVars>>

\* cancelPendingItems keeps m_queue_mutex until the queue is empty.
BeginCancel(t) ==
    /\ thread[t].pc = "cancel"
    /\ queueLock = Free
    /\ queueLock' = t
    /\ Goto(t, "cancelling")
    /\ UNCHANGED <<tableVars, worldVars, signal, stop, envLock, bookVars>>

CancelNext(t) ==
    /\ thread[t].pc = "cancelling"
    /\ thread[t].callbacks = {}
    /\ IF queue[t] = <<>>
       THEN /\ queueLock' = Free
            /\ Goto(t, "ended")
            /\ UNCHANGED tableVars
       ELSE LET b == Head(queue[t])
            IN  /\ queue' = [queue EXCEPT ![t] = Tail(@)]
                /\ PopData(b)
                /\ thread' = [thread EXCEPT ![t].callbacks = enqueued[b].callbacks]
                /\ UNCHANGED queueLock
    /\ UNCHANGED <<worldVars, signal, stop, envLock, bookVars>>

Work(t) ==
    \/ CheckStop(t) \/ Pop(t) \/ Wake(t) \/ Look(t) \/ Load(t) \/ Decide(t) 
    \/ FinishGen(t)
    \/ \E r \in Request : RunCallback(t, r)
    \/ \E b \in Block : Ask(t, b)
    \/ Reported(t) \/ BeginCancel(t) \/ CancelNext(t)

-----------------------------------------------------------------------------
(* The rest of the server. *)

\* The server unloads and saves a block that no thread is making.
Unload(b) ==
    /\ Running /\ envLock = Free
    /\ b \in Unloadable /\ memory[b] # "none"
    /\ \A t \in Thread : thread[t].pc # "make"
    /\ memory' = [memory EXCEPT ![b] = "none"]
    /\ disk' = IF memory[b] = "generated" THEN [disk EXCEPT ![b] = "generated"] ELSE disk
    /\ UNCHANGED <<tableVars, inProgress, thread, signal, stop, lockVars, bookVars>>

\* EmergeManager::stopThreads, when the server thread has ended: one after the other.
\* The faulty form leaves a waiting thread asleep.
StopThreadAsleep(t) ==
    /\ ~stop[t]
    /\ \A u \in 1..(t - 1) : stop[u]
    /\ stop' = [stop EXCEPT ![t] = TRUE]
    /\ UNCHANGED <<tableVars, worldVars, thread, signal, lockVars, bookVars>>

StopThread(t) ==
    /\ ~stop[t]
    /\ \A u \in 1..(t - 1) : stop[u]
    /\ stop' = [stop EXCEPT ![t] = TRUE]
    /\ signal' = [signal EXCEPT ![t] = TRUE]
    /\ UNCHANGED <<tableVars, worldVars, thread, lockVars, bookVars>>

Next ==
    \/ \E b \in Block, p \in Peer \cup {NoPeer}, gen \in BOOLEAN : AskForClient(b, p, gen)
    \/ \E b \in Block : EmergeArea(b) \/ Unload(b)
    \/ \E t \in Thread : Work(t) \/ StopThread(t)

Spec == Init /\ [][Next]_vars

\* Threads run, and a stop that was begun is gone through; nobody has to ask, to unload
\* or to stop.
FairSpec ==
    /\ Spec
    /\ \A t \in Thread : WF_vars(Work(t)) /\ WF_vars(~Running /\ StopThread(t))

-----------------------------------------------------------------------------
(* Properties. *)

\* A callback handed to emerge_area is at every time in one place: with the request
\* in the table, in the hands of one thread, or run, once (enqueueBlockEmergeEx,
\* popBlockEmergeData, runCompletionCallbacks, cancelPendingItems).
CallbacksOnce ==
    \A r \in 1..Len(asked) :
        asked[r].callback /\ asked[r].block \notin OverLimit =>
            ran[r] + Cardinality({b \in DOMAIN enqueued : r \in enqueued[b].callbacks})
                   + Cardinality({t \in Thread : r \in thread[t].callbacks}) = 1

\* m_blocks_enqueued, the queues of the threads and m_peer_queue_count say the same: a
\* block with a request waits at one place of one queue, and the counts by which peers
\* are limited come back to 0.
BooksAgree ==
    /\ \A b \in Block :
         Cardinality({p \in Thread \X (1..Cardinality(Block)) :
                        p[2] \in DOMAIN queue[p[1]] /\ queue[p[1]][p[2]] = b})
           = (IF b \in DOMAIN enqueued THEN 1 ELSE 0)
    /\ \A p \in Peer \cup {NoPeer} :
         peerCount[p] = Cardinality({b \in DOMAIN enqueued : enqueued[b].peer = p})

\* No two threads make the same chunk, though blocks of one chunk are in the queues of
\* both (m_chunks_in_progress), and a block is not unloaded while its chunk is made.
OneMakerPerChunk ==
    \A t \in Thread : thread[t].pc = "make" =>
        /\ \A u \in Thread \ {t} : thread[u].pc = "make" => ChunkAt(u) # ChunkAt(t)
        /\ ChunkAt(t) \in inProgress
        /\ \A b \in Block : ChunkOf[b] = ChunkAt(t) => memory[b] # "none"

\* Every callback runs in the end, while the server runs: no wake-up of a thread is lost.
EveryCallbackRuns ==
    \A r \in Request :
        (/\ r \in 1..Len(asked) /\ asked[r].callback /\ asked[r].block \notin OverLimit)
            ~> (ran[r] = 1 \/ ~Running)

\* A block that was asked for with generation allowed is there in the end, also if
\* an earlier request for it forbade generation, or its chunk was being made for
\* another block when its turn came.
WantedIsMade ==
    \A b \in Block \ OverLimit : ChunkOf[b] \notin AtMapgenLimit =>
        ((\E r \in 1..Len(asked) : asked[r].block = b /\ asked[r].gen)
            ~> ("generated" \in {memory[b], disk[b]} \/ ~Running))

AllEnded == \A t \in Thread : thread[t].pc = "ended"
AsksWhileStopping == ~Running /\ \E t \in Thread : thread[t].pc = "ask"

\* A stop ends every thread, wherever it was caught, unless a mod asks for more
\* in a callback after the stop began.
StopEndsUnlessModsAsk == ~Running ~> (AllEnded \/ AsksWhileStopping)

\* "Stop all emerge activity and finish off mapgen callbacks" (server.cpp).
StopEnds == ~Running ~> AllEnded
=============================================================================
