----------------------------- MODULE EmergeProofs -----------------------------
(****************************************************************************)
(* For any blocks, chunks and peers and any number of threads: types, one   *)
(* maker per chunk, the agreement of table, queues and counts, and one      *)
(* place for every callback.                                                *)
(*                                                                          *)
(* The argument. A position is in the table exactly when it is in one       *)
(* queue, at one place, because a request for one that is in the table adds *)
(* to the entry and makes none; the counts are those of the entries. A      *)
(* callback that has not run is with the entry of its block or with one     *)
(* thread, for an entry is taken out of the table whole and a thread        *)
(* between two requests holds none. A thread makes a chunk only after it    *)
(* has put it into m_chunks_in_progress, where it has not been, and takes   *)
(* it out at the end.                                                       *)
(****************************************************************************)
EXTENDS Emerge, RecursionFacts, FiniteSetTheorems, SequenceTheorems

Memory == [Block -> {"none", "blank", "generated"}]
EmergeThread ==
    [pc : {"check", "pop", "wait", "look", "load", "decide", "make", "report",
           "ask", "cancel", "cancelling", "ended"},
     block : SUBSET Block, gen : BOOLEAN, callbacks : SUBSET Request,
     data : {"none", "generated"}]
AskedFor == [block : Block, gen : BOOLEAN, callback : BOOLEAN]

\* TypeOK with counts that may be negative; BooksAgree says that they are not.
Types ==
    /\ DOMAIN enqueued \subseteq Block
    /\ \A b \in DOMAIN enqueued : enqueued[b] \in EmergeData
    /\ peerCount \in [Peer \cup {NoPeer} -> Int]
    /\ queue \in [Thread -> Seq(Block)]
    /\ memory \in Memory
    /\ disk \in [Block -> {"none", "generated"}]
    /\ inProgress \subseteq Chunk
    /\ thread \in [Thread -> EmergeThread]
    /\ signal \in [Thread -> BOOLEAN] /\ stop \in [Thread -> BOOLEAN]
    /\ envLock \in Thread \cup {Free} /\ queueLock \in Thread \cup {Free}
    /\ asked \in Seq(AskedFor) /\ Len(asked) =< MaxRequests
    /\ ran \in [Request -> Nat]

\* The requests of a peer in the table.
RequestsOf(p) == {b \in DOMAIN enqueued : enqueued[b].peer = p}

\* What waits in a queue is in the table, everything in the table waits, and at one
\* place only.
QueuesInv ==
    /\ \A t \in Thread : \A i \in DOMAIN queue[t] : queue[t][i] \in DOMAIN enqueued
    /\ \A b \in DOMAIN enqueued : \E t \in Thread : \E i \in DOMAIN queue[t] : queue[t][i] = b
    /\ \A t, u \in Thread : \A i \in DOMAIN queue[t], j \in DOMAIN queue[u] :
         queue[t][i] = queue[u][j] => t = u /\ i = j

CountsInv == \A p \in Peer \cup {NoPeer} : peerCount[p] = Cardinality(RequestsOf(p))

\* A callback is of a request that was made, for the block it is kept with, has not run,
\* and is nowhere else; it is lost only with a block beyond the limit.
CallbacksInv ==
    /\ \A b \in DOMAIN enqueued : \A r \in enqueued[b].callbacks :
         /\ r =< Len(asked) /\ asked[r].block = b /\ ran[r] = 0
         /\ \A t \in Thread : r \notin thread[t].callbacks
    /\ \A t \in Thread : \A r \in thread[t].callbacks :
         /\ r =< Len(asked) /\ ran[r] = 0
         /\ \A u \in Thread \ {t} : r \notin thread[u].callbacks
    /\ \A r \in Request : r > Len(asked) => ran[r] = 0
    /\ \A r \in 1..Len(asked) : asked[r].callback /\ asked[r].block \notin OverLimit =>
         \/ ran[r] = 1
         \/ asked[r].block \in DOMAIN enqueued /\ r \in enqueued[asked[r].block].callbacks
         \/ \E t \in Thread : r \in thread[t].callbacks

\* A thread between two requests has nothing to call, one that works has a block.
ThreadsInv ==
    \A t \in Thread :
        /\ thread[t].pc \in {"check", "pop", "wait", "cancel", "ended"} => thread[t].callbacks = {}
        /\ thread[t].pc \in {"look", "load", "decide", "make"} =>
             \E b \in Block : thread[t].block = {b}

IInv == Types /\ QueuesInv /\ CountsInv /\ CallbacksInv /\ ThreadsInv /\ OneMakerPerChunk

-----------------------------------------------------------------------------
(* Sets of numbers and queues.                                               *)

\* getOptimalThread finds one.
LEMMA OptimalThreadExists ==
    ASSUME queue \in [Thread -> Seq(Block)]
    PROVE  OptimalThread \in Thread
<1> DEFINE lengths == {Len(queue[t]) : t \in Thread}
<1>1. Thread \subseteq Nat /\ 1 \in Thread
  BY EmergeAssumption DEF Thread
<1>2. /\ \A t \in Thread : Len(queue[t]) \in Nat /\ Len(queue[t]) \in lengths
      /\ lengths \subseteq Nat /\ lengths # {}
  <2>1. \A t \in Thread : queue[t] \in Seq(Block)
    OBVIOUS
  <2>2. \A t \in Thread : Len(queue[t]) \in Nat
    BY <2>1, LenProperties
  <2> QED BY <1>1, <2>2
<1> HIDE DEF lengths
<1>3. PICK n \in lengths : \A m \in lengths : n =< m
  BY <1>2, SmallestNumber
<1> DEFINE shortest == {t \in Thread : Len(queue[t]) = n}
<1>4. shortest \subseteq Nat /\ shortest # {}
  BY <1>1, <1>3 DEF lengths
<1>5. PICK t \in shortest : \A u \in shortest : t =< u
  BY <1>4, SmallestNumber
<1>6. \A u \in Thread : \/ Len(queue[t]) < Len(queue[u])
                        \/ Len(queue[t]) = Len(queue[u]) /\ t =< u
  <2> SUFFICES ASSUME NEW u \in Thread
               PROVE  \/ Len(queue[t]) < Len(queue[u])
                      \/ Len(queue[t]) = Len(queue[u]) /\ t =< u
    OBVIOUS
  <2>1. Len(queue[t]) = n /\ n =< Len(queue[u]) /\ n \in Nat /\ Len(queue[u]) \in Nat
    BY <1>2, <1>3, <1>5
  <2>2. Len(queue[u]) = n => t =< u
    BY <1>5
  <2> QED BY <2>1, <2>2
<1> QED BY <1>5, <1>6 DEF OptimalThread

\* The requests are finitely many.
LEMMA RequestsFinite ==
    ASSUME Types, NEW p
    PROVE  IsFiniteSet(RequestsOf(p)) /\ Cardinality(RequestsOf(p)) \in Nat
<1>1. RequestsOf(p) \in SUBSET Block
  BY DEF Types, RequestsOf
<1> QED BY <1>1, EmergeAssumption, FS_Subset, FS_CardinalityType

\* The elements of a sequence with one more, and of one with the first one less.
LEMMA AppendElements ==
    ASSUME NEW s \in Seq(Block), NEW b \in Block
    PROVE  /\ Append(s, b) \in Seq(Block)
           /\ DOMAIN Append(s, b) = DOMAIN s \cup {Len(s) + 1} /\ Len(s) + 1 \notin DOMAIN s
           /\ \A i \in DOMAIN s : Append(s, b)[i] = s[i]
           /\ Append(s, b)[Len(s) + 1] = b
OBVIOUS

LEMMA TailElements ==
    ASSUME NEW s \in Seq(Block), s # <<>>
    PROVE  /\ Tail(s) \in Seq(Block) /\ Head(s) = s[1] /\ 1 \in DOMAIN s
           /\ \A i \in DOMAIN Tail(s) : i + 1 \in DOMAIN s /\ Tail(s)[i] = s[i + 1] /\ i + 1 # 1
           /\ \A i, j \in DOMAIN Tail(s) : i + 1 = j + 1 => i = j
           /\ \A j \in DOMAIN s \ {1} : \E i \in DOMAIN Tail(s) : i + 1 = j
<1>1. /\ Tail(s) \in Seq(Block) /\ Head(s) = s[1] /\ 1 \in DOMAIN s
      /\ DOMAIN s = 1..Len(s) /\ DOMAIN Tail(s) = 1..(Len(s) - 1) /\ Len(s) \in Nat
      /\ \A i \in DOMAIN Tail(s) : Tail(s)[i] = s[i + 1]
  OBVIOUS
<1>2. ASSUME NEW j \in DOMAIN s \ {1} PROVE \E i \in DOMAIN Tail(s) : i + 1 = j
  <2>1. j - 1 \in DOMAIN Tail(s) /\ (j - 1) + 1 = j
    BY <1>1
  <2> QED BY <2>1
<1> QED BY <1>1, <1>2

-----------------------------------------------------------------------------
(* Init.                                                                     *)

LEMMA InitInvariant ==
    Init => IInv
<1> SUFFICES ASSUME Init PROVE IInv
  OBVIOUS
<1> USE DEF Init
<1>1. Types
  BY EmergeAssumption DEF Types, Empty, Memory, EmergeThread, Idle
<1>2. QueuesInv
  BY DEF QueuesInv, Empty
<1>3. CountsInv
  <2>1. \A p : RequestsOf(p) = {}
    BY DEF RequestsOf, Empty
  <2> QED BY <2>1, FS_EmptySet DEF CountsInv
<1>4. CallbacksInv
  <2>1. Len(asked) = 0 /\ DOMAIN enqueued = {}
    BY DEF Empty
  <2> HIDE DEF Init
  <2>2. 1..Len(asked) = {}
    BY <2>1
  <2>3. (\A r \in Request : ran[r] = 0) /\ \A t \in Thread : thread[t].callbacks = {}
    BY DEF Init, Idle
  <2> QED BY <2>1, <2>2, <2>3 DEF CallbacksInv
<1>5. ThreadsInv /\ OneMakerPerChunk
  BY DEF ThreadsInv, OneMakerPerChunk, Idle
<1> QED BY <1>1, <1>2, <1>3, <1>4, <1>5 DEF IInv

-----------------------------------------------------------------------------
(* The table of requests.                                                    *)

\* What enqueueBlockEmergeEx does to the tables, whoever calls it.
LEMMA EnqueueStep ==
    ASSUME IInv, NEW b \in Block, NEW peer \in Peer \cup {NoPeer}, NEW gen \in BOOLEAN,
           NEW callback \in BOOLEAN, Enqueue(b, peer, gen, callback),
           ran' = ran, \A t \in Thread : thread'[t].callbacks = thread[t].callbacks
    PROVE  /\ DOMAIN enqueued' \subseteq Block
           /\ \A x \in DOMAIN enqueued' : enqueued'[x] \in EmergeData
           /\ peerCount' \in [Peer \cup {NoPeer} -> Int]
           /\ queue' \in [Thread -> Seq(Block)]
           /\ signal' \in [Thread -> BOOLEAN]
           /\ asked' \in Seq(AskedFor) /\ Len(asked') =< MaxRequests
           /\ QueuesInv' /\ CountsInv' /\ CallbacksInv'
<1> DEFINE n == Len(asked) + 1
           cbs == IF callback THEN {n} ELSE {}
           request == [block |-> b, gen |-> gen, callback |-> callback]
<1>1. /\ n \in Request /\ asked' = Append(asked, request)
      /\ IF b \in DOMAIN enqueued THEN AddToEntry(b, gen, cbs) ELSE NewEntry(b, peer, gen, cbs)
  BY DEF Enqueue
<1>2. asked \in Seq(AskedFor) /\ request \in AskedFor /\ cbs \subseteq Request
  BY <1>1 DEF IInv, Types, AskedFor
<1>3. /\ asked' \in Seq(AskedFor) /\ Len(asked') = n /\ asked'[n] = request
      /\ \A r \in 1..Len(asked) : asked'[r] = asked[r]
      /\ n \in Nat /\ Len(asked) \in Nat /\ Len(asked) < n
      /\ 1..Len(asked') = 1..Len(asked) \cup {n} /\ Len(asked') =< MaxRequests
  BY <1>1, <1>2, EmergeAssumption DEF Request
<1>4. \A r \in cbs : r = n
  OBVIOUS
<1>5. request.block = b /\ request.callback = callback /\ (callback => n \in cbs)
  OBVIOUS
<1> HIDE DEF request, cbs
<1>6. /\ \A x \in DOMAIN enqueued : \A r \in enqueued[x].callbacks :
           /\ r \in 1..Len(asked) /\ asked[r].block = x /\ ran[r] = 0
           /\ \A t \in Thread : r \notin thread[t].callbacks
      /\ \A t \in Thread : \A r \in thread[t].callbacks :
           /\ r \in 1..Len(asked) /\ ran[r] = 0
           /\ \A u \in Thread \ {t} : r \notin thread[u].callbacks
      /\ ran[n] = 0
  <2>1. ASSUME NEW x \in DOMAIN enqueued, NEW r \in enqueued[x].callbacks
        PROVE  r \in 1..Len(asked)
    BY <1>3 DEF IInv, Types, EmergeData, Request, CallbacksInv
  <2>2. ASSUME NEW t \in Thread, NEW r \in thread[t].callbacks
        PROVE  r \in 1..Len(asked)
    BY <1>3 DEF IInv, Types, EmergeThread, Request, CallbacksInv
  <2>3. ran[n] = 0
    BY <1>1, <1>3 DEF IInv, CallbacksInv
  <2> QED BY <2>1, <2>2, <2>3 DEF IInv, CallbacksInv
<1> HIDE DEF n
<1>7. CASE b \in DOMAIN enqueued
  <2>1. /\ AddToEntry(b, gen, cbs) /\ UNCHANGED <<peerCount, queue, signal>>
        /\ DOMAIN enqueued' = DOMAIN enqueued
        /\ \A x \in DOMAIN enqueued : x # b => enqueued'[x] = enqueued[x]
    BY <1>1, <1>7 DEF AddToEntry
  <2>2. enqueued'[b] = [peer |-> enqueued[b].peer, gen |-> enqueued[b].gen \/ gen,
                        callbacks |-> enqueued[b].callbacks \cup cbs]
    <3>1. enqueued[b] = [peer |-> enqueued[b].peer, gen |-> enqueued[b].gen,
                         callbacks |-> enqueued[b].callbacks]
      BY <1>7 DEF IInv, Types, EmergeData
    <3> QED BY <1>7, <2>1, <3>1 DEF AddToEntry
  <2>3. \A x \in DOMAIN enqueued : enqueued'[x].peer = enqueued[x].peer
    BY <2>1, <2>2
  <2>4. enqueued'[b] \in EmergeData
    <3>1. /\ enqueued[b].peer \in Peer \cup {NoPeer} /\ enqueued[b].callbacks \subseteq Request
      BY <1>7 DEF IInv, Types, EmergeData
    <3>2. (enqueued[b].gen \/ gen) \in BOOLEAN
      OBVIOUS
    <3> QED BY <1>2, <2>2, <3>1, <3>2 DEF EmergeData
  <2>5. QueuesInv'
    BY <2>1 DEF IInv, QueuesInv
  <2>6. CountsInv'
    <3>1. \A p : RequestsOf(p)' = RequestsOf(p)
      BY <2>1, <2>3 DEF RequestsOf
    <3> QED BY <2>1, <3>1 DEF IInv, CountsInv
  <2>7. CallbacksInv'
    <3>1. \A x \in DOMAIN enqueued : \A r \in enqueued'[x].callbacks :
              r \in enqueued[x].callbacks \/ (r = n /\ x = b)
      BY <1>4, <2>1, <2>2
    <3>2. \A x \in DOMAIN enqueued : enqueued[x].callbacks \subseteq enqueued'[x].callbacks
      BY <2>1, <2>2
    <3>3. \A t \in Thread : n \notin thread[t].callbacks
      BY <1>3, <1>6
    <3>4. callback => n \in enqueued'[b].callbacks
      BY <1>5, <2>2
    <3>5. \A x \in DOMAIN enqueued' : \A r \in enqueued'[x].callbacks :
              /\ r =< Len(asked') /\ asked'[r].block = x /\ ran'[r] = 0
              /\ \A t \in Thread : r \notin thread'[t].callbacks
      BY <1>3, <1>5, <1>6, <2>1, <3>1, <3>3
    <3>6. \A t \in Thread : \A r \in thread'[t].callbacks :
              /\ r =< Len(asked') /\ ran'[r] = 0
              /\ \A u \in Thread \ {t} : r \notin thread'[u].callbacks
      BY <1>3, <1>6
    <3>7. \A r \in Request : r > Len(asked') => ran'[r] = 0
      BY <1>3 DEF IInv, CallbacksInv, Request
    <3>8. ASSUME NEW r \in 1..Len(asked'), asked'[r].callback, asked'[r].block \notin OverLimit
          PROVE  \/ ran'[r] = 1
                 \/ asked'[r].block \in DOMAIN enqueued' /\ r \in enqueued'[asked'[r].block].callbacks
                 \/ \E t \in Thread : r \in thread'[t].callbacks
      <4>1. CASE r = n
        BY <1>3, <1>5, <1>7, <2>1, <3>4, <3>8, <4>1
      <4>2. CASE r # n
        <5>1. r \in 1..Len(asked) /\ asked'[r] = asked[r]
          BY <1>3, <4>2
        <5> QED BY <2>1, <3>2, <3>8, <5>1 DEF IInv, CallbacksInv
      <4> QED BY <4>1, <4>2
    <3> QED BY <3>5, <3>6, <3>7, <3>8 DEF CallbacksInv
  <2> QED BY <1>3, <2>1, <2>4, <2>5, <2>6, <2>7 DEF IInv, Types
<1>8. CASE b \notin DOMAIN enqueued
  <2> DEFINE o == OptimalThread
             data == [peer |-> peer, gen |-> gen, callbacks |-> cbs]
  <2>1. /\ DOMAIN enqueued' = DOMAIN enqueued \cup {b}
        /\ enqueued'[b] = data
        /\ \A x \in DOMAIN enqueued : x # b /\ enqueued'[x] = enqueued[x]
        /\ peerCount' = [peerCount EXCEPT ![peer] = @ + 1]
        /\ queue' = [queue EXCEPT ![o] = Append(@, b)]
        /\ signal' = [signal EXCEPT ![o] = TRUE]
    BY <1>1, <1>8 DEF NewEntry, InsertEntry
  <2>2. data \in EmergeData /\ data.peer = peer /\ data.callbacks = cbs
    BY <1>2 DEF EmergeData
  <2>3. o \in Thread /\ queue \in [Thread -> Seq(Block)]
    BY OptimalThreadExists DEF IInv, Types
  <2> HIDE DEF o, data
  <2> DEFINE k == Len(queue[o]) + 1
  <2>4. /\ queue' \in [Thread -> Seq(Block)]
        /\ \A t \in Thread : t # o => queue'[t] = queue[t]
        /\ DOMAIN queue'[o] = DOMAIN queue[o] \cup {k} /\ k \notin DOMAIN queue[o]
        /\ \A i \in DOMAIN queue[o] : queue'[o][i] = queue[o][i]
        /\ queue'[o][k] = b
    BY <2>1, <2>3, AppendElements
  <2> HIDE DEF k
  <2>5. \A t \in Thread : \A i \in DOMAIN queue[t] :
            i \in DOMAIN queue'[t] /\ queue'[t][i] = queue[t][i]
    BY <2>3, <2>4
  <2>6. \A t \in Thread : \A i \in DOMAIN queue'[t] :
            \/ i \in DOMAIN queue[t] /\ queue'[t][i] = queue[t][i]
            \/ t = o /\ i = k /\ queue'[t][i] = b
    BY <2>3, <2>4
  <2>7. \A t \in Thread : \A i \in DOMAIN queue[t] : queue[t][i] # b
    BY <1>8 DEF IInv, QueuesInv
  <2>8. QueuesInv'
    <3>1. \A t \in Thread : \A i \in DOMAIN queue'[t] : queue'[t][i] \in DOMAIN enqueued'
      BY <2>1, <2>6 DEF IInv, QueuesInv
    <3>2. \A x \in DOMAIN enqueued' : \E t \in Thread : \E i \in DOMAIN queue'[t] : queue'[t][i] = x
      BY <2>1, <2>3, <2>4, <2>5 DEF IInv, QueuesInv
    <3>3. ASSUME NEW t \in Thread, NEW u \in Thread, NEW i \in DOMAIN queue'[t],
                 NEW j \in DOMAIN queue'[u], queue'[t][i] = queue'[u][j]
          PROVE  t = u /\ i = j
      BY <2>6, <2>7, <3>3 DEF IInv, QueuesInv
    <3> QED BY <3>1, <3>2, <3>3 DEF QueuesInv
  <2>9. CountsInv'
    <3> SUFFICES ASSUME NEW p \in Peer \cup {NoPeer}
                 PROVE  peerCount'[p] = Cardinality(RequestsOf(p)')
      BY DEF CountsInv
    <3>1. RequestsOf(p)' = IF p = peer THEN RequestsOf(p) \cup {b} ELSE RequestsOf(p)
      BY <2>1, <2>2 DEF RequestsOf
    <3>2. b \notin RequestsOf(p) /\ IsFiniteSet(RequestsOf(p))
      BY <1>8, RequestsFinite DEF IInv, RequestsOf
    <3>3. Cardinality(RequestsOf(p) \cup {b}) = Cardinality(RequestsOf(p)) + 1
      BY <3>2, FS_AddElement
    <3>4. peerCount[p] = Cardinality(RequestsOf(p))
      BY DEF IInv, CountsInv
    <3> QED BY <2>1, <3>1, <3>3, <3>4 DEF IInv, Types
  <2>10. CallbacksInv'
    <3>1. \A x \in DOMAIN enqueued' : \A r \in enqueued'[x].callbacks :
              (x \in DOMAIN enqueued /\ r \in enqueued[x].callbacks) \/ (r = n /\ x = b)
      BY <1>4, <2>1, <2>2
    <3>2. \A t \in Thread : n \notin thread[t].callbacks
      BY <1>3, <1>6
    <3>3. callback => n \in enqueued'[b].callbacks
      BY <1>5, <2>1, <2>2
    <3>4. \A x \in DOMAIN enqueued' : \A r \in enqueued'[x].callbacks :
              /\ r =< Len(asked') /\ asked'[r].block = x /\ ran'[r] = 0
              /\ \A t \in Thread : r \notin thread'[t].callbacks
      BY <1>3, <1>5, <1>6, <3>1, <3>2
    <3>5. \A t \in Thread : \A r \in thread'[t].callbacks :
              /\ r =< Len(asked') /\ ran'[r] = 0
              /\ \A u \in Thread \ {t} : r \notin thread'[u].callbacks
      BY <1>3, <1>6
    <3>6. \A r \in Request : r > Len(asked') => ran'[r] = 0
      BY <1>3 DEF IInv, CallbacksInv, Request
    <3>7. ASSUME NEW r \in 1..Len(asked'), asked'[r].callback, asked'[r].block \notin OverLimit
          PROVE  \/ ran'[r] = 1
                 \/ asked'[r].block \in DOMAIN enqueued' /\ r \in enqueued'[asked'[r].block].callbacks
                 \/ \E t \in Thread : r \in thread'[t].callbacks
      <4>1. CASE r = n
        BY <1>3, <1>5, <2>1, <3>3, <3>7, <4>1
      <4>2. CASE r # n
        <5>1. r \in 1..Len(asked) /\ asked'[r] = asked[r]
          BY <1>3, <4>2
        <5> QED BY <2>1, <3>7, <5>1 DEF IInv, CallbacksInv
      <4> QED BY <4>1, <4>2
    <3> QED BY <3>4, <3>5, <3>6, <3>7 DEF CallbacksInv
  <2>11. /\ DOMAIN enqueued' \subseteq Block
         /\ \A x \in DOMAIN enqueued' : enqueued'[x] \in EmergeData
    BY <2>1, <2>2 DEF IInv, Types
  <2>12. peerCount' \in [Peer \cup {NoPeer} -> Int] /\ signal' \in [Thread -> BOOLEAN]
    <3>1. peerCount \in [Peer \cup {NoPeer} -> Int] /\ signal \in [Thread -> BOOLEAN]
      BY DEF IInv, Types
    <3>2. signal' \in [Thread -> BOOLEAN]
      BY <2>1, <3>1
    <3>3. peerCount' \in [Peer \cup {NoPeer} -> Int]
      BY <2>1, <3>1
    <3> QED BY <3>2, <3>3
  <2> QED BY <1>3, <2>4, <2>8, <2>9, <2>10, <2>11, <2>12
<1> QED BY <1>7, <1>8

\* What popBlockEmergeData does to the tables: the request of the first block in the
\* queue of t goes to t, or is dropped if the block is beyond the limit.
LEMMA PopDataStep ==
    ASSUME IInv, NEW t \in Thread, queue[t] # <<>>, NEW b, b = Head(queue[t]),
           queue' = [queue EXCEPT ![t] = Tail(@)], PopData(b),
           thread[t].callbacks = {},
           \/ thread'[t].callbacks = enqueued[b].callbacks
           \/ b \in OverLimit /\ thread'[t].callbacks = {},
           \A u \in Thread \ {t} : thread'[u].callbacks = thread[u].callbacks,
           UNCHANGED <<asked, ran>>
    PROVE  /\ b \in Block /\ enqueued[b] \in EmergeData
           /\ DOMAIN enqueued' \subseteq Block
           /\ \A x \in DOMAIN enqueued' : enqueued'[x] \in EmergeData
           /\ peerCount' \in [Peer \cup {NoPeer} -> Int]
           /\ queue' \in [Thread -> Seq(Block)]
           /\ QueuesInv' /\ CountsInv' /\ CallbacksInv'
<1> DEFINE q == queue[t]
<1>1. q \in Seq(Block) /\ q # <<>> /\ queue \in [Thread -> Seq(Block)]
  BY DEF IInv, Types
<1>2. /\ Tail(q) \in Seq(Block) /\ b = q[1] /\ 1 \in DOMAIN q
      /\ \A i \in DOMAIN Tail(q) : i + 1 \in DOMAIN q /\ Tail(q)[i] = q[i + 1] /\ i + 1 # 1
      /\ \A i, j \in DOMAIN Tail(q) : i + 1 = j + 1 => i = j
      /\ \A j \in DOMAIN q \ {1} : \E i \in DOMAIN Tail(q) : i + 1 = j
  BY <1>1, TailElements
<1>3. /\ queue' \in [Thread -> Seq(Block)]
      /\ queue'[t] = Tail(q) /\ \A u \in Thread \ {t} : queue'[u] = queue[u]
  BY <1>1, <1>2
<1>4. b \in DOMAIN enqueued /\ b \in Block /\ enqueued[b] \in EmergeData
  BY <1>2 DEF IInv, QueuesInv, Types
<1>5. /\ DOMAIN enqueued' = DOMAIN enqueued \ {b}
      /\ \A x \in DOMAIN enqueued' : enqueued'[x] = enqueued[x]
      /\ peerCount' = [peerCount EXCEPT ![enqueued[b].peer] = @ - 1]
  BY DEF PopData
<1>6. QueuesInv'
  <2>1. \A u \in Thread : \A i \in DOMAIN queue'[u] : \E j \in DOMAIN queue[u] :
            queue'[u][i] = queue[u][j] /\ (u = t => j = i + 1 /\ j # 1) /\ (u # t => j = i)
    BY <1>2, <1>3
  <2>2. ASSUME NEW u \in Thread, NEW i \in DOMAIN queue'[u] PROVE queue'[u][i] \in DOMAIN enqueued'
    <3>1. PICK j \in DOMAIN queue[u] : queue'[u][i] = queue[u][j] /\ (u = t => j # 1)
      BY <2>1
    <3>2. queue[u][j] # b
      BY <1>2, <3>1 DEF IInv, QueuesInv
    <3> QED BY <1>5, <3>1, <3>2 DEF IInv, QueuesInv
  <2>3. ASSUME NEW x \in DOMAIN enqueued'
        PROVE  \E u \in Thread : \E i \in DOMAIN queue'[u] : queue'[u][i] = x
    <3>1. PICK u \in Thread : \E j \in DOMAIN queue[u] : queue[u][j] = x
      BY <1>5 DEF IInv, QueuesInv
    <3>2. PICK j \in DOMAIN queue[u] : queue[u][j] = x
      BY <3>1
    <3>3. CASE u = t
      <4>1. j \in DOMAIN q \ {1}
        BY <1>2, <1>5, <3>2, <3>3
      <4>2. PICK i \in DOMAIN Tail(q) : i + 1 = j
        BY <1>2, <4>1
      <4> QED BY <1>2, <1>3, <3>2, <3>3, <4>2
    <3>4. CASE u # t
      BY <1>3, <3>2, <3>4
    <3> QED BY <3>3, <3>4
  <2>4. ASSUME NEW u \in Thread, NEW v \in Thread, NEW i \in DOMAIN queue'[u],
               NEW j \in DOMAIN queue'[v], queue'[u][i] = queue'[v][j]
        PROVE  u = v /\ i = j
    <3>1. PICK k \in DOMAIN queue[u] : queue'[u][i] = queue[u][k]
                                       /\ (u = t => k = i + 1) /\ (u # t => k = i)
      BY <2>1
    <3>2. PICK l \in DOMAIN queue[v] : queue'[v][j] = queue[v][l]
                                       /\ (v = t => l = j + 1) /\ (v # t => l = j)
      BY <2>1
    <3>3. u = v /\ k = l
      BY <2>4, <3>1, <3>2 DEF IInv, QueuesInv
    <3>4. CASE u = t
      BY <1>2, <1>3, <3>1, <3>2, <3>3, <3>4
    <3>5. CASE u # t
      BY <3>1, <3>2, <3>3, <3>5
    <3> QED BY <3>3, <3>4, <3>5
  <2> QED BY <2>2, <2>3, <2>4 DEF QueuesInv
<1>7. CountsInv'
  <2> SUFFICES ASSUME NEW p \in Peer \cup {NoPeer}
               PROVE  peerCount'[p] = Cardinality(RequestsOf(p)')
    BY DEF CountsInv
  <2>1. RequestsOf(p)' = RequestsOf(p) \ {b}
    BY <1>5 DEF RequestsOf
  <2>2. b \in RequestsOf(p) <=> p = enqueued[b].peer
    BY <1>4 DEF RequestsOf
  <2>3. IsFiniteSet(RequestsOf(p))
    BY RequestsFinite DEF IInv
  <2>4. Cardinality(RequestsOf(p) \ {b}) = IF b \in RequestsOf(p)
                                           THEN Cardinality(RequestsOf(p)) - 1
                                           ELSE Cardinality(RequestsOf(p))
    BY <2>3, FS_RemoveElement
  <2>5. peerCount[p] = Cardinality(RequestsOf(p)) /\ p \in DOMAIN peerCount
    BY DEF IInv, CountsInv, Types
  <2> QED BY <1>5, <2>1, <2>2, <2>4, <2>5
<1>8. CallbacksInv'
  <2>1. \A u \in Thread : \A r \in thread'[u].callbacks :
            r \in thread[u].callbacks \/ (u = t /\ r \in enqueued[b].callbacks)
    OBVIOUS
  <2>2. \A r \in enqueued[b].callbacks : \A x \in DOMAIN enqueued \ {b} :
            r \notin enqueued[x].callbacks
    BY <1>4 DEF IInv, CallbacksInv
  <2>3. \A x \in DOMAIN enqueued' : \A r \in enqueued'[x].callbacks :
            /\ r =< Len(asked') /\ asked'[r].block = x /\ ran'[r] = 0
            /\ \A u \in Thread : r \notin thread'[u].callbacks
    BY <1>5, <2>1, <2>2 DEF IInv, CallbacksInv
  <2>4. \A u \in Thread : \A r \in thread'[u].callbacks :
            /\ r =< Len(asked') /\ ran'[r] = 0
            /\ \A v \in Thread \ {u} : r \notin thread'[v].callbacks
    BY <1>4, <2>1 DEF IInv, CallbacksInv
  <2>5. ASSUME NEW r \in 1..Len(asked), asked[r].callback, asked[r].block \notin OverLimit
        PROVE  \/ ran[r] = 1
               \/ asked[r].block \in DOMAIN enqueued' /\ r \in enqueued'[asked[r].block].callbacks
               \/ \E u \in Thread : r \in thread'[u].callbacks
    <3>1. CASE asked[r].block \in DOMAIN enqueued /\ r \in enqueued[asked[r].block].callbacks
      <4>1. CASE asked[r].block = b
        BY <2>5, <3>1, <4>1
      <4>2. CASE asked[r].block # b
        BY <1>5, <3>1, <4>2
      <4> QED BY <4>1, <4>2
    <3>2. CASE \E u \in Thread : r \in thread[u].callbacks
      BY <3>2
    <3> QED BY <2>5, <3>1, <3>2 DEF IInv, CallbacksInv
  <2> QED BY <2>3, <2>4, <2>5 DEF IInv, CallbacksInv
<1>9. peerCount' \in [Peer \cup {NoPeer} -> Int]
  <2>1. peerCount \in [Peer \cup {NoPeer} -> Int]
    BY DEF IInv, Types
  <2> DEFINE p == enqueued[b].peer
  <2>2. peerCount' = [peerCount EXCEPT ![p] = @ - 1]
    BY <1>5
  <2>3. p \in Peer \cup {NoPeer}
    BY <1>4 DEF EmergeData
  <2> HIDE DEF p
  <2>4. peerCount[p] - 1 \in Int
    BY <2>1, <2>3
  <2> QED BY <2>1, <2>2, <2>3, <2>4
<1> QED BY <1>3, <1>4, <1>5, <1>6, <1>7, <1>8, <1>9 DEF IInv, Types

-----------------------------------------------------------------------------
(* Steps of a thread that leave the tables alone.                            *)

\* A thread with another program counter.
LEMMA GotoFields ==
    ASSUME Types, NEW t \in Thread,
           NEW pc \in {"check", "pop", "wait", "look", "load", "decide", "make", "report",
                       "ask", "cancel", "cancelling", "ended"}
    PROVE  /\ [thread[t] EXCEPT !.pc = pc] \in EmergeThread
           /\ [thread[t] EXCEPT !.pc = pc].pc = pc
           /\ [thread[t] EXCEPT !.pc = pc].block = thread[t].block
           /\ [thread[t] EXCEPT !.pc = pc].callbacks = thread[t].callbacks
           /\ Goto(t, pc) => thread' = [thread EXCEPT ![t] = [thread[t] EXCEPT !.pc = pc]]
<1>1. thread[t] \in EmergeThread
  BY DEF Types
<1> QED BY <1>1 DEF EmergeThread, Goto

\* The block at hand tells the chunk.
LEMMA ChunkAtFields ==
    ASSUME Types, ThreadsInv, NEW t \in Thread,
           thread[t].pc \in {"look", "load", "decide", "make"}
    PROVE  BlockAt(t) \in Block /\ ChunkAt(t) \in Chunk /\ ChunkAt(t) = ChunkOf[BlockAt(t)]
BY EmergeAssumption DEF ThreadsInv, BlockAt, ChunkAt

\* Nothing takes a block out of the map, and a thread begins to make a chunk only after
\* it has claimed it and has its blocks.
LEMMA ThreadGoes ==
    ASSUME IInv, NEW t \in Thread, NEW th \in EmergeThread, thread' = [thread EXCEPT ![t] = th],
           th.callbacks = thread[t].callbacks,
           th.pc \in {"check", "pop", "wait", "cancel", "ended"} => th.callbacks = {},
           th.pc \in {"look", "load", "decide", "make"} => \E b \in Block : th.block = {b},
           UNCHANGED <<tableVars, disk, asked, ran>>,
           memory' \in Memory, \A b \in Block : memory[b] # "none" => memory'[b] # "none",
           inProgress \subseteq inProgress', inProgress' \subseteq Chunk,
           th.pc = "make" => /\ th.block = thread[t].block
                             /\ ChunkAt(t) \notin inProgress /\ ChunkAt(t) \in inProgress'
                             /\ \A b \in Block : memory'[b] # "none",
           signal' \in [Thread -> BOOLEAN], stop' \in [Thread -> BOOLEAN],
           envLock' \in Thread \cup {Free}, queueLock' \in Thread \cup {Free}
    PROVE  IInv'
<1> USE DEF IInv, tableVars
<1>1. /\ thread'[t] = th /\ \A u \in Thread \ {t} : thread'[u] = thread[u]
      /\ thread' \in [Thread -> EmergeThread]
  BY DEF Types
<1>2. Types'
  BY <1>1 DEF Types
<1>3. QueuesInv' /\ CountsInv'
  <2>1. \A p : RequestsOf(p)' = RequestsOf(p)
    BY DEF RequestsOf
  <2>2. CountsInv'
    BY <2>1 DEF CountsInv
  <2>3. QueuesInv'
    BY DEF QueuesInv
  <2> QED BY <2>2, <2>3
<1>4. CallbacksInv'
  <2>1. \A u \in Thread : thread'[u].callbacks = thread[u].callbacks
    BY <1>1
  <2> QED BY <2>1 DEF CallbacksInv
<1>5. ThreadsInv'
  BY <1>1 DEF ThreadsInv
<1>6. OneMakerPerChunk'
  <2>1. \A u \in Thread : thread'[u].block = thread[u].block => ChunkAt(u)' = ChunkAt(u)
    BY DEF ChunkAt, BlockAt
  <2>2. ASSUME NEW u \in Thread, u # t, thread'[u].pc = "make"
        PROVE  /\ thread[u].pc = "make" /\ ChunkAt(u)' = ChunkAt(u)
               /\ ChunkAt(u) \in inProgress
               /\ \A b \in Block : ChunkOf[b] = ChunkAt(u) => memory'[b] # "none"
    BY <1>1, <2>1, <2>2 DEF OneMakerPerChunk
  <2>3. ASSUME thread'[t].pc = "make"
        PROVE  /\ ChunkAt(t)' = ChunkAt(t) /\ ChunkAt(t) \notin inProgress
               /\ ChunkAt(t) \in inProgress' /\ \A b \in Block : memory'[b] # "none"
    BY <1>1, <2>1, <2>3
  <2>4. ASSUME NEW u \in Thread, NEW v \in Thread, u # v, thread'[u].pc = "make",
               thread'[v].pc = "make"
        PROVE  ChunkAt(u)' # ChunkAt(v)'
    <3>1. CASE u # t /\ v # t
      BY <2>2, <2>4, <3>1 DEF OneMakerPerChunk
    <3>2. CASE u = t \/ v = t
      BY <2>2, <2>3, <2>4, <3>2
    <3> QED BY <3>1, <3>2
  <2> QED BY <2>2, <2>3, <2>4 DEF OneMakerPerChunk
<1> QED BY <1>2, <1>3, <1>4, <1>5, <1>6

\* The form most steps have: another program counter, and perhaps a lock or a signal.
LEMMA ThreadMoves ==
    ASSUME IInv, NEW t \in Thread,
           NEW pc \in {"check", "pop", "wait", "look", "load", "decide", "report", "ask",
                       "cancel", "cancelling", "ended"},
           Goto(t, pc),
           pc \in {"check", "pop", "wait", "cancel", "ended"} => thread[t].callbacks = {},
           pc \in {"look", "load", "decide"} => \E b \in Block : thread[t].block = {b},
           UNCHANGED <<tableVars, worldVars, asked, ran>>,
           signal' \in [Thread -> BOOLEAN], stop' \in [Thread -> BOOLEAN],
           envLock' \in Thread \cup {Free}, queueLock' \in Thread \cup {Free}
    PROVE  IInv'
<1> DEFINE th == [thread[t] EXCEPT !.pc = pc]
<1>0. pc \in {"check", "pop", "wait", "look", "load", "decide", "make", "report", "ask",
             "cancel", "cancelling", "ended"}
  OBVIOUS
<1>1. /\ th \in EmergeThread /\ th.pc = pc /\ th.block = thread[t].block
      /\ th.callbacks = thread[t].callbacks /\ thread' = [thread EXCEPT ![t] = th]
  <2>1. thread[t] \in EmergeThread
    BY DEF IInv, Types
  <2>2. /\ [thread[t] EXCEPT !.pc = pc] \in EmergeThread
        /\ [thread[t] EXCEPT !.pc = pc].pc = pc
        /\ [thread[t] EXCEPT !.pc = pc].block = thread[t].block
        /\ [thread[t] EXCEPT !.pc = pc].callbacks = thread[t].callbacks
        /\ Goto(t, pc) => thread' = [thread EXCEPT ![t] = [thread[t] EXCEPT !.pc = pc]]
    BY <1>0, <2>1 DEF EmergeThread, Goto
  <2> QED BY <2>2
<1> HIDE DEF th
<1>2. /\ memory' \in Memory /\ memory' = memory
      /\ inProgress' = inProgress /\ inProgress \subseteq Chunk /\ disk' = disk
  BY DEF IInv, Types, worldVars
<1> QED BY <1>1, <1>2, ThreadGoes

LEMMA CheckStopStep ==
    ASSUME IInv, NEW t \in Thread, CheckStop(t)
    PROVE  IInv'
<1>1. PICK pc \in {"cancel", "pop"} : Goto(t, pc)
  BY DEF CheckStop
<1>2. thread[t].callbacks = {}
  BY DEF CheckStop, IInv, ThreadsInv
<1> QED BY <1>1, <1>2, ThreadMoves DEF CheckStop, IInv, Types, lockVars, bookVars

LEMMA WakeStep ==
    ASSUME IInv, NEW t \in Thread, Wake(t)
    PROVE  IInv'
<1>1. thread[t].callbacks = {} /\ Goto(t, "check")
  BY DEF Wake, IInv, ThreadsInv
<1>2. signal' \in [Thread -> BOOLEAN]
  BY DEF Wake, IInv, Types
<1> QED BY <1>1, <1>2, ThreadMoves DEF Wake, IInv, Types, lockVars, bookVars

LEMMA BeginCancelStep ==
    ASSUME IInv, NEW t \in Thread, BeginCancel(t)
    PROVE  IInv'
BY ThreadMoves DEF BeginCancel, IInv, Types, bookVars

LEMMA LoadStep ==
    ASSUME IInv, NEW t \in Thread, Load(t)
    PROVE  IInv'
<1> DEFINE d == disk[BlockAt(t)]
           th == [thread[t] EXCEPT !.pc = "decide", !.data = d]
<1>1. thread[t] \in EmergeThread /\ thread[t].pc = "load" /\ thread' = [thread EXCEPT ![t] = th]
  BY DEF Load, IInv, Types
<1>2. d \in {"none", "generated"}
  BY <1>1, ChunkAtFields DEF IInv, Types
<1> HIDE DEF d
<1>3. th \in EmergeThread /\ th.pc = "decide" /\ th.block = thread[t].block
      /\ th.callbacks = thread[t].callbacks
  BY <1>1, <1>2 DEF EmergeThread
<1> HIDE DEF th
<1>4. \E b \in Block : thread[t].block = {b}
  BY <1>1 DEF IInv, ThreadsInv
<1>5. /\ memory' \in Memory /\ memory' = memory
      /\ inProgress' = inProgress /\ inProgress \subseteq Chunk
      /\ UNCHANGED <<tableVars, disk, asked, ran>>
      /\ signal' \in [Thread -> BOOLEAN] /\ stop' \in [Thread -> BOOLEAN]
      /\ envLock' \in Thread \cup {Free} /\ queueLock' \in Thread \cup {Free}
  BY DEF Load, IInv, Types, worldVars, lockVars, bookVars
<1> QED BY <1>1, <1>3, <1>4, <1>5, ThreadGoes

LEMMA ReportedStep ==
    ASSUME IInv, NEW t \in Thread, Reported(t)
    PROVE  IInv'
<1>1. Idle \in EmergeThread /\ Idle.pc = "check" /\ Idle.callbacks = {}
  BY DEF EmergeThread, Idle
<1>2. thread' = [thread EXCEPT ![t] = Idle] /\ thread[t].callbacks = {}
  BY DEF Reported
<1>3. /\ memory' \in Memory /\ memory' = memory
      /\ inProgress' = inProgress /\ inProgress \subseteq Chunk
      /\ UNCHANGED <<tableVars, disk, asked, ran>>
      /\ signal' \in [Thread -> BOOLEAN] /\ stop' \in [Thread -> BOOLEAN]
      /\ envLock' \in Thread \cup {Free} /\ queueLock' \in Thread \cup {Free}
  BY DEF Reported, IInv, Types, worldVars, lockVars, bookVars
<1> HIDE DEF Idle
<1> QED BY <1>1, <1>2, <1>3, ThreadGoes

\* getBlockOrStartGen, with the map as it is once the block is there.
LEMMA StartGenStep ==
    ASSUME IInv, NEW t \in Thread, thread[t].pc \in {"look", "decide"},
           NEW mem \in Memory, \A b \in Block : memory[b] # "none" => mem[b] # "none",
           StartGen(t, mem), UNCHANGED <<tableVars, disk, signal, stop, lockVars, bookVars>>
    PROVE  IInv'
<1> DEFINE c == ChunkAt(t)
           claims == thread[t].gen /\ c \notin inProgress
           makes == claims /\ c \notin AtMapgenLimit
<1>1. /\ inProgress' = IF claims THEN inProgress \cup {c} ELSE inProgress
      /\ memory' = IF ~makes THEN mem
                   ELSE [b \in Block |-> IF mem[b] # "none" THEN mem[b]
                                         ELSE IF disk[b] = "none" THEN "blank" ELSE disk[b]]
      /\ Goto(t, IF makes THEN "make" ELSE "report")
  BY DEF StartGen, GenerateIf
<1>2. c \in Chunk /\ \E b \in Block : thread[t].block = {b}
  BY ChunkAtFields DEF IInv, ThreadsInv
<1>3. /\ inProgress \subseteq inProgress' /\ inProgress' \subseteq Chunk
      /\ signal' \in [Thread -> BOOLEAN] /\ stop' \in [Thread -> BOOLEAN]
      /\ envLock' \in Thread \cup {Free} /\ queueLock' \in Thread \cup {Free}
      /\ UNCHANGED <<tableVars, disk, asked, ran>>
  BY <1>1, <1>2 DEF IInv, Types, lockVars, bookVars
<1>4. CASE makes
  <2> DEFINE th == [thread[t] EXCEPT !.pc = "make"]
  <2>1. /\ th \in EmergeThread /\ th.pc = "make" /\ th.block = thread[t].block
        /\ th.callbacks = thread[t].callbacks /\ thread' = [thread EXCEPT ![t] = th]
    BY <1>1, <1>4, GotoFields DEF IInv
  <2> HIDE DEF th
  <2>2. memory' \in Memory /\ \A b \in Block : memory'[b] # "none"
    BY <1>1, <1>4 DEF IInv, Types, Memory
  <2>3. c \notin inProgress /\ c \in inProgress'
    BY <1>1, <1>4
  <2> HIDE DEF makes, claims, c
  <2> QED BY <1>2, <1>3, <2>1, <2>2, <2>3, ThreadGoes DEF c
<1>5. CASE ~makes
  <2> DEFINE th == [thread[t] EXCEPT !.pc = "report"]
  <2>1. /\ th \in EmergeThread /\ th.pc = "report" /\ th.block = thread[t].block
        /\ th.callbacks = thread[t].callbacks /\ thread' = [thread EXCEPT ![t] = th]
    BY <1>1, <1>5, GotoFields DEF IInv
  <2> HIDE DEF th
  <2>2. memory' = mem
    BY <1>1, <1>5
  <2> HIDE DEF makes, claims, c
  <2> QED BY <1>3, <2>1, <2>2, ThreadGoes
<1> QED BY <1>4, <1>5

LEMMA LookStep ==
    ASSUME IInv, NEW t \in Thread, Look(t)
    PROVE  IInv'
<1>1. /\ thread[t].pc = "look" /\ memory \in Memory
      /\ UNCHANGED <<tableVars, disk, signal, stop, lockVars, bookVars>>
  BY DEF Look, IInv, Types
<1>2. CASE StartGen(t, memory)
  BY <1>1, <1>2, StartGenStep
<1>3. CASE \E pc \in {"report", "load"} : Goto(t, pc) /\ UNCHANGED <<memory, inProgress>>
  <2>1. PICK pc \in {"report", "load"} : Goto(t, pc)
    BY <1>3
  <2>2. \E b \in Block : thread[t].block = {b}
    BY <1>1 DEF IInv, ThreadsInv
  <2> QED BY <1>1, <1>3, <2>1, <2>2, ThreadMoves DEF IInv, Types, worldVars, lockVars, bookVars
<1> QED BY <1>2, <1>3 DEF Look

LEMMA DecideStep ==
    ASSUME IInv, NEW t \in Thread, Decide(t)
    PROVE  IInv'
<1> DEFINE b == BlockAt(t)
           mem == IF memory[b] = "none" THEN [memory EXCEPT ![b] = thread[t].data] ELSE memory
<1>1. /\ thread[t].pc = "decide" /\ memory \in Memory
      /\ UNCHANGED <<tableVars, disk, signal, stop, lockVars, bookVars>>
  BY DEF Decide, IInv, Types
<1>2. mem \in Memory /\ \A x \in Block : memory[x] # "none" => mem[x] # "none"
  <2>1. thread[t].data \in {"none", "generated"}
    BY DEF IInv, Types, EmergeThread
  <2> QED BY <1>1, <2>1 DEF Memory
<1>3. StartGen(t, mem) \/ (memory' = mem /\ Goto(t, "report") /\ UNCHANGED inProgress)
  BY DEF Decide
<1> HIDE DEF b, mem
<1>4. CASE StartGen(t, mem)
  BY <1>1, <1>2, <1>4, StartGenStep
<1>5. CASE memory' = mem /\ Goto(t, "report") /\ UNCHANGED inProgress
  <2> DEFINE th == [thread[t] EXCEPT !.pc = "report"]
  <2>1. /\ th \in EmergeThread /\ th.pc = "report"
        /\ th.callbacks = thread[t].callbacks /\ thread' = [thread EXCEPT ![t] = th]
    BY <1>5, GotoFields DEF IInv
  <2> HIDE DEF th
  <2>2. /\ inProgress' = inProgress /\ inProgress \subseteq Chunk
        /\ UNCHANGED <<tableVars, disk, asked, ran>>
        /\ signal' \in [Thread -> BOOLEAN] /\ stop' \in [Thread -> BOOLEAN]
        /\ envLock' \in Thread \cup {Free} /\ queueLock' \in Thread \cup {Free}
    BY <1>1, <1>5 DEF IInv, Types, lockVars, bookVars
  <2> QED BY <1>2, <1>5, <2>1, <2>2, ThreadGoes
<1> QED BY <1>3, <1>4, <1>5

-----------------------------------------------------------------------------
(* Steps that change the tables, the callbacks or the chunks.                *)

\* A thread that makes a chunk goes on making it, while nothing is unloaded.
LEMMA MakersKept ==
    ASSUME IInv, inProgress' = inProgress,
           \A b \in Block : memory[b] # "none" => memory'[b] # "none",
           \A t \in Thread : thread'[t].pc = "make" =>
               thread[t].pc = "make" /\ thread'[t].block = thread[t].block
    PROVE  OneMakerPerChunk'
<1>1. \A t \in Thread : thread'[t].block = thread[t].block => ChunkAt(t)' = ChunkAt(t)
  BY DEF ChunkAt, BlockAt
<1>2. ASSUME NEW t \in Thread, thread'[t].pc = "make"
      PROVE  /\ ChunkAt(t)' = ChunkAt(t) /\ ChunkAt(t)' \in inProgress'
             /\ \A b \in Block : ChunkOf[b] = ChunkAt(t)' => memory'[b] # "none"
             /\ \A u \in Thread \ {t} : thread'[u].pc = "make" => ChunkAt(u)' # ChunkAt(t)'
  BY <1>1, <1>2 DEF IInv, OneMakerPerChunk
<1> QED BY <1>2 DEF OneMakerPerChunk

\* The server thread asks.
LEMMA AskStep ==
    ASSUME IInv, NEW b \in Block, NEW peer \in Peer \cup {NoPeer}, NEW gen \in BOOLEAN,
           NEW callback \in BOOLEAN, Enqueue(b, peer, gen, callback),
           UNCHANGED <<worldVars, thread, stop, lockVars, ran>>
    PROVE  IInv'
<1> USE DEF worldVars, lockVars
<1>1. /\ DOMAIN enqueued' \subseteq Block
      /\ \A x \in DOMAIN enqueued' : enqueued'[x] \in EmergeData
      /\ peerCount' \in [Peer \cup {NoPeer} -> Int]
      /\ queue' \in [Thread -> Seq(Block)]
      /\ signal' \in [Thread -> BOOLEAN]
      /\ asked' \in Seq(AskedFor) /\ Len(asked') =< MaxRequests
      /\ QueuesInv' /\ CountsInv' /\ CallbacksInv'
  BY EnqueueStep
<1>2. Types'
  BY <1>1 DEF IInv, Types
<1>3. ThreadsInv'
  BY DEF IInv, ThreadsInv
<1>4. OneMakerPerChunk'
  BY MakersKept
<1> QED BY <1>1, <1>2, <1>3, <1>4 DEF IInv

LEMMA AskForClientStep ==
    ASSUME IInv, NEW b \in Block,
           \/ \E p \in Peer \cup {NoPeer}, gen \in BOOLEAN : AskForClient(b, p, gen)
           \/ EmergeArea(b)
    PROVE  IInv'
<1>1. ASSUME NEW p \in Peer \cup {NoPeer}, NEW gen \in BOOLEAN, AskForClient(b, p, gen)
      PROVE  IInv'
  BY <1>1, AskStep DEF AskForClient
<1>2. CASE EmergeArea(b)
  BY <1>2, AskStep DEF EmergeArea
<1> QED BY <1>1, <1>2

\* A mod asks in a callback: the thread is one that has left the map.
LEMMA AskInCallbackStep ==
    ASSUME IInv, NEW t \in Thread, NEW b \in Block, Ask(t, b)
    PROVE  IInv'
<1> USE DEF worldVars
<1>1. /\ Enqueue(b, NoPeer, TRUE, TRUE) /\ Goto(t, "report") /\ ran' = ran
      /\ envLock' = Free /\ queueLock' = queueLock
      /\ UNCHANGED <<memory, disk, inProgress, stop>>
  BY DEF Ask
<1>2. /\ \A u \in Thread : /\ thread'[u].callbacks = thread[u].callbacks
                           /\ thread'[u].block = thread[u].block
                           /\ thread'[u].pc = IF u = t THEN "report" ELSE thread[u].pc
      /\ thread' \in [Thread -> EmergeThread]
  <2> DEFINE th == [thread[t] EXCEPT !.pc = "report"]
  <2>1. /\ th \in EmergeThread /\ th.pc = "report" /\ th.block = thread[t].block
        /\ th.callbacks = thread[t].callbacks /\ thread' = [thread EXCEPT ![t] = th]
    BY <1>1, GotoFields DEF IInv
  <2> HIDE DEF th
  <2> QED BY <2>1 DEF IInv, Types
<1>3. /\ DOMAIN enqueued' \subseteq Block
      /\ \A x \in DOMAIN enqueued' : enqueued'[x] \in EmergeData
      /\ peerCount' \in [Peer \cup {NoPeer} -> Int]
      /\ queue' \in [Thread -> Seq(Block)]
      /\ signal' \in [Thread -> BOOLEAN]
      /\ asked' \in Seq(AskedFor) /\ Len(asked') =< MaxRequests
      /\ QueuesInv' /\ CountsInv' /\ CallbacksInv'
  BY <1>1, <1>2, EnqueueStep
<1>4. Types'
  BY <1>1, <1>2, <1>3 DEF IInv, Types
<1>5. ThreadsInv'
  BY <1>2 DEF IInv, ThreadsInv
<1>6. OneMakerPerChunk'
  BY <1>1, <1>2, MakersKept
<1> QED BY <1>3, <1>4, <1>5, <1>6 DEF IInv

\* The request at the head of the queue becomes the thread's.
LEMMA PopStep ==
    ASSUME IInv, NEW t \in Thread, Pop(t)
    PROVE  IInv'
<1> USE DEF worldVars, lockVars, bookVars
<1>1. /\ thread[t].pc = "pop" /\ thread[t].callbacks = {}
      /\ UNCHANGED <<memory, disk, inProgress, signal, stop, envLock, queueLock, asked, ran>>
  BY DEF Pop, IInv, ThreadsInv
<1>2. CASE queue[t] = <<>>
  <2>1. Goto(t, "wait") /\ UNCHANGED tableVars
    BY <1>2 DEF Pop
  <2> QED BY <1>1, <2>1, ThreadMoves DEF IInv, Types
<1>3. CASE queue[t] # <<>>
  <2> DEFINE b == Head(queue[t])
             th == IF b \in OverLimit THEN Idle
                   ELSE [pc |-> "look", block |-> {b}, gen |-> enqueued[b].gen,
                         callbacks |-> enqueued[b].callbacks, data |-> "none"]
  <2>1. /\ queue' = [queue EXCEPT ![t] = Tail(@)] /\ PopData(b)
        /\ thread' = [thread EXCEPT ![t] = th]
    BY <1>3 DEF Pop
  <2>2. thread'[t] = th /\ \A u \in Thread \ {t} : thread'[u] = thread[u]
    BY <2>1 DEF IInv, Types
  <2>3. \/ thread'[t].callbacks = enqueued[b].callbacks
        \/ b \in OverLimit /\ thread'[t].callbacks = {}
    BY <2>2 DEF Idle
  <2>4. /\ b \in Block /\ enqueued[b] \in EmergeData
        /\ DOMAIN enqueued' \subseteq Block
        /\ \A x \in DOMAIN enqueued' : enqueued'[x] \in EmergeData
        /\ peerCount' \in [Peer \cup {NoPeer} -> Int]
        /\ queue' \in [Thread -> Seq(Block)]
        /\ QueuesInv' /\ CountsInv' /\ CallbacksInv'
    BY <1>1, <1>3, <2>1, <2>2, <2>3, PopDataStep
  <2>5. th \in EmergeThread /\ th.pc # "make"
    BY <2>4 DEF EmergeThread, Idle, EmergeData
  <2>6. \/ th.pc = "check" /\ th.callbacks = {}
        \/ th.pc = "look" /\ th.block = {b}
    BY DEF Idle
  <2> HIDE DEF th, b
  <2>7. Types'
    BY <1>1, <2>1, <2>4, <2>5 DEF IInv, Types
  <2>8. ThreadsInv'
    BY <2>2, <2>4, <2>6 DEF IInv, ThreadsInv
  <2>9. OneMakerPerChunk'
    BY <1>1, <2>2, <2>5, MakersKept
  <2> QED BY <2>4, <2>7, <2>8, <2>9 DEF IInv
<1> QED BY <1>2, <1>3

\* cancelPendingItems does the same, without the look at the limit.
LEMMA CancelNextStep ==
    ASSUME IInv, NEW t \in Thread, CancelNext(t)
    PROVE  IInv'
<1> USE DEF worldVars, bookVars
<1>1. /\ thread[t].pc = "cancelling" /\ thread[t].callbacks = {}
      /\ UNCHANGED <<memory, disk, inProgress, signal, stop, envLock, asked, ran>>
  BY DEF CancelNext
<1>2. CASE queue[t] = <<>>
  <2>1. Goto(t, "ended") /\ UNCHANGED tableVars /\ queueLock' = Free
    BY <1>2 DEF CancelNext
  <2> QED BY <1>1, <2>1, ThreadMoves DEF IInv, Types
<1>3. CASE queue[t] # <<>>
  <2> DEFINE b == Head(queue[t])
  <2>1. /\ queue' = [queue EXCEPT ![t] = Tail(@)] /\ PopData(b)
        /\ thread' = [thread EXCEPT ![t].callbacks = enqueued[b].callbacks]
        /\ queueLock' = queueLock
    BY <1>3 DEF CancelNext
  <2>2. /\ thread'[t].callbacks = enqueued[b].callbacks /\ thread'[t].pc = "cancelling"
        /\ \A u \in Thread \ {t} : thread'[u] = thread[u]
    BY <1>1, <2>1 DEF IInv, Types, EmergeThread
  <2>3. /\ b \in Block /\ enqueued[b] \in EmergeData
        /\ DOMAIN enqueued' \subseteq Block
        /\ \A x \in DOMAIN enqueued' : enqueued'[x] \in EmergeData
        /\ peerCount' \in [Peer \cup {NoPeer} -> Int]
        /\ queue' \in [Thread -> Seq(Block)]
        /\ QueuesInv' /\ CountsInv' /\ CallbacksInv'
    BY <1>1, <1>3, <2>1, <2>2, PopDataStep
  <2> HIDE DEF b
  <2>4. thread' \in [Thread -> EmergeThread]
    <3> DEFINE th == [thread[t] EXCEPT !.callbacks = enqueued[b].callbacks]
    <3>1. enqueued[b].callbacks \subseteq Request /\ thread[t] \in EmergeThread
      BY <2>3 DEF EmergeData, IInv, Types
    <3>2. th \in EmergeThread
      BY <3>1 DEF EmergeThread
    <3>3. thread' = [thread EXCEPT ![t] = th]
      BY <2>1
    <3> HIDE DEF th
    <3> QED BY <3>2, <3>3 DEF IInv, Types
  <2>5. Types'
    BY <1>1, <2>1, <2>3, <2>4 DEF IInv, Types
  <2>6. ThreadsInv'
    BY <2>2 DEF IInv, ThreadsInv
  <2>7. OneMakerPerChunk'
    BY <1>1, <2>2, MakersKept
  <2> QED BY <2>3, <2>5, <2>6, <2>7 DEF IInv
<1> QED BY <1>2, <1>3

\* The thread after its mod's code: only the program counter may differ, and the lock.
LEMMA AfterModFields ==
    ASSUME Types, NEW t \in Thread, NEW th \in EmergeThread, AfterMod(t, th)
    PROVE  /\ thread' \in [Thread -> EmergeThread]
           /\ thread'[t].callbacks = th.callbacks /\ thread'[t].block = th.block
           /\ thread'[t].pc \in {th.pc, "ask"}
           /\ \A u \in Thread \ {t} : thread'[u] = thread[u]
           /\ envLock' \in Thread \cup {Free}
<1> DEFINE asks == [th EXCEPT !.pc = "ask"]
<1>1. /\ asks \in EmergeThread /\ asks.callbacks = th.callbacks
      /\ asks.block = th.block /\ asks.pc = "ask"
  BY DEF EmergeThread
<1>2. CASE thread' = [thread EXCEPT ![t] = th] /\ UNCHANGED envLock
  BY <1>2 DEF Types
<1>3. CASE thread' = [thread EXCEPT ![t] = asks] /\ envLock' = t
  <2> HIDE DEF asks
  <2> QED BY <1>1, <1>3 DEF Types
<1> QED BY <1>2, <1>3 DEF AfterMod

\* The other makers have other chunks.
LEMMA FinishGenStep ==
    ASSUME IInv, NEW t \in Thread, FinishGen(t)
    PROVE  IInv'
<1> DEFINE c == ChunkAt(t)
           th == [thread[t] EXCEPT !.pc = "report"]
<1>1. /\ thread[t].pc = "make" /\ inProgress' = inProgress \ {c} /\ AfterMod(t, th)
      /\ memory' = [b \in Block |-> IF ChunkOf[b] = c THEN "generated" ELSE memory[b]]
      /\ UNCHANGED <<enqueued, peerCount, queue, disk, signal, stop, queueLock, asked, ran>>
  BY DEF FinishGen, tableVars, bookVars
<1>2. th \in EmergeThread /\ th.pc = "report" /\ th.callbacks = thread[t].callbacks
  <2>1. thread[t] \in EmergeThread
    BY DEF IInv, Types
  <2> QED BY <2>1 DEF EmergeThread
<1>3. Types
  BY DEF IInv
<1> HIDE DEF th
<1>4. /\ thread' \in [Thread -> EmergeThread]
      /\ thread'[t].callbacks = thread[t].callbacks
      /\ thread'[t].pc \in {"report", "ask"}
      /\ \A u \in Thread \ {t} : thread'[u] = thread[u]
      /\ envLock' \in Thread \cup {Free}
  BY <1>1, <1>2, <1>3, AfterModFields
<1>5. memory' \in Memory
  BY <1>1 DEF IInv, Types, Memory
<1>6. Types'
  BY <1>1, <1>4, <1>5 DEF IInv, Types
<1>7. QueuesInv' /\ CountsInv'
  <2>1. \A p : RequestsOf(p)' = RequestsOf(p)
    BY <1>1 DEF RequestsOf
  <2>2. CountsInv'
    BY <1>1, <2>1 DEF IInv, CountsInv
  <2>3. QueuesInv'
    BY <1>1 DEF IInv, QueuesInv
  <2> QED BY <2>2, <2>3
<1>8. CallbacksInv'
  <2>1. \A u \in Thread : thread'[u].callbacks = thread[u].callbacks
    BY <1>4
  <2> QED BY <1>1, <2>1 DEF IInv, CallbacksInv
<1>9. ThreadsInv'
  BY <1>4 DEF IInv, ThreadsInv
<1>10. OneMakerPerChunk'
  <2>1. ASSUME NEW u \in Thread, thread'[u].pc = "make"
        PROVE  /\ u # t /\ thread[u].pc = "make" /\ ChunkAt(u)' = ChunkAt(u)
               /\ ChunkAt(u) # c
    BY <1>1, <1>4, <2>1 DEF IInv, OneMakerPerChunk, ChunkAt, BlockAt
  <2> HIDE DEF c
  <2>2. ASSUME NEW u \in Thread, thread'[u].pc = "make"
        PROVE  /\ ChunkAt(u)' \in inProgress'
               /\ \A b \in Block : ChunkOf[b] = ChunkAt(u)' => memory'[b] # "none"
    BY <1>1, <2>1, <2>2 DEF IInv, OneMakerPerChunk
  <2>3. ASSUME NEW u \in Thread, NEW v \in Thread, u # v, thread'[u].pc = "make",
               thread'[v].pc = "make"
        PROVE  ChunkAt(u)' # ChunkAt(v)'
    BY <2>1, <2>3 DEF IInv, OneMakerPerChunk
  <2> QED BY <2>2, <2>3 DEF OneMakerPerChunk
<1> QED BY <1>6, <1>7, <1>8, <1>9, <1>10 DEF IInv

LEMMA RunCallbackStep ==
    ASSUME IInv, NEW t \in Thread, NEW r \in Request, RunCallback(t, r)
    PROVE  IInv'
<1> DEFINE th == [thread[t] EXCEPT !.callbacks = @ \ {r}]
<1>1. /\ thread[t].pc \in {"report", "cancelling"} /\ r \in thread[t].callbacks
      /\ ran' = [ran EXCEPT ![r] = @ + 1] /\ AfterMod(t, th)
      /\ UNCHANGED <<enqueued, peerCount, queue, memory, disk, inProgress, signal, stop,
                     queueLock, asked>>
  BY DEF RunCallback, tableVars, worldVars
<1>2. /\ th \in EmergeThread /\ th.pc = thread[t].pc
      /\ th.callbacks = thread[t].callbacks \ {r}
  BY DEF IInv, Types, EmergeThread
<1>3. Types
  BY DEF IInv
<1> HIDE DEF th
<1>4. /\ thread' \in [Thread -> EmergeThread]
      /\ thread'[t].callbacks = thread[t].callbacks \ {r}
      /\ thread'[t].pc \in {"report", "cancelling", "ask"}
      /\ \A u \in Thread \ {t} : thread'[u] = thread[u]
      /\ envLock' \in Thread \cup {Free}
  BY <1>1, <1>2, <1>3, AfterModFields
<1>5. /\ ran' \in [Request -> Nat] /\ ran'[r] = ran[r] + 1
      /\ \A x \in Request \ {r} : ran'[x] = ran[x]
  BY <1>1 DEF IInv, Types
<1>6. Types'
  BY <1>1, <1>4, <1>5 DEF IInv, Types
<1>7. QueuesInv' /\ CountsInv'
  <2>1. \A p : RequestsOf(p)' = RequestsOf(p)
    BY <1>1 DEF RequestsOf
  <2>2. CountsInv'
    BY <1>1, <2>1 DEF IInv, CountsInv
  <2>3. QueuesInv'
    BY <1>1 DEF IInv, QueuesInv
  <2> QED BY <2>2, <2>3
<1>8. CallbacksInv'
  <2>1. /\ ran[r] = 0 /\ r =< Len(asked)
        /\ \A u \in Thread \ {t} : r \notin thread[u].callbacks
        /\ \A b \in DOMAIN enqueued : r \notin enqueued[b].callbacks
    BY <1>1 DEF IInv, CallbacksInv
  <2>2. \A u \in Thread : /\ thread'[u].callbacks \subseteq thread[u].callbacks
                          /\ r \notin thread'[u].callbacks
    BY <1>4, <2>1
  <2>3. \A b \in DOMAIN enqueued' : \A x \in enqueued'[b].callbacks :
            /\ x =< Len(asked') /\ asked'[x].block = b /\ ran'[x] = 0
            /\ \A u \in Thread : x \notin thread'[u].callbacks
    <3>1. \A b \in DOMAIN enqueued : enqueued[b].callbacks \subseteq Request \ {r}
      BY <2>1 DEF IInv, Types, EmergeData
    <3> QED BY <1>1, <1>5, <2>2, <3>1 DEF IInv, CallbacksInv
  <2>4. \A u \in Thread : \A x \in thread'[u].callbacks :
            /\ x =< Len(asked') /\ ran'[x] = 0
            /\ \A v \in Thread \ {u} : x \notin thread'[v].callbacks
    <3>1. \A u \in Thread : thread'[u].callbacks \subseteq Request \ {r}
      BY <1>4, <2>2 DEF EmergeThread
    <3> QED BY <1>1, <1>5, <2>2, <3>1 DEF IInv, CallbacksInv
  <2>5. \A x \in Request : x > Len(asked') => ran'[x] = 0
    <3>1. Len(asked) \in Nat /\ Request \subseteq Nat
      BY DEF IInv, Types, Request
    <3>2. \A x \in Request : x > Len(asked) => x # r
      BY <2>1, <3>1
    <3> QED BY <1>1, <1>5, <3>2 DEF IInv, CallbacksInv
  <2>6. ASSUME NEW x \in 1..Len(asked), asked[x].callback, asked[x].block \notin OverLimit
        PROVE  \/ ran'[x] = 1
               \/ asked[x].block \in DOMAIN enqueued /\ x \in enqueued[asked[x].block].callbacks
               \/ \E u \in Thread : x \in thread'[u].callbacks
    <3>1. CASE x = r
      BY <1>5, <2>1, <3>1
    <3>2. CASE x # r /\ ran[x] = 1
      <4>1. x \in Request
        BY EmergeAssumption DEF IInv, Types, Request
      <4> QED BY <1>5, <3>2, <4>1
    <3>3. CASE x # r /\ \E u \in Thread : x \in thread[u].callbacks
      BY <1>4, <3>3
    <3> QED BY <2>6, <3>1, <3>2, <3>3 DEF IInv, CallbacksInv
  <2> QED BY <1>1, <2>3, <2>4, <2>5, <2>6 DEF CallbacksInv
<1>9. ThreadsInv'
  BY <1>4 DEF IInv, ThreadsInv
<1>10. OneMakerPerChunk'
  BY <1>1, <1>4, MakersKept
<1> QED BY <1>6, <1>7, <1>8, <1>9, <1>10 DEF IInv

\* Nothing is unloaded while a thread makes a chunk.
LEMMA UnloadStep ==
    ASSUME IInv, NEW b \in Block, Unload(b)
    PROVE  IInv'
<1> USE DEF Unload, tableVars, lockVars, bookVars
<1>1. Types'
  <2>1. memory' \in Memory /\ disk' \in [Block -> {"none", "generated"}]
    BY DEF IInv, Types, Memory
  <2> QED BY <2>1 DEF IInv, Types
<1>2. QueuesInv' /\ CountsInv'
  <2>1. \A p : RequestsOf(p)' = RequestsOf(p)
    BY DEF RequestsOf
  <2>2. CountsInv'
    BY <2>1 DEF IInv, CountsInv
  <2>3. QueuesInv'
    BY DEF IInv, QueuesInv
  <2> QED BY <2>2, <2>3
<1>3. CallbacksInv' /\ ThreadsInv'
  BY DEF IInv, CallbacksInv, ThreadsInv
<1>4. OneMakerPerChunk'
  BY DEF OneMakerPerChunk
<1> QED BY <1>1, <1>2, <1>3, <1>4 DEF IInv

LEMMA StopThreadStep ==
    ASSUME IInv, NEW t \in Thread, StopThread(t) \/ UNCHANGED vars
    PROVE  IInv'
<1>1. /\ stop' \in [Thread -> BOOLEAN] /\ signal' \in [Thread -> BOOLEAN]
      /\ UNCHANGED <<enqueued, peerCount, queue, memory, disk, inProgress, thread, envLock,
                     queueLock, asked, ran>>
  BY DEF StopThread, IInv, Types, vars, tableVars, worldVars, lockVars, bookVars
<1>2. Types'
  BY <1>1 DEF IInv, Types
<1>3. QueuesInv' /\ CountsInv'
  <2>1. \A p : RequestsOf(p)' = RequestsOf(p)
    BY <1>1 DEF RequestsOf
  <2>2. CountsInv'
    BY <1>1, <2>1 DEF IInv, CountsInv
  <2>3. QueuesInv'
    BY <1>1 DEF IInv, QueuesInv
  <2> QED BY <2>2, <2>3
<1>4. CallbacksInv' /\ ThreadsInv'
  BY <1>1 DEF IInv, CallbacksInv, ThreadsInv
<1>5. OneMakerPerChunk'
  BY <1>1, MakersKept
<1> QED BY <1>2, <1>3, <1>4, <1>5 DEF IInv

-----------------------------------------------------------------------------
(* The theorems.                                                             *)

LEMMA NextInvariant ==
    IInv /\ [Next]_vars => IInv'
<1> SUFFICES ASSUME IInv, [Next]_vars PROVE IInv'
  OBVIOUS
<1>1. ASSUME NEW b \in Block,
             (\E p \in Peer \cup {NoPeer}, gen \in BOOLEAN : AskForClient(b, p, gen))
             \/ EmergeArea(b)
      PROVE  IInv'
  BY <1>1, AskForClientStep
<1>2. ASSUME NEW b \in Block, Unload(b) PROVE IInv'
  BY <1>2, UnloadStep
<1>3. ASSUME NEW t \in Thread, Work(t) PROVE IInv'
  <2>1. ASSUME NEW r \in Request, RunCallback(t, r) PROVE IInv'
    BY <2>1, RunCallbackStep
  <2>2. ASSUME NEW b \in Block, Ask(t, b) PROVE IInv'
    BY <2>2, AskInCallbackStep
  <2> QED BY <1>3, <2>1, <2>2, CheckStopStep, PopStep, WakeStep, LookStep, LoadStep, DecideStep,
             FinishGenStep, ReportedStep, BeginCancelStep, CancelNextStep DEF Work
<1>4. ASSUME NEW t \in Thread, StopThread(t) PROVE IInv'
  BY <1>4, StopThreadStep
<1>5. CASE UNCHANGED vars
  <2>1. 1 \in Thread
    BY EmergeAssumption DEF Thread
  <2> QED BY <1>5, <2>1, StopThreadStep
<1>6. CASE Next
  BY <1>1, <1>2, <1>3, <1>4, <1>6 DEF Next
<1> QED BY <1>5, <1>6

\* The invariant holds in every state of every behaviour.
LEMMA Invariant == Spec => []IInv
<1> QED BY InitInvariant, NextInvariant, PTL DEF Spec

\* The counts of m_peer_queue_count are numbers and every other variable keeps to the
\* values its type in the code allows.
THEOREM TypeCorrect == Spec => []TypeOK
<1>1. IInv => TypeOK
  <2> SUFFICES ASSUME IInv PROVE TypeOK
    OBVIOUS
  <2>1. \A p \in Peer \cup {NoPeer} : peerCount[p] \in Nat
    BY RequestsFinite DEF IInv, CountsInv
  <2>2. peerCount \in [Peer \cup {NoPeer} -> Nat]
    BY <2>1 DEF IInv, Types
  <2> QED BY <2>2 DEF IInv, Types, TypeOK, EmergeThread, AskedFor, Memory
<1> QED BY <1>1, Invariant, PTL

\* Two emerge threads never make one chunk (m_chunks_in_progress).
THEOREM OneMaker == Spec => []OneMakerPerChunk
<1>1. IInv => OneMakerPerChunk
  BY DEF IInv
<1> QED BY <1>1, Invariant, PTL

\* m_blocks_enqueued, the queues of the threads and m_peer_queue_count always agree.
THEOREM Books == Spec => []BooksAgree
<1>1. IInv => BooksAgree
  <2> SUFFICES ASSUME IInv PROVE BooksAgree
    OBVIOUS
  <2>1. ASSUME NEW t \in Thread PROVE DOMAIN queue[t] \subseteq 1..Cardinality(Block)
    <3> DEFINE q == queue[t]
    <3>1. q \in Seq(Block) /\ \A i, j \in DOMAIN q : q[i] = q[j] => i = j
      BY DEF IInv, Types, QueuesInv
    <3> HIDE DEF q
    <3>2. q \in Injection(1..Len(q), Block) /\ Len(q) \in Nat
      <4>1. q \in [1..Len(q) -> Block] /\ DOMAIN q = 1..Len(q) /\ Len(q) \in Nat
        BY <3>1, LenProperties, ElementOfSeq
      <4> QED BY <3>1, <4>1 DEF Injection, IsInjective
    <3>3. Cardinality(1..Len(q)) =< Cardinality(Block)
      BY <3>2, EmergeAssumption, FS_Injection
    <3>4. Cardinality(1..Len(q)) = Len(q)
      <4>1. 1 \in Int /\ Len(q) \in Int
        BY <3>2
      <4>2. Cardinality(1..Len(q)) = IF 1 > Len(q) THEN 0 ELSE Len(q) - 1 + 1
        BY <4>1, FS_Interval
      <4> QED BY <3>2, <4>2
    <3>5. Cardinality(Block) \in Nat
      BY EmergeAssumption, FS_CardinalityType
    <3>6. DOMAIN q = 1..Len(q)
      BY <3>1, LenProperties
    <3>7. DOMAIN q \subseteq 1..Cardinality(Block)
      BY <3>2, <3>3, <3>4, <3>5, <3>6
    <3> QED BY <3>7 DEF q
  <2> DEFINE Places(b) == {p \in Thread \X (1..Cardinality(Block)) :
                              p[2] \in DOMAIN queue[p[1]] /\ queue[p[1]][p[2]] = b}
  <2>2. ASSUME NEW b \in Block, b \in DOMAIN enqueued PROVE Cardinality(Places(b)) = 1
    <3>1. PICK t \in Thread : \E i \in DOMAIN queue[t] : queue[t][i] = b
      BY <2>2 DEF IInv, QueuesInv
    <3>2. PICK i \in DOMAIN queue[t] : queue[t][i] = b
      BY <3>1
    <3>3. <<t, i>> \in Places(b)
      BY <2>1, <3>2
    <3>4. \A p \in Places(b) : p = <<t, i>>
      BY <3>2 DEF IInv, QueuesInv
    <3>5. Places(b) = {<<t, i>>}
      BY <3>3, <3>4
    <3> QED BY <3>5, FS_Singleton
  <2>3. ASSUME NEW b \in Block, b \notin DOMAIN enqueued PROVE Cardinality(Places(b)) = 0
    <3>1. Places(b) = {}
      BY <2>3 DEF IInv, QueuesInv
    <3> QED BY <3>1, FS_EmptySet
  <2> QED BY <2>2, <2>3 DEF IInv, CountsInv, RequestsOf, BooksAgree
<1> QED BY <1>1, Invariant, PTL

\* A callback given to emerge_area is always in exactly one place, so it runs at most
\* once and is lost by no race of the threads, no merging and no stop.
THEOREM Callbacks == Spec => []CallbacksOnce
<1>1. IInv => CallbacksOnce
  <2> SUFFICES ASSUME IInv, NEW r \in 1..Len(asked), asked[r].callback,
                      asked[r].block \notin OverLimit
               PROVE  ran[r] + Cardinality({b \in DOMAIN enqueued : r \in enqueued[b].callbacks})
                             + Cardinality({t \in Thread : r \in thread[t].callbacks}) = 1
    BY DEF CallbacksOnce
  <2> DEFINE Kept == {b \in DOMAIN enqueued : r \in enqueued[b].callbacks}
             Held == {t \in Thread : r \in thread[t].callbacks}
             b == asked[r].block
  <2>0. /\ ran[r] = 1 \/ (b \in DOMAIN enqueued /\ r \in enqueued[b].callbacks)
                      \/ \E t \in Thread : r \in thread[t].callbacks
        /\ \A x \in DOMAIN enqueued : r \in enqueued[x].callbacks =>
             x = b /\ ran[r] = 0 /\ \A t \in Thread : r \notin thread[t].callbacks
        /\ \A t \in Thread : r \in thread[t].callbacks =>
             ran[r] = 0 /\ \A u \in Thread \ {t} : r \notin thread[u].callbacks
    BY DEF IInv, CallbacksInv
  <2> SUFFICES ran[r] + Cardinality(Kept) + Cardinality(Held) = 1
    OBVIOUS
  <2> HIDE DEF b
  <2>1. CASE b \in DOMAIN enqueued /\ r \in enqueued[b].callbacks
    <3>1. Kept = {b} /\ Held = {} /\ ran[r] = 0
      BY <2>0, <2>1
    <3> HIDE DEF Kept, Held
    <3>2. Cardinality(Kept) = 1 /\ Cardinality(Held) = 0
      BY <3>1, FS_Singleton, FS_EmptySet
    <3> QED BY <3>1, <3>2
  <2>2. CASE \E t \in Thread : r \in thread[t].callbacks
    <3>1. PICK t \in Thread : r \in thread[t].callbacks
      BY <2>2
    <3>2. Kept = {} /\ Held = {t} /\ ran[r] = 0
      BY <2>0, <3>1
    <3> HIDE DEF Kept, Held
    <3>3. Cardinality(Kept) = 0 /\ Cardinality(Held) = 1
      BY <3>2, FS_Singleton, FS_EmptySet
    <3> QED BY <3>2, <3>3
  <2>3. CASE ran[r] = 1
    <3>1. Kept = {} /\ Held = {}
      BY <2>0, <2>3
    <3> HIDE DEF Kept, Held
    <3>2. Cardinality(Kept) = 0 /\ Cardinality(Held) = 0
      BY <3>1, FS_EmptySet
    <3> QED BY <2>3, <3>2
  <2> QED BY <2>0, <2>1, <2>2, <2>3
<1> QED BY <1>1, Invariant, PTL
=============================================================================
