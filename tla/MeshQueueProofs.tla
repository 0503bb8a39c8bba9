--------------------------- MODULE MeshQueueProofs ---------------------------
(****************************************************************************)
(* For any blocks and any workers: types, no two workers have the same      *)
(* block, a mark in m_urgents has its update in the queue, no block that an *)
(* update refers to is unloaded, each result queue keeps the order of the   *)
(* contents, no acknowledgement is lost or made up, and a mesh is old only  *)
(* when an urgent result overtook an older one.                             *)
(*                                                                          *)
(* The argument. refs[b] is the number of updates that refer to b, in the   *)
(* queue, with a worker or in a result queue; every step moves an update    *)
(* with its references or gives back both, and a block with a reference is  *)
(* loaded. The blocks of the queue differ, and those in flight are marked,  *)
(* so pop finds no block of another worker; what a worker has copied is not *)
(* older than any result of its block, and not newer than the block. In the *)
(* same way owed[b] is the sum of the acknowledgements in the updates of b: *)
(* the sums over the queues change by what is put in, merged or taken out,  *)
(* and that over the workers is of one update at most.                      *)
(*                                                                          *)
(* Of a block that is not overtaken, an update is coming that shows what    *)
(* the block contains, or its mesh does and so do all the results left. A   *)
(* result with the content ends the first case and begins the second: the   *)
(* results after it in its queue, and what a worker has yet to put, are no  *)
(* older.                                                                   *)
(****************************************************************************)
EXTENDS MeshQueue, RecursionFacts, FiniteSetTheorems, SequenceTheorems

\* The places of s whose updates hold a reference to b, and how many they are.
Holding(s, b) == {k \in DOMAIN s : b \in s[k].blocks}
Count(s, b) == Cardinality(Holding(s, b))

Bit(yes) == IF yes THEN 1 ELSE 0

-----------------------------------------------------------------------------
(* Counting references in sequences.                                         *)

\* A finite set of numbers keeps its size when it is shifted.
LEMMA ShiftCardinality ==
    ASSUME NEW S \in SUBSET Int, IsFiniteSet(S), NEW d \in Int
    PROVE  /\ IsFiniteSet({k + d : k \in S})
           /\ Cardinality({k + d : k \in S}) = Cardinality(S)
<1> DEFINE T == {k + d : k \in S}
           f == [k \in S |-> k + d]
<1>1. f \in Bijection(S, T)
  BY DEF Bijection, Injection, Surjection, IsInjective
<1>2. ExistsBijection(S, T)
  BY <1>1 DEF ExistsBijection
<1> QED BY <1>2, FS_Bijection

\* A count is a number.
LEMMA CountType ==
    ASSUME NEW s \in Seq(Update), NEW b
    PROVE  IsFiniteSet(Holding(s, b)) /\ Count(s, b) \in Nat
<1>1. IsFiniteSet(1..Len(s))
  BY FS_Interval
<1>2. Holding(s, b) \in SUBSET (1..Len(s))
  BY DEF Holding
<1> QED BY <1>1, <1>2, FS_Subset, FS_CardinalityType DEF Count

\* What two sequences hold together is what each of them holds.
LEMMA CountConcat ==
    ASSUME NEW s \in Seq(Update), NEW t \in Seq(Update), NEW b
    PROVE  Count(s \o t, b) = Count(s, b) + Count(t, b)
<1> DEFINE S == Holding(s, b)
           T == Holding(t, b)
           U == {k + Len(s) : k \in T}
<1>1. IsFiniteSet(S) /\ IsFiniteSet(T) /\ Count(s, b) \in Nat /\ Count(t, b) \in Nat
  BY CountType
<1>2. T \in SUBSET Int /\ Len(s) \in Int
  BY DEF Holding
<1>3. IsFiniteSet(U) /\ Cardinality(U) = Cardinality(T)
  BY <1>1, <1>2, ShiftCardinality
<1>4. S \cap U = {}
  BY DEF Holding
<1>5. Holding(s \o t, b) = S \cup U
  <2>1. ASSUME NEW k \in Holding(s \o t, b) PROVE k \in S \cup U
    <3>1. k \in 1..(Len(s) + Len(t)) /\ b \in (s \o t)[k].blocks
      BY DEF Holding
    <3>2. CASE k =< Len(s)
      BY <3>1, <3>2 DEF Holding
    <3>3. CASE k > Len(s)
      <4>1. k - Len(s) \in Holding(t, b)
        BY <3>1, <3>3 DEF Holding
      <4> QED BY <4>1, <3>1, k = (k - Len(s)) + Len(s)
    <3> QED BY <3>1, <3>2, <3>3
  <2>2. ASSUME NEW k \in S PROVE k \in Holding(s \o t, b)
    BY DEF Holding
  <2>3. ASSUME NEW k \in T PROVE k + Len(s) \in Holding(s \o t, b)
    <3>1. k \in 1..Len(t) /\ b \in t[k].blocks
      BY DEF Holding
    <3>2. k + Len(s) \in DOMAIN (s \o t) /\ (s \o t)[k + Len(s)] = t[k]
      BY <3>1
    <3> QED BY <3>1, <3>2 DEF Holding
  <2> QED BY <2>1, <2>2, <2>3
<1>6. Cardinality(S \cup U) = Cardinality(S) + Cardinality(U) - Cardinality(S \cap U)
  BY <1>1, <1>3, FS_Union
<1>7. Cardinality(S \cap U) = 0
  BY <1>4, FS_EmptySet
<1>8. Cardinality(S) = Count(s, b) /\ Cardinality(T) = Count(t, b)
  BY DEF Count
<1>9. Count(s \o t, b) = Cardinality(S \cup U)
  BY <1>5 DEF Count
<1> HIDE DEF S, T, U
<1> QED BY <1>1, <1>3, <1>6, <1>7, <1>8, <1>9

\* One update counts once.
LEMMA CountOne ==
    ASSUME NEW u \in Update, NEW b
    PROVE  Count(<<u>>, b) = Bit(b \in u.blocks)
<1>1. Holding(<<u>>, b) = IF b \in u.blocks THEN {1} ELSE {}
  BY DEF Holding
<1> QED BY <1>1, FS_EmptySet, FS_Singleton DEF Count, Bit

\* A new update adds what it holds.
LEMMA CountAppend ==
    ASSUME NEW s \in Seq(Update), NEW u \in Update, NEW b
    PROVE  Count(Append(s, u), b) = Count(s, b) + Bit(b \in u.blocks)
<1>1. Append(s, u) = s \o <<u>> /\ <<u>> \in Seq(Update)
  OBVIOUS
<1>2. Count(s \o <<u>>, b) = Count(s, b) + Count(<<u>>, b)
  BY <1>1, CountConcat
<1> QED BY <1>1, <1>2, CountOne

\* The first update takes away what it holds.
LEMMA CountTail ==
    ASSUME NEW s \in Seq(Update), s # <<>>, NEW b
    PROVE  Count(s, b) = Bit(b \in Head(s).blocks) + Count(Tail(s), b)
<1>1. s = <<Head(s)>> \o Tail(s)
  OBVIOUS
<1>2. Head(s) \in Update /\ <<Head(s)>> \in Seq(Update) /\ Tail(s) \in Seq(Update)
  OBVIOUS
<1>3. Count(<<Head(s)>> \o Tail(s), b) = Count(<<Head(s)>>, b) + Count(Tail(s), b)
  BY <1>2, CountConcat
<1> QED BY <1>1, <1>2, <1>3, CountOne

\* A sequence is what comes before an element, the element, and what comes after it.
LEMMA AroundElement ==
    ASSUME NEW s \in Seq(Update), NEW k \in DOMAIN s
    PROVE  LET front == SubSeq(s, 1, k - 1)
               back == SubSeq(s, k + 1, Len(s))
           IN  /\ front \in Seq(Update) /\ back \in Seq(Update) /\ <<s[k]>> \in Seq(Update)
               /\ s = front \o (<<s[k]>> \o back) /\ RemoveAt(s, k) = front \o back
<1> DEFINE front == SubSeq(s, 1, k - 1)
           back == SubSeq(s, k + 1, Len(s))
           one == <<s[k]>>
           rest == SubSeq(s, k, Len(s))
<1>0. k \in 1..Len(s) /\ Len(s) \in Nat /\ s[k] \in Update
  OBVIOUS
<1>1. front \in Seq(Update) /\ back \in Seq(Update) /\ one \in Seq(Update)
  BY <1>0
<1>2. s = front \o rest
  <2>1. /\ 1 \in 1..(Len(s) + 1)
        /\ k - 1 \in (1 - 1)..Len(s)
        /\ Len(s) \in (k - 1)..Len(s)
    BY <1>0
  <2>2. SubSeq(s, 1, k - 1) \o SubSeq(s, (k - 1) + 1, Len(s)) = SubSeq(s, 1, Len(s))
    BY <2>1, ConcatAdjacentSubSeq, Zenon
  <2>3. (k - 1) + 1 = k
    BY <1>0
  <2>4. SubSeq(s, 1, Len(s)) = s
    BY SubSeqFull, Zenon
  <2> QED BY <2>2, <2>3, <2>4, Zenon
<1>3. rest = one \o back
  <2>1. k \in 1..Len(s) /\ Len(s) \in k..Len(s)
    BY <1>0
  <2> QED BY <2>1, SubSeqRecursiveFirst, Zenon
<1>4. RemoveAt(s, k) = front \o back
  BY DEF RemoveAt
<1> HIDE DEF front, back, one, rest
<1>5. s = front \o (one \o back)
  BY <1>2, <1>3
<1> QED BY <1>1, <1>4, <1>5 DEF front, back, one

\* So does any other that is taken out.
LEMMA CountRemoveAt ==
    ASSUME NEW s \in Seq(Update), NEW k \in DOMAIN s, NEW b
    PROVE  /\ RemoveAt(s, k) \in Seq(Update)
           /\ Count(s, b) = Bit(b \in s[k].blocks) + Count(RemoveAt(s, k), b)
<1> DEFINE front == SubSeq(s, 1, k - 1)
           back == SubSeq(s, k + 1, Len(s))
           one == <<s[k]>>
<1>0. \A x, y \in Seq(Update) : Count(x \o y, b) = Count(x, b) + Count(y, b)
  BY CountConcat
<1>1. /\ front \in Seq(Update) /\ back \in Seq(Update) /\ one \in Seq(Update)
      /\ s = front \o (one \o back) /\ RemoveAt(s, k) = front \o back
  BY AroundElement
<1>2. s[k] \in Update
  OBVIOUS
<1>3. Count(one, b) = Bit(b \in s[k].blocks)
  BY <1>2, CountOne
<1> HIDE DEF front, back, one
<1>4. front \in Seq(Update) /\ back \in Seq(Update) /\ one \in Seq(Update)
      /\ front \o back \in Seq(Update) /\ one \o back \in Seq(Update)
  BY <1>1
<1>5. Count(front \o (one \o back), b) = Count(front, b) + Count(one \o back, b)
  BY <1>4, <1>0
<1>6. Count(one \o back, b) = Count(one, b) + Count(back, b)
  BY <1>4, <1>0
<1>7. Count(front \o back, b) = Count(front, b) + Count(back, b)
  BY <1>4, <1>0
<1>8. Count(front, b) \in Nat /\ Count(back, b) \in Nat /\ Bit(b \in s[k].blocks) \in Nat
  BY <1>4, CountType DEF Bit
<1>9. Count(s, b) = Count(front, b) + Count(one \o back, b)
  BY <1>1, <1>5, Zenon
<1>10. Count(RemoveAt(s, k), b) = Count(front, b) + Count(back, b)
  BY <1>1, <1>7, Zenon
<1>11. Count(s, b) = Bit(b \in s[k].blocks) + Count(RemoveAt(s, k), b)
  BY <1>3, <1>6, <1>8, <1>9, <1>10
<1> QED BY <1>1, <1>4, <1>11

\* An update that is replaced counts by its new blocks.
LEMMA CountReplace ==
    ASSUME NEW s \in Seq(Update), NEW k \in DOMAIN s, NEW u \in Update, NEW b
    PROVE  Count([s EXCEPT ![k] = u], b) + Bit(b \in s[k].blocks)
               = Count(s, b) + Bit(b \in u.blocks)
<1> DEFINE t == [s EXCEPT ![k] = u]
           others == Holding(s, b) \ {k}
<1>1. t \in Seq(Update) /\ DOMAIN t = DOMAIN s
  OBVIOUS
<1>2. IsFiniteSet(Holding(s, b)) /\ IsFiniteSet(Holding(t, b))
  BY <1>1, CountType
<1>3. others = Holding(t, b) \ {k}
  BY <1>1 DEF Holding
<1>4. Cardinality(others) = Count(s, b) - Bit(b \in s[k].blocks)
  <2>1. k \in Holding(s, b) <=> b \in s[k].blocks
    BY DEF Holding
  <2>2. Cardinality(others) = IF k \in Holding(s, b) THEN Cardinality(Holding(s, b)) - 1
                              ELSE Cardinality(Holding(s, b))
    BY <1>2, FS_RemoveElement
  <2> QED BY <1>2, <2>1, <2>2, CountType DEF Count, Bit
<1>5. Cardinality(Holding(t, b) \ {k}) = Count(t, b) - Bit(b \in u.blocks)
  <2>1. k \in Holding(t, b) <=> b \in u.blocks
    BY DEF Holding
  <2>2. Cardinality(Holding(t, b) \ {k}) = IF k \in Holding(t, b)
                                           THEN Cardinality(Holding(t, b)) - 1
                                           ELSE Cardinality(Holding(t, b))
    BY <1>2, FS_RemoveElement
  <2>3. Count(t, b) \in Nat
    BY <1>1, CountType
  <2> HIDE DEF t
  <2> QED BY <2>1, <2>2, <2>3 DEF Count, Bit
<1>6. Count(t, b) \in Nat /\ Count(s, b) \in Nat
  BY <1>1, CountType
<1> HIDE DEF t, others
<1>7. Count(s, b) - Bit(b \in s[k].blocks) = Count(t, b) - Bit(b \in u.blocks)
  BY <1>3, <1>4, <1>5
<1>8. Count(t, b) + Bit(b \in s[k].blocks) = Count(s, b) + Bit(b \in u.blocks)
  BY <1>6, <1>7 DEF Bit
<1> QED BY <1>8 DEF t

-----------------------------------------------------------------------------
(* The invariant.                                                            *)

\* TypeOK with counts that may be negative: that they are not follows below for the
\* references, and from AcksInv for the acknowledgements.
Types ==
    /\ loaded \subseteq Block
    /\ content \in [Block -> Content] /\ mesh \in [Block -> Content]
    /\ refs \in [Block -> Int] /\ owed \in [Block -> Int]
    /\ changes \in 0..MaxChanges
    /\ main \in [pc : {"step", "update", "neighbors", "joining", "stopped"},
                 block : Block \union {NoBlock}, ack : BOOLEAN, urgent : BOOLEAN,
                 neighbors : SUBSET Block]
    /\ queue \in Seq(Update) /\ out \in Seq(Update) /\ outUrgent \in Seq(Update)
    /\ urgents \subseteq Block /\ inflight \subseteq Block /\ overtaken \subseteq Block
    /\ worker \in [Worker -> [pc : {"wait", "pop", "fill", "put", "done", "ended"},
                              update : Update \union {NoUpdate}]]
    /\ signal \in [Worker -> BOOLEAN]

Busy(w) == worker[w].pc \in {"fill", "put", "done"}

\* The block of a worker is in m_inflight_blocks, and no other worker has it.
WorkersInv ==
    /\ \A w \in Worker : Busy(w) =>
         worker[w].update \in Update /\ worker[w].update.block \in inflight
    /\ OneThreadPerBlock

\* An update refers to its own block, and to loaded ones only.
Safe(u) == u.block \in u.blocks /\ u.blocks \subseteq loaded
AllSafe(s) == \A k \in DOMAIN s : Safe(s[k])

LoadedInv ==
    /\ AllSafe(queue) /\ AllSafe(out) /\ AllSafe(outUrgent)
    /\ \A w \in Worker : Working(w) => Safe(worker[w].update)
    /\ main.pc = "update" => main.block \in loaded

\* m_refcount is the number of updates that refer to the block.
WorkersHolding(b) == {w \in Worker : Working(w) /\ b \in worker[w].update.blocks}
RefsInv ==
    /\ \A b \in Block : refs[b] = Count(queue, b) + Count(out, b) + Count(outUrgent, b)
                                  + Cardinality(WorkersHolding(b))
    /\ main.pc = "stopped" => \A b \in Block : refs[b] = 0

\* Of one block, the results in a queue, then what a worker puts, then the block itself
\* are ever newer.
Ordered(s) ==
    \A j, k \in DOMAIN s : j < k /\ s[j].block = s[k].block => s[j].shows =< s[k].shows
NoNewer(s, b, shows) == \A k \in DOMAIN s : s[k].block = b => s[k].shows =< shows
OrderInv ==
    /\ Ordered(out) /\ Ordered(outUrgent)
    /\ \A b \in Block : /\ content[b] =< changes
                        /\ NoNewer(out, b, content[b]) /\ NoNewer(outUrgent, b, content[b])
    /\ \A w \in Worker : worker[w].pc = "put" =>
         LET u == worker[w].update
         IN  /\ u.shows =< content[u.block]
             /\ NoNewer(out, u.block, u.shows) /\ NoNewer(outUrgent, u.block, u.shows)

IInv == Types /\ WorkersInv /\ LoadedInv /\ RefsInv /\ OrderInv /\ UrgentIsQueued

\* What an update is made of.
LEMMA UpdateFields ==
    ASSUME NEW s \in Seq(Update), NEW k \in DOMAIN s
    PROVE  /\ s[k] \in Update /\ s[k].block \in Block /\ s[k].blocks \subseteq Block
           /\ s[k].shows \in Int
<1>1. s[k] \in Update
  OBVIOUS
<1> QED BY <1>1, MeshAssumption DEF Update, Content

\* The update of Merge.
Merged(q, more, ack, urgent) ==
    [q EXCEPT !.acks = IF ack THEN @ + 1 ELSE @, !.urgent = @ \/ urgent,
              !.blocks = @ \union more]

\* Merging makes an update of the same block again.
LEMMA MergedUpdate ==
    ASSUME NEW q \in Update, NEW more \in SUBSET Block, NEW ack \in BOOLEAN, NEW urgent \in BOOLEAN
    PROVE  /\ Merged(q, more, ack, urgent) \in Update
           /\ Merged(q, more, ack, urgent).block = q.block
           /\ Merged(q, more, ack, urgent).blocks = q.blocks \union more
           /\ Merged(q, more, ack, urgent).acks = IF ack THEN q.acks + 1 ELSE q.acks
<1> DEFINE u == Merged(q, more, ack, urgent)
           acks == IF ack THEN q.acks + 1 ELSE q.acks
           isUrgent == q.urgent \/ urgent
<1>1. q.block \in Block /\ q.acks \in Nat /\ q.blocks \subseteq Block /\ q.shows \in Content
  BY DEF Update
<1>2. acks \in Nat /\ isUrgent \in BOOLEAN
  BY <1>1
<1> HIDE DEF acks, isUrgent
<1>3. q = [block |-> q.block, acks |-> q.acks, urgent |-> q.urgent,
           blocks |-> q.blocks, shows |-> q.shows]
  BY DEF Update
<1>4. u = [block |-> q.block, acks |-> acks, urgent |-> isUrgent,
           blocks |-> q.blocks \union more, shows |-> q.shows]
  <2> DEFINE q1 == [block |-> q.block, acks |-> acks, urgent |-> q.urgent,
                    blocks |-> q.blocks, shows |-> q.shows]
             q2 == [block |-> q.block, acks |-> acks, urgent |-> isUrgent,
                    blocks |-> q.blocks, shows |-> q.shows]
  <2>1. [q EXCEPT !.acks = IF ack THEN @ + 1 ELSE @] = q1
    BY <1>3 DEF acks
  <2>2. [q1 EXCEPT !.urgent = @ \/ urgent] = q2
    BY DEF isUrgent
  <2>3. [q2 EXCEPT !.blocks = @ \union more]
            = [block |-> q.block, acks |-> acks, urgent |-> isUrgent,
               blocks |-> q.blocks \union more, shows |-> q.shows]
    OBVIOUS
  <2>4. u = [[[q EXCEPT !.acks = IF ack THEN @ + 1 ELSE @] EXCEPT !.urgent = @ \/ urgent]
                EXCEPT !.blocks = @ \union more]
    BY <2>1, <2>2 DEF isUrgent, Merged
  <2> QED BY <2>1, <2>2, <2>3, <2>4
<1> HIDE DEF u
<1>5. u \in Update /\ u.block = q.block /\ u.blocks = q.blocks \union more /\ u.acks = acks
  BY <1>1, <1>2, <1>4 DEF Update
<1> QED BY <1>5 DEF u, acks

-----------------------------------------------------------------------------
(* The initial state, and the steps of the main thread.                      *)

LEMMA InitInvariant ==
    Init => IInv
<1> SUFFICES ASSUME Init PROVE IInv
  OBVIOUS
<1> USE DEF Init
<1>1. Types
  BY MeshAssumption DEF Types, Content, Idle, NoUpdate
<1>2. WorkersInv
  BY DEF WorkersInv, OneThreadPerBlock, Busy
<1>3. LoadedInv
  BY DEF LoadedInv, AllSafe, Working, Idle
<1>4. RefsInv
  <2>1. \A b : Holding(<<>>, b) = {}
    BY DEF Holding
  <2>2. \A b : WorkersHolding(b) = {}
    BY DEF WorkersHolding, Working
  <2>3. \A b : Count(<<>>, b) = 0 /\ Cardinality(WorkersHolding(b)) = 0
    BY <2>1, <2>2, FS_EmptySet DEF Count
  <2> QED BY <2>3 DEF RefsInv, Idle
<1>5. OrderInv
  BY MeshAssumption DEF OrderInv, Ordered, NoNewer
<1>6. UrgentIsQueued
  BY DEF UrgentIsQueued
<1> QED BY <1>1, <1>2, <1>3, <1>4, <1>5, <1>6 DEF IInv

\* What a step needs that leaves the workers and the in-flight table alone.
LEMMA WorkersKept ==
    ASSUME WorkersInv, UNCHANGED <<worker, inflight>>
    PROVE  WorkersInv'
BY DEF WorkersInv, OneThreadPerBlock, Busy

LEMMA ChangeStep ==
    ASSUME IInv, NEW b \in Block, NEW ack \in BOOLEAN, NEW urgent \in BOOLEAN,
           Change(b, ack, urgent)
    PROVE  IInv'
<1> USE DEF IInv, Change, mapVars, queueVars
<1>1. Types'
  <2>1. /\ loaded' \subseteq Block /\ changes' \in 0..MaxChanges /\ changes + 1 \in Content
        /\ main' \in [pc : {"step", "update", "neighbors", "joining", "stopped"},
                      block : Block \union {NoBlock}, ack : BOOLEAN, urgent : BOOLEAN,
                      neighbors : SUBSET Block]
    BY MeshAssumption DEF Types, Content
  <2>2. content' \in [Block -> Content]
    BY <2>1 DEF Types
  <2> DEFINE n == IF ack THEN owed[b] + 1 ELSE owed[b]
  <2>3. n \in Int /\ owed \in [Block -> Int] /\ owed' = [owed EXCEPT ![b] = n]
    BY DEF Types
  <2> HIDE DEF n
  <2>4. owed' \in [Block -> Int]
    BY <2>3
  <2>5. UNCHANGED <<refs, mesh, queue, out, outUrgent, urgents, inflight, worker, signal>>
    OBVIOUS
  <2> QED BY <2>1, <2>2, <2>4, <2>5 DEF Types
<1>2. WorkersInv'
  BY WorkersKept
<1>3. LoadedInv'
  BY DEF LoadedInv, AllSafe, Safe, Working
<1>4. RefsInv'
  BY DEF RefsInv, WorkersHolding, Working, Count, Holding
<1>5. OrderInv'
  <2>1. \A c \in Block : content'[c] = IF c = b THEN changes + 1 ELSE content[c]
    BY DEF Types
  <2>2. /\ \A c \in Block : content[c] \in Int /\ content'[c] \in Int /\ content[c] =< content'[c]
        /\ \A c \in Block : content'[c] =< changes'
    <3>1. /\ changes \in Nat /\ changes' = changes + 1
          /\ \A c \in Block : content[c] \in Nat /\ content[c] =< changes
      BY MeshAssumption DEF Types, OrderInv, Content
    <3> SUFFICES ASSUME NEW c \in Block
                 PROVE  /\ content[c] \in Int /\ content'[c] \in Int
                        /\ content[c] =< content'[c] /\ content'[c] =< changes'
      OBVIOUS
    <3> DEFINE x == content[c]
               y == content'[c]
    <3>2. x \in Nat /\ x =< changes /\ (y = changes + 1 \/ y = x)
      BY <2>1, <3>1
    <3> HIDE DEF x, y, Change
    <3>3. x \in Int /\ y \in Int /\ x =< y /\ y =< changes'
      BY <3>1, <3>2
    <3> QED BY <3>3 DEF x, y
  <2>4. ASSUME NEW s \in Seq(Update), NEW c \in Block, NoNewer(s, c, content[c])
        PROVE  NoNewer(s, c, content'[c])
    <3> SUFFICES ASSUME NEW k \in DOMAIN s, s[k].block = c PROVE s[k].shows =< content'[c]
      BY DEF NoNewer
    <3>1. s[k] \in Update /\ s[k].shows \in Int
      BY UpdateFields
    <3> QED BY <2>2, <2>4, <3>1 DEF NoNewer
  <2>5. \A c \in Block : NoNewer(out, c, content'[c]) /\ NoNewer(outUrgent, c, content'[c])
    BY <2>4 DEF OrderInv, Types
  <2>6. ASSUME NEW w \in Worker, worker[w].pc = "put"
        PROVE  worker[w].update.shows =< content'[worker[w].update.block]
    <3>1. worker[w].update \in Update
      BY <2>6 DEF WorkersInv, Busy
    <3> QED BY <2>2, <2>6, <3>1 DEF OrderInv, Update, Content
  <2> QED BY <2>2, <2>5, <2>6 DEF OrderInv, NoNewer, Ordered
<1>6. UrgentIsQueued'
  BY DEF UrgentIsQueued, Queued
<1> QED BY <1>1, <1>2, <1>3, <1>4, <1>5, <1>6

\* MeshUpdateQueue::addBlock of a loaded block keeps the marks and counts the
\* references it takes.
LEMMA AddBlock ==
    ASSUME IInv, NEW b \in loaded, NEW ack \in BOOLEAN, NEW urgent \in BOOLEAN,
           Merge(b, ack, urgent) \/ Enqueue(b, ack, urgent) \/ Skip(b, urgent),
           loaded' = loaded
    PROVE  /\ queue' \in Seq(Update) /\ urgents' \subseteq Block /\ refs' \in [Block -> Int]
           /\ AllSafe(queue')
           /\ \A c \in urgents' : \E k \in DOMAIN queue' : queue'[k].block = c
           /\ \A c \in Block : refs'[c] - Count(queue', c) = refs[c] - Count(queue, c)
<1> USE DEF IInv
<1>1. b \in Block /\ loaded \subseteq Block /\ queue \in Seq(Update) /\ refs \in [Block -> Int]
      /\ urgents \subseteq Block
  BY DEF Types
<1>2. \A c \in Block : Count(queue, c) \in Nat
  BY <1>1, CountType
<1>3. CASE Merge(b, ack, urgent)
  <2>1. PICK k \in Queued(b) :
            /\ queue' = [queue EXCEPT ![k].acks = IF ack THEN @ + 1 ELSE @,
                                      ![k].urgent = @ \/ urgent,
                                      ![k].blocks = @ \union loaded]
            /\ refs' = Grab(loaded \ queue[k].blocks)
    BY <1>3 DEF Merge
  <2>2. k \in DOMAIN queue /\ queue[k] \in Update /\ queue[k].block = b
    BY <1>1, <2>1 DEF Queued
  <2> DEFINE u == Merged(queue[k], loaded, ack, urgent)
  <2>3. Safe(queue[k])
    BY <2>2 DEF LoadedInv, AllSafe
  <2>4. u \in Update /\ u.block = b /\ u.blocks = loaded
    <3>1. queue[k].blocks \union loaded = loaded
      BY <2>3 DEF Safe
    <3>2. u \in Update /\ u.block = queue[k].block /\ u.blocks = queue[k].blocks \union loaded
      BY <1>1, <2>2, MergedUpdate
    <3> QED BY <2>2, <3>1, <3>2
  <2>5. queue' = [queue EXCEPT ![k] = u]
    BY <2>1, <2>2 DEF Merged
  <2> HIDE DEF u
  <2>6. queue' \in Seq(Update)
    BY <1>1, <2>2, <2>4, <2>5
  <2>7. AllSafe(queue')
    BY <2>4, <2>5, <2>2 DEF AllSafe, Safe, LoadedInv
  <2>8. \A c \in Block : refs'[c] = refs[c] + Bit(c \in loaded \ queue[k].blocks)
    BY <2>1 DEF Grab, Bit
  <2>9. refs' \in [Block -> Int]
    BY <1>1, <2>1 DEF Grab
  <2>10. \A c \in urgents' : \E i \in DOMAIN queue' : queue'[i].block = c
    <3>1. \A i \in DOMAIN queue : i \in DOMAIN queue' /\ queue'[i].block = queue[i].block
      BY <2>2, <2>4, <2>5
    <3>2. \A c \in urgents : \E i \in DOMAIN queue : queue[i].block = c
      BY DEF UrgentIsQueued, Queued
    <3> QED BY <1>3, <2>2, <3>1, <3>2 DEF Merge
  <2>11. ASSUME NEW c \in Block
         PROVE  refs'[c] - Count(queue', c) = refs[c] - Count(queue, c)
    <3>1. Count(queue', c) + Bit(c \in queue[k].blocks) = Count(queue, c) + Bit(c \in loaded)
      BY <1>1, <2>2, <2>4, <2>5, CountReplace
    <3>2. Count(queue', c) \in Nat /\ Count(queue, c) \in Nat /\ refs[c] \in Int
      BY <1>1, <1>2, <2>6, CountType
    <3>3. Bit(c \in loaded \ queue[k].blocks) = Bit(c \in loaded) - Bit(c \in queue[k].blocks)
      BY <2>3 DEF Safe, Bit
    <3> QED BY <2>8, <3>1, <3>2, <3>3 DEF Bit
  <2> QED BY <1>1, <1>3, <2>6, <2>7, <2>9, <2>10, <2>11 DEF Merge
<1>4. CASE Enqueue(b, ack, urgent)
  <2> DEFINE u == [block |-> b, acks |-> IF ack THEN 1 ELSE 0, urgent |-> urgent,
                   blocks |-> loaded, shows |-> 0]
  <2>1. u \in Update /\ u.block = b /\ u.blocks = loaded
    BY <1>1, MeshAssumption DEF Update, Content
  <2>2. queue' = Append(queue, u) /\ refs' = Grab(loaded)
    BY <1>4 DEF Enqueue
  <2> HIDE DEF u
  <2>3. queue' \in Seq(Update) /\ refs' \in [Block -> Int]
    BY <1>1, <2>1, <2>2 DEF Grab
  <2>4. AllSafe(queue')
    BY <1>1, <2>1, <2>2 DEF AllSafe, Safe, LoadedInv
  <2>5. \A c \in urgents' : \E i \in DOMAIN queue' : queue'[i].block = c
    <3>1. \A i \in DOMAIN queue : i \in DOMAIN queue' /\ queue'[i] = queue[i]
      BY <1>1, <2>1, <2>2
    <3>2. Len(queue) + 1 \in DOMAIN queue' /\ queue'[Len(queue) + 1].block = b
      BY <1>1, <2>1, <2>2
    <3>3. \A c \in urgents : \E i \in DOMAIN queue : queue[i].block = c
      BY DEF UrgentIsQueued, Queued
    <3> QED BY <1>4, <3>1, <3>2, <3>3 DEF Enqueue
  <2>6. ASSUME NEW c \in Block
        PROVE  refs'[c] - Count(queue', c) = refs[c] - Count(queue, c)
    <3>1. Count(queue', c) = Count(queue, c) + Bit(c \in loaded)
      BY <1>1, <2>1, <2>2, CountAppend
    <3>2. refs'[c] = refs[c] + Bit(c \in loaded)
      BY <2>2 DEF Grab, Bit
    <3> QED BY <1>1, <1>2, <3>1, <3>2 DEF Bit
  <2> QED BY <1>1, <1>4, <2>3, <2>4, <2>5, <2>6 DEF Enqueue
<1>5. CASE Skip(b, urgent)
  BY <1>1, <1>5 DEF Skip, LoadedInv, AllSafe, Safe, UrgentIsQueued, Queued
<1> QED BY <1>3, <1>4, <1>5

\* The rest of such a step.
LEMMA AfterAddBlock ==
    ASSUME IInv, NEW b \in loaded, NEW ack \in BOOLEAN, NEW urgent \in BOOLEAN,
           Merge(b, ack, urgent) \/ Enqueue(b, ack, urgent) \/ Skip(b, urgent),
           Types', main'.pc = "neighbors",
           UNCHANGED <<loaded, content, changes, inflight, worker, out, outUrgent>>
    PROVE  IInv'
<1> USE DEF IInv
<1>1. /\ AllSafe(queue')
      /\ \A c \in urgents' : \E k \in DOMAIN queue' : queue'[k].block = c
      /\ \A c \in Block : refs'[c] - Count(queue', c) = refs[c] - Count(queue, c)
  BY AddBlock
<1>2. WorkersInv'
  BY WorkersKept
<1>3. LoadedInv'
  BY <1>1 DEF LoadedInv, AllSafe, Safe, Working
<1>4. RefsInv'
  <2>1. ASSUME NEW c \in Block PROVE WorkersHolding(c)' = WorkersHolding(c)
    BY DEF WorkersHolding, Working
  <2>2. ASSUME NEW c \in Block
        PROVE  refs'[c] = Count(queue', c) + Count(out, c) + Count(outUrgent, c)
                          + Cardinality(WorkersHolding(c))
    <3>1. /\ Count(queue', c) \in Nat /\ Count(queue, c) \in Nat
          /\ Count(out, c) \in Nat /\ Count(outUrgent, c) \in Nat
      BY CountType DEF Types
    <3>2. Cardinality(WorkersHolding(c)) \in Nat
      BY FS_Subset, FS_CardinalityType, MeshAssumption DEF WorkersHolding
    <3>3. refs[c] \in Int /\ refs'[c] \in Int
      BY DEF Types
    <3> QED BY <1>1, <3>1, <3>2, <3>3 DEF RefsInv
  <2> QED BY <2>1, <2>2 DEF RefsInv, Count, Holding
<1>5. OrderInv'
  BY DEF OrderInv, Ordered, NoNewer
<1>6. UrgentIsQueued'
  BY <1>1 DEF UrgentIsQueued, Queued
<1> QED BY <1>2, <1>3, <1>4, <1>5, <1>6

LEMMA UpdateBlockStep ==
    ASSUME IInv, UpdateBlock
    PROVE  IInv'
<1>1. main.block \in loaded /\ main.ack \in BOOLEAN /\ main.urgent \in BOOLEAN
  BY DEF IInv, UpdateBlock, LoadedInv, Types
<1>2. Merge(main.block, main.ack, main.urgent) \/ Enqueue(main.block, main.ack, main.urgent)
  BY DEF UpdateBlock
<1>3. queue' \in Seq(Update) /\ urgents' \subseteq Block /\ refs' \in [Block -> Int]
  BY <1>1, <1>2, AddBlock DEF UpdateBlock
<1>4. Types' /\ main'.pc = "neighbors"
  BY <1>3 DEF IInv, Types, UpdateBlock
<1> QED BY <1>1, <1>2, <1>4, AfterAddBlock DEF UpdateBlock

LEMMA UpdateNeighborStep ==
    ASSUME IInv, NEW b \in Block, UpdateNeighbor(b)
    PROVE  IInv'
<1>1. main.urgent \in BOOLEAN /\ FALSE \in BOOLEAN
  BY DEF IInv, Types
<1>2. CASE b \in loaded
  <2>1. Merge(b, FALSE, main.urgent) \/ Enqueue(b, FALSE, main.urgent) \/ Skip(b, main.urgent)
    BY <1>2 DEF UpdateNeighbor
  <2>2. queue' \in Seq(Update) /\ urgents' \subseteq Block /\ refs' \in [Block -> Int]
    BY <1>1, <1>2, <2>1, AddBlock DEF UpdateNeighbor
  <2>3. Types' /\ main'.pc = "neighbors"
    BY <2>2 DEF IInv, Types, UpdateNeighbor
  <2> QED BY <1>1, <1>2, <2>1, <2>3, AfterAddBlock DEF UpdateNeighbor
<1>3. CASE b \notin loaded
  <2> USE <1>3 DEF IInv, UpdateNeighbor
  <2>1. Types' /\ main'.pc = "neighbors"
    BY DEF Types
  <2>2. WorkersInv'
    BY WorkersKept
  <2>3. LoadedInv'
    BY <2>1 DEF LoadedInv, AllSafe, Safe, Working
  <2>4. RefsInv'
    BY <2>1 DEF RefsInv, WorkersHolding, Working, Count, Holding
  <2>5. OrderInv' /\ UrgentIsQueued'
    BY DEF OrderInv, Ordered, NoNewer, UrgentIsQueued, Queued
  <2> QED BY <2>1, <2>2, <2>3, <2>4, <2>5
<1> QED BY <1>2, <1>3

\* Steps that change only the main thread's place and the semaphores.
LEMMA MainMoves ==
    ASSUME IInv, Types', main'.pc \in {"step", "joining"},
           UNCHANGED <<mapVars, queueVars, worker, out, outUrgent>>
    PROVE  IInv'
<1> USE DEF IInv, mapVars, queueVars
<1>1. WorkersInv'
  BY WorkersKept
<1>2. LoadedInv'
  BY DEF LoadedInv, AllSafe, Safe, Working
<1>3. RefsInv'
  BY DEF RefsInv, WorkersHolding, Working, Count, Holding
<1>4. OrderInv' /\ UrgentIsQueued'
  BY DEF OrderInv, Ordered, NoNewer, UrgentIsQueued, Queued
<1> QED BY <1>1, <1>2, <1>3, <1>4

LEMMA DeferUpdateStep ==
    ASSUME IInv, DeferUpdate \/ Stop
    PROVE  IInv'
<1> USE DEF IInv, Types, mapVars, queueVars
<1>1. CASE DeferUpdate
  <2>1. Types' /\ main'.pc = "step"
    BY <1>1 DEF DeferUpdate, Idle
  <2> QED BY <1>1, <2>1, MainMoves DEF DeferUpdate
<1>2. CASE Stop
  <2>1. main' = [pc |-> "joining", block |-> main.block, ack |-> main.ack,
                 urgent |-> main.urgent, neighbors |-> main.neighbors]
    BY <1>2 DEF Stop
  <2>2. Types' /\ main'.pc = "joining"
    BY <1>2, <2>1 DEF Stop
  <2> QED BY <1>2, <2>2, MainMoves DEF Stop
<1> QED BY <1>1, <1>2

\* What holds of a queue of results holds when its first one is taken.
LEMMA TailKeeps ==
    ASSUME IInv, NEW s \in Seq(Update), s # <<>>, AllSafe(s), Ordered(s)
    PROVE  /\ AllSafe(Tail(s)) /\ Ordered(Tail(s))
           /\ \A b, shows : NoNewer(s, b, shows) => NoNewer(Tail(s), b, shows)
<1>1. \A k \in DOMAIN Tail(s) : k + 1 \in DOMAIN s /\ Tail(s)[k] = s[k + 1]
  OBVIOUS
<1>2. DOMAIN Tail(s) \subseteq Int
  OBVIOUS
<1>3. \A j, k \in DOMAIN Tail(s) : j < k => j + 1 < k + 1
  BY <1>2
<1> QED BY <1>1, <1>3 DEF AllSafe, Ordered, NoNewer

\* One result less in one of the two queues: its references are given back.
LEMMA ReplaceMeshStep ==
    ASSUME IInv, ReplaceMesh
    PROVE  IInv'
<1> USE DEF IInv, mapVars, queueVars
<1>1. PICK s \in {out, outUrgent} :
          /\ s # <<>> /\ Apply(Head(s))
          /\ \/ s = outUrgent /\ outUrgent' = Tail(s) /\ out' = out
             \/ s = out /\ out' = Tail(s) /\ outUrgent' = outUrgent
  BY DEF ReplaceMesh
<1> DEFINE r == Head(s)
<1>2. /\ s \in Seq(Update) /\ AllSafe(s) /\ Ordered(s) /\ Tail(s) \in Seq(Update)
      /\ r \in Update
  BY <1>1 DEF Types, LoadedInv, OrderInv
<1>3. r.block \in Block /\ r.acks \in Nat /\ r.shows \in Content /\ r.blocks \subseteq Block
  BY <1>2 DEF Update
<1>4. /\ AllSafe(Tail(s)) /\ Ordered(Tail(s))
      /\ \A b, shows : NoNewer(s, b, shows) => NoNewer(Tail(s), b, shows)
  BY <1>1, <1>2, TailKeeps
<1>5. /\ mesh' = [mesh EXCEPT ![r.block] = r.shows]
      /\ owed' = [owed EXCEPT ![r.block] = @ - r.acks]
      /\ refs' = DropRefs(r.blocks)
      /\ UNCHANGED <<loaded, content, changes, main, queueVars, worker, signal>>
  BY <1>1 DEF Apply
<1>6. main.pc = "step"
  BY DEF ReplaceMesh
<1> HIDE DEF r
<1>7. Types'
  <2>1. mesh' \in [Block -> Content] /\ owed' \in [Block -> Int]
    BY <1>3, <1>5 DEF Types
  <2>2. refs' \in [Block -> Int]
    BY <1>5 DEF Types, DropRefs
  <2>3. overtaken' \subseteq Block
    <3>1. outUrgent # <<>> => Head(outUrgent) \in Update
      BY DEF Types
    <3> QED BY <3>1 DEF ReplaceMesh, Types, Update
  <2> QED BY <1>1, <1>2, <1>5, <2>1, <2>2, <2>3 DEF Types
<1>8. WorkersInv'
  BY <1>5, WorkersKept
<1>9. LoadedInv'
  BY <1>1, <1>4, <1>5 DEF LoadedInv, AllSafe, Safe, Working
<1>10. RefsInv'
  <2>1. ASSUME NEW b \in Block
        PROVE  refs'[b] = Count(queue', b) + Count(out', b) + Count(outUrgent', b)
                          + Cardinality(WorkersHolding(b))
    <3>1. /\ Count(queue, b) \in Nat /\ Count(out, b) \in Nat /\ Count(outUrgent, b) \in Nat
          /\ Count(Tail(s), b) \in Nat
      BY <1>2, CountType DEF Types
    <3>2. Cardinality(WorkersHolding(b)) \in Nat
      BY FS_Subset, FS_CardinalityType, MeshAssumption DEF WorkersHolding
    <3>3. Count(s, b) = Bit(b \in r.blocks) + Count(Tail(s), b)
      BY <1>1, <1>2, CountTail DEF r
    <3>4. refs'[b] = refs[b] - Bit(b \in r.blocks)
      BY <1>5 DEF DropRefs, Bit
    <3>5. refs[b] = Count(queue, b) + Count(out, b) + Count(outUrgent, b)
                    + Cardinality(WorkersHolding(b))
      BY DEF RefsInv
    <3>6. Bit(b \in r.blocks) \in Int
      BY DEF Bit
    <3>7. CASE s = outUrgent /\ outUrgent' = Tail(s) /\ out' = out /\ queue' = queue
      BY <3>1, <3>2, <3>3, <3>4, <3>5, <3>6, <3>7
    <3>8. CASE s = out /\ out' = Tail(s) /\ outUrgent' = outUrgent /\ queue' = queue
      BY <3>1, <3>2, <3>3, <3>4, <3>5, <3>6, <3>8
    <3> QED BY <1>1, <1>5, <3>7, <3>8
  <2>2. \A b \in Block : WorkersHolding(b)' = WorkersHolding(b)
    BY <1>5 DEF WorkersHolding, Working
  <2> QED BY <1>5, <1>6, <2>1, <2>2 DEF RefsInv, Count, Holding
<1>11. OrderInv'
  <2>1. /\ out' \in {out, Tail(s)} /\ outUrgent' \in {outUrgent, Tail(s)}
        /\ Ordered(out') /\ Ordered(outUrgent')
    BY <1>1, <1>4 DEF OrderInv
  <2>2. \A b, shows : /\ NoNewer(out, b, shows) => NoNewer(out', b, shows)
                      /\ NoNewer(outUrgent, b, shows) => NoNewer(outUrgent', b, shows)
    BY <1>1, <1>4
  <2> QED BY <1>5, <2>1, <2>2, ZenonT(60) DEF OrderInv, NoNewer, Ordered
<1>12. UrgentIsQueued'
  BY <1>5 DEF UrgentIsQueued, Queued
<1> QED BY <1>7, <1>8, <1>9, <1>10, <1>11, <1>12

\* A block without references is in no update, so it may go.
LEMMA UnloadStep ==
    ASSUME IInv, NEW b \in Block, Unload(b)
    PROVE  IInv'
<1> USE DEF IInv, Unload, mapVars, queueVars
<1>1. /\ Count(queue, b) = 0 /\ Count(out, b) = 0 /\ Count(outUrgent, b) = 0
      /\ Cardinality(WorkersHolding(b)) = 0
  <2>1. Count(queue, b) \in Nat /\ Count(out, b) \in Nat /\ Count(outUrgent, b) \in Nat
    BY CountType DEF Types
  <2>2. Cardinality(WorkersHolding(b)) \in Nat
    BY FS_Subset, FS_CardinalityType, MeshAssumption DEF WorkersHolding
  <2> QED BY <2>1, <2>2 DEF RefsInv
<1>2. Holding(queue, b) = {} /\ Holding(out, b) = {} /\ Holding(outUrgent, b) = {}
  BY <1>1, CountType, FS_EmptySet DEF Types, Count
<1>3. WorkersHolding(b) = {}
  BY <1>1, FS_Subset, FS_EmptySet, MeshAssumption DEF WorkersHolding
<1>4. Types'
  BY MeshAssumption DEF Types, Content
<1>5. WorkersInv'
  BY WorkersKept
<1>6. LoadedInv'
  <2>1. \A u : Safe(u) /\ b \notin u.blocks => Safe(u)'
    BY DEF Safe
  <2>2. AllSafe(queue)' /\ AllSafe(out)' /\ AllSafe(outUrgent)'
    BY <1>2, <2>1 DEF LoadedInv, AllSafe, Holding
  <2>3. ASSUME NEW w \in Worker, Working(w) PROVE Safe(worker[w].update)'
    BY <1>3, <2>1, <2>3 DEF LoadedInv, WorkersHolding
  <2> QED BY <2>2, <2>3 DEF LoadedInv, Working
<1>7. RefsInv'
  BY DEF RefsInv, WorkersHolding, Working, Count, Holding
<1>8. OrderInv'
  <2>1. content' = [content EXCEPT ![b] = 0]
    OBVIOUS
  <2>2. \A c \in Block : content'[c] = IF c = b THEN 0 ELSE content[c]
    BY <2>1 DEF Types
  <2>3. \A s \in {out, outUrgent} : \A k \in DOMAIN s : s[k].block # b
    BY <1>2 DEF LoadedInv, AllSafe, Safe, Holding
  <2>4. \A c \in Block : NoNewer(out, c, content'[c]) /\ NoNewer(outUrgent, c, content'[c])
    BY <2>2, <2>3 DEF OrderInv, NoNewer
  <2>5. ASSUME NEW w \in Worker, worker[w].pc = "put"
        PROVE  worker[w].update.shows =< content'[worker[w].update.block]
    <3>1. worker[w].update \in Update /\ worker[w].update.block \in Block
      BY <2>5 DEF WorkersInv, Busy, Update
    <3>2. worker[w].update.block # b
      BY <1>3, <2>5 DEF LoadedInv, Safe, WorkersHolding, Working
    <3> QED BY <2>2, <2>5, <3>1, <3>2 DEF OrderInv
  <2>6. \A c \in Block : content'[c] =< changes'
    BY <2>2 DEF OrderInv, Types
  <2> QED BY <2>4, <2>5, <2>6 DEF OrderInv, NoNewer, Ordered
<1>9. UrgentIsQueued'
  BY DEF UrgentIsQueued, Queued
<1> QED BY <1>4, <1>5, <1>6, <1>7, <1>8, <1>9

\* With the workers gone and the queues emptied nothing refers to a block.
LEMMA ClearAllQueuesStep ==
    ASSUME IInv, ClearAllQueues
    PROVE  IInv'
<1> USE DEF IInv, ClearAllQueues
<1>1. \A b : Count(<<>>, b) = 0
  BY FS_EmptySet DEF Count, Holding
<1>2. \A b : WorkersHolding(b) = {} /\ WorkersHolding(b)' = {}
  BY DEF WorkersHolding, Working
<1>3. \A b \in Block : refs'[b] = 0
  <2> SUFFICES ASSUME NEW b \in Block PROVE refs'[b] = 0
    OBVIOUS
  <2> DEFINE all == queue \o out \o outUrgent
  <2>1. /\ queue \o out \in Seq(Update)
        /\ Count(queue \o out, b) = Count(queue, b) + Count(out, b)
    BY CountConcat DEF Types
  <2>2. Count(all, b) = Count(queue \o out, b) + Count(outUrgent, b)
    BY <2>1, CountConcat DEF Types
  <2>3. refs'[b] = refs[b] - Count(all, b)
    BY DEF Count, Holding
  <2>4. Count(queue, b) \in Nat /\ Count(out, b) \in Nat /\ Count(outUrgent, b) \in Nat
    BY CountType DEF Types
  <2>5. refs[b] = Count(queue, b) + Count(out, b) + Count(outUrgent, b) + 0
    BY <1>2, FS_EmptySet DEF RefsInv
  <2> HIDE DEF all, IInv, ClearAllQueues
  <2> QED BY <2>1, <2>2, <2>3, <2>4, <2>5
<1>4. main' = [pc |-> "stopped", block |-> main.block, ack |-> main.ack,
               urgent |-> main.urgent, neighbors |-> main.neighbors]
  BY DEF Types
<1>5. Types'
  <2>1. DOMAIN refs' = Block
    OBVIOUS
  <2>2. refs' = [b \in Block |-> refs'[b]]
    OBVIOUS
  <2>3. refs' \in [Block -> Int]
    BY <1>3, <2>2
  <2>4. main' \in [pc : {"step", "update", "neighbors", "joining", "stopped"},
                    block : Block \union {NoBlock}, ack : BOOLEAN, urgent : BOOLEAN,
                    neighbors : SUBSET Block]
    BY <1>4 DEF Types
  <2>5. queue' \in Seq(Update) /\ out' \in Seq(Update) /\ outUrgent' \in Seq(Update)
    OBVIOUS
  <2>6. urgents' \subseteq Block /\ inflight' \subseteq Block
    BY DEF Types
  <2>7. UNCHANGED <<loaded, content, changes, mesh, owed, overtaken, worker, signal>>
    OBVIOUS
  <2> HIDE DEF ClearAllQueues
  <2> QED BY <2>3, <2>4, <2>5, <2>6, <2>7 DEF Types
<1>6. WorkersInv'
  BY DEF WorkersInv, OneThreadPerBlock, Busy
<1>7. LoadedInv'
  BY <1>4 DEF LoadedInv, AllSafe, Working
<1>8. RefsInv'
  <2>1. queue' = <<>> /\ out' = <<>> /\ outUrgent' = <<>>
    OBVIOUS
  <2>2. \A b \in Block : /\ Count(queue, b)' = 0 /\ Count(out, b)' = 0
                         /\ Count(outUrgent, b)' = 0
    BY <1>1, <2>1 DEF Count, Holding
  <2>3. \A b \in Block : Cardinality(WorkersHolding(b)') = 0
    BY <1>2, FS_EmptySet
  <2> HIDE DEF ClearAllQueues
  <2>4. \A b \in Block : refs'[b] = Count(queue, b)' + Count(out, b)' + Count(outUrgent, b)'
                                    + Cardinality(WorkersHolding(b)')
    BY <1>3, <2>2, <2>3
  <2> QED BY <1>3, <2>4 DEF RefsInv
<1>9. OrderInv'
  <2>1. \A w \in Worker : worker'[w].pc # "put"
    OBVIOUS
  <2> QED BY <2>1 DEF OrderInv, Ordered, NoNewer
<1>10. UrgentIsQueued'
  BY DEF UrgentIsQueued, Queued
<1> QED BY <1>5, <1>6, <1>7, <1>8, <1>9, <1>10

-----------------------------------------------------------------------------
(* The steps of a worker.                                                    *)

\* Taking an element out of a sequence leaves the others.
LEMMA RemoveAtElements ==
    ASSUME NEW s \in Seq(Update), NEW k \in DOMAIN s
    PROVE  /\ \A i \in DOMAIN RemoveAt(s, k) : \E j \in DOMAIN s : RemoveAt(s, k)[i] = s[j]
           /\ \A j \in DOMAIN s \ {k} : \E i \in DOMAIN RemoveAt(s, k) : RemoveAt(s, k)[i] = s[j]
<1> DEFINE front == SubSeq(s, 1, k - 1)
           back == SubSeq(s, k + 1, Len(s))
           t == front \o back
<1>1. k \in 1..Len(s) /\ Len(s) \in Nat
  OBVIOUS
<1>2. /\ front \in Seq(Update) /\ Len(front) = k - 1
      /\ \A i \in 1..(k - 1) : front[i] = s[i]
  BY <1>1
<1>3. /\ back \in Seq(Update) /\ Len(back) = Len(s) - k
      /\ \A i \in 1..(Len(s) - k) : back[i] = s[k + i]
  BY <1>1
<1>4. RemoveAt(s, k) = t
  BY DEF RemoveAt
<1> HIDE DEF front, back
<1>5. /\ DOMAIN t = 1..(Len(s) - 1)
      /\ \A i \in 1..(k - 1) : t[i] = s[i]
      /\ \A i \in k..(Len(s) - 1) : t[i] = s[i + 1]
  <2>1. /\ t \in Seq(Update) /\ Len(t) = Len(front) + Len(back)
        /\ \A i \in 1..(Len(front) + Len(back)) :
               t[i] = IF i =< Len(front) THEN front[i] ELSE back[i - Len(front)]
    BY <1>2, <1>3, ConcatProperties
  <2>2. Len(t) = Len(s) - 1 /\ DOMAIN t = 1..(Len(s) - 1)
    BY <1>1, <1>2, <1>3, <2>1, SMTT(30)
  <2>3. ASSUME NEW i \in 1..(k - 1) PROVE t[i] = s[i]
    BY <1>1, <1>2, <1>3, <2>1, SMTT(30)
  <2>4. ASSUME NEW i \in k..(Len(s) - 1) PROVE t[i] = s[i + 1]
    <3>1. i - (k - 1) \in 1..(Len(s) - k) /\ k + (i - (k - 1)) = i + 1
      BY <1>1
    <3>2. t[i] = back[i - (k - 1)]
      <4>1. Len(front) + Len(back) = Len(s) - 1 /\ i \in 1..(Len(s) - 1) /\ ~(i =< k - 1)
        BY <1>1, <1>2, <1>3
      <4>2. t[i] = IF i =< Len(front) THEN front[i] ELSE back[i - Len(front)]
        BY <2>1, <4>1
      <4> QED BY <1>2, <4>1, <4>2
    <3> QED BY <1>3, <3>1, <3>2
  <2> QED BY <2>2, <2>3, <2>4
<1> HIDE DEF t
<1>6. ASSUME NEW i \in DOMAIN t PROVE \E j \in DOMAIN s : t[i] = s[j]
  <2>1. CASE i < k
    <3>1. i \in DOMAIN s /\ t[i] = s[i]
      BY <1>1, <1>5, <2>1
    <3> QED BY <3>1
  <2>2. CASE i >= k
    <3>1. i + 1 \in DOMAIN s /\ t[i] = s[i + 1]
      BY <1>1, <1>5, <2>2
    <3> QED BY <3>1
  <2> QED BY <1>1, <1>5, <2>1, <2>2
<1>7. ASSUME NEW j \in DOMAIN s \ {k} PROVE \E i \in DOMAIN t : t[i] = s[j]
  <2>1. CASE j < k
    <3>1. j \in DOMAIN t /\ t[j] = s[j]
      BY <1>1, <1>5, <2>1
    <3> QED BY <3>1
  <2>2. CASE j > k
    <3>1. j - 1 \in DOMAIN t /\ t[j - 1] = s[j]
      BY <1>1, <1>5, <2>2
    <3> QED BY <3>1
  <2> QED BY <1>1, <2>1, <2>2
<1> QED BY <1>4, <1>6, <1>7

\* A worker that waits or looks for work moves on without an update.
LEMMA WorkerMoves ==
    ASSUME IInv, NEW w \in Worker, worker[w].pc \in {"wait", "pop"},
           NEW pc \in {"wait", "pop", "ended"}, WorkerGoes(w, pc), signal' \in [Worker -> BOOLEAN],
           UNCHANGED <<mapVars, main, queueVars, out, outUrgent>>
    PROVE  IInv'
<1> USE DEF IInv, mapVars, queueVars
<1>1. /\ \A v \in Worker : v # w => worker'[v] = worker[v]
      /\ worker'[w] = [pc |-> pc, update |-> worker[w].update]
      /\ worker' \in [Worker -> [pc : {"wait", "pop", "fill", "put", "done", "ended"},
                                 update : Update \union {NoUpdate}]]
  BY DEF Types, WorkerGoes
<1>2. Types'
  BY <1>1 DEF Types
<1>3. WorkersInv'
  BY <1>1 DEF WorkersInv, OneThreadPerBlock, Busy
<1>4. LoadedInv'
  BY <1>1 DEF LoadedInv, AllSafe, Safe, Working
<1>5. RefsInv'
  <2>1. \A b \in Block : WorkersHolding(b)' = WorkersHolding(b)
    BY <1>1 DEF WorkersHolding, Working
  <2> QED BY <2>1 DEF RefsInv, Count, Holding
<1>6. OrderInv'
  BY <1>1 DEF OrderInv, Ordered, NoNewer
<1>7. UrgentIsQueued'
  BY DEF UrgentIsQueued, Queued
<1> QED BY <1>2, <1>3, <1>4, <1>5, <1>6, <1>7

LEMMA WakeStep ==
    ASSUME IInv, NEW w \in Worker, Wake(w) \/ PopNothing(w)
    PROVE  IInv'
<1>1. signal' \in [Worker -> BOOLEAN]
  BY DEF IInv, Types, Wake, PopNothing
<1>2. PICK pc \in {"wait", "pop", "ended"} : WorkerGoes(w, pc)
  BY DEF Wake, PopNothing
<1> QED BY <1>1, <1>2, WorkerMoves DEF Wake, PopNothing

\* The update goes from the queue to the worker, and its block is in no other hands.
LEMMA PopStep ==
    ASSUME IInv, NEW w \in Worker, Pop(w)
    PROVE  IInv'
<1> USE DEF IInv, mapVars, queueVars
<1>1. PICK k \in DOMAIN queue :
          /\ Eligible(k)
          /\ queue' = RemoveAt(queue, k)
          /\ urgents' = urgents \ {queue[k].block}
          /\ inflight' = inflight \union {queue[k].block}
          /\ worker' = [worker EXCEPT ![w] = [pc |-> "fill", update |-> queue[k]]]
  BY DEF Pop
<1>2. /\ worker[w].pc = "pop"
      /\ UNCHANGED <<loaded, content, refs, changes, mesh, owed, overtaken, main, signal, out,
                     outUrgent>>
  BY DEF Pop
<1> DEFINE u == queue[k]
<1>3. queue \in Seq(Update) /\ u \in Update /\ u.block \in Block
  BY UpdateFields DEF Types
<1>4. /\ queue' \in Seq(Update)
      /\ \A b : Count(queue, b) = Bit(b \in u.blocks) + Count(queue', b)
  BY <1>1, <1>3, CountRemoveAt
<1>5. /\ \A i \in DOMAIN queue' : \E j \in DOMAIN queue : queue'[i] = queue[j]
      /\ \A j \in DOMAIN queue \ {k} : \E i \in DOMAIN queue' : queue'[i] = queue[j]
  BY <1>1, <1>3, RemoveAtElements
<1>6. /\ \A v \in Worker : v # w => worker'[v] = worker[v]
      /\ worker'[w] = [pc |-> "fill", update |-> u]
      /\ worker' \in [Worker -> [pc : {"wait", "pop", "fill", "put", "done", "ended"},
                                 update : Update \union {NoUpdate}]]
  BY <1>1, <1>3 DEF Types
<1>7. Safe(u)
  BY DEF LoadedInv, AllSafe
<1>8. u.block \notin inflight
  BY <1>1 DEF Eligible
<1> HIDE DEF u
<1>9. Types'
  BY <1>1, <1>2, <1>3, <1>4, <1>6 DEF Types, u
<1>10. WorkersInv'
  BY <1>1, <1>3, <1>6, <1>8 DEF WorkersInv, OneThreadPerBlock, Busy, u
<1>11. LoadedInv'
  <2>1. \A v : Safe(v)' <=> Safe(v)
    BY <1>2 DEF Safe
  <2>2. AllSafe(queue)' /\ AllSafe(out)' /\ AllSafe(outUrgent)'
    BY <1>2, <1>5, <2>1 DEF LoadedInv, AllSafe
  <2>3. \A v \in Worker : Working(v)' => Safe(worker'[v].update)
    BY <1>6, <1>7 DEF LoadedInv, Working
  <2> QED BY <1>2, <2>1, <2>2, <2>3 DEF LoadedInv
<1>12. RefsInv'
  <2>1. ASSUME NEW b \in Block
        PROVE  refs'[b] = Count(queue', b) + Count(out', b) + Count(outUrgent', b)
                          + Cardinality(WorkersHolding(b)')
    <3>1. WorkersHolding(b)' = IF b \in u.blocks THEN WorkersHolding(b) \union {w}
                               ELSE WorkersHolding(b)
      BY <1>2, <1>6 DEF WorkersHolding, Working
    <3>2. w \notin WorkersHolding(b) /\ IsFiniteSet(WorkersHolding(b))
      BY <1>2, FS_Subset, MeshAssumption DEF WorkersHolding, Working
    <3>3. Cardinality(WorkersHolding(b)') = Cardinality(WorkersHolding(b)) + Bit(b \in u.blocks)
      <4>1. Cardinality(WorkersHolding(b)) \in Nat
        BY <3>2, FS_CardinalityType
      <4>2. Cardinality(WorkersHolding(b) \union {w}) = Cardinality(WorkersHolding(b)) + 1
        BY <3>2, FS_AddElement
      <4> QED BY <3>1, <4>1, <4>2 DEF Bit
    <3>4. /\ Count(queue', b) \in Nat /\ Count(out, b) \in Nat /\ Count(outUrgent, b) \in Nat
          /\ Cardinality(WorkersHolding(b)) \in Nat /\ Bit(b \in u.blocks) \in Nat
      BY <1>4, <3>2, CountType, FS_CardinalityType DEF Types, Bit
    <3>5. refs[b] = (Bit(b \in u.blocks) + Count(queue', b)) + Count(out, b) + Count(outUrgent, b)
                    + Cardinality(WorkersHolding(b))
      BY <1>4 DEF RefsInv
    <3> QED BY <1>2, <3>3, <3>4, <3>5
  <2> QED BY <1>2, <2>1 DEF RefsInv, Count, Holding
<1>13. OrderInv'
  BY <1>2, <1>6 DEF OrderInv, Ordered, NoNewer
<1>14. UrgentIsQueued'
  <2> SUFFICES ASSUME NEW b \in urgents' PROVE \E i \in DOMAIN queue' : queue'[i].block = b
    BY DEF UrgentIsQueued, Queued
  <2>1. PICK j \in DOMAIN queue : queue[j].block = b
    BY <1>1 DEF UrgentIsQueued, Queued
  <2>2. j # k
    BY <1>1, <2>1
  <2> QED BY <1>5, <2>1, <2>2
<1> QED BY <1>9, <1>10, <1>11, <1>12, <1>13, <1>14

\* The copy is as new as the block.
LEMMA FillDataStep ==
    ASSUME IInv, NEW w \in Worker, FillData(w)
    PROVE  IInv'
<1> USE DEF IInv, mapVars, queueVars
<1> DEFINE u == worker[w].update
           v == [u EXCEPT !.shows = content[u.block]]
<1>1. /\ worker[w].pc = "fill"
      /\ UNCHANGED <<loaded, content, refs, changes, mesh, owed, overtaken, main, queue, urgents,
                     inflight, signal, out, outUrgent>>
  BY DEF FillData
<1>2. u \in Update /\ u.block \in Block
  BY <1>1 DEF WorkersInv, Busy, Update
<1>3. v \in Update /\ v.block = u.block /\ v.blocks = u.blocks /\ v.shows = content[u.block]
  BY <1>2 DEF Update, Types
<1>4. worker'[w] = [pc |-> "put", update |-> v]
  <2>1. worker[w] = [pc |-> worker[w].pc, update |-> u] /\ w \in DOMAIN worker
    BY DEF Types
  <2> QED BY <2>1 DEF FillData
<1>5. \A x \in Worker : x # w => worker'[x] = worker[x]
  BY DEF FillData, Types
<1>6. worker' = [x \in Worker |-> worker'[x]]
  BY DEF FillData, Types
<1> HIDE DEF u, v
<1>7. Types'
  <2>1. worker' \in [Worker -> [pc : {"wait", "pop", "fill", "put", "done", "ended"},
                                update : Update \union {NoUpdate}]]
    <3>1. \A x \in Worker : worker'[x] \in
              [pc : {"wait", "pop", "fill", "put", "done", "ended"}, update : Update \union {NoUpdate}]
      <4> SUFFICES ASSUME NEW x \in Worker
                   PROVE  worker'[x] \in [pc : {"wait", "pop", "fill", "put", "done", "ended"},
                                          update : Update \union {NoUpdate}]
        OBVIOUS
      <4>1. CASE x = w
        BY <1>3, <1>4, <4>1
      <4>2. CASE x # w
        BY <1>5, <4>2 DEF Types
      <4> QED BY <4>1, <4>2
    <3> QED BY <1>6, <3>1
  <2> QED BY <1>1, <2>1 DEF Types
<1>8. WorkersInv'
  BY <1>1, <1>3, <1>4, <1>5 DEF WorkersInv, OneThreadPerBlock, Busy, u
<1>9. LoadedInv'
  <2>1. \A x : Safe(x)' <=> Safe(x)
    BY <1>1 DEF Safe
  <2>2. Safe(v)
    BY <1>1, <1>3 DEF LoadedInv, Working, Safe, u
  <2>3. \A x \in Worker : Working(x)' => Safe(worker'[x].update)
    BY <1>4, <1>5, <2>2 DEF LoadedInv, Working
  <2> QED BY <1>1, <2>1, <2>3 DEF LoadedInv, AllSafe
<1>10. RefsInv'
  <2>1. \A b \in Block : WorkersHolding(b)' = WorkersHolding(b)
    BY <1>1, <1>3, <1>4, <1>5 DEF WorkersHolding, Working, u
  <2> QED BY <1>1, <2>1 DEF RefsInv, Count, Holding
<1>11. OrderInv'
  <2>1. content[u.block] \in Int
    BY <1>2, MeshAssumption DEF Types, Content
  <2> QED BY <1>1, <1>2, <1>3, <1>4, <1>5, <2>1 DEF OrderInv, Ordered, NoNewer
<1>12. UrgentIsQueued'
  BY <1>1 DEF UrgentIsQueued, Queued
<1> QED BY <1>7, <1>8, <1>9, <1>10, <1>11, <1>12

\* What holds of a queue of results holds with one more that is no older.
LEMMA AppendKeeps ==
    ASSUME IInv, NEW s \in Seq(Update), NEW u \in Update, AllSafe(s), Ordered(s), Safe(u),
           NoNewer(s, u.block, u.shows)
    PROVE  /\ AllSafe(Append(s, u)) /\ Ordered(Append(s, u))
           /\ \A b, shows : NoNewer(s, b, shows) /\ (u.block = b => u.shows =< shows)
                            => NoNewer(Append(s, u), b, shows)
<1> DEFINE t == Append(s, u)
           n == Len(s) + 1
<1>1. /\ DOMAIN t = DOMAIN s \union {n} /\ t[n] = u
      /\ \A k \in DOMAIN s : t[k] = s[k] /\ k < n
  OBVIOUS
<1>2. u.shows \in Int
  BY MeshAssumption DEF Update, Content
<1> HIDE DEF t, n
<1>3. AllSafe(t)
  BY <1>1 DEF AllSafe
<1>4. Ordered(t)
  <2> SUFFICES ASSUME NEW j \in DOMAIN t, NEW k \in DOMAIN t, j < k, t[j].block = t[k].block
               PROVE  t[j].shows =< t[k].shows
    BY DEF Ordered
  <2>1. j \in DOMAIN s
    BY <1>1 DEF n
  <2> QED BY <1>1, <2>1 DEF Ordered, NoNewer
<1>5. \A b, shows : NoNewer(s, b, shows) /\ (u.block = b => u.shows =< shows)
                    => NoNewer(t, b, shows)
  BY <1>1 DEF NoNewer
<1> QED BY <1>3, <1>4, <1>5 DEF t

\* The references go from the worker to the queue of results.
LEMMA PutResultStep ==
    ASSUME IInv, NEW w \in Worker, PutResult(w)
    PROVE  IInv'
<1> USE DEF IInv, mapVars, queueVars
<1> DEFINE u == worker[w].update
<1>1. PICK s \in {out, outUrgent} :
          \/ s = outUrgent /\ outUrgent' = Append(s, u) /\ out' = out
          \/ s = out /\ out' = Append(s, u) /\ outUrgent' = outUrgent
  BY DEF PutResult
<1>2. /\ worker[w].pc = "put" /\ WorkerGoes(w, "done")
      /\ UNCHANGED <<loaded, content, refs, changes, mesh, owed, overtaken, main, queue, urgents,
                     inflight, signal>>
  BY DEF PutResult
<1>3. u \in Update /\ u.block \in Block /\ Safe(u)
  BY <1>2 DEF WorkersInv, Busy, Update, LoadedInv, Working
<1>4. /\ s \in Seq(Update) /\ AllSafe(s) /\ Ordered(s) /\ NoNewer(s, u.block, u.shows)
      /\ u.shows =< content[u.block]
  BY <1>1, <1>2 DEF Types, LoadedInv, OrderInv
<1>5. /\ AllSafe(Append(s, u)) /\ Ordered(Append(s, u)) /\ Append(s, u) \in Seq(Update)
      /\ \A b, shows : NoNewer(s, b, shows) /\ (u.block = b => u.shows =< shows)
                       => NoNewer(Append(s, u), b, shows)
  BY <1>3, <1>4, AppendKeeps
<1>6. /\ \A v \in Worker : v # w => worker'[v] = worker[v]
      /\ worker'[w] = [pc |-> "done", update |-> u]
      /\ worker' \in [Worker -> [pc : {"wait", "pop", "fill", "put", "done", "ended"},
                                 update : Update \union {NoUpdate}]]
  BY <1>2 DEF Types, WorkerGoes
<1>7. ASSUME NEW v \in Worker, v # w, worker[v].pc = "put"
      PROVE  worker[v].update.block # u.block
  BY <1>2, <1>7 DEF WorkersInv, OneThreadPerBlock
<1> HIDE DEF u
<1>8. Types'
  BY <1>1, <1>2, <1>5, <1>6 DEF Types
<1>9. WorkersInv'
  BY <1>2, <1>6 DEF WorkersInv, OneThreadPerBlock, Busy, u
<1>10. LoadedInv'
  <2>1. \A x : Safe(x)' <=> Safe(x)
    BY <1>2 DEF Safe
  <2>2. AllSafe(out)' /\ AllSafe(outUrgent)' /\ AllSafe(queue)'
    BY <1>1, <1>2, <1>5, <2>1 DEF LoadedInv, AllSafe
  <2>3. \A x \in Worker : Working(x)' => Safe(worker'[x].update)
    BY <1>6 DEF LoadedInv, Working
  <2> QED BY <1>2, <2>1, <2>2, <2>3 DEF LoadedInv
<1>11. RefsInv'
  <2>1. ASSUME NEW b \in Block
        PROVE  refs'[b] = Count(queue', b) + Count(out', b) + Count(outUrgent', b)
                          + Cardinality(WorkersHolding(b)')
    <3>1. WorkersHolding(b)' = WorkersHolding(b) \ {w}
      BY <1>2, <1>6 DEF WorkersHolding, Working
    <3>2. /\ w \in WorkersHolding(b) <=> b \in u.blocks
          /\ IsFiniteSet(WorkersHolding(b))
      BY <1>2, FS_Subset, MeshAssumption DEF WorkersHolding, Working, u
    <3>3. /\ Count(queue, b) \in Nat /\ Count(out, b) \in Nat /\ Count(outUrgent, b) \in Nat
          /\ Cardinality(WorkersHolding(b)) \in Nat /\ Bit(b \in u.blocks) \in Nat
      BY <3>2, CountType, FS_CardinalityType DEF Types, Bit
    <3>4. Cardinality(WorkersHolding(b)') = Cardinality(WorkersHolding(b)) - Bit(b \in u.blocks)
      <4>1. Cardinality(WorkersHolding(b) \ {w})
                = IF w \in WorkersHolding(b) THEN Cardinality(WorkersHolding(b)) - 1
                  ELSE Cardinality(WorkersHolding(b))
        BY <3>2, FS_RemoveElement
      <4> QED BY <3>1, <3>2, <3>3, <4>1 DEF Bit
    <3>5. Count(Append(s, u), b) = Count(s, b) + Bit(b \in u.blocks)
      BY <1>3, <1>4, CountAppend
    <3>6. refs[b] = Count(queue, b) + Count(out, b) + Count(outUrgent, b)
                    + Cardinality(WorkersHolding(b))
      BY DEF RefsInv
    <3>7. CASE s = outUrgent /\ outUrgent' = Append(s, u) /\ out' = out
      BY <1>2, <3>3, <3>4, <3>5, <3>6, <3>7
    <3>8. CASE s = out /\ out' = Append(s, u) /\ outUrgent' = outUrgent
      BY <1>2, <3>3, <3>4, <3>5, <3>6, <3>8
    <3> QED BY <1>1, <3>7, <3>8
  <2> QED BY <1>2, <2>1 DEF RefsInv, Count, Holding
<1>12. OrderInv'
  <2>1. Ordered(out') /\ Ordered(outUrgent')
    BY <1>1, <1>5 DEF OrderInv
  <2>2. \A b \in Block : NoNewer(out', b, content[b]) /\ NoNewer(outUrgent', b, content[b])
    BY <1>1, <1>3, <1>4, <1>5 DEF OrderInv
  <2>3. ASSUME NEW v \in Worker, worker'[v].pc = "put"
        PROVE  LET x == worker'[v].update
               IN  /\ x.shows =< content[x.block]
                   /\ NoNewer(out', x.block, x.shows) /\ NoNewer(outUrgent', x.block, x.shows)
    <3>1. v # w /\ worker'[v] = worker[v]
      BY <1>6, <2>3
    <3>2. worker[v].update.block # u.block
      BY <1>7, <2>3, <3>1
    <3> QED BY <1>1, <1>5, <2>3, <3>1, <3>2 DEF OrderInv
  <2> QED BY <1>2, <2>1, <2>2, <2>3 DEF OrderInv, Ordered, NoNewer
<1>13. UrgentIsQueued'
  BY <1>2 DEF UrgentIsQueued, Queued
<1> QED BY <1>8, <1>9, <1>10, <1>11, <1>12, <1>13

\* Only this worker had the block.
LEMMA DoneStep ==
    ASSUME IInv, NEW w \in Worker, Done(w)
    PROVE  IInv'
<1> USE DEF IInv, Done, mapVars, queueVars
<1>1. /\ \A v \in Worker : v # w => worker'[v] = worker[v]
      /\ worker'[w] = [pc |-> "pop", update |-> NoUpdate]
      /\ worker' \in [Worker -> [pc : {"wait", "pop", "fill", "put", "done", "ended"},
                                 update : Update \union {NoUpdate}]]
  BY DEF Types
<1>2. Types'
  BY <1>1 DEF Types
<1>3. WorkersInv'
  BY <1>1 DEF WorkersInv, OneThreadPerBlock, Busy
<1>4. LoadedInv'
  BY <1>1 DEF LoadedInv, AllSafe, Safe, Working
<1>5. RefsInv'
  <2>1. \A b \in Block : WorkersHolding(b)' = WorkersHolding(b)
    BY <1>1 DEF WorkersHolding, Working
  <2> QED BY <2>1 DEF RefsInv, Count, Holding
<1>6. OrderInv'
  BY <1>1 DEF OrderInv, Ordered, NoNewer
<1>7. UrgentIsQueued'
  BY DEF UrgentIsQueued, Queued
<1> QED BY <1>2, <1>3, <1>4, <1>5, <1>6, <1>7

-----------------------------------------------------------------------------
(* The theorems.                                                             *)

LEMMA NextInvariant ==
    IInv /\ [Next]_vars => IInv'
<1> SUFFICES ASSUME IInv, [Next]_vars PROVE IInv'
  OBVIOUS
<1>1. CASE Main
  <2>1. ASSUME NEW b \in Block, HandleBlockData(b) PROVE IInv'
    BY <2>1, ChangeStep DEF HandleBlockData
  <2>2. ASSUME NEW b \in Block, ChangeNode(b) PROVE IInv'
    BY <2>2, ChangeStep DEF ChangeNode
  <2>3. CASE UpdateBlock
    BY <2>3, UpdateBlockStep
  <2>4. ASSUME NEW b \in Block, UpdateNeighbor(b) PROVE IInv'
    BY <2>4, UpdateNeighborStep
  <2>5. CASE DeferUpdate \/ Stop
    BY <2>5, DeferUpdateStep
  <2>6. CASE ReplaceMesh
    BY <2>6, ReplaceMeshStep
  <2>7. ASSUME NEW b \in Block, Unload(b) PROVE IInv'
    BY <2>7, UnloadStep
  <2>8. CASE ClearAllQueues
    BY <2>8, ClearAllQueuesStep
  <2> QED BY <1>1, <2>1, <2>2, <2>3, <2>4, <2>5, <2>6, <2>7, <2>8 DEF Main
<1>2. ASSUME NEW w \in Worker, Work(w) PROVE IInv'
  BY <1>2, WakeStep, PopStep, FillDataStep, PutResultStep, DoneStep DEF Work
<1>3. CASE UNCHANGED vars
  <2> USE <1>3 DEF IInv, vars, mapVars, queueVars
  <2>1. Types' /\ WorkersInv'
    BY DEF Types, WorkersInv, OneThreadPerBlock, Busy
  <2>2. LoadedInv' /\ RefsInv'
    BY DEF LoadedInv, AllSafe, Safe, Working, RefsInv, WorkersHolding, Count, Holding
  <2>3. OrderInv' /\ UrgentIsQueued'
    BY DEF OrderInv, Ordered, NoNewer, UrgentIsQueued, Queued
  <2> QED BY <2>1, <2>2, <2>3
<1> QED BY <1>1, <1>2, <1>3 DEF Next

\* The invariant holds in every state of every behaviour.
LEMMA Invariant == Spec => []IInv
<1> QED BY InitInvariant, NextInvariant, PTL DEF Spec

\* MeshUpdateQueue::pop and done never let two workers have the same block.
THEOREM OneThread == Spec => []OneThreadPerBlock
<1>1. IInv => OneThreadPerBlock
  BY DEF IInv, WorkersInv
<1> QED BY <1>1, Invariant, PTL

\* A mark in m_urgents always has its update in the queue.
THEOREM Marks == Spec => []UrgentIsQueued
<1>1. IInv => UrgentIsQueued
  BY DEF IInv
<1> QED BY <1>1, Invariant, PTL

\* The reference counts keep every block in the map that an update refers to, and are
\* 0 when clearAllQueues is done.
THEOREM References == Spec => []BlocksStayLoaded
<1>1. IInv => BlocksStayLoaded
  <2> SUFFICES ASSUME IInv PROVE BlocksStayLoaded
    OBVIOUS
  <2>1. \A k \in DOMAIN Waiting :
            \/ \E j \in DOMAIN queue : Waiting[k] = queue[j]
            \/ \E j \in DOMAIN out : Waiting[k] = out[j]
            \/ \E j \in DOMAIN outUrgent : Waiting[k] = outUrgent[j]
    <3>1. queue \in Seq(Update) /\ out \in Seq(Update) /\ outUrgent \in Seq(Update)
      BY DEF IInv, Types
    <3> SUFFICES ASSUME NEW k \in DOMAIN Waiting
                 PROVE  \/ \E j \in DOMAIN queue : Waiting[k] = queue[j]
                        \/ \E j \in DOMAIN out : Waiting[k] = out[j]
                        \/ \E j \in DOMAIN outUrgent : Waiting[k] = outUrgent[j]
      OBVIOUS
    <3> DEFINE m == Len(queue)
               n == Len(queue) + Len(out)
    <3>2. /\ queue \o out \in Seq(Update) /\ Len(queue \o out) = n
          /\ \A j \in 1..n : (queue \o out)[j] = IF j =< m THEN queue[j] ELSE out[j - m]
      BY <3>1
    <3>3. /\ k \in 1..(n + Len(outUrgent))
          /\ Waiting[k] = IF k =< n THEN (queue \o out)[k] ELSE outUrgent[k - n]
      BY <3>1, <3>2 DEF Waiting
    <3>4. CASE k =< m
      BY <3>1, <3>2, <3>3, <3>4
    <3>5. CASE k > m /\ k =< n
      <4>1. k - m \in DOMAIN out /\ Waiting[k] = out[k - m]
        BY <3>1, <3>2, <3>3, <3>5
      <4> QED BY <4>1
    <3>6. CASE k > n
      <4>1. k - n \in DOMAIN outUrgent /\ Waiting[k] = outUrgent[k - n]
        BY <3>1, <3>2, <3>3, <3>6
      <4> QED BY <4>1
    <3> QED BY <3>1, <3>3, <3>4, <3>5, <3>6
  <2> QED BY <2>1 DEF IInv, LoadedInv, RefsInv, AllSafe, Safe, BlocksStayLoaded
<1> QED BY <1>1, Invariant, PTL

\* Workers that run side by side put the results of a block in the order of what they
\* show.
THEOREM ResultsInOrder == Spec => []EachQueueInOrder
<1>1. IInv => EachQueueInOrder
  BY DEF IInv, OrderInv, Ordered, EachQueueInOrder
<1> QED BY <1>1, Invariant, PTL
-----------------------------------------------------------------------------
(* Sums of acknowledgements, in sequences ...                                *)

\* What one update has for b.
AcksFor(u, b) == IF u.block = b THEN u.acks ELSE 0

LEMMA AcksForType ==
    ASSUME NEW s \in Seq(Update), NEW k \in 1..Len(s), NEW b
    PROVE  s[k] \in Update /\ AcksFor(s[k], b) \in Nat
<1>1. s[k] \in Update
  BY ElementOfSeq
<1> QED BY <1>1 DEF Update, AcksFor

\* The sum goes from update to update.
LEMMA AcksSteps ==
    ASSUME NEW s \in Seq(Update), NEW b
    PROVE  \E f \in [0..Len(s) -> Nat] :
               /\ f[0] = 0 /\ f[Len(s)] = AcksIn(s, b)
               /\ \A k \in 1..Len(s) : f[k] = f[k - 1] + AcksFor(s[k], b)
<1> DEFINE n == Len(s)
           h == [x \in Nat \X (1..n) |-> x[1] + AcksFor(s[x[2]], b)]
           Steps(g) == g = [k \in 0..n |-> IF k = 0 THEN 0 ELSE g[k - 1] + AcksFor(s[k], b)]
<1>1. n \in Nat
  OBVIOUS
<1>2. \A v \in Nat, k \in 1..n :
          h[<<v, k>>] = v + AcksFor(s[k], b) /\ v + AcksFor(s[k], b) \in Nat
  <2> SUFFICES ASSUME NEW v \in Nat, NEW k \in 1..n
               PROVE  h[<<v, k>>] = v + AcksFor(s[k], b) /\ v + AcksFor(s[k], b) \in Nat
    BY Zenon
  <2>1. AcksFor(s[k], b) \in Nat
    BY AcksForType
  <2> QED BY <2>1
<1> HIDE DEF h
<1>3. PICK g : g \in [0..n -> Nat] /\ g[0] = 0 /\ \A k \in 1..n : g[k] = h[<<g[k - 1], k>>]
  <2>1. Closed(h, Nat, n)
    BY <1>2 DEF Closed
  <2>2. \E g : Chain(g, Nat, 0, h, n)
    BY <1>1, <2>1, ChainExists
  <2> QED BY <2>2 DEF Chain
<1>4. \A k \in 1..n : g[k] = g[k - 1] + AcksFor(s[k], b)
  <2> SUFFICES ASSUME NEW k \in 1..n PROVE g[k] = g[k - 1] + AcksFor(s[k], b)
    OBVIOUS
  <2>1. g[k - 1] \in Nat
    BY <1>1, <1>3
  <2>2. h[<<g[k - 1], k>>] = g[k - 1] + AcksFor(s[k], b)
    BY <1>2, <2>1
  <2> QED BY <1>3, <2>2
<1>5. Steps(g)
  <2> SUFFICES ASSUME NEW k \in 0..n
               PROVE  g[k] = IF k = 0 THEN 0 ELSE g[k - 1] + AcksFor(s[k], b)
    BY <1>3
  <2> QED BY <1>3, <1>4
<1> DEFINE f == CHOOSE x : Steps(x)
<1>6. Steps(f)
  BY <1>5, Zenon
<1>7. AcksIn(s, b) = f[n]
  BY DEF AcksIn, AcksFor
<1> HIDE DEF f
<1>8. f[0] = 0 /\ \A k \in 1..n : f[k] = f[k - 1] + AcksFor(s[k], b)
  BY <1>1, <1>6
<1>9. \A k \in 0..n : f[k] = g[k]
  <2>1. Alike(f, g, n)
    BY <1>1, <1>3, <1>4, <1>8 DEF Alike
  <2> QED BY <1>1, <2>1, AlikeAgree
<1>10. g[n] = AcksIn(s, b)
  BY <1>1, <1>7, <1>9
<1> QED BY <1>3, <1>4, <1>10

LEMMA AcksType ==
    ASSUME NEW s \in Seq(Update), NEW b
    PROVE  AcksIn(s, b) \in Nat
<1>1. PICK f \in [0..Len(s) -> Nat] : f[Len(s)] = AcksIn(s, b)
  BY AcksSteps
<1> QED BY <1>1

\* No update has none, and one its own.
LEMMA AcksOne ==
    ASSUME NEW b
    PROVE  /\ AcksIn(<<>>, b) = 0
           /\ \A u \in Update : AcksIn(<<u>>, b) = AcksFor(u, b)
<1>1. AcksIn(<<>>, b) = 0
  <2>1. <<>> \in Seq(Update) /\ Len(<<>>) = 0
    OBVIOUS
  <2> QED BY <2>1, AcksSteps
<1>2. ASSUME NEW u \in Update PROVE AcksIn(<<u>>, b) = AcksFor(u, b)
  <2> DEFINE s == <<u>>
  <2>1. s \in Seq(Update) /\ Len(s) = 1 /\ s[1] = u
    OBVIOUS
  <2> HIDE DEF s
  <2>2. PICK f \in [0..Len(s) -> Nat] :
            /\ f[0] = 0 /\ f[Len(s)] = AcksIn(s, b)
            /\ \A k \in 1..Len(s) : f[k] = f[k - 1] + AcksFor(s[k], b)
    BY <2>1, AcksSteps
  <2>3. f[1] = f[1 - 1] + AcksFor(s[1], b) /\ AcksFor(s[1], b) \in Nat
    BY <2>1, <2>2, AcksForType
  <2> QED BY <2>1, <2>2, <2>3 DEF s
<1> QED BY <1>1, <1>2

\* What two sequences have together is what each of them has.
LEMMA AcksConcat ==
    ASSUME NEW s \in Seq(Update), NEW t \in Seq(Update), NEW b
    PROVE  AcksIn(s \o t, b) = AcksIn(s, b) + AcksIn(t, b)
<1> DEFINE m == Len(s)
           n == Len(t)
           p == s \o t
<1>1. /\ m \in Nat /\ n \in Nat /\ p \in Seq(Update) /\ Len(p) = m + n
      /\ \A k \in 1..m : p[k] = s[k]
      /\ \A k \in 1..n : p[m + k] = t[k]
  OBVIOUS
<1>2. PICK f \in [0..m -> Nat] :
          /\ f[0] = 0 /\ f[m] = AcksIn(s, b)
          /\ \A k \in 1..m : f[k] = f[k - 1] + AcksFor(s[k], b)
  BY AcksSteps
<1>3. PICK g \in [0..n -> Nat] :
          /\ g[0] = 0 /\ g[n] = AcksIn(t, b)
          /\ \A k \in 1..n : g[k] = g[k - 1] + AcksFor(t[k], b)
  BY AcksSteps
<1> HIDE DEF p, m, n
<1>4. PICK h \in [0..Len(p) -> Nat] :
          /\ h[0] = 0 /\ h[Len(p)] = AcksIn(p, b)
          /\ \A k \in 1..Len(p) : h[k] = h[k - 1] + AcksFor(p[k], b)
  BY <1>1, AcksSteps
<1>5. h[m] = f[m]
  <2>1. Alike(h, f, m)
    BY <1>1, <1>2, <1>4 DEF Alike
  <2>2. m \in Nat
    BY <1>1
  <2>3. \A k \in 0..m : h[k] = f[k]
    BY <2>1, <2>2, AlikeAgree
  <2> QED BY <2>2, <2>3
<1> DEFINE d == [k \in 0..n |-> h[m + k]]
           e == [k \in 0..n |-> f[m] + g[k]]
<1>6. \A k \in 0..n : d[k] = h[m + k] /\ e[k] = f[m] + g[k]
  OBVIOUS
<1> HIDE DEF d, e
<1>7. Alike(d, e, n)
  <2>1. 0 \in 0..n /\ m + 0 = m /\ f[m] \in Nat
    BY <1>1, <1>2
  <2>2. d[0] = e[0]
    BY <1>3, <1>5, <1>6, <2>1
  <2>3. ASSUME NEW k \in 1..n, d[k - 1] = e[k - 1] PROVE d[k] = e[k]
    <3>1. k \in 0..n /\ k - 1 \in 0..n /\ m + k \in 1..Len(p) /\ (m + k) - 1 = m + (k - 1)
      BY <1>1
    <3>2. h[m + k] = h[m + (k - 1)] + AcksFor(p[m + k], b)
      BY <1>4, <3>1
    <3>3. g[k] = g[k - 1] + AcksFor(t[k], b) /\ p[m + k] = t[k]
      BY <1>1, <1>3
    <3>4. AcksFor(t[k], b) \in Nat /\ g[k - 1] \in Nat
      BY <1>3, <3>1, AcksForType DEF n
    <3>5. h[m + (k - 1)] = f[m] + g[k - 1]
      BY <1>6, <2>3, <3>1
    <3>6. d[k] = h[m + k] /\ e[k] = f[m] + g[k]
      BY <1>6, <3>1
    <3> QED BY <2>1, <3>2, <3>3, <3>4, <3>5, <3>6
  <2> QED BY <2>2, <2>3 DEF Alike
<1>8. d[n] = e[n]
  <2>1. \A k \in 0..n : d[k] = e[k]
    BY <1>1, <1>7, AlikeAgree
  <2> QED BY <1>1, <2>1
<1>9. n \in 0..n
  BY <1>1
<1> QED BY <1>1, <1>2, <1>3, <1>4, <1>6, <1>8, <1>9 DEF p

LEMMA AcksAppend ==
    ASSUME NEW s \in Seq(Update), NEW u \in Update, NEW b
    PROVE  AcksIn(Append(s, u), b) = AcksIn(s, b) + AcksFor(u, b)
<1>1. Append(s, u) = s \o <<u>> /\ <<u>> \in Seq(Update)
  OBVIOUS
<1>2. AcksIn(s \o <<u>>, b) = AcksIn(s, b) + AcksIn(<<u>>, b)
  BY <1>1, AcksConcat
<1> QED BY <1>1, <1>2, AcksOne

LEMMA AcksTail ==
    ASSUME NEW s \in Seq(Update), s # <<>>, NEW b
    PROVE  AcksIn(s, b) = AcksFor(Head(s), b) + AcksIn(Tail(s), b)
<1>1. s = <<Head(s)>> \o Tail(s)
  OBVIOUS
<1>2. Head(s) \in Update /\ <<Head(s)>> \in Seq(Update) /\ Tail(s) \in Seq(Update)
  OBVIOUS
<1>3. AcksIn(<<Head(s)>> \o Tail(s), b) = AcksIn(<<Head(s)>>, b) + AcksIn(Tail(s), b)
  BY <1>2, AcksConcat
<1> QED BY <1>1, <1>2, <1>3, AcksOne

LEMMA AcksRemoveAt ==
    ASSUME NEW s \in Seq(Update), NEW k \in DOMAIN s, NEW b
    PROVE  AcksIn(s, b) = AcksFor(s[k], b) + AcksIn(RemoveAt(s, k), b)
<1> DEFINE front == SubSeq(s, 1, k - 1)
           back == SubSeq(s, k + 1, Len(s))
           one == <<s[k]>>
<1>0. \A x, y \in Seq(Update) : AcksIn(x \o y, b) = AcksIn(x, b) + AcksIn(y, b)
  BY AcksConcat
<1>1. /\ front \in Seq(Update) /\ back \in Seq(Update) /\ one \in Seq(Update)
      /\ s = front \o (one \o back) /\ RemoveAt(s, k) = front \o back
  BY AroundElement
<1>2. s[k] \in Update /\ AcksFor(s[k], b) \in Nat
  BY AcksForType
<1>3. AcksIn(one, b) = AcksFor(s[k], b)
  BY <1>2, AcksOne
<1> HIDE DEF front, back, one
<1>4. front \in Seq(Update) /\ back \in Seq(Update) /\ one \in Seq(Update)
      /\ one \o back \in Seq(Update)
  BY <1>1
<1>5. AcksIn(front \o (one \o back), b) = AcksIn(front, b) + AcksIn(one \o back, b)
  BY <1>4, <1>0
<1>6. AcksIn(one \o back, b) = AcksIn(one, b) + AcksIn(back, b)
  BY <1>4, <1>0
<1>7. AcksIn(front \o back, b) = AcksIn(front, b) + AcksIn(back, b)
  BY <1>4, <1>0
<1>8. AcksIn(front, b) \in Nat /\ AcksIn(back, b) \in Nat
  BY <1>4, AcksType
<1>9. AcksIn(s, b) = AcksIn(front, b) + AcksIn(one \o back, b)
  BY <1>1, <1>5, Zenon
<1>10. AcksIn(RemoveAt(s, k), b) = AcksIn(front, b) + AcksIn(back, b)
  BY <1>1, <1>7, Zenon
<1> QED BY <1>2, <1>3, <1>6, <1>8, <1>9, <1>10

LEMMA AcksReplace ==
    ASSUME NEW s \in Seq(Update), NEW k \in DOMAIN s, NEW u \in Update, NEW b
    PROVE  AcksIn([s EXCEPT ![k] = u], b) + AcksFor(s[k], b) = AcksIn(s, b) + AcksFor(u, b)
<1> DEFINE t == [s EXCEPT ![k] = u]
<1>1. t \in Seq(Update) /\ DOMAIN t = DOMAIN s /\ t[k] = u /\ Len(t) = Len(s)
      /\ \A i \in 1..Len(s) : i # k => t[i] = s[i]
      /\ k \in 1..Len(s) /\ Len(s) \in Nat
  OBVIOUS
<1> HIDE DEF t
<1>2. SubSeq(t, 1, k - 1) = SubSeq(s, 1, k - 1)
  BY <1>1
<1>3. SubSeq(t, k + 1, Len(t)) = SubSeq(s, k + 1, Len(s))
  BY <1>1
<1>4. RemoveAt(t, k) = RemoveAt(s, k)
  BY <1>2, <1>3 DEF RemoveAt
<1>5. /\ AcksIn(s, b) = AcksFor(s[k], b) + AcksIn(RemoveAt(s, k), b)
      /\ AcksIn(t, b) = AcksFor(u, b) + AcksIn(RemoveAt(s, k), b)
  BY <1>1, <1>4, AcksRemoveAt
<1>6. AcksFor(s[k], b) \in Nat /\ AcksFor(u, b) \in Nat /\ AcksIn(RemoveAt(s, k), b) \in Nat
  <2>1. AcksFor(t[k], b) \in Nat
    BY <1>1, AcksForType
  <2>2. RemoveAt(s, k) \in Seq(Update)
    BY CountRemoveAt
  <2>3. AcksFor(u, b) \in Nat
    BY <1>1, <2>1
  <2>4. AcksFor(s[k], b) \in Nat
    BY <1>1, AcksForType
  <2> QED BY <2>2, <2>3, <2>4, AcksType
<1>7. AcksIn(t, b) + AcksFor(s[k], b) = AcksIn(s, b) + AcksFor(u, b)
  BY <1>5, <1>6
<1> QED BY <1>7 DEF t
-----------------------------------------------------------------------------
(* ... and with workers.                                                     *)

\* AcksWith of these workers.
SumAcks(wk, ws) == MapThenSumSet(LAMBDA w : wk[w].update.acks, ws)

LEMMA SumNone ==
    ASSUME NEW wk
    PROVE  SumAcks(wk, {}) = 0
<1> DEFINE Sums(g) ==
               g = [s \in SUBSET {} |->
                       IF s = {} THEN 0
                       ELSE LET x == CHOOSE y \in s : TRUE
                            IN  wk[x].update.acks + g[s \ {x}]]
           f == CHOOSE g : Sums(g)
           g == [s \in SUBSET {} |-> 0]
<1>1. SumAcks(wk, {}) = f[{}]
  BY DEF SumAcks, MapThenSumSet, MapThenFoldSet
<1>2. Sums(g)
  OBVIOUS
<1>3. Sums(f)
  BY <1>2, Zenon
<1> QED BY <1>1, <1>3

LEMMA SumOne ==
    ASSUME NEW wk, NEW w, wk[w].update.acks \in Nat
    PROVE  SumAcks(wk, {w}) = wk[w].update.acks
<1> DEFINE a == wk[w].update.acks
           Sum(g, s) == IF s = {} THEN 0
                        ELSE LET x == CHOOSE y \in s : TRUE
                             IN  wk[x].update.acks + g[s \ {x}]
           Sums(g) == g = [s \in SUBSET {w} |-> Sum(g, s)]
           f == CHOOSE g : Sums(g)
<1>1. SumAcks(wk, {w}) = f[{w}]
  BY DEF SumAcks, MapThenSumSet, MapThenFoldSet
<1> DEFINE g == [s \in SUBSET {w} |-> IF s = {} THEN 0 ELSE a]
<1>4. \A s \in SUBSET {w} : s # {} => s = {w} /\ (CHOOSE y \in s : TRUE) = w /\ s \ {w} = {}
  OBVIOUS
<1>2. Sums(g)
  <2>1. g[{}] = 0 /\ a + 0 = a
    OBVIOUS
  <2>2. ASSUME NEW s \in SUBSET {w}
        PROVE  g[s] = Sum(g, s)
    <3>1. CASE s = {}
      BY <3>1
    <3>2. CASE s # {}
      <4> HIDE DEF g
      <4> QED BY <1>4, <2>1, <3>2 DEF g
    <3> QED BY <3>1, <3>2
  <2>3. g = [s \in SUBSET {w} |-> g[s]]
    OBVIOUS
  <2> HIDE DEF g, Sum
  <2> QED BY <2>2, <2>3
<1>3. Sums(f)
  BY <1>2, Zenon
<1> HIDE DEF f, g
<1>5. f[{}] = 0 /\ f[{w}] = a + f[{}]
  <2>1. \A s \in SUBSET {w} : f[s] = Sum(f, s)
    <3> HIDE DEF Sum
    <3> QED BY <1>3
  <2>2. {w} \in SUBSET {w} /\ {} \in SUBSET {w} /\ {w} # {}
    OBVIOUS
  <2>3. (CHOOSE y \in {w} : TRUE) = w /\ {w} \ {w} = {}
    BY <1>4, <2>2
  <2>4. f[{}] = Sum(f, {}) /\ f[{w}] = Sum(f, {w})
    BY <2>1, <2>2
  <2> HIDE DEF a
  <2>5. Sum(f, {}) = 0 /\ Sum(f, {w}) = wk[w].update.acks + f[{}]
    BY <2>2, <2>3, Zenon
  <2> QED BY <2>4, <2>5 DEF a
<1> QED BY <1>1, <1>5
\* The workers that have an update of b, and what it has.
On(wk, b) == {w \in Worker : wk[w].pc \in {"fill", "put"} /\ wk[w].update.block = b}
Share(wk, b) == SumAcks(wk, On(wk, b))

\* OneThreadPerBlock, of these workers.
Tidy(wk) ==
    \A w \in Worker : wk[w].pc \in {"fill", "put"} =>
        /\ wk[w].update \in Update
        /\ \A v \in Worker : v # w /\ wk[v].pc \in {"fill", "put"}
                             => wk[v].update.block # wk[w].update.block

\* Two workers do not share a block, so the sum is that of one of them.
LEMMA ShareOf ==
    ASSUME NEW wk, Tidy(wk), NEW b
    PROVE  /\ Share(wk, b) \in Nat
           /\ \A w \in On(wk, b) : Share(wk, b) = wk[w].update.acks
           /\ On(wk, b) = {} => Share(wk, b) = 0
<1>1. ASSUME NEW w \in On(wk, b)
      PROVE  Share(wk, b) = wk[w].update.acks /\ wk[w].update.acks \in Nat
  <2>1. wk[w].update \in Update
    BY DEF On, Tidy
  <2>2. wk[w].update.acks \in Nat
    BY <2>1 DEF Update
  <2>3. On(wk, b) = {w}
    BY DEF On, Tidy
  <2> QED BY <2>2, <2>3, SumOne DEF Share
<1>2. ASSUME On(wk, b) = {} PROVE Share(wk, b) = 0
  BY <1>2, SumNone DEF Share
<1> QED BY <1>1, <1>2

\* The same workers with the same acknowledgements have as many.
LEMMA ShareSame ==
    ASSUME NEW wk, NEW wl, Tidy(wk), Tidy(wl), NEW b, On(wl, b) = On(wk, b),
           \A w \in On(wk, b) : wl[w].update.acks = wk[w].update.acks
    PROVE  Share(wl, b) = Share(wk, b)
<1>1. CASE On(wk, b) = {}
  BY <1>1, ShareOf
<1>2. CASE On(wk, b) # {}
  <2>1. PICK w \in On(wk, b) : TRUE
    BY <1>2
  <2>2. Share(wk, b) = wk[w].update.acks
    BY ShareOf
  <2>3. Share(wl, b) = wl[w].update.acks
    BY ShareOf
  <2> QED BY <2>2, <2>3
<1> QED BY <1>1, <1>2

-----------------------------------------------------------------------------
(* The acknowledgements the server waits for.                                *)

\* The one that updateBlock is about to put into the queue.
Due(m, b) == Bit(m.pc = "update" /\ m.ack /\ m.block = b)

\* AcksCarried for b, and the invariant: no step of a stopped client changes owed.
Owed(b) == AcksIn(queue, b) + AcksIn(out, b) + AcksIn(outUrgent, b) + Share(worker, b)
           + Due(main, b)
AcksInv ==
    /\ owed \in [Block -> Nat]
    /\ main.pc # "stopped" => \A b \in Block : owed[b] = Owed(b)

LEMMA AcksParts ==
    ASSUME IInv, NEW b
    PROVE  /\ AcksIn(queue, b) \in Nat /\ AcksIn(out, b) \in Nat /\ AcksIn(outUrgent, b) \in Nat
           /\ Tidy(worker) /\ Share(worker, b) \in Nat /\ Due(main, b) \in Nat
<1>1. Tidy(worker)
  BY DEF IInv, WorkersInv, OneThreadPerBlock, Busy, Tidy
<1>2. queue \in Seq(Update) /\ out \in Seq(Update) /\ outUrgent \in Seq(Update)
  BY DEF IInv, Types
<1>3. Due(main, b) \in Nat
  BY DEF Due, Bit
<1> QED BY <1>1, <1>2, <1>3, AcksType, ShareOf

LEMMA TidyNext ==
    ASSUME IInv'
    PROVE  Tidy(worker')
BY DEF IInv, WorkersInv, OneThreadPerBlock, Busy, Tidy

LEMMA InitAcks ==
    Init => AcksInv
<1> SUFFICES ASSUME Init PROVE AcksInv
  OBVIOUS
<1>1. owed = [b \in Block |-> 0] /\ queue = <<>> /\ out = <<>> /\ outUrgent = <<>> /\ main = Idle
  BY DEF Init
<1>2. ASSUME NEW b \in Block PROVE Owed(b) = 0
  <2>1. AcksIn(queue, b) = 0 /\ AcksIn(out, b) = 0 /\ AcksIn(outUrgent, b) = 0
    BY <1>1, AcksOne
  <2>2. On(worker, b) = {}
    BY DEF Init, On
  <2>3. Share(worker, b) = 0
    BY <2>2, SumNone DEF Share
  <2>4. Due(main, b) = 0
    BY <1>1 DEF Due, Bit, Idle
  <2> QED BY <2>1, <2>3, <2>4 DEF Owed
<1>3. owed \in [Block -> Nat]
  BY <1>1
<1> QED BY <1>1, <1>2, <1>3 DEF AcksInv

\* addBlock puts the acknowledgement, if there is one, into the queue.
LEMMA AddBlockAcks ==
    ASSUME IInv, NEW b \in loaded, NEW ack \in BOOLEAN, NEW urgent \in BOOLEAN, NEW c \in Block,
           Merge(b, ack, urgent) \/ Enqueue(b, ack, urgent)
    PROVE  AcksIn(queue', c) = AcksIn(queue, c) + Bit(ack /\ b = c)
<1>1. b \in Block /\ loaded \subseteq Block /\ queue \in Seq(Update)
  BY DEF IInv, Types
<1>2. CASE Merge(b, ack, urgent)
  <2>1. PICK k \in Queued(b) :
            queue' = [queue EXCEPT ![k].acks = IF ack THEN @ + 1 ELSE @,
                                   ![k].urgent = @ \/ urgent,
                                   ![k].blocks = @ \union loaded]
    BY <1>2 DEF Merge
  <2>2. k \in DOMAIN queue /\ queue[k] \in Update /\ queue[k].block = b
    BY <1>1, <2>1 DEF Queued
  <2> DEFINE u == Merged(queue[k], loaded, ack, urgent)
  <2>3. /\ u \in Update /\ u.block = b
        /\ u.acks = IF ack THEN queue[k].acks + 1 ELSE queue[k].acks
    <3>1. loaded \in SUBSET Block
      BY <1>1
    <3>2. u \in Update /\ u.block = queue[k].block /\ u.blocks = queue[k].blocks \union loaded
      BY <2>2, <3>1, MergedUpdate
    <3>3. u.acks = IF ack THEN queue[k].acks + 1 ELSE queue[k].acks
      BY <2>2 DEF Merged, Update
    <3> HIDE DEF u
    <3> QED BY <2>2, <3>2, <3>3
  <2>4. queue' = [queue EXCEPT ![k] = u]
    BY <2>1, <2>2 DEF Merged
  <2> HIDE DEF u
  <2>5. AcksIn(queue', c) + AcksFor(queue[k], c) = AcksIn(queue, c) + AcksFor(u, c)
    BY <1>1, <2>2, <2>3, <2>4, AcksReplace
  <2>6. queue' \in Seq(Update)
    BY <1>1, <2>2, <2>3, <2>4
  <2>7. AcksIn(queue', c) \in Nat /\ AcksIn(queue, c) \in Nat
    BY <1>1, <2>6, AcksType
  <2>8. queue[k].acks \in Nat
    BY <2>2 DEF Update
  <2>9. AcksFor(u, c) = AcksFor(queue[k], c) + Bit(ack /\ b = c)
    BY <2>2, <2>3, <2>8 DEF AcksFor, Bit
  <2>10. AcksFor(queue[k], c) \in Nat
    BY <2>8 DEF AcksFor
  <2>11. Bit(ack /\ b = c) \in Nat
    BY DEF Bit
  <2> QED BY <2>5, <2>7, <2>9, <2>10, <2>11
<1>3. CASE Enqueue(b, ack, urgent)
  <2> DEFINE u == [block |-> b, acks |-> IF ack THEN 1 ELSE 0, urgent |-> urgent,
                   blocks |-> loaded, shows |-> 0]
  <2>1. u \in Update /\ AcksFor(u, c) = Bit(ack /\ b = c)
    BY <1>1, MeshAssumption DEF Update, Content, AcksFor, Bit
  <2>2. queue' = Append(queue, u)
    BY <1>3 DEF Enqueue
  <2> HIDE DEF u
  <2> QED BY <1>1, <2>1, <2>2, AcksAppend
<1> QED BY <1>2, <1>3

\* Steps that leave the queues and what workers have, and the main thread without an
\* update to make or as it was.
LEMMA AcksKept ==
    ASSUME IInv, IInv', AcksInv, NEW b \in Block,
           main.pc # "stopped", UNCHANGED <<queue, out, outUrgent>>,
           On(worker', b) = On(worker, b),
           \A w \in On(worker, b) : worker'[w].update.acks = worker[w].update.acks
    PROVE  Owed(b)' = owed[b] - Due(main, b) + Due(main', b)
<1>1. Share(worker', b) = Share(worker, b)
  BY AcksParts, TidyNext, ShareSame
<1>2. owed[b] = Owed(b) /\ Due(main', b) \in Nat
  BY DEF AcksInv, Due, Bit
<1> QED BY <1>1, <1>2, AcksParts DEF Owed

\* From the owed count of each block to the invariant.
LEMMA AcksNext ==
    ASSUME IInv', \A b \in Block : owed'[b] = Owed(b)'
    PROVE  AcksInv'
<1>1. queue' \in Seq(Update) /\ out' \in Seq(Update) /\ outUrgent' \in Seq(Update)
      /\ owed' \in [Block -> Int]
  BY DEF IInv, Types
<1>2. ASSUME NEW b \in Block PROVE Owed(b)' \in Nat
  <2>1. AcksIn(queue', b) \in Nat /\ AcksIn(out', b) \in Nat /\ AcksIn(outUrgent', b) \in Nat
    BY <1>1, AcksType
  <2>2. Share(worker', b) \in Nat
    BY TidyNext, ShareOf
  <2>3. Due(main', b) \in Nat
    BY DEF Due, Bit
  <2> QED BY <2>1, <2>2, <2>3 DEF Owed
<1>3. \A b \in Block : owed'[b] \in Nat
  BY <1>2
<1>4. owed' \in [Block -> Nat]
  BY <1>1, <1>3
<1> QED BY <1>4 DEF AcksInv

LEMMA ChangeAcks ==
    ASSUME IInv, IInv', AcksInv, NEW b \in Block, NEW ack \in BOOLEAN, NEW urgent \in BOOLEAN,
           Change(b, ack, urgent)
    PROVE  AcksInv'
<1> SUFFICES ASSUME NEW c \in Block PROVE owed'[c] = Owed(c)'
  BY AcksNext
<1>1. main.pc = "step" /\ main'.pc = "update" /\ main'.ack = ack /\ main'.block = b
      /\ UNCHANGED <<queue, out, outUrgent, worker>>
  BY DEF Change, queueVars
<1>2. owed'[c] = owed[c] + Bit(ack /\ b = c)
  <2>1. owed \in [Block -> Nat]
    BY DEF AcksInv
  <2> DEFINE n == IF ack THEN owed[b] + 1 ELSE owed[b]
  <2>2. owed' = [owed EXCEPT ![b] = n]
    BY <2>1 DEF Change
  <2> HIDE DEF n
  <2>3. owed'[c] = IF c = b THEN n ELSE owed[c]
    BY <2>1, <2>2
  <2> QED BY <2>1, <2>3 DEF n, Bit
<1>3. Due(main, c) = 0 /\ Due(main', c) = Bit(ack /\ b = c)
  BY <1>1 DEF Due, Bit
<1>4. Owed(c)' = owed[c] - Due(main, c) + Due(main', c)
  BY <1>1, AcksKept
<1>5. owed[c] \in Nat /\ Bit(ack /\ b = c) \in Nat
  BY DEF AcksInv, Bit
<1> QED BY <1>2, <1>3, <1>4, <1>5

LEMMA UpdateBlockAcks ==
    ASSUME IInv, IInv', AcksInv, UpdateBlock
    PROVE  AcksInv'
<1> SUFFICES ASSUME NEW c \in Block PROVE owed'[c] = Owed(c)'
  BY AcksNext
<1>1. main.block \in loaded /\ main.ack \in BOOLEAN /\ main.urgent \in BOOLEAN
  BY DEF IInv, UpdateBlock, LoadedInv, Types
<1>2. AcksIn(queue', c) = AcksIn(queue, c) + Bit(main.ack /\ main.block = c)
  BY <1>1, AddBlockAcks DEF UpdateBlock
<1>3. main.pc = "update" /\ main'.pc = "neighbors" /\ UNCHANGED <<owed, worker, out, outUrgent>>
  BY DEF UpdateBlock, IInv, Types
<1>4. Due(main, c) = Bit(main.ack /\ main.block = c) /\ Due(main', c) = 0
  BY <1>3 DEF Due, Bit
<1>5. owed[c] = Owed(c)
  BY <1>3 DEF AcksInv
<1> QED BY <1>2, <1>3, <1>4, <1>5, AcksParts DEF Owed

LEMMA UpdateNeighborAcks ==
    ASSUME IInv, IInv', AcksInv, NEW b \in Block, UpdateNeighbor(b)
    PROVE  AcksInv'
<1> SUFFICES ASSUME NEW c \in Block PROVE owed'[c] = Owed(c)'
  BY AcksNext
<1>1. main.pc = "neighbors" /\ main'.pc = "neighbors" /\ UNCHANGED <<owed, worker, out, outUrgent>>
  BY DEF UpdateNeighbor, IInv, Types
<1>2. AcksIn(queue', c) = AcksIn(queue, c)
  <2>1. CASE queue' = queue
    BY <2>1
  <2>2. CASE b \in loaded /\ (Merge(b, FALSE, main.urgent) \/ Enqueue(b, FALSE, main.urgent))
    <3>1. main.urgent \in BOOLEAN /\ FALSE \in BOOLEAN
      BY DEF IInv, Types
    <3>2. AcksIn(queue', c) = AcksIn(queue, c) + Bit(FALSE /\ b = c)
      BY <2>2, <3>1, AddBlockAcks
    <3> QED BY <3>2, AcksParts DEF Bit
  <2> QED BY <2>1, <2>2 DEF UpdateNeighbor, Skip
<1>3. Due(main, c) = 0 /\ Due(main', c) = 0
  BY <1>1 DEF Due, Bit
<1>4. owed[c] = Owed(c)
  BY <1>1 DEF AcksInv
<1> QED BY <1>1, <1>2, <1>3, <1>4, AcksParts DEF Owed

\* The acknowledgements of the result are counted off.
LEMMA ReplaceMeshAcks ==
    ASSUME IInv, IInv', AcksInv, ReplaceMesh
    PROVE  AcksInv'
<1> SUFFICES ASSUME NEW c \in Block PROVE owed'[c] = Owed(c)'
  BY AcksNext
<1>1. PICK s \in {out, outUrgent} :
          /\ s # <<>> /\ Apply(Head(s))
          /\ \/ s = outUrgent /\ outUrgent' = Tail(s) /\ out' = out
             \/ s = out /\ out' = Tail(s) /\ outUrgent' = outUrgent
  BY DEF ReplaceMesh
<1>2. main.pc = "step" /\ UNCHANGED <<queue, main, worker>>
  BY <1>1 DEF ReplaceMesh, Apply, queueVars
<1>3. s \in Seq(Update) /\ Tail(s) \in Seq(Update) /\ Head(s) \in Update
  BY <1>1 DEF IInv, Types
<1>4. owed[c] = Owed(c) /\ owed \in [Block -> Nat]
  BY <1>2 DEF AcksInv
<1>5. owed'[c] = owed[c] - AcksFor(Head(s), c)
  BY <1>1, <1>3, <1>4 DEF Apply, AcksFor, Update
<1>6. AcksIn(s, c) = AcksFor(Head(s), c) + AcksIn(Tail(s), c)
  BY <1>1, <1>3, AcksTail
<1>7. AcksFor(Head(s), c) \in Nat /\ AcksIn(Tail(s), c) \in Nat
  BY <1>3, AcksType DEF AcksFor, Update
<1>8. AcksIn(out, c) + AcksIn(outUrgent, c)
          = AcksFor(Head(s), c) + AcksIn(out', c) + AcksIn(outUrgent', c)
  <2>1. AcksIn(out, c) \in Nat /\ AcksIn(outUrgent, c) \in Nat
    BY AcksParts
  <2>2. CASE s = outUrgent /\ outUrgent' = Tail(s) /\ out' = out
    BY <1>6, <1>7, <2>1, <2>2
  <2>3. CASE s = out /\ out' = Tail(s) /\ outUrgent' = outUrgent
    BY <1>6, <1>7, <2>1, <2>3
  <2> QED BY <1>1, <2>2, <2>3
<1>9. AcksIn(out', c) \in Nat /\ AcksIn(outUrgent', c) \in Nat
  BY <1>1, <1>7, AcksParts
<1> QED BY <1>2, <1>4, <1>5, <1>7, <1>8, <1>9, AcksParts DEF Owed

\* DeferUpdate and Stop, Unload, and the steps of a worker that move no update.
LEMMA QuietAcks ==
    ASSUME IInv, IInv', AcksInv, main.pc # "stopped",
           main.pc # "update", main'.pc # "update",
           UNCHANGED <<owed, queue, out, outUrgent>>,
           \A b \in Block : On(worker', b) = On(worker, b),
           \A b \in Block : \A w \in On(worker, b) :
               worker'[w].update.acks = worker[w].update.acks
    PROVE  AcksInv'
<1> SUFFICES ASSUME NEW c \in Block PROVE owed'[c] = Owed(c)'
  BY AcksNext
<1>1. Due(main, c) = 0 /\ Due(main', c) = 0
  BY DEF Due, Bit
<1>2. Owed(c)' = owed[c] - Due(main, c) + Due(main', c)
  BY AcksKept
<1>3. owed[c] \in Nat
  BY DEF AcksInv
<1> QED BY <1>1, <1>2, <1>3

\* After a stop nothing is owed any more that counts.
LEMMA StoppedAcks ==
    ASSUME IInv', AcksInv, main'.pc = "stopped", UNCHANGED owed
    PROVE  AcksInv'
BY DEF AcksInv

LEMMA PopAcks ==
    ASSUME IInv, IInv', AcksInv, NEW w \in Worker, Pop(w), main.pc # "stopped"
    PROVE  AcksInv'
<1> SUFFICES ASSUME NEW c \in Block PROVE owed'[c] = Owed(c)'
  BY AcksNext
<1>1. PICK k \in DOMAIN queue :
          /\ Eligible(k)
          /\ queue' = RemoveAt(queue, k)
          /\ worker' = [worker EXCEPT ![w] = [pc |-> "fill", update |-> queue[k]]]
  BY DEF Pop
<1> DEFINE u == queue[k]
<1>2. /\ worker[w].pc = "pop"
      /\ UNCHANGED <<owed, main, out, outUrgent>>
  BY DEF Pop, mapVars
<1>3. u \in Update /\ queue \in Seq(Update)
  BY DEF IInv, Types
<1>4. u.block \notin inflight
  BY <1>1 DEF Eligible
<1>5. /\ \A v \in Worker : v # w => worker'[v] = worker[v]
      /\ worker'[w] = [pc |-> "fill", update |-> u]
  BY <1>1 DEF IInv, Types
<1>6. AcksIn(queue, c) = AcksFor(u, c) + AcksIn(queue', c)
  BY <1>1, <1>3, AcksRemoveAt
<1> HIDE DEF u
<1>7. AcksFor(u, c) \in Nat
  BY <1>3 DEF AcksFor, Update
<1>8. Share(worker', c) = Share(worker, c) + AcksFor(u, c)
  <2>1. CASE u.block = c
    <3>1. On(worker, c) = {}
      BY <1>4, <2>1 DEF On, IInv, WorkersInv, Busy
    <3>2. w \in On(worker', c)
      BY <1>5, <2>1 DEF On
    <3>3. Share(worker, c) = 0
      BY <3>1, AcksParts, ShareOf
    <3>4. Share(worker', c) = u.acks
      BY <1>5, <3>2, TidyNext, ShareOf
    <3> QED BY <1>7, <2>1, <3>3, <3>4 DEF AcksFor
  <2>2. CASE u.block # c
    <3>1. On(worker', c) = On(worker, c) /\ w \notin On(worker, c)
      BY <1>2, <1>5, <2>2 DEF On
    <3>2. \A v \in On(worker, c) : worker'[v].update.acks = worker[v].update.acks
      BY <1>5, <3>1 DEF On
    <3>3. Share(worker', c) = Share(worker, c)
      BY <3>1, <3>2, AcksParts, TidyNext, ShareSame
    <3> QED BY <2>2, <3>3, AcksParts DEF AcksFor
  <2> QED BY <2>1, <2>2
<1>9. owed[c] = Owed(c)
  BY DEF AcksInv
<1>10. AcksIn(queue', c) \in Nat
  BY AcksType DEF IInv, Types
<1> QED BY <1>2, <1>6, <1>7, <1>8, <1>9, <1>10, AcksParts DEF Owed

LEMMA PutResultAcks ==
    ASSUME IInv, IInv', AcksInv, NEW w \in Worker, PutResult(w), main.pc # "stopped"
    PROVE  AcksInv'
<1> SUFFICES ASSUME NEW c \in Block PROVE owed'[c] = Owed(c)'
  BY AcksNext
<1> DEFINE u == worker[w].update
<1>1. worker[w].pc = "put" /\ worker' = [worker EXCEPT ![w].pc = "done"]
      /\ UNCHANGED <<owed, main, queue>>
  BY DEF PutResult, WorkerGoes, mapVars, queueVars
<1>2. u \in Update
  BY <1>1 DEF IInv, WorkersInv, Busy
<1>3. \/ outUrgent' = Append(outUrgent, u) /\ out' = out
      \/ out' = Append(out, u) /\ outUrgent' = outUrgent
  BY DEF PutResult
<1>4. /\ \A v \in Worker : v # w => worker'[v] = worker[v]
      /\ worker'[w].pc = "done"
  BY <1>1 DEF IInv, Types
<1> HIDE DEF u
<1>5. AcksFor(u, c) \in Nat
  BY <1>2 DEF AcksFor, Update
<1>6. AcksIn(out', c) + AcksIn(outUrgent', c)
          = AcksIn(out, c) + AcksIn(outUrgent, c) + AcksFor(u, c)
  <2>1. out \in Seq(Update) /\ outUrgent \in Seq(Update)
    BY DEF IInv, Types
  <2>2. AcksIn(Append(out, u), c) = AcksIn(out, c) + AcksFor(u, c)
    BY <1>2, <2>1, AcksAppend
  <2>3. AcksIn(Append(outUrgent, u), c) = AcksIn(outUrgent, c) + AcksFor(u, c)
    BY <1>2, <2>1, AcksAppend
  <2>4. AcksIn(out, c) \in Nat /\ AcksIn(outUrgent, c) \in Nat
    BY AcksParts
  <2>5. CASE outUrgent' = Append(outUrgent, u) /\ out' = out
    BY <1>5, <2>3, <2>4, <2>5
  <2>6. CASE out' = Append(out, u) /\ outUrgent' = outUrgent
    BY <1>5, <2>2, <2>4, <2>6
  <2> QED BY <1>3, <2>5, <2>6
<1>7. Share(worker, c) = Share(worker', c) + AcksFor(u, c)
  <2>1. CASE u.block = c
    <3>1. w \in On(worker, c)
      BY <1>1, <2>1 DEF On, u
    <3>2. On(worker', c) = {}
      BY <1>4, <3>1, AcksParts DEF On, Tidy
    <3>3. Share(worker', c) = 0
      BY <3>2, TidyNext, ShareOf
    <3>4. Share(worker, c) = u.acks
      BY <3>1, AcksParts, ShareOf DEF u
    <3> QED BY <1>5, <2>1, <3>3, <3>4 DEF AcksFor
  <2>2. CASE u.block # c
    <3>1. On(worker', c) = On(worker, c) /\ w \notin On(worker, c)
      BY <1>1, <1>4, <2>2 DEF On, u
    <3>2. \A v \in On(worker, c) : worker'[v].update.acks = worker[v].update.acks
      BY <1>4, <3>1 DEF On
    <3>3. Share(worker', c) = Share(worker, c)
      BY <3>1, <3>2, AcksParts, TidyNext, ShareSame
    <3> QED BY <2>2, <3>3, AcksParts DEF AcksFor
  <2> QED BY <2>1, <2>2
<1>8. owed[c] = Owed(c)
  BY DEF AcksInv
<1>9. AcksIn(out', c) \in Nat /\ AcksIn(outUrgent', c) \in Nat
  BY AcksType DEF IInv, Types
<1>10. Share(worker', c) \in Nat
  BY TidyNext, ShareOf
<1> QED BY <1>1, <1>5, <1>6, <1>7, <1>8, <1>9, <1>10, AcksParts DEF Owed

\* The other steps of a worker: none of them has an update in hand before or after, or
\* it has the same.
LEMMA OtherWorkAcks ==
    ASSUME IInv, IInv', AcksInv, NEW w \in Worker,
           main.pc # "stopped", UNCHANGED <<owed, main, queue, out, outUrgent>>,
           \A v \in Worker : v # w => worker'[v] = worker[v],
           \/ worker[w].pc \notin {"fill", "put"} /\ worker'[w].pc \notin {"fill", "put"}
           \/ /\ worker[w].pc = "fill" /\ worker'[w].pc = "put"
              /\ worker'[w].update.block = worker[w].update.block
              /\ worker'[w].update.acks = worker[w].update.acks
    PROVE  AcksInv'
<1> SUFFICES ASSUME NEW c \in Block PROVE owed'[c] = Owed(c)'
  BY AcksNext
<1>1. On(worker', c) = On(worker, c)
  BY DEF On
<1>2. \A v \in On(worker, c) : worker'[v].update.acks = worker[v].update.acks
  BY DEF On
<1>3. Owed(c)' = owed[c] - Due(main, c) + Due(main', c)
  BY <1>1, <1>2, AcksKept
<1>4. owed[c] \in Nat
  BY DEF AcksInv
<1>5. Due(main, c) \in Nat
  BY AcksParts
<1> QED BY <1>3, <1>4, <1>5

LEMMA WorkAcks ==
    ASSUME IInv, IInv', AcksInv, NEW w \in Worker, Work(w)
    PROVE  AcksInv'
<1> USE DEF mapVars, queueVars, WorkerGoes
<1>0. worker \in [Worker -> [pc : {"wait", "pop", "fill", "put", "done", "ended"},
                             update : Update \union {NoUpdate}]]
  BY DEF IInv, Types
<1>1. CASE main.pc = "stopped"
  <2>1. UNCHANGED <<main, owed>>
    BY DEF Work, Wake, Pop, PopNothing, FillData, PutResult, Done
  <2> QED BY <1>1, <2>1, StoppedAcks
<1>2. CASE main.pc # "stopped"
  <2>1. CASE Wake(w) \/ PopNothing(w) \/ Done(w)
    <3>1. UNCHANGED <<owed, main, queue, out, outUrgent>>
      BY <2>1 DEF Wake, PopNothing, Done
    <3>2. \A v \in Worker : v # w => worker'[v] = worker[v]
      BY <1>0, <2>1 DEF Wake, PopNothing, Done
    <3>3. worker[w].pc \notin {"fill", "put"} /\ worker'[w].pc \notin {"fill", "put"}
      BY <1>0, <2>1 DEF Wake, PopNothing, Done
    <3> QED BY <1>2, <3>1, <3>2, <3>3, OtherWorkAcks
  <2>2. CASE FillData(w)
    <3>1. UNCHANGED <<owed, main, queue, out, outUrgent>>
      BY <2>2 DEF FillData
    <3>2. \A v \in Worker : v # w => worker'[v] = worker[v]
      BY <1>0, <2>2 DEF FillData
    <3>3. /\ worker[w].pc = "fill" /\ worker'[w].pc = "put"
          /\ worker'[w].update.block = worker[w].update.block
          /\ worker'[w].update.acks = worker[w].update.acks
      <4>1. worker[w].update \in Update /\ worker[w].pc = "fill"
        BY <2>2 DEF FillData, IInv, WorkersInv, Busy
      <4> QED BY <1>0, <2>2, <4>1 DEF FillData, Update
    <3> QED BY <1>2, <3>1, <3>2, <3>3, OtherWorkAcks
  <2> QED BY <1>2, <2>1, <2>2, PopAcks, PutResultAcks DEF Work
<1> QED BY <1>1, <1>2

LEMMA MainAcks ==
    ASSUME IInv, IInv', AcksInv, Main
    PROVE  AcksInv'
<1> USE DEF mapVars, queueVars
<1>1. ASSUME NEW b \in Block, HandleBlockData(b) PROVE AcksInv'
  BY <1>1, ChangeAcks DEF HandleBlockData
<1>2. ASSUME NEW b \in Block, ChangeNode(b) PROVE AcksInv'
  BY <1>2, ChangeAcks DEF ChangeNode
<1>3. CASE UpdateBlock
  BY <1>3, UpdateBlockAcks
<1>4. ASSUME NEW b \in Block, UpdateNeighbor(b) PROVE AcksInv'
  BY <1>4, UpdateNeighborAcks
<1>5. CASE DeferUpdate \/ Stop
  <2>1. /\ main.pc \in {"step", "neighbors"} /\ main'.pc \in {"step", "joining"}
        /\ UNCHANGED <<owed, queue, out, outUrgent, worker>>
    BY <1>5 DEF DeferUpdate, Stop, Idle, IInv, Types
  <2> QED BY <2>1, QuietAcks
<1>6. CASE ReplaceMesh
  BY <1>6, ReplaceMeshAcks
<1>7. ASSUME NEW b \in Block, Unload(b) PROVE AcksInv'
  <2>1. main.pc = "step" /\ UNCHANGED <<main, owed, queue, out, outUrgent, worker>>
    BY <1>7 DEF Unload
  <2> QED BY <2>1, QuietAcks
<1>8. CASE ClearAllQueues
  <2>1. main'.pc = "stopped" /\ UNCHANGED owed
    BY <1>8 DEF ClearAllQueues, IInv, Types
  <2> QED BY <2>1, StoppedAcks
<1> QED BY <1>1, <1>2, <1>3, <1>4, <1>5, <1>6, <1>7, <1>8 DEF Main

LEMMA AcksInvariant == Spec => [](IInv /\ AcksInv)
<1>1. IInv /\ AcksInv /\ [Next]_vars => IInv' /\ AcksInv'
  <2> SUFFICES ASSUME IInv, AcksInv, [Next]_vars PROVE IInv' /\ AcksInv'
    OBVIOUS
  <2>1. IInv'
    BY NextInvariant
  <2>2. CASE UNCHANGED vars
    <3>1. UNCHANGED <<main, owed, queue, out, outUrgent, worker>>
      BY <2>2 DEF vars, mapVars, queueVars
    <3>2. \A b : Owed(b)' = Owed(b)
      BY <3>1 DEF Owed
    <3> QED BY <2>1, <3>1, <3>2 DEF AcksInv
  <2> QED BY <2>1, <2>2, MainAcks, WorkAcks DEF Next
<1> QED BY <1>1, InitInvariant, InitAcks, PTL DEF Spec

\* Merging, popping and passing results on keeps every acknowledgement the server
\* waits for, and makes none up.
THEOREM Acknowledgements == Spec => []AcksCarried
<1>1. IInv /\ AcksInv => AcksCarried
  <2> SUFFICES ASSUME IInv, AcksInv, main.pc # "stopped", NEW b \in Block
               PROVE  owed[b] = AcksIn(queue, b) + AcksIn(out, b) + AcksIn(outUrgent, b)
                                + AcksWith(WorkersOn(b))
                                + (IF main.pc = "update" /\ main.ack /\ main.block = b
                                   THEN 1 ELSE 0)
    BY DEF AcksCarried
  <2>1. owed[b] = Owed(b)
    BY DEF AcksInv
  <2>2. WorkersOn(b) = On(worker, b)
    BY DEF WorkersOn, Working, On
  <2>3. AcksWith(WorkersOn(b)) = Share(worker, b)
    BY <2>2 DEF AcksWith, Share, SumAcks
  <2> QED BY <2>1, <2>3 DEF Owed, Due, Bit
<1> QED BY <1>1, AcksInvariant, PTL

\* Types, and the two counters that the code lets go down never go below zero.
THEOREM TypeCorrect == Spec => []TypeOK
<1>1. IInv /\ AcksInv => TypeOK
  <2> SUFFICES ASSUME IInv, AcksInv PROVE TypeOK
    OBVIOUS
  <2>1. ASSUME NEW b \in Block PROVE refs[b] \in Nat
    <3>1. Count(queue, b) \in Nat /\ Count(out, b) \in Nat /\ Count(outUrgent, b) \in Nat
      BY CountType DEF IInv, Types
    <3>2. Cardinality(WorkersHolding(b)) \in Nat
      BY FS_Subset, FS_CardinalityType, MeshAssumption DEF WorkersHolding
    <3>3. refs[b] = Count(queue, b) + Count(out, b) + Count(outUrgent, b)
                    + Cardinality(WorkersHolding(b))
      BY DEF IInv, RefsInv
    <3> QED BY <3>1, <3>2, <3>3
  <2>2. refs \in [Block -> Nat]
    BY <2>1 DEF IInv, Types
  <2> QED BY <2>2 DEF IInv, Types, AcksInv, TypeOK
<1> QED BY <1>1, AcksInvariant, PTL
-----------------------------------------------------------------------------
(* Meshes: for a block of which no urgent result overtook an older one, either *)
(* an update is coming that will show what it contains, or its mesh shows that *)
(* and so does every result that is left.                                      *)

\* The results of b in s that show this, and no result of b in s that shows anything else.
Has(s, b, shows) == \E k \in DOMAIN s : s[k].block = b /\ s[k].shows = shows
HasOnly(s, b, shows) == \A k \in DOMAIN s : s[k].block = b => s[k].shows = shows

\* A copy is yet to be made of b, or one was made since it changed and is not shown yet.
Coming(b) ==
    \/ main.pc = "update" /\ main.block = b
    \/ Queued(b) # {}
    \/ \E w \in Worker : worker[w].pc = "fill" /\ worker[w].update.block = b
    \/ \E w \in Worker : /\ worker[w].pc = "put" /\ worker[w].update.block = b
                         /\ worker[w].update.shows = content[b]
    \/ Has(out, b, content[b])
    \/ Has(outUrgent, b, content[b])

\* The mesh of b shows what b contains, and will when the results left are taken.
Shown(b) ==
    /\ mesh[b] = content[b]
    /\ HasOnly(out, b, content[b]) /\ HasOnly(outUrgent, b, content[b])
    /\ \A w \in Worker : worker[w].pc = "put" /\ worker[w].update.block = b
                         => worker[w].update.shows = content[b]

FreshInv == main.pc # "stopped" => \A b \in loaded \ overtaken : Coming(b) \/ Shown(b)

\* Steps that touch no content, mesh or result, and keep what is coming.
LEMMA QuietFresh ==
    ASSUME FreshInv, main.pc # "stopped",
           UNCHANGED <<loaded, content, mesh, overtaken, out, outUrgent>>,
           \A b \in loaded : Coming(b) => Coming(b)',
           \A w \in Worker : worker'[w].pc = "put" => worker'[w] = worker[w]
    PROVE  FreshInv'
<1> SUFFICES ASSUME NEW b \in loaded \ overtaken PROVE Coming(b)' \/ Shown(b)'
  BY DEF FreshInv
<1>1. Coming(b) \/ Shown(b)
  BY DEF FreshInv
<1>2. Shown(b) => Shown(b)'
  BY DEF Shown, HasOnly
<1> QED BY <1>1, <1>2

\* A changed block is updated next.
LEMMA ChangeFresh ==
    ASSUME IInv, FreshInv, NEW b \in Block, NEW ack, NEW urgent, Change(b, ack, urgent)
    PROVE  FreshInv'
<1> SUFFICES ASSUME NEW c \in loaded' \ overtaken' PROVE Coming(c)' \/ Shown(c)'
  BY DEF FreshInv
<1>1. /\ main.pc = "step" /\ main'.pc = "update" /\ main'.block = b
      /\ loaded' = loaded \union {b} /\ overtaken' = overtaken \ {b}
      /\ content' = [content EXCEPT ![b] = changes + 1]
      /\ UNCHANGED <<mesh, queue, worker, out, outUrgent>>
  BY DEF Change, queueVars
<1>2. CASE c = b
  BY <1>1, <1>2 DEF Coming
<1>3. CASE c # b
  <2>1. c \in loaded \ overtaken /\ content'[c] = content[c]
    BY <1>1, <1>3 DEF IInv, Types
  <2>2. Coming(c) \/ Shown(c)
    BY <1>1, <2>1 DEF FreshInv
  <2>3. Coming(c) => Coming(c)'
    BY <1>1, <2>1 DEF Coming, Queued, Has
  <2>4. Shown(c) => Shown(c)'
    BY <1>1, <2>1 DEF Shown, HasOnly
  <2> QED BY <2>2, <2>3, <2>4
<1> QED BY <1>2, <1>3

\* addBlock leaves an update of every block that had one, and one of this block.
LEMMA AddBlockFresh ==
    ASSUME IInv, NEW b \in loaded, NEW ack \in BOOLEAN, NEW urgent \in BOOLEAN,
           Merge(b, ack, urgent) \/ Enqueue(b, ack, urgent)
    PROVE  \A c : (\E i \in DOMAIN queue : queue[i].block = c) \/ c = b
                  => \E i \in DOMAIN queue' : queue'[i].block = c
<1>1. queue \in Seq(Update) /\ b \in Block /\ loaded \in SUBSET Block
  BY DEF IInv, Types
<1>2. CASE Merge(b, ack, urgent)
  <2>1. PICK k \in Queued(b) :
            queue' = [queue EXCEPT ![k].acks = IF ack THEN @ + 1 ELSE @,
                                   ![k].urgent = @ \/ urgent,
                                   ![k].blocks = @ \union loaded]
    BY <1>2 DEF Merge
  <2>2. k \in DOMAIN queue /\ queue[k] \in Update /\ queue[k].block = b
    BY <1>1, <2>1 DEF Queued
  <2> DEFINE u == Merged(queue[k], loaded, ack, urgent)
  <2>3. u \in Update /\ u.block = queue[k].block
    <3>1. u \in Update /\ u.block = queue[k].block /\ u.blocks = queue[k].blocks \union loaded
      BY <1>1, <2>2, MergedUpdate
    <3> QED BY <3>1
  <2>4. queue' = [queue EXCEPT ![k] = u]
    BY <2>1, <2>2 DEF Merged
  <2> HIDE DEF u
  <2>5. DOMAIN queue' = DOMAIN queue /\ \A i \in DOMAIN queue : queue'[i].block = queue[i].block
    BY <2>2, <2>3, <2>4
  <2> QED BY <2>2, <2>5
<1>3. CASE Enqueue(b, ack, urgent)
  <2> DEFINE u == [block |-> b, acks |-> IF ack THEN 1 ELSE 0, urgent |-> urgent,
                   blocks |-> loaded, shows |-> 0]
  <2>1. queue' = Append(queue, u) /\ u.block = b
    BY <1>3 DEF Enqueue
  <2> HIDE DEF u
  <2>2. /\ \A i \in DOMAIN queue : i \in DOMAIN queue' /\ queue'[i] = queue[i]
        /\ Len(queue) + 1 \in DOMAIN queue' /\ queue'[Len(queue) + 1] = u
    BY <1>1, <2>1
  <2> QED BY <2>1, <2>2
<1> QED BY <1>2, <1>3

LEMMA UpdateBlockFresh ==
    ASSUME IInv, FreshInv, UpdateBlock
    PROVE  FreshInv'
<1>1. main.block \in loaded /\ main.ack \in BOOLEAN /\ main.urgent \in BOOLEAN
  BY DEF IInv, UpdateBlock, LoadedInv, Types
<1>2. \A c : (\E i \in DOMAIN queue : queue[i].block = c) \/ c = main.block
             => \E i \in DOMAIN queue' : queue'[i].block = c
  BY <1>1, AddBlockFresh DEF UpdateBlock
<1>3. /\ main.pc = "update"
      /\ UNCHANGED <<loaded, content, mesh, overtaken, worker, out, outUrgent>>
  BY DEF UpdateBlock
<1>4. ASSUME NEW c \in loaded, Coming(c) PROVE Coming(c)'
  BY <1>2, <1>3, <1>4 DEF Coming, Has, Queued
<1> QED BY <1>3, <1>4, QuietFresh

LEMMA UpdateNeighborFresh ==
    ASSUME IInv, FreshInv, NEW b \in Block, UpdateNeighbor(b)
    PROVE  FreshInv'
<1>1. main.urgent \in BOOLEAN /\ FALSE \in BOOLEAN
  BY DEF IInv, Types
<1>2. ASSUME NEW c, \E i \in DOMAIN queue : queue[i].block = c
      PROVE  \E i \in DOMAIN queue' : queue'[i].block = c
  <2>1. CASE queue' = queue
    BY <1>2, <2>1
  <2>2. CASE b \in loaded /\ (Merge(b, FALSE, main.urgent) \/ Enqueue(b, FALSE, main.urgent))
    BY <1>1, <1>2, <2>2, AddBlockFresh
  <2> QED BY <2>1, <2>2 DEF UpdateNeighbor, Skip
<1>3. /\ main.pc = "neighbors"
      /\ UNCHANGED <<loaded, content, mesh, overtaken, worker, out, outUrgent>>
  BY DEF UpdateNeighbor
<1>4. ASSUME NEW c \in loaded, Coming(c) PROVE Coming(c)'
  BY <1>2, <1>3, <1>4 DEF Coming, Has, Queued
<1> QED BY <1>3, <1>4, QuietFresh
\* The update that a worker takes is still to be made.
LEMMA PopFresh ==
    ASSUME IInv, FreshInv, NEW w \in Worker, Pop(w), main.pc # "stopped"
    PROVE  FreshInv'
<1>1. PICK k \in DOMAIN queue :
          /\ queue' = RemoveAt(queue, k)
          /\ worker' = [worker EXCEPT ![w] = [pc |-> "fill", update |-> queue[k]]]
  BY DEF Pop
<1>2. /\ worker[w].pc = "pop"
      /\ UNCHANGED <<loaded, content, mesh, overtaken, main, out, outUrgent>>
  BY DEF Pop, mapVars
<1>3. \A v \in Worker : worker'[v] = IF v = w THEN [pc |-> "fill", update |-> queue[k]]
                                     ELSE worker[v]
  BY <1>1 DEF IInv, Types
<1>4. \A j \in DOMAIN queue \ {k} : \E i \in DOMAIN queue' : queue'[i] = queue[j]
  BY <1>1, RemoveAtElements DEF IInv, Types
<1>5. ASSUME NEW c \in loaded, Coming(c) PROVE Coming(c)'
  <2>1. CASE \E j \in DOMAIN queue : queue[j].block = c
    <3>1. PICK j \in DOMAIN queue : queue[j].block = c
      BY <2>1
    <3>2. CASE j = k
      <4>1. worker'[w].pc = "fill" /\ worker'[w].update.block = c
        BY <1>3, <3>1, <3>2
      <4> QED BY <4>1 DEF Coming
    <3>3. CASE j # k
      BY <1>4, <3>1, <3>3 DEF Coming, Queued
    <3> QED BY <3>2, <3>3
  <2>2. CASE \E v \in Worker :
                \/ worker[v].pc = "fill" /\ worker[v].update.block = c
                \/ /\ worker[v].pc = "put" /\ worker[v].update.block = c
                   /\ worker[v].update.shows = content[c]
    <3>1. PICK v \in Worker :
              \/ worker[v].pc = "fill" /\ worker[v].update.block = c
              \/ /\ worker[v].pc = "put" /\ worker[v].update.block = c
                 /\ worker[v].update.shows = content[c]
      BY <2>2
    <3>2. worker'[v] = worker[v]
      BY <1>2, <1>3, <3>1
    <3> QED BY <1>2, <3>1, <3>2 DEF Coming
  <2>3. CASE \/ main.pc = "update" /\ main.block = c
             \/ Has(out, c, content[c]) \/ Has(outUrgent, c, content[c])
    BY <1>2, <2>3 DEF Coming, Has
  <2> QED BY <1>5, <2>1, <2>2, <2>3 DEF Coming, Queued
<1>6. \A v \in Worker : worker'[v].pc = "put" => worker'[v] = worker[v]
  BY <1>3
<1> QED BY <1>2, <1>5, <1>6, QuietFresh

\* Steps of a worker that has no copy to put before or after.
LEMMA WorkerMovesFresh ==
    ASSUME IInv, FreshInv, NEW w \in Worker, Wake(w) \/ PopNothing(w) \/ Done(w),
           main.pc # "stopped"
    PROVE  FreshInv'
<1>1. /\ worker[w].pc \notin {"fill", "put"}
      /\ UNCHANGED <<loaded, content, mesh, overtaken, main, queue, out, outUrgent>>
  BY DEF Wake, PopNothing, Done, mapVars, queueVars
<1>2. /\ worker'[w].pc # "put"
      /\ \A v \in Worker : v # w => worker'[v] = worker[v]
  BY DEF Wake, PopNothing, Done, WorkerGoes, IInv, Types
<1>3. ASSUME NEW c \in loaded, Coming(c) PROVE Coming(c)'
  BY <1>1, <1>2, <1>3 DEF Coming, Queued, Has
<1>4. \A v \in Worker : worker'[v].pc = "put" => worker'[v] = worker[v]
  BY <1>2
<1> QED BY <1>1, <1>3, <1>4, QuietFresh

\* The copy shows what the block contains.
LEMMA FillDataFresh ==
    ASSUME IInv, FreshInv, NEW w \in Worker, FillData(w), main.pc # "stopped"
    PROVE  FreshInv'
<1> DEFINE u == worker[w].update
<1>1. /\ worker[w].pc = "fill"
      /\ UNCHANGED <<loaded, content, mesh, overtaken, main, queue, out, outUrgent>>
  BY DEF FillData, mapVars, queueVars
<1>2. u \in Update
  BY <1>1 DEF IInv, WorkersInv, Busy
<1>3. \A v \in Worker : v # w => worker'[v] = worker[v]
  BY DEF FillData, IInv, Types
<1>4. /\ worker'[w].pc = "put" /\ worker'[w].update.block = u.block
      /\ worker'[w].update.shows = content[u.block]
  BY <1>2 DEF FillData, IInv, Types, Update
<1> HIDE DEF u
<1> SUFFICES ASSUME NEW c \in loaded \ overtaken PROVE Coming(c)' \/ Shown(c)'
  BY <1>1 DEF FreshInv
<1>5. CASE c = u.block
  BY <1>1, <1>4, <1>5 DEF Coming
<1>6. CASE c # u.block
  <2>1. Coming(c) \/ Shown(c)
    BY DEF FreshInv
  <2>2. Coming(c) => Coming(c)'
    BY <1>1, <1>3, <1>6 DEF Coming, Queued, Has, u
  <2>3. Shown(c) => Shown(c)'
    BY <1>1, <1>3, <1>4, <1>6 DEF Shown, HasOnly
  <2> QED BY <2>1, <2>2, <2>3
<1> QED BY <1>5, <1>6

\* The copy comes to the end of one of the queues.
LEMMA PutResultFresh ==
    ASSUME IInv, FreshInv, NEW w \in Worker, PutResult(w), main.pc # "stopped"
    PROVE  FreshInv'
<1> DEFINE u == worker[w].update
<1>1. /\ worker[w].pc = "put"
      /\ UNCHANGED <<loaded, content, mesh, overtaken, main, queue>>
  BY DEF PutResult, mapVars, queueVars
<1>2. u \in Update
  BY <1>1 DEF IInv, WorkersInv, Busy
<1>3. \/ outUrgent' = Append(outUrgent, u) /\ out' = out
      \/ out' = Append(out, u) /\ outUrgent' = outUrgent
  BY DEF PutResult
<1>4. /\ worker'[w].pc = "done"
      /\ \A v \in Worker : v # w => worker'[v] = worker[v]
  BY DEF PutResult, WorkerGoes, IInv, Types
<1> HIDE DEF u
<1>5. ASSUME NEW s \in Seq(Update), NEW b, NEW shows
      PROVE  /\ Has(s, b, shows) \/ (u.block = b /\ u.shows = shows) => Has(Append(s, u), b, shows)
             /\ HasOnly(s, b, shows) /\ (u.block = b => u.shows = shows)
                => HasOnly(Append(s, u), b, shows)
  <2>1. /\ \A k \in DOMAIN s : k \in DOMAIN Append(s, u) /\ Append(s, u)[k] = s[k]
        /\ Len(s) + 1 \in DOMAIN Append(s, u) /\ Append(s, u)[Len(s) + 1] = u
        /\ DOMAIN Append(s, u) = DOMAIN s \union {Len(s) + 1}
    BY <1>2
  <2> QED BY <2>1 DEF Has, HasOnly
<1> SUFFICES ASSUME NEW c \in loaded \ overtaken PROVE Coming(c)' \/ Shown(c)'
  BY <1>1 DEF FreshInv
<1>6. out \in Seq(Update) /\ outUrgent \in Seq(Update)
  BY DEF IInv, Types
<1>7. Coming(c) \/ Shown(c)
  BY <1>1 DEF FreshInv
<1>8. ASSUME Coming(c) PROVE Coming(c)'
  <2>1. /\ Has(out, c, content[c]) => Has(out', c, content[c])
        /\ Has(outUrgent, c, content[c]) => Has(outUrgent', c, content[c])
        /\ u.block = c /\ u.shows = content[c]
           => Has(out', c, content[c]) \/ Has(outUrgent', c, content[c])
    BY <1>3, <1>5, <1>6
  <2>2. ASSUME NEW v \in Worker, worker[v].pc = "fill" PROVE worker'[v] = worker[v]
    BY <1>1, <1>4, <2>2
  <2>3. ASSUME NEW v \in Worker, worker[v].update # u PROVE worker'[v] = worker[v]
    BY <1>4, <2>3 DEF u
  <2>4. CASE \E v \in Worker : /\ worker[v].pc = "put" /\ worker[v].update.block = c
                               /\ worker[v].update.shows = content[c]
    <3>1. PICK v \in Worker : /\ worker[v].pc = "put" /\ worker[v].update.block = c
                              /\ worker[v].update.shows = content[c]
      BY <2>4
    <3>2. CASE worker[v].update = u
      BY <1>1, <2>1, <3>1, <3>2 DEF Coming, Has
    <3>3. CASE worker[v].update # u
      BY <1>1, <2>3, <3>1, <3>3 DEF Coming
    <3> QED BY <3>2, <3>3
  <2>5. CASE \/ main.pc = "update" /\ main.block = c
             \/ Queued(c) # {}
             \/ \E v \in Worker : worker[v].pc = "fill" /\ worker[v].update.block = c
    BY <1>1, <2>2, <2>5 DEF Coming, Queued
  <2>6. CASE Has(out, c, content[c]) \/ Has(outUrgent, c, content[c])
    BY <1>1, <2>1, <2>6 DEF Coming, Has
  <2> QED BY <1>8, <2>4, <2>5, <2>6 DEF Coming
<1>9. ASSUME Shown(c) PROVE Shown(c)'
  <2>1. /\ HasOnly(out, c, content[c]) /\ HasOnly(outUrgent, c, content[c])
        /\ (u.block = c => u.shows = content[c])
    BY <1>1, <1>9 DEF Shown, u
  <2>2. HasOnly(out', c, content[c]) /\ HasOnly(outUrgent', c, content[c])
    BY <1>3, <1>5, <1>6, <2>1
  <2> QED BY <1>1, <1>4, <1>9, <2>2 DEF Shown, HasOnly
<1> QED BY <1>7, <1>8, <1>9
\* A block that goes is in no update; of the others nothing changes.
LEMMA UnloadFresh ==
    ASSUME IInv, FreshInv, NEW b \in Block, Unload(b)
    PROVE  FreshInv'
<1> SUFFICES ASSUME NEW c \in loaded' \ overtaken' PROVE Coming(c)' \/ Shown(c)'
  BY DEF FreshInv
<1>1. /\ main.pc = "step"
      /\ loaded' = loaded \ {b} /\ content' = [content EXCEPT ![b] = 0]
      /\ mesh' = [mesh EXCEPT ![b] = 0]
      /\ UNCHANGED <<overtaken, main, queue, worker, out, outUrgent>>
  BY DEF Unload, queueVars
<1>2. c \in loaded \ overtaken /\ content'[c] = content[c] /\ mesh'[c] = mesh[c]
  BY <1>1 DEF IInv, Types
<1>3. Coming(c) \/ Shown(c)
  BY <1>1, <1>2 DEF FreshInv
<1>4. Coming(c) => Coming(c)'
  BY <1>1, <1>2 DEF Coming, Queued, Has
<1>5. Shown(c) => Shown(c)'
  BY <1>1, <1>2 DEF Shown, HasOnly
<1> QED BY <1>3, <1>4, <1>5

\* In an ordered queue of which the first result of its block shows the content, and
\* no result shows anything newer, the others show it, too.
LEMMA NewestFirst ==
    ASSUME NEW s \in Seq(Update), s # <<>>, Ordered(s), NEW c \in Block,
           Head(s).block = c, NoNewer(s, c, Head(s).shows)
    PROVE  HasOnly(s, c, Head(s).shows)
<1> SUFFICES ASSUME NEW k \in DOMAIN s, s[k].block = c PROVE s[k].shows = Head(s).shows
  BY DEF HasOnly
<1>1. 1 \in DOMAIN s /\ s[1] = Head(s) /\ k \in Nat /\ (k = 1 \/ 1 < k)
  OBVIOUS
<1>2. s[k].shows \in Int /\ s[1].shows \in Int
  BY <1>1, UpdateFields
<1>3. s[k].shows =< Head(s).shows
  BY DEF NoNewer
<1>4. CASE k = 1
  BY <1>1, <1>4
<1>5. CASE 1 < k
  <2>1. s[1].shows =< s[k].shows
    BY <1>1, <1>5 DEF Ordered
  <2> QED BY <1>1, <1>2, <1>3, <2>1
<1> QED BY <1>1, <1>4, <1>5

\* What is said of the results of a queue, when the first is taken.
LEMMA TailFresh ==
    ASSUME NEW s \in Seq(Update), s # <<>>, NEW c, NEW shows
    PROVE  /\ HasOnly(s, c, shows) => HasOnly(Tail(s), c, shows)
           /\ Has(s, c, shows) => \/ Has(Tail(s), c, shows)
                                  \/ Head(s).block = c /\ Head(s).shows = shows
<1>1. /\ \A k \in DOMAIN Tail(s) : k + 1 \in DOMAIN s /\ Tail(s)[k] = s[k + 1]
      /\ \A k \in DOMAIN s : k = 1 \/ (k - 1 \in DOMAIN Tail(s) /\ Tail(s)[k - 1] = s[k])
      /\ s[1] = Head(s)
  OBVIOUS
<1> QED BY <1>1 DEF Has, HasOnly

\* The result taken shows what its block contains, or an older content; then what was
\* coming still is, and the mesh has not been up to date before.  An urgent result that
\* overtakes an older one is excepted.
LEMMA ReplaceMeshFresh ==
    ASSUME IInv, FreshInv, ReplaceMesh
    PROVE  FreshInv'
<1>1. PICK s \in {out, outUrgent} :
          /\ s # <<>> /\ Apply(Head(s))
          /\ \/ /\ s = outUrgent /\ outUrgent' = Tail(s) /\ out' = out
                /\ overtaken' = IF \E k \in DOMAIN out : Older(out[k], Head(s))
                                THEN overtaken \union {Head(s).block} ELSE overtaken
             \/ /\ s = out /\ out' = Tail(s) /\ outUrgent' = outUrgent /\ outUrgent = <<>>
                /\ overtaken' = overtaken
  BY DEF ReplaceMesh
<1> DEFINE r == Head(s)
<1>2. /\ main.pc = "step" /\ mesh' = [mesh EXCEPT ![r.block] = r.shows]
      /\ UNCHANGED <<loaded, content, main, queue, worker>>
  BY <1>1 DEF ReplaceMesh, Apply, queueVars
<1>3. s \in Seq(Update) /\ r \in Update /\ r.block \in Block /\ Ordered(s)
  <2>1. s \in Seq(Update) /\ r \in Update /\ Ordered(s)
    BY <1>1 DEF IInv, Types, OrderInv
  <2> QED BY <2>1 DEF Update
<1>4. out \in Seq(Update) /\ outUrgent \in Seq(Update)
  BY DEF IInv, Types
<1> SUFFICES ASSUME NEW c \in loaded' \ overtaken' PROVE Coming(c)' \/ Shown(c)'
  BY DEF FreshInv
<1>5. c \in loaded \ overtaken /\ c \in Block
  BY <1>1, <1>2 DEF IInv, Types
<1>6. Coming(c) \/ Shown(c)
  BY <1>2, <1>5 DEF FreshInv
<1>7. /\ \A shows : HasOnly(out, c, shows) => HasOnly(out', c, shows)
      /\ \A shows : HasOnly(outUrgent, c, shows) => HasOnly(outUrgent', c, shows)
      /\ \A shows : Has(out, c, shows) \/ Has(outUrgent, c, shows)
                    => \/ Has(out', c, shows) \/ Has(outUrgent', c, shows)
                       \/ r.block = c /\ r.shows = shows
  BY <1>1, <1>3, TailFresh
<1>8. r.block = c => mesh'[c] = r.shows
  BY <1>2, <1>3 DEF IInv, Types
<1>9. r.block # c => mesh'[c] = mesh[c]
  BY <1>2, <1>3 DEF IInv, Types
<1> HIDE DEF r
<1>10. ASSUME r.block = c, r.shows = content[c] PROVE Shown(c)'
  <2>1. NoNewer(out, c, content[c]) /\ NoNewer(outUrgent, c, content[c])
    BY <1>5 DEF IInv, OrderInv
  <2>2. HasOnly(s, c, content[c])
    BY <1>1, <1>3, <1>5, <1>10, <2>1, NewestFirst DEF r
  <2>3. HasOnly(out, c, content[c]) /\ HasOnly(outUrgent, c, content[c])
    <3>1. CASE s = outUrgent /\ (c \notin overtaken')
      <4>1. \A k \in DOMAIN out : ~Older(out[k], r)
        <5>1. r.block = c /\ c \notin overtaken'
          BY <1>10
        <5> QED BY <1>1, <3>1, <5>1 DEF r
      <4>2. ASSUME NEW k \in DOMAIN out, out[k].block = c PROVE out[k].shows = content[c]
        <5>1. out[k].shows \in Int /\ r.shows \in Int
          <6>1. out[k].shows \in Int
            BY <1>4, UpdateFields
          <6> QED BY <1>3, <6>1, MeshAssumption DEF Update, Content
        <5>2. ~(out[k].shows < r.shows)
          BY <1>10, <4>1, <4>2 DEF Older
        <5>3. out[k].shows =< content[c]
          BY <2>1, <4>2 DEF NoNewer
        <5> QED BY <1>10, <5>1, <5>2, <5>3
      <4> QED BY <2>2, <3>1, <4>2 DEF HasOnly
    <3>2. CASE s = out /\ outUrgent = <<>>
      BY <2>2, <3>2 DEF HasOnly
    <3> QED BY <1>1, <3>1, <3>2
  <2>4. ASSUME NEW w \in Worker, worker[w].pc = "put", worker[w].update.block = c
        PROVE  worker[w].update.shows = content[c]
    <3> DEFINE u == worker[w].update
    <3>1. u \in Update /\ u.shows =< content[c] /\ NoNewer(s, c, u.shows)
      BY <1>1, <2>4 DEF IInv, WorkersInv, Busy, OrderInv
    <3>2. r.shows =< u.shows
      <4>1. 1 \in DOMAIN s /\ s[1] = r
        BY <1>1, <1>3 DEF r
      <4> QED BY <1>10, <3>1, <4>1 DEF NoNewer
    <3>3. u.shows \in Int /\ r.shows \in Int
      BY <1>3, <3>1, MeshAssumption DEF Update, Content
    <3> HIDE DEF u
    <3>4. u.shows = content[c]
      BY <1>10, <3>1, <3>2, <3>3
    <3> QED BY <3>4 DEF u
  <2>5. mesh'[c] = content[c]
    BY <1>8, <1>10
  <2> QED BY <1>2, <1>7, <2>3, <2>4, <2>5 DEF Shown, HasOnly
<1>11. ASSUME ~(r.block = c /\ r.shows = content[c]), Coming(c) PROVE Coming(c)'
  <2>1. Has(out, c, content[c]) \/ Has(outUrgent, c, content[c])
        => Has(out', c, content[c]) \/ Has(outUrgent', c, content[c])
    BY <1>7, <1>11
  <2> QED BY <1>2, <1>11, <2>1 DEF Coming, Queued, Has
<1>12. ASSUME ~(r.block = c /\ r.shows = content[c]), Shown(c) PROVE Shown(c)'
  <2>1. HasOnly(s, c, content[c])
    BY <1>1, <1>12 DEF Shown
  <2>2. r.block # c
    <3>1. 1 \in DOMAIN s /\ s[1] = r
      BY <1>1, <1>3 DEF r
    <3> QED BY <1>12, <2>1, <3>1 DEF HasOnly
  <2>3. mesh'[c] = content[c]
    BY <1>9, <1>12, <2>2 DEF Shown
  <2> QED BY <1>2, <1>7, <1>12, <2>3 DEF Shown, HasOnly
<1> QED BY <1>6, <1>10, <1>11, <1>12

LEMMA FreshInvariant == Spec => [](IInv /\ FreshInv)
<1>1. Init => FreshInv
  BY DEF Init, FreshInv
<1>2. IInv /\ FreshInv /\ [Next]_vars => IInv' /\ FreshInv'
  <2> SUFFICES ASSUME IInv, FreshInv, [Next]_vars PROVE FreshInv'
    BY NextInvariant
  <2> USE DEF mapVars, queueVars
  <2>1. ASSUME NEW b \in Block, HandleBlockData(b) PROVE FreshInv'
    BY <2>1, ChangeFresh DEF HandleBlockData
  <2>2. ASSUME NEW b \in Block, ChangeNode(b) PROVE FreshInv'
    BY <2>2, ChangeFresh DEF ChangeNode
  <2>3. ASSUME NEW b \in Block, UpdateNeighbor(b) PROVE FreshInv'
    BY <2>3, UpdateNeighborFresh
  <2>4. CASE DeferUpdate \/ Stop
    <3>1. /\ main.pc \in {"step", "neighbors"}
          /\ UNCHANGED <<loaded, content, mesh, overtaken, queue, worker, out, outUrgent>>
      BY <2>4 DEF DeferUpdate, Stop
    <3>2. ASSUME NEW b \in loaded, Coming(b) PROVE Coming(b)'
      BY <3>1, <3>2 DEF Coming, Queued, Has
    <3> QED BY <3>1, <3>2, QuietFresh
  <2>5. ASSUME NEW b \in Block, Unload(b) PROVE FreshInv'
    BY <2>5, UnloadFresh
  <2>6. CASE ClearAllQueues
    <3>1. main'.pc = "stopped"
      BY <2>6 DEF ClearAllQueues, IInv, Types
    <3> QED BY <3>1 DEF FreshInv
  <2>7. ASSUME NEW w \in Worker, Work(w) PROVE FreshInv'
    <3>1. main' = main
      BY <2>7 DEF Work, Wake, Pop, PopNothing, FillData, PutResult, Done
    <3>2. CASE main.pc = "stopped"
      BY <3>1, <3>2 DEF FreshInv
    <3>3. CASE main.pc # "stopped"
      BY <2>7, <3>3, PopFresh, WorkerMovesFresh, FillDataFresh, PutResultFresh DEF Work
    <3> QED BY <3>2, <3>3
  <2>8. CASE UNCHANGED vars
    <3>1. UNCHANGED <<main, loaded, content, mesh, overtaken, queue, worker, out, outUrgent>>
      BY <2>8 DEF vars
    <3>2. \A b : (Coming(b) => Coming(b)') /\ (Shown(b) => Shown(b)')
      BY <3>1 DEF Coming, Queued, Has, Shown, HasOnly
    <3> QED BY <3>1, <3>2 DEF FreshInv
  <2> QED BY <2>1, <2>2, <2>3, <2>4, <2>5, <2>6, <2>7, <2>8, UpdateBlockFresh, ReplaceMeshFresh
          DEF Next, Main
<1> QED BY <1>1, <1>2, InitInvariant, PTL DEF Spec

\* An update that waits or is being made when its block changes again, merged updates,
\* skipped neighbours and a block that comes back never leave an old mesh: only an
\* urgent result that overtakes an older one does.
THEOREM OnlyOvertaken == Spec => []OnlyOvertakenMeshesAreOld
<1>1. IInv /\ FreshInv => OnlyOvertakenMeshesAreOld
  <2> SUFFICES ASSUME IInv, FreshInv, main.pc = "step", NEW b \in loaded \ overtaken,
                      ~UnderWay(b)
               PROVE  mesh[b] = content[b]
    BY DEF OnlyOvertakenMeshesAreOld
  <2>1. queue \in Seq(Update) /\ out \in Seq(Update) /\ outUrgent \in Seq(Update)
    BY DEF IInv, Types
  <2>2. ASSUME NEW s \in {queue, out, outUrgent}, NEW k \in DOMAIN s PROVE s[k].block # b
    <3>1. \E i \in DOMAIN Waiting : Waiting[i] = s[k]
      <4> DEFINE first == queue \o out
      <4>1. /\ first \in Seq(Update)
            /\ \A i \in DOMAIN queue : i \in DOMAIN first /\ first[i] = queue[i]
            /\ \A i \in DOMAIN out : /\ Len(queue) + i \in DOMAIN first
                                     /\ first[Len(queue) + i] = out[i]
        BY <2>1
      <4> HIDE DEF first
      <4>2. /\ \A i \in DOMAIN first : i \in DOMAIN (first \o outUrgent)
                                       /\ (first \o outUrgent)[i] = first[i]
            /\ \A i \in DOMAIN outUrgent : /\ Len(first) + i \in DOMAIN (first \o outUrgent)
                                           /\ (first \o outUrgent)[Len(first) + i] = outUrgent[i]
        BY <2>1, <4>1
      <4>3. Waiting = first \o outUrgent
        BY DEF Waiting, first
      <4> QED BY <4>1, <4>2, <4>3, ZenonT(60)
    <3> QED BY <3>1 DEF UnderWay
  <2>3. ~Coming(b)
    BY <2>2 DEF Coming, Queued, Has, UnderWay, Working
  <2> QED BY <2>3 DEF FreshInv, Shown
<1> QED BY <1>1, FreshInvariant, PTL
=============================================================================
