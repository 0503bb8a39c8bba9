-------------------------- MODULE BlockTransferProofs --------------------------
(****************************************************************************)
(* For any blocks in any order and at any distances, any nodes and any      *)
(* limits of the scan: types, and what a client can be left with.           *)
(*                                                                          *)
(* The argument. A block that the server does not send again is at the      *)
(* client, or a copy of it is on its way there, or the notice that the      *)
(* client has unloaded it is on its way back (HaveInv): GotBlock adds       *)
(* nothing to what is believed, a copy on the wire arrives, and what takes  *)
(* a block from the client's map tells the server. What the server believes *)
(* of the nodes of such a block follows, as long as no change has passed a  *)
(* copy: the last event about a node says what the map has (EventsInv),     *)
(* going through the events turns that into the last packet or sends the    *)
(* block again (Telling, MetaTelling), and the last copy or, with no copy   *)
(* under way, the last packet is what the client will show (UpToDateInv).   *)
(* With messages in both channels nothing is claimed: either the first of   *)
(* them to arrive passes the others, and then the block is in passed, or it *)
(* does not matter what they say, because the block is sent again.          *)
(****************************************************************************)
EXTENDS BlockTransfer, RecursionFacts, FiniteSetTheorems, SequenceTheorems

\* The last element of s that is in hit is in good; there is none.
EndsIn(s, good, hit) ==
    \E i \in DOMAIN s : s[i] \in good /\ \A j \in DOMAIN s : j > i => s[j] \notin hit
NoneIn(s, hit) == \A i \in DOMAIN s : s[i] \notin hit

-----------------------------------------------------------------------------
(* Queues of messages and events.                                            *)

LEMMA AtEnd ==
    ASSUME NEW S, NEW s \in Seq(S), NEW e \in S, NEW good, NEW hit
    PROVE  /\ Append(s, e) \in Seq(S)
           /\ NoneIn(Append(s, e), hit) <=> NoneIn(s, hit) /\ e \notin hit
           /\ EndsIn(Append(s, e), good, hit)
                  <=> e \in good \/ (e \notin hit /\ EndsIn(s, good, hit))
<1> DEFINE t == Append(s, e)
           n == Len(s) + 1
<1>1. /\ t \in Seq(S) /\ DOMAIN t = 1..n /\ t[n] = e /\ n \in Nat /\ n > 0
      /\ DOMAIN s = 1..n - 1 /\ \A i \in 1..n - 1 : t[i] = s[i]
  OBVIOUS
<1> HIDE DEF t, n
<1>0. /\ n \in 1..n /\ \A i \in 1..n - 1 : i \in 1..n /\ i < n
      /\ \A i \in 1..n : i = n \/ i \in 1..n - 1
  BY <1>1
<1>2. NoneIn(t, hit) <=> NoneIn(s, hit) /\ e \notin hit
  <2>1. ASSUME NoneIn(t, hit) PROVE NoneIn(s, hit) /\ e \notin hit
    BY <1>0, <1>1, <2>1 DEF NoneIn
  <2>2. ASSUME NoneIn(s, hit), e \notin hit PROVE NoneIn(t, hit)
    BY <1>0, <1>1, <2>2 DEF NoneIn
  <2> QED BY <2>1, <2>2
<1>3. ASSUME EndsIn(t, good, hit) PROVE e \in good \/ (e \notin hit /\ EndsIn(s, good, hit))
  BY <1>1, <1>3 DEF EndsIn
<1>4. ASSUME e \in good PROVE EndsIn(t, good, hit)
  <2>1. \A j \in 1..n : ~(j > n)
    BY <1>1
  <2> QED BY <1>0, <1>1, <1>4, <2>1 DEF EndsIn
<1>5. ASSUME e \notin hit, EndsIn(s, good, hit) PROVE EndsIn(t, good, hit)
  <2>1. PICK i \in 1..n - 1 : s[i] \in good /\ \A j \in 1..n - 1 : j > i => s[j] \notin hit
    BY <1>1, <1>5 DEF EndsIn
  <2>2. i \in 1..n /\ t[i] \in good
    BY <1>1, <2>1
  <2>3. ASSUME NEW j \in 1..n, j > i PROVE t[j] \notin hit
    BY <1>1, <1>5, <2>1, <2>3
  <2> QED BY <1>1, <2>2, <2>3 DEF EndsIn
<1> QED BY <1>1, <1>2, <1>3, <1>4, <1>5 DEF t

LEMMA NoneAtEnd ==
    ASSUME NEW S, NEW s \in Seq(S), NEW e \in S, NEW hit
    PROVE  NoneIn(Append(s, e), hit) <=> NoneIn(s, hit) /\ e \notin hit
<1> DEFINE good == {}
<1> HIDE DEF good
<1> QED BY AtEnd

LEMMA Joined ==
    ASSUME NEW S, NEW s \in Seq(S), NEW t \in Seq(S), NEW good, NEW hit
    PROVE  /\ s \o t \in Seq(S)
           /\ NoneIn(s \o t, hit) <=> NoneIn(s, hit) /\ NoneIn(t, hit)
           /\ EndsIn(t, good, hit) => EndsIn(s \o t, good, hit)
           /\ EndsIn(s, good, hit) /\ NoneIn(t, hit) => EndsIn(s \o t, good, hit)
<1> DEFINE m == Len(s)
           n == Len(t)
           p == s \o t
<1>1. /\ m \in Nat /\ n \in Nat /\ p \in Seq(S)
      /\ DOMAIN p = 1..m + n /\ DOMAIN s = 1..m /\ DOMAIN t = 1..n
      /\ \A i \in 1..m : p[i] = s[i]
      /\ \A i \in 1..n : p[m + i] = t[i]
  OBVIOUS
<1> HIDE DEF m, n, p
<1>2. ASSUME NEW i \in 1..m + n, i > m PROVE i - m \in 1..n /\ p[i] = t[i - m]
  <2>1. i - m \in 1..n /\ m + (i - m) = i
    BY <1>1, <1>2
  <2>2. p[m + (i - m)] = t[i - m]
    BY <1>1, <2>1
  <2> QED BY <2>1, <2>2
<1>3. NoneIn(p, hit) <=> NoneIn(s, hit) /\ NoneIn(t, hit)
  <2>1. ASSUME NoneIn(p, hit) PROVE NoneIn(s, hit) /\ NoneIn(t, hit)
    <3>1. \A i \in 1..m + n : p[i] \notin hit
      BY <1>1, <2>1 DEF NoneIn
    <3>2. ASSUME NEW i \in 1..m PROVE s[i] \notin hit
      <4>1. i \in 1..m + n /\ p[i] = s[i]
        BY <1>1
      <4> QED BY <3>1, <4>1
    <3>3. ASSUME NEW i \in 1..n PROVE t[i] \notin hit
      <4>1. m + i \in 1..m + n /\ p[m + i] = t[i]
        BY <1>1
      <4> QED BY <3>1, <4>1
    <3> QED BY <1>1, <3>2, <3>3 DEF NoneIn
  <2>2. ASSUME NoneIn(s, hit), NoneIn(t, hit), NEW i \in 1..m + n PROVE p[i] \notin hit
    <3>1. CASE i =< m
      <4>1. i \in 1..m /\ p[i] = s[i]
        BY <1>1, <3>1
      <4> QED BY <1>1, <2>2, <4>1 DEF NoneIn
    <3>2. CASE i > m
      BY <1>1, <1>2, <2>2, <3>2 DEF NoneIn
    <3> QED BY <1>1, <3>1, <3>2
  <2> QED BY <1>1, <2>1, <2>2 DEF NoneIn
<1>4. ASSUME EndsIn(t, good, hit) PROVE EndsIn(p, good, hit)
  <2>1. PICK i \in 1..n : t[i] \in good /\ \A j \in 1..n : j > i => t[j] \notin hit
    BY <1>1, <1>4 DEF EndsIn
  <2>2. m + i \in 1..m + n /\ p[m + i] \in good
    BY <1>1, <2>1
  <2>3. ASSUME NEW j \in 1..m + n, j > m + i PROVE p[j] \notin hit
    <3>1. j > m /\ j - m > i
      BY <1>1, <2>3
    <3> QED BY <1>2, <2>1, <3>1
  <2> QED BY <1>1, <2>2, <2>3 DEF EndsIn
<1>5. ASSUME EndsIn(s, good, hit), NoneIn(t, hit) PROVE EndsIn(p, good, hit)
  <2>1. PICK i \in 1..m : s[i] \in good /\ \A j \in 1..m : j > i => s[j] \notin hit
    BY <1>1, <1>5 DEF EndsIn
  <2>2. i \in 1..m + n /\ p[i] \in good
    BY <1>1, <2>1
  <2>3. ASSUME NEW j \in 1..m + n, j > i PROVE p[j] \notin hit
    <3>1. CASE j =< m
      BY <1>1, <2>1, <2>3, <3>1
    <3>2. CASE j > m
      BY <1>1, <1>2, <1>5, <3>2 DEF NoneIn
    <3> QED BY <1>1, <3>1, <3>2
  <2> QED BY <1>1, <2>2, <2>3 DEF EndsIn
<1> QED BY <1>1, <1>3, <1>4, <1>5 DEF p

LEMMA NoneJoined ==
    ASSUME NEW S, NEW s \in Seq(S), NEW t \in Seq(S), NEW hit
    PROVE  NoneIn(s \o t, hit) <=> NoneIn(s, hit) /\ NoneIn(t, hit)
<1> DEFINE good == {}
<1> HIDE DEF good
<1> QED BY Joined

LEMMA FirstTaken ==
    ASSUME NEW S, NEW s \in Seq(S), s # <<>>, NEW good, NEW hit
    PROVE  /\ Head(s) \in S /\ Tail(s) \in Seq(S)
           /\ NoneIn(s, hit) <=> Head(s) \notin hit /\ NoneIn(Tail(s), hit)
           /\ EndsIn(s, good, hit)
                  => EndsIn(Tail(s), good, hit) \/ (Head(s) \in good /\ NoneIn(Tail(s), hit))
<1> DEFINE t == Tail(s)
           n == Len(s)
<1>1. /\ t \in Seq(S) /\ n \in Nat /\ n > 0 /\ Head(s) = s[1] /\ Head(s) \in S
      /\ DOMAIN s = 1..n /\ DOMAIN t = 1..n - 1
      /\ \A i \in 1..n - 1 : t[i] = s[i + 1]
  OBVIOUS
<1> HIDE DEF t, n
<1>2. ASSUME NEW i \in 1..n, i # 1 PROVE i - 1 \in 1..n - 1 /\ s[i] = t[i - 1]
  <2>1. i - 1 \in 1..n - 1 /\ (i - 1) + 1 = i
    BY <1>1, <1>2
  <2> QED BY <1>1, <2>1
<1>3. NoneIn(s, hit) <=> s[1] \notin hit /\ NoneIn(t, hit)
  <2>1. ASSUME NoneIn(s, hit) PROVE s[1] \notin hit /\ NoneIn(t, hit)
    <3>1. 1 \in 1..n /\ \A i \in 1..n - 1 : i + 1 \in 1..n
      BY <1>1
    <3> QED BY <1>1, <2>1, <3>1 DEF NoneIn
  <2>2. ASSUME s[1] \notin hit, NoneIn(t, hit), NEW i \in 1..n PROVE s[i] \notin hit
    BY <1>1, <1>2, <2>2 DEF NoneIn
  <2> QED BY <1>1, <2>1, <2>2 DEF NoneIn
<1>4. ASSUME EndsIn(s, good, hit)
      PROVE  EndsIn(t, good, hit) \/ (s[1] \in good /\ NoneIn(t, hit))
  <2>1. PICK i \in 1..n : s[i] \in good /\ \A j \in 1..n : j > i => s[j] \notin hit
    BY <1>1, <1>4 DEF EndsIn
  <2>2. ASSUME NEW j \in 1..n - 1, j + 1 > i PROVE t[j] \notin hit
    <3>1. j + 1 \in 1..n
      BY <1>1
    <3> QED BY <1>1, <2>1, <2>2, <3>1
  <2>3. CASE i = 1
    <3>1. \A j \in 1..n - 1 : j + 1 > i
      BY <1>1, <2>3
    <3> QED BY <1>1, <2>1, <2>2, <2>3, <3>1 DEF NoneIn
  <2>4. CASE i # 1
    <3>1. i - 1 \in 1..n - 1 /\ t[i - 1] \in good
      BY <1>2, <2>1, <2>4
    <3>2. \A j \in 1..n - 1 : j > i - 1 => t[j] \notin hit
      BY <1>1, <2>2
    <3> QED BY <1>1, <3>1, <3>2 DEF EndsIn
  <2> QED BY <2>3, <2>4
<1> QED BY <1>1, <1>3, <1>4 DEF t

LEMMA NoneAfterFirst ==
    ASSUME NEW S, NEW s \in Seq(S), s # <<>>, NEW hit
    PROVE  NoneIn(s, hit) <=> Head(s) \notin hit /\ NoneIn(Tail(s), hit)
<1> DEFINE good == {}
<1> HIDE DEF good
<1> QED BY FirstTaken

\* When all that hit are good and some hit, the last one is good.
LEMMA AllGood ==
    ASSUME NEW S, NEW s \in Seq(S), NEW good, NEW hit, ~NoneIn(s, hit),
           \A i \in DOMAIN s : s[i] \in hit => s[i] \in good
    PROVE  EndsIn(s, good, hit)
<1> DEFINE n == Len(s)
           T == {n - i : i \in {j \in 1..n : s[j] \in hit}}
<1>1. n \in Nat /\ DOMAIN s = 1..n
  OBVIOUS
<1>2. T \subseteq Nat /\ T # {}
  BY <1>1 DEF NoneIn
<1>3. PICK x \in T : \A y \in T : x =< y
  <2> HIDE DEF T
  <2> QED BY <1>2, SmallestNumber
<1>4. PICK i \in 1..n : s[i] \in hit /\ x = n - i
  BY <1>3
<1>5. ASSUME NEW j \in 1..n, j > i PROVE s[j] \notin hit
  <2>1. n - j < n - i
    BY <1>1, <1>5
  <2>2. n - j \notin T
    <3> HIDE DEF T
    <3> QED BY <1>1, <1>2, <1>3, <1>4, <2>1
  <2> QED BY <2>2
<1> QED BY <1>1, <1>4, <1>5 DEF EndsIn

\* One that ends in something has something.
LEMMA SomeIn ==
    ASSUME NEW s, NEW good, NEW hit, good \subseteq hit, EndsIn(s, good, hit)
    PROVE  ~NoneIn(s, hit)
BY DEF EndsIn, NoneIn

\* From one beginning of a sequence to the next.
LEMMA Beginnings ==
    ASSUME NEW S, NEW s \in Seq(S)
    PROVE  /\ SubSeq(s, 1, 0) = <<>> /\ SubSeq(s, 1, Len(s)) = s
           /\ \A k \in 1..Len(s) : /\ SubSeq(s, 1, k - 1) \in Seq(S)
                                   /\ SubSeq(s, 1, k) = Append(SubSeq(s, 1, k - 1), s[k])
<1>1. SubSeq(s, 1, 0) = <<>> /\ SubSeq(s, 1, Len(s)) = s
  OBVIOUS
<1>2. ASSUME NEW k \in 1..Len(s)
      PROVE  /\ SubSeq(s, 1, k - 1) \in Seq(S)
             /\ SubSeq(s, 1, k) = Append(SubSeq(s, 1, k - 1), s[k])
  <2>1. SubSeq(s, 1, k - 1) \in Seq(S)
    OBVIOUS
  <2>2. SubSeq(s, 1, k) = Append(SubSeq(s, 1, k - 1), s[k])
    OBVIOUS
  <2> QED BY <2>1, <2>2
<1> QED BY <1>1, <1>2
-----------------------------------------------------------------------------
(* RemoteClient.                                                             *)

Near == 0..MaxDistance + 1
RemoteClient ==
    {r \in [sending : SUBSET Blocks, sent : SUBSET Blocks, nearest : Near, paused : BOOLEAN] :
        r.sent \cap r.sending = {}}

LEMMA Distances ==
    /\ MaxDistance \in Nat /\ \A b \in Blocks : Distance[b] \in Near
    /\ \A d, e \in Near : Smaller(d, e) \in Near
<1>1. MaxDistance \in Nat /\ Distance \in [Blocks -> 0..MaxDistance]
  BY TransferAssumption
<1>2. \A b \in Blocks : Distance[b] \in Near
  BY <1>1 DEF Near
<1>3. \A d, e \in Near : Smaller(d, e) \in Near
  BY DEF Smaller
<1> QED BY <1>1, <1>2, <1>3

LEMMA NotSent ==
    ASSUME NEW r \in RemoteClient, NEW b \in Blocks, NEW low \in BOOLEAN
    PROVE  LET q == SetBlockNotSent(r, b, low)
           IN  q \in RemoteClient /\ q.sending = r.sending \ {b} /\ q.sent = r.sent \ {b}
<1> DEFINE held == b \in r.sending \cup r.sent
           near == IF held /\ (~low \/ Distance[b] < CullDistance)
                   THEN Smaller(r.nearest, Distance[b]) ELSE r.nearest
<1>1. SetBlockNotSent(r, b, low)
          = [sending |-> r.sending \ {b}, sent |-> r.sent \ {b}, nearest |-> near, paused |-> FALSE]
  BY DEF SetBlockNotSent
<1>2. /\ r.sending \subseteq Blocks /\ r.sent \subseteq Blocks /\ r.nearest \in Near
      /\ r.sent \cap r.sending = {}
  BY DEF RemoteClient
<1>3. near \in Near
  BY <1>2, Distances
<1> HIDE DEF near
<1> QED BY <1>1, <1>2, <1>3 DEF RemoteClient

LEMMA NoneOfThemSent ==
    ASSUME NEW r \in RemoteClient, NEW bs \in SUBSET Blocks
    PROVE  LET q == SetBlocksNotSent(r, bs)
           IN  q \in RemoteClient /\ q.sending = r.sending \ bs /\ q.sent = r.sent \ bs
<1> DEFINE held == {r.nearest} \cup {Distance[b] : b \in bs \cap (r.sending \cup r.sent)}
<1>1. SetBlocksNotSent(r, bs)
          = [sending |-> r.sending \ bs, sent |-> r.sent \ bs, nearest |-> Min(held),
             paused |-> bs = {} /\ r.paused]
  BY DEF SetBlocksNotSent
<1>2. /\ r.sending \subseteq Blocks /\ r.sent \subseteq Blocks /\ r.nearest \in Near
      /\ r.sent \cap r.sending = {} /\ r.paused \in BOOLEAN
  BY DEF RemoteClient
<1>3. held \subseteq Near /\ held # {}
  BY <1>2, Distances
<1> HIDE DEF held
<1>4. Min(held) \in Near
  <2>1. held \subseteq Nat
    BY <1>3, Distances DEF Near
  <2>2. \E x \in held : \A y \in held : x =< y
    BY <1>3, <2>1, SmallestNumber
  <2> QED BY <1>3, <2>2 DEF Min
<1> QED BY <1>1, <1>2, <1>4 DEF RemoteClient

LEMMA Got ==
    ASSUME NEW r \in RemoteClient, NEW bs \in SUBSET Blocks
    PROVE  LET q == GotBlocks(r, bs)
           IN  /\ q \in RemoteClient
               /\ q.sending \cup q.sent \subseteq r.sending \cup r.sent
<1>1. PICK a \in SUBSET Blocks, c \in SUBSET Blocks, d \in Near, p \in BOOLEAN :
          r = [sending |-> a, sent |-> c, nearest |-> d, paused |-> p] /\ c \cap a = {}
  <2>1. /\ r.sending \subseteq Blocks /\ r.sent \subseteq Blocks /\ r.nearest \in Near
        /\ r.sent \cap r.sending = {} /\ r.paused \in BOOLEAN
        /\ r = [sending |-> r.sending, sent |-> r.sent, nearest |-> r.nearest,
                paused |-> r.paused]
    BY DEF RemoteClient
  <2> QED BY <2>1
<1> DEFINE q == [sending |-> a \ bs, sent |-> c \cup (bs \cap a), nearest |-> d, paused |-> p]
<1>2. GotBlocks(r, bs) = q
  <2> DEFINE r1 == [sending |-> a \ bs, sent |-> c, nearest |-> d, paused |-> p]
  <2>1. r.sending = a /\ r1 = [r EXCEPT !.sending = @ \ bs]
    BY <1>1
  <2>2. [r1 EXCEPT !.sent = @ \cup (bs \cap a)] = q
    OBVIOUS
  <2>3. GotBlocks(r, bs) = [[r EXCEPT !.sending = @ \ bs] EXCEPT !.sent = @ \cup (bs \cap a)]
    BY <2>1 DEF GotBlocks
  <2> QED BY <2>1, <2>2, <2>3
<1>3. q \in RemoteClient
  BY <1>1 DEF RemoteClient
<1> QED BY <1>1, <1>2, <1>3

LEMMA Resent ==
    ASSUME NEW r \in RemoteClient, NEW b \in Blocks
    PROVE  LET q == ResendBlockIfOnWire(r, b)
           IN  /\ q \in RemoteClient /\ b \notin q.sending
               /\ q.sending = r.sending \ {b} /\ q.sent \subseteq r.sent
<1>1. CASE b \in r.sending
  <2>1. FALSE \in BOOLEAN
    OBVIOUS
  <2>2. LET q == SetBlockNotSent(r, b, FALSE)
        IN  q \in RemoteClient /\ q.sending = r.sending \ {b} /\ q.sent = r.sent \ {b}
    BY <2>1, NotSent
  <2> QED BY <1>1, <2>2 DEF ResendBlockIfOnWire
<1>2. CASE b \notin r.sending
  BY <1>2 DEF ResendBlockIfOnWire
<1> QED BY <1>1, <1>2
-----------------------------------------------------------------------------
(* Copies of b and those that show v at n; packets about b, about n in b, and those that *)
(* set it to v; events; the client's notices.                                *)
Copy == [block : Blocks, nodes : [Nodes -> Values]]
Copies(b) == {m \in Copy : m.block = b}
Showing(b, n, v) == {m \in Copies(b) : m.nodes[n] = v}

Packets(b) == {c \in NodeChange : c.block = b}
PacketsOn(b, n) == {c \in Packets(b) : c.node = n}
Setting(b, n, v) == {c \in PacketsOn(b, n) : c.value = v}

NodeEvents(cs) == {e \in Event : e.type = "node" /\ e.change \in cs}
Metas(b, n) == {e \in Event : e.type = "meta" /\ e.block = b /\ e.node = n}
Others(b) == {e \in Event : e.type = "other" /\ e.block = b}

Notice == [type : {"got", "deleted"}, blocks : SUBSET Blocks]
Deletions(b) == {m \in Notice : m.type = "deleted" /\ b \in m.blocks}

-----------------------------------------------------------------------------
(* Going through the events.                                                 *)

Handled == [remote : RemoteClient, packets : Seq(NodeChange)]
Believes(s, b) == b \in s.remote.sending \cup s.remote.sent

LEMMA EventKinds ==
    ASSUME NEW e \in Event
    PROVE  \/ e.type = "node" /\ e.change \in NodeChange
           \/ e.type = "meta" /\ e.block \in Blocks /\ e.node \in Nodes
           \/ e.type = "other" /\ e.block \in Blocks /\ e.low \in BOOLEAN
BY DEF Event

\* A client that is still believed to have the block is sent the change.
LEMMA ChangeSent ==
    ASSUME NEW s \in Handled, NEW c \in NodeChange, NEW range
    PROVE  LET t == SendNodeChange(s, c, range)
           IN  /\ t \in Handled /\ \A b : Believes(t, b) => Believes(s, b)
               /\ Believes(t, c.block) => t.packets = Append(s.packets, c)
               /\ t.packets \in {s.packets, Append(s.packets, c)}
<1>1. PICK r \in RemoteClient, p \in Seq(NodeChange) : s = [remote |-> r, packets |-> p]
  BY DEF Handled
<1>2. c.block \in Blocks /\ FALSE \in BOOLEAN
  BY DEF NodeChange
<1>3. CASE c.block \in s.remote.sent /\ range = "near"
  <2> DEFINE t == [remote |-> r, packets |-> Append(p, c)]
  <2>1. SendNodeChange(s, c, range) = t
    BY <1>1, <1>3 DEF SendNodeChange
  <2>2. t \in Handled /\ s.packets = p /\ s.remote = r
    BY <1>1 DEF Handled
  <2> QED BY <2>1, <2>2 DEF Believes
<1>4. CASE ~(c.block \in s.remote.sent /\ range = "near")
  <2> DEFINE q == SetBlockNotSent(r, c.block, FALSE)
             t == [remote |-> q, packets |-> p]
  <2>1. q \in RemoteClient /\ q.sending = r.sending \ {c.block} /\ q.sent = r.sent \ {c.block}
    BY <1>2, NotSent
  <2>2. SendNodeChange(s, c, range) = t
    BY <1>1, <1>4 DEF SendNodeChange
  <2> HIDE DEF q
  <2>3. t \in Handled /\ s.packets = p /\ s.remote = r /\ t.remote = q /\ t.packets = p
    BY <1>1, <2>1 DEF Handled
  <2>4. ~Believes(t, c.block) /\ \A b : Believes(t, b) => Believes(s, b)
    BY <2>1, <2>3 DEF Believes
  <2> HIDE DEF t
  <2> QED BY <2>2, <2>3, <2>4
<1> QED BY <1>3, <1>4

LEMMA EventHandled ==
    ASSUME NEW s \in Handled, NEW e \in Event, NEW range
    PROVE  LET t == HandleEvent(s, e, range)
           IN  /\ t \in Handled /\ \A b : Believes(t, b) => Believes(s, b)
               /\ \A b : Believes(t, b) =>
                     /\ e \notin Others(b)
                     /\ \A n : IF e \in NodeEvents(PacketsOn(b, n))
                               THEN t.packets = Append(s.packets, e.change)
                               ELSE \/ t.packets = s.packets
                                    \/ /\ t.packets = Append(s.packets, e.change)
                                       /\ e.change \in NodeChange \ PacketsOn(b, n)
<1>1. CASE e.type = "node"
  <2>1. e.change \in NodeChange
    BY <1>1, EventKinds
  <2> DEFINE t == SendNodeChange(s, e.change, range)
  <2>2. HandleEvent(s, e, range) = t
    BY <1>1 DEF HandleEvent
  <2>3. /\ t \in Handled /\ \A b : Believes(t, b) => Believes(s, b)
        /\ Believes(t, e.change.block) => t.packets = Append(s.packets, e.change)
        /\ t.packets \in {s.packets, Append(s.packets, e.change)}
    BY <2>1, ChangeSent
  <2> HIDE DEF t
  <2>4. ASSUME NEW b, Believes(t, b) PROVE e \notin Others(b)
    BY <1>1 DEF Others
  <2>5. ASSUME NEW b, Believes(t, b), NEW n, e \in NodeEvents(PacketsOn(b, n))
        PROVE  t.packets = Append(s.packets, e.change)
    BY <2>3, <2>5 DEF NodeEvents, PacketsOn, Packets
  <2>6. ASSUME NEW b, NEW n, e \notin NodeEvents(PacketsOn(b, n))
        PROVE  e.change \notin PacketsOn(b, n)
    BY <1>1, <2>6 DEF NodeEvents
  <2> QED BY <2>1, <2>2, <2>3, <2>4, <2>5, <2>6
<1>2. CASE e.type = "meta"
  BY <1>2 DEF HandleEvent, Others, NodeEvents
<1>3. CASE e.type = "other"
  <2>1. e.block \in Blocks /\ e.low \in BOOLEAN
    BY <1>3, EventKinds
  <2>2. PICK r \in RemoteClient, p \in Seq(NodeChange) : s = [remote |-> r, packets |-> p]
    BY DEF Handled
  <2> DEFINE q == SetBlockNotSent(r, e.block, e.low)
             t == [remote |-> q, packets |-> p]
  <2>3. q \in RemoteClient /\ q.sending = r.sending \ {e.block} /\ q.sent = r.sent \ {e.block}
    BY <2>1, NotSent
  <2>4. HandleEvent(s, e, range) = t
    BY <1>3, <2>2 DEF HandleEvent
  <2> HIDE DEF q
  <2>5. t \in Handled /\ s.packets = p /\ s.remote = r /\ t.remote = q /\ t.packets = p
    BY <2>2, <2>3 DEF Handled
  <2>6. ~Believes(t, e.block) /\ \A b : Believes(t, b) => Believes(s, b)
    BY <2>3, <2>5 DEF Believes
  <2> HIDE DEF t
  <2>7. \A b, n : e \notin NodeEvents(PacketsOn(b, n))
    BY <1>3 DEF NodeEvents
  <2>8. \A b : e \in Others(b) => b = e.block
    BY DEF Others
  <2> QED BY <2>4, <2>5, <2>6, <2>7, <2>8
<1> QED BY <1>1, <1>2, <1>3, EventKinds

\* sendMetadataChanged of an event after another.
LEMMA MetaSent ==
    ASSUME NEW s \in Handled, NEW e \in Event, NEW range,
           content \in [Blocks -> [Nodes -> Values]]
    PROVE  LET t == HandleMeta(s, e, range)
           IN  /\ t \in Handled /\ \A b : Believes(t, b) => Believes(s, b)
               /\ \A b, n : Believes(t, b) =>
                     \/ e \in Metas(b, n) /\ b \notin loaded
                     \/ \E c \in NodeChange :
                           /\ t.packets = Append(s.packets, c)
                           /\ c \in PacketsOn(b, n) => c \in Setting(b, n, content[b][n])
                           /\ e \in Metas(b, n) <=> c \in PacketsOn(b, n)
                     \/ t.packets = s.packets /\ e \notin Metas(b, n)
<1>1. CASE e.type # "meta"
  BY <1>1 DEF HandleMeta, Metas
<1>2. CASE e.type = "meta" /\ e.block \notin loaded
  BY <1>2 DEF HandleMeta, Metas
<1>3. CASE e.type = "meta" /\ e.block \in loaded
  <2> DEFINE c == [block |-> e.block, node |-> e.node, value |-> content[e.block][e.node]]
             t == SendNodeChange(s, c, range)
  <2>1. e.block \in Blocks /\ e.node \in Nodes
    BY <1>3, EventKinds
  <2>2. c \in NodeChange /\ c.block = e.block /\ c.node = e.node
        /\ c.value = content[e.block][e.node]
    BY <2>1 DEF NodeChange
  <2>3. HandleMeta(s, e, range) = t
    BY <1>3 DEF HandleMeta
  <2> HIDE DEF c
  <2>4. /\ t \in Handled /\ \A b : Believes(t, b) => Believes(s, b)
        /\ Believes(t, c.block) => t.packets = Append(s.packets, c)
        /\ t.packets \in {s.packets, Append(s.packets, c)}
    BY <2>2, ChangeSent
  <2> HIDE DEF t
  <2>5. ASSUME NEW b, NEW n
        PROVE  /\ c \in PacketsOn(b, n) => c \in Setting(b, n, content[b][n])
               /\ e \in Metas(b, n) => c.block = b
               /\ e \in Metas(b, n) <=> c \in PacketsOn(b, n)
    BY <1>3, <2>2 DEF PacketsOn, Packets, Setting, Metas
  <2> QED BY <2>2, <2>3, <2>4, <2>5
<1> QED BY <1>1, <1>2, <1>3
\* What the packets of s say of b is what the events p say, as long as the client is
\* believed to have b.
Telling(s, p, b) ==
    Believes(s, b) =>
        /\ NoneIn(p, Others(b))
        /\ \A n :
              /\ NoneIn(p, NodeEvents(PacketsOn(b, n))) => NoneIn(s.packets, PacketsOn(b, n))
              /\ \A v : EndsIn(p, NodeEvents(Setting(b, n, v)), NodeEvents(PacketsOn(b, n)))
                            => EndsIn(s.packets, Setting(b, n, v), PacketsOn(b, n))

LEMMA TellingNext ==
    ASSUME NEW s \in Handled, NEW p \in Seq(Event), NEW e \in Event, NEW range, NEW b,
           Telling(s, p, b)
    PROVE  Telling(HandleEvent(s, e, range), Append(p, e), b)
<1> DEFINE t == HandleEvent(s, e, range)
           q == Append(p, e)
<1>1. SUFFICES ASSUME Believes(t, b) PROVE Telling(t, q, b)
  BY DEF Telling
<1>2. /\ t \in Handled /\ Believes(s, b) /\ e \notin Others(b)
      /\ \A n : IF e \in NodeEvents(PacketsOn(b, n))
                THEN t.packets = Append(s.packets, e.change)
                ELSE \/ t.packets = s.packets
                     \/ /\ t.packets = Append(s.packets, e.change)
                        /\ e.change \in NodeChange \ PacketsOn(b, n)
  BY <1>1, EventHandled
<1>3. NoneIn(q, Others(b))
  BY <1>2, NoneAtEnd DEF Telling
<1>4. s.packets \in Seq(NodeChange)
  BY DEF Handled
<1> HIDE DEF t
<1>5. ASSUME NEW n
      PROVE  /\ NoneIn(q, NodeEvents(PacketsOn(b, n))) => NoneIn(t.packets, PacketsOn(b, n))
             /\ \A v : EndsIn(q, NodeEvents(Setting(b, n, v)), NodeEvents(PacketsOn(b, n)))
                           => EndsIn(t.packets, Setting(b, n, v), PacketsOn(b, n))
  <2> DEFINE on == PacketsOn(b, n)
  <2>1. NoneIn(q, NodeEvents(on)) <=> NoneIn(p, NodeEvents(on)) /\ e \notin NodeEvents(on)
    BY NoneAtEnd
  <2>2. \A v : EndsIn(q, NodeEvents(Setting(b, n, v)), NodeEvents(on))
                 <=> \/ e \in NodeEvents(Setting(b, n, v))
                     \/ /\ e \notin NodeEvents(on)
                        /\ EndsIn(p, NodeEvents(Setting(b, n, v)), NodeEvents(on))
    BY AtEnd
  <2>3. /\ NoneIn(p, NodeEvents(on)) => NoneIn(s.packets, on)
        /\ \A v : EndsIn(p, NodeEvents(Setting(b, n, v)), NodeEvents(on))
                      => EndsIn(s.packets, Setting(b, n, v), on)
    BY <1>2 DEF Telling
  <2>4. \A v : /\ Setting(b, n, v) \subseteq on
               /\ e \in NodeEvents(Setting(b, n, v)) =>
                     e \in NodeEvents(on) /\ e.change \in Setting(b, n, v)
    BY DEF Setting, NodeEvents
  <2>5. e \in NodeEvents(on) => e.change \in NodeChange
    BY DEF NodeEvents, PacketsOn, Packets
  <2> HIDE DEF on, q
  <2>6. CASE e \in NodeEvents(on)
    <3>1. t.packets = Append(s.packets, e.change)
      BY <1>2, <2>6 DEF on
    <3>2. \A v : e.change \in Setting(b, n, v) => EndsIn(t.packets, Setting(b, n, v), on)
      BY <1>4, <2>5, <2>6, <3>1, AtEnd
    <3> QED BY <2>1, <2>2, <2>4, <2>6, <3>2 DEF on
  <2>7. CASE e \notin NodeEvents(on)
    <3>1. CASE t.packets = s.packets
      BY <2>1, <2>2, <2>3, <2>4, <2>7, <3>1 DEF on
    <3>2. CASE t.packets = Append(s.packets, e.change) /\ e.change \in NodeChange \ on
      <4>1. NoneIn(s.packets, on) => NoneIn(t.packets, on)
        BY <1>4, <3>2, NoneAtEnd
      <4>2. \A v : EndsIn(s.packets, Setting(b, n, v), on)
                       => EndsIn(t.packets, Setting(b, n, v), on)
        BY <1>4, <3>2, AtEnd
      <4> QED BY <2>1, <2>2, <2>3, <2>4, <2>7, <4>1, <4>2 DEF on
    <3> QED BY <1>2, <2>7, <3>1, <3>2 DEF on
  <2> QED BY <2>6, <2>7
<1> QED BY <1>3, <1>5 DEF Telling

\* The metadata that is sent is what the map has, whatever was sent before it.
MetaTelling(t, s, p, b) ==
    Believes(t, b) =>
        /\ Believes(s, b)
        /\ \A n :
              /\ \/ NoneIn(p, Metas(b, n))
                 \/ EndsIn(t.packets, Setting(b, n, content[b][n]), PacketsOn(b, n))
              /\ NoneIn(p, Metas(b, n)) /\ NoneIn(s.packets, PacketsOn(b, n))
                     => NoneIn(t.packets, PacketsOn(b, n))
              /\ EndsIn(s.packets, Setting(b, n, content[b][n]), PacketsOn(b, n))
                     => EndsIn(t.packets, Setting(b, n, content[b][n]), PacketsOn(b, n))

LEMMA MetaTellingNext ==
    ASSUME NEW s \in Handled, NEW t \in Handled, NEW p \in Seq(Event), NEW e \in Event,
           NEW range, NEW b, content \in [Blocks -> [Nodes -> Values]],
           \A n : e \in Metas(b, n) => b \in loaded,
           MetaTelling(t, s, p, b)
    PROVE  MetaTelling(HandleMeta(t, e, range), s, Append(p, e), b)
<1> DEFINE u == HandleMeta(t, e, range)
           q == Append(p, e)
<1>1. SUFFICES ASSUME Believes(u, b) PROVE MetaTelling(u, s, q, b)
  BY DEF MetaTelling
<1>2. /\ u \in Handled /\ Believes(t, b)
      /\ \A n : \/ \E c \in NodeChange :
                      /\ u.packets = Append(t.packets, c)
                      /\ c \in PacketsOn(b, n) => c \in Setting(b, n, content[b][n])
                      /\ e \in Metas(b, n) <=> c \in PacketsOn(b, n)
                \/ u.packets = t.packets /\ e \notin Metas(b, n)
  <2>1. /\ u \in Handled /\ \A c : Believes(u, c) => Believes(t, c)
        /\ \A c, n : Believes(u, c) =>
              \/ e \in Metas(c, n) /\ c \notin loaded
              \/ \E d \in NodeChange :
                    /\ u.packets = Append(t.packets, d)
                    /\ d \in PacketsOn(c, n) => d \in Setting(c, n, content[c][n])
                    /\ e \in Metas(c, n) <=> d \in PacketsOn(c, n)
              \/ u.packets = t.packets /\ e \notin Metas(c, n)
    BY MetaSent
  <2> HIDE DEF u
  <2> QED BY <1>1, <2>1
<1>3. t.packets \in Seq(NodeChange)
  BY DEF Handled
<1> HIDE DEF u
<1>4. ASSUME NEW n
      PROVE  /\ \/ NoneIn(q, Metas(b, n))
                \/ EndsIn(u.packets, Setting(b, n, content[b][n]), PacketsOn(b, n))
             /\ NoneIn(q, Metas(b, n)) /\ NoneIn(s.packets, PacketsOn(b, n))
                    => NoneIn(u.packets, PacketsOn(b, n))
             /\ EndsIn(s.packets, Setting(b, n, content[b][n]), PacketsOn(b, n))
                    => EndsIn(u.packets, Setting(b, n, content[b][n]), PacketsOn(b, n))
  <2> DEFINE on == PacketsOn(b, n)
             right == Setting(b, n, content[b][n])
  <2>1. NoneIn(q, Metas(b, n)) <=> NoneIn(p, Metas(b, n)) /\ e \notin Metas(b, n)
    BY NoneAtEnd
  <2>2. /\ NoneIn(p, Metas(b, n)) \/ EndsIn(t.packets, right, on)
        /\ NoneIn(p, Metas(b, n)) /\ NoneIn(s.packets, on) => NoneIn(t.packets, on)
        /\ EndsIn(s.packets, right, on) => EndsIn(t.packets, right, on)
    BY <1>2 DEF MetaTelling
  <2> HIDE DEF on, right, q
  <2>3. CASE u.packets = t.packets /\ e \notin Metas(b, n)
    BY <2>1, <2>2, <2>3 DEF on, right
  <2>4. ASSUME NEW c \in NodeChange, u.packets = Append(t.packets, c),
               c \in on => c \in right, e \in Metas(b, n) <=> c \in on
        PROVE  /\ NoneIn(q, Metas(b, n)) \/ EndsIn(u.packets, right, on)
               /\ NoneIn(q, Metas(b, n)) /\ NoneIn(s.packets, on) => NoneIn(u.packets, on)
               /\ EndsIn(s.packets, right, on) => EndsIn(u.packets, right, on)
    <3>1. NoneIn(u.packets, on) <=> NoneIn(t.packets, on) /\ c \notin on
      BY <1>3, <2>4, NoneAtEnd
    <3>2. EndsIn(u.packets, right, on) <=> c \in right \/ (c \notin on /\ EndsIn(t.packets, right, on))
      BY <1>3, <2>4, AtEnd
    <3> QED BY <2>1, <2>2, <2>4, <3>1, <3>2
  <2> QED BY <1>2, <2>3, <2>4 DEF on, right
<1> QED BY <1>2, <1>4 DEF MetaTelling
Believed == sending \cup sent

LEMMA RemoteType ==
    ASSUME TypeOK
    PROVE  Remote \in RemoteClient /\ \A b : b \in Believed <=> b \in Remote.sending \cup Remote.sent
BY DEF TypeOK, Remote, RemoteClient, Near, Believed

\* After all events.
LEMMA EventsTold ==
    ASSUME TypeOK, NEW range
    PROVE  LET t == EventsHandled(range)
           IN  /\ t \in Handled
               /\ \A b : Believes(t, b) => b \in Believed
               /\ \A b : Telling(t, events, b)
<1> DEFINE n == Len(events)
           c == [remote |-> Remote, packets |-> <<>>]
           h == [x \in Handled \X (1..n) |-> HandleEvent(x[1], events[x[2]], range)]
           Steps(g) ==
               g = [k \in 0..n |-> IF k = 0 THEN c ELSE HandleEvent(g[k - 1], events[k], range)]
           f == CHOOSE g : Steps(g)
<1>1. /\ n \in Nat /\ events \in Seq(Event) /\ c \in Handled
      /\ \A k \in 1..n : events[k] \in Event
  BY RemoteType DEF TypeOK, Handled
<1>2. \A s \in Handled, k \in 1..n : HandleEvent(s, events[k], range) \in Handled
  BY <1>1, EventHandled
<1>3. Steps(f)
  <2>1. \A s \in Handled, k \in 1..n : h[<<s, k>>] = HandleEvent(s, events[k], range)
    OBVIOUS
  <2> HIDE DEF c, h
  <2>2. Closed(h, Handled, n)
    BY <1>2, <2>1 DEF Closed
  <2>3. PICK g : Chain(g, Handled, c, h, n)
    BY <1>1, <2>2, ChainExists
  <2>4. \A k \in 1..n : g[k] = HandleEvent(g[k - 1], events[k], range)
    <3> SUFFICES ASSUME NEW k \in 1..n PROVE g[k] = HandleEvent(g[k - 1], events[k], range)
      OBVIOUS
    <3>1. g[k - 1] \in Handled
      BY <1>1, <2>3 DEF Chain
    <3> QED BY <2>1, <2>3, <3>1 DEF Chain
  <2>5. Steps(g)
    <3> SUFFICES ASSUME NEW k \in 0..n
                 PROVE  g[k] = IF k = 0 THEN c ELSE HandleEvent(g[k - 1], events[k], range)
      BY <2>3 DEF Chain
    <3> QED BY <2>3, <2>4 DEF Chain
  <2> QED BY <2>5, Zenon
<1>4. EventsHandled(range) = f[n]
  BY DEF EventsHandled
<1> HIDE DEF f
<1>5. f[0] = c /\ \A k \in 1..n : f[k] = HandleEvent(f[k - 1], events[k], range)
  BY <1>1, <1>3
<1> DEFINE Part(k) == SubSeq(events, 1, k)
           Told(k) == /\ f[k] \in Handled
                      /\ \A b : Believes(f[k], b) => b \in Believed
                      /\ \A b : Telling(f[k], Part(k), b)
           T == {k \in 0..n : Told(k)}
<1>6. Told(0)
  <2>1. Part(0) = <<>>
    BY <1>1, Beginnings
  <2>2. c.packets = <<>> /\ \A b : Believes(c, b) => b \in Believed
    BY RemoteType DEF Believes
  <2>3. \A hit : NoneIn(<<>>, hit) /\ \A good : ~EndsIn(<<>>, good, hit)
    BY DEF NoneIn, EndsIn
  <2> QED BY <1>1, <1>5, <2>1, <2>2, <2>3 DEF Telling
<1>7. ASSUME NEW k \in 1..n, Told(k - 1) PROVE Told(k)
  <2>1. /\ events[k] \in Event /\ Part(k - 1) \in Seq(Event)
        /\ Part(k) = Append(Part(k - 1), events[k])
    BY <1>1, Beginnings
  <2> HIDE DEF Part
  <2>2. f[k] \in Handled /\ \A b : Believes(f[k], b) => Believes(f[k - 1], b)
    BY <1>5, <1>7, <2>1, EventHandled
  <2>3. \A b : Telling(f[k], Part(k), b)
    BY <1>5, <1>7, <2>1, TellingNext
  <2> QED BY <1>7, <2>2, <2>3
<1> HIDE DEF Told
<1>8. 0 \in T /\ \A k \in 1..n : k - 1 \in T => k \in T
  BY <1>1, <1>6, <1>7
<1>9. Told(n)
  <2> HIDE DEF T
  <2>1. 0..n \subseteq T
    BY <1>1, <1>8, UpTo
  <2> QED BY <1>1, <2>1 DEF T
<1>10. Part(n) = events
  BY <1>1, Beginnings
<1> QED BY <1>4, <1>9, <1>10 DEF Told

\* After the metadata, too.
LEMMA MetaTold ==
    ASSUME TypeOK, NEW range,
           \A b, n : ~NoneIn(events, Metas(b, n)) => b \in loaded
    PROVE  LET s == EventsHandled(range)
               t == MetaHandled(range)
           IN  t \in Handled /\ \A b : MetaTelling(t, s, events, b)
<1> DEFINE n == Len(events)
           c == EventsHandled(range)
           h == [x \in Handled \X (1..n) |-> HandleMeta(x[1], events[x[2]], range)]
           Steps(g) ==
               g = [k \in 0..n |-> IF k = 0 THEN c ELSE HandleMeta(g[k - 1], events[k], range)]
           f == CHOOSE g : Steps(g)
<1>1. /\ n \in Nat /\ events \in Seq(Event) /\ c \in Handled
      /\ \A k \in 1..n : events[k] \in Event
      /\ content \in [Blocks -> [Nodes -> Values]]
  BY EventsTold DEF TypeOK
<1>2. \A s \in Handled, k \in 1..n : HandleMeta(s, events[k], range) \in Handled
  BY <1>1, MetaSent
<1>3. Steps(f)
  <2>1. \A s \in Handled, k \in 1..n : h[<<s, k>>] = HandleMeta(s, events[k], range)
    OBVIOUS
  <2> HIDE DEF c, h
  <2>2. Closed(h, Handled, n)
    BY <1>2, <2>1 DEF Closed
  <2>3. PICK g : Chain(g, Handled, c, h, n)
    BY <1>1, <2>2, ChainExists
  <2>4. \A k \in 1..n : g[k] = HandleMeta(g[k - 1], events[k], range)
    <3> SUFFICES ASSUME NEW k \in 1..n PROVE g[k] = HandleMeta(g[k - 1], events[k], range)
      OBVIOUS
    <3>1. g[k - 1] \in Handled
      BY <1>1, <2>3 DEF Chain
    <3> QED BY <2>1, <2>3, <3>1 DEF Chain
  <2>5. Steps(g)
    <3> SUFFICES ASSUME NEW k \in 0..n
                 PROVE  g[k] = IF k = 0 THEN c ELSE HandleMeta(g[k - 1], events[k], range)
      BY <2>3 DEF Chain
    <3> QED BY <2>3, <2>4 DEF Chain
  <2> QED BY <2>5, Zenon
<1>4. MetaHandled(range) = f[n]
  BY DEF MetaHandled
<1> HIDE DEF f, c
<1>5. f[0] = c /\ \A k \in 1..n : f[k] = HandleMeta(f[k - 1], events[k], range)
  BY <1>1, <1>3
<1> DEFINE Part(k) == SubSeq(events, 1, k)
           Told(k) == f[k] \in Handled /\ \A b : MetaTelling(f[k], c, Part(k), b)
           T == {k \in 0..n : Told(k)}
<1>6. Told(0)
  <2>1. Part(0) = <<>>
    BY <1>1, Beginnings
  <2>2. \A hit : NoneIn(<<>>, hit)
    BY DEF NoneIn
  <2> QED BY <1>1, <1>5, <2>1, <2>2 DEF MetaTelling
<1>7. ASSUME NEW k \in 1..n, Told(k - 1) PROVE Told(k)
  <2>1. /\ events[k] \in Event /\ Part(k - 1) \in Seq(Event)
        /\ Part(k) = Append(Part(k - 1), events[k])
    BY <1>1, Beginnings
  <2>2. \A b, m : events[k] \in Metas(b, m) => b \in loaded
    BY DEF NoneIn
  <2> HIDE DEF Part
  <2>3. f[k] \in Handled
    BY <1>1, <1>5, <1>7, <2>1, MetaSent
  <2>4. \A b : MetaTelling(f[k], c, Part(k), b)
    BY <1>1, <1>5, <1>7, <2>1, <2>2, MetaTellingNext
  <2> QED BY <2>3, <2>4
<1> HIDE DEF Told
<1>8. 0 \in T /\ \A k \in 1..n : k - 1 \in T => k \in T
  BY <1>1, <1>6, <1>7
<1>9. Told(n)
  <2> HIDE DEF T
  <2>1. 0..n \subseteq T
    BY <1>1, <1>8, UpTo
  <2> QED BY <1>1, <2>1 DEF T
<1>10. Part(n) = events
  BY <1>1, Beginnings
<1> QED BY <1>4, <1>9, <1>10 DEF Told, c
-----------------------------------------------------------------------------
(* GetNextBlocks.                                                            *)

Scan == [selected : Seq(loaded \ Believed), emerge : Seq(Blocks), full : BOOLEAN, d : Near]

LEMMA VisitType ==
    ASSUME NEW g \in Scan, NEW b \in Blocks
    PROVE  Visit(g, b) \in Scan
<1>1. PICK s \in Seq(loaded \ Believed), e \in Seq(Blocks), l \in BOOLEAN, d \in Near :
          g = [selected |-> s, emerge |-> e, full |-> l, d |-> d]
  BY DEF Scan
<1> DEFINE g1 == [selected |-> s, emerge |-> e, full |-> TRUE, d |-> Distance[b]]
           g2 == [selected |-> Append(s, b), emerge |-> e, full |-> l, d |-> d]
           g3 == [selected |-> s, emerge |-> Append(e, b), full |-> l, d |-> d]
<1>2. [g EXCEPT !.full = TRUE, !.d = Distance[b]] = g1
  <2> DEFINE x == Distance[b]
             yes == TRUE
  <2> HIDE DEF x, yes
  <2>1. [g EXCEPT !.full = yes] = [selected |-> s, emerge |-> e, full |-> yes, d |-> d]
    BY <1>1
  <2>2. [[selected |-> s, emerge |-> e, full |-> yes, d |-> d] EXCEPT !.d = x]
            = [selected |-> s, emerge |-> e, full |-> yes, d |-> x]
    OBVIOUS
  <2>3. [g EXCEPT !.full = yes, !.d = x] = [[g EXCEPT !.full = yes] EXCEPT !.d = x]
    OBVIOUS
  <2> QED BY <2>1, <2>2, <2>3 DEF x, yes
<1>3. [g EXCEPT !.selected = Append(@, b)] = g2 /\ [g EXCEPT !.emerge = Append(@, b)] = g3
  <2> DEFINE x == Append(s, b)
             y == Append(e, b)
  <2>1. g.selected = s /\ g.emerge = e
    BY <1>1
  <2> HIDE DEF x, y
  <2>2. [g EXCEPT !.selected = x] = [selected |-> x, emerge |-> e, full |-> l, d |-> d]
    BY <1>1
  <2>3. [g EXCEPT !.emerge = y] = [selected |-> s, emerge |-> y, full |-> l, d |-> d]
    BY <1>1
  <2> QED BY <2>1, <2>2, <2>3 DEF x, y
<1>4. g1 \in Scan
  BY Distances DEF Scan
<1>5. ASSUME b \in loaded \ Believed PROVE g2 \in Scan
  <2>1. Append(s, b) \in Seq(loaded \ Believed)
    BY <1>5
  <2> QED BY <2>1 DEF Scan
<1>6. g3 \in Scan
  <2>1. Append(e, b) \in Seq(Blocks)
    OBVIOUS
  <2> QED BY <2>1 DEF Scan
<1> HIDE DEF g1, g2, g3
<1> QED BY <1>2, <1>3, <1>4, <1>5, <1>6 DEF Visit, Believed

\* Every block selected is in memory and not believed to be at the client.
LEMMA ScanType ==
    ASSUME TypeOK, NEW start \in Near
    PROVE  GetNextBlocks(start) \in Scan
<1> DEFINE n == Len(Order)
           last == Smaller(MaxDistance, start + Increment)
           c == [selected |-> <<>>, emerge |-> <<>>, full |-> FALSE, d |-> last + 1]
           step(g, b) == IF Distance[b] \in start..last THEN Visit(g, b) ELSE g
           h == [x \in Scan \X (1..n) |-> step(x[1], Order[x[2]])]
           Steps(g) == g = [k \in 0..n |-> IF k = 0 THEN c ELSE step(g[k - 1], Order[k])]
           f == CHOOSE g : Steps(g)
<1>1. n \in Nat /\ \A k \in 1..n : Order[k] \in Blocks
  BY TransferAssumption
<1>2. c \in Scan
  <2>1. MaxDistance \in Nat /\ start \in Nat /\ Increment \in Nat
    BY TransferAssumption DEF Near
  <2>2. last + 1 \in Near
    BY <2>1 DEF Near, Smaller
  <2> QED BY <2>2 DEF Scan
<1>3. \A s \in Scan, k \in 1..n : step(s, Order[k]) \in Scan
  BY <1>1, VisitType
<1> HIDE DEF c, step
<1>4. Steps(f)
  <2>1. \A s \in Scan, k \in 1..n : h[<<s, k>>] = step(s, Order[k])
    OBVIOUS
  <2> HIDE DEF h
  <2>2. Closed(h, Scan, n)
    BY <1>3, <2>1 DEF Closed
  <2>3. PICK g : Chain(g, Scan, c, h, n)
    BY <1>1, <1>2, <2>2, ChainExists
  <2>4. \A k \in 1..n : g[k] = step(g[k - 1], Order[k])
    <3> SUFFICES ASSUME NEW k \in 1..n PROVE g[k] = step(g[k - 1], Order[k])
      OBVIOUS
    <3>1. g[k - 1] \in Scan
      BY <1>1, <2>3 DEF Chain
    <3> QED BY <2>1, <2>3, <3>1 DEF Chain
  <2>5. Steps(g)
    <3> SUFFICES ASSUME NEW k \in 0..n
                 PROVE  g[k] = IF k = 0 THEN c ELSE step(g[k - 1], Order[k])
      BY <2>3 DEF Chain
    <3> QED BY <2>3, <2>4 DEF Chain
  <2> QED BY <2>5, Zenon
<1>5. GetNextBlocks(start) = f[n]
  BY DEF GetNextBlocks, c, step
<1> HIDE DEF f
<1>6. f[0] = c /\ \A k \in 1..n : f[k] = step(f[k - 1], Order[k])
  BY <1>1, <1>4
<1> DEFINE T == {k \in 0..n : f[k] \in Scan}
<1>7. 0 \in T /\ \A k \in 1..n : k - 1 \in T => k \in T
  BY <1>1, <1>2, <1>3, <1>6
<1>8. 0..n \subseteq T
  <2> HIDE DEF T
  <2> QED BY <1>1, <1>7, UpTo
<1> QED BY <1>1, <1>5, <1>8

\* What SendBlocks sends, and where it leaves the scan.
LEMMA BlocksSelected ==
    ASSUME TypeOK, NEW restart, SendBlocks(restart)
    PROVE  \E out \in Seq(loaded \ Believed), asked \in Seq(Blocks) :
              /\ sending' = sending \cup ToSet(out)
              /\ blockData' = blockData \o
                    [i \in 1..Len(out) |-> [block |-> out[i], nodes |-> content[out[i]]]]
              /\ passed' = passed \ ToSet(out)
              /\ emerging' = emerging \cup ToSet(asked)
              /\ nearest' \in Near /\ paused' \in BOOLEAN
<1> DEFINE start == IF restart THEN 0 ELSE nearest
           g == GetNextBlocks(start)
           room == IF Cardinality(sending) < MaxTotalSends
                   THEN MaxTotalSends - Cardinality(sending) ELSE 0
           out == SubSeq(g.selected, 1, Smaller(Len(g.selected), room))
<1>1. start \in Near
  <2>1. 0 \in Near /\ nearest \in Near
    BY Distances DEF TypeOK, Near
  <2> QED BY <2>1
<1>2. g \in Scan
  BY <1>1, ScanType
<1>0. room \in Nat
  <2>1. Order \in Surjection(1..Len(Order), Blocks) /\ IsFiniteSet(1..Len(Order))
    <3>1. Order \in [1..Len(Order) -> Blocks] /\ Len(Order) \in Nat /\ DOMAIN Order = 1..Len(Order)
      BY TransferAssumption
    <3>2. \A b \in Blocks : \E i \in 1..Len(Order) : Order[i] = b
      BY <3>1 DEF Blocks, ToSet
    <3> QED BY <3>1, <3>2, FS_Interval, SMTT(30) DEF Surjection
  <2>2. IsFiniteSet(Blocks)
    BY <2>1, FS_Surjection
  <2>3. IsFiniteSet(sending)
    BY <2>2, FS_Subset DEF TypeOK
  <2>4. Cardinality(sending) \in Nat /\ MaxTotalSends \in Nat
    BY <2>3, FS_CardinalityType, TransferAssumption
  <2> QED BY <2>4
<1> HIDE DEF g, room
<1>3. /\ g.selected \in Seq(loaded \ Believed) /\ g.emerge \in Seq(Blocks) /\ g.d \in Near
  BY <1>2 DEF Scan
<1>4. out \in Seq(loaded \ Believed)
  <2> DEFINE m == Smaller(Len(g.selected), room)
  <2>1. m \in Nat /\ m =< Len(g.selected)
    BY <1>0, <1>3 DEF Smaller
  <2> HIDE DEF m
  <2>2. SubSeq(g.selected, 1, m) \in Seq(loaded \ Believed)
    BY <1>3, <2>1
  <2> QED BY <2>2 DEF m
<1>5. NextNearest(g) \in Near
  <2>1. 0 \in Near
    BY Distances DEF Near
  <2>2. g.emerge # <<>> => Head(g.emerge) \in Blocks
    BY <1>3
  <2>3. g.selected # <<>> => Head(g.selected) \in Blocks
    BY <1>3 DEF TypeOK
  <2> QED BY <1>3, <2>1, <2>2, <2>3, Distances DEF NextNearest
<1>6. /\ sending' = sending \cup ToSet(out)
      /\ blockData' = blockData \o
            [i \in 1..Len(out) |-> [block |-> out[i], nodes |-> content[out[i]]]]
      /\ passed' = passed \ ToSet(out)
      /\ emerging' = emerging \cup ToSet(g.emerge)
      /\ nearest' = NextNearest(g) /\ paused' \in BOOLEAN
  BY DEF SendBlocks, g, room
<1> HIDE DEF out
<1> QED BY <1>3, <1>4, <1>5, <1>6
-----------------------------------------------------------------------------
(* The invariant.                                                            *)

\* What a node event about n in b sets it to is overtaken by a meta event or by one about
\* all of b.
Unknown(b, n) == ~NoneIn(events, Metas(b, n)) \/ ~NoneIn(events, Others(b))

\* Otherwise the last event about n in b says what it is.
EventsInv ==
    \A b \in Blocks, n \in Nodes :
        /\ ~NoneIn(events, Metas(b, n)) => b \in loaded
        /\ \/ Unknown(b, n)
           \/ NoneIn(events, NodeEvents(PacketsOn(b, n)))
           \/ EndsIn(events, NodeEvents(Setting(b, n, content[b][n])),
                     NodeEvents(PacketsOn(b, n)))

\* A block that the server does not send again is at the client, or on the way there, or
\* the client's notice that it has unloaded it is on the way back.
HaveInv ==
    \A b \in Believed : \/ view[b] # Absent
                        \/ ~NoneIn(blockData, Copies(b))
                        \/ ~NoneIn(notices, Deletions(b))

\* The client will show n in b as the map has it: by the last copy of b, or without one
\* by the last packet about n, or it does already.
Coming(b, n) ==
    \/ EndsIn(blockData, Showing(b, n, content[b][n]), Copies(b))
    \/ /\ NoneIn(blockData, Copies(b))
       /\ EndsIn(nodeData, Setting(b, n, content[b][n]), PacketsOn(b, n))
    \/ /\ NoneIn(blockData, Copies(b)) /\ NoneIn(nodeData, PacketsOn(b, n))
       /\ view[b][n] = content[b][n]

\* The server is yet to handle an event or an interaction about it.
Reported(b, n) == Unknown(b, n) \/ ~NoneIn(events, NodeEvents(PacketsOn(b, n)))
Changing(b, n) == Reported(b, n) \/ ~NoneIn(interacts, PacketsOn(b, n))

\* While b is in both channels nothing is known: the first message to arrive passes one
\* that was sent before it, or does not.
InOneChannel(b) == NoneIn(blockData, Copies(b)) \/ NoneIn(nodeData, Packets(b))
UpToDateInv ==
    \A b \in Believed \ passed :
        InOneChannel(b) /\ NoneIn(notices, Deletions(b))
        => \A n \in Nodes : Changing(b, n) \/ Coming(b, n)

IInv == TypeOK /\ EventsInv /\ HaveInv /\ UpToDateInv

LEMMA QueueTypes ==
    ASSUME TypeOK
    PROVE  /\ events \in Seq(Event) /\ blockData \in Seq(Copy) /\ nodeData \in Seq(NodeChange)
           /\ interacts \in Seq(NodeChange) /\ notices \in Seq(Notice)
BY DEF TypeOK, Copy, Notice

\* A block has nodes.
LEMMA NotAbsent ==
    ASSUME NEW f \in [Nodes -> Values]
    PROVE  f # Absent
<1>1. DOMAIN f # {}
  BY TransferAssumption
<1>2. DOMAIN Absent = {}
  BY DEF Absent
<1> QED BY <1>1, <1>2

\* A move is counted.
LEMMA Moved ==
    ASSUME TypeOK, Move
    PROVE  moves' = moves + 1 /\ moves' \in Values
<1>1. moves \in 0..MaxMoves /\ moves < MaxMoves /\ moves' = moves + 1
  BY DEF TypeOK, Values, Move
<1>2. MaxMoves \in Nat
  BY TransferAssumption
<1> QED BY <1>1, <1>2 DEF Values

LEMMA InitInvariant ==
    Init => IInv
<1> SUFFICES ASSUME Init PROVE IInv
  OBVIOUS
<1>1. TypeOK
  <2>1. 0 \in Values /\ 0 \in Near
    BY Distances, TransferAssumption DEF Values, Near
  <2>2. /\ content \in [Blocks -> [Nodes -> Values]]
        /\ view \in [Blocks -> [Nodes -> Values] \cup {Absent}]
        /\ unacked \in [Blocks -> Nat]
    BY <2>1 DEF Init
  <2>3. loaded \subseteq Blocks
    BY TransferAssumption DEF Init
  <2>4. /\ events \in Seq(Event) /\ blockData \in Seq(Copy) /\ nodeData \in Seq(NodeChange)
        /\ interacts \in Seq(NodeChange) /\ notices \in Seq(Notice)
    BY DEF Init
  <2>5. /\ emerging \subseteq Blocks /\ emerged \subseteq Blocks /\ passed \subseteq Blocks
        /\ sending \subseteq Blocks /\ sent \subseteq Blocks \ sending
        /\ nearest \in Near /\ paused \in BOOLEAN /\ moves \in Values
    BY <2>1 DEF Init
  <2> QED BY <2>2, <2>3, <2>4, <2>5 DEF TypeOK, Near, Copy, Notice
<1>2. \A hit : NoneIn(<<>>, hit)
  BY DEF NoneIn
<1>3. EventsInv
  BY <1>2 DEF Init, EventsInv
<1>4. HaveInv /\ UpToDateInv
  BY DEF Init, HaveInv, UpToDateInv, Believed
<1> QED BY <1>1, <1>3, <1>4 DEF IInv

-----------------------------------------------------------------------------
(* Steps that send copies.                                                   *)

CopiesOf(out) == [i \in 1..Len(out) |-> [block |-> out[i], nodes |-> content[out[i]]]]

LEMMA CopiesAdded ==
    ASSUME TypeOK, NEW out \in Seq(Blocks)
    PROVE  /\ CopiesOf(out) \in Seq(Copy)
           /\ \A b \in ToSet(out) :
                 /\ ~NoneIn(CopiesOf(out), Copies(b))
                 /\ \A n : EndsIn(CopiesOf(out), Showing(b, n, content[b][n]), Copies(b))
           /\ \A b : b \notin ToSet(out) => NoneIn(CopiesOf(out), Copies(b))
<1> DEFINE t == CopiesOf(out)
           m == Len(out)
<1>1. /\ m \in Nat /\ DOMAIN out = 1..m /\ \A i \in 1..m : out[i] \in Blocks
      /\ content \in [Blocks -> [Nodes -> Values]]
  BY DEF TypeOK
<1>2. t \in Seq(Copy) /\ DOMAIN t = 1..m
  <2>1. \A i \in 1..m : [block |-> out[i], nodes |-> content[out[i]]] \in Copy
    BY <1>1 DEF Copy
  <2> QED BY <1>1, <2>1 DEF CopiesOf
<1>3. \A i \in 1..m : t[i].block = out[i] /\ t[i].nodes = content[out[i]] /\ t[i] \in Copy
  BY <1>1 DEF CopiesOf, Copy
<1>4. \A b : b \in ToSet(out) <=> \E i \in 1..m : out[i] = b
  BY <1>1 DEF ToSet
<1> HIDE DEF t, m
<1>5. ASSUME NEW b, b \notin ToSet(out) PROVE NoneIn(t, Copies(b))
  BY <1>2, <1>3, <1>4, <1>5 DEF NoneIn, Copies
<1>6. ASSUME NEW b \in ToSet(out) PROVE ~NoneIn(t, Copies(b))
  BY <1>2, <1>3, <1>4 DEF NoneIn, Copies
<1>7. ASSUME NEW b \in ToSet(out), NEW n
      PROVE  EndsIn(t, Showing(b, n, content[b][n]), Copies(b))
  <2>1. \A i \in DOMAIN t : t[i] \in Copies(b) => t[i] \in Showing(b, n, content[b][n])
    BY <1>2, <1>3 DEF Copies, Showing
  <2> QED BY <1>2, <1>6, <2>1, AllGood
<1> QED BY <1>2, <1>5, <1>6, <1>7 DEF t

LEMMA CopiesSent ==
    ASSUME IInv, NEW out \in Seq(Blocks),
           blockData' = blockData \o CopiesOf(out), passed' = passed \ ToSet(out),
           Believed' \subseteq Believed \cup ToSet(out),
           UNCHANGED <<content, events, nodeData, notices, interacts, view>>
    PROVE  HaveInv' /\ UpToDateInv'
<1> DEFINE t == CopiesOf(out)
<1>1. /\ t \in Seq(Copy) /\ blockData \in Seq(Copy)
      /\ \A b \in ToSet(out) :
            /\ ~NoneIn(t, Copies(b))
            /\ \A n : EndsIn(t, Showing(b, n, content[b][n]), Copies(b))
      /\ \A b : b \notin ToSet(out) => NoneIn(t, Copies(b))
  BY CopiesAdded, QueueTypes DEF IInv
<1> HIDE DEF t
<1>2. \A hit : NoneIn(blockData', hit) <=> NoneIn(blockData, hit) /\ NoneIn(t, hit)
  BY <1>1, NoneJoined DEF t
<1>3. \A b : b \in Believed' => b \in Believed \/ b \in ToSet(out)
  OBVIOUS
<1>4. HaveInv'
  BY <1>1, <1>2, <1>3 DEF HaveInv, IInv
<1>5. ASSUME NEW b \in Believed' \ passed', InOneChannel(b)', NoneIn(notices, Deletions(b))',
             NEW n \in Nodes
      PROVE  Changing(b, n)' \/ Coming(b, n)'
  <2> DEFINE right == Showing(b, n, content[b][n])
  <2>1. CASE b \in ToSet(out)
    <3>1. EndsIn(t, right, Copies(b))
      BY <1>1, <2>1
    <3>2. EndsIn(blockData', right, Copies(b))
      BY <1>1, <3>1, Joined DEF t
    <3> QED BY <3>2 DEF Coming
  <2>2. CASE b \notin ToSet(out)
    <3>1. b \in Believed \ passed
      BY <1>3, <2>2
    <3>2. NoneIn(blockData', Copies(b)) <=> NoneIn(blockData, Copies(b))
      BY <1>1, <1>2, <2>2
    <3>3. EndsIn(blockData, right, Copies(b)) => EndsIn(blockData', right, Copies(b))
      BY <1>1, <2>2, Joined DEF t
    <3>4. Changing(b, n) \/ Coming(b, n)
      BY <1>5, <3>1, <3>2 DEF IInv, UpToDateInv, InOneChannel
    <3> QED BY <3>2, <3>3, <3>4 DEF Changing, Reported, Unknown, Coming
  <2> QED BY <2>1, <2>2
<1> QED BY <1>4, <1>5 DEF UpToDateInv

\* The events still say what the map has.
LEMMA EventsKept ==
    ASSUME EventsInv, UNCHANGED <<content, events>>, loaded \subseteq loaded'
    PROVE  EventsInv'
BY DEF EventsInv, Unknown

LEMMA SendBlocksStep ==
    ASSUME IInv, NEW restart, SendBlocks(restart)
    PROVE  IInv'
<1>1. PICK out \in Seq(loaded \ Believed), asked \in Seq(Blocks) :
          /\ sending' = sending \cup ToSet(out)
          /\ blockData' = blockData \o CopiesOf(out)
          /\ passed' = passed \ ToSet(out)
          /\ emerging' = emerging \cup ToSet(asked)
          /\ nearest' \in Near /\ paused' \in BOOLEAN
  BY BlocksSelected DEF IInv, CopiesOf
<1>2. UNCHANGED <<content, loaded, emerged, events, sent, nodeData, notices, interacts, view,
                  unacked, moves>>
  BY DEF SendBlocks, clientVars
<1>3. /\ out \in Seq(Blocks)
      /\ ToSet(out) \subseteq loaded \ Believed /\ ToSet(asked) \subseteq Blocks
      /\ loaded \subseteq Blocks
  BY DEF ToSet, IInv, TypeOK
<1>4. TypeOK'
  <2>1. blockData' \in Seq(Copy)
    BY <1>1, <1>3, CopiesAdded, QueueTypes, Joined DEF IInv
  <2>2. sending' \subseteq Blocks /\ sent' \subseteq Blocks \ sending'
    BY <1>1, <1>2, <1>3 DEF IInv, TypeOK, Believed
  <2> QED BY <1>1, <1>2, <1>3, <2>1, <2>2 DEF IInv, TypeOK, Copy, Near
<1>5. HaveInv' /\ UpToDateInv'
  <2>1. Believed' \subseteq Believed \cup ToSet(out)
    BY <1>1, <1>2 DEF Believed
  <2> QED BY <1>1, <1>2, <1>3, <2>1, CopiesSent
<1>6. EventsInv'
  BY <1>2, EventsKept DEF IInv
<1> QED BY <1>4, <1>5, <1>6 DEF IInv

LEMMA SendBlockStep ==
    ASSUME IInv, NEW b \in Blocks, SendBlock(b)
    PROVE  IInv'
<1> DEFINE out == <<b>>
<1>1. /\ moves' \in Values
      /\ blockData' = Append(blockData, [block |-> b, nodes |-> content[b]])
      /\ passed' = passed \ {b}
      /\ UNCHANGED <<content, loaded, emerging, emerged, events, sending, sent, nearest, paused,
                     nodeData, notices, interacts, view, unacked>>
  BY Moved DEF SendBlock, mapVars, remoteVars, clientVars, IInv
<1>2. /\ out \in Seq(Blocks) /\ ToSet(out) = {b}
      /\ CopiesOf(out) = <<[block |-> b, nodes |-> content[b]]>>
  BY DEF ToSet, CopiesOf
<1>3. blockData' = blockData \o CopiesOf(out) /\ blockData' \in Seq(Copy)
  <2>1. [block |-> b, nodes |-> content[b]] \in Copy /\ blockData \in Seq(Copy)
    BY QueueTypes DEF IInv, TypeOK, Copy
  <2> DEFINE x == [block |-> b, nodes |-> content[b]]
  <2>2. CopiesOf(out) = <<x>> /\ blockData' = Append(blockData, x)
    BY <1>1, <1>2
  <2> HIDE DEF x, out
  <2>3. x \in Copy
    BY <2>1 DEF x
  <2>4. Append(blockData, x) = blockData \o <<x>> /\ Append(blockData, x) \in Seq(Copy)
    BY <2>1, <2>3
  <2> QED BY <2>2, <2>4
<1> HIDE DEF out
<1>4. TypeOK'
  BY <1>1, <1>3 DEF IInv, TypeOK, Copy
<1>5. HaveInv' /\ UpToDateInv'
  BY <1>1, <1>2, <1>3, CopiesSent DEF Believed
<1>6. EventsInv'
  BY <1>1, EventsKept DEF IInv
<1> QED BY <1>4, <1>5, <1>6 DEF IInv
-----------------------------------------------------------------------------
(* Steps that send nothing and change no node.                               *)

\* Blocks may be sent again, and more of them be passed.
LEMMA NothingNew ==
    ASSUME IInv, Believed' \subseteq Believed, passed \subseteq passed',
           \A b \in Believed' : NoneIn(notices', Deletions(b)) <=> NoneIn(notices, Deletions(b)),
           UNCHANGED <<content, events, blockData, nodeData, interacts, view>>
    PROVE  HaveInv' /\ UpToDateInv'
<1>1. HaveInv'
  BY DEF IInv, HaveInv
<1>2. ASSUME NEW b \in Believed' \ passed', InOneChannel(b)', NoneIn(notices, Deletions(b))',
             NEW n \in Nodes
      PROVE  Changing(b, n)' \/ Coming(b, n)'
  <2>1. b \in Believed \ passed /\ InOneChannel(b) /\ NoneIn(notices, Deletions(b))
    BY <1>2 DEF InOneChannel
  <2>2. Changing(b, n) \/ Coming(b, n)
    BY <2>1 DEF IInv, UpToDateInv
  <2> QED BY <2>2 DEF Changing, Reported, Unknown, Coming
<1> QED BY <1>1, <1>2 DEF UpToDateInv

LEMMA PauseOverStep ==
    ASSUME IInv, PauseOver
    PROVE  IInv'
<1>1. TypeOK' /\ loaded' = loaded /\ UNCHANGED <<content, events>>
  BY DEF PauseOver, IInv, TypeOK, mapVars, clientVars
<1>2. HaveInv' /\ UpToDateInv'
  BY NothingNew DEF PauseOver, Believed, mapVars, clientVars
<1>3. EventsInv'
  BY <1>1, EventsKept DEF IInv
<1> QED BY <1>1, <1>2, <1>3 DEF IInv

LEMMA EmergeStep ==
    ASSUME IInv, NEW b \in Blocks, Emerge(b)
    PROVE  IInv'
<1>1. TypeOK' /\ loaded \subseteq loaded' /\ UNCHANGED <<content, events>>
  BY DEF Emerge, IInv, TypeOK, remoteVars, clientVars
<1>2. HaveInv' /\ UpToDateInv'
  BY NothingNew DEF Emerge, Believed, remoteVars, clientVars
<1>3. EventsInv'
  BY <1>1, EventsKept DEF IInv
<1> QED BY <1>1, <1>2, <1>3 DEF IInv

\* No event is left about a block that is unloaded.
LEMMA ServerUnloadStep ==
    ASSUME IInv, NEW c \in Blocks, ServerUnload(c)
    PROVE  IInv'
<1>1. /\ moves' \in Values /\ loaded' = loaded \ {c} /\ \A i \in DOMAIN events : BlockOf(events[i]) # c
      /\ UNCHANGED <<content, emerging, emerged, events, sending, sent, nearest, paused,
                     blockData, nodeData, notices, interacts, view, unacked, passed>>
  BY Moved DEF ServerUnload, remoteVars, clientVars, IInv
<1>2. TypeOK'
  BY <1>1 DEF IInv, TypeOK
<1>3. HaveInv' /\ UpToDateInv'
  BY <1>1, NothingNew DEF Believed
<1>4. ASSUME NEW b \in Blocks, NEW n \in Nodes, ~NoneIn(events, Metas(b, n))
      PROVE  b \in loaded'
  <2>1. PICK i \in DOMAIN events : events[i] \in Metas(b, n)
    BY <1>4 DEF NoneIn
  <2>2. BlockOf(events[i]) = b
    BY <2>1 DEF Metas, BlockOf
  <2>3. b \in loaded
    BY <1>4 DEF IInv, EventsInv
  <2> QED BY <1>1, <2>2, <2>3
<1>5. EventsInv'
  BY <1>1, <1>4 DEF IInv, EventsInv, Unknown
<1> QED BY <1>2, <1>3, <1>5 DEF IInv

-----------------------------------------------------------------------------
(* Changes of the map.                                                       *)

\* The event about a change is queued with it.
LEMMA EventAdded ==
    ASSUME IInv, NEW e \in Event, events' = Append(events, e), loaded' = loaded,
           Believed' \subseteq Believed,
           \A b \in Blocks, n \in Nodes :
              /\ content'[b][n] = content[b][n]
                 \/ e \in Others(b) \cup Metas(b, n) \cup NodeEvents(PacketsOn(b, n))
              /\ e \in NodeEvents(PacketsOn(b, n)) => e \in NodeEvents(Setting(b, n, content'[b][n]))
              /\ e \in Metas(b, n) => b \in loaded
              /\ NoneIn(interacts', PacketsOn(b, n))
                    => NoneIn(interacts, PacketsOn(b, n)) \/ e \in NodeEvents(PacketsOn(b, n)),
           UNCHANGED <<blockData, nodeData, notices, view, passed>>
    PROVE  EventsInv' /\ HaveInv' /\ UpToDateInv'
<1>1. events \in Seq(Event) /\ Believed \subseteq Blocks
  BY QueueTypes DEF IInv, TypeOK, Believed
<1>2. \A hit : NoneIn(events', hit) <=> NoneIn(events, hit) /\ e \notin hit
  BY <1>1, NoneAtEnd
<1>3. \A good, hit : EndsIn(events', good, hit)
                        <=> e \in good \/ (e \notin hit /\ EndsIn(events, good, hit))
  BY <1>1, AtEnd
<1>4. \A b \in Blocks, n \in Nodes :
         /\ Unknown(b, n) \/ e \in Others(b) \cup Metas(b, n) => Unknown(b, n)'
         /\ Reported(b, n) \/ e \in Others(b) \cup Metas(b, n) \cup NodeEvents(PacketsOn(b, n))
                => Reported(b, n)'
  BY <1>2 DEF Unknown, Reported
<1>5. ASSUME NEW b \in Blocks, NEW n \in Nodes
      PROVE  /\ ~NoneIn(events', Metas(b, n)) => b \in loaded'
             /\ \/ Unknown(b, n)'
                \/ NoneIn(events', NodeEvents(PacketsOn(b, n)))
                \/ EndsIn(events', NodeEvents(Setting(b, n, content'[b][n])),
                          NodeEvents(PacketsOn(b, n)))
  <2>1. ~NoneIn(events', Metas(b, n)) => b \in loaded'
    BY <1>2 DEF IInv, EventsInv
  <2>2. CASE e \in Others(b) \cup Metas(b, n)
    BY <1>4, <2>1, <2>2
  <2>3. CASE e \in NodeEvents(PacketsOn(b, n))
    BY <1>3, <2>1, <2>3
  <2>4. CASE e \notin Others(b) \cup Metas(b, n) \cup NodeEvents(PacketsOn(b, n))
    <3>1. content'[b][n] = content[b][n]
      BY <2>4
    <3>2. \/ Unknown(b, n)
          \/ NoneIn(events, NodeEvents(PacketsOn(b, n)))
          \/ EndsIn(events, NodeEvents(Setting(b, n, content[b][n])), NodeEvents(PacketsOn(b, n)))
      BY DEF IInv, EventsInv
    <3> QED BY <1>2, <1>3, <1>4, <2>1, <2>4, <3>1, <3>2
  <2> QED BY <2>2, <2>3, <2>4
<1>6. EventsInv'
  BY <1>5 DEF EventsInv
<1>7. HaveInv'
  BY DEF IInv, HaveInv
<1>8. ASSUME NEW b \in Believed' \ passed', InOneChannel(b)', NoneIn(notices, Deletions(b))',
             NEW n \in Nodes
      PROVE  Changing(b, n)' \/ Coming(b, n)'
  <2>1. b \in Blocks /\ b \in Believed \ passed /\ InOneChannel(b) /\ NoneIn(notices, Deletions(b))
    BY <1>1, <1>8 DEF InOneChannel
  <2>2. Changing(b, n) \/ Coming(b, n)
    BY <2>1 DEF IInv, UpToDateInv
  <2>3. CASE Reported(b, n)'
    BY <2>3 DEF Changing
  <2>4. CASE ~Reported(b, n)'
    <3>1. e \notin Others(b) \cup Metas(b, n) \cup NodeEvents(PacketsOn(b, n)) /\ ~Reported(b, n)
      BY <1>4, <2>1, <2>4
    <3>2. content'[b][n] = content[b][n]
      BY <2>1, <3>1
    <3>3. NoneIn(interacts', PacketsOn(b, n)) => NoneIn(interacts, PacketsOn(b, n))
      BY <2>1, <3>1
    <3>4. Coming(b, n) => Coming(b, n)'
      BY <3>2 DEF Coming
    <3> QED BY <2>2, <3>1, <3>3, <3>4 DEF Changing
  <2> QED BY <2>3, <2>4
<1> QED BY <1>6, <1>7, <1>8 DEF UpToDateInv
LEMMA EmergeReportStep ==
    ASSUME IInv, NEW c \in Blocks, EmergeReport(c)
    PROVE  IInv'
<1> DEFINE e == [type |-> "other", block |-> c, low |-> FALSE]
<1>1. e \in Event /\ \A b, n : e \notin Metas(b, n) /\ e \notin NodeEvents(PacketsOn(b, n))
  BY DEF Event, Metas, NodeEvents
<1>2. /\ events' = Append(events, e) /\ emerged' = emerged \ {c}
      /\ UNCHANGED <<content, loaded, emerging, sending, sent, nearest, paused, blockData,
                     nodeData, notices, interacts, view, unacked, passed, moves>>
  BY DEF EmergeReport, remoteVars, clientVars
<1> HIDE DEF e
<1>3. TypeOK'
  <2>1. events' \in Seq(Event)
    BY <1>1, <1>2, QueueTypes DEF IInv
  <2> QED BY <1>2, <2>1 DEF IInv, TypeOK
<1>4. EventsInv' /\ HaveInv' /\ UpToDateInv'
  BY <1>1, <1>2, EventAdded DEF Believed
<1> QED BY <1>3, <1>4 DEF IInv

LEMMA ChangeStep ==
    ASSUME IInv, NEW c \in Blocks, NEW m \in Nodes, NEW e \in Event, Change(c, m, e),
           e \in Others(c) \cup Metas(c, m) \cup NodeEvents(Setting(c, m, moves + 1))
    PROVE  IInv'
<1>1. /\ moves' = moves + 1 /\ moves' \in Values /\ c \in loaded
      /\ content' = [content EXCEPT ![c][m] = moves'] /\ events' = Append(events, e)
      /\ UNCHANGED <<loaded, emerging, emerged, sending, sent, nearest, paused, blockData,
                     nodeData, notices, interacts, view, unacked, passed>>
  BY Moved DEF Change, remoteVars, clientVars, IInv
<1>2. content \in [Blocks -> [Nodes -> Values]]
  BY DEF IInv, TypeOK
<1>3. /\ content' \in [Blocks -> [Nodes -> Values]] /\ content'[c][m] = moves'
      /\ \A b \in Blocks, n \in Nodes : <<b, n>> # <<c, m>> => content'[b][n] = content[b][n]
  BY <1>1, <1>2
<1>4. TypeOK'
  <2>1. events' \in Seq(Event)
    BY <1>1, QueueTypes DEF IInv
  <2> QED BY <1>1, <1>3, <2>1 DEF IInv, TypeOK
<1>5. ASSUME NEW b \in Blocks, NEW n \in Nodes
      PROVE  /\ content'[b][n] = content[b][n]
                \/ e \in Others(b) \cup Metas(b, n) \cup NodeEvents(PacketsOn(b, n))
             /\ e \in NodeEvents(PacketsOn(b, n)) => e \in NodeEvents(Setting(b, n, content'[b][n]))
             /\ e \in Metas(b, n) => b \in loaded
  <2>1. e \in NodeEvents(PacketsOn(b, n)) \/ e \in Metas(b, n) => b = c /\ n = m
    BY DEF Others, Metas, NodeEvents, Setting, PacketsOn, Packets
  <2>2. e \in NodeEvents(Setting(c, m, moves + 1)) => e \in NodeEvents(PacketsOn(c, m))
    BY DEF NodeEvents, Setting
  <2>3. e \in NodeEvents(PacketsOn(b, n)) => e \in NodeEvents(Setting(c, m, moves + 1))
    BY DEF Others, Metas, NodeEvents
  <2> QED BY <1>1, <1>3, <2>1, <2>2, <2>3
<1>6. EventsInv' /\ HaveInv' /\ UpToDateInv'
  BY <1>1, <1>5, EventAdded DEF Believed
<1> QED BY <1>4, <1>6 DEF IInv

LEMMA ChangesStep ==
    ASSUME IInv, NEW c \in Blocks, NEW m \in Nodes,
           ChangeNode(c, m) \/ ChangeMeta(c, m) \/ \E low \in BOOLEAN : ChangeBlock(c, m, low)
    PROVE  IInv'
<1>1. CASE ChangeNode(c, m)
  <2> DEFINE p == [block |-> c, node |-> m, value |-> moves + 1]
             e == [type |-> "node", change |-> p]
  <2>1. moves + 1 \in Values
    BY <1>1, Moved DEF ChangeNode, Change, IInv
  <2>2. p \in Setting(c, m, moves + 1)
    BY <2>1 DEF Setting, PacketsOn, Packets, NodeChange
  <2>3. p \in NodeChange
    BY <2>2 DEF Setting, PacketsOn, Packets
  <2>4. Change(c, m, e)
    BY <1>1 DEF ChangeNode
  <2> HIDE DEF p
  <2>5. e \in NodeEvents(Setting(c, m, moves + 1)) /\ e \in Event
    BY <2>2, <2>3 DEF NodeEvents, Event
  <2> HIDE DEF e
  <2> QED BY <2>4, <2>5, ChangeStep
<1>2. CASE ChangeMeta(c, m)
  <2> DEFINE e == [type |-> "meta", block |-> c, node |-> m]
  <2>1. e \in Metas(c, m) /\ e \in Event
    BY DEF Metas, Event
  <2>2. Change(c, m, e)
    BY <1>2 DEF ChangeMeta
  <2> HIDE DEF e
  <2> QED BY <2>1, <2>2, ChangeStep
<1>3. ASSUME NEW low \in BOOLEAN, ChangeBlock(c, m, low) PROVE IInv'
  <2> DEFINE e == [type |-> "other", block |-> c, low |-> low]
  <2>1. e \in Others(c) /\ e \in Event
    BY DEF Others, Event
  <2>2. Change(c, m, e)
    BY <1>3 DEF ChangeBlock
  <2> HIDE DEF e
  <2> QED BY <2>1, <2>2, ChangeStep
<1> QED BY <1>1, <1>2, <1>3

-----------------------------------------------------------------------------
(* Telling the client of changes.                                            *)

LEMMA MetasLoaded ==
    ASSUME IInv, NEW b, NEW n, ~NoneIn(events, Metas(b, n))
    PROVE  b \in loaded
<1>1. PICK i \in DOMAIN events : events[i] \in Metas(b, n)
  BY DEF NoneIn
<1>2. events[i] \in Event /\ events[i].type = "meta" /\ events[i].block = b /\ events[i].node = n
  BY <1>1 DEF Metas
<1>3. b \in Blocks /\ n \in Nodes
  BY <1>2, EventKinds
<1> QED BY <1>3 DEF IInv, EventsInv

\* No block is believed that was not.
LEMMA EditsType ==
    ASSUME IInv, NEW range
    PROVE  LET t == MetaHandled(range)
           IN  t \in Handled /\ \A b : Believes(t, b) => b \in Believed
<1> DEFINE s == EventsHandled(range)
           t == MetaHandled(range)
<1>1. t \in Handled /\ \A b : MetaTelling(t, s, events, b)
  BY MetasLoaded, MetaTold DEF IInv
<1>2. \A b : Believes(s, b) => b \in Believed
  BY EventsTold DEF IInv
<1> HIDE DEF s, t
<1>3. \A b : Believes(t, b) => Believes(s, b)
  BY <1>1 DEF MetaTelling
<1> QED BY <1>1, <1>2, <1>3 DEF s, t

\* What the queued events come to: b is sent again, or the packets end in what the map
\* has, or say nothing of n in b.
LEMMA EditsTold ==
    ASSUME IInv, NEW range, NEW b \in Blocks, NEW n \in Nodes,
           Believes(MetaHandled(range), b)
    PROVE  LET packets == MetaHandled(range).packets
           IN  \/ EndsIn(packets, Setting(b, n, content[b][n]), PacketsOn(b, n))
               \/ NoneIn(packets, PacketsOn(b, n)) /\ ~Reported(b, n)
<1> DEFINE s == EventsHandled(range)
           t == MetaHandled(range)
           good == Setting(b, n, content[b][n])
           on == PacketsOn(b, n)
<1>1. \A d, k : ~NoneIn(events, Metas(d, k)) => d \in loaded
  BY MetasLoaded
<1>2. MetaTelling(t, s, events, b)
  BY <1>1, MetaTold DEF IInv
<1>3. Telling(s, events, b)
  BY EventsTold DEF IInv
<1>4. /\ Believes(s, b)
      /\ NoneIn(events, Metas(b, n)) \/ EndsIn(t.packets, good, on)
      /\ NoneIn(events, Metas(b, n)) /\ NoneIn(s.packets, on) => NoneIn(t.packets, on)
      /\ EndsIn(s.packets, good, on) => EndsIn(t.packets, good, on)
  BY <1>2 DEF MetaTelling
<1>5. /\ NoneIn(events, Others(b))
      /\ NoneIn(events, NodeEvents(on)) => NoneIn(s.packets, on)
      /\ EndsIn(events, NodeEvents(good), NodeEvents(on)) => EndsIn(s.packets, good, on)
  BY <1>3, <1>4 DEF Telling
<1>6. \/ Unknown(b, n)
      \/ NoneIn(events, NodeEvents(on))
      \/ EndsIn(events, NodeEvents(good), NodeEvents(on))
  BY DEF IInv, EventsInv
<1>7. Unknown(b, n) => ~NoneIn(events, Metas(b, n))
  BY <1>5 DEF Unknown
<1>8. NoneIn(events, Metas(b, n)) /\ NoneIn(events, NodeEvents(on)) => ~Reported(b, n)
  BY <1>5 DEF Reported, Unknown
<1> HIDE DEF s, t, good, on
<1>9. \/ EndsIn(t.packets, good, on)
      \/ NoneIn(t.packets, on) /\ NoneIn(events, Metas(b, n)) /\ NoneIn(events, NodeEvents(on))
  BY <1>4, <1>5, <1>6, <1>7
<1> QED BY <1>8, <1>9 DEF t, good, on
LEMMA HandleMapEditsStep ==
    ASSUME IInv, NEW range, HandleMapEdits(range)
    PROVE  IInv'
<1> DEFINE t == MetaHandled(range)
<1>1. /\ t \in Handled /\ \A b : Believes(t, b) => b \in Believed
      /\ \A b \in Blocks, n \in Nodes : Believes(t, b) =>
            \/ EndsIn(t.packets, Setting(b, n, content[b][n]), PacketsOn(b, n))
            \/ NoneIn(t.packets, PacketsOn(b, n)) /\ ~Reported(b, n)
  BY EditsType, EditsTold
<1>2. /\ sending' = t.remote.sending /\ sent' = t.remote.sent
      /\ nearest' = t.remote.nearest /\ paused' = t.remote.paused
      /\ nodeData' = nodeData \o t.packets /\ events' = <<>>
      /\ UNCHANGED <<content, loaded, emerging, emerged, blockData, notices, interacts, view,
                     unacked, passed, moves>>
  BY DEF HandleMapEdits, Become, mapVars, clientVars
<1> HIDE DEF t
<1>3. t.remote \in RemoteClient /\ t.packets \in Seq(NodeChange) /\ nodeData \in Seq(NodeChange)
  BY <1>1, QueueTypes DEF Handled, IInv
<1>4. TypeOK'
  <2>1. nodeData' \in Seq(NodeChange)
    BY <1>2, <1>3
  <2>2. /\ sending' \subseteq Blocks /\ sent' \subseteq Blocks \ sending'
        /\ nearest' \in 0..MaxDistance + 1 /\ paused' \in BOOLEAN
    BY <1>2, <1>3 DEF RemoteClient, Near
  <2>3. events' \in Seq(Event)
    BY <1>2
  <2> QED BY <1>2, <2>1, <2>2, <2>3 DEF IInv, TypeOK
<1>5. \A b : b \in Believed' => Believes(t, b) /\ b \in Believed
  BY <1>1, <1>2 DEF Believed, Believes
<1>6. \A hit : NoneIn(events', hit)
  BY <1>2 DEF NoneIn
<1>7. EventsInv'
  BY <1>6 DEF EventsInv
<1>8. HaveInv'
  BY <1>2, <1>5 DEF IInv, HaveInv
<1>9. ASSUME NEW b \in Believed' \ passed', InOneChannel(b)', NoneIn(notices, Deletions(b))',
             NEW n \in Nodes
      PROVE  Changing(b, n)' \/ Coming(b, n)'
  <2> DEFINE good == Setting(b, n, content[b][n])
             on == PacketsOn(b, n)
  <2>1. b \in Believed \ passed /\ b \in Blocks /\ Believes(t, b) /\ NoneIn(notices, Deletions(b))
    BY <1>2, <1>5, <1>9 DEF Believed, IInv, TypeOK
  <2>2. \A hit : NoneIn(nodeData', hit) <=> NoneIn(nodeData, hit) /\ NoneIn(t.packets, hit)
    BY <1>2, <1>3, NoneJoined
  <2>3. /\ EndsIn(t.packets, good, on) => EndsIn(nodeData', good, on)
        /\ EndsIn(nodeData, good, on) /\ NoneIn(t.packets, on) => EndsIn(nodeData', good, on)
    BY <1>2, <1>3, Joined
  <2>4. good \subseteq on /\ on \subseteq Packets(b)
    BY DEF Setting, PacketsOn
  <2> HIDE DEF good, on
  <2>5. CASE EndsIn(t.packets, good, on)
    <3>1. EndsIn(nodeData', good, on)
      BY <2>3, <2>5
    <3>2. ~NoneIn(nodeData', on)
      BY <2>4, <3>1, SomeIn
    <3>3. ~NoneIn(nodeData', Packets(b))
      BY <2>4, <3>2 DEF NoneIn
    <3>4. NoneIn(blockData', Copies(b))
      BY <1>9, <3>3 DEF InOneChannel
    <3> QED BY <1>2, <3>1, <3>4 DEF Coming, good, on
  <2>6. CASE NoneIn(t.packets, on) /\ ~Reported(b, n)
    <3>1. InOneChannel(b)
      BY <1>2, <1>9, <2>2 DEF InOneChannel
    <3>2. Changing(b, n) \/ Coming(b, n)
      BY <2>1, <3>1 DEF IInv, UpToDateInv
    <3>3. ~NoneIn(interacts, on) \/ Coming(b, n)
      BY <2>6, <3>2 DEF Changing, on
    <3>4. Coming(b, n) => Coming(b, n)'
      BY <1>2, <2>2, <2>3, <2>6 DEF Coming, good, on
    <3> QED BY <1>2, <3>3, <3>4 DEF Changing, on
  <2> QED BY <1>1, <2>1, <2>5, <2>6 DEF good, on
<1>10. UpToDateInv'
  BY <1>9 DEF UpToDateInv
<1> QED BY <1>4, <1>7, <1>8, <1>10 DEF IInv

-----------------------------------------------------------------------------
(* The server's packet handlers.                                             *)

LEMMA HandleNoticeStep ==
    ASSUME IInv, HandleNotice
    PROVE  IInv'
<1> DEFINE m == Head(notices)
           r == IF m.type = "got" THEN GotBlocks(Remote, m.blocks)
                ELSE SetBlocksNotSent(Remote, m.blocks)
<1>1. /\ notices \in Seq(Notice) /\ notices # <<>> /\ m \in Notice /\ notices' = Tail(notices)
      /\ notices' \in Seq(Notice)
      /\ \A hit : NoneIn(notices, hit) <=> m \notin hit /\ NoneIn(notices', hit)
  <2>1. notices \in Seq(Notice) /\ notices # <<>> /\ notices' = Tail(notices)
    BY QueueTypes DEF HandleNotice, IInv
  <2>2. Head(notices) \in Notice /\ Tail(notices) \in Seq(Notice)
    BY <2>1
  <2>3. \A hit : NoneIn(notices, hit) <=> Head(notices) \notin hit /\ NoneIn(Tail(notices), hit)
    BY <2>1, NoneAfterFirst
  <2> QED BY <2>1, <2>2, <2>3
<1>2. /\ sending' = r.sending /\ sent' = r.sent /\ nearest' = r.nearest /\ paused' = r.paused
      /\ UNCHANGED <<content, loaded, emerging, emerged, events, blockData, nodeData, interacts,
                     view, unacked, passed, moves>>
  BY DEF HandleNotice, Become, mapVars, clientVars
<1>3. m.blocks \in SUBSET Blocks /\ m.type \in {"got", "deleted"}
  BY <1>1 DEF Notice
<1>4. /\ r \in RemoteClient /\ Believed' \subseteq Believed
      /\ m.type = "deleted" => \A b \in m.blocks : b \notin Believed'
  <2>1. Remote \in RemoteClient /\ Remote.sending = sending /\ Remote.sent = sent
    BY RemoteType DEF IInv, Remote
  <2> HIDE DEF m
  <2>2. CASE m.type = "got"
    <3> DEFINE q == GotBlocks(Remote, m.blocks)
    <3>1. q \in RemoteClient /\ q.sending \cup q.sent \subseteq Remote.sending \cup Remote.sent
      BY <1>3, <2>1, Got
    <3>2. r = q
      BY <2>2
    <3> HIDE DEF q, r
    <3> QED BY <1>2, <2>1, <2>2, <3>1, <3>2 DEF Believed
  <2>3. CASE m.type = "deleted"
    <3> DEFINE q == SetBlocksNotSent(Remote, m.blocks)
    <3>1. /\ q \in RemoteClient /\ q.sending = Remote.sending \ m.blocks
          /\ q.sent = Remote.sent \ m.blocks
      BY <1>3, <2>1, NoneOfThemSent
    <3>2. r = q
      BY <2>3
    <3> HIDE DEF q, r
    <3> QED BY <1>2, <2>1, <3>1, <3>2 DEF Believed
  <2> QED BY <1>3, <2>2, <2>3 DEF m
<1>5. \A b \in Believed' : m \notin Deletions(b)
  BY <1>4 DEF Deletions
<1> HIDE DEF m, r
<1>6. TypeOK'
  <2>1. /\ sending' \subseteq Blocks /\ sent' \subseteq Blocks \ sending'
        /\ nearest' \in 0..MaxDistance + 1 /\ paused' \in BOOLEAN
    BY <1>2, <1>4 DEF RemoteClient, Near
  <2> QED BY <1>1, <1>2, <2>1 DEF IInv, TypeOK, Notice
<1>7. EventsInv'
  BY <1>2, EventsKept DEF IInv
<1>8. HaveInv' /\ UpToDateInv'
  BY <1>1, <1>2, <1>4, <1>5, NothingNew
<1> QED BY <1>6, <1>7, <1>8 DEF IInv

\* The block is sent again whole, or as the server handles the event.
LEMMA InteractBelieved ==
    ASSUME TypeOK, NEW accepted \in BOOLEAN, NEW resend \in BOOLEAN,
           HandleInteract(accepted, resend)
    PROVE  /\ sending' \subseteq Blocks /\ sent' \subseteq Blocks \ sending'
           /\ nearest' \in Near /\ paused' \in BOOLEAN
           /\ Believed' \subseteq Believed
           /\ ~accepted => Head(interacts).block \notin Believed'
<1> DEFINE b == Head(interacts).block
           again == ~accepted \/ resend
           r == IF again THEN SetBlockNotSent(Remote, b, FALSE) ELSE ResendBlockIfOnWire(Remote, b)
<1>1. b \in Blocks /\ FALSE \in BOOLEAN
  <2>1. interacts \in Seq(NodeChange) /\ interacts # <<>>
    BY QueueTypes DEF HandleInteract
  <2>2. Head(interacts) \in NodeChange
    BY <2>1
  <2> QED BY <2>2 DEF NodeChange
<1>2. sending' = r.sending /\ sent' = r.sent /\ nearest' = r.nearest /\ paused' = r.paused
  BY DEF HandleInteract, Become
<1>3. Remote \in RemoteClient /\ Remote.sending = sending /\ Remote.sent = sent
  BY RemoteType DEF Remote
<1> HIDE DEF b
<1>4. CASE again
  <2> DEFINE q == SetBlockNotSent(Remote, b, FALSE)
  <2>1. q \in RemoteClient /\ q.sending = Remote.sending \ {b} /\ q.sent = Remote.sent \ {b}
    BY <1>1, <1>3, NotSent
  <2>2. r = q
    BY <1>4
  <2> HIDE DEF q, r
  <2> QED BY <1>2, <1>3, <2>1, <2>2 DEF RemoteClient, Believed, b
<1>5. CASE ~again
  <2> DEFINE q == ResendBlockIfOnWire(Remote, b)
  <2>1. q \in RemoteClient /\ q.sending = Remote.sending \ {b} /\ q.sent \subseteq Remote.sent
    BY <1>1, <1>3, Resent
  <2>2. r = q
    BY <1>5
  <2> HIDE DEF q, r
  <2> QED BY <1>2, <1>3, <1>5, <2>1, <2>2 DEF RemoteClient, Believed
<1> QED BY <1>4, <1>5

LEMMA HandleInteractStep ==
    ASSUME IInv, NEW accepted \in BOOLEAN, NEW resend \in BOOLEAN,
           HandleInteract(accepted, resend)
    PROVE  IInv'
<1> DEFINE c == Head(interacts)
<1>1. /\ c \in NodeChange /\ interacts' = Tail(interacts) /\ interacts' \in Seq(NodeChange)
      /\ \A hit : NoneIn(interacts, hit) <=> c \notin hit /\ NoneIn(interacts', hit)
  <2>1. interacts \in Seq(NodeChange) /\ interacts # <<>> /\ interacts' = Tail(interacts)
    BY QueueTypes DEF HandleInteract, IInv
  <2>2. Head(interacts) \in NodeChange /\ Tail(interacts) \in Seq(NodeChange)
    BY <2>1
  <2>3. \A hit : NoneIn(interacts, hit)
                    <=> Head(interacts) \notin hit /\ NoneIn(Tail(interacts), hit)
    BY <2>1, NoneAfterFirst
  <2> QED BY <2>1, <2>2, <2>3
<1>2. /\ content' = IF accepted THEN [content EXCEPT ![c.block][c.node] = c.value] ELSE content
      /\ events' = IF accepted THEN Append(events, [type |-> "node", change |-> c]) ELSE events
      /\ UNCHANGED <<loaded, emerging, emerged, blockData, nodeData, notices, view, unacked,
                     passed, moves>>
  BY DEF HandleInteract, clientVars
<1>3. /\ sending' \subseteq Blocks /\ sent' \subseteq Blocks \ sending'
      /\ nearest' \in 0..MaxDistance + 1 /\ paused' \in BOOLEAN
      /\ Believed' \subseteq Believed
      /\ ~accepted => c.block \notin Believed'
  BY InteractBelieved DEF IInv, Near
<1>4. c.block \in Blocks /\ c.node \in Nodes /\ c.value \in Values
  BY <1>1 DEF NodeChange
<1> HIDE DEF c
<1>5. CASE accepted
  <2> DEFINE e == [type |-> "node", change |-> c]
  <2>1. e \in Event /\ e.type = "node" /\ e.change = c
    BY <1>1 DEF Event
  <2>2. \A b, n : e \notin Others(b) /\ e \notin Metas(b, n)
    BY <2>1 DEF Others, Metas
  <2>3. \A cs : e \in NodeEvents(cs) <=> c \in cs
    BY <2>1 DEF NodeEvents
  <2>4. events' = Append(events, e) /\ content' = [content EXCEPT ![c.block][c.node] = c.value]
    BY <1>2, <1>5
  <2> HIDE DEF e
  <2>5. content \in [Blocks -> [Nodes -> Values]]
    BY DEF IInv, TypeOK
  <2>6. /\ content' \in [Blocks -> [Nodes -> Values]] /\ content'[c.block][c.node] = c.value
        /\ \A b \in Blocks, n \in Nodes :
              <<b, n>> # <<c.block, c.node>> => content'[b][n] = content[b][n]
    BY <1>4, <2>4, <2>5
  <2>7. TypeOK'
    <3>1. events' \in Seq(Event)
      BY <2>1, <2>4, QueueTypes DEF IInv
    <3> QED BY <1>1, <1>2, <1>3, <2>6, <3>1 DEF IInv, TypeOK
  <2>8. \A b \in Blocks, n \in Nodes :
           /\ c \in PacketsOn(b, n) <=> b = c.block /\ n = c.node
           /\ c \in PacketsOn(b, n) => c \in Setting(b, n, content'[b][n])
    BY <1>1, <2>6 DEF PacketsOn, Packets, Setting
  <2>9. EventsInv' /\ HaveInv' /\ UpToDateInv'
    BY <1>1, <1>2, <1>3, <2>1, <2>2, <2>3, <2>4, <2>6, <2>8, EventAdded
  <2> QED BY <2>7, <2>9 DEF IInv
<1>6. CASE ~accepted
  <2>1. content' = content /\ events' = events /\ c.block \notin Believed'
    BY <1>2, <1>3, <1>6
  <2>2. TypeOK'
    BY <1>1, <1>2, <1>3, <2>1 DEF IInv, TypeOK
  <2>3. EventsInv'
    BY <1>2, <2>1, EventsKept DEF IInv
  <2>4. HaveInv'
    BY <1>2, <1>3 DEF IInv, HaveInv
  <2>5. ASSUME NEW b \in Believed' \ passed', InOneChannel(b)', NoneIn(notices, Deletions(b))',
               NEW n \in Nodes
        PROVE  Changing(b, n)' \/ Coming(b, n)'
    <3>1. b \in Believed \ passed /\ InOneChannel(b) /\ NoneIn(notices, Deletions(b))
      BY <1>2, <1>3, <2>5 DEF InOneChannel
    <3>2. Changing(b, n) \/ Coming(b, n)
      BY <3>1 DEF IInv, UpToDateInv
    <3>3. c \notin PacketsOn(b, n)
      BY <2>1, <2>5 DEF PacketsOn, Packets
    <3> QED BY <1>1, <1>2, <2>1, <3>2, <3>3 DEF Changing, Reported, Unknown, Coming
  <2>6. UpToDateInv'
    BY <2>5 DEF UpToDateInv
  <2> QED BY <2>2, <2>3, <2>4, <2>6 DEF IInv
<1> QED BY <1>5, <1>6
-----------------------------------------------------------------------------
(* The client.                                                               *)

\* A block that has not been passed arrives after all changes sent to it before.
LEMMA HandleBlockDataStep ==
    ASSUME IInv, HandleBlockData
    PROVE  IInv'
<1> DEFINE m == Head(blockData)
<1>1. /\ m \in Copy /\ blockData \in Seq(Copy) /\ blockData # <<>>
      /\ blockData' = Tail(blockData) /\ blockData' \in Seq(Copy)
      /\ \A hit : NoneIn(blockData, hit) <=> m \notin hit /\ NoneIn(blockData', hit)
  <2>1. blockData \in Seq(Copy) /\ blockData # <<>> /\ blockData' = Tail(blockData)
    BY QueueTypes DEF HandleBlockData, IInv
  <2>2. Head(blockData) \in Copy /\ Tail(blockData) \in Seq(Copy)
    BY <2>1
  <2>3. \A hit : NoneIn(blockData, hit)
                    <=> Head(blockData) \notin hit /\ NoneIn(Tail(blockData), hit)
    BY <2>1, NoneAfterFirst
  <2> QED BY <2>1, <2>2, <2>3
<1>0. \A good, hit : EndsIn(blockData, good, hit) =>
          EndsIn(blockData', good, hit) \/ (m \in good /\ NoneIn(blockData', hit))
  BY <1>1, FirstTaken
<1>2. /\ view' = [view EXCEPT ![m.block] = m.nodes]
      /\ unacked' = [unacked EXCEPT ![m.block] = @ + 1]
      /\ passed' = Crossed(m.block, nodeData)
      /\ UNCHANGED <<content, loaded, emerging, emerged, events, sending, sent, nearest, paused,
                     nodeData, notices, interacts, moves>>
  BY DEF HandleBlockData, mapVars, remoteVars
<1>3. m.block \in Blocks /\ m.nodes \in [Nodes -> Values]
  BY <1>1 DEF Copy
<1> HIDE DEF m
<1>4. /\ passed \subseteq passed' /\ passed' \subseteq Blocks
      /\ m.block \notin passed' => NoneIn(nodeData, Packets(m.block))
  BY <1>2, <1>3 DEF Crossed, NoneIn, Packets, IInv, TypeOK
<1>5. /\ view' \in [Blocks -> [Nodes -> Values] \cup {Absent}] /\ view'[m.block] = m.nodes
      /\ \A b \in Blocks : b # m.block => view'[b] = view[b]
  BY <1>2, <1>3 DEF IInv, TypeOK
<1>6. TypeOK'
  <2>1. unacked' \in [Blocks -> Nat]
    BY <1>2, <1>3 DEF IInv, TypeOK
  <2> QED BY <1>1, <1>2, <1>4, <1>5, <2>1 DEF IInv, TypeOK, Copy
<1>7. EventsInv'
  BY <1>2, EventsKept DEF IInv
<1>8. Believed' = Believed /\ Believed \subseteq Blocks
  BY <1>2 DEF Believed, IInv, TypeOK
<1>9. \A b : b # m.block => NoneIn(blockData', Copies(b)) <=> NoneIn(blockData, Copies(b))
  <2>1. \A b : b # m.block => m \notin Copies(b)
    BY DEF Copies
  <2> QED BY <1>1, <2>1
<1>10. HaveInv'
  <2>1. view'[m.block] # Absent
    BY <1>3, <1>5, NotAbsent
  <2> QED BY <1>2, <1>5, <1>8, <1>9, <2>1 DEF IInv, HaveInv
<1>11. ASSUME NEW b \in Believed' \ passed', InOneChannel(b)', NoneIn(notices, Deletions(b))',
              NEW n \in Nodes
       PROVE  Changing(b, n)' \/ Coming(b, n)'
  <2> DEFINE right == Showing(b, n, content[b][n])
  <2>0. b \in Believed \ passed /\ b \in Blocks /\ NoneIn(notices, Deletions(b))
    BY <1>2, <1>4, <1>8, <1>11
  <2>1. right \subseteq Copies(b) /\ \A x \in right : x.block = b /\ x.nodes[n] = content[b][n]
    BY DEF Showing, Copies
  <2>2. CASE b # m.block
    <3>1. InOneChannel(b)
      BY <1>2, <1>9, <1>11, <2>2 DEF InOneChannel
    <3>2. Changing(b, n) \/ Coming(b, n)
      BY <2>0, <3>1 DEF IInv, UpToDateInv
    <3>3. EndsIn(blockData, right, Copies(b)) => EndsIn(blockData', right, Copies(b))
      BY <1>0, <2>1, <2>2
    <3>4. Coming(b, n) => Coming(b, n)'
      BY <1>2, <1>5, <1>9, <2>0, <2>2, <3>3 DEF Coming
    <3> QED BY <1>2, <3>2, <3>4 DEF Changing, Reported, Unknown
  <2>3. CASE b = m.block
    <3>1. NoneIn(nodeData, Packets(b))
      BY <1>4, <1>11, <2>3
    <3>2. Changing(b, n) \/ Coming(b, n)
      BY <2>0, <3>1 DEF IInv, UpToDateInv, InOneChannel
    <3>3. m \in Copies(b)
      BY <1>1, <2>3 DEF Copies
    <3>4. Coming(b, n) => EndsIn(blockData, right, Copies(b))
      BY <1>1, <3>3 DEF Coming
    <3>5. NoneIn(nodeData, PacketsOn(b, n))
      BY <3>1 DEF NoneIn, PacketsOn
    <3>6. m \in right => view'[b][n] = content[b][n]
      BY <1>5, <2>1, <2>3
    <3>7. Coming(b, n) => Coming(b, n)'
      BY <1>0, <1>2, <3>4, <3>5, <3>6 DEF Coming
    <3> QED BY <1>2, <3>2, <3>7 DEF Changing, Reported, Unknown
  <2> QED BY <2>2, <2>3
<1>12. UpToDateInv'
  BY <1>11 DEF UpToDateInv
<1> QED BY <1>6, <1>7, <1>10, <1>12 DEF IInv

\* So does a change: the client has the block by then.
LEMMA HandleNodeDataStep ==
    ASSUME IInv, HandleNodeData
    PROVE  IInv'
<1> DEFINE c == Head(nodeData)
<1>1. /\ c \in NodeChange /\ nodeData \in Seq(NodeChange) /\ nodeData # <<>>
      /\ nodeData' = Tail(nodeData) /\ nodeData' \in Seq(NodeChange)
      /\ \A hit : NoneIn(nodeData, hit) <=> c \notin hit /\ NoneIn(nodeData', hit)
  <2>1. nodeData \in Seq(NodeChange) /\ nodeData # <<>> /\ nodeData' = Tail(nodeData)
    BY QueueTypes DEF HandleNodeData, IInv
  <2>2. Head(nodeData) \in NodeChange /\ Tail(nodeData) \in Seq(NodeChange)
    BY <2>1
  <2>3. \A hit : NoneIn(nodeData, hit)
                    <=> Head(nodeData) \notin hit /\ NoneIn(Tail(nodeData), hit)
    BY <2>1, NoneAfterFirst
  <2> QED BY <2>1, <2>2, <2>3
<1>0. \A good, hit : EndsIn(nodeData, good, hit) =>
          EndsIn(nodeData', good, hit) \/ (c \in good /\ NoneIn(nodeData', hit))
  BY <1>1, FirstTaken
<1>2. /\ view' = IF view[c.block] = Absent THEN view
                 ELSE [view EXCEPT ![c.block][c.node] = c.value]
      /\ passed' = Crossed(c.block, blockData)
      /\ UNCHANGED <<content, loaded, emerging, emerged, events, sending, sent, nearest, paused,
                     blockData, notices, interacts, unacked, moves>>
  BY DEF HandleNodeData, mapVars, remoteVars
<1>3. c.block \in Blocks /\ c.node \in Nodes /\ c.value \in Values
  BY <1>1 DEF NodeChange
<1> HIDE DEF c
<1>4. /\ passed \subseteq passed' /\ passed' \subseteq Blocks
      /\ c.block \notin passed' => NoneIn(blockData, Copies(c.block))
  BY <1>2, <1>3 DEF Crossed, NoneIn, Copies, IInv, TypeOK
<1>5. view \in [Blocks -> [Nodes -> Values] \cup {Absent}]
  BY DEF IInv, TypeOK
<1>6. /\ view' \in [Blocks -> [Nodes -> Values] \cup {Absent}]
      /\ \A b \in Blocks : b # c.block => view'[b] = view[b]
      /\ view[c.block] # Absent =>
            /\ view'[c.block] \in [Nodes -> Values]
            /\ \A n \in Nodes : view'[c.block][n] = IF n = c.node THEN c.value ELSE view[c.block][n]
  <2>1. CASE view[c.block] = Absent
    BY <1>2, <1>5, <2>1
  <2>2. CASE view[c.block] # Absent
    <3>1. view[c.block] \in [Nodes -> Values]
      BY <1>3, <1>5, <2>2
    <3> DEFINE f == [view[c.block] EXCEPT ![c.node] = c.value]
    <3>2. /\ f \in [Nodes -> Values]
          /\ \A n \in Nodes : f[n] = IF n = c.node THEN c.value ELSE view[c.block][n]
      BY <1>3, <3>1
    <3>3. view' = [view EXCEPT ![c.block] = f]
      BY <1>2, <2>2
    <3> HIDE DEF f
    <3> QED BY <1>3, <1>5, <3>2, <3>3
  <2> QED BY <2>1, <2>2
<1>7. TypeOK'
  BY <1>1, <1>2, <1>4, <1>6 DEF IInv, TypeOK
<1>8. EventsInv'
  BY <1>2, EventsKept DEF IInv
<1>9. Believed' = Believed /\ Believed \subseteq Blocks
  BY <1>2 DEF Believed, IInv, TypeOK
<1>10. HaveInv'
  <2>1. \A b \in Blocks : view[b] # Absent => view'[b] # Absent
    BY <1>6, NotAbsent
  <2> QED BY <1>2, <1>9, <2>1 DEF IInv, HaveInv
<1>11. ASSUME NEW b \in Believed' \ passed', InOneChannel(b)', NoneIn(notices, Deletions(b))',
              NEW n \in Nodes
       PROVE  Changing(b, n)' \/ Coming(b, n)'
  <2> DEFINE good == Setting(b, n, content[b][n])
             on == PacketsOn(b, n)
  <2>0. b \in Believed \ passed /\ b \in Blocks /\ NoneIn(notices, Deletions(b))
    BY <1>2, <1>4, <1>9, <1>11
  <2>1. good \subseteq on /\ \A x \in good : x.node = n /\ x.value = content[b][n]
    BY DEF Setting, PacketsOn
  <2>2. CASE b # c.block
    <3>1. c \notin Packets(b) /\ c \notin on
      BY <2>2 DEF Packets, PacketsOn
    <3>2. InOneChannel(b)
      BY <1>1, <1>2, <1>11, <3>1 DEF InOneChannel
    <3>3. Changing(b, n) \/ Coming(b, n)
      BY <2>0, <3>2 DEF IInv, UpToDateInv
    <3>4. EndsIn(nodeData, good, on) => EndsIn(nodeData', good, on)
      BY <1>0, <2>1, <3>1
    <3>5. NoneIn(nodeData', on) <=> NoneIn(nodeData, on)
      BY <1>1, <3>1
    <3>6. Coming(b, n) => Coming(b, n)'
      BY <1>2, <1>6, <2>0, <2>2, <3>4, <3>5 DEF Coming
    <3> QED BY <1>2, <3>3, <3>6 DEF Changing, Reported, Unknown
  <2>3. CASE b = c.block
    <3>1. NoneIn(blockData, Copies(b))
      BY <1>4, <1>11, <2>3
    <3>2. view[b] # Absent
      BY <2>0, <3>1 DEF IInv, HaveInv
    <3>3. Changing(b, n) \/ Coming(b, n)
      BY <2>0, <3>1 DEF IInv, UpToDateInv, InOneChannel
    <3>4. ~EndsIn(blockData, Showing(b, n, content[b][n]), Copies(b))
      BY <3>1, SomeIn DEF Showing
    <3>5. CASE EndsIn(nodeData', good, on)
      BY <1>2, <3>1, <3>5 DEF Coming
    <3>6. CASE c \in good /\ NoneIn(nodeData', on)
      <4>1. view'[b][n] = content[b][n]
        BY <1>6, <2>1, <2>3, <3>2, <3>6
      <4> QED BY <1>2, <3>1, <3>6, <4>1 DEF Coming
    <3>7. CASE NoneIn(nodeData, on) /\ view[b][n] = content[b][n]
      <4>1. c \notin on /\ NoneIn(nodeData', on)
        BY <1>1, <3>7
      <4>2. c.node # n
        BY <1>1, <2>3, <4>1 DEF PacketsOn, Packets
      <4>3. view'[b][n] = content[b][n]
        BY <1>6, <2>3, <3>2, <3>7, <4>2
      <4> QED BY <1>2, <3>1, <4>1, <4>3 DEF Coming
    <3>8. CASE Changing(b, n)
      BY <1>2, <3>8 DEF Changing, Reported, Unknown
    <3>9. Coming(b, n) => EndsIn(nodeData, good, on)
                          \/ (NoneIn(nodeData, on) /\ view[b][n] = content[b][n])
      BY <3>4 DEF Coming
    <3> HIDE DEF good, on
    <3> QED BY <1>0, <3>3, <3>5, <3>6, <3>7, <3>8, <3>9
  <2> QED BY <2>2, <2>3
<1>12. UpToDateInv'
  BY <1>11 DEF UpToDateInv
<1> QED BY <1>7, <1>8, <1>10, <1>12 DEF IInv
LEMMA SendGotBlocksStep ==
    ASSUME IInv, NEW bs \in SUBSET Blocks, SendGotBlocks(bs)
    PROVE  IInv'
<1> DEFINE m == [type |-> "got", blocks |-> bs]
<1>1. m \in Notice /\ \A b : m \notin Deletions(b)
  BY DEF Notice, Deletions
<1>2. /\ notices' = Append(notices, m)
      /\ unacked' = [b \in Blocks |-> IF b \in bs THEN unacked[b] - 1 ELSE unacked[b]]
      /\ \A b \in bs : unacked[b] > 0
      /\ UNCHANGED <<content, loaded, emerging, emerged, events, sending, sent, nearest, paused,
                     blockData, nodeData, interacts, view, passed, moves>>
  BY DEF SendGotBlocks, mapVars, remoteVars
<1> HIDE DEF m
<1>3. notices \in Seq(Notice) /\ notices' \in Seq(Notice)
  BY <1>1, <1>2, QueueTypes DEF IInv
<1>4. \A b : NoneIn(notices', Deletions(b)) <=> NoneIn(notices, Deletions(b))
  BY <1>1, <1>2, <1>3, NoneAtEnd
<1>5. TypeOK'
  <2>1. unacked' \in [Blocks -> Nat]
    <3>1. \A b \in Blocks : unacked[b] \in Nat
      BY DEF IInv, TypeOK
    <3>2. \A b \in Blocks : (IF b \in bs THEN unacked[b] - 1 ELSE unacked[b]) \in Nat
      BY <1>2, <3>1
    <3> QED BY <1>2, <3>2
  <2> QED BY <1>2, <1>3, <2>1 DEF IInv, TypeOK, Notice
<1>6. HaveInv' /\ UpToDateInv'
  BY <1>2, <1>4, NothingNew DEF Believed
<1>7. EventsInv'
  BY <1>2, EventsKept DEF IInv
<1> QED BY <1>5, <1>6, <1>7 DEF IInv

\* What the client has unloaded is on its way to the server.
LEMMA ClientUnloadStep ==
    ASSUME IInv, NEW bs \in SUBSET Blocks, ClientUnload(bs)
    PROVE  IInv'
<1> DEFINE m == [type |-> "deleted", blocks |-> bs]
<1>1. m \in Notice /\ \A b : m \in Deletions(b) <=> b \in bs
  BY DEF Notice, Deletions
<1>2. /\ notices' = Append(notices, m)
      /\ view' = [b \in Blocks |-> IF b \in bs THEN Absent ELSE view[b]]
      /\ moves' \in Values
      /\ UNCHANGED <<content, loaded, emerging, emerged, events, sending, sent, nearest, paused,
                     blockData, nodeData, interacts, unacked, passed>>
  BY Moved DEF ClientUnload, mapVars, remoteVars, IInv
<1> HIDE DEF m
<1>3. notices \in Seq(Notice) /\ notices' \in Seq(Notice)
  BY <1>1, <1>2, QueueTypes DEF IInv
<1>4. \A b : NoneIn(notices', Deletions(b)) <=> NoneIn(notices, Deletions(b)) /\ b \notin bs
  BY <1>1, <1>2, <1>3, NoneAtEnd
<1>5. /\ view' \in [Blocks -> [Nodes -> Values] \cup {Absent}]
      /\ \A b \in Blocks : b \notin bs => view'[b] = view[b]
  BY <1>2 DEF IInv, TypeOK
<1>6. TypeOK'
  BY <1>2, <1>3, <1>5 DEF IInv, TypeOK, Notice
<1>7. EventsInv'
  BY <1>2, EventsKept DEF IInv
<1>8. Believed' = Believed /\ Believed \subseteq Blocks
  BY <1>2 DEF Believed, IInv, TypeOK
<1>9. HaveInv'
  BY <1>2, <1>4, <1>5, <1>8 DEF IInv, HaveInv
<1>10. ASSUME NEW b \in Believed' \ passed', InOneChannel(b)', NoneIn(notices, Deletions(b))',
              NEW n \in Nodes
       PROVE  Changing(b, n)' \/ Coming(b, n)'
  <2>1. /\ b \in Believed \ passed /\ b \in Blocks /\ InOneChannel(b)
        /\ NoneIn(notices, Deletions(b)) /\ b \notin bs
    BY <1>2, <1>4, <1>8, <1>10 DEF InOneChannel
  <2>2. Changing(b, n) \/ Coming(b, n)
    BY <2>1 DEF IInv, UpToDateInv
  <2>3. view'[b] = view[b]
    BY <1>5, <2>1
  <2> QED BY <1>2, <2>2, <2>3 DEF Changing, Reported, Unknown, Coming
<1>11. UpToDateInv'
  BY <1>10 DEF UpToDateInv
<1> QED BY <1>6, <1>7, <1>9, <1>11 DEF IInv

\* The interaction is on its way to the server, which sends the block or the change.
LEMMA PredictStep ==
    ASSUME IInv, NEW d \in Blocks, NEW m \in Nodes, Predict(d, m)
    PROVE  IInv'
<1> DEFINE c == [block |-> d, node |-> m, value |-> moves']
           f == [view[d] EXCEPT ![m] = moves']
<1>1. moves' \in Values
  BY Moved DEF Predict, IInv
<1>2. c \in NodeChange /\ c.block = d /\ c.node = m
  BY <1>1 DEF NodeChange
<1>3. /\ interacts' = Append(interacts, c) /\ view' = [view EXCEPT ![d] = f]
      /\ view[d] # Absent
      /\ UNCHANGED <<content, loaded, emerging, emerged, events, sending, sent, nearest, paused,
                     blockData, nodeData, notices, unacked, passed>>
  BY DEF Predict, mapVars, remoteVars
<1>4. view \in [Blocks -> [Nodes -> Values] \cup {Absent}]
  BY DEF IInv, TypeOK
<1>5. f \in [Nodes -> Values] /\ \A n \in Nodes : n # m => f[n] = view[d][n]
  <2>1. view[d] \in [Nodes -> Values]
    BY <1>3, <1>4
  <2> QED BY <1>1, <2>1
<1> HIDE DEF c, f
<1>6. /\ view' \in [Blocks -> [Nodes -> Values] \cup {Absent}] /\ view'[d] = f
      /\ \A b \in Blocks : b # d => view'[b] = view[b]
  BY <1>3, <1>4, <1>5
<1>7. interacts \in Seq(NodeChange) /\ interacts' \in Seq(NodeChange)
  BY <1>2, <1>3, QueueTypes DEF IInv
<1>8. \A hit : NoneIn(interacts', hit) <=> NoneIn(interacts, hit) /\ c \notin hit
  BY <1>2, <1>3, <1>7, NoneAtEnd
<1>9. TypeOK'
  BY <1>1, <1>3, <1>6, <1>7 DEF IInv, TypeOK
<1>10. EventsInv'
  BY <1>3, EventsKept DEF IInv
<1>11. Believed' = Believed /\ Believed \subseteq Blocks
  BY <1>3 DEF Believed, IInv, TypeOK
<1>12. HaveInv'
  <2>1. view'[d] # Absent
    BY <1>5, <1>6, NotAbsent
  <2> QED BY <1>3, <1>6, <1>11, <2>1 DEF IInv, HaveInv
<1>13. ASSUME NEW b \in Believed' \ passed', InOneChannel(b)', NoneIn(notices, Deletions(b))',
              NEW n \in Nodes
       PROVE  Changing(b, n)' \/ Coming(b, n)'
  <2>1. CASE b = d /\ n = m
    <3>1. c \in PacketsOn(b, n)
      BY <1>2, <2>1 DEF PacketsOn, Packets
    <3> QED BY <1>8, <3>1 DEF Changing
  <2>2. CASE ~(b = d /\ n = m)
    <3>1. b \in Believed \ passed /\ b \in Blocks /\ InOneChannel(b) /\ NoneIn(notices, Deletions(b))
      BY <1>3, <1>11, <1>13 DEF InOneChannel
    <3>2. Changing(b, n) \/ Coming(b, n)
      BY <3>1 DEF IInv, UpToDateInv
    <3>3. view'[b][n] = view[b][n]
      BY <1>5, <1>6, <2>2, <3>1
    <3> QED BY <1>3, <1>8, <3>2, <3>3 DEF Changing, Reported, Unknown, Coming
  <2> QED BY <2>1, <2>2
<1>14. UpToDateInv'
  BY <1>13 DEF UpToDateInv
<1> QED BY <1>9, <1>10, <1>12, <1>14 DEF IInv

-----------------------------------------------------------------------------
(* The theorems.                                                             *)

LEMMA NextInvariant ==
    IInv /\ [Next]_vars => IInv'
<1> SUFFICES ASSUME IInv, [Next]_vars PROVE IInv'
  OBVIOUS
<1>1. ASSUME NEW restart \in BOOLEAN, SendBlocks(restart) PROVE IInv'
  BY <1>1, SendBlocksStep
<1>2. CASE PauseOver
  BY <1>2, PauseOverStep
<1>3. ASSUME NEW b \in Blocks, SendBlock(b) \/ Emerge(b) \/ EmergeReport(b) \/ ServerUnload(b)
      PROVE  IInv'
  BY <1>3, SendBlockStep, EmergeStep, EmergeReportStep, ServerUnloadStep
<1>4. ASSUME NEW b \in Blocks, NEW n \in Nodes,
             ChangeNode(b, n) \/ ChangeMeta(b, n) \/ \E low \in BOOLEAN : ChangeBlock(b, n, low)
      PROVE  IInv'
  BY <1>4, ChangesStep
<1>5. ASSUME NEW range \in Ranges, HandleMapEdits(range) PROVE IInv'
  BY <1>5, HandleMapEditsStep
<1>6. CASE HandleNotice
  BY <1>6, HandleNoticeStep
<1>7. ASSUME NEW accepted \in BOOLEAN, NEW resend \in BOOLEAN, HandleInteract(accepted, resend)
      PROVE  IInv'
  BY <1>7, HandleInteractStep
<1>8. CASE HandleBlockData
  BY <1>8, HandleBlockDataStep
<1>9. CASE HandleNodeData
  BY <1>9, HandleNodeDataStep
<1>10. ASSUME NEW bs \in SUBSET Blocks, SendGotBlocks(bs) \/ ClientUnload(bs) PROVE IInv'
  BY <1>10, SendGotBlocksStep, ClientUnloadStep
<1>11. ASSUME NEW b \in Blocks, NEW n \in Nodes, Predict(b, n) PROVE IInv'
  BY <1>11, PredictStep
<1>12. CASE UNCHANGED vars
  BY <1>12 DEF vars, mapVars, remoteVars, clientVars, IInv, TypeOK, EventsInv, Unknown, HaveInv,
               UpToDateInv, InOneChannel, Changing, Reported, Coming, Believed
<1> QED BY <1>1, <1>2, <1>3, <1>4, <1>5, <1>6, <1>7, <1>8, <1>9, <1>10, <1>11, <1>12
        DEF Next, ServerNext, ClientNext, Sending

\* Whatever a client is told, loses and does, the server's picture of it is right: a
\* block that is not sent again is there, on the way or reported as unloaded, and each
\* of its nodes is shown as the map has it, or will be by what is under way.
THEOREM Invariant ==
    Spec => []IInv
<1> QED BY InitInvariant, NextInvariant, PTL DEF Spec

\* The server's and the client's state, the queues between them and the scan for blocks
\* have their types: no block is both being sent and sent, and m_nearest_unsent_d stays
\* within the range that is scanned.
THEOREM TypeCorrect ==
    Spec => []TypeOK
<1>1. IInv => TypeOK
  BY DEF IInv
<1> QED BY <1>1, Invariant, PTL

\* A client is left with an old copy of a block that m_blocks_sent has only when a change
\* of a node passed a copy of that block on the way.
THEOREM OnlyPassed ==
    Spec => []OnlyPassedBlocksAreStale
<1>1. IInv => OnlyPassedBlocksAreStale
  <2> SUFFICES ASSUME IInv, NEW b \in sent \ passed, Quiet(b) PROVE view[b] = content[b]
    BY DEF OnlyPassedBlocksAreStale
  <2>1. /\ NoneIn(blockData, Copies(b)) /\ NoneIn(nodeData, Packets(b))
        /\ NoneIn(notices, Deletions(b))
    BY DEF Quiet, NoneIn, Copies, Packets, Deletions
  <2>2. b \in Believed \ passed /\ b \in Blocks
    BY DEF Believed, IInv, TypeOK
  <2>3. view[b] # Absent
    BY <2>1, <2>2 DEF IInv, HaveInv
  <2>4. content[b] \in [Nodes -> Values] /\ view[b] \in [Nodes -> Values]
    BY <2>2, <2>3 DEF IInv, TypeOK
  <2>5. ASSUME NEW n \in Nodes PROVE view[b][n] = content[b][n]
    <3>1. Changing(b, n) \/ Coming(b, n)
      BY <2>1, <2>2 DEF IInv, UpToDateInv, InOneChannel
    <3>2. ~Changing(b, n)
      <4>1. NoneIn(interacts, PacketsOn(b, n))
        BY DEF Quiet, NoneIn, PacketsOn, Packets
      <4>2. \A e \in Metas(b, n) \cup Others(b) \cup NodeEvents(PacketsOn(b, n)) : BlockOf(e) = b
        BY DEF Metas, Others, NodeEvents, PacketsOn, Packets, BlockOf
      <4>3. /\ NoneIn(events, Metas(b, n)) /\ NoneIn(events, Others(b))
            /\ NoneIn(events, NodeEvents(PacketsOn(b, n)))
        BY <4>2 DEF Quiet, NoneIn
      <4> QED BY <4>1, <4>3 DEF Changing, Reported, Unknown
    <3>3. ~EndsIn(blockData, Showing(b, n, content[b][n]), Copies(b))
      BY <2>1, SomeIn DEF Showing
    <3>4. ~EndsIn(nodeData, Setting(b, n, content[b][n]), PacketsOn(b, n))
      BY <2>1 DEF EndsIn, NoneIn, Setting, PacketsOn
    <3> QED BY <3>1, <3>2, <3>3, <3>4 DEF Coming
  <2> QED BY <2>4, <2>5
<1> QED BY <1>1, Invariant, PTL

\* A node change dropped by the client, which does not have the block, is of a block that
\* is sent again, is on the way, or is reported as unloaded.
THEOREM DroppedChanges ==
    Spec => DroppedChangeIsMadeUpFor
<1> DEFINE Made ==
             \A c \in Blocks :
                 (nodeData # <<>> /\ nodeData' = Tail(nodeData) /\ Head(nodeData).block = c
                    /\ view[c] = Absent)
                 => \/ c \notin sent
                    \/ \E i \in DOMAIN blockData : blockData[i].block = c
                    \/ \E i \in DOMAIN notices : notices[i].type = "deleted" /\ c \in notices[i].blocks
<1>1. IInv => Made
  <2> SUFFICES ASSUME IInv, NEW c \in sent, view[c] = Absent
               PROVE  \/ \E i \in DOMAIN blockData : blockData[i].block = c
                      \/ \E i \in DOMAIN notices : notices[i].type = "deleted" /\ c \in notices[i].blocks
    OBVIOUS
  <2>1. c \in Believed
    BY DEF Believed
  <2>2. ~NoneIn(blockData, Copies(c)) \/ ~NoneIn(notices, Deletions(c))
    BY <2>1 DEF IInv, HaveInv
  <2> QED BY <2>2 DEF NoneIn, Copies, Deletions
<1>2. []IInv => [][Made]_vars
  BY <1>1, PTL
<1> QED BY <1>2, Invariant, PTL DEF DroppedChangeIsMadeUpFor
================================================================================
