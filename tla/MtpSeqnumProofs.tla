--------------------------- MODULE MtpSeqnumProofs ---------------------------
(****************************************************************************)
(* Facts about the 16 bit sequence numbers, for any size of the space: what *)
(* seqnum_in_window decides, and which numbers two packets of the stream    *)
(* can share.                                                               *)
(****************************************************************************)
EXTENDS MtpSeqnum, TLAPS

\* The size of the space.
M == SeqnumMax + 1

\* Division with remainder.
LEMMA DivMod ==
    \A i \in Int : /\ i = M * (i \div M) + (i % M)
                   /\ i \div M \in Int
                   /\ i % M \in 0..SeqnumMax
<1>1. M \in Nat \ {0} /\ SeqnumMax = M - 1
  BY SeqnumAssumption DEF M
<1>2. \A i \in Int : /\ i = M * (i \div M) + (i % M)
                     /\ i \div M \in Int
                     /\ i % M \in 0..(M - 1)
  BY <1>1, SMT
<1> QED BY <1>1, <1>2

\* Different multiples of M are at least M apart.
LEMMA Multiples == \A a, b \in Int : a > b => M * a >= M * b + M
<1> SUFFICES ASSUME NEW a \in Int, NEW b \in Int, a > b
             PROVE  M * a >= M * b + M
  OBVIOUS
<1>1. M \in Nat \ {0}
  BY SeqnumAssumption DEF M
<1>2. M * (a - b - 1) >= 0
  BY <1>1, SMT
<1>3. M * (a - b - 1) = M * a - M * b - M
  BY <1>1, SMT
<1>4. M * a \in Int /\ M * b \in Int
  BY <1>1, SMT
<1> QED BY <1>1, <1>2, <1>3, <1>4, SMT

\* The remainder is the only number of the space that is a multiple of M away.
LEMMA RemainderUnique ==
    \A q, z \in Int, r \in 0..SeqnumMax : z = M * q + r => z % M = r
<1> SUFFICES ASSUME NEW q \in Int, NEW z \in Int, NEW r \in 0..SeqnumMax,
                    z = M * q + r
             PROVE  z % M = r
  OBVIOUS
<1> DEFINE w == z \div M
           s == z % M
<1>1. z = M * w + s /\ w \in Int /\ s \in 0..SeqnumMax
  BY DivMod
<1> HIDE DEF w, s
<1>2. M \in Nat \ {0} /\ M = SeqnumMax + 1 /\ SeqnumMax \in Nat
  BY SeqnumAssumption DEF M
<1>3. M * w \in Int /\ M * q \in Int
  BY <1>1, <1>2, SMT
<1>4. w > q => M * w >= M * q + M
  BY <1>1, Multiples
<1>5. q > w => M * q >= M * w + M
  BY <1>1, Multiples
<1>6. w = q
  BY <1>1, <1>2, <1>3, <1>4, <1>5, SMT
<1>7. s = r
  BY <1>1, <1>3, <1>6, SMT
<1> QED BY <1>7 DEF s

\* Wrap on the numbers the code wraps: one turn below, within and above the space.
LEMMA WrapCases ==
    \A z \in Int : /\ 0 =< z /\ z < M => Wrap(z) = z
                   /\ M =< z /\ z < 2 * M => Wrap(z) = z - M
                   /\ -M =< z /\ z < 0 => Wrap(z) = z + M
<1> SUFFICES ASSUME NEW z \in Int
             PROVE  /\ 0 =< z /\ z < M => Wrap(z) = z
                    /\ M =< z /\ z < 2 * M => Wrap(z) = z - M
                    /\ -M =< z /\ z < 0 => Wrap(z) = z + M
  OBVIOUS
<1>1. M \in Nat \ {0} /\ M = SeqnumMax + 1 /\ SeqnumMax \in Nat
  BY SeqnumAssumption DEF M
<1>2. Wrap(z) = z % M
  BY DEF Wrap, M
<1>3. M * 0 = 0 /\ M * 1 = M /\ M * (-1) = -M
  BY <1>1, SMT
<1>4. ASSUME 0 =< z, z < M PROVE z % M = z
  <2>1. z = M * 0 + z /\ z \in 0..SeqnumMax
    BY <1>1, <1>3, <1>4, SMT
  <2> QED BY <2>1, RemainderUnique
<1>5. ASSUME M =< z, z < 2 * M PROVE z % M = z - M
  <2>1. z = M * 1 + (z - M) /\ z - M \in 0..SeqnumMax
    BY <1>1, <1>3, <1>5, SMT
  <2> QED BY <2>1, RemainderUnique
<1>6. ASSUME -M =< z, z < 0 PROVE z % M = z + M
  <2>1. z = M * (-1) + (z + M) /\ z + M \in 0..SeqnumMax
    BY <1>1, <1>3, <1>6, SMT
  <2> QED BY <2>1, RemainderUnique
<1> QED BY <1>2, <1>4, <1>5, <1>6

\* The circular distance, without the modulus.
LEMMA DistanceCases ==
    \A b, s \in Seqnum :
        Distance(b, s) = IF b =< s THEN s - b ELSE s - b + M
  BY WrapCases, SeqnumAssumption, SMT DEF Distance, Seqnum, M

\* seqnum_in_window answers whether the number comes fewer than size numbers after
\* next, going round, wherever the window wraps.
THEOREM InWindowIsDistance ==
    \A s, n \in Seqnum, size \in 1..SeqnumMax :
        SeqnumInWindow(s, n, size) <=> Distance(n, s) < size
<1> SUFFICES ASSUME NEW s \in Seqnum, NEW n \in Seqnum, NEW size \in 1..SeqnumMax
             PROVE  SeqnumInWindow(s, n, size) <=> Distance(n, s) < size
  OBVIOUS
<1>1. Distance(n, s) = IF n =< s THEN s - n ELSE s - n + M
  BY DistanceCases
<1>2. Wrap(n + size) = IF n + size < M THEN n + size ELSE n + size - M
  BY WrapCases, SeqnumAssumption, SMT DEF Seqnum, M
<1> QED BY <1>1, <1>2, SeqnumAssumption, SMT DEF SeqnumInWindow, Seqnum, M

\* Numbers of the stream are numbers of the wire.
LEMMA SeqnumOfType == \A i \in Nat : SeqnumOf(i) \in Seqnum
  BY DivMod, SeqnumAssumption, SMT DEF SeqnumOf, Wrap, Seqnum, M

\* The number of a packet fewer than M packets further on.
LEMMA SeqnumOfAdd ==
    \A i \in Nat, k \in 0..SeqnumMax :
        SeqnumOf(i + k) = IF SeqnumOf(i) + k < M THEN SeqnumOf(i) + k
                          ELSE SeqnumOf(i) + k - M
<1> SUFFICES ASSUME NEW i \in Nat, NEW k \in 0..SeqnumMax
             PROVE  SeqnumOf(i + k) = IF SeqnumOf(i) + k < M THEN SeqnumOf(i) + k
                                      ELSE SeqnumOf(i) + k - M
  OBVIOUS
<1>1. M \in Nat \ {0} /\ M = SeqnumMax + 1 /\ SeqnumMax \in Nat /\ SeqnumInitial \in Nat
  BY SeqnumAssumption DEF M
<1> DEFINE z == SeqnumInitial + i
           q == z \div M
           r == z % M
<1>2. SeqnumOf(i) = r /\ SeqnumOf(i + k) = (z + k) % M
  BY <1>1, SMT DEF SeqnumOf, Wrap
<1>3. z \in Nat
  BY <1>1, SMT
<1>4. z = M * q + r /\ q \in Int /\ r \in 0..SeqnumMax
  BY <1>3, DivMod
<1> HIDE DEF z, q, r
<1>5. M * q \in Int /\ M * (q + 1) = M * q + M
  BY <1>1, <1>4, SMT
<1>6. ASSUME r + k < M PROVE (z + k) % M = r + k
  <2>1. z + k = M * q + (r + k) /\ r + k \in 0..SeqnumMax
    BY <1>1, <1>3, <1>4, <1>5, <1>6, SMT
  <2> QED BY <2>1, <1>3, <1>4, RemainderUnique
<1>7. ASSUME r + k >= M PROVE (z + k) % M = r + k - M
  <2>1. z + k = M * (q + 1) + (r + k - M) /\ r + k - M \in 0..SeqnumMax
    BY <1>1, <1>3, <1>4, <1>5, <1>7, SMT
  <2>2. q + 1 \in Int /\ z + k \in Int
    BY <1>3, <1>4, SMT
  <2> QED BY <2>1, <2>2, RemainderUnique
<1>8. r + k \in Nat
  BY <1>4
<1> QED BY <1>1, <1>2, <1>6, <1>7, <1>8, SMT

\* Counting on by one packet is adding one and wrapping.
LEMMA SeqnumOfNext == \A i \in Nat : Wrap(SeqnumOf(i) + 1) = SeqnumOf(i + 1)
<1> SUFFICES ASSUME NEW i \in Nat PROVE Wrap(SeqnumOf(i) + 1) = SeqnumOf(i + 1)
  OBVIOUS
<1>1. SeqnumOf(i) \in 0..SeqnumMax
  BY SeqnumOfType DEF Seqnum
<1>2. 1 \in 0..SeqnumMax
  BY SeqnumAssumption
<1>3. SeqnumOf(i + 1) = IF SeqnumOf(i) + 1 < M THEN SeqnumOf(i) + 1
                        ELSE SeqnumOf(i) + 1 - M
  BY <1>2, SeqnumOfAdd
<1>4. Wrap(SeqnumOf(i) + 1) = IF SeqnumOf(i) + 1 < M THEN SeqnumOf(i) + 1
                              ELSE SeqnumOf(i) + 1 - M
  BY <1>1, WrapCases, SeqnumAssumption, SMT DEF M
<1> QED BY <1>3, <1>4

\* The number tells the packets of any stretch shorter than the space apart: the
\* distance of their numbers is how far apart they are.
THEOREM DistanceOfPackets ==
    \A i \in Nat, k \in 0..SeqnumMax : Distance(SeqnumOf(i), SeqnumOf(i + k)) = k
<1> SUFFICES ASSUME NEW i \in Nat, NEW k \in 0..SeqnumMax
             PROVE  Distance(SeqnumOf(i), SeqnumOf(i + k)) = k
  OBVIOUS
<1>1. SeqnumOf(i) \in Seqnum /\ SeqnumOf(i + k) \in Seqnum
  BY SeqnumOfType
<1>2. SeqnumOf(i + k) = IF SeqnumOf(i) + k < M THEN SeqnumOf(i) + k
                        ELSE SeqnumOf(i) + k - M
  BY SeqnumOfAdd
<1>3. Distance(SeqnumOf(i), SeqnumOf(i + k)) =
        IF SeqnumOf(i) =< SeqnumOf(i + k) THEN SeqnumOf(i + k) - SeqnumOf(i)
        ELSE SeqnumOf(i + k) - SeqnumOf(i) + M
  BY <1>1, DistanceCases
<1> HIDE DEF M
<1>4. M = SeqnumMax + 1 /\ SeqnumMax \in Nat
  BY SeqnumAssumption DEF M
<1> QED BY <1>1, <1>2, <1>3, <1>4, SMT DEF Seqnum
=============================================================================
