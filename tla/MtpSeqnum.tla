------------------------------ MODULE MtpSeqnum ------------------------------
(****************************************************************************)
(* Arithmetic on the 16 bit sequence numbers of the MTP transport.  The     *)
(* constants stand for the macros of internal.h, scaled down by TLC:        *)
(*   SeqnumMax         SEQNUM_MAX                = 65535                    *)
(*   SeqnumInitial     SEQNUM_INITIAL            = 65500                    *)
(*   MaxReliableWindow MAX_RELIABLE_WINDOW_SIZE  = 0x8000, half the space   *)
(****************************************************************************)
EXTENDS Integers

CONSTANTS SeqnumMax, SeqnumInitial, MaxReliableWindow

\* The macros keep 2 * MAX_RELIABLE_WINDOW_SIZE = SEQNUM_MAX + 1; nothing below
\* needs more than the window being at most that half.
ASSUME SeqnumAssumption ==
    /\ SeqnumMax \in Nat \ {0}
    /\ SeqnumInitial \in 0..SeqnumMax
    /\ MaxReliableWindow \in Nat \ {0}
    /\ 2 * MaxReliableWindow =< SeqnumMax + 1

\* u16
Seqnum == 0..SeqnumMax

\* Arithmetic in int, as if the number were never stored in a u16.
NoWrap(n) == n

\* u16 arithmetic wraps.
Wrap(n) == n % (SeqnumMax + 1)

\* bool seqnum_higher(u16 totest, u16 base)
SeqnumHigher(totest, base) ==
    IF totest > base
    THEN totest - base =< SeqnumMax \div 2
    ELSE base - totest > SeqnumMax \div 2

\* bool seqnum_in_window(u16 seqnum, u16 next, u16 window_size)
SeqnumInWindow(seqnum, next, size) ==
    LET end == Wrap(next + size)
    IN  IF next < end
        THEN next =< seqnum /\ seqnum < end
        ELSE seqnum < end \/ next =< seqnum

\* How many numbers after base the number seqnum comes, going round.
Distance(base, seqnum) == Wrap(seqnum - base)

\* The number of the n-th packet (from 0) of a channel.
SeqnumOf(n) == Wrap(SeqnumInitial + n)
=============================================================================
