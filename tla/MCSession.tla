------------------------------ MODULE MCSession ------------------------------
(* Two names, of which n1 is registered: its player and a new one, or two   *)
(* clients that want the new name; and three clients with one name.         *)
EXTENDS Session

MCCasts == {[c1 |-> "n1", c2 |-> "n2"], [c1 |-> "n2", c2 |-> "n2"]}
MCSameName == {[c \in Conn |-> n] : n \in Name}
\* The one of them may change its password twice, the other once.
MCAttempts == [c \in Conn |-> IF c = "c1" THEN 3 ELSE 2]
MCOneAttempt == [c \in Conn |-> 1]
Symmetry == Permutations(Conn)
=============================================================================
