------------------------------- MODULE MCToss -------------------------------
(***************************************************************************)
(* Values for model checking Toss.  The buffer holds one block of text,    *)
(* and can grow to two: a message of two blocks makes it grow, one of      *)
(* three is split, into three pieces or into two.  Conference 257 becomes  *)
(* 1 without its high byte, 7 is unknown.                                  *)
(***************************************************************************)
EXTENDS Toss

M(c, s, m) == [conf |-> c, size |-> s, mine |-> m]
Whole    == [head |-> TRUE, n |-> 1, confs |-> <<0, 1>>]
CutShort == [head |-> TRUE, n |-> 1, confs |-> <<0>>]
NoHead   == [head |-> FALSE, n |-> 0, confs |-> <<>>]
TooMany  == [head |-> TRUE, n |-> 2, confs |-> <<0, 1, 2>>]
AllControls == {Whole, CutShort, NoHead, TooMany}

AllPackets ==
    {<<>>, <<M(257, 3, TRUE)>>, <<M(0, 1, FALSE), M(7, 2, TRUE)>>,
     <<M(1, 1, FALSE), M(0, 0, FALSE)>>}

AnyFault == {{"memory"}, {"open", "read", "write"}, {"crash"}}
=============================================================================
