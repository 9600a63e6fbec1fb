------------------------------ MODULE MCReply ------------------------------
(***************************************************************************)
(* Values for model checking Reply: blocks of four characters and lines of *)
(* three, so that texts of up to five characters end before, on and behind *)
(* the limits of both.                                                     *)
(***************************************************************************)
EXTENDS Reply

Letters  == {"a", NL, CR, DOS_SPACE}
AllTexts == UNION {[1..n -> Letters] : n \in 0..4} \cup [1..5 -> {"a", NL}]
OneText  == {<<"a", NL>>}
TwoTexts == {<<"a">>, <<"a", "a", NL, "a", "a">>}
AllWords == {<<"w">>, <<"w", "x", "y", "z">>}
Answered == <<"a", "a", "a", NL, DOS_SPACE>>

Habit(t, c, o, n) == [texts |-> t, can |-> c, rc |-> o, max |-> n]
Typing   == Habit(AllTexts, {"enter"}, {"fido", "pcb"}, 1)
Changing == Habit(TwoTexts, {"enter", "change", "xpost", "reply", "edit"}, {"fido", "pcb"}, 2)
Signals  == Habit(OneText, {"enter", "interrupt", "spell", "nofork", "edit"}, {"fido"}, 1)
Packing  == Habit(OneText, {"enter", "change", "pack", "interrupt", "noread"}, {}, 2)
Failing  == Habit(OneText, {"enter", "diskfull", "toolarge", "pack"}, {}, 2)
Tagging  == Habit(OneText, {"enter", "tag"}, {"fido", "autotag"}, 1)
AllHabits == {Typing, Changing, Signals, Packing, Failing, Tagging}
Signalled == {Signals}
=============================================================================
