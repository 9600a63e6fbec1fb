----------------------------- MODULE MCEditLine -----------------------------
(***************************************************************************)
(* Values for model checking EditLine.  The keys are split into habits,    *)
(* because what they do together multiplies: every key is in one of them,  *)
(* with those it shares state with.                                        *)
(***************************************************************************)
EXTENDS EditLine

Typable    == {"a", "A", Blank}
NoPreload  == {NilStr}
Prefilled  == {NilStr, <<"a", Blank>>}
OneCommand == {<<"a">>}
TwoFiles   == {<<"a", "a", "a">>, <<"a", "a", Blank>>}
TwoCounts  == {1, 4}

Deleting == {"a", Blank, "erase", "killall", "delchar", "backspace", "killline", "yank",
             "begline", "endline", "bkchar", "fdchar", "transpose", "interrupt"}
Columns  == {"a", "A", "count", "killline", "bkchar", "yank"}
Marking  == {"a", Blank, "mkset", "exchange", "wipe", "copy", "yank", "bkchar", "killall",
             "movetochar", "bell"}
Words    == {"a", "A", Blank, "count", "fdword", "bkword", "fdkillword", "bkkillword", "case",
             "begline", "erase", "delchar"}
Browsing == {"a", "save", "history", "search", "erase", "count", "eof"}
Arguing  == {"a", Blank, "save", "lastarg", "complete", "function"}
AllHabits == {Deleting, Columns, Marking, Words, Browsing, Arguing}

Column   == {Columns}
=============================================================================
