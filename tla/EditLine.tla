------------------------------ MODULE EditLine ------------------------------
(***************************************************************************)
(* The line editor (editline.c, complete.c): readline() from its prompt to *)
(* the line it returns, the history, the search in it, and every command   *)
(* of the two key maps.  Positions count from 0 as in the code: the        *)
(* character at position i is line[i + 1], and End is Len(line).           *)
(*                                                                         *)
(* A key that takes further keys (ESC, ^V, ^X, ^]) is one step: nothing    *)
(* else runs while the editor waits for the rest.  A repeat count is a     *)
(* step of its own, since it outlives the key that follows it (Erase).     *)
(***************************************************************************)
EXTENDS Integers, Sequences, FiniteSets, SequencesExt, FiniteSetsExt

CONSTANTS
    HIST_SIZE,   \* number of history slots
    MEM_INC,     \* step by which the buffer of the line grows
    Chars,       \* characters that can be typed
    Counts,      \* repeat counts that can be typed
    Preloads,    \* texts a prompt may put on the line (luxptr)
    Commands,    \* texts of the function keys
    Files,       \* names in the current directory
    Habits,      \* sets of keys; each session uses the keys of one of them
    MaxLen       \* bound on the length of a line, for TLC

NO_ARG == -1
Alnum  == {"a", "A"}          \* one letter stands for all, in both cases
Blank  == " "
Anchor == "^"                 \* at the start of a search pattern
NilStr == <<>>

ASSUME EditAssumption ==
    /\ HIST_SIZE \in Nat /\ HIST_SIZE > 1
    /\ MEM_INC \in Nat \ {0}
    /\ Counts \subseteq Nat
    /\ Preloads \cup Commands \cup Files \subseteq Seq(Chars)
    /\ \A t \in Preloads \cup Commands : Len(t) < MEM_INC
    /\ Alnum \cup {Blank} \subseteq Chars

VARIABLES
    mode,       \* "idle", "edit" in editinput(), "wild" off the line
    ed,         \* the line, Point, Mark, Yanked, and Length of the buffer
    repeat,     \* Repeat
    hist,       \* H: its lines and Pos
    searching,  \* "no", or the direction h_search() will go
    oldSearch,  \* the remembered pattern
    luxptr,     \* the text the prompt puts on the line
    got,        \* the line readline() returned last
    keys        \* the keys typed in this session

vars == <<mode, ed, repeat, hist, searching, oldSearch, luxptr, got, keys>>

(***************************************************************************)
(* The buffer.                                                             *)
(***************************************************************************)
End(e)    == Len(e.line)
\* The characters from position a up to position b.
Region(l, a, b) == SubSeq(l, a + 1, b)
\* do ... while (++i < Repeat)
Turns   == IF repeat < 1 THEN 1 ELSE repeat

Grown(e, n) == IF End(e) + n >= e.length THEN e.length + n + MEM_INC ELSE e.length

InsertString(e, s) ==
    [e EXCEPT !.line   = Region(@, 0, e.point) \o s \o Region(@, e.point, End(e)),
              !.point  = @ + Len(s),
              !.length = Grown(e, Len(s))]

\* Mutant of DeleteString: the text is moved up before it is saved.
DeleteStringLate(e, count) ==
    LET n == IF e.point + count > End(e) THEN End(e) - e.point ELSE count
        left == Region(e.line, 0, e.point) \o Region(e.line, e.point + n, End(e))
    IN  IF count <= 0 \/ n <= 0 THEN e
        ELSE [e EXCEPT !.line   = left,
                       !.yanked = IF n > 1 THEN Region(left, e.point, Min({e.point + n, Len(left)}))
                                  ELSE @]

\* delete_string(): a single character is not kept for yank().
DeleteString(e, count) ==
    LET n == IF e.point + count > End(e) THEN End(e) - e.point ELSE count
    IN  IF count <= 0 \/ n <= 0 THEN e
        ELSE [e EXCEPT !.line   = Region(@, 0, e.point) \o Region(@, e.point + n, End(e)),
                       !.yanked = IF n > 1 THEN Region(e.line, e.point, e.point + n) ELSE @]

\* kill_line() without a count, also for ^U.
KillRest(e) == [e EXCEPT !.yanked = Region(e.line, e.point, End(e)),
                         !.line   = Region(@, 0, e.point)]

InsertChar(e, c) == InsertString(e, [i \in 1..Turns |-> c])

(***************************************************************************)
(* Words.                                                                  *)
(***************************************************************************)
\* The first position from p on that holds no character of skip, or End.
Skip(l, p, inAlnum) ==
    IF p > Len(l) THEN p
    ELSE Min({i \in p..Len(l) : i = Len(l) \/ ((l[i + 1] \in Alnum) # inAlnum)})
SkipBack(l, p, inAlnum) ==
    Max({i \in 0..p : i = 0 \/ ((l[i] \in Alnum) # inAlnum)})

\* do_forward() and bk_word(): Turns words on, Turns words back.
Forward(e) ==
    LET f[n \in 0..Turns] ==
            IF n = 0 THEN e.point ELSE Skip(e.line, Skip(e.line, f[n - 1], FALSE), TRUE)
    IN  f[Turns]
Backward(e) ==
    LET f[n \in 0..Turns] ==
            IF n = 0 THEN e.point
            ELSE SkipBack(e.line, SkipBack(e.line, f[n - 1], FALSE), TRUE)
    IN  f[Turns]

Upper == [c \in Chars |-> IF c = "a" THEN "A" ELSE c]
Lower == [c \in Chars |-> IF c = "A" THEN "a" ELSE c]

\* do_case(): the words up to Forward(e), which Point ends up behind.
DoCase(e, fold) ==
    LET to == Forward(e)
    IN  [e EXCEPT !.line  = [i \in DOMAIN @ |-> IF i > e.point /\ i <= to THEN fold[@[i]]
                                                ELSE @[i]],
                  !.point = to]

\* find_word(): what stands before Point, back to a separator.
FindWord(e) ==
    LET from == Max({i \in 0..e.point : i = 0 \/ e.line[i] = Blank})
    IN  Region(e.line, from, e.point)

\* argify(): leading blanks are skipped, a blank ends an argument, and a second
\* one makes an empty argument.
Text(l) == LET text == {i \in DOMAIN l : l[i] # Blank}
           IN  IF text = {} THEN NilStr ELSE SubSeq(l, Min(text), Len(l))
ArgStarts(t) == {i \in DOMAIN t : i = 1 \/ t[i - 1] = Blank}
Arg(t, i) == SubSeq(t, i, Min({j \in i..(Len(t) + 1) : j > Len(t) \/ t[j] = Blank}) - 1)

(***************************************************************************)
(* Completion: rl_complete() in the current directory.                     *)
(***************************************************************************)
Matches(word) == {f \in Files : IsPrefix(word, f)}
Completion(word) ==
    LET m == Matches(word)
    IN  IF m = {} THEN NilStr
        ELSE IF Cardinality(m) = 1
             THEN LET f == CHOOSE f \in m : TRUE
                  IN  Append(SubSeq(f, Len(word) + 1, Len(f)), Blank)
             ELSE IF word = NilStr THEN NilStr
                  ELSE LET p == LongestCommonPrefix(m) IN SubSeq(p, Len(word) + 1, Len(p))

(***************************************************************************)
(* The history.  While a line is edited its last slot is that line's own,  *)
(* empty one.                                                              *)
(***************************************************************************)
\* Mutant of HistAdd: a full history moves up without making room.
HistAddFull(h, p) ==
    LET all == IF Len(h.lines) < HIST_SIZE THEN h.lines ELSE Front(h.lines)
    IN  [lines |-> Append(all, p), pos |-> Len(all)]

HistAdd(h, p) ==
    LET all == IF Len(h.lines) < HIST_SIZE THEN h.lines ELSE Tail(h.lines)
    IN  [lines |-> Append(all, p), pos |-> Len(all)]

\* Mutant of Popped: readline() leaves its slot in the history.
PoppedNot(h) == h

\* readline() takes its own slot back; Pos stays.
Popped(h) == [h EXCEPT !.lines = Front(@)]

\* add_history(): not an empty line, nor the one before Pos again.
AddTo(h, p) == IF p = NilStr \/ (h.pos > 0 /\ h.lines[h.pos] = p) THEN h ELSE HistAdd(h, p)

\* The position n lines back or on; at the end of the history it stops short.
Back(n)  == IF hist.pos < n THEN 0 ELSE hist.pos - n
Onward(n) == LET last == Len(hist.lines) - 1
             IN  IF hist.pos + n > last THEN last ELSE hist.pos + n

\* do_insert_hist(): the line is replaced by one of the history.
Recalled(e, pos) == InsertString([e EXCEPT !.line = NilStr, !.point = 0], hist.lines[pos + 1])

\* search_hist(): where the pattern is found from Pos on, in direction dir.
Found(pat, dir) ==
    LET anchored == pat[1] = Anchor
        Hit(l)   == IF anchored THEN IsPrefix(Tail(pat), l)
                    ELSE \E i \in 1..Len(l) : IsPrefix(pat, SubSeq(l, i, Len(l)))
    IN  {p \in 0..(Len(hist.lines) - 1) :
            /\ IF dir = "back" THEN p < hist.pos ELSE p > hist.pos
            /\ Hit(hist.lines[p + 1])}

(***************************************************************************)
(* readline().                                                             *)
(***************************************************************************)
Unsearched == UNCHANGED <<searching, oldSearch, luxptr>>

\* The start of editinput(): the line holds what luxptr points to.
Fresh(e, pre) == [e EXCEPT !.line = pre, !.point = 0, !.mark = 0]

Readline(pre) ==
    /\ mode = "idle"
    /\ mode' = "edit"
    /\ ed' = Fresh(ed, pre)
    /\ repeat' = NO_ARG
    /\ hist' = HistAdd(hist, NilStr)
    /\ got' = NilStr
    /\ luxptr' = pre
    /\ UNCHANGED <<searching, oldSearch, keys>>

\* Some prompts add the line they got to the history, and one a text of its own.
AddHistory(p) ==
    /\ mode = "idle" /\ "save" \in keys
    /\ hist' = AddTo(hist, p)
    /\ UNCHANGED <<mode, ed, repeat, searching, oldSearch, luxptr, got, keys>>

\* editinput() ends with text (NilStr also stands for NULL).
Returns(text) ==
    IF searching = "no"
    THEN /\ mode' = "idle"
         /\ got' = text
         /\ hist' = Popped(hist)
         /\ repeat' = NO_ARG
         /\ Unsearched
         /\ UNCHANGED <<ed, keys>>
    ELSE LET pat == IF text # NilStr THEN text ELSE oldSearch
             hit == IF pat = NilStr THEN {} ELSE Found(pat, searching)
             pos == IF searching = "back" THEN Max(hit) ELSE Min(hit)
             cleared == [ed EXCEPT !.line = NilStr, !.point = 0]
         IN  /\ oldSearch' = pat
             /\ searching' = "no"
             /\ repeat' = NO_ARG
             /\ IF hit = {} THEN hist' = hist /\ ed' = cleared
                ELSE hist' = [hist EXCEPT !.pos = pos] /\ ed' = Recalled(cleared, pos)
             /\ UNCHANGED <<mode, luxptr, got, keys>>

\* A key that emacs() runs: the count is used up.
Emacs(key, e) ==
    /\ mode = "edit" /\ key \in keys
    /\ Len(e.line) <= MaxLen
    /\ ed' = e
    /\ repeat' = NO_ARG
    /\ Unsearched /\ UNCHANGED <<mode, hist, got, keys>>

\* A key that TTYspecial() runs before emacs() sees it: the count stays.
Special(key, e, count) ==
    /\ mode = "edit" /\ key \in keys
    /\ ed' = e
    /\ repeat' = count
    /\ Unsearched /\ UNCHANGED <<mode, hist, got, keys>>

\* Point leaves the line, or a byte outside it is read or written.
Wild(key) ==
    /\ mode = "edit" /\ key \in keys
    /\ mode' = "wild"
    /\ UNCHANGED <<ed, repeat, hist, searching, oldSearch, luxptr, got, keys>>

\* ^J and ^M, the function keys, and the end of the input or ^D on an empty line.
AcceptLine     == mode = "edit" /\ Returns(ed.line)
FunctionKey(c) == mode = "edit" /\ "function" \in keys /\ Returns(c)
EndOfFile      == mode = "edit" /\ "eof" \in keys /\ Returns(NilStr)

(***************************************************************************)
(* The keys of TTYspecial().                                               *)
(***************************************************************************)
BkDelChar(e) ==
    LET n == Min({Turns, e.point}) IN DeleteString([e EXCEPT !.point = @ - n], n)

Erase     == Special("erase", BkDelChar(ed), repeat)
KillAll   == Special("killall", KillRest([ed EXCEPT !.point = 0]), NO_ARG)
Interrupt == Special("interrupt", [ed EXCEPT !.line = NilStr, !.point = 0], repeat)

(***************************************************************************)
(* The keys of Map.                                                        *)
(***************************************************************************)
\* Bells, ^L, the list of completions, a macro: no state of the editor changes.
NoEffect  == Emacs("bell", ed)
SelfInsert(c) == Emacs(c, InsertChar(ed, c))   \* a key of its own; also quote()
BegLine   == Emacs("begline", [ed EXCEPT !.point = 0])
EndLine   == Emacs("endline", [ed EXCEPT !.point = End(ed)])
BkChar    == Emacs("bkchar", [ed EXCEPT !.point = @ - Min({Turns, @})])
FdChar    == Emacs("fdchar", [ed EXCEPT !.point =
                 IF @ >= End(ed) THEN @ ELSE Min({@ + Turns, End(ed)})])
DelChar   == Emacs("delchar", DeleteString(ed, IF repeat = NO_ARG THEN 1 ELSE repeat))
Backspace == Emacs("backspace", BkDelChar(ed))
Complete  == Emacs("complete", InsertString(ed, Completion(FindWord(ed))))
Yank      == Emacs("yank", InsertString(ed, ed.yanked))

\* With a count: to that column, from behind the character at Point when it
\* lies ahead.  right() takes no notice of End: Point passes it.
KillLine ==
    \/ repeat = NO_ARG /\ Emacs("killline", KillRest(ed))
    \/ repeat \in 0..ed.point /\
       Emacs("killline", DeleteString([ed EXCEPT !.point = repeat], ed.point - repeat))
    \/ repeat > ed.point /\ ed.point < End(ed) /\
       Emacs("killline", DeleteString([ed EXCEPT !.point = @ + 1], repeat - ed.point - 2))
    \/ repeat > ed.point /\ ed.point = End(ed) /\ Wild("killline")

\* transpose(): the characters before and at Point, one step back at the end.
\* On a line of one character, the one before is outside the line.
Transpose ==
    LET l == ed.line
        p == IF ed.point = End(ed) THEN ed.point - 1 ELSE ed.point
    IN  \/ ed.point = 0 /\ Emacs("transpose", ed)
        \/ ed.point > 0 /\ p \in 1..(End(ed) - 1) /\
           Emacs("transpose", [ed EXCEPT !.line = [l EXCEPT ![p] = l[p + 1], ![p + 1] = l[p]],
                                         !.point = p + 1])
        \/ ed.point > 0 /\ p \notin 1..(End(ed) - 1) /\ Wild("transpose")

Wipe ==
    LET from == Min({ed.point, ed.mark})
        to   == Max({ed.point, ed.mark})
    IN  \/ ed.mark > End(ed) /\ Emacs("wipe", ed)
        \/ ed.mark <= End(ed) /\
           Emacs("wipe", DeleteString([ed EXCEPT !.point = from, !.mark = to], to - from))

\* Mutant of Exchange: the mark is followed wherever it was set.
ExchangeFar == Emacs("exchange", [ed EXCEPT !.mark = ed.point, !.point = ed.mark])

Exchange ==
    Emacs("exchange", IF ed.mark > End(ed) THEN ed
                      ELSE [ed EXCEPT !.mark = ed.point, !.point = ed.mark])

MoveToChar(c) ==
    LET hits == {i \in (ed.point + 1)..(End(ed) - 1) : ed.line[i + 1] = c}
    IN  Emacs("movetochar", IF hits = {} THEN ed ELSE [ed EXCEPT !.point = Min(hits)])

\* The history keys change Pos even where there are fewer than n lines left.
Recall(key, pos, reached) ==
    /\ mode = "edit" /\ key \in keys
    /\ hist' = [hist EXCEPT !.pos = pos]
    /\ ed' = IF reached THEN Recalled(ed, pos) ELSE ed
    /\ repeat' = NO_ARG
    /\ Unsearched /\ UNCHANGED <<mode, got, keys>>

HPrev  == Recall("history", Back(Turns), Turns <= hist.pos)
HNext  == Recall("history", Onward(Turns), hist.pos + Turns < Len(hist.lines))
HFirst == Recall("history", 0, TRUE)
HLast  == Recall("history", Len(hist.lines) - 1, TRUE)

\* h_search() up to its prompt: the line is given up, and editinput() starts again.
HSearch ==
    /\ mode = "edit" /\ "search" \in keys
    /\ searching = "no"
    /\ searching' = IF repeat = NO_ARG THEN "back" ELSE "fwd"
    /\ ed' = Fresh(ed, luxptr)
    /\ repeat' = NO_ARG
    /\ UNCHANGED <<mode, hist, oldSearch, luxptr, got, keys>>

(***************************************************************************)
(* The keys of MetaMap, and the count.                                     *)
(***************************************************************************)
RepeatCount(n) == Special("count", ed, n)
MkSet       == Emacs("mkset", [ed EXCEPT !.mark = ed.point])
CopyRegion  == Emacs("copy", IF ed.mark > End(ed) THEN ed
                 ELSE [ed EXCEPT !.yanked = Region(ed.line, Min({ed.mark, ed.point}),
                                                   Max({ed.mark, ed.point}))])
FdWord      == Emacs("fdword", [ed EXCEPT !.point = Forward(ed)])
BkWord      == Emacs("bkword", [ed EXCEPT !.point = Backward(ed)])
FdKillWord  == Emacs("fdkillword", DeleteString(ed, Forward(ed) - ed.point))
BkKillWord  == Emacs("bkkillword", DeleteString([ed EXCEPT !.point = Backward(ed)],
                                                ed.point - Backward(ed)))
CaseUpWord   == Emacs("case", DoCase(ed, Upper))
CaseDownWord == Emacs("case", DoCase(ed, Lower))

\* last_argument(): of the line before the one being edited.
LastArgument ==
    /\ mode = "edit"
    /\ LET t  == IF Len(hist.lines) = 1 THEN NilStr ELSE Text(hist.lines[Len(hist.lines) - 1])
           ac == Cardinality(ArgStarts(t))
           n  == IF repeat = NO_ARG THEN ac ELSE repeat + 1
       IN  \/ n \notin 1..ac /\ Emacs("lastarg", ed)
           \/ \E i \in ArgStarts(t) :
                /\ Cardinality({j \in ArgStarts(t) : j <= i}) = n
                /\ Emacs("lastarg", InsertString(ed, Arg(t, i)))

(***************************************************************************)
(* The editor.                                                             *)
(***************************************************************************)
Init ==
    /\ mode = "idle"
    /\ ed = [line |-> NilStr, point |-> 0, mark |-> 0, yanked |-> NilStr, length |-> MEM_INC]
    /\ repeat = NO_ARG
    /\ hist = [lines |-> <<>>, pos |-> 0]
    /\ searching = "no" /\ oldSearch = NilStr
    /\ luxptr = NilStr /\ got = NilStr
    /\ keys \in Habits

TTYspecial == Erase \/ KillAll \/ Interrupt
Key ==
    \/ NoEffect \/ BegLine \/ EndLine \/ BkChar \/ FdChar
    \/ DelChar \/ Backspace \/ Complete \/ Yank \/ KillLine \/ Transpose
    \/ Wipe \/ Exchange \/ HPrev \/ HNext \/ HFirst \/ HLast \/ HSearch
    \/ \E c \in Chars : SelfInsert(c) \/ MoveToChar(c)
Meta ==
    \/ \E n \in Counts : RepeatCount(n)
    \/ MkSet \/ CopyRegion \/ FdWord \/ BkWord \/ FdKillWord \/ BkKillWord
    \/ CaseUpWord \/ CaseDownWord \/ LastArgument
Done == AcceptLine \/ EndOfFile \/ \E c \in Commands : FunctionKey(c)
Idle ==
    \/ \E pre \in Preloads : Readline(pre)
    \/ \E p \in {got} \cup Preloads : AddHistory(p)

Next == Idle \/ TTYspecial \/ Key \/ Meta \/ Done \/ (mode = "wild" /\ UNCHANGED vars)
Spec == Init /\ [][Next]_vars

(***************************************************************************)
(* Properties.                                                             *)
(***************************************************************************)
(* Types, and the positions the code uses as indexes: the line and its     *)
(* terminator fit the buffer (insert_string), Point is on the line, and    *)
(* H.Pos is a slot in use while editing and at most one past them between  *)
(* lines, where add_history() looks at the slot before it.                 *)
TypeOK ==
    /\ mode \in {"idle", "edit", "wild"}
    /\ ed.line \in Seq(Chars)
    /\ ed.point \in 0..End(ed) /\ ed.mark \in Nat
    /\ ed.yanked \in Seq(Chars)
    /\ End(ed) < ed.length
    /\ repeat \in Counts \cup {NO_ARG}
    /\ Len(hist.lines) <= HIST_SIZE
    /\ hist.pos \in 0..(IF mode = "idle" THEN Len(hist.lines) ELSE Len(hist.lines) - 1)

(* Killed text can be yanked back: when one key takes two or more          *)
(* characters from the line, they are a piece of it, and the yank buffer   *)
(* holds exactly that piece, whatever the mark and the count.              *)
Kills == \/ Erase \/ KillAll \/ DelChar \/ Backspace \/ KillLine \/ Wipe
         \/ FdKillWord \/ BkKillWord
KillsAreYanked ==
    [][Kills =>
        LET lost == Len(ed.line) - Len(ed'.line)
        IN  lost >= 2 =>
            \E i \in 0..Len(ed'.line) :
                /\ ed'.line = SubSeq(ed.line, 1, i) \o SubSeq(ed.line, i + lost + 1, Len(ed.line))
                /\ ed'.yanked = SubSeq(ed.line, i + 1, i + lost)]_vars

(* The history is a queue: across prompts, searches and browsing nothing   *)
(* is changed, dropped or reordered in it, except that the oldest line     *)
(* goes when a slot is needed, and a new line comes behind the others.     *)
Saved == IF mode = "idle" THEN hist.lines ELSE Front(hist.lines)
HistoryIsQueue ==
    [][LET rest == IF Len(Saved) = HIST_SIZE THEN Tail(Saved) ELSE Saved
       IN  \/ Saved' \in {Saved, rest}
           \/ Saved' # NilStr /\ Front(Saved') = rest /\ Last(Saved') # NilStr]_vars

(* "Kill to end of line (or column [n])" (docs/atp.txt:1132): with a count *)
(* n, ^K takes what lies between the cursor and column n.                  *)
KillToColumn ==
    [][KillLine /\ repeat # NO_ARG =>
        LET n    == Min({repeat, End(ed)})
            from == Min({n, ed.point})
            to   == Max({n, ed.point})
        IN  ed'.line = SubSeq(ed.line, 1, from) \o SubSeq(ed.line, to + 1, End(ed))]_vars
=============================================================================
