------------------------------- MODULE Encode -------------------------------
(***************************************************************************)
(* The text of a reply: from the file the editor wrote to the blocks of    *)
(* the reply conference (Kode* of makemail.c), and back to a file when the *)
(* reply is changed (StripTag of reply.c).                                 *)
(*                                                                         *)
(* A text is a sequence of characters.  An encoded text carries the two    *)
(* counters the code keeps beside it, CountBlocks (which counts the header *)
(* as a block) and CountRecordChars, the characters in the last block.     *)
(* The code's counts of 128 and 80 are the constants.                      *)
(***************************************************************************)
EXTENDS Integers, Sequences, SequencesExt

CONSTANTS
    block_SIZE,      \* characters in a block
    REPLY_LINE_LEN,  \* characters in a line of a reply
    QUOTE_COLS       \* columns of a quoted line

ASSUME EncodeAssumption ==
    /\ block_SIZE \in Nat /\ block_SIZE > 3      \* a long subject is shorter than a block
    /\ REPLY_LINE_LEN \in Nat \ {0} /\ QUOTE_COLS \in Nat

NL        == "newline"
CR        == "return"
SPC       == "space"
DOS_SPACE == "mark"         \* ends the text, before the tagline; also typed

\* Mutant of Put: a block is closed by its last character, not by the next.
PutEarly(e, ch) ==
    LET full == e.rec + 1 >= block_SIZE
    IN  [text |-> Append(e.text, ch), blocks |-> IF full THEN e.blocks + 1 ELSE e.blocks,
         rec |-> IF full THEN 1 ELSE e.rec + 1]

\* One more character, and the counters after it.
Put(e, ch) ==
    LET full == e.rec + 1 > block_SIZE
    IN  [text |-> Append(e.text, ch), blocks |-> IF full THEN e.blocks + 1 ELSE e.blocks,
         rec |-> IF full THEN 1 ELSE e.rec + 1]
PutAll(e, text) == FoldLeft(LAMBDA s, ch : Put(s, ch), e, text)

\* KodeSubj(): a long subject goes in front of the text, as a line and an
\* empty one; its first character depends on the style of the network.
Subject(fido) == <<IF fido THEN SPC ELSE DOS_SPACE, NL, NL>>
KodeSubj(long, fido) ==
    LET text == IF long THEN Subject(fido) ELSE <<>>
    IN  [text |-> text, blocks |-> 2, rec |-> Len(text)]

\* Mutant of Xlat: a typed DOS_SPACE goes into the text.
XlatRaw(ch) == ch

Xlat(ch) == IF ch = DOS_SPACE THEN SPC ELSE ch

\* KodeXlat(): a line that is too long is ended in place of its next
\* character; carriage returns count in it, and are left out.
KodeXlat(file) ==
    FoldLeft(LAMBDA s, ch :
                LET c == IF s.line >= REPLY_LINE_LEN THEN NL ELSE ch
                IN  [out  |-> IF c = CR THEN s.out ELSE Append(s.out, Xlat(c)),
                     line |-> IF c = NL THEN 0 ELSE s.line + 1],
             [out |-> <<>>, line |-> 0], file).out

\* KodeXlatFin(): the mark takes the place of the last newline.
KodeXlatFin(e) ==
    IF e.text \in {<<>>, <<NL>>}
    THEN [e EXCEPT !.text = <<SPC, DOS_SPACE>>, !.rec = 2]
    ELSE IF Last(e.text) = NL THEN [e EXCEPT !.text = Append(Front(@), DOS_SPACE)]
    ELSE Put(e, DOS_SPACE)

\* KodeMsgFin(): the tagline, and spaces up to the end of the block.
KodeMsgFin(e, tag) ==
    LET t == PutAll(e, tag)
    IN  [t EXCEPT !.text = @ \o [i \in 1..(block_SIZE - t.rec) |-> SPC], !.rec = block_SIZE]

\* KodeDo(): the encoded text.
Kode(file, long, fido, tag) ==
    KodeMsgFin(KodeXlatFin(PutAll(KodeSubj(long, fido), KodeXlat(file))), tag)

\* The part of a text before its first ch, or all of it.
Before(text, ch) ==
    LET i == SelectInSeq(text, LAMBDA c : c = ch)
    IN  IF i = 0 THEN text ELSE SubSeq(text, 1, i - 1)
Behind(text, n) == SubSeq(text, n + 1, Len(text))

\* StripTag(): the file for a reply that is changed.
StripTag(text, long) ==
    LET subj == Len(Before(text, NL)) + 1
        skip == IF ~long THEN 0 ELSE IF text[subj + 1] = NL THEN subj + 1 ELSE subj
        body == Behind(text, skip)
        kept == Before(body, DOS_SPACE)
    IN  IF kept = body THEN kept ELSE Append(kept, NL)

\* output_quoted_line(): every line of a message behind the quote, cut off.
QuoteMsg(text, quote) ==
    FoldLeft(LAMBDA s, ch :
                IF ch = NL THEN [out |-> s.out \o <<NL, quote>>, col |-> 1]
                ELSE [out |-> IF s.col < QUOTE_COLS THEN Append(s.out, Xlat(ch)) ELSE s.out,
                      col |-> s.col + 1],
             [out |-> <<quote>>, col |-> 1], text).out

(***************************************************************************)
(* What the encoding is for.                                               *)
(***************************************************************************)
\* No line of a file is longer than a reply's line may be.
FitsLines(file) ==
    \A i \in 1..(Len(file) - REPLY_LINE_LEN) : \E j \in i..(i + REPLY_LINE_LEN) : file[j] = NL

\* The file as its reader means it: no carriage returns, no foreign spaces,
\* a newline at the end, and not empty.
Normal(file, long) ==
    LET text == FoldLeft(LAMBDA out, c : IF c = CR THEN out
                                         ELSE Append(out, IF c = DOS_SPACE THEN SPC ELSE c),
                         <<>>, file)
    IN  IF text \in {<<>>, <<NL>>} THEN (IF long THEN <<NL>> ELSE <<SPC, NL>>)
        ELSE IF Last(text) = NL THEN text ELSE Append(text, NL)
=============================================================================
