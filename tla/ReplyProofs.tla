----------------------------- MODULE ReplyProofs -----------------------------
(***************************************************************************)
(* What holds of replies for any texts, taglines, habits and interrupts:   *)
(* no command leaves a child process behind or loses a text, a stored      *)
(* reply can be read back, and the packet has them all.                    *)
(***************************************************************************)
EXTENDS Reply, Induct, SequenceTheorems, TLAPS

\* Where fork_execvp() is at work.
Busy == {"fork", "forked", "wait", "reaped"}

Quiet == child = "none" /\ Proc_ID = FALSE /\ handler = "ignore" /\ sig = FALSE

(* NoChildLeft does not say how far fork_execvp() has come when it is at   *)
(* work: the handler is there only from the label wait on, so that it      *)
(* never runs before, and a child that was waited for is gone.             *)
ChildInv ==
    /\ pc \notin Busy \/ pc = "fork" => Quiet
    /\ pc = "forked" => handler = "ignore" /\ sig = FALSE
    /\ pc = "reaped" => child = "none"

\* A step of the rest of the program changes nothing of this.
LEMMA Elsewhere ==
    ASSUME ChildInv, pc \notin Busy, UNCHANGED <<child, Proc_ID, handler, sig>>
    PROVE  ChildInv'
  BY DEF ChildInv, Quiet, Busy

LEMMA InitQuiet == Init => ChildInv
  BY DEF Init, ChildInv, Quiet, Busy

LEMMA CommandKeeps == ASSUME ChildInv, Command PROVE ChildInv'
<1>1. ASSUME NEW m \in {"enter", "reply"}, Begin(m, 0) PROVE ChildInv'
  BY <1>1, Elsewhere DEF Begin, Busy
<1>2. ASSUME NEW m \in {"change", "xpost"}, NEW i \in DOMAIN cnf, Begin(m, i) PROVE ChildInv'
  BY <1>2, Elsewhere DEF Begin, Busy
<1>3. ASSUME NEW i \in DOMAIN cnf, Kill(i) PROVE ChildInv'
  BY <1>3, Elsewhere DEF Kill, Busy, childvars
<1>4. ASSUME PackReply PROVE ChildInv'
  BY <1>4, Elsewhere DEF PackReply, Busy
<1>5. ASSUME Unpack PROVE ChildInv'
  BY <1>5, Elsewhere DEF Unpack, Busy
<1>6. ASSUME TagCommand PROVE ChildInv'
  BY <1>6, Elsewhere DEF TagCommand, Busy, childvars
<1>7. QED
  BY <1>1, <1>2, <1>3, <1>4, <1>5, <1>6 DEF Command

LEMMA DialogueKeeps == ASSUME ChildInv, Dialogue PROVE ChildInv'
<1>1. ASSUME GetFrom \/ GetTo \/ GetSubj \/ GetSecurity PROVE ChildInv'
  <2>1. pc \notin Busy
    BY <1>1 DEF GetFrom, GetTo, GetSubj, GetSecurity, Busy
  <2>2. NoChange
    BY <1>1 DEF GetFrom, GetTo, GetSubj, GetSecurity
  <2>3. QED
    BY <2>1, <2>2, Elsewhere DEF NoChange, childvars
<1>2. ASSUME EditPP PROVE ChildInv'
  BY <1>2, Elsewhere DEF EditPP, Busy
<1>3. ASSUME CalledEditor PROVE ChildInv'
  BY <1>3, Elsewhere DEF CalledEditor, Busy
<1>4. ASSUME Edit PROVE ChildInv'
  BY <1>4, Elsewhere DEF Edit, Busy, childvars
<1>5. ASSUME Abort PROVE ChildInv'
  BY <1>5, Elsewhere DEF Abort, Busy, childvars
<1>6. ASSUME Save PROVE ChildInv'
  BY <1>6, Elsewhere DEF Save, Busy, childvars
<1>7. ASSUME SaveFido PROVE ChildInv'
  BY <1>7, Elsewhere DEF SaveFido, Busy, childvars
<1>8. ASSUME AddReply PROVE ChildInv'
  BY <1>8, Elsewhere DEF AddReply, Busy, childvars
<1>9. ASSUME Done PROVE ChildInv'
  BY <1>9, Elsewhere DEF Done, Busy
<1>10. ASSUME Packed \/ Unpacked PROVE ChildInv'
  BY <1>10, Elsewhere DEF Packed, Unpacked, Busy, childvars
<1>11. QED
  BY <1>1, <1>2, <1>3, <1>4, <1>5, <1>6, <1>7, <1>8, <1>9, <1>10 DEF Dialogue

\* wait() is repeated after a signal, and ends with the child only.
LEMMA WaitingKeeps == ASSUME ChildInv, Waiting PROVE ChildInv'
<1>1. ASSUME Fork PROVE ChildInv'
  BY <1>1 DEF Fork, ChildInv, Quiet, Busy
<1>2. ASSUME SetHandler PROVE ChildInv'
  BY <1>2 DEF SetHandler, ChildInv, Quiet, Busy
<1>3. ASSUME Wait PROVE ChildInv'
  BY <1>3 DEF Wait, AfterWait, ChildInv, Quiet, Busy
<1>4. ASSUME ForkReturns PROVE ChildInv'
  BY <1>4 DEF ForkReturns, ChildInv, Quiet, Busy
<1>5. ASSUME HandlerEnds PROVE ChildInv'
  <2>1. sig /\ sig # FALSE
    BY <1>5 DEF HandlerEnds
  <2>2. pc \in {"wait", "reaped"}
    BY <2>1 DEF ChildInv, Quiet, Busy
  <2>3. pc' = pc
    BY <1>5 DEF HandlerEnds, AfterWait
  <2>4. child' = Killed(child)
    BY <1>5 DEF HandlerEnds
  <2>5. QED
    BY <2>2, <2>3, <2>4 DEF ChildInv, Quiet, Busy, Killed
<1>6. QED
  BY <1>1, <1>2, <1>3, <1>4, <1>5 DEF Waiting

LEMMA ChildInvInductive == ASSUME ChildInv, [Next]_vars PROVE ChildInv'
<1>1. ASSUME ChildEnds PROVE ChildInv'
  BY <1>1 DEF ChildEnds, ChildInv, Quiet, Busy
<1>2. ASSUME Interrupt PROVE ChildInv'
  BY <1>2 DEF Interrupt, ChildInv, Quiet, Busy
<1>3. ASSUME UNCHANGED vars PROVE ChildInv'
  BY <1>3 DEF vars, childvars, ChildInv, Quiet, Busy
<1>4. QED
  BY <1>1, <1>2, <1>3, CommandKeeps, DialogueKeeps, WaitingKeeps DEF Next

(* Whatever the user, the signals and the children do, and however often   *)
(* wait() is interrupted: fork_execvp() (system.c) comes back with its     *)
(* child waited for, Proc_ID reset and SIGINT ignored.                     *)
THEOREM NoChildIsLeft == Spec => []NoChildLeft
<1>1. ChildInv => NoChildLeft
  BY DEF ChildInv, NoChildLeft, Quiet, Busy
<1>2. QED
  BY <1>1, InitQuiet, ChildInvInductive, PTL DEF Spec

(***************************************************************************)
(* The text of a reply.                                                    *)
(***************************************************************************)
(* A file that nobody has asked about can only be given up for a new one   *)
(* where the editor is called: there is none then, unless the user edits   *)
(* again.  Only a child writes to it, and none is at work then.            *)
Asking == {"from", "to", "subject", "security", "file"}
TextInv ==
    /\ ChildInv
    /\ habit \in Habits
    /\ \E S : cnf \in Seq(S)
    /\ pc \in Asking /\ ~reedit => fname = None

\* A reply of the list is replaced by another one.
LEMMA Replaced ==
    ASSUME NEW S, NEW s \in Seq(S), NEW i, NEW v
    PROVE  /\ [s EXCEPT ![i] = v] \in Seq(S \cup {v})
           /\ Len([s EXCEPT ![i] = v]) = Len(s)
<1> DEFINE t == [s EXCEPT ![i] = v]
<1>1. Len(s) \in Nat /\ s \in [1..Len(s) -> S]
  BY LenProperties
<1>2. t \in [1..Len(s) -> S \cup {v}]
  BY <1>1
<1>3. t \in Seq(S \cup {v})
  BY <1>1, <1>2
<1>4. Len(t) = Len(s)
  BY <1>1, <1>2, <1>3, LenProperties
<1>5. QED
  BY <1>3, <1>4

\* KodeWrite() adds the file as the last reply, whichever it replaces.
LEMMA Stored ==
    ASSUME NEW S, cnf \in Seq(S)
    PROVE  /\ \E T : Replies \in Seq(T)
           /\ Len(Replies) = Len(cnf) + 1
           /\ Last(Replies).typed = fname
<1> DEFINE all == Append(cnf, Encoded)
           T   == S \cup {Encoded}
           old == [all[from] EXCEPT !.killed = TRUE]
<1>1. Encoded.typed = fname
  BY DEF Encoded
<1>2. cnf \in Seq(T)
  OBVIOUS
<1>3. all \in Seq(T) /\ Len(all) = Len(cnf) + 1 /\ all[Len(cnf) + 1] = Encoded
  BY <1>2, AppendProperties
<1>4. CASE mode # "change"
  BY <1>1, <1>3, <1>4 DEF Replies, Last
<1>5. CASE mode = "change"
  <2>1. Replies = [all EXCEPT ![from] = old]
    BY <1>5 DEF Replies
  <2> HIDE DEF all, old, T
  <2>2. Replies \in Seq(T \cup {old}) /\ Len(Replies) = Len(all)
    <3>1. all \in Seq(T)
      BY <1>3
    <3>2. /\ [all EXCEPT ![from] = old] \in Seq(T \cup {old})
          /\ Len([all EXCEPT ![from] = old]) = Len(all)
      BY <3>1, Replaced
    <3>3. QED
      BY <3>2, <2>1
  <2>3. Len(all) \in Nat /\ DOMAIN all = 1..Len(all) /\ Len(all) = Len(cnf) + 1 /\ Len(cnf) \in Nat
    BY <1>2, <1>3, LenProperties
  <2>4. Len(all) \in DOMAIN all
    BY <2>3
  <2>5. Last(Replies) = IF from = Len(all) THEN old ELSE all[Len(all)]
    BY <2>1, <2>2, <2>4 DEF Last
  <2>6. from = Len(all) => old = [Encoded EXCEPT !.killed = TRUE]
    BY <1>3, <2>3 DEF old
  <2>7. [Encoded EXCEPT !.killed = TRUE].typed = fname
    BY DEF Encoded
  <2>8. QED
    BY <1>1, <1>3, <2>2, <2>3, <2>5, <2>6, <2>7
<1>6. QED
  BY <1>4, <1>5

\* A step that neither asks nor stores.
LEMMA Untouched ==
    ASSUME TextInv, ChildInv', UNCHANGED <<habit, cnf>>,
           pc' \in Asking /\ ~reedit' => fname' = None
    PROVE  TextInv'
  BY DEF TextInv

LEMMA InitText == Init => TextInv
<1>1. Init => ChildInv
  BY InitQuiet
<1>2. Init => cnf \in Seq({})
  BY DEF Init
<1>3. QED
  BY <1>1, <1>2 DEF Init, TextInv, Asking

LEMMA CommandKeepsText == ASSUME TextInv, Command PROVE TextInv'
<1>0. ChildInv'
  BY CommandKeeps DEF TextInv
<1>1. ASSUME NEW m \in {"enter", "reply"}, Begin(m, 0) PROVE TextInv'
  BY <1>0, <1>1, Untouched DEF Begin, fixed, confvars
<1>2. ASSUME NEW m \in {"change", "xpost"}, NEW i \in DOMAIN cnf, Begin(m, i) PROVE TextInv'
  BY <1>0, <1>2, Untouched DEF Begin, fixed, confvars
<1>3. ASSUME NEW i \in DOMAIN cnf, Kill(i) PROVE TextInv'
  <2>1. PICK S : cnf \in Seq(S)
    BY DEF TextInv
  <2> DEFINE v == [cnf[i] EXCEPT !.killed = ~@]
  <2>2. cnf' = [cnf EXCEPT ![i] = v] /\ UNCHANGED <<habit, pc, reedit, fname>>
    BY <1>3 DEF Kill, fixed, textvars
  <2> HIDE DEF v
  <2>3. cnf' \in Seq(S \cup {v})
    BY <2>1, <2>2, Replaced
  <2>4. QED
    BY <1>0, <2>2, <2>3 DEF TextInv
<1>4. ASSUME PackReply PROVE TextInv'
  BY <1>0, <1>4, Untouched DEF PackReply, Call, fixed, textvars, confvars, Asking
<1>5. ASSUME Unpack PROVE TextInv'
  BY <1>0, <1>5, Untouched DEF Unpack, Call, fixed, textvars, confvars, Asking
<1>6. ASSUME TagCommand PROVE TextInv'
  BY <1>0, <1>6, Untouched DEF TagCommand, fixed, textvars, confvars, Asking
<1>7. QED
  BY <1>1, <1>2, <1>3, <1>4, <1>5, <1>6 DEF Command

LEMMA DialogueKeepsText == ASSUME TextInv, Dialogue PROVE TextInv'
<1>0. ChildInv'
  BY DialogueKeeps DEF TextInv
<1>1. ASSUME GetFrom \/ GetTo \/ GetSubj \/ GetSecurity PROVE TextInv'
  <2>1. pc \in Asking /\ UNCHANGED fname /\ NoChange
    BY <1>1 DEF GetFrom, GetTo, GetSubj, GetSecurity, Asking
  <2>2. QED
    BY <1>0, <2>1, Untouched DEF TextInv, NoChange, fixed, confvars
<1>2. ASSUME EditPP PROVE TextInv'
  BY <1>0, <1>2, Untouched DEF EditPP, Call, Asking, fixed, confvars
<1>3. ASSUME CalledEditor PROVE TextInv'
  BY <1>0, <1>3, Untouched DEF CalledEditor, Call, Asking, fixed, textvars, confvars
<1>4. ASSUME Edit \/ Abort \/ Save \/ SaveFido PROVE TextInv'
  BY <1>0, <1>4, Untouched DEF Edit, Abort, Save, SaveFido, Asking, fixed, confvars
<1>5. ASSUME AddReply PROVE TextInv'
  <2>1. PICK S : cnf \in Seq(S)
    BY DEF TextInv
  <2>2. cnf' = cnf \/ cnf' = Replies
    BY <1>5 DEF AddReply, KodeMessage, KodeWrite
  <2>3. \E T : cnf' \in Seq(T)
    BY <2>1, <2>2, Stored
  <2>4. QED
    BY <1>0, <1>5, <2>3 DEF AddReply, TextInv, Asking, fixed
<1>6. ASSUME Done \/ Packed \/ Unpacked PROVE TextInv'
  BY <1>0, <1>6, Untouched DEF Done, Packed, Unpacked, Asking, fixed, textvars, confvars
<1>7. QED
  BY <1>1, <1>2, <1>3, <1>4, <1>5, <1>6 DEF Dialogue

LEMMA TextInvInductive == ASSUME TextInv, [Next]_vars PROVE TextInv'
<1>0. ChildInv'
  BY ChildInvInductive DEF TextInv
<1>1. ASSUME Waiting PROVE TextInv'
  <2>1. UNCHANGED <<habit, cnf, fname, reedit>> /\ (pc' \notin Asking \/ pc' = pc)
    BY <1>1 DEF Waiting, Fork, SetHandler, Wait, ForkReturns, HandlerEnds, AfterWait, Asking,
                fixed, textvars, confvars
  <2>2. QED
    BY <1>0, <2>1, Untouched DEF TextInv
<1>2. ASSUME ChildEnds PROVE TextInv'
  <2>1. child = "running" /\ UNCHANGED <<habit, cnf, pc>>
    BY <1>2 DEF ChildEnds, fixed, confvars
  <2>2. pc' \notin Asking
    BY <2>1 DEF TextInv, ChildInv, Quiet, Busy, Asking
  <2>3. QED
    BY <1>0, <2>1, <2>2, Untouched
<1>3. ASSUME Interrupt PROVE TextInv'
  BY <1>0, <1>3, Untouched DEF TextInv, Interrupt, fixed, textvars, confvars
<1>4. ASSUME UNCHANGED vars PROVE TextInv'
  BY <1>0, <1>4, Untouched DEF TextInv, vars, fixed, textvars, confvars
<1>5. QED
  BY <1>1, <1>2, <1>3, <1>4, CommandKeepsText, DialogueKeepsText DEF Next

\* What TextKept says of a step.
Kept ==
    fname # None /\ fname' = None /\ pc # "prompt" =>
        \/ pc = "ask"
        \/ Can("diskfull")
        \/ Len(cnf') = Len(cnf) + 1 /\ Last(cnf').typed = fname

LEMMA StepKeepsText == ASSUME TextInv, [Next]_vars PROVE [Kept]_vars
<1> SUFFICES ASSUME Next, fname # None, fname' = None, pc # "prompt", pc # "ask",
                    ~Can("diskfull")
             PROVE  Len(cnf') = Len(cnf) + 1 /\ Last(cnf').typed = fname
  BY DEF Kept
<1>1. CASE AddReply
  <2>1. PICK S : cnf \in Seq(S)
    BY DEF TextInv
  <2>2. cnf' = Replies
    BY <1>1 DEF AddReply, KodeMessage, KodeWrite
  <2>3. QED
    BY <2>1, <2>2, Stored
<1>2. ASSUME EditPP PROVE FALSE
  <2>1. reedit
    BY <1>2 DEF EditPP, TextInv, Asking
  <2>2. QED
    BY <1>2, <2>1 DEF EditPP
<1>3. ASSUME ChildEnds PROVE FALSE
  <2>1. fname' \in habit.texts \cup {fname}
    BY <1>3 DEF ChildEnds, ChildEffect
  <2>2. None \notin habit.texts
    BY ReplyAssumption DEF TextInv
  <2>3. QED
    BY <2>1, <2>2
<1>4. ASSUME Waiting \/ Interrupt PROVE FALSE
  BY <1>4 DEF Waiting, Fork, SetHandler, Wait, ForkReturns, HandlerEnds, Interrupt, textvars
<1>5. ASSUME Command PROVE FALSE
  <2>1. TagCommand
    BY <1>5 DEF Command, Begin, Kill, PackReply, Unpack
  <2>2. QED
    BY <2>1 DEF TagCommand, textvars
<1>6. ASSUME Dialogue, ~AddReply, ~EditPP PROVE FALSE
  BY <1>6 DEF Dialogue, GetFrom, GetTo, GetSubj, GetSecurity, CalledEditor, Edit, Abort, Save,
              SaveFido, Done, Packed, Unpacked, textvars
<1>7. QED
  BY <1>1, <1>2, <1>3, <1>4, <1>5, <1>6 DEF Next

(* However the dialogue goes, and whatever fails or is interrupted in it,  *)
(* the file with a reply is gone only when its text is the last reply of   *)
(* the conference, when the user has aborted, or when the disk was full.   *)
THEOREM TextIsKept == Spec => TextKept
  BY InitText, TextInvInductive, StepKeepsText, PTL DEF Spec, TextKept, Kept

(***************************************************************************)
(* Taglines.                                                               *)
(***************************************************************************)
\* STRING holds the marks too; the provers have to be told.
Char == STRING \cup {NL, CR, SPC, DOS_SPACE, "*", "#", "quote"}
Text == Seq(Char)

LEMMA Marks ==
  /\ NL \in Char /\ CR \in Char /\ SPC \in Char /\ DOS_SPACE \in Char /\ LF \in Char
  /\ "*" \in Char /\ "#" \in Char /\ "quote" \in Char
  BY DEF Char, NL, LF

LEMMA Strings == Seq(STRING) \subseteq Text
  <1>1. \A t \in Seq(STRING) : t \in Seq(Char)
    BY SeqMonotonic DEF Char
  <1> QED
    BY <1>1 DEF Text

\* The first n characters of a text.
First(w, n) == SubSeq(w, 1, IF n < Len(w) THEN n ELSE Len(w))

\* A tagline in a style, with the words w cut off behind n characters.
Line(style, w, n) == Prefix(style) \o First(w, n) \o <<LF>>

LEMMA PrefixIs ==
  ASSUME NEW style
  PROVE  Prefix(style) \in Text /\ Len(Prefix(style)) = 2
  <1>1. FidoTag \in Seq(Char) /\ Len(FidoTag) = 2
    BY Marks DEF FidoTag
  <1>2. PcbTag \in Seq(Char) /\ Len(PcbTag) = 2
    BY Marks DEF PcbTag
  <1> QED
    BY <1>1, <1>2 DEF Prefix, Text

LEMMA LineEnd == <<LF>> \in Text /\ Len(<<LF>>) = 1
  BY Marks DEF Text

LEMMA FirstIs ==
  ASSUME NEW w \in Text, NEW n \in Nat
  PROVE  First(w, n) \in Text /\ Len(First(w, n)) = IF n < Len(w) THEN n ELSE Len(w)
  <1> DEFINE k == IF n < Len(w) THEN n ELSE Len(w)
  <1>1. w \in Seq(Char) /\ k \in Nat /\ k <= Len(w)
    BY DEF Text
  <1>2. First(w, n) = SubSeq(w, 1, k)
    BY DEF First
  <1> HIDE DEF k
  <1>3. SubSeq(w, 1, k) \in Seq(Char) /\ Len(SubSeq(w, 1, k)) = k
    BY <1>1
  <1> QED
    BY <1>2, <1>3 DEF k, Text

\* What stands behind a prefix, and what stands before the end.
LEMMA TailOf ==
  ASSUME NEW p \in Text, NEW t \in Text
  PROVE  SubSeq(p \o t, Len(p) + 1, Len(p \o t)) = t
  <1> DEFINE c == p \o t
             a == Len(p) + 1
             b == Len(p) + Len(t)
             u == SubSeq(c, a, b)
  <1>1. /\ p \in Seq(Char) /\ t \in Seq(Char) /\ Len(p) \in Nat /\ Len(t) \in Nat
        /\ c \in Seq(Char) /\ Len(c) = b
        /\ \A i \in 1..Len(t) : c[Len(p) + i] = t[i]
    <2>1. p \in Seq(Char) /\ t \in Seq(Char) /\ Len(p) \in Nat /\ Len(t) \in Nat
      BY DEF Text
    <2> QED
      BY <2>1
  <1> HIDE DEF c
  <1>2. /\ u \in Seq(Char) /\ Len(u) = Len(t)
        /\ \A i \in 1..Len(t) : u[i] = c[Len(p) + i]
    BY <1>1
  <1> HIDE DEF u
  <1>3. u = t
    BY <1>1, <1>2, SeqEqual
  <1> QED
    BY <1>1, <1>3 DEF u, c

\* Changing the style keeps the words.
LEMMA Restyled ==
  ASSUME NEW style, NEW new, NEW w \in Text, NEW n \in Nat
  PROVE  Prefix(new) \o SubSeq(Line(style, w, n), Len(Prefix(style)) + 1, Len(Line(style, w, n)))
           = Line(new, w, n)
  <1> DEFINE f == First(w, n)
             t == f \o <<LF>>
             p == Prefix(style)
             q == Prefix(new)
  <1>1. p \in Text /\ q \in Text /\ f \in Text /\ <<LF>> \in Text
    BY PrefixIs, FirstIs, LineEnd
  <1>2. t \in Text
    BY <1>1 DEF Text
  <1> HIDE DEF t, f, p, q
  <1>3. p \o t = (p \o f) \o <<LF>> /\ q \o t = (q \o f) \o <<LF>>
    BY <1>1, ConcatAssociative DEF t, Text
  <1>4. SubSeq(p \o t, Len(p) + 1, Len(p \o t)) = t
    BY <1>1, <1>2, TailOf
  <1> QED
    BY <1>3, <1>4 DEF Line, p, q, f

\* A whole tagline.
LEMMA Whole ==
  ASSUME NEW style, NEW w \in Text
  PROVE  Prefix(style) \o Append(w, LF) = Line(style, w, Len(w))
  <1>1. First(w, Len(w)) = w
    <2>1. w \in Seq(Char) /\ Len(w) \in Nat
      BY DEF Text
    <2> QED
      BY <2>1, SubSeqFull DEF First
  <1>2. Append(w, LF) = w \o <<LF>>
    <2>1. w \in Seq(Char) /\ LF \in Char
      BY Marks DEF Text
    <2> QED
      BY <2>1, AppendIsConcat
  <1>3. (Prefix(style) \o w) \o <<LF>> = Prefix(style) \o (w \o <<LF>>)
    <2>1. Prefix(style) \in Seq(Char) /\ w \in Seq(Char) /\ <<LF>> \in Seq(Char)
      BY PrefixIs, LineEnd DEF Text
    <2> QED
      BY <2>1, ConcatAssociative
  <1> QED
    BY <1>1, <1>2, <1>3 DEF Line

LEMMA LineIs ==
  ASSUME NEW style, NEW w \in Text, NEW n \in Nat
  PROVE  /\ Line(style, w, n) \in Text
         /\ Len(Line(style, w, n)) = (IF n < Len(w) THEN n ELSE Len(w)) + 3
  <1> DEFINE p == Prefix(style)
             f == First(w, n)
             k == IF n < Len(w) THEN n ELSE Len(w)
  <1>1. p \in Text /\ Len(p) = 2 /\ f \in Text /\ Len(f) = k /\ <<LF>> \in Text /\ k \in Nat
    <2>1. Len(w) \in Nat
      BY DEF Text
    <2> QED
      BY <2>1, PrefixIs, FirstIs, LineEnd
  <1> HIDE DEF p, f, k
  <1>2. p \o f \in Seq(Char) /\ Len(p \o f) = 2 + k
    <2>1. p \in Seq(Char) /\ f \in Seq(Char)
      BY <1>1 DEF Text
    <2>2. p \o f \in Seq(Char) /\ Len(p \o f) = Len(p) + Len(f)
      BY <2>1, ConcatProperties
    <2> QED
      BY <1>1, <2>2
  <1>3. (p \o f) \o <<LF>> \in Seq(Char) /\ Len((p \o f) \o <<LF>>) = (2 + k) + 1
    <2>1. <<LF>> \in Seq(Char) /\ Len(<<LF>>) = 1
      BY <1>1 DEF Text
    <2>2. Len((p \o f) \o <<LF>>) = Len(p \o f) + Len(<<LF>>) /\ (p \o f) \o <<LF>> \in Seq(Char)
      BY <1>2, <2>1, ConcatProperties
    <2> QED
      BY <1>2, <2>1, <2>2
  <1>4. (2 + k) + 1 = k + 3
    BY <1>1
  <1> QED
    BY <1>3, <1>4 DEF Line, p, f, k, Text

\* A tagline in a style, whole or cut off for one of the limits (TagKeepsStyle).
Styled(tag, style) ==
    \E w \in Words \cup {<<>>} : \E n \in {Len(w), TLMX - 1, TAG_END - 2} :
        tag = Line(style, w, n)

LEMMA WordsAreText ==
  /\ \A w \in Words \cup {<<>>} : w \in Text /\ Len(w) \in Nat
  /\ TLMX - 1 \in Nat /\ TAG_END - 2 \in Nat
  <1>1. \A w \in Words : w \in Text
    BY TagAssumption, Strings
  <1>2. <<>> \in Text
    BY DEF Text
  <1>3. \A w \in Text : Len(w) \in Nat
    BY DEF Text
  <1>4. TLMX - 1 \in Nat /\ TAG_END - 2 \in Nat
    BY TagAssumption
  <1> QED
    BY <1>1, <1>2, <1>3, <1>4

LEMMA StyledIs ==
  ASSUME NEW style, NEW tag, Styled(tag, style)
  PROVE  tag \in Text
  BY WordsAreText, LineIs DEF Styled

LEMMA WholeStyled ==
  ASSUME NEW style, NEW w \in Words \cup {<<>>}
  PROVE  Styled(Prefix(style) \o Append(w, LF), style)
  BY WordsAreText, Whole DEF Styled

\* BuildNewTag() gives a line of the file the style.
LEMMA BuildStyled ==
  ASSUME NEW w \in Words
  PROVE  Styled(BuildNewTag(w), fido)
  <1>1. Len(w) \in Nat /\ TLMX - 1 \in Nat /\ TLMX \in Int
    BY WordsAreText, TagAssumption
  <1>2. (IF Len(w) < TLMX THEN Len(w) ELSE TLMX - 1) = IF TLMX - 1 < Len(w) THEN TLMX - 1 ELSE Len(w)
    BY <1>1
  <1>3. BuildNewTag(w) = Line(fido, w, TLMX - 1)
    BY <1>2, Zenon DEF BuildNewTag, Line, First
  <1> QED
    BY <1>3 DEF Styled

LEMMA SeekStyled ==
  ASSUME taglines \in Seq(Words), NEW n \in Nat, n < Len(taglines)
  PROVE  Styled(TagSeek(n), fido)
  <1>1. n + 1 \in 1..Len(taglines)
    OBVIOUS
  <1>2. taglines[n + 1] \in Words
    BY <1>1
  <1> QED
    BY <1>2, BuildStyled DEF TagSeek

LEMMA ChooseStyled ==
  ASSUME taglines \in Seq(Words), Styled(CurTag, fido) \/ taglines # <<>>, NEW t \in ChooseTag
  PROVE  Styled(t, fido)
  <1>1. CASE taglines = <<>>
    BY <1>1 DEF ChooseTag
  <1>2. CASE taglines # <<>>
    <2>1. PICK n \in 0..(Len(taglines) - 1) : t = TagSeek(n)
      BY <1>2 DEF ChooseTag
    <2>2. n \in Nat /\ n < Len(taglines)
      OBVIOUS
    <2> QED
      BY <2>1, <2>2, SeekStyled
  <1> QED
    BY <1>1, <1>2

LEMMA Joined ==
  ASSUME NEW S, NEW p \in Seq(S), Len(p) = 2, NEW t \in Seq(S)
  PROVE  /\ p \o t \in Seq(S) /\ Len(p \o t) = Len(t) + 2
         /\ \A i \in 1..(Len(t) + 2) : (p \o t)[i] = IF i <= 2 THEN p[i] ELSE t[i - 2]
  <1>1. p \o t \in Seq(S) /\ Len(p \o t) = Len(p) + Len(t) /\ Len(t) \in Nat
    BY ConcatProperties, LenProperties
  <1>2. \A i \in 1..(Len(p) + Len(t)) : (p \o t)[i] = IF i <= Len(p) THEN p[i] ELSE t[i - Len(p)]
    BY ConcatProperties, Zenon
  <1>3. Len(p) + Len(t) = Len(t) + 2
    <2> DEFINE n == Len(t)
    <2>1. n \in Nat
      BY <1>1
    <2> HIDE DEF n
    <2>2. 2 + n = n + 2
      BY <2>1
    <2> QED
      BY <2>2 DEF n
  <1>4. \A i \in 1..(Len(t) + 2) : (p \o t)[i] = IF i <= 2 THEN p[i] ELSE t[i - 2]
    BY <1>2, <1>3, Zenon
  <1> QED
    BY <1>1, <1>3, <1>4

\* get_CurTag() cuts a long tagline behind its prefix and some of its words.
LEMMA CutAt ==
  ASSUME NEW p \in Text, Len(p) = 2, NEW f \in Text, NEW m \in Nat, m <= Len(f)
  PROVE  SubSeq((p \o f) \o <<LF>>, 1, m + 2) = p \o SubSeq(f, 1, m)
  <1> DEFINE pf == p \o f
             all == pf \o <<LF>>
             g == SubSeq(f, 1, m)
             k == m + 2
             s == SubSeq(all, 1, k)
             t == p \o g
  <1>1. /\ p \in Seq(Char) /\ f \in Seq(Char) /\ Len(f) \in Nat /\ k \in Nat /\ k <= Len(f) + 2
        /\ <<LF>> \in Seq(Char) /\ Len(<<LF>>) = 1
    BY LineEnd DEF Text
  <1>2. /\ pf \in Seq(Char) /\ Len(pf) = Len(f) + 2
        /\ \A i \in 1..(Len(f) + 2) : pf[i] = IF i <= 2 THEN p[i] ELSE f[i - 2]
    BY <1>1, Joined
  <1> HIDE DEF pf
  <1>3. /\ all \in Seq(Char) /\ Len(all) = Len(f) + 3
        /\ \A i \in 1..(Len(f) + 2) : all[i] = pf[i]
    BY <1>1, <1>2
  <1> HIDE DEF all
  <1>4. g \in Seq(Char) /\ Len(g) = m /\ \A i \in 1..m : g[i] = f[i]
    BY <1>1
  <1> HIDE DEF g
  <1>5. /\ t \in Seq(Char) /\ Len(t) = m + 2
        /\ \A i \in 1..(m + 2) : t[i] = IF i <= 2 THEN p[i] ELSE g[i - 2]
    BY <1>1, <1>4, Joined
  <1> HIDE DEF t
  <1>6. s \in Seq(Char) /\ Len(s) = k /\ \A i \in 1..k : s[i] = all[i]
    <2> HIDE DEF k
    <2> QED
      BY <1>1, <1>3
  <1> HIDE DEF s
  <1>7. \A i \in 1..Len(s) : s[i] = t[i]
    <2> SUFFICES ASSUME NEW i \in 1..(m + 2) PROVE s[i] = t[i]
      BY <1>6
    <2>1. i \in 1..(Len(f) + 2) /\ i \in 1..k /\ (~ (i <= 2) => i - 2 \in 1..m)
      BY <1>1
    <2>2. s[i] = IF i <= 2 THEN p[i] ELSE f[i - 2]
      BY <1>2, <1>3, <1>6, <2>1
    <2>3. t[i] = IF i <= 2 THEN p[i] ELSE f[i - 2]
      BY <1>4, <1>5, <2>1
    <2> QED
      BY <2>2, <2>3
  <1>8. s = t
    BY <1>5, <1>6, <1>7, SeqEqual
  <1> QED
    BY <1>8 DEF s, t, all, pf, g, k

LEMMA CutStyled ==
  ASSUME NEW style, NEW tag, Styled(tag, style)
  PROVE  Styled(Cut(tag), style)
  <1>0. PICK w \in Words \cup {<<>>} : \E n \in {Len(w), TLMX - 1, TAG_END - 2} :
          tag = Line(style, w, n)
    BY DEF Styled
  <1>1. PICK n \in {Len(w), TLMX - 1, TAG_END - 2} : tag = Line(style, w, n)
    BY <1>0
  <1>2. w \in Text /\ Len(w) \in Nat /\ n \in Nat /\ TAG_END - 2 \in Nat /\ TAG_END \in Nat
    BY WordsAreText, TagAssumption
  <1>3. CASE ~ (Len(tag) > TAG_END)
    BY <1>3 DEF Cut
  <1>4. CASE Len(tag) > TAG_END
    <2> DEFINE m == TAG_END - 2
               f == First(w, n)
               k == IF n < Len(w) THEN n ELSE Len(w)
               p == Prefix(style)
    <2>1. p \in Text /\ Len(p) = 2 /\ f \in Text /\ Len(f) = k /\ k \in Nat /\ k <= Len(w)
      BY <1>2, PrefixIs, FirstIs
    <2>2. m \in Nat /\ m <= k /\ m <= Len(w) /\ TAG_END = m + 2
      <3>1. Len(tag) = k + 3
        BY <1>1, <1>2, LineIs
      <3> HIDE DEF k
      <3> QED
        BY <1>2, <1>4, <2>1, <3>1
    <2>3. SubSeq(tag, 1, TAG_END) = p \o SubSeq(f, 1, m)
      <3>1. tag = (p \o f) \o <<LF>>
        BY <1>1 DEF Line
      <3> HIDE DEF p, f, m
      <3> QED
        BY <2>1, <2>2, <3>1, CutAt
    <2>4. SubSeq(f, 1, m) = First(w, m)
      <3>1. f = SubSeq(w, 1, k)
        BY DEF First
      <3> HIDE DEF f, k, m
      <3>2. w \in Seq(Char)
        BY <1>2 DEF Text
      <3>3. SubSeq(SubSeq(w, 1, k), 1, m) = SubSeq(w, 1, m)
        BY <2>1, <2>2, <3>2
      <3>4. First(w, m) = SubSeq(w, 1, m)
        <4>1. (IF m < Len(w) THEN m ELSE Len(w)) = m
          BY <1>2, <2>2
        <4> QED
          BY <4>1 DEF First
      <3> QED
        BY <3>1, <3>3, <3>4
    <2>5. Cut(tag) = Append(p \o First(w, m), LF)
      BY <1>4, <2>3, <2>4 DEF Cut
    <2>6. Append(p \o First(w, m), LF) = (p \o First(w, m)) \o <<LF>>
      <3> DEFINE q == p \o First(w, m)
      <3>1. p \in Seq(Char) /\ First(w, m) \in Seq(Char)
        BY <1>2, <2>1, <2>2, FirstIs DEF Text
      <3>2. q \in Seq(Char) /\ LF \in Char
        BY <3>1, ConcatProperties, Marks
      <3> HIDE DEF q
      <3>3. Append(q, LF) = q \o <<LF>>
        BY <3>2, AppendIsConcat
      <3> QED
        BY <3>3 DEF q
    <2>7. Cut(tag) = Line(style, w, m)
      BY <2>5, <2>6 DEF Line
    <2> QED
      BY <2>7 DEF Styled
  <1> QED
    BY <1>3, <1>4

(***************************************************************************)
(* The loops of the encoding, and what they compute.                       *)
(***************************************************************************)
XlatStep(s, ch) ==
  LET c == IF s.line >= REPLY_LINE_LEN THEN NL ELSE ch
  IN  [out  |-> IF c = CR THEN s.out ELSE Append(s.out, Xlat(c)),
       line |-> IF c = NL THEN 0 ELSE s.line + 1]
QuoteStep(s, ch) ==
  IF ch = NL THEN [out |-> s.out \o <<NL, "quote">>, col |-> 1]
  ELSE [out |-> IF s.col < QUOTE_COLS THEN Append(s.out, Xlat(ch)) ELSE s.out,
        col |-> s.col + 1]
SumStep(n, m) == n + Len(m.text) + block_SIZE
ExportStep(out, m) == IF m.killed THEN out ELSE Append(out, m)

Puts    == INSTANCE LeftFold WITH Op <- Put
Xlats   == INSTANCE LeftFold WITH Op <- XlatStep
Quotes  == INSTANCE LeftFold WITH Op <- QuoteStep
Sums    == INSTANCE LeftFold WITH Op <- SumStep
Exports == INSTANCE LeftFold WITH Op <- ExportStep

LEMMA PutAllIs ==
  ASSUME NEW e, NEW s
  PROVE  PutAll(e, s) = Puts!Fold(e, s)
  BY Zenon DEF PutAll, Puts!Fold, FoldLeft, MapThenFoldSet, Max,
               Puts!FoldLeft, Puts!MapThenFoldSet, Puts!Max

LEMMA KodeXlatIs ==
  ASSUME NEW s
  PROVE  KodeXlat(s) = Xlats!Fold([out |-> <<>>, line |-> 0], s).out
  BY Zenon DEF KodeXlat, XlatStep, Xlats!Fold, FoldLeft, MapThenFoldSet, Max,
               Xlats!FoldLeft, Xlats!MapThenFoldSet, Xlats!Max

LEMMA QuoteMsgIs ==
  ASSUME NEW s
  PROVE  QuoteMsg(s, "quote") = Quotes!Fold([out |-> <<"quote">>, col |-> 1], s).out
  BY Zenon DEF QuoteMsg, QuoteStep, Quotes!Fold, FoldLeft, MapThenFoldSet, Max,
               Quotes!FoldLeft, Quotes!MapThenFoldSet, Quotes!Max

LEMMA SumIs ==
  ASSUME NEW s
  PROVE  Sum(s) = Sums!Fold(0, s)
  BY Zenon DEF Sum, SumStep, Sums!Fold, FoldLeft, MapThenFoldSet, Max,
               Sums!FoldLeft, Sums!MapThenFoldSet, Sums!Max

LEMMA ExportedIs ==
  ASSUME NEW n
  PROVE  Exported(n) = Exports!Fold(<<>>, SubSeq(cnf, 1, n))
  BY Zenon DEF Exported, ExportStep, Exports!Fold, FoldLeft, MapThenFoldSet, Max,
               Exports!FoldLeft, Exports!MapThenFoldSet, Exports!Max

LEMMA XlatType ==
  ASSUME NEW ch \in Char
  PROVE  Xlat(ch) \in Char
  BY Marks DEF Xlat

LEMMA AppendText ==
  ASSUME NEW t \in Text, NEW ch \in Char
  PROVE  Append(t, ch) \in Text /\ Len(Append(t, ch)) = Len(t) + 1
  BY AppendProperties DEF Text

\* Translated text is text.
LEMMA KodeXlatType ==
  ASSUME NEW file \in Text
  PROVE  KodeXlat(file) \in Text
  <1> DEFINE D == [out : Text, line : Nat]
             x == [out |-> <<>>, line |-> 0]
  <1>1. x \in D
    BY DEF Text
  <1>2. ASSUME NEW s \in D, NEW ch \in Char
        PROVE  XlatStep(s, ch) \in D
    <2> DEFINE c == IF s.line >= REPLY_LINE_LEN THEN NL ELSE ch
               out == IF c = CR THEN s.out ELSE Append(s.out, Xlat(c))
               line == IF c = NL THEN 0 ELSE s.line + 1
    <2>1. c \in Char /\ s.out \in Text /\ s.line \in Nat
      BY Marks
    <2>2. XlatStep(s, ch) = [out |-> out, line |-> line]
      BY DEF XlatStep
    <2> HIDE DEF c
    <2>3. out \in Text
      BY <2>1, XlatType, AppendText
    <2>4. line \in Nat
      BY <2>1
    <2> HIDE DEF out, line
    <2> QED
      BY <2>2, <2>3, <2>4
  <1>3. file \in Seq(Char)
    BY DEF Text
  <1> HIDE DEF D
  <1>4. Xlats!Fold(x, file) \in D
    BY <1>1, <1>2, <1>3, Xlats!FoldStays
  <1> QED
    BY <1>4, KodeXlatIs DEF D

\* A quoted message is text.
LEMMA QuoteType == QuoteMsg(Received, "quote") \in Text
  <1> DEFINE D == [out : Text, col : Nat]
             x == [out |-> <<"quote">>, col |-> 1]
  <1>1. x \in D
    <2>1. <<"quote">> \in Text
      BY Marks DEF Text
    <2> QED
      BY <2>1
  <1>2. ASSUME NEW s \in D, NEW ch \in Char
        PROVE  QuoteStep(s, ch) \in D
    <2>1. s.out \in Text /\ s.col \in Nat /\ s.col + 1 \in Nat
      OBVIOUS
    <2>2. s.out \o <<NL, "quote">> \in Text
      <3>1. <<NL, "quote">> \in Seq(Char)
        BY Marks
      <3> QED
        BY <2>1, <3>1, ConcatProperties DEF Text
    <2>3. Append(s.out, Xlat(ch)) \in Text
      BY <2>1, XlatType, AppendText
    <2> QED
      BY <2>1, <2>2, <2>3 DEF QuoteStep
  <1>3. Received \in Seq(Char)
    BY ReplyAssumption, Strings DEF Text
  <1> HIDE DEF D
  <1>4. Quotes!Fold(x, Received) \in D
    BY <1>1, <1>2, <1>3, Quotes!FoldStays
  <1> QED
    BY <1>4, QuoteMsgIs DEF D

(***************************************************************************)
(* The counters that go with an encoded text: the header is one block, and *)
(* rec characters are in the last one.                                     *)
(***************************************************************************)
Coded == {e \in [text : Text, blocks : Nat, rec : Nat] :
            /\ e.blocks >= 2 /\ e.rec <= block_SIZE
            /\ e.blocks > 2 => e.rec >= 1
            /\ Len(e.text) = block_SIZE * (e.blocks - 2) + e.rec}

LEMMA BlockMore ==
  ASSUME NEW k \in Nat
  PROVE  block_SIZE * (k + 1) = block_SIZE * k + block_SIZE /\ block_SIZE * k \in Nat
  BY EncodeAssumption

LEMMA PutCoded ==
  ASSUME NEW e \in Coded, NEW ch \in Char
  PROVE  Put(e, ch) \in Coded
  <1> DEFINE t == Append(e.text, ch)
             k == e.blocks - 2
             r == e.rec
  <1>1. /\ e.text \in Text /\ e.blocks \in Nat /\ r \in Nat /\ k \in Nat /\ r <= block_SIZE
        /\ e.blocks = k + 2 /\ Len(e.text) = block_SIZE * k + r
        /\ e.blocks > 2 => r >= 1
    BY DEF Coded
  <1>2. t \in Text /\ Len(t) = Len(e.text) + 1
    BY <1>1, AppendText
  <1>3. block_SIZE * (k + 1) = block_SIZE * k + block_SIZE /\ block_SIZE * k \in Nat /\ block_SIZE \in Nat
        /\ block_SIZE > 3
    BY <1>1, BlockMore, EncodeAssumption
  <1>4. Put(e, ch) = [text |-> t, blocks |-> IF r + 1 > block_SIZE THEN e.blocks + 1 ELSE e.blocks,
                      rec |-> IF r + 1 > block_SIZE THEN 1 ELSE r + 1]
    BY DEF Put
  <1> HIDE DEF t, k, r
  <1>5. CASE r + 1 > block_SIZE
    <2> DEFINE p == [text |-> t, blocks |-> e.blocks + 1, rec |-> 1]
    <2>1. p \in [text : Text, blocks : Nat, rec : Nat]
      BY <1>1, <1>2
    <2>2. Len(t) = block_SIZE * (k + 1) + 1 /\ (e.blocks + 1) - 2 = k + 1
      BY <1>1, <1>2, <1>3, <1>5
    <2>3. p.blocks >= 2 /\ p.rec <= block_SIZE /\ p.rec >= 1
      BY <1>1, <1>3
    <2>4. p \in Coded
      BY <2>1, <2>2, <2>3 DEF Coded
    <2> QED
      BY <1>4, <1>5, <2>4
  <1>6. CASE ~ (r + 1 > block_SIZE)
    <2> DEFINE p == [text |-> t, blocks |-> e.blocks, rec |-> r + 1]
    <2>1. p \in [text : Text, blocks : Nat, rec : Nat]
      BY <1>1, <1>2
    <2>2. Len(t) = block_SIZE * k + (r + 1) /\ e.blocks - 2 = k
      BY <1>1, <1>2, <1>3
    <2>3. p.blocks >= 2 /\ p.rec <= block_SIZE /\ p.rec >= 1
      BY <1>1, <1>3, <1>6
    <2>4. p \in Coded
      BY <2>1, <2>2, <2>3 DEF Coded
    <2> QED
      BY <1>4, <1>6, <2>4
  <1> QED
    BY <1>5, <1>6

LEMMA PutAllCoded ==
  ASSUME NEW e \in Coded, NEW t \in Text
  PROVE  PutAll(e, t) \in Coded
  <1>1. t \in Seq(Char)
    BY DEF Text
  <1>2. Puts!Fold(e, t) \in Coded
    BY <1>1, PutCoded, Puts!FoldStays
  <1> QED
    BY <1>2, PutAllIs

(***************************************************************************)
(* The tagline in use.                                                     *)
(***************************************************************************)
(* The sources a tagline can be taken from hold nothing but words, and the *)
(* one in use is in the style that is set.                                 *)
TagInv ==
    /\ taglines \in Seq(Words)
    /\ \E w \in Words \cup {<<>>} : OrigTag = Append(w, LF)
    /\ \E w \in Words \cup {<<>>} : UserTag = Append(w, LF)
    /\ Styled(CurTag, fido)

LEMMA StyledKeepsStyle == TagInv => TagKeepsStyle
  <1>1. Len(Prefix(fido)) = 2
    BY PrefixIs
  <1> QED
    BY <1>1 DEF TagInv, TagKeepsStyle, Styled, Line, First

LEMMA InitTag == Init => TagInv
  <1> SUFFICES ASSUME Init PROVE TagInv
    OBVIOUS
  <1>1. TagInit
    BY DEF Init
  <1>2. taglines \in Seq(Words)
    <2>1. \A w \in Words : <<w>> \in Seq(Words)
      OBVIOUS
    <2>2. taglines = <<>> \/ \E w \in Words : taglines = <<w>>
      BY <1>1 DEF TagInit
    <2>3. <<>> \in Seq(Words)
      OBVIOUS
    <2> QED
      BY <2>1, <2>2, <2>3, Zenon
  <1>3. PICK w \in Words : OrigTag = Append(w, LF)
    BY <1>1 DEF TagInit
  <1>4. UserTag = Append(<<>>, LF)
    BY <1>1 DEF TagInit
  <1>5. Styled(CurTag, fido)
    <2>1. CASE autotag /\ taglines # <<>>
      <3>1. CurTag \in ChooseTag
        BY <1>1, <2>1 DEF TagInit
      <3> QED
        BY <1>2, <2>1, <3>1, ChooseStyled
    <2>2. CASE ~ (autotag /\ taglines # <<>>)
      <3>1. CurTag = Prefix(fido) \o Append(w, LF)
        BY <1>1, <1>3, <2>2 DEF TagInit
      <3> QED
        BY <3>1, WholeStyled
    <2> QED
      BY <2>1, <2>2
  <1> QED
    BY <1>2, <1>3, <1>4, <1>5 DEF TagInv

\* A step that takes another tagline in the same style.
LEMMA Taken ==
  ASSUME TagInv, UNCHANGED <<fido, taglines, OrigTag, UserTag>>, Styled(CurTag', fido)
  PROVE  TagInv'
  BY DEF TagInv

LEMMA TagFidoKeeps == ASSUME TagInv, TagFido PROVE TagInv'
  <1>0. PICK w \in Words \cup {<<>>} : \E n \in {Len(w), TLMX - 1, TAG_END - 2} :
          CurTag = Line(fido, w, n)
    BY DEF TagInv, Styled
  <1>1. PICK n \in {Len(w), TLMX - 1, TAG_END - 2} : CurTag = Line(fido, w, n)
    BY <1>0
  <1>2. w \in Text /\ n \in Nat
    BY WordsAreText
  <1>3. CurTag' = Prefix(fido') \o SubSeq(CurTag, Len(Prefix(fido)) + 1, Len(CurTag))
    BY DEF TagFido
  <1>4. CurTag' = Line(fido', w, n)
    <2>1. \A style, new : Prefix(new) \o SubSeq(Line(style, w, n), Len(Prefix(style)) + 1, Len(Line(style, w, n)))
                           = Line(new, w, n)
      BY <1>2, Restyled
    <2> QED
      BY <1>1, <1>3, <2>1, Zenon
  <1>5. Styled(CurTag', fido')
    BY <1>4 DEF Styled
  <1> QED
    BY <1>5 DEF TagFido, TagInv

LEMMA TagKeeps == ASSUME TagInv, Tag PROVE TagInv'
  <1>0. taglines \in Seq(Words) /\ Styled(CurTag, fido)
    BY DEF TagInv
  <1>1. ASSUME TagRandom PROVE TagInv'
    <2>1. Styled(CurTag', fido)
      BY <1>0, <1>1, ChooseStyled DEF TagRandom
    <2> QED
      BY <1>1, <2>1, Taken DEF TagRandom
  <1>2. ASSUME TagOnOff PROVE TagInv'
    BY <1>2 DEF TagOnOff, TagInv
  <1>3. ASSUME TagAuto PROVE TagInv'
    <2>1. CurTag' = CurTag \/ CurTag' \in ChooseTag
      BY <1>3 DEF TagAuto
    <2>2. Styled(CurTag', fido)
      BY <1>0, <2>1, ChooseStyled
    <2> QED
      BY <1>3, <2>2, Taken DEF TagAuto
  <1>4. ASSUME TagSwap PROVE TagInv'
    <2>1. PICK w \in Words \cup {<<>>} : OrigTag = Append(w, LF)
      BY DEF TagInv
    <2>2. PICK v \in Words \cup {<<>>} : UserTag = Append(v, LF)
      BY DEF TagInv
    <2>3. CurTag' = Prefix(fido) \o Append(w, LF) \/ CurTag' = Prefix(fido) \o Append(v, LF)
      BY <1>4, <2>1, <2>2 DEF TagSwap
    <2>4. Styled(CurTag', fido)
      BY <2>3, WholeStyled
    <2> QED
      BY <1>4, <2>4, Taken DEF TagSwap
  <1>5. ASSUME NEW n \in 0..MaxTags, TagNumb(n) PROVE TagInv'
    <2>1. n \in Nat /\ Len(taglines) \in Nat
      BY <1>0, TagAssumption
    <2>2. Styled(TagSeek(n), fido)
      <3>1. CASE n < Len(taglines)
        BY <1>0, <2>1, <3>1, SeekStyled
      <3>2. CASE ~ (n < Len(taglines))
        BY <1>0, <3>2 DEF TagSeek
      <3> QED
        BY <3>1, <3>2
    <2> QED
      BY <1>5, <2>2, Taken DEF TagNumb
  <1>6. ASSUME NEW w \in Words, TagUser(w) PROVE TagInv'
    <2>1. UserTag' = Append(w, LF) /\ CurTag' = Prefix(fido) \o Append(w, LF)
      BY <1>6 DEF TagUser
    <2>2. Styled(CurTag', fido)
      BY <2>1, WholeStyled
    <2> QED
      BY <1>6, <2>1, <2>2 DEF TagUser, TagInv
  <1>7. ASSUME NEW w \in Words, TagAdd(w) PROVE TagInv'
    <2>1. taglines' \in Seq(Words)
      BY <1>0, <1>7 DEF TagAdd
    <2> QED
      BY <1>7, <2>1 DEF TagAdd, TagInv
  <1> QED
    BY <1>1, <1>2, <1>3, <1>4, <1>5, <1>6, <1>7, TagFidoKeeps DEF Tag

\* A reply takes the tagline, cut off, and the next one is chosen.
LEMMA AddKeepsTag == ASSUME TagInv, AddReply PROVE TagInv'
  <1>0. taglines \in Seq(Words) /\ Styled(CurTag, fido)
    BY DEF TagInv
  <1>1. \/ CurTag' \in {CurTag, Cut(CurTag)}
        \/ taglines # <<>> /\ CurTag' \in ChooseTag
    BY DEF AddReply
  <1>2. Styled(CurTag', fido)
    BY <1>0, <1>1, CutStyled, ChooseStyled
  <1> QED
    BY <1>2, Taken DEF AddReply

LEMMA TagInvInductive == ASSUME TagInv, [Next]_vars PROVE TagInv'
  <1>0. ASSUME UNCHANGED tagvars PROVE TagInv'
    BY <1>0 DEF tagvars, TagInv
  <1>1. ASSUME Command PROVE TagInv'
    <2>1. Tag \/ UNCHANGED tagvars
      BY <1>1 DEF Command, Begin, Kill, PackReply, Unpack, TagCommand
    <2> QED
      BY <2>1, <1>0, TagKeeps
  <1>2. ASSUME Dialogue PROVE TagInv'
    <2>1. AddReply \/ TagFido \/ UNCHANGED tagvars
      BY <1>2 DEF Dialogue, GetFrom, GetTo, GetSubj, GetSecurity, NoChange, EditPP, CalledEditor,
                  Edit, Abort, Save, SaveFido, Done, Packed, Unpacked
    <2> QED
      BY <2>1, <1>0, AddKeepsTag, TagFidoKeeps
  <1>3. ASSUME Waiting \/ ChildEnds \/ Interrupt PROVE TagInv'
    <2>1. UNCHANGED tagvars
      BY <1>3 DEF Waiting, Fork, SetHandler, Wait, ForkReturns, HandlerEnds, ChildEnds, Interrupt
    <2> QED
      BY <2>1, <1>0
  <1>4. ASSUME UNCHANGED vars PROVE TagInv'
    BY <1>4, <1>0 DEF vars
  <1> QED
    BY <1>1, <1>2, <1>3, <1>4 DEF Next

(* Whatever styles and sources the user goes through, and whatever replies *)
(* take their tagline from it, CurTag (chosetag.c) is one tagline in the   *)
(* style of fido, whole or cut off where its source or a reply cuts it.    *)
THEOREM TagIsStyled == Spec => []TagKeepsStyle
  BY InitTag, TagInvInductive, StyledKeepsStyle, PTL DEF Spec

(***************************************************************************)
(* The file for the archiver, and the packet.                              *)
(***************************************************************************)
\* What DoRep() writes of a whole conference.
Packet(c) == Texts(Exports!Fold(<<>>, SubSeq(c, 1, Len(c))))

(* The file is there while the archiver is at work, and nothing changes    *)
(* the conference then.                                                    *)
PackInv ==
    /\ TextInv
    /\ msg # None =>
          /\ prg = "archiver" /\ pc \in Busy \cup {"returned"}
          /\ msg # <<>> /\ msg = Packet(cnf)
    /\ rep # None => rep # <<>>

LEMMA PacketIs == Packet(cnf) = Texts(Exported(Len(cnf)))
  BY ExportedIs DEF Packet

LEMMA ExportedType ==
  ASSUME NEW S, cnf \in Seq(S), NEW n \in 0 .. Len(cnf)
  PROVE  Exported(n) \in Seq(S)
  <1> DEFINE s == SubSeq(cnf, 1, n)
  <1>1. s \in Seq(S)
    OBVIOUS
  <1>2. <<>> \in Seq(S)
    OBVIOUS
  <1>3. \A out \in Seq(S), m \in S : ExportStep(out, m) \in Seq(S)
    BY DEF ExportStep
  <1> HIDE DEF s
  <1>4. Exports!Fold(<<>>, s) \in Seq(S)
    BY <1>1, <1>2, <1>3, Exports!FoldStays
  <1> QED
    BY <1>4, ExportedIs DEF s

\* DoRep() goes on to the archiver only with every reply, and with one.
LEMMA RepIsWhole ==
  ASSUME NEW S, cnf \in Seq(S), NEW n \in 0 .. Len(cnf), DoRep(n)
  PROVE  n = Len(cnf) /\ Texts(Exported(n)) # <<>>
  <1>1. Len(cnf) \in Nat /\ n \in Nat /\ n <= Len(cnf)
    OBVIOUS
  <1>2. ~ (n < Len(cnf))
    BY DEF DoRep, Result
  <1>3. n = Len(cnf)
    BY <1>1, <1>2
  <1>4. Count(n) = Len(Exported(n)) - 0 /\ Count(n) # 0
    BY <1>2 DEF Count, DoRep
  <1> DEFINE e == Exported(n)
  <1>5. e \in Seq(S)
    BY ExportedType
  <1> HIDE DEF e
  <1>6. Len(e) \in Nat /\ DOMAIN e = 1 .. Len(e)
    BY <1>5
  <1>7. Len(e) # 0
    BY <1>4, <1>6 DEF e
  <1>8. 1 \in DOMAIN Texts(e)
    BY <1>6, <1>7 DEF Texts
  <1>9. Texts(e) # <<>>
    BY <1>8
  <1> QED
    BY <1>3, <1>9 DEF e

LEMMA InitPack == Init => PackInv
  BY InitText DEF Init, PackInv

\* A step that runs another program than the archiver, or none.
LEMMA NotPacking ==
  ASSUME PackInv, TextInv', UNCHANGED packvars, pc \notin Busy \cup {"returned"}
  PROVE  PackInv'
  BY DEF PackInv, packvars

LEMMA PackReplyKeeps == ASSUME PackInv, TextInv', PackReply PROVE PackInv'
  <1>1. msg = None /\ rep' = None
    BY DEF PackInv, PackReply, Busy
  <1>2. CASE UNCHANGED msg
    BY <1>1, <1>2 DEF PackInv
  <1>3. CASE ~ UNCHANGED msg
    <2>1. PICK S : cnf \in Seq(S)
      BY DEF PackInv, TextInv
    <2>2. PICK n \in 0 .. Len(cnf) : DoRep(n) /\ msg' = Texts(Exported(n)) /\ Call("archiver")
      <3>1. Len(cnf) \in 0 .. Len(cnf)
        BY <2>1
      <3> QED
        BY <1>3, <3>1 DEF PackReply
    <2>3. msg' = Packet(cnf) /\ msg' # <<>>
      BY <2>1, <2>2, RepIsWhole, PacketIs
    <2>4. UNCHANGED cnf
      BY DEF PackReply, confvars
    <2>5. msg' = Packet(cnf')
      BY <2>3, <2>4
    <2>6. prg' = "archiver" /\ pc' \in Busy
      BY <2>2 DEF Call, Busy
    <2> QED
      BY <1>1, <2>3, <2>5, <2>6 DEF PackInv
  <1> QED
    BY <1>2, <1>3

LEMMA PackInvInductive == ASSUME PackInv, [Next]_vars PROVE PackInv'
  <1>0. TextInv /\ TextInv'
    BY TextInvInductive DEF PackInv
  <1>1. ASSUME Command PROVE PackInv'
    <2>1. PackReply \/ UNCHANGED packvars
      BY <1>1 DEF Command, Begin, Kill, Unpack, TagCommand
    <2>2. PackReply \/ pc \notin Busy \cup {"returned"}
      BY <1>1 DEF Command, Begin, Kill, Unpack, TagCommand, Busy
    <2> QED
      BY <1>0, <2>1, <2>2, PackReplyKeeps, NotPacking
  <1>2. ASSUME Packed PROVE PackInv'
    BY <1>0, <1>2 DEF Packed, PackInv
  <1>3. ASSUME CalledEditor \/ Unpacked PROVE PackInv'
    <2>1. msg = None /\ UNCHANGED packvars
      BY <1>3 DEF CalledEditor, Unpacked, PackInv
    <2> QED
      BY <1>0, <2>1 DEF PackInv, packvars
  <1>4. ASSUME Dialogue, ~ Packed, ~ CalledEditor, ~ Unpacked PROVE PackInv'
    <2>1. UNCHANGED packvars /\ pc \notin Busy \cup {"returned"}
      BY <1>4 DEF Dialogue, GetFrom, GetTo, GetSubj, GetSecurity, NoChange, EditPP, Edit, Abort,
                  Save, SaveFido, AddReply, Done, Busy
    <2> QED
      BY <1>0, <2>1, NotPacking
  <1>5. ASSUME Waiting \/ Interrupt \/ UNCHANGED vars PROVE PackInv'
    <2>1. UNCHANGED <<cnf, msg, rep, prg>>
      BY <1>5 DEF Waiting, Fork, SetHandler, Wait, ForkReturns, HandlerEnds, Interrupt, vars,
                  confvars, packvars, childvars
    <2>2. pc \in Busy \cup {"returned"} => pc' \in Busy \cup {"returned"}
      BY <1>5 DEF Waiting, Fork, SetHandler, Wait, ForkReturns, HandlerEnds, AfterWait, Interrupt,
                  vars, Busy
    <2> QED
      BY <1>0, <2>1, <2>2 DEF PackInv
  <1>6. ASSUME ChildEnds PROVE PackInv'
    <2>1. UNCHANGED <<cnf, msg, prg, pc>> /\ rep' \in {rep, msg}
      BY <1>6 DEF ChildEnds, ChildEffect, confvars
    <2> QED
      BY <1>0, <2>1 DEF PackInv
  <1> QED
    BY <1>1, <1>2, <1>3, <1>4, <1>5, <1>6 DEF Next

(* Whatever fails, is killed or is interrupted: the file that PackReply()  *)
(* (makemail.c) gives the archiver has every reply that is not marked as   *)
(* killed, and one at least; nothing else becomes the packet.              *)
THEOREM PacketIsWhole == Spec => []PacketWhole
  <1>1. PackInv => PacketWhole
    BY PacketIs DEF PackInv, PacketWhole
  <1> QED
    BY <1>1, InitPack, PackInvInductive, PTL DEF Spec

(***************************************************************************)
(* What an encoded reply is, and what it takes to change one.              *)
(***************************************************************************)
LEMMA SubjCoded ==
  ASSUME NEW l, NEW style
  PROVE  KodeSubj(l, style) \in Coded
  <1>1. Subject(style) \in Text /\ Len(Subject(style)) = 3
    <2>1. (IF style THEN SPC ELSE DOS_SPACE) \in Char
      BY Marks
    <2> QED
      BY <2>1, Marks DEF Subject, Text
  <1>2. <<>> \in Text /\ Len(<<>>) = 0
    BY DEF Text
  <1> DEFINE t == IF l THEN Subject(style) ELSE <<>>
             e == [text |-> t, blocks |-> 2, rec |-> Len(t)]
  <1>3. t \in Text /\ Len(t) \in {0, 3}
    <2>1. CASE l
      BY <1>1, <2>1
    <2>2. CASE ~l
      BY <1>2, <2>2
    <2> QED
      BY <2>1, <2>2
  <1>4. KodeSubj(l, style) = e
    BY DEF KodeSubj
  <1> HIDE DEF t
  <1>5. Len(t) <= block_SIZE /\ Len(t) = block_SIZE * (2 - 2) + Len(t)
    <2> DEFINE n == Len(t)
    <2>1. n \in {0, 3}
      BY <1>3
    <2> HIDE DEF n
    <2>2. n <= block_SIZE
      BY <2>1, EncodeAssumption
    <2>3. block_SIZE * (2 - 2) = 0
      <3>1. 2 - 2 = 0
        OBVIOUS
      <3>2. block_SIZE * 0 = 0
        BY EncodeAssumption
      <3> QED
        BY <3>1, <3>2
    <2>4. n = 0 + n
      BY <2>1
    <2> QED
      BY <2>2, <2>3, <2>4 DEF n
  <1>6. e \in [text : Text, blocks : Nat, rec : Nat]
    BY <1>3
  <1> QED
    BY <1>4, <1>5, <1>6 DEF Coded

\* A text of one character or none is in the first block.
LEMMA ShortCoded ==
  ASSUME NEW e \in Coded, Len(e.text) <= 1
  PROVE  e.blocks = 2
  <1> DEFINE k == e.blocks - 2
             r == e.rec
             n == Len(e.text)
             q == block_SIZE * k
  <1>1. k \in Nat /\ r \in Nat /\ e.blocks = k + 2 /\ (k > 0 => r >= 1)
    BY DEF Coded
  <1>2. n = q + r /\ n <= 1 /\ n \in Nat
    BY DEF Coded, Text
  <1> HIDE DEF k, r, n, q
  <1>3. CASE k # 0
    <2> DEFINE j == k - 1
    <2>1. j \in Nat /\ k = j + 1 /\ k > 0
      BY <1>1, <1>3
    <2> HIDE DEF j
    <2>2. block_SIZE * (j + 1) = block_SIZE * j + block_SIZE /\ block_SIZE * j \in Nat
      BY <2>1, BlockMore
    <2> DEFINE i == block_SIZE * j
    <2>3. q = i + block_SIZE /\ i \in Nat
      BY <2>1, <2>2 DEF q
    <2> HIDE DEF i
    <2>4. q > 3
      BY <2>3, EncodeAssumption
    <2>5. q \in Nat
      BY <2>3, EncodeAssumption
    <2> QED
      BY <1>1, <1>2, <2>4, <2>5
  <1> QED
    BY <1>1, <1>3

\* The last character of a text is replaced.
LEMMA LastReplaced ==
  ASSUME NEW t \in Text, t # <<>>, NEW ch \in Char
  PROVE  Append(Front(t), ch) \in Text /\ Len(Append(Front(t), ch)) = Len(t)
  <1> DEFINE f == Front(t)
  <1>1. t \in Seq(Char) /\ Len(t) \in Nat /\ Len(t) # 0
    BY DEF Text
  <1>2. f \in Seq(Char) /\ Len(f) = Len(t) - 1
    <2> DEFINE n == Len(t) - 1
    <2>1. n \in Nat /\ n <= Len(t)
      BY <1>1
    <2>2. f = SubSeq(t, 1, n)
      BY DEF Front
    <2> HIDE DEF n
    <2>3. SubSeq(t, 1, n) \in Seq(Char) /\ Len(SubSeq(t, 1, n)) = n
      BY <1>1, <2>1
    <2> QED
      BY <2>2, <2>3 DEF n
  <1> HIDE DEF f
  <1>3. f \in Text
    BY <1>2 DEF Text
  <1>4. Append(f, ch) \in Text /\ Len(Append(f, ch)) = Len(f) + 1
    BY <1>3, AppendText
  <1> QED
    BY <1>1, <1>2, <1>4 DEF f

\* KodeXlatFin() leaves the counters right.
LEMMA XlatFinCoded ==
  ASSUME NEW e \in Coded
  PROVE  KodeXlatFin(e) \in Coded
  <1>1. /\ e.text \in Text /\ e.blocks \in Nat /\ e.rec \in Nat
        /\ e = [text |-> e.text, blocks |-> e.blocks, rec |-> e.rec]
    BY DEF Coded
  <1>2. CASE e.text \in {<<>>, <<NL>>}
    <2> DEFINE t == <<SPC, DOS_SPACE>>
               p == [text |-> t, blocks |-> 2, rec |-> 2]
    <2>1. Len(e.text) <= 1
      <3>1. Len(<<>>) = 0 /\ Len(<<NL>>) = 1
        OBVIOUS
      <3>2. CASE e.text = <<>>
        BY <3>1, <3>2
      <3>3. CASE e.text = <<NL>>
        BY <3>1, <3>3
      <3> QED
        BY <1>2, <3>2, <3>3
    <2>2. e.blocks = 2
      BY <2>1, ShortCoded
    <2>3. KodeXlatFin(e) = p
      <3>1. KodeXlatFin(e) = [e EXCEPT !.text = t, !.rec = 2]
        BY <1>2 DEF KodeXlatFin
      <3> HIDE DEF t
      <3> QED
        BY <1>1, <2>2, <3>1
    <2>4. t \in Text /\ Len(t) = 2
      BY Marks DEF Text
    <2> HIDE DEF t
    <2>5. 2 <= block_SIZE /\ 2 = block_SIZE * (2 - 2) + 2
      <3>1. block_SIZE * 0 = 0
        BY EncodeAssumption
      <3> QED
        BY <3>1, EncodeAssumption
    <2>6. p \in [text : Text, blocks : Nat, rec : Nat]
      BY <2>4
    <2>7. /\ p.blocks >= 2 /\ p.rec <= block_SIZE /\ ~ (p.blocks > 2)
          /\ Len(p.text) = block_SIZE * (p.blocks - 2) + p.rec
      BY <2>4, <2>5
    <2> HIDE DEF p
    <2>8. p \in Coded
      BY <2>6, <2>7 DEF Coded
    <2> QED
      BY <2>3, <2>8 DEF p
  <1>3. CASE e.text \notin {<<>>, <<NL>>} /\ Last(e.text) = NL
    <2> DEFINE t == Append(Front(e.text), DOS_SPACE)
               p == [text |-> t, blocks |-> e.blocks, rec |-> e.rec]
    <2>1. t \in Text /\ Len(t) = Len(e.text)
      BY <1>1, <1>3, LastReplaced, Marks
    <2>2. KodeXlatFin(e) = p
      <3>1. KodeXlatFin(e) = [e EXCEPT !.text = t]
        BY <1>3 DEF KodeXlatFin
      <3> HIDE DEF t
      <3> QED
        BY <1>1, <3>1
    <2> HIDE DEF t
    <2>3. p \in [text : Text, blocks : Nat, rec : Nat]
      BY <1>1, <2>1
    <2>4. p \in Coded
      BY <2>1, <2>3 DEF Coded
    <2> QED
      BY <2>2, <2>4
  <1>4. CASE e.text \notin {<<>>, <<NL>>} /\ Last(e.text) # NL
    <2>1. KodeXlatFin(e) = Put(e, DOS_SPACE)
      BY <1>4 DEF KodeXlatFin
    <2> QED
      BY <2>1, PutCoded, Marks
  <1> QED
    BY <1>2, <1>3, <1>4

(* The spaces at the end fill the block, so that the text is as long as    *)
(* the count of blocks says, without the header.                           *)
LEMMA KodeFull ==
  ASSUME NEW file \in Text, NEW l, NEW style, NEW tag \in Text
  PROVE  LET e == Kode(file, l, style, tag)
         IN  e.text \in Text /\ e.blocks \in Nat /\ Len(e.text) = block_SIZE * (e.blocks - 1)
  <1> DEFINE t == PutAll(KodeXlatFin(PutAll(KodeSubj(l, style), KodeXlat(file))), tag)
             k == t.blocks - 2
             m == block_SIZE - t.rec
             fill == [i \in 1 .. m |-> SPC]
             all == t.text \o fill
  <1>1. t \in Coded
    BY SubjCoded, KodeXlatType, PutAllCoded, XlatFinCoded
  <1>2. Kode(file, l, style, tag) = [t EXCEPT !.text = all, !.rec = block_SIZE]
    BY DEF Kode, KodeMsgFin
  <1> HIDE DEF t
  <1>3. /\ t.text \in Text /\ t.blocks \in Nat /\ k \in Nat /\ t.blocks = k + 2 /\ m \in Nat
        /\ t.rec \in Nat /\ t.rec + m = block_SIZE
        /\ t = [text |-> t.text, blocks |-> t.blocks, rec |-> t.rec]
    <2>1. t \in [text : Text, blocks : Nat, rec : Nat] /\ t.blocks >= 2 /\ t.rec <= block_SIZE
      BY <1>1 DEF Coded
    <2> QED
      BY <2>1, EncodeAssumption
  <1> DEFINE q == block_SIZE * k
  <1>9. Len(t.text) = q + t.rec
    BY <1>1 DEF Coded
  <1>4. Kode(file, l, style, tag) = [text |-> all, blocks |-> t.blocks, rec |-> block_SIZE]
    <2> HIDE DEF all
    <2> QED
      BY <1>2, <1>3
  <1> HIDE DEF k, m, q
  <1>5. fill \in Seq(Char) /\ Len(fill) = m
    BY <1>3, Marks
  <1> HIDE DEF fill
  <1>6. all \in Seq(Char) /\ Len(all) = Len(t.text) + m
    BY <1>3, <1>5, ConcatProperties DEF Text
  <1> HIDE DEF all
  <1>7. block_SIZE * (k + 1) = q + block_SIZE /\ q \in Nat /\ block_SIZE \in Nat
    BY <1>3, BlockMore, EncodeAssumption DEF q
  <1>8. Len(all) = block_SIZE * (t.blocks - 1)
    <2>1. t.blocks - 1 = k + 1
      BY <1>3
    <2>2. Len(all) = q + block_SIZE
      BY <1>3, <1>6, <1>7, <1>9
    <2> QED
      BY <1>7, <2>1, <2>2
  <1> QED
    BY <1>3, <1>4, <1>6, <1>8 DEF Text

\* SelectInSeq() finds a place in the sequence, or none.
LEMMA BeforeIs ==
  ASSUME NEW t \in Text, NEW ch
  PROVE  Before(t, ch) \in Text /\ Len(Before(t, ch)) \in Nat
  <1> DEFINE P == {i \in 1 .. Len(t) : t[i] = ch}
             i == IF P # {} THEN CHOOSE x \in P : \A y \in P : x <= y ELSE 0
  <1>1. Before(t, ch) = IF i = 0 THEN t ELSE SubSeq(t, 1, i - 1)
    BY Zenon DEF Before, SelectInSeq, Min
  <1>2. t \in Seq(Char) /\ Len(t) \in Nat /\ P \in SUBSET Nat
    BY DEF Text
  <1>3. i = 0 \/ i \in P
    <2>1. ASSUME P # {} PROVE \E x \in P : \A y \in P : x <= y
      BY <1>2, <2>1, Least
    <2> HIDE DEF P
    <2> QED
      BY <2>1
  <1>4. i = 0 \/ i \in 1 .. Len(t)
    BY <1>3
  <1> HIDE DEF i
  <1>5. i # 0 => SubSeq(t, 1, i - 1) \in Seq(Char)
    <2> DEFINE j == i - 1
    <2>1. i # 0 => j \in Nat /\ j <= Len(t)
      BY <1>2, <1>4
    <2> HIDE DEF j
    <2>2. i # 0 => SubSeq(t, 1, j) \in Seq(Char)
      BY <1>2, <2>1
    <2> QED
      BY <2>2 DEF j
  <1>6. Before(t, ch) \in Seq(Char)
    BY <1>1, <1>2, <1>5
  <1>7. Len(Before(t, ch)) \in Nat
    BY <1>6
  <1> QED
    BY <1>6, <1>7 DEF Text

LEMMA BehindIs ==
  ASSUME NEW t \in Text, NEW n \in Nat
  PROVE  Behind(t, n) \in Text
  <1> DEFINE a == n + 1
             b == Len(t)
  <1>1. t \in Seq(Char) /\ a \in Int /\ b \in Int /\ \A i \in a .. b : t[i] \in Char
    BY DEF Text
  <1> HIDE DEF a, b
  <1>2. SubSeq(t, a, b) \in Seq(Char)
    BY <1>1, SubSeqProperties
  <1> QED
    BY <1>2 DEF Behind, Text, a, b

\* The file for a reply that is changed is text.
LEMMA StripTagType ==
  ASSUME NEW t \in Text, NEW l
  PROVE  StripTag(t, l) \in Text
  <1> DEFINE subj == Len(Before(t, NL)) + 1
             skip == IF ~l THEN 0 ELSE IF t[subj + 1] = NL THEN subj + 1 ELSE subj
             body == Behind(t, skip)
             kept == Before(body, DOS_SPACE)
  <1>1. Len(Before(t, NL)) \in Nat
    BY BeforeIs
  <1>2. skip \in Nat
    <2>1. subj \in Nat /\ subj + 1 \in Nat
      BY <1>1
    <2> HIDE DEF subj
    <2> QED
      BY <2>1
  <1>3. StripTag(t, l) = IF kept = body THEN kept ELSE Append(kept, NL)
    BY Zenon DEF StripTag
  <1> HIDE DEF skip
  <1>4. body \in Text
    BY <1>2, BehindIs
  <1> HIDE DEF body
  <1>5. kept \in Text
    BY <1>4, BeforeIs
  <1> HIDE DEF kept
  <1>6. Append(kept, NL) \in Text
    BY <1>5, AppendText, Marks
  <1> QED
    BY <1>3, <1>5, <1>6

(***************************************************************************)
(* The accounts of the reply conference.                                   *)
(***************************************************************************)
\* A reply of the conference.
Rec == [text : Text, blocks : Nat, long : BOOLEAN, killed : BOOLEAN, typed : Text \cup {None}]

Filled(r) == Len(r.text) = block_SIZE * (r.blocks - 1)

Accounts(c, x) ==
    /\ Len(x) = Len(c)
    /\ \A i \in 1 .. Len(c) :
          /\ Filled(c[i])
          /\ x[i] = [off |-> Sum(SubSeq(c, 1, i - 1)), size |-> Len(c[i].text)]

\* The sum of a list of replies depends on their texts only.
LEMMA SumSame ==
  ASSUME NEW c \in Seq(Rec), NEW d \in Seq(Rec), Len(c) = Len(d),
         \A i \in 1 .. Len(c) : c[i].text = d[i].text
  PROVE  Sum(c) = Sum(d)
  <1>1. \A i \in 1 .. Len(c) : \A n : SumStep(n, c[i]) = SumStep(n, d[i])
    BY Zenon DEF SumStep
  <1>2. Sums!Fold(0, c) = Sums!Fold(0, d)
    BY <1>1, Sums!FoldSame
  <1> QED
    BY <1>2, SumIs

\* The replies before the i-th.
LEMMA PartIs ==
  ASSUME NEW c \in Seq(Rec), NEW i \in 1 .. Len(c)
  PROVE  /\ SubSeq(c, 1, i - 1) \in Seq(Rec) /\ Len(SubSeq(c, 1, i - 1)) = i - 1
         /\ \A j \in 1 .. (i - 1) : SubSeq(c, 1, i - 1)[j] = c[j]
  <1> DEFINE n == i - 1
  <1>1. n \in Nat /\ n <= Len(c) /\ Len(c) \in Nat
    OBVIOUS
  <1> HIDE DEF n
  <1>2. /\ SubSeq(c, 1, n) \in Seq(Rec) /\ Len(SubSeq(c, 1, n)) = n
        /\ \A j \in 1 .. n : SubSeq(c, 1, n)[j] = c[j]
    BY <1>1
  <1> QED
    BY <1>2 DEF n

\* Replies whose texts are the same have the same accounts.
LEMMA Relabelled ==
  ASSUME NEW c \in Seq(Rec), NEW d \in Seq(Rec), NEW x, Accounts(c, x), Len(d) = Len(c),
         \A i \in 1 .. Len(c) : d[i].text = c[i].text /\ d[i].blocks = c[i].blocks
  PROVE  Accounts(d, x)
  <1>1. ASSUME NEW i \in 1 .. Len(c)
        PROVE  Filled(d[i]) /\ x[i] = [off |-> Sum(SubSeq(d, 1, i - 1)), size |-> Len(d[i].text)]
    <2>1. Filled(c[i]) /\ x[i] = [off |-> Sum(SubSeq(c, 1, i - 1)), size |-> Len(c[i].text)]
      BY DEF Accounts
    <2>2. Filled(d[i]) /\ Len(d[i].text) = Len(c[i].text)
      BY <2>1 DEF Filled
    <2>3. Sum(SubSeq(c, 1, i - 1)) = Sum(SubSeq(d, 1, i - 1))
      <3> DEFINE a == SubSeq(c, 1, i - 1)
                 b == SubSeq(d, 1, i - 1)
                 n == i - 1
      <3>1. a \in Seq(Rec) /\ Len(a) = n /\ \A j \in 1 .. n : a[j] = c[j]
        BY PartIs
      <3>2. b \in Seq(Rec) /\ Len(b) = n /\ \A j \in 1 .. n : b[j] = d[j]
        BY PartIs
      <3>3. \A j \in 1 .. n : j \in 1 .. Len(c)
        OBVIOUS
      <3> HIDE DEF a, b, n
      <3>4. \A j \in 1 .. n : a[j].text = b[j].text
        BY <3>1, <3>2, <3>3
      <3>5. Sum(a) = Sum(b)
        BY <3>1, <3>2, <3>4, SumSame
      <3> QED
        BY <3>5 DEF a, b
    <2> QED
      BY <2>1, <2>2, <2>3
  <1> QED
    BY <1>1 DEF Accounts

\* A reply that fills its blocks, and its entry, are added.
LEMMA Extended ==
  ASSUME NEW c \in Seq(Rec), NEW X, NEW x \in Seq(X), Accounts(c, x), NEW r \in Rec, Filled(r)
  PROVE  /\ Append(c, r) \in Seq(Rec)
         /\ Accounts(Append(c, r), Append(x, [off |-> Sum(c), size |-> Len(r.text)]))
  <1> DEFINE d == Append(c, r)
             e == [off |-> Sum(c), size |-> Len(r.text)]
             y == Append(x, e)
             n == Len(c)
  <1>1. /\ d \in Seq(Rec) /\ Len(d) = n + 1 /\ n \in Nat /\ d[n + 1] = r
        /\ \A i \in 1 .. n : d[i] = c[i]
    OBVIOUS
  <1>2. Len(x) = n
    BY DEF Accounts
  <1>3. Len(y) = n + 1 /\ y[n + 1] = e /\ \A i \in 1 .. n : y[i] = x[i]
    <2> HIDE DEF e, n
    <2>1. x \in Seq(X \cup {e})
      OBVIOUS
    <2> QED
      BY <1>2, <2>1
  <1> HIDE DEF d, y
  <1>4. ASSUME NEW i \in 1 .. (n + 1)
        PROVE  Sum(SubSeq(d, 1, i - 1)) = Sum(SubSeq(c, 1, i - 1))
    <2> DEFINE a == SubSeq(d, 1, i - 1)
               b == SubSeq(c, 1, i - 1)
               m == i - 1
    <2>1. m \in Nat /\ m <= n
      BY <1>1
    <2> HIDE DEF m
    <2>2. /\ SubSeq(d, 1, m) \in Seq(Rec) /\ Len(SubSeq(d, 1, m)) = m
          /\ \A j \in 1 .. m : SubSeq(d, 1, m)[j] = d[j]
      BY <1>1, <2>1
    <2>3. /\ SubSeq(c, 1, m) \in Seq(Rec) /\ Len(SubSeq(c, 1, m)) = m
          /\ \A j \in 1 .. m : SubSeq(c, 1, m)[j] = c[j]
      BY <2>1
    <2>4. \A j \in 1 .. m : j \in 1 .. n
      BY <1>1, <2>1
    <2>5. \A j \in 1 .. m : SubSeq(d, 1, m)[j].text = SubSeq(c, 1, m)[j].text
      BY <1>1, <2>2, <2>3, <2>4
    <2>6. Sum(SubSeq(d, 1, m)) = Sum(SubSeq(c, 1, m))
      BY <2>2, <2>3, <2>5, SumSame
    <2> QED
      BY <2>6 DEF m
  <1>5. ASSUME NEW i \in 1 .. (n + 1)
        PROVE  Filled(d[i]) /\ y[i] = [off |-> Sum(SubSeq(d, 1, i - 1)), size |-> Len(d[i].text)]
    <2>1. CASE i = n + 1
      <3>1. SubSeq(c, 1, i - 1) = c
        <4>1. i - 1 = Len(c)
          BY <1>1, <2>1
        <4>2. SubSeq(c, 1, Len(c)) = c
          BY SubSeqFull
        <4> QED
          BY <4>1, <4>2
      <3>2. Sum(SubSeq(d, 1, i - 1)) = Sum(c)
        BY <1>4, <3>1
      <3> QED
        BY <1>1, <1>3, <2>1, <3>2
    <2>2. CASE i # n + 1
      <3>1. i \in 1 .. n
        BY <1>1, <2>2
      <3>2. Filled(c[i]) /\ x[i] = [off |-> Sum(SubSeq(c, 1, i - 1)), size |-> Len(c[i].text)]
        BY <3>1 DEF Accounts
      <3> QED
        BY <1>1, <1>3, <1>4, <3>1, <3>2
    <2> QED
      BY <2>1, <2>2
  <1>6. Accounts(d, y)
    BY <1>1, <1>3, <1>5 DEF Accounts
  <1> QED
    BY <1>1, <1>6 DEF d, y

\* The mark of a killed reply says nothing about its text.
Marking(c, i, v) == [c EXCEPT ![i].killed = v]

LEMMA Marked ==
  ASSUME NEW c \in Seq(Rec), NEW i, NEW v \in BOOLEAN
  PROVE  LET d == Marking(c, i, v)
         IN  /\ d \in Seq(Rec) /\ Len(d) = Len(c)
             /\ \A j \in 1 .. Len(c) : /\ d[j].text = c[j].text /\ d[j].blocks = c[j].blocks
                                       /\ d[j].typed = c[j].typed /\ d[j].long = c[j].long
  <1> DEFINE d == Marking(c, i, v)
             n == Len(c)
  <1>1. n \in Nat /\ c \in [1 .. n -> Rec]
    OBVIOUS
  <1>2. ASSUME NEW r \in Rec
        PROVE  LET q == [r EXCEPT !.killed = v]
               IN  /\ q \in Rec /\ q.text = r.text /\ q.blocks = r.blocks
                   /\ q.typed = r.typed /\ q.long = r.long
    BY DEF Rec
  <1> HIDE DEF n, Rec
  <1>3. DOMAIN d = 1 .. n /\ \A j \in 1 .. n : d[j] = IF j = i THEN [c[j] EXCEPT !.killed = v] ELSE c[j]
    BY <1>1 DEF Marking
  <1>4. \A j \in 1 .. n : c[j] \in Rec
    BY <1>1
  <1>5. \A j \in 1 .. n : /\ d[j] \in Rec /\ d[j].text = c[j].text /\ d[j].blocks = c[j].blocks
                          /\ d[j].typed = c[j].typed /\ d[j].long = c[j].long
    BY <1>2, <1>3, <1>4
  <1>6. d = [j \in 1 .. n |-> d[j]]
    BY <1>1 DEF Marking
  <1> HIDE DEF d
  <1>7. d \in Seq(Rec) /\ Len(d) = n
    BY <1>1, <1>3, <1>5, <1>6
  <1> QED
    BY <1>5, <1>7 DEF d, n

(* Whatever the dialogue does, the file is text, the reply that is changed *)
(* or copied is there, and the accounts of the conference agree.           *)
ConfInv ==
    /\ TextInv /\ TagInv
    /\ fname \in Text \cup {None}
    /\ mode \in {"enter", "reply", "change", "xpost"}
    /\ mode \in {"change", "xpost"} => from \in 1 .. Len(cnf)
    /\ cnf \in Seq(Rec)
    /\ \E X : idx \in Seq(X)
    /\ Accounts(cnf, idx)

LEMMA AccountsAddUp == ConfInv => BlocksAddUp
  <1> SUFFICES ASSUME ConfInv PROVE BlocksAddUp
    OBVIOUS
  <1>1. DOMAIN cnf = 1 .. Len(cnf)
    BY DEF ConfInv
  <1> QED
    BY <1>1 DEF ConfInv, BlocksAddUp, Accounts, Filled

LEMMA InitConf == Init => ConfInv
  <1> SUFFICES ASSUME Init PROVE ConfInv
    OBVIOUS
  <1>1. cnf = <<>> /\ idx = <<>> /\ fname = None /\ mode = "enter"
    BY DEF Init
  <1>2. <<>> \in Seq(Rec) /\ Len(<<>>) = 0 /\ 1 .. 0 = {}
    OBVIOUS
  <1>3. Accounts(<<>>, <<>>)
    BY <1>2 DEF Accounts
  <1> QED
    BY <1>1, <1>2, <1>3, InitText, InitTag DEF ConfInv

\* A step that leaves the conference and the command alone.
LEMMA ConfSame ==
  ASSUME ConfInv, TextInv', TagInv', UNCHANGED <<mode, from, cnf, idx>>,
         fname' \in Text \cup {None}
  PROVE  ConfInv'
  BY DEF ConfInv

LEMMA BeginConf ==
  ASSUME ConfInv, TextInv', TagInv', NEW m \in {"enter", "reply", "change", "xpost"}, NEW i,
         Begin(m, i)
  PROVE  ConfInv'
  <1>1. mode' = m /\ from' = i /\ fname' = None /\ UNCHANGED <<cnf, idx>>
    BY DEF Begin, confvars
  <1>2. m \in {"change", "xpost"} => i \in DOMAIN cnf
    BY DEF Begin
  <1>3. DOMAIN cnf = 1 .. Len(cnf)
    BY DEF ConfInv
  <1> QED
    BY <1>1, <1>2, <1>3 DEF ConfInv

LEMMA KillConf ==
  ASSUME ConfInv, TextInv', TagInv', NEW i \in DOMAIN cnf, Kill(i)
  PROVE  ConfInv'
  <1> DEFINE v == ~cnf[i].killed
             d == Marking(cnf, i, v)
  <1>1. v \in BOOLEAN /\ cnf \in Seq(Rec)
    BY DEF ConfInv
  <1>2. cnf' = d /\ UNCHANGED <<idx, mode, from, fname>>
    BY DEF Kill, Marking, textvars
  <1> HIDE DEF v
  <1>3. /\ d \in Seq(Rec) /\ Len(d) = Len(cnf)
        /\ \A j \in 1 .. Len(cnf) : d[j].text = cnf[j].text /\ d[j].blocks = cnf[j].blocks
    BY <1>1, Marked
  <1> HIDE DEF d
  <1>4. Accounts(d, idx)
    <2>1. Accounts(cnf, idx)
      BY DEF ConfInv
    <2> QED
      BY <1>1, <1>3, <2>1, Relabelled
  <1> QED
    BY <1>2, <1>3, <1>4 DEF ConfInv

LEMMA EditPPConf ==
  ASSUME ConfInv, TextInv', TagInv', EditPP
  PROVE  ConfInv'
  <1>1. UNCHANGED <<mode, from, cnf, idx>>
    BY DEF EditPP, confvars
  <1>2. fname' \in Text \cup {None}
    <2>1. CASE reedit
      BY <2>1 DEF EditPP, ConfInv
    <2>2. CASE ~reedit /\ mode = "enter"
      BY <2>2 DEF EditPP
    <2>3. CASE ~reedit /\ mode = "reply"
      <3>1. fname' = QuoteMsg(Received, "quote")
        BY <2>3 DEF EditPP
      <3> QED
        BY <3>1, QuoteType
    <2>4. CASE ~reedit /\ mode \notin {"enter", "reply"}
      <3>1. fname' = StripTag(cnf[from].text, pcb /\ cnf[from].long)
        BY <2>4 DEF EditPP
      <3>2. from \in 1 .. Len(cnf) /\ cnf \in Seq(Rec)
        BY <2>4 DEF ConfInv
      <3>3. cnf[from].text \in Text
        <4>1. cnf[from] \in Rec
          BY <3>2
        <4> QED
          BY <4>1 DEF Rec
      <3>4. \A l : StripTag(cnf[from].text, l) \in Text
        BY <3>3, StripTagType
      <3> QED
        BY <3>1, <3>4
    <2> QED
      BY <2>1, <2>2, <2>3, <2>4
  <1> QED
    BY <1>1, <1>2, ConfSame

LEMMA ChildEndsConf ==
  ASSUME ConfInv, TextInv', TagInv', ChildEnds
  PROVE  ConfInv'
  <1>1. UNCHANGED <<mode, from, cnf, idx>> /\ fname' \in habit.texts \cup {fname}
    BY DEF ChildEnds, ChildEffect, confvars
  <1>2. habit.texts \subseteq Text
    BY ReplyAssumption, Strings DEF ConfInv, TextInv
  <1>3. fname' \in Text \cup {None}
    BY <1>1, <1>2 DEF ConfInv
  <1> QED
    BY <1>1, <1>3, ConfSame

\* The new reply fills its blocks.
LEMMA EncodedRec ==
  ASSUME ConfInv, fname # None
  PROVE  Encoded \in Rec /\ Filled(Encoded)
  <1>1. fname \in Text
    BY DEF ConfInv
  <1> DEFINE tag == IF tag_flag THEN Cut(CurTag) ELSE <<>>
             k == Kode(fname, long /\ pcb, fido, tag)
  <1>3. tag \in Text
    <2>1. Styled(CurTag, fido)
      BY DEF ConfInv, TagInv
    <2>2. Cut(CurTag) \in Text
      BY <2>1, CutStyled, StyledIs
    <2>3. <<>> \in Text
      BY DEF Text
    <2> QED
      BY <2>2, <2>3
  <1>4. Encoded = [text |-> k.text, blocks |-> k.blocks, long |-> long /\ pcb, killed |-> FALSE,
                   typed |-> fname]
    BY DEF Encoded
  <1> HIDE DEF tag
  <1>5. k.text \in Text /\ k.blocks \in Nat /\ Len(k.text) = block_SIZE * (k.blocks - 1)
    <2>1. \A l, style : LET e == Kode(fname, l, style, tag)
                        IN  e.text \in Text /\ e.blocks \in Nat
                            /\ Len(e.text) = block_SIZE * (e.blocks - 1)
      BY <1>1, <1>3, KodeFull
    <2> QED
      BY <2>1
  <1> HIDE DEF k
  <1>6. Encoded \in Rec /\ Filled(Encoded)
    BY <1>1, <1>4, <1>5 DEF Rec, Filled
  <1> QED
    BY <1>6

\* KodeWrite() adds a reply that fills its blocks, and the entry for it.
LEMMA WriteConf ==
  ASSUME ConfInv, fname # None
  PROVE  /\ Replies \in Seq(Rec) /\ Len(Replies) = Len(cnf) + 1
         /\ Accounts(Replies, Append(idx, Entry))
  <1>1. cnf \in Seq(Rec) /\ Accounts(cnf, idx)
    BY DEF ConfInv
  <1>2. PICK X : idx \in Seq(X)
    BY DEF ConfInv
  <1>6. Encoded \in Rec /\ Filled(Encoded) /\ Len(Encoded.text) = block_SIZE * (Encoded.blocks - 1)
    BY EncodedRec DEF Filled
  <1> DEFINE all == Append(cnf, Encoded)
             new == Append(idx, Entry)
             e == Encoded
  <1>7. Entry = [off |-> Sum(cnf), size |-> Len(Encoded.text)]
    BY <1>6 DEF Entry
  <1>8. all \in Seq(Rec) /\ Accounts(all, new)
    <2>1. \A r \in Rec : Filled(r) =>
            /\ Append(cnf, r) \in Seq(Rec)
            /\ Accounts(Append(cnf, r), Append(idx, [off |-> Sum(cnf), size |-> Len(r.text)]))
      BY <1>1, <1>2, Extended
    <2> QED
      BY <1>6, <1>7, <2>1
  <1>9. Len(all) = Len(cnf) + 1
    BY <1>1, <1>6
  <1>10. CASE mode # "change"
    <2>1. Replies = all
      BY <1>10 DEF Replies
    <2> QED
      BY <1>8, <1>9, <2>1
  <1>11. CASE mode = "change"
    <2>1. Replies = [all EXCEPT ![from].killed = TRUE]
      BY <1>11 DEF Replies
    <2> HIDE DEF all, new
    <2> DEFINE d == Marking(all, from, TRUE)
    <2>2. /\ d \in Seq(Rec) /\ Len(d) = Len(all)
          /\ \A j \in 1 .. Len(all) : /\ d[j].text = all[j].text /\ d[j].blocks = all[j].blocks
                                      /\ d[j].typed = all[j].typed /\ d[j].long = all[j].long
      <3>1. all \in Seq(Rec) /\ TRUE \in BOOLEAN
        BY <1>8
      <3> QED
        BY <3>1, Marked
    <2>3. /\ Replies \in Seq(Rec) /\ Len(Replies) = Len(all)
          /\ \A j \in 1 .. Len(all) : /\ Replies[j].text = all[j].text
                                      /\ Replies[j].blocks = all[j].blocks
      BY <2>1, <2>2 DEF Marking
    <2>4. Accounts(Replies, new)
      BY <1>8, <2>3, Relabelled
    <2> QED
      BY <1>9, <2>3, <2>4 DEF new
  <1> QED
    BY <1>10, <1>11

LEMMA AddConf ==
  ASSUME ConfInv, TextInv', TagInv', AddReply
  PROVE  ConfInv'
  <1>1. UNCHANGED <<mode, from>> /\ fname' \in {fname, None}
    BY DEF AddReply, KodeMessage
  <1>2. CASE UNCHANGED <<cnf, idx>>
    BY <1>1, <1>2, ConfSame DEF ConfInv
  <1>3. CASE ~ UNCHANGED <<cnf, idx>>
    <2>1. fname # None /\ cnf' = Replies /\ idx' = Append(idx, Entry)
      BY <1>3 DEF AddReply, KodeMessage, KodeWrite
    <2>2. Replies \in Seq(Rec) /\ Len(Replies) = Len(cnf) + 1 /\ Accounts(Replies, Append(idx, Entry))
      BY <2>1, WriteConf
    <2>3. \E X : Append(idx, Entry) \in Seq(X)
      <3>1. PICK X : idx \in Seq(X)
        BY DEF ConfInv
      <3> DEFINE e == Entry
      <3> HIDE DEF e
      <3>2. idx \in Seq(X \cup {e})
        BY <3>1
      <3>3. Append(idx, e) \in Seq(X \cup {e})
        BY <3>2
      <3> QED
        BY <3>3 DEF e
    <2>4. from \in 1 .. Len(cnf) => from \in 1 .. (Len(cnf) + 1)
      <3>1. Len(cnf) \in Nat
        BY DEF ConfInv
      <3> QED
        BY <3>1
    <2>5. fname' \in Text \cup {None}
      BY <1>1 DEF ConfInv
    <2> QED
      BY <1>1, <2>1, <2>2, <2>3, <2>4, <2>5 DEF ConfInv
  <1> QED
    BY <1>2, <1>3

LEMMA ConfInvInductive == ASSUME ConfInv, [Next]_vars PROVE ConfInv'
  <1>0. TextInv' /\ TagInv' /\ fname \in Text \cup {None}
    BY TextInvInductive, TagInvInductive DEF ConfInv
  <1>1. ASSUME Command PROVE ConfInv'
    <2>1. ASSUME NEW m \in {"enter", "reply"}, Begin(m, 0) PROVE ConfInv'
      BY <1>0, <2>1, BeginConf
    <2>2. ASSUME NEW m \in {"change", "xpost"}, NEW i \in DOMAIN cnf, Begin(m, i) PROVE ConfInv'
      BY <1>0, <2>2, BeginConf
    <2>3. ASSUME PackReply \/ Unpack \/ TagCommand PROVE ConfInv'
      BY <1>0, <2>3, ConfSame DEF PackReply, Unpack, TagCommand, textvars, confvars
    <2> QED
      BY <1>0, <1>1, <2>1, <2>2, <2>3, KillConf DEF Command
  <1>2. ASSUME Dialogue PROVE ConfInv'
    <2>1. ASSUME Abort PROVE ConfInv'
      BY <1>0, <2>1, ConfSame DEF Abort, confvars
    <2>2. ASSUME Dialogue, ~ EditPP, ~ Abort, ~ AddReply PROVE ConfInv'
      <3>1. UNCHANGED <<mode, from, fname, cnf, idx>>
        BY <2>2 DEF Dialogue, GetFrom, GetTo, GetSubj, GetSecurity, NoChange, CalledEditor, Edit,
                    Save, SaveFido, Done, Packed, Unpacked, textvars, confvars
      <3> QED
        BY <1>0, <3>1, ConfSame
    <2> QED
      BY <1>0, <1>2, <2>1, <2>2, EditPPConf, AddConf
  <1>3. ASSUME Waiting \/ Interrupt \/ UNCHANGED vars PROVE ConfInv'
    <2>1. UNCHANGED <<mode, from, fname, cnf, idx>>
      BY <1>3 DEF Waiting, Fork, SetHandler, Wait, ForkReturns, HandlerEnds, Interrupt, vars,
                  textvars, confvars
    <2> QED
      BY <1>0, <2>1, ConfSame
  <1> QED
    BY <1>0, <1>1, <1>2, <1>3, ChildEndsConf DEF Next

(* Whatever is typed, quoted, changed and copied, with whatever tagline:   *)
(* the three counts that Kode() and KodeWrite() (makemail.c) keep of a     *)
(* reply, in its text, its header and its index, agree for all of them.    *)
THEOREM BlocksDoAddUp == Spec => []BlocksAddUp
  BY InitConf, ConfInvInductive, AccountsAddUp, PTL DEF Spec

(***************************************************************************)
(* The way back: what a change makes of an encoded reply.                  *)
(***************************************************************************)
PlainStep(out, c) == IF c = CR THEN out ELSE Append(out, IF c = DOS_SPACE THEN SPC ELSE c)
Plains == INSTANCE LeftFold WITH Op <- PlainStep

\* The file without carriage returns and foreign spaces.
Plain(file) == Plains!Fold(<<>>, file)

LEMMA NormalIs ==
  ASSUME NEW file, NEW l
  PROVE  Normal(file, l) =
           IF Plain(file) \in {<<>>, <<NL>>} THEN (IF l THEN <<NL>> ELSE <<SPC, NL>>)
           ELSE IF Last(Plain(file)) = NL THEN Plain(file) ELSE Append(Plain(file), NL)
  BY Zenon DEF Normal, Plain, PlainStep, Plains!Fold, FoldLeft, MapThenFoldSet, Max,
               Plains!FoldLeft, Plains!MapThenFoldSet, Plains!Max

\* No line is broken if all of them fit.
LEMMA NotBroken ==
  ASSUME NEW file \in Text, FitsLines(file)
  PROVE  KodeXlat(file) = Plain(file)
  <1> DEFINE x == [out |-> <<>>, line |-> 0]
             N == Len(file)
             L == REPLY_LINE_LEN
  <1>1. file \in Seq(Char) /\ N \in Nat /\ L \in Nat
    BY EncodeAssumption DEF Text
  <1>2. PICK h : Xlats!Runs(x, file, h) /\ Xlats!Fold(x, file) = h[N]
    BY <1>1, Xlats!FoldRuns
  <1>3. PICK g : Plains!Runs(<<>>, file, g) /\ Plains!Fold(<<>>, file) = g[N]
    BY <1>1, Plains!FoldRuns
  <1> DEFINE Same(n) == /\ h[n].out = g[n]
                        /\ h[n].line \in 0 .. n
                        /\ \A j \in (n - h[n].line + 1) .. n : file[j] # NL
             S == {n \in Nat : n <= N => Same(n)}
  <1>4. 0 \in S
    <2>1. h[0] = x /\ g[0] = <<>>
      BY <1>1, <1>2, <1>3 DEF Xlats!Runs, Plains!Runs
    <2> QED
      BY <2>1
  <1>5. ASSUME NEW n \in Nat, Same(n), n + 1 <= N
        PROVE  Same(n + 1)
    <2> DEFINE ch == file[n + 1]
               k == h[n].line
               c == IF k >= L THEN NL ELSE ch
    <2>1. h[n].out = g[n] /\ k \in 0 .. n /\ \A j \in (n - k + 1) .. n : file[j] # NL
      BY <1>5
    <2>2. n + 1 \in 0 .. N /\ n + 1 # 0 /\ (n + 1) - 1 = n
      BY <1>1, <1>5
    <2>3. h[n + 1] = XlatStep(h[n], ch) /\ g[n + 1] = PlainStep(g[n], ch)
      BY <1>2, <1>3, <2>2 DEF Xlats!Runs, Plains!Runs
    <2> HIDE DEF k, L, N
    <2>4. c = ch
      <3>1. CASE k >= L
        <4> DEFINE i == n + 1 - L
        <4>1. i \in 1 .. (N - L) /\ i + L = n + 1 /\ i >= n - k + 1
          BY <1>1, <1>5, <2>1, <3>1
        <4>2. PICK j \in i .. (i + L) : file[j] = NL
          BY <4>1 DEF FitsLines, N, L
        <4>3. j \notin (n - k + 1) .. n
          BY <2>1, <4>2
        <4> HIDE DEF i
        <4>4. j = n + 1
          BY <1>1, <2>1, <4>1, <4>3
        <4> QED
          BY <3>1, <4>2, <4>4
      <3>2. CASE ~ (k >= L)
        BY <3>2
      <3> QED
        BY <3>1, <3>2
    <2>5. h[n + 1] = [out  |-> IF ch = CR THEN h[n].out ELSE Append(h[n].out, Xlat(ch)),
                      line |-> IF ch = NL THEN 0 ELSE k + 1]
      BY <2>3, <2>4, Zenon DEF XlatStep, k, L
    <2>6. h[n + 1].out = g[n + 1]
      BY <2>1, <2>3, <2>5 DEF PlainStep, Xlat
    <2>7. h[n + 1].line = IF ch = NL THEN 0 ELSE k + 1
      BY <2>5
    <2> DEFINE m == h[n + 1].line
    <2>8. m \in 0 .. (n + 1) /\ \A j \in ((n + 1) - m + 1) .. (n + 1) : file[j] # NL
      <3> HIDE DEF m
      <3>1. CASE ch = NL
        <4>1. m = 0
          BY <2>7, <3>1 DEF m
        <4> QED
          BY <4>1
      <3>2. CASE ch # NL
        <4>1. m = k + 1
          BY <2>7, <3>2 DEF m
        <4>2. m \in 0 .. (n + 1)
          BY <2>1, <4>1
        <4>3. ASSUME NEW j \in ((n + 1) - m + 1) .. (n + 1) PROVE file[j] # NL
          <5>1. j = n + 1 \/ j \in (n - k + 1) .. n
            BY <2>1, <4>1
          <5> QED
            BY <2>1, <3>2, <5>1
        <4> QED
          BY <4>2, <4>3
      <3> QED
        BY <3>1, <3>2
    <2> QED
      BY <2>6, <2>8
  <1> HIDE DEF Same
  <1>6. \A n \in Nat : n \in S => n + 1 \in S
    <2> SUFFICES ASSUME NEW n \in Nat, n \in S, n + 1 <= N PROVE Same(n + 1)
      OBVIOUS
    <2>1. n <= N
      BY <1>1
    <2>2. Same(n)
      BY <2>1
    <2> QED
      BY <1>5, <2>2
  <1> HIDE DEF S
  <1>7. N \in S
    BY <1>1, <1>4, <1>6, Induction
  <1>8. h[N].out = g[N]
    <2>1. N <= N
      BY <1>1
    <2> HIDE DEF N
    <2> QED
      BY <1>7, <2>1 DEF S, Same
  <1> QED
    BY <1>2, <1>3, <1>8, KodeXlatIs DEF Plain

\* A plain file has no mark in it.
Unmarked == {t \in Text : \A i \in 1 .. Len(t) : t[i] # DOS_SPACE}

LEMMA PlainType ==
  ASSUME NEW file \in Text
  PROVE  Plain(file) \in Unmarked
  <1>1. <<>> \in Unmarked
    BY DEF Unmarked, Text
  <1>2. ASSUME NEW out \in Unmarked, NEW c \in Char
        PROVE  PlainStep(out, c) \in Unmarked
    <2> DEFINE d == IF c = DOS_SPACE THEN SPC ELSE c
               t == Append(out, d)
    <2>1. d \in Char /\ d # DOS_SPACE
      BY Marks DEF DOS_SPACE, SPC
    <2>2. out \in Seq(Char) /\ \A i \in 1 .. Len(out) : out[i] # DOS_SPACE
      BY DEF Unmarked, Text
    <2> HIDE DEF d
    <2>3. t \in Seq(Char) /\ Len(t) = Len(out) + 1 /\ t[Len(out) + 1] = d
          /\ \A i \in 1 .. Len(out) : t[i] = out[i]
      BY <2>1, <2>2
    <2> HIDE DEF t
    <2>4. \A i \in 1 .. Len(t) : t[i] # DOS_SPACE
      <3>1. \A i \in 1 .. (Len(out) + 1) : i = Len(out) + 1 \/ i \in 1 .. Len(out)
        BY <2>2
      <3> QED
        BY <2>1, <2>2, <2>3, <3>1
    <2>5. t \in Unmarked
      BY <2>3, <2>4 DEF Unmarked, Text
    <2> QED
      BY <2>5 DEF PlainStep, t, d
  <1>3. file \in Seq(Char)
    BY DEF Text
  <1>4. Plains!Fold(<<>>, file) \in Unmarked
    BY <1>1, <1>2, <1>3, Plains!FoldStays
  <1> QED
    BY <1>4 DEF Plain

\* The first place of a character in a text.
LEMMA BeforeFirst ==
  ASSUME NEW t \in Text, NEW ch, NEW m \in 1 .. Len(t), t[m] = ch,
         \A i \in 1 .. (m - 1) : t[i] # ch
  PROVE  Before(t, ch) = SubSeq(t, 1, m - 1)
  <1> DEFINE P == {i \in 1 .. Len(t) : t[i] = ch}
             k == CHOOSE x \in P : \A y \in P : x <= y
  <1>1. t \in Seq(Char) /\ Len(t) \in Nat
    BY DEF Text
  <1>2. m \in P /\ \A y \in P : m <= y
    BY <1>1
  <1>3. Before(t, ch) = LET i == IF P # {} THEN k ELSE 0
                        IN  IF i = 0 THEN t ELSE SubSeq(t, 1, i - 1)
    BY Zenon DEF Before, SelectInSeq, Min
  <1>4. P \in SUBSET Nat
    BY <1>1
  <1> HIDE DEF P
  <1>5. k \in P /\ \A y \in P : k <= y
    BY <1>2
  <1> HIDE DEF k
  <1>6. k = m
    <2>1. k \in Nat /\ m \in Nat /\ k <= m /\ m <= k
      BY <1>2, <1>4, <1>5
    <2> QED
      BY <2>1
  <1>7. m # 0 /\ P # {}
    BY <1>1, <1>2
  <1> QED
    BY <1>3, <1>6, <1>7

\* A text whose unmarked beginning is K, behind the first m characters.
MarkedAt(t, m, K) ==
    /\ Len(t) >= m + Len(K) + 1
    /\ \A i \in 1 .. Len(K) : t[m + i] = K[i]
    /\ t[m + Len(K) + 1] = DOS_SPACE

LEMMA BeforeMark ==
  ASSUME NEW t \in Text, NEW m \in Nat, NEW K \in Unmarked, MarkedAt(t, m, K)
  PROVE  Before(Behind(t, m), DOS_SPACE) = K /\ K # Behind(t, m)
  <1> DEFINE z == Behind(t, m)
             n == Len(K)
             a == m + 1
             b == Len(t)
  <1>1. /\ t \in Seq(Char) /\ b \in Nat /\ n \in Nat /\ K \in Seq(Char) /\ b >= m + n + 1
        /\ \A i \in 1 .. n : t[m + i] = K[i] /\ K[i] # DOS_SPACE
        /\ t[m + n + 1] = DOS_SPACE
    BY DEF Unmarked, Text, MarkedAt
  <1>2. /\ z \in Seq(Char) /\ Len(z) = b - m
        /\ \A i \in 1 .. (b - m) : z[i] = t[m + i]
    <2>1. a \in Int /\ b \in Int /\ a <= b /\ b - a + 1 = b - m /\ \A i \in a .. b : t[i] \in Char
      BY <1>1
    <2> HIDE DEF b
    <2>2. /\ SubSeq(t, a, b) \in Seq(Char)
          /\ Len(SubSeq(t, a, b)) = b - a + 1
          /\ \A i \in 1 .. (b - a + 1) : SubSeq(t, a, b)[i] = t[a + i - 1]
      BY <2>1, SubSeqProperties
    <2>3. z = SubSeq(t, a, b)
      BY DEF Behind, b
    <2>4. \A i \in 1 .. (b - m) : a + i - 1 = m + i
      OBVIOUS
    <2> HIDE DEF z, a
    <2> QED
      BY <2>1, <2>2, <2>3, <2>4
  <1> HIDE DEF z, n, a, b
  <1>3. /\ n + 1 \in 1 .. Len(z) /\ z[n + 1] = DOS_SPACE
        /\ \A i \in 1 .. n : z[i] = K[i] /\ z[i] # DOS_SPACE
    <2>1. n + 1 \in 1 .. (b - m) /\ m + (n + 1) = m + n + 1 /\ \A i \in 1 .. n : i \in 1 .. (b - m)
      BY <1>1
    <2> QED
      BY <1>1, <1>2, <2>1
  <1>4. Before(z, DOS_SPACE) = SubSeq(z, 1, n)
    <2> DEFINE k == n + 1
    <2>1. k \in 1 .. Len(z) /\ z[k] = DOS_SPACE /\ k - 1 = n /\ z \in Text
      BY <1>1, <1>2, <1>3 DEF Text
    <2> HIDE DEF k
    <2>2. \A i \in 1 .. (k - 1) : z[i] # DOS_SPACE
      BY <1>3, <2>1
    <2>3. Before(z, DOS_SPACE) = SubSeq(z, 1, k - 1)
      BY <2>1, <2>2, BeforeFirst
    <2> QED
      BY <2>1, <2>3
  <1>5. SubSeq(z, 1, n) = K
    <2> DEFINE s == SubSeq(z, 1, n)
    <2>1. n <= Len(z) /\ Len(z) \in Nat
      BY <1>1, <1>2
    <2>2. s \in Seq(Char) /\ Len(s) = n /\ \A i \in 1 .. n : s[i] = z[i]
      BY <1>1, <1>2, <2>1
    <2> HIDE DEF s
    <2>3. Len(s) = Len(K) /\ \A i \in 1 .. Len(s) : s[i] = K[i]
      BY <1>3, <2>2 DEF n
    <2>4. s = K
      BY <1>1, <2>2, <2>3, SeqEqual
    <2> QED
      BY <2>4 DEF s
  <1>6. K # z
    <2>1. Len(z) # Len(K)
      BY <1>1, <1>2 DEF n
    <2> QED
      BY <2>1
  <1> QED
    BY <1>4, <1>5, <1>6 DEF z

\* PutAll() adds every character of a text.
LEMMA PutAllText ==
  ASSUME NEW e, e.text \in Text, NEW t \in Text
  PROVE  PutAll(e, t).text = e.text \o t
  <1> DEFINE a == Len(e.text)
             N == Len(t)
  <1>1. t \in Seq(Char) /\ e.text \in Seq(Char) /\ N \in Nat /\ a \in Nat
    BY DEF Text
  <1>2. PICK h : Puts!Runs(e, t, h) /\ Puts!Fold(e, t) = h[N]
    BY <1>1, Puts!FoldRuns
  <1> DEFINE In(n) == /\ h[n].text \in Seq(Char) /\ Len(h[n].text) = a + n
                      /\ \A i \in 1 .. a : h[n].text[i] = e.text[i]
                      /\ \A i \in 1 .. n : h[n].text[a + i] = t[i]
             S == {n \in Nat : n <= N => In(n)}
  <1>3. 0 \in S
    <2>1. h[0] = e
      BY <1>1, <1>2 DEF Puts!Runs
    <2> QED
      BY <1>1, <2>1
  <1>4. ASSUME NEW n \in Nat, In(n), n + 1 <= N
        PROVE  In(n + 1)
    <2> DEFINE u == h[n].text
               ch == t[n + 1]
               v == Append(u, ch)
    <2>1. n + 1 \in 0 .. N /\ n + 1 # 0 /\ (n + 1) - 1 = n /\ n + 1 \in 1 .. N
      BY <1>1, <1>4
    <2>2. h[n + 1] = Put(h[n], ch)
      BY <1>2, <2>1 DEF Puts!Runs
    <2>3. h[n + 1].text = v
      BY <2>2 DEF Put
    <2>4. /\ u \in Seq(Char) /\ Len(u) = a + n /\ ch \in Char
          /\ \A i \in 1 .. a : u[i] = e.text[i]
          /\ \A i \in 1 .. n : u[a + i] = t[i]
      BY <1>1, <1>4, <2>1
    <2> HIDE DEF u, a
    <2>5. /\ v \in Seq(Char) /\ Len(v) = a + n + 1 /\ v[a + n + 1] = ch
          /\ \A i \in 1 .. (a + n) : v[i] = u[i]
      BY <2>4
    <2> HIDE DEF v
    <2>6. \A i \in 1 .. a : v[i] = e.text[i]
      <3>1. \A i \in 1 .. a : i \in 1 .. (a + n)
        BY <1>1
      <3> QED
        BY <2>4, <2>5, <3>1
    <2>7. \A i \in 1 .. (n + 1) : v[a + i] = t[i]
      <3>1. \A i \in 1 .. (n + 1) : (i \in 1 .. n /\ a + i \in 1 .. (a + n)) \/ i = n + 1
        BY <1>1
      <3>2. a + (n + 1) = a + n + 1
        BY <1>1
      <3> QED
        BY <2>4, <2>5, <3>1, <3>2
    <2>8. Len(v) = a + (n + 1)
      BY <1>1, <2>5
    <2> QED
      BY <2>3, <2>5, <2>6, <2>7, <2>8
  <1> HIDE DEF In
  <1>5. \A n \in Nat : n \in S => n + 1 \in S
    <2> SUFFICES ASSUME NEW n \in Nat, n \in S, n + 1 <= N PROVE In(n + 1)
      OBVIOUS
    <2>1. n <= N
      BY <1>1
    <2>2. In(n)
      BY <2>1
    <2> QED
      BY <1>4, <2>2
  <1> HIDE DEF S
  <1>6. N \in S
    BY <1>1, <1>3, <1>5, Induction
  <1>7. In(N)
    <2>1. N <= N
      BY <1>1
    <2> HIDE DEF N
    <2> QED
      BY <1>6, <2>1 DEF S
  <1> DEFINE u == h[N].text
             w == e.text \o t
  <1>8. /\ u \in Seq(Char) /\ Len(u) = a + N
        /\ \A i \in 1 .. a : u[i] = e.text[i]
        /\ \A i \in 1 .. N : u[a + i] = t[i]
    BY <1>7 DEF In
  <1>9. /\ w \in Seq(Char) /\ Len(w) = a + N
        /\ \A i \in 1 .. (a + N) : w[i] = IF i <= a THEN e.text[i] ELSE t[i - a]
    <2>1. w \in Seq(Char) /\ Len(w) = a + N
      BY <1>1, ConcatProperties
    <2> QED
      BY <1>1, <2>1, ConcatProperties, Zenon
  <1>10. \A i \in 1 .. Len(u) : u[i] = w[i]
    <2> HIDE DEF u, w, a, N
    <2> SUFFICES ASSUME NEW i \in 1 .. (a + N) PROVE u[i] = w[i]
      BY <1>8
    <2>1. CASE i <= a
      <3>1. i \in 1 .. a
        BY <1>1, <2>1
      <3> QED
        BY <1>8, <1>9, <2>1, <3>1
    <2>2. CASE ~ (i <= a)
      <3>1. i - a \in 1 .. N /\ a + (i - a) = i
        BY <1>1, <2>2
      <3>2. w[i] = t[i - a]
        BY <1>9, <2>2
      <3>3. u[a + (i - a)] = t[i - a]
        BY <1>8, <3>1
      <3> QED
        BY <3>1, <3>2, <3>3
    <2> QED
      BY <2>1, <2>2
  <1> HIDE DEF u, w, a, N
  <1>11. u = w
    BY <1>8, <1>9, <1>10, SeqEqual
  <1> QED
    BY <1>2, <1>11, PutAllIs DEF u, w

\* What StripTag() leaves of a text with a mark behind its subject.
LEMMA StripIs ==
  ASSUME NEW t \in Text, NEW l, NEW m \in Nat, NEW K \in Unmarked, MarkedAt(t, m, K),
         m = IF ~l THEN 0 ELSE IF t[3] = NL THEN 3 ELSE 2,
         l => t[1] # NL /\ t[2] = NL
  PROVE  StripTag(t, l) = Append(K, NL)
  <1> DEFINE subj == Len(Before(t, NL)) + 1
             skip == IF ~l THEN 0 ELSE IF t[subj + 1] = NL THEN subj + 1 ELSE subj
  <1>1. l => subj = 2
    <2> SUFFICES ASSUME l PROVE subj = 2
      OBVIOUS
    <2>1. m >= 2 /\ t \in Seq(Char) /\ Len(t) \in Nat /\ Len(K) \in Nat /\ Len(t) >= m + Len(K) + 1
      BY DEF Text, MarkedAt, Unmarked
    <2>2. 2 \in 1 .. Len(t) /\ 2 - 1 = 1 /\ \A i \in 1 .. 1 : t[i] # NL
      BY <2>1
    <2>3. Before(t, NL) = SubSeq(t, 1, 2 - 1)
      BY <2>2, BeforeFirst
    <2>4. Len(SubSeq(t, 1, 1)) = 1
      <3>1. 1 <= Len(t)
        BY <2>1
      <3> QED
        BY <2>1, <3>1
    <2> QED
      BY <2>2, <2>3, <2>4
  <1>2. skip = m
    <2>1. CASE l
      BY <1>1, <2>1
    <2>2. CASE ~l
      BY <2>2
    <2> QED
      BY <2>1, <2>2
  <1>3. StripTag(t, l) = LET body == Behind(t, skip)
                             kept == Before(body, DOS_SPACE)
                         IN  IF kept = body THEN kept ELSE Append(kept, NL)
    BY Zenon DEF StripTag
  <1> HIDE DEF skip
  <1>4. Before(Behind(t, m), DOS_SPACE) = K /\ K # Behind(t, m)
    BY BeforeMark
  <1> QED
    BY <1>2, <1>3, <1>4

\* What stands before the mark.
Core(E) == IF E \in {<<>>, <<NL>>} THEN <<SPC>> ELSE IF Last(E) = NL THEN Front(E) ELSE E

\* One character, and two.
LEMMA OneIs ==
  ASSUME NEW b \in Char
  PROVE  Append(<<>>, b) = <<b>>
  <1> DEFINE a == Append(<<>>, b)
             c == <<b>>
  <1>1. <<>> \in Seq(Char) /\ Len(<<>>) = 0
    OBVIOUS
  <1>2. a \in Seq(Char) /\ Len(a) = 1 /\ a[1] = b
    BY <1>1, AppendProperties
  <1>3. c \in Seq(Char) /\ Len(c) = 1 /\ c[1] = b
    OBVIOUS
  <1> HIDE DEF a, c
  <1>4. \A i \in 1 .. Len(a) : a[i] = c[i]
    BY <1>2, <1>3
  <1>5. a = c
    BY <1>2, <1>3, <1>4, SeqEqual
  <1> QED
    BY <1>5 DEF a, c

LEMMA TwoIs ==
  ASSUME NEW x \in Char, NEW y \in Char
  PROVE  Append(<<x>>, y) = <<x, y>>
  <1> DEFINE a == Append(<<x>>, y)
             b == <<x, y>>
  <1>1. <<x>> \in Seq(Char) /\ Len(<<x>>) = 1 /\ <<x>>[1] = x
    OBVIOUS
  <1>2. a \in Seq(Char) /\ Len(a) = 2 /\ a[1] = x /\ a[2] = y
    BY <1>1, AppendProperties
  <1>3. b \in Seq(Char) /\ Len(b) = 2 /\ b[1] = x /\ b[2] = y
    OBVIOUS
  <1> HIDE DEF a, b
  <1>4. \A i \in 1 .. Len(a) : a[i] = b[i]
    BY <1>2, <1>3
  <1>5. a = b
    BY <1>2, <1>3, <1>4, SeqEqual
  <1> QED
    BY <1>5 DEF a, b

\* A text without its last character.
LEMMA FrontIs ==
  ASSUME NEW t \in Text, t # <<>>
  PROVE  /\ Front(t) \in Text /\ Len(t) \in Nat \ {0} /\ Len(Front(t)) = Len(t) - 1
         /\ \A i \in 1 .. (Len(t) - 1) : Front(t)[i] = t[i]
         /\ Append(Front(t), Last(t)) = t
  <1> DEFINE f == Front(t)
             n == Len(t) - 1
             a == Append(f, Last(t))
  <1>1. t \in Seq(Char) /\ Len(t) \in Nat /\ Len(t) # 0 /\ n \in Nat /\ n <= Len(t) /\ Len(t) = n + 1
    BY DEF Text
  <1>2. f = SubSeq(t, 1, n)
    BY DEF Front
  <1> HIDE DEF f, n
  <1>3. f \in Seq(Char) /\ Len(f) = n /\ \A i \in 1 .. n : f[i] = t[i]
    BY <1>1, <1>2
  <1>4. Last(t) = t[n + 1] /\ Last(t) \in Char
    BY <1>1 DEF Last
  <1>5. a \in Seq(Char) /\ Len(a) = n + 1 /\ a[n + 1] = t[n + 1] /\ \A i \in 1 .. n : a[i] = f[i]
    BY <1>3, <1>4, AppendProperties
  <1> HIDE DEF a
  <1>6. \A i \in 1 .. Len(a) : a[i] = t[i]
    <2>1. \A i \in 1 .. (n + 1) : i = n + 1 \/ i \in 1 .. n
      BY <1>1
    <2> QED
      BY <1>3, <1>5, <2>1
  <1>7. a = t
    BY <1>1, <1>5, <1>6, SeqEqual
  <1> QED
    BY <1>1, <1>3, <1>7 DEF f, n, a, Text

LEMMA FinText ==
  ASSUME NEW e \in Coded
  PROVE  KodeXlatFin(e).text = Append(Core(e.text), DOS_SPACE)
  <1>1. e = [text |-> e.text, blocks |-> e.blocks, rec |-> e.rec]
    BY DEF Coded
  <1>2. CASE e.text \in {<<>>, <<NL>>}
    <2>1. Append(<<SPC>>, DOS_SPACE) = <<SPC, DOS_SPACE>>
      BY Marks, TwoIs
    <2>2. KodeXlatFin(e).text = <<SPC, DOS_SPACE>>
      <3> DEFINE t == <<SPC, DOS_SPACE>>
      <3>1. KodeXlatFin(e) = [e EXCEPT !.text = t, !.rec = 2]
        BY <1>2 DEF KodeXlatFin
      <3> HIDE DEF t
      <3>2. KodeXlatFin(e).text = t
        BY <1>1, <3>1
      <3> QED
        BY <3>2 DEF t
    <2>3. Core(e.text) = <<SPC>>
      BY <1>2 DEF Core
    <2> QED
      BY <2>1, <2>2, <2>3
  <1>3. CASE e.text \notin {<<>>, <<NL>>} /\ Last(e.text) = NL
    <2> DEFINE t == Append(Front(e.text), DOS_SPACE)
    <2>1. KodeXlatFin(e) = [e EXCEPT !.text = t]
      BY <1>3 DEF KodeXlatFin
    <2> HIDE DEF t
    <2>2. KodeXlatFin(e).text = t
      BY <1>1, <2>1
    <2> QED
      BY <1>3, <2>2 DEF Core, t
  <1>4. CASE e.text \notin {<<>>, <<NL>>} /\ Last(e.text) # NL
    <2>1. KodeXlatFin(e) = Put(e, DOS_SPACE)
      BY <1>4 DEF KodeXlatFin
    <2>2. Put(e, DOS_SPACE).text = Append(e.text, DOS_SPACE)
      BY DEF Put
    <2> QED
      BY <1>4, <2>1, <2>2 DEF Core
  <1> QED
    BY <1>2, <1>3, <1>4

\* A text that is continued begins as it did.
LEMMA Continued ==
  ASSUME NEW f \in Text, NEW t \in Text
  PROVE  /\ f \o t \in Text /\ Len(f) \in Nat /\ Len(f \o t) \in Nat /\ Len(f \o t) >= Len(f)
         /\ \A i \in 1 .. Len(f) : (f \o t)[i] = f[i]
  <1> DEFINE w == f \o t
  <1>1. f \in Seq(Char) /\ t \in Seq(Char) /\ Len(f) \in Nat /\ Len(t) \in Nat
    BY DEF Text
  <1>2. w \in Seq(Char) /\ Len(w) = Len(f) + Len(t)
    BY <1>1, ConcatProperties
  <1>3. \A i \in 1 .. (Len(f) + Len(t)) : w[i] = IF i <= Len(f) THEN f[i] ELSE t[i - Len(f)]
    BY <1>1, ConcatProperties, Zenon
  <1>4. \A i \in 1 .. Len(f) : i \in 1 .. (Len(f) + Len(t)) /\ i <= Len(f)
    BY <1>1
  <1> HIDE DEF w
  <1>5. \A i \in 1 .. Len(f) : w[i] = f[i]
    BY <1>3, <1>4
  <1>6. w \in Text /\ Len(w) \in Nat /\ Len(w) >= Len(f)
    BY <1>1, <1>2 DEF Text
  <1> QED
    BY <1>1, <1>5, <1>6 DEF w

\* The subject and the lines of a reply, in front of the mark.
Lines(l, style, X) == (IF l THEN Subject(style) ELSE <<>>) \o X

LEMMA KodeMarked ==
  ASSUME NEW file \in Text, NEW l, NEW style, NEW tag \in Text,
         NEW C \in Text, C = Core(Lines(l, style, KodeXlat(file)))
  PROVE  MarkedAt(Kode(file, l, style, tag).text, 0, C)
  <1> DEFINE s == KodeSubj(l, style)
             e == PutAll(s, KodeXlat(file))
             f == KodeXlatFin(e)
             p == PutAll(f, tag)
             m == block_SIZE - p.rec
             fill == [i \in 1 .. m |-> SPC]
             T == p.text \o fill
  <1>1. KodeXlat(file) \in Text /\ s \in Coded /\ e \in Coded /\ f \in Coded /\ p \in Coded
    BY SubjCoded, KodeXlatType, PutAllCoded, XlatFinCoded
  <1>2. e.text = Lines(l, style, KodeXlat(file))
    <2>1. s.text = IF l THEN Subject(style) ELSE <<>>
      BY DEF KodeSubj
    <2>2. s.text \in Text
      BY <1>1 DEF Coded
    <2> HIDE DEF s
    <2>3. e.text = s.text \o KodeXlat(file)
      BY <1>1, <2>2, PutAllText
    <2> QED
      BY <2>1, <2>3 DEF Lines
  <1>3. f.text = Append(C, DOS_SPACE)
    <2> HIDE DEF e
    <2> QED
      BY <1>1, <1>2, FinText
  <1>4. p.text = f.text \o tag
    <2>1. f.text \in Text
      BY <1>1 DEF Coded
    <2> HIDE DEF f
    <2> QED
      BY <2>1, PutAllText
  <1>5. Kode(file, l, style, tag).text = T
    <2>1. Kode(file, l, style, tag) = [p EXCEPT !.text = T, !.rec = block_SIZE]
      BY DEF Kode, KodeMsgFin
    <2>2. p = [text |-> p.text, blocks |-> p.blocks, rec |-> p.rec]
      BY <1>1 DEF Coded
    <2> HIDE DEF p, T
    <2> QED
      BY <2>1, <2>2
  <1>6. p.text \in Text /\ f.text \in Text
    BY <1>1 DEF Coded
  <1>7. fill \in Text
    <2>1. m \in Nat
      <3>1. p.rec \in Nat /\ p.rec <= block_SIZE
        BY <1>1 DEF Coded
      <3> HIDE DEF p
      <3> QED
        BY <3>1, EncodeAssumption
    <2> HIDE DEF m
    <2> QED
      BY <2>1, Marks DEF Text
  <1> DEFINE F == Append(C, DOS_SPACE)
             P == p.text
  <1> HIDE DEF fill, f, p
  <1>8. /\ F \in Text /\ Len(F) = Len(C) + 1 /\ F[Len(C) + 1] = DOS_SPACE
        /\ \A i \in 1 .. Len(C) : F[i] = C[i]
    BY Marks DEF Text
  <1> HIDE DEF F
  <1>9. P = F \o tag /\ T = P \o fill /\ P \in Text
    BY <1>3, <1>4, <1>6 DEF F
  <1> HIDE DEF P
  <1>10. Len(P) \in Nat /\ Len(P) >= Len(F) /\ \A i \in 1 .. Len(F) : P[i] = F[i]
    <2>1. F \in Text
      BY <1>8
    <2>2. /\ Len(F \o tag) \in Nat /\ Len(F \o tag) >= Len(F)
          /\ \A i \in 1 .. Len(F) : (F \o tag)[i] = F[i]
      BY <2>1, Continued
    <2> QED
      BY <1>9, <2>2, Zenon
  <1>11. Len(T) \in Nat /\ Len(T) >= Len(P) /\ \A i \in 1 .. Len(P) : T[i] = P[i]
    <2>1. fill \in Text /\ P \in Text
      BY <1>7, <1>9
    <2>2. /\ Len(P \o fill) \in Nat /\ Len(P \o fill) >= Len(P)
          /\ \A i \in 1 .. Len(P) : (P \o fill)[i] = P[i]
      BY <2>1, Continued
    <2> HIDE DEF T
    <2> QED
      BY <1>9, <2>2, Zenon
  <1> HIDE DEF T
  <1>12. Len(C) \in Nat
    BY DEF Text
  <1>13. \A i \in 1 .. (Len(C) + 1) : T[i] = F[i]
    <2>1. \A i \in 1 .. (Len(C) + 1) : i \in 1 .. Len(F) /\ i \in 1 .. Len(P)
      BY <1>8, <1>10, <1>12
    <2> QED
      BY <1>10, <1>11, <2>1
  <1>14. MarkedAt(T, 0, C)
    <2>1. Len(T) >= 0 + Len(C) + 1
      BY <1>8, <1>10, <1>11, <1>12
    <2>2. \A i \in 1 .. Len(C) : T[0 + i] = C[i]
      <3>1. \A i \in 1 .. Len(C) : 0 + i = i /\ i \in 1 .. (Len(C) + 1)
        BY <1>12
      <3> QED
        BY <1>8, <1>13, <3>1
    <2>3. T[0 + Len(C) + 1] = DOS_SPACE
      <3>1. 0 + Len(C) + 1 = Len(C) + 1 /\ Len(C) + 1 \in 1 .. (Len(C) + 1)
        BY <1>12
      <3> QED
        BY <1>8, <1>13, <3>1
    <2> QED
      BY <2>1, <2>2, <2>3 DEF MarkedAt
  <1> QED
    BY <1>5, <1>14

\* The lines of a reply, as they stand before the mark.
Body(X) == IF Last(X) = NL THEN Front(X) ELSE X

LEMMA BodyIs ==
  ASSUME NEW X \in Unmarked, X # <<>>
  PROVE  /\ Body(X) \in Unmarked /\ X \in Text
         /\ Append(Body(X), NL) = IF Last(X) = NL THEN X ELSE Append(X, NL)
  <1>1. X \in Text /\ \A i \in 1 .. Len(X) : X[i] # DOS_SPACE
    BY DEF Unmarked
  <1>2. /\ Front(X) \in Text /\ Len(X) \in Nat /\ Len(Front(X)) = Len(X) - 1
        /\ \A i \in 1 .. (Len(X) - 1) : Front(X)[i] = X[i]
        /\ Append(Front(X), Last(X)) = X
    BY <1>1, FrontIs
  <1>3. Front(X) \in Unmarked
    <2>1. \A i \in 1 .. (Len(X) - 1) : i \in 1 .. Len(X)
      BY <1>2
    <2> QED
      BY <1>1, <1>2, <2>1 DEF Unmarked
  <1>4. Body(X) \in Unmarked
    BY <1>3 DEF Body
  <1>5. Append(Body(X), NL) = IF Last(X) = NL THEN X ELSE Append(X, NL)
    BY <1>2 DEF Body
  <1> QED
    BY <1>1, <1>4, <1>5

\* Without a long subject.
LEMMA PlainKept ==
  ASSUME NEW X \in Unmarked, NEW t \in Text, NEW l, ~l, MarkedAt(t, 0, Core(X))
  PROVE  StripTag(t, l) = IF X \in {<<>>, <<NL>>} THEN <<SPC, NL>>
                          ELSE IF Last(X) = NL THEN X ELSE Append(X, NL)
  <1> DEFINE C == Core(X)
  <1>1. CASE X \in {<<>>, <<NL>>}
    <2>1. C = <<SPC>>
      BY <1>1 DEF Core
    <2>2. <<SPC>> \in Unmarked
      <3>1. <<SPC>> \in Text /\ Len(<<SPC>>) = 1 /\ <<SPC>>[1] # DOS_SPACE
        BY Marks DEF Text, SPC, DOS_SPACE
      <3> QED
        BY <3>1 DEF Unmarked
    <2> DEFINE K == <<SPC>>
    <2> HIDE DEF K
    <2>3. K \in Unmarked /\ MarkedAt(t, 0, K)
      BY <2>1, <2>2 DEF K
    <2>4. StripTag(t, l) = Append(K, NL)
      BY <2>3, StripIs
    <2>5. StripTag(t, l) = Append(<<SPC>>, NL)
      BY <2>4 DEF K
    <2> QED
      BY <1>1, <2>5, TwoIs, Marks
  <1>2. CASE X \notin {<<>>, <<NL>>}
    <2>1. C = Body(X)
      BY <1>2 DEF Core, Body
    <2>2. Body(X) \in Unmarked
      BY <1>2, BodyIs
    <2>3. StripTag(t, l) = Append(Body(X), NL)
      BY <2>1, <2>2, StripIs
    <2> QED
      BY <1>2, <2>3, BodyIs
  <1> QED
    BY <1>1, <1>2

LEMMA SubjectIs ==
  ASSUME NEW style
  PROVE  /\ Subject(style) \in Text /\ Len(Subject(style)) = 3 /\ Subject(style)[1] # NL
         /\ Subject(style)[2] = NL /\ Subject(style)[3] = NL
  <1> DEFINE c == IF style THEN SPC ELSE DOS_SPACE
  <1>1. c \in Char /\ c # NL
    BY Marks DEF SPC, DOS_SPACE, NL
  <1>2. Subject(style) = <<c, NL, NL>>
    BY DEF Subject
  <1> HIDE DEF c
  <1> QED
    BY <1>1, <1>2, Marks DEF Text

\* With a long subject, and no line.
LEMMA NoLineKept ==
  ASSUME NEW style, NEW t \in Text, NEW l, l, MarkedAt(t, 0, Core(Subject(style)))
  PROVE  StripTag(t, l) = <<NL>>
  <1> DEFINE s == Subject(style)
             C == Front(s)
  <1>1. s \in Text /\ Len(s) = 3 /\ s[1] # NL /\ s[2] = NL /\ s[3] = NL
    BY SubjectIs
  <1>2. s # <<>> /\ s # <<NL>> /\ Last(s) = NL
    BY <1>1 DEF Last
  <1>3. Core(s) = C
    BY <1>2 DEF Core
  <1>4. /\ C \in Text /\ Len(C) = 3 - 1
        /\ \A i \in 1 .. (3 - 1) : C[i] = s[i]
    <2> HIDE DEF s
    <2> QED
      BY <1>1, <1>2, FrontIs
  <1> HIDE DEF C
  <1>5. Len(C) = 2 /\ C[1] # NL /\ C[2] = NL
    <2> HIDE DEF s
    <2> QED
      BY <1>1, <1>4
  <1>6. /\ Len(t) >= 0 + Len(C) + 1
        /\ \A i \in 1 .. Len(C) : t[0 + i] = C[i]
        /\ t[0 + Len(C) + 1] = DOS_SPACE
    BY <1>3, Zenon DEF MarkedAt, s
  <1>7. Len(t) >= 3 /\ t[1] # NL /\ t[2] = NL /\ t[3] = DOS_SPACE
    <2>1. 0 + Len(C) + 1 = 3 /\ 1 \in 1 .. Len(C) /\ 2 \in 1 .. Len(C) /\ 0 + 1 = 1 /\ 0 + 2 = 2
      BY <1>5
    <2>2. t[0 + 1] = C[1] /\ t[0 + 2] = C[2]
      BY <1>6, <2>1
    <2> QED
      BY <1>5, <1>6, <2>1, <2>2
  <1> DEFINE K == <<>>
  <1>8. K \in Unmarked /\ Len(K) = 0
    BY DEF Unmarked, Text
  <1> HIDE DEF K
  <1>9. MarkedAt(t, 2, K)
    <2>1. 2 + Len(K) + 1 = 3 /\ 1 .. Len(K) = {}
      BY <1>8
    <2> QED
      BY <1>7, <2>1 DEF MarkedAt
  <1>10. t[3] # NL
    BY <1>7 DEF NL, DOS_SPACE
  <1>11. StripTag(t, l) = Append(K, NL)
    BY <1>7, <1>8, <1>9, <1>10, StripIs
  <1> QED
    BY <1>11, OneIs, Marks DEF K

\* With a long subject, and lines.
LEMMA LinesKept ==
  ASSUME NEW style, NEW X \in Unmarked, X # <<>>, NEW t \in Text, NEW l, l,
         MarkedAt(t, 0, Core(Lines(l, style, X)))
  PROVE  StripTag(t, l) = IF Last(X) = NL THEN X ELSE Append(X, NL)
  <1> DEFINE s == Subject(style)
             E == Lines(l, style, X)
             C == Core(E)
             D == Body(X)
             n == Len(X)
             m == Len(D)
  <1>1. s \in Text /\ Len(s) = 3 /\ s[1] # NL /\ s[2] = NL /\ s[3] = NL
    BY SubjectIs
  <1>2. X \in Text /\ D \in Unmarked /\ n \in Nat /\ n # 0
    <2>1. X \in Text /\ D \in Unmarked
      BY BodyIs
    <2> QED
      BY <2>1 DEF Text
  <1>3. /\ E \in Text /\ Len(E) = 3 + n
        /\ \A i \in 1 .. (3 + n) : E[i] = IF i <= 3 THEN s[i] ELSE X[i - 3]
    <2>0. E = s \o X
      BY DEF Lines
    <2> HIDE DEF s, n, E
    <2>1. s \in Seq(Char) /\ X \in Seq(Char)
      BY <1>1, <1>2 DEF Text
    <2>2. E \in Seq(Char) /\ Len(E) = Len(s) + Len(X)
      BY <2>0, <2>1, ConcatProperties
    <2>3. \A i \in 1 .. (Len(s) + Len(X)) : E[i] = IF i <= Len(s) THEN s[i] ELSE X[i - Len(s)]
      BY <2>0, <2>1, ConcatProperties, Zenon
    <2> QED
      BY <1>1, <2>2, <2>3 DEF n, Text
  <1> HIDE DEF s, E, C
  <1>4. Last(E) = Last(X) /\ E # <<>> /\ E # <<NL>>
    <2>1. 3 + n \in 1 .. (3 + n) /\ ~ (3 + n <= 3) /\ (3 + n) - 3 = n /\ 3 + n # 0 /\ 3 + n # 1
      BY <1>2
    <2>2. E[3 + n] = X[n]
      BY <1>3, <2>1
    <2>3. Len(<<>>) = 0 /\ Len(<<NL>>) = 1
      OBVIOUS
    <2> QED
      BY <1>3, <2>1, <2>2, <2>3 DEF Last
  <1>5. /\ C \in Text /\ m \in Nat /\ Len(C) = 3 + m
        /\ \A i \in 1 .. (3 + m) : C[i] = IF i <= 3 THEN s[i] ELSE D[i - 3]
    <2>1. CASE Last(X) = NL
      <3>1. C = Front(E) /\ D = Front(X)
        BY <1>4, <2>1 DEF C, Core, Body
      <3>2. /\ C \in Text /\ Len(C) = (3 + n) - 1
            /\ \A i \in 1 .. ((3 + n) - 1) : C[i] = E[i]
        BY <1>3, <1>4, <3>1, FrontIs
      <3>3. m = n - 1 /\ \A i \in 1 .. (n - 1) : D[i] = X[i]
        BY <1>2, <3>1, FrontIs
      <3> HIDE DEF D, m, n
      <3>4. m \in Nat /\ (3 + n) - 1 = 3 + m
        BY <1>2, <3>3
      <3>5. ASSUME NEW i \in 1 .. (3 + m)
            PROVE  C[i] = IF i <= 3 THEN s[i] ELSE D[i - 3]
        <4>1. i \in 1 .. (3 + n) /\ (~ (i <= 3) => i - 3 \in 1 .. (n - 1))
          BY <1>2, <3>3
        <4>2. C[i] = E[i]
          BY <3>2, <3>4
        <4> QED
          BY <1>3, <3>3, <4>1, <4>2
      <3> QED
        BY <3>2, <3>4, <3>5
    <2>2. CASE Last(X) # NL
      <3>1. C = E /\ D = X
        BY <1>4, <2>2 DEF C, Core, Body
      <3> QED
        BY <1>2, <1>3, <3>1
    <2> QED
      BY <2>1, <2>2
  <1>6. /\ Len(t) >= 0 + Len(C) + 1
        /\ \A i \in 1 .. Len(C) : t[0 + i] = C[i]
        /\ t[0 + Len(C) + 1] = DOS_SPACE
    BY Zenon DEF MarkedAt, C, E
  <1> HIDE DEF m, D
  <1>7. ASSUME NEW i \in 1 .. (3 + m)
        PROVE  t[i] = IF i <= 3 THEN s[i] ELSE D[i - 3]
    <2>1. 0 + i = i /\ i \in 1 .. Len(C)
      BY <1>5
    <2>2. t[i] = C[i]
      BY <1>6, <2>1
    <2> QED
      BY <1>5, <2>2
  <1>8. t[1] # NL /\ t[2] = NL /\ t[3] = NL
    <2>1. 1 \in 1 .. (3 + m) /\ 2 \in 1 .. (3 + m) /\ 3 \in 1 .. (3 + m)
      BY <1>5
    <2> QED
      BY <1>1, <1>7, <2>1
  <1>9. MarkedAt(t, 3, D)
    <2>1. 0 + Len(C) + 1 = 3 + m + 1
      BY <1>5
    <2>2. \A i \in 1 .. m : t[3 + i] = D[i]
      <3> TAKE i \in 1 .. m
      <3>1. 3 + i \in 1 .. (3 + m) /\ ~ (3 + i <= 3) /\ (3 + i) - 3 = i
        BY <1>5
      <3> QED
        BY <1>7, <3>1
    <2> QED
      BY <1>6, <2>1, <2>2 DEF MarkedAt, m
  <1>10. StripTag(t, l) = Append(D, NL)
    BY <1>2, <1>8, <1>9, StripIs
  <1> QED
    BY <1>10, BodyIs DEF D

(* A reply that is changed begins as the file it was made from, if the     *)
(* lines of that fit.                                                      *)
LEMMA KodeRestored ==
  ASSUME NEW file \in Text, FitsLines(file), NEW l, NEW style, NEW tag \in Text
  PROVE  StripTag(Kode(file, l, style, tag).text, l) = Normal(file, l)
  <1> DEFINE X == Plain(file)
             t == Kode(file, l, style, tag).text
             E == Lines(l, style, X)
             C == Core(E)
  <1>1. X \in Unmarked /\ X \in Text /\ KodeXlat(file) = X
    <2>1. X \in Unmarked
      BY PlainType
    <2> QED
      BY <2>1, NotBroken DEF Unmarked
  <1>2. t \in Text
    BY KodeFull
  <1>3. Normal(file, l) = IF X \in {<<>>, <<NL>>} THEN (IF l THEN <<NL>> ELSE <<SPC, NL>>)
                          ELSE IF Last(X) = NL THEN X ELSE Append(X, NL)
    BY NormalIs
  <1>4. C \in Text => MarkedAt(t, 0, C)
    BY <1>1, KodeMarked
  <1> HIDE DEF X, t
  <1>5. E \in Text
    <2>1. Subject(style) \in Seq(Char) /\ X \in Seq(Char) /\ <<>> \in Seq(Char)
      BY <1>1, SubjectIs DEF Text
    <2>2. (IF l THEN Subject(style) ELSE <<>>) \in Seq(Char)
      BY <2>1
    <2>3. E \in Seq(Char)
      BY <2>1, <2>2, ConcatProperties DEF Lines
    <2> QED
      BY <2>3 DEF Text
  <1> HIDE DEF E
  <1>6. C \in Text
    <2>1. <<SPC>> \in Text
      BY Marks DEF Text
    <2>2. E # <<>> => Front(E) \in Text
      BY <1>5, FrontIs
    <2> QED
      BY <1>5, <2>1, <2>2 DEF Core
  <1>7. MarkedAt(t, 0, C)
    BY <1>4, <1>6
  <1>8. CASE ~l
    <2>1. E = X
      <3>1. E = <<>> \o X
        BY <1>8 DEF E, Lines
      <3>2. X \in Seq(Char)
        BY <1>1 DEF Text
      <3> QED
        BY <3>1, <3>2, ConcatEmptySeq
    <2>2. MarkedAt(t, 0, Core(X))
      BY <1>7, <2>1
    <2>3. X \in Unmarked /\ t \in Text /\ ~l
      BY <1>1, <1>2, <1>8
    <2>4. StripTag(t, l) = IF X \in {<<>>, <<NL>>} THEN <<SPC, NL>>
                           ELSE IF Last(X) = NL THEN X ELSE Append(X, NL)
      BY <2>2, <2>3, PlainKept
    <2> QED
      BY <1>3, <1>8, <2>4 DEF t
  <1>9. CASE l /\ X = <<>>
    <2>1. E = Subject(style)
      <3>1. E = Subject(style) \o <<>>
        BY <1>9 DEF E, Lines
      <3>2. Subject(style) \in Seq(Char)
        BY SubjectIs DEF Text
      <3> QED
        BY <3>1, <3>2, ConcatEmptySeq
    <2>2. MarkedAt(t, 0, Core(Subject(style)))
      BY <1>7, <2>1
    <2>3. StripTag(t, l) = <<NL>>
      BY <1>2, <1>9, <2>2, NoLineKept
    <2> QED
      BY <1>3, <1>9, <2>3 DEF t
  <1>10. CASE l /\ X # <<>>
    <2>2. MarkedAt(t, 0, Core(Lines(l, style, X)))
      BY <1>7 DEF E
    <2>3. StripTag(t, l) = IF Last(X) = NL THEN X ELSE Append(X, NL)
      <3>1. X \in Unmarked /\ t \in Text /\ l /\ X # <<>>
        BY <1>1, <1>2, <1>10
      <3> QED
        BY <2>2, <3>1, LinesKept, ZenonT(60)
    <2>4. X = <<NL>> => Last(X) = NL
      <3>1. Len(<<NL>>) = 1 /\ <<NL>>[1] = NL
        OBVIOUS
      <3> QED
        BY <3>1 DEF Last
    <2> QED
      BY <1>3, <1>10, <2>3, <2>4 DEF t
  <1> QED
    BY <1>8, <1>9, <1>10 DEF t

Restored(r) == FitsLines(r.typed) => StripTag(r.text, r.long) = Normal(r.typed, r.long)

KeepInv ==
    /\ ConfInv
    /\ \A i \in 1 .. Len(cnf) : Restored(cnf[i])

LEMMA EncodedRestored ==
  ASSUME ConfInv, fname # None
  PROVE  Restored(Encoded)
  <1> DEFINE tag == IF tag_flag THEN Cut(CurTag) ELSE <<>>
             l == long /\ pcb
             k == Kode(fname, l, fido, tag)
  <1>1. tag \in Text
    <2>1. Styled(CurTag, fido)
      BY DEF ConfInv, TagInv
    <2>2. Cut(CurTag) \in Text
      BY <2>1, CutStyled, StyledIs
    <2>3. <<>> \in Text
      BY DEF Text
    <2> QED
      BY <2>2, <2>3
  <1>2. Encoded.text = k.text /\ Encoded.long = l /\ Encoded.typed = fname
    BY DEF Encoded
  <1>3. fname \in Text
    BY DEF ConfInv
  <1> HIDE DEF tag, l
  <1>4. FitsLines(fname) => StripTag(k.text, l) = Normal(fname, l)
    <2>1. FitsLines(fname) => \A a, style : StripTag(Kode(fname, a, style, tag).text, a) = Normal(fname, a)
      BY <1>1, <1>3, KodeRestored
    <2> QED
      BY <2>1, Zenon
  <1> HIDE DEF k
  <1> QED
    BY <1>2, <1>4 DEF Restored

\* Replies of which nothing but the mark has changed.
LEMMA SameRestored ==
  ASSUME NEW c, NEW d, c.text = d.text, c.typed = d.typed, c.long = d.long, Restored(c)
  PROVE  Restored(d)
  BY DEF Restored

LEMMA KeepKill ==
  ASSUME KeepInv, ConfInv', NEW i \in DOMAIN cnf, Kill(i)
  PROVE  KeepInv'
  <1> DEFINE v == ~cnf[i].killed
             d == Marking(cnf, i, v)
  <1>1. v \in BOOLEAN /\ cnf \in Seq(Rec)
    BY DEF KeepInv, ConfInv
  <1>2. cnf' = d
    BY DEF Kill, Marking
  <1> HIDE DEF v
  <1>3. /\ d \in Seq(Rec) /\ Len(d) = Len(cnf)
        /\ \A j \in 1 .. Len(cnf) : /\ d[j].text = cnf[j].text /\ d[j].blocks = cnf[j].blocks
                                    /\ d[j].typed = cnf[j].typed /\ d[j].long = cnf[j].long
    BY <1>1, Marked
  <1> HIDE DEF d
  <1>4. \A j \in 1 .. Len(d) : Restored(d[j])
    BY <1>3, SameRestored DEF KeepInv
  <1> QED
    BY <1>2, <1>4 DEF KeepInv

LEMMA KeepAdd ==
  ASSUME KeepInv, ConfInv', AddReply
  PROVE  KeepInv'
  <1> DEFINE all == Append(cnf, Encoded)
             n == Len(cnf)
  <1>1. CASE UNCHANGED cnf
    BY <1>1 DEF KeepInv
  <1>2. CASE ~ UNCHANGED cnf
    <2>1. fname # None /\ cnf' = Replies
      BY <1>2 DEF AddReply, KodeMessage, KodeWrite
    <2>2. Restored(Encoded) /\ cnf \in Seq(Rec) /\ Replies \in Seq(Rec) /\ Len(Replies) = n + 1
      BY <2>1, EncodedRestored, WriteConf DEF KeepInv, ConfInv
    <2>3. all[n + 1] = Encoded /\ \A i \in 1 .. n : all[i] = cnf[i]
      BY <2>2
    <2>4. \A i \in 1 .. (n + 1) : Restored(all[i])
      <3>1. \A i \in 1 .. n : Restored(cnf[i])
        BY DEF KeepInv
      <3>2. \A i \in 1 .. (n + 1) : i = n + 1 \/ i \in 1 .. n
        BY <2>2
      <3> HIDE DEF all
      <3> QED
        BY <2>2, <2>3, <3>1, <3>2
    <2>5. CASE mode # "change"
      <3>1. Replies = all
        BY <2>5 DEF Replies
      <3> QED
        BY <2>1, <2>2, <2>4, <3>1 DEF KeepInv
    <2>6. CASE mode = "change"
      <3> DEFINE d == Marking(all, from, TRUE)
      <3>1. Replies = d
        BY <2>6 DEF Replies, Marking
      <3>2. all \in Seq(Rec) /\ Len(all) = n + 1 /\ TRUE \in BOOLEAN
        <4>1. Encoded \in Rec
          BY <2>1, EncodedRec DEF KeepInv
        <4> QED
          BY <2>2, <4>1
      <3> HIDE DEF all
      <3>3. /\ d \in Seq(Rec) /\ Len(d) = Len(all)
            /\ \A j \in 1 .. Len(all) : /\ d[j].text = all[j].text /\ d[j].blocks = all[j].blocks
                                        /\ d[j].typed = all[j].typed /\ d[j].long = all[j].long
        BY <3>2, Marked
      <3> HIDE DEF d
      <3>4. \A j \in 1 .. (n + 1) : Restored(d[j])
        BY <2>4, <3>2, <3>3, SameRestored
      <3> QED
        BY <2>1, <2>2, <3>1, <3>4 DEF KeepInv
    <2> QED
      BY <2>5, <2>6
  <1> QED
    BY <1>1, <1>2

LEMMA KeepInvInductive == ASSUME KeepInv, [Next]_vars PROVE KeepInv'
  <1>0. ConfInv'
    BY ConfInvInductive DEF KeepInv
  <1>1. ASSUME UNCHANGED cnf PROVE KeepInv'
    BY <1>0, <1>1 DEF KeepInv
  <1>2. ASSUME Command PROVE KeepInv'
    <2>1. (\E i \in DOMAIN cnf : Kill(i)) \/ UNCHANGED cnf
      BY <1>2 DEF Command, Begin, PackReply, Unpack, TagCommand, confvars
    <2> QED
      BY <1>0, <1>1, <2>1, KeepKill
  <1>3. ASSUME Dialogue PROVE KeepInv'
    <2>1. AddReply \/ UNCHANGED cnf
      BY <1>3 DEF Dialogue, GetFrom, GetTo, GetSubj, GetSecurity, NoChange, EditPP, CalledEditor,
                  Edit, Abort, Save, SaveFido, Done, Packed, Unpacked, confvars
    <2> QED
      BY <1>0, <1>1, <2>1, KeepAdd
  <1>4. ASSUME Waiting \/ ChildEnds \/ Interrupt \/ UNCHANGED vars PROVE KeepInv'
    <2>1. UNCHANGED cnf
      BY <1>4 DEF Waiting, Fork, SetHandler, Wait, ForkReturns, HandlerEnds, ChildEnds, Interrupt,
                  vars, confvars
    <2> QED
      BY <1>1, <2>1
  <1> QED
    BY <1>2, <1>3, <1>4 DEF Next

LEMMA InitKeep == Init => KeepInv
  <1> SUFFICES ASSUME Init PROVE KeepInv
    OBVIOUS
  <1>1. cnf = <<>> /\ Len(<<>>) = 0 /\ 1 .. 0 = {}
    BY DEF Init
  <1> QED
    BY <1>1, InitConf DEF KeepInv

(* Whatever reply is changed, with whatever subject, style and tagline it  *)
(* was written: StripTag() (reply.c) undoes Kode() (makemail.c), as long   *)
(* as KodeXlat() had no line to break.                                     *)
THEOREM ChangeIsFaithful == Spec => []ChangeKeepsText
  <1>1. KeepInv => ChangeKeepsText
    <2> SUFFICES ASSUME KeepInv PROVE ChangeKeepsText
      OBVIOUS
    <2>1. DOMAIN cnf = 1 .. Len(cnf)
      BY DEF KeepInv, ConfInv
    <2> QED
      BY <2>1 DEF KeepInv, Restored, ChangeKeepsText
  <1> QED
    BY <1>1, InitKeep, KeepInvInductive, PTL DEF Spec
=============================================================================
