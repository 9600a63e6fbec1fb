------------------------------- MODULE Reply -------------------------------
(***************************************************************************)
(* Writing replies and packing them (reply.c, makemail.c, chosetag.c, and  *)
(* the child processes of system.c).  Reply() asks for the header, runs    *)
(* the editor and the speller on a file, asks what to do with it, and adds *)
(* its text to the reply conference; PackReply() copies the conference to  *)
(* a file that the archiver packs.  Editor, speller, archiver and          *)
(* unarchiver are child processes, which the user may interrupt.           *)
(*                                                                         *)
(* A reply in the conference is [text, blocks, long, killed, typed]: what  *)
(* Kode() made of it, the block count of its header, whether it has a long *)
(* subject, whether it is marked as killed, and the file it was made from. *)
(* A habit is [texts, can, rc, max]: what the editor may write, the        *)
(* commands and faults of a session, the options that atprc may set for    *)
(* it, and a bound on the replies in the conference.                       *)
(***************************************************************************)
EXTENDS Encode, TagLine, FiniteSets

CONSTANTS
    Habits,      \* the kinds of sessions
    Received,    \* the text of the message that is answered
    None,        \* no file
    MaxInts      \* bound on the interrupts

\* An editor that was given a file does not take it away.
ASSUME ReplyAssumption ==
    /\ \A h \in Habits : h.texts \subseteq Seq(STRING) /\ None \notin h.texts
    /\ Received \in Seq(STRING)

VARIABLES
    habit,       \* what this session does
    pcb,         \* long subjects may be used (pcbext)
    pc,          \* where the program is
    mode,        \* the reply command: "enter", "reply", "change", "xpost"
    from,        \* the reply that is changed or copied
    reedit,      \* the user wants to edit again
    long,        \* RepSubjBuf holds a long subject
    fname,       \* the file of the editor
    cnf, idx,    \* the reply conference and its index
    ReplyExist,  \* there are replies to be packed
    msg, rep,    \* the file for the archiver, and the packet
    prg,         \* the program of the child
    child,       \* "none", "running", "zombie"
    Proc_ID,     \* the handler has a child to kill
    handler,     \* of SIGINT: "ignore", "kill_child"
    sig,         \* the handler runs
    reperror,    \* the reply error flag
    hit,         \* a child of this reply failed or was interrupted
    ints         \* interrupts so far

childvars == <<prg, child, Proc_ID, handler, sig, reperror, hit, ints>>
textvars  == <<mode, from, reedit, long, fname>>
confvars  == <<cnf, idx, ReplyExist>>
packvars  == <<msg, rep>>
fixed     == <<habit, pcb>>
vars      == <<fixed, pc, textvars, confvars, packvars, childvars, tagvars>>

Option(name) == IF name \in habit.rc THEN BOOLEAN ELSE {FALSE}
Can(what) == what \in habit.can
Sum(s) == FoldLeft(LAMBDA n, m : n + Len(m.text) + block_SIZE, 0, s)

Init ==
    /\ habit \in Habits
    /\ pcb \in Option("pcb")
    /\ pc = "prompt" /\ mode = "enter" /\ from = 0
    /\ reedit = FALSE /\ long = FALSE /\ fname = None
    /\ cnf = <<>> /\ idx = <<>> /\ ReplyExist = FALSE
    /\ msg = None /\ rep = None
    /\ prg = "editor" /\ child = "none" /\ Proc_ID = FALSE /\ handler = "ignore" /\ sig = FALSE
    /\ reperror = FALSE /\ hit = FALSE /\ ints = 0
    /\ TagInit
    /\ fido \in Option("fido") /\ autotag \in Option("autotag")
    /\ taglines = <<>> \/ "autotag" \in habit.rc

(***************************************************************************)
(* fork_execvp(), its child, and the handler of SIGINT.                    *)
(***************************************************************************)
Call(program) == pc' = "fork" /\ prg' = program

\* The child inherits that SIGINT is ignored; it is the handler that kills it.
Fork ==
    /\ pc = "fork" /\ sig = FALSE
    /\ \/ child' = "running" /\ Proc_ID' = TRUE /\ pc' = "forked" /\ UNCHANGED <<reperror, hit>>
       \/ Can("nofork") /\ reperror' = TRUE /\ hit' = TRUE /\ pc' = "returned"
          /\ UNCHANGED <<child, Proc_ID>>
    /\ UNCHANGED <<fixed, textvars, confvars, packvars, prg, handler, sig, ints, tagvars>>

SetHandler ==
    /\ pc = "forked"
    /\ handler' = "kill_child" /\ pc' = "wait"
    /\ UNCHANGED <<fixed, textvars, confvars, packvars, prg, child, Proc_ID, sig, reperror, hit,
                   ints, tagvars>>

\* Mutant of AfterWait: whatever wait() returns is taken for the child.
AfterAnyWait(reaped) == "reaped"

\* wait() is called again until it returns the child's number; a signal makes
\* it return without one.
AfterWait(reaped) == IF reaped THEN "reaped" ELSE "wait"

Wait ==
    /\ pc = "wait" /\ ~sig /\ child = "zombie"
    /\ child' = "none" /\ pc' = AfterWait(TRUE)
    /\ UNCHANGED <<fixed, textvars, confvars, packvars, prg, Proc_ID, handler, sig, reperror, hit,
                   ints, tagvars>>

ForkReturns ==
    /\ pc = "reaped" /\ ~sig
    /\ handler' = "ignore" /\ Proc_ID' = FALSE /\ pc' = "returned"
    /\ UNCHANGED <<fixed, textvars, confvars, packvars, prg, child, sig, reperror, hit, ints,
                   tagvars>>

\* What the child does to its files before it ends, if anything.
ChildEffect ==
    CASE prg = "editor"   -> fname' \in habit.texts \cup {fname} /\ UNCHANGED rep
      [] prg = "speller"  -> fname' \in habit.texts \cup {fname} /\ UNCHANGED rep
      [] prg = "archiver" -> rep' \in {rep, msg} /\ UNCHANGED fname
      [] OTHER            -> UNCHANGED <<fname, rep>>

ChildEnds ==
    /\ child = "running"
    /\ ChildEffect
    /\ child' = "zombie"
    /\ UNCHANGED <<fixed, pc, mode, from, reedit, long, confvars, msg, prg, Proc_ID, handler, sig,
                   reperror, hit, ints, tagvars>>

Interrupt ==
    /\ Can("interrupt") /\ ints < MaxInts
    /\ handler = "kill_child" /\ ~sig
    /\ sig' = TRUE /\ ints' = ints + 1
    /\ UNCHANGED <<fixed, pc, textvars, confvars, packvars, prg, child, Proc_ID, handler, reperror,
                   hit, tagvars>>

\* Mutant of Killed: SIGTERM is left to do it, and a child may ignore that.
KilledPolitely(c) == c

\* SIGTERM, two seconds, SIGKILL.
Killed(c) == IF Proc_ID /\ c = "running" THEN "zombie" ELSE c

\* kill_child(), and wait() after it.
HandlerEnds ==
    /\ sig
    /\ child' = Killed(child)
    /\ reperror' = TRUE /\ hit' = TRUE
    /\ sig' = FALSE
    /\ pc' = IF pc = "wait" THEN AfterWait(FALSE) ELSE pc
    /\ UNCHANGED <<fixed, textvars, confvars, packvars, prg, Proc_ID, handler, ints, tagvars>>

(***************************************************************************)
(* Reply(): the header, one field after the other.                         *)
(***************************************************************************)
\* The commands.  A copy has no editor; it takes a reply as it is.
Begin(m, i) ==
    /\ pc = "prompt" /\ Can(m) /\ Len(cnf) < habit.max
    /\ m \in {"change", "xpost"} => i \in DOMAIN cnf
    /\ mode' = m /\ from' = i
    /\ reedit' = FALSE /\ fname' = None
    /\ hit' = FALSE
    /\ pc' = "from"
    /\ UNCHANGED <<fixed, long, confvars, packvars, prg, child, Proc_ID, handler, sig, reperror,
                   ints, tagvars>>

\* A field is filled in, or left empty to abort the reply; edit_fname() starts
\* over then if the reply is being edited again.
Answer(next) == pc' = next \/ pc' = IF reedit THEN "from" ELSE "done"
NoChange == UNCHANGED <<fixed, mode, from, reedit, confvars, packvars, childvars, tagvars>>

GetFrom     == pc = "from" /\ Answer("to") /\ UNCHANGED <<long, fname>> /\ NoChange
GetTo       == pc = "to" /\ Answer("subject") /\ UNCHANGED <<long, fname>> /\ NoChange
GetSecurity == pc = "security" /\ Answer("file") /\ UNCHANGED <<long, fname>> /\ NoChange

\* RepSubjBuf is left with the subject of the message if this is aborted.
GetSubj ==
    /\ pc = "subject"
    /\ \/ long' \in BOOLEAN /\ pc' = "security"
       \/ long' = (IF from > 0 THEN pcb /\ cnf[from].long ELSE long)
          /\ pc' = IF reedit THEN "from" ELSE "done"
    /\ UNCHANGED fname /\ NoChange

\* editpp_fname(): the file for the editor; a copy is not edited.
EditPP ==
    /\ pc = "file"
    /\ fname' = IF reedit THEN fname
                ELSE CASE mode = "enter" -> None
                       [] mode = "reply" -> QuoteMsg(Received, "quote")
                       [] OTHER -> StripTag(cnf[from].text, pcb /\ cnf[from].long)
    /\ IF mode = "xpost" THEN pc' = "add" /\ UNCHANGED prg ELSE Call("editor")
    /\ UNCHANGED <<fixed, mode, from, reedit, long, confvars, packvars, child, Proc_ID, handler,
                   sig, reperror, hit, ints, tagvars>>

\* call_editor() and ask_spell() look at the reply error flag.
CalledEditor ==
    /\ pc = "returned" /\ prg \in {"editor", "speller"}
    /\ \/ reperror /\ pc' = (IF reedit THEN "from" ELSE "done") /\ UNCHANGED prg
       \/ ~reperror /\ pc' = "ask" /\ UNCHANGED prg
       \/ ~reperror /\ prg = "editor" /\ Can("spell") /\ Call("speller")
    /\ UNCHANGED <<fixed, textvars, confvars, packvars, child, Proc_ID, handler, sig, reperror, hit,
                   ints, tagvars>>

(***************************************************************************)
(* ask_user(), and what becomes of the file.                               *)
(***************************************************************************)
Edit ==
    /\ pc = "ask" /\ Can("edit")
    /\ reedit' = TRUE /\ pc' = "from"
    /\ UNCHANGED <<fixed, mode, from, long, fname, confvars, packvars, childvars, tagvars>>

Abort ==
    /\ pc = "ask"
    /\ fname' = None /\ reedit' = FALSE /\ pc' = "done"
    /\ UNCHANGED <<fixed, mode, from, long, confvars, packvars, childvars, tagvars>>

Save ==
    /\ pc = "ask"
    /\ reedit' = FALSE /\ pc' = "add"
    /\ UNCHANGED <<fixed, mode, from, long, fname, confvars, packvars, childvars, tagvars>>

\* Save with the other style, and the commands of the tagline manager, which
\* are also those of the command line.
SaveFido ==
    /\ pc = "ask" /\ Can("tag") /\ TagFido
    /\ reedit' = FALSE /\ pc' = "add"
    /\ UNCHANGED <<fixed, mode, from, long, fname, confvars, packvars, childvars>>

TagCommand ==
    /\ pc \in {"prompt", "ask"} /\ Can("tag") /\ Tag
    /\ UNCHANGED <<fixed, pc, textvars, confvars, packvars, childvars>>

\* What KodeWrite() appends; the reply that was changed is killed.
Encoded ==
    LET e == Kode(fname, long /\ pcb, fido, IF tag_flag THEN Cut(CurTag) ELSE <<>>)
    IN  [text |-> e.text, blocks |-> e.blocks, long |-> long /\ pcb, killed |-> FALSE,
         typed |-> fname]
Replies == LET all == Append(cnf, Encoded)
           IN  IF mode = "change" THEN [all EXCEPT ![from].killed = TRUE] ELSE all
Entry   == [off |-> Sum(cnf), size |-> block_SIZE * (Encoded.blocks - 1)]

\* KodeWrite(): a write that fails is reported, and then forgotten.
KodeWrite ==
    \/ cnf' = Replies /\ idx' = Append(idx, Entry)
    \/ Can("diskfull") /\ UNCHANGED <<cnf, idx>>

\* Mutant of KodeMessage: the file goes before it is known to be stored.
KodeMessageEarly ==
    fname' = None /\ (UNCHANGED <<cnf, idx>> \/ (fname # None /\ KodeWrite))

\* KodeMessage() and the unlink after it: not without a file, not if it is
\* too large or memory is short.
KodeMessage ==
    \/ fname # None /\ fname' = None /\ KodeWrite
    \/ (fname = None \/ Can("toolarge")) /\ UNCHANGED <<fname, cnf, idx>>

AddReply ==
    /\ pc = "add"
    /\ KodeMessage
    /\ IF fname' = None /\ fname # None
       THEN /\ ReplyExist' = TRUE
            /\ CurTag' \in LET cut == IF tag_flag THEN Cut(CurTag) ELSE CurTag
                           IN  IF ~autotag THEN {cut} ELSE IF taglines = <<>> THEN {cut}
                               ELSE ChooseTag
       ELSE UNCHANGED <<ReplyExist, CurTag>>
    /\ pc' = "done"
    /\ UNCHANGED <<fixed, mode, from, reedit, long, packvars, childvars, fido, autotag, tag_flag,
                   dflag, UserTag, OrigTag, taglines>>

\* The end of Reply(): the error condition is cleared.
Done ==
    /\ pc = "done"
    /\ reperror' = FALSE /\ pc' = "prompt"
    /\ UNCHANGED <<fixed, textvars, confvars, packvars, prg, child, Proc_ID, handler, sig, hit, ints,
                   tagvars>>

\* k on a reply.
Kill(i) ==
    /\ pc = "prompt" /\ Can("pack")
    /\ cnf' = [cnf EXCEPT ![i].killed = ~@]
    /\ UNCHANGED <<fixed, pc, textvars, idx, ReplyExist, packvars, childvars, tagvars>>

(***************************************************************************)
(* PackReply(), and load as far as it runs the unarchiver.                 *)
(***************************************************************************)
\* DoRep() over n replies, if the next one's text cannot be read or written: what
\* it has written, its count of replies, and the result of the last one.
Exported(n) == FoldLeft(LAMBDA out, m : IF m.killed THEN out ELSE Append(out, m),
                        <<>>, SubSeq(cnf, 1, n))
Count(n)  == Len(Exported(n)) - (IF n < Len(cnf) THEN 1 ELSE 0)
Result(n) == IF cnf = <<>> \/ n < Len(cnf) THEN -1 ELSE IF Last(cnf).killed THEN 0 ELSE 1

\* Mutant of DoRep: the result of the last reply is not looked at.
DoRepAny(n) == Count(n) # 0
DoRep(n) == Count(n) # 0 /\ Result(n) # -1

Texts(s) == [i \in DOMAIN s |-> s[i].text]

\* A packet that is there is deleted first, or else nothing is done.
PackReply ==
    /\ pc = "prompt" /\ Can("pack") /\ ReplyExist
    /\ \E n \in IF Can("noread") THEN 0..Len(cnf) ELSE {Len(cnf)} :
          IF DoRep(n) THEN msg' = Texts(Exported(n)) /\ Call("archiver")
          ELSE UNCHANGED <<pc, msg, prg>>
    /\ rep' = None
    /\ UNCHANGED <<fixed, textvars, confvars, child, Proc_ID, handler, sig, reperror, hit, ints,
                   tagvars>>

\* Whatever the archiver did, the replies count as packed.
Packed ==
    /\ pc = "returned" /\ prg = "archiver"
    /\ msg' = None /\ ReplyExist' = FALSE /\ pc' = "prompt"
    /\ UNCHANGED <<fixed, textvars, cnf, idx, rep, childvars, tagvars>>

Unpack ==
    /\ pc = "prompt" /\ Call("unarchiver")
    /\ UNCHANGED <<fixed, textvars, confvars, packvars, child, Proc_ID, handler, sig, reperror, hit,
                   ints, tagvars>>
Unpacked ==
    /\ pc = "returned" /\ prg = "unarchiver" /\ pc' = "prompt"
    /\ UNCHANGED <<fixed, textvars, confvars, packvars, childvars, tagvars>>

Command ==
    \/ \E m \in {"enter", "reply"} : Begin(m, 0)
    \/ \E m \in {"change", "xpost"}, i \in DOMAIN cnf : Begin(m, i)
    \/ \E i \in DOMAIN cnf : Kill(i)
    \/ PackReply \/ Unpack \/ TagCommand
Dialogue == GetFrom \/ GetTo \/ GetSubj \/ GetSecurity \/ EditPP \/ CalledEditor \/ Edit \/ Abort
            \/ Save \/ SaveFido \/ AddReply \/ Done \/ Packed \/ Unpacked
Waiting == Fork \/ SetHandler \/ Wait \/ ForkReturns \/ HandlerEnds
Next == Command \/ Dialogue \/ Waiting \/ ChildEnds \/ Interrupt
Spec == Init /\ [][Next]_vars /\ WF_vars(Waiting)

(***************************************************************************)
(* Properties.                                                             *)
(***************************************************************************)
(* The three accounts of a reply agree, whatever its length, subject and   *)
(* tagline are: its text fills the blocks that its header counts, and the  *)
(* index has its size and its place.  Everything that reads the conference *)
(* later finds the next reply by these counts.                             *)
BlocksAddUp ==
    /\ Len(idx) = Len(cnf)
    /\ \A i \in DOMAIN cnf :
          /\ Len(cnf[i].text) = block_SIZE * (cnf[i].blocks - 1)
          /\ idx[i] = [off |-> Sum(SubSeq(cnf, 1, i - 1)), size |-> Len(cnf[i].text)]

(* A change begins with the text as it was typed: encoding, tagline, long  *)
(* subject and stripping neither lose a character of it nor add one,       *)
(* unless a line was too long.                                             *)
ChangeKeepsText ==
    \A i \in DOMAIN cnf : FitsLines(cnf[i].typed) =>
        StripTag(cnf[i].text, cnf[i].long) = Normal(cnf[i].typed, cnf[i].long)

(* The file with a reply goes only when its text is the last reply of the  *)
(* conference, or when the user aborts; a full disk is the exception.      *)
TextKept ==
    [][fname # None /\ fname' = None /\ pc # "prompt" =>
          \/ pc = "ask"
          \/ Can("diskfull")
          \/ Len(cnf') = Len(cnf) + 1 /\ Last(cnf').typed = fname]_vars

(* The archiver is given every reply that is not killed, in order, and is  *)
(* not run for none; no other file ever becomes the packet.                *)
PacketWhole ==
    /\ msg # None => msg # <<>> /\ msg = Texts(Exported(Len(cnf)))
    /\ rep # None => rep # <<>>

(* No command leaves a child behind, running or unreaped, and none leaves  *)
(* the handler that kills one: wait() is repeated when a signal ends it,   *)
(* once or several times.                                                  *)
NoChildLeft ==
    pc \notin {"fork", "forked", "wait", "reaped"} =>
        child = "none" /\ ~Proc_ID /\ handler = "ignore" /\ ~sig

(* An interrupt brings the program back from its child, even from one that *)
(* does not end by itself.                                                 *)
InterruptReturns == sig ~> pc = "returned"

(* What the flag is for: a reply is given up at the return of its editor   *)
(* or speller only if one of its own children failed or was interrupted.   *)
OwnInterrupt ==
    pc = "returned" /\ prg \in {"editor", "speller"} /\ reperror => hit
=============================================================================
