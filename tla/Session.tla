------------------------------ MODULE Session ------------------------------
(***************************************************************************)
(* The command shell of ATP and the state it keeps between two prompts:    *)
(* the board that is loaded, the control table read from control.dat, the  *)
(* reader (the pair of open files, the index record in core, the message   *)
(* buffer) and the conferences on disk.                                    *)
(*                                                                         *)
(* One action per command.  AutoJoin and Purge, whose loops interleave     *)
(* with the user's answers or visit several conferences, take one step per *)
(* iteration; every other command runs to its end between two prompts.     *)
(*                                                                         *)
(* Operators that model a C function called from several commands take and *)
(* return a session  s = [disk, rd, crash]  so that a command reads as the *)
(* sequence of its calls.                                                  *)
(***************************************************************************)
EXTENDS ConfStore, Sequences, FiniteSetsExt, Functions

CONSTANTS
  Board,       \* boards the user may load
  NoBoard,     \* the "empty" board ATP starts with
  MainConfs,   \* per board, the conference numbers of its control.dat
  MaxMsgs,     \* bound: messages of one conference
  MaxNew,      \* bound: messages one packet brings to a conference
  Commands,    \* the commands the user types in this instance
  Faults       \* the error paths taken in this instance

AllCommands ==
  {"next", "previous", "kill", "private", "goto", "scan", "qscan", "reset",
   "join", "autojoin", "clean", "conf", "load", "rev", "reply", "quit"}
AllFaults == {"control", "messages", "partial", "toobig"}

ASSUME SessionAssumption ==
  /\ NoBoard \notin Board
  /\ MainConfs \in [Board -> Seq(0 .. PERS_CONF - 1)]
  /\ \A b \in Board : MainConfs[b] # <<>> /\ IsInjective(MainConfs[b])
  /\ MaxMsgs \in Nat \ {0} /\ MaxNew \in Nat
  /\ Commands \subseteq AllCommands /\ Faults \subseteq AllFaults

NoFile == -1          \* fmsg == fidx == NULL
NoMsg  == -1          \* the buffer holds no message of the open conference

----------------------------------------------------------------------------
(* The control table: regular conferences 0 .. N-1, then replies, then     *)
(* personal mail.  The empty board has the single conference number 0.     *)

LastConf(t)  == IF t = NoBoard THEN 0 ELSE Len(MainConfs[t]) + 1
RCONF_IDX(t) == LastConf(t) - 1
PCONF_IDX(t) == LastConf(t)

ConfNumbers(t) ==
  [i \in 0 .. LastConf(t) |->
     IF t = NoBoard THEN 0
     ELSE CASE i = RCONF_IDX(t) -> REPL_CONF
            [] i = PCONF_IDX(t) -> PERS_CONF
            [] OTHER            -> MainConfs[t][i + 1]]

Regular(b) == {MainConfs[b][k] : k \in 1 .. Len(MainConfs[b])}
Numbers == (UNION {Regular(b) : b \in Board}) \cup {0, PERS_CONF, REPL_CONF}

\* Mutant of ActvConf: the loop stops before LastConf.
ActvConfShort(disk, b, t) ==
  [i \in 0 .. LastConf(t) - 1 |-> b # NoBoard /\ disk[b][ConfNumbers(t)[i]].there]

\* ActvConf: which conferences of table t have a .cnf in the directory of b.
ActvConf(disk, b, t) ==
  [i \in 0 .. LastConf(t) |-> b # NoBoard /\ disk[b][ConfNumbers(t)[i]].there]

ActiveCount(a) == Cardinality({i \in DOMAIN a : a[i]})

\* The flag ActvConf leaves in ReplyExist; the empty table reads ConfActive[-1].
ReplyFlags(a, t) == IF t = NoBoard THEN BOOLEAN ELSE {a[RCONF_IDX(t)]}

\* FindActive: the next active conference after cur, cyclically, or -1.
FindActive(a, cur) ==
  LET after  == {i \in DOMAIN a : i > cur /\ a[i]}
      before == {i \in DOMAIN a : i <= cur /\ a[i]}
  IN  IF after # {} THEN Min(after) ELSE IF before # {} THEN Min(before) ELSE -1

FirstActive(a, t) == LET i == FindActive(a, LastConf(t)) IN IF i < 0 THEN 0 ELSE i

----------------------------------------------------------------------------
VARIABLES
  disk,        \* [Board -> [Numbers -> conference]], survives a restart
  home,        \* boards whose control.dat is in the home directory
  curBoard,    \* CurBoard; NoBoard exactly while IsEmpty
  tbl,         \* the board whose control.dat filled the table
  active,      \* ConfActive
  actvCnt,     \* ActvCnt
  replyExist,  \* ReplyExist
  newmail,     \* newmail
  rd,          \* the reader, see Reader
  lp,          \* the loop variables of AutoJoin (i, j) and Purge (i)
  pc           \* where control is

vars == <<disk, home, curBoard, tbl, active, actvCnt, replyExist, newmail, rd, lp, pc>>
table == <<curBoard, tbl, active, actvCnt, replyExist, newmail, home>>

(***************************************************************************)
(* conf    CurConf                    fh      number of the open pair      *)
(* pos     record position of fidx    dead    fmsg was closed, not cleared *)
(* last    Index.LastRead             num     Index.MsgNum                 *)
(* tot     TotMsg                     first   FirstDone                    *)
(* hdr, body   which message of the open pair the header block and the     *)
(*             text of rbuf come from                                      *)
(* own     the open pair, when a purge has unlinked it; Absent otherwise   *)
(***************************************************************************)
Reader ==
  [conf : Nat, fh : Numbers \cup {NoFile}, dead : BOOLEAN, pos : Int,
   last : Int, num : Int, tot : Int, first : BOOLEAN, hdr : Int, body : Int,
   own : Conference]

NewReader ==
  [conf |-> 0, fh |-> NoFile, dead |-> FALSE, pos |-> 0, last |-> 0, num |-> 0,
   tot |-> 0, first |-> FALSE, hdr |-> NoMsg, body |-> NoMsg, own |-> Absent]

FilesOpen(r) == r.fh # NoFile
Session == [disk |-> disk, rd |-> rd, crash |-> FALSE]

\* What the open streams see, and a write through them.
OpenConf(s) == IF s.rd.own.there THEN s.rd.own ELSE s.disk[curBoard][s.rd.fh]
PutOpen(s, c) ==
  IF s.rd.own.there THEN [s EXCEPT !.rd.own = c]
  ELSE [s EXCEPT !.disk[curBoard][s.rd.fh] = c]

Loaded == curBoard # NoBoard

NoLoop == [i |-> 0, j |-> 0]
Labels == {"shell", "next", "joining", "purge", "exit", "crashed"}

\* The step's session becomes the state; a crash wins over the label.
Goto(s, label) ==
  /\ disk' = s.disk
  /\ rd' = s.rd
  /\ pc' = IF s.crash THEN "crashed" ELSE label

\* A crash is a fault of a stdio call on a stream that is NULL or closed.
Crash(s) == [s EXCEPT !.crash = TRUE]

----------------------------------------------------------------------------
(* readlib.c and read.c: the calls that commands are made of.              *)

\* Mutants of UpdateConf: the pointer is saved one message late, is saved as the
\* number the user counts, or is saved even when it would go down.
UpdateConfAs(s, saves, value) ==
  IF actvCnt < 1 \/ ~active[s.rd.conf] \/ ~FilesOpen(s.rd) THEN s
  ELSE IF s.rd.first /\ saves
       THEN PutOpen([s EXCEPT !.rd.pos = s.rd.num], [OpenConf(s) EXCEPT !.last = value])
       ELSE [s EXCEPT !.rd.pos = 1]
UpdateConfLate(s, reset) ==
  UpdateConfAs(s, reset \/ OpenConf(s).last < s.rd.num - 1, s.rd.num)
UpdateConfPast(s, reset) ==
  UpdateConfAs(s, reset \/ OpenConf(s).last < s.rd.num, s.rd.num + 1)
UpdateConfAlways(s, reset) == UpdateConfAs(s, TRUE, s.rd.num)

\* UpdateConf: save the last-read pointer.  The stream stays behind record 0
\* unless the pointer is written.
UpdateConf(s, reset) ==
  IF actvCnt < 1 \/ ~active[s.rd.conf] \/ ~FilesOpen(s.rd) THEN s
  ELSE LET moves == s.rd.first /\ (reset \/ OpenConf(s).last < s.rd.num)
       IN  IF moves
           THEN PutOpen([s EXCEPT !.rd.pos = s.rd.num],
                        [OpenConf(s) EXCEPT !.last = s.rd.num])
           ELSE [s EXCEPT !.rd.pos = 1]

\* Mutant of CloseFiles: the streams stay open.
CloseNothing(s) == s

\* fclose_fmsg_fidx; the buffer then belongs to no open conference.
CloseFiles(s) ==
  IF ~FilesOpen(s.rd) THEN s
  ELSE [s EXCEPT !.rd.fh = NoFile, !.rd.dead = FALSE, !.rd.pos = 0,
                 !.rd.hdr = NoMsg, !.rd.body = NoMsg, !.rd.own = Absent,
                 !.crash = @ \/ s.rd.dead]

\* GetConf: join conference i of table t in the directory of board b.
GetConf(s, b, t, i) ==
  LET f == ConfNumbers(t)[i]
      c == s.disk[b][f]
  IN  IF b = NoBoard THEN s
      ELSE IF i > LastConf(t) THEN Crash(s)
      ELSE IF ~c.there THEN s
      ELSE IF c.n = 0 THEN [s EXCEPT !.rd.tot = 0]
      ELSE [CloseFiles(s) EXCEPT !.rd =
                [conf |-> i, fh |-> f, dead |-> FALSE,
                 pos |-> IF c.last = VIRGINDX THEN 0 ELSE c.last,
                 last |-> c.last, num |-> 0, tot |-> c.n, first |-> FALSE,
                 hdr |-> NoMsg, body |-> NoMsg, own |-> Absent]]

\* chconf, with the conference already parsed to index i.
ChConf(s, i) ==
  IF i \in DOMAIN active /\ s.disk[curBoard][ConfNumbers(tbl)[i]].there
  THEN GetConf(UpdateConf(s, FALSE), curBoard, tbl, i)
  ELSE s

\* Read record k of the open conference into Index, and its message into the
\* buffer (of a QUICK scan, the header only).
ReadRecord(s, k, quick) ==
  IF s.rd.dead THEN Crash(s)
  ELSE [s EXCEPT !.rd.last = IF k = 0 THEN OpenConf(s).last ELSE 0,
                 !.rd.num = k, !.rd.pos = k + 1, !.rd.hdr = k,
                 !.rd.body = IF quick THEN @ ELSE k,
                 !.rd.first = IF quick THEN @ ELSE TRUE]

\* SeekNum, for the message that the user counts as number m.
SeekNum(s, m) ==
  IF m \notin 1 .. s.rd.tot THEN s
  ELSE IF ~FilesOpen(s.rd) THEN Crash(s)
  ELSE IF m > OpenConf(s).n THEN [s EXCEPT !.rd.pos = m - 1]
  ELSE ReadRecord(s, m - 1, FALSE)

\* change_status: what each mode does to the status byte of record k.
ChangeStatus(s, k, mode) ==
  LET killed == OpenConf(s).killed
  IN  PutOpen(s, [OpenConf(s) EXCEPT !.killed =
         CASE mode = "kill" -> IF k \in killed THEN killed \ {k} ELSE killed \cup {k}
           [] mode = "nuke" -> killed \cup {k}
           [] OTHER         -> killed \ {k}])    \* PRIVATE writes ' ' or '*'

\* RPT_MASK: how many records ReadSeek steps back first.
Rpt(mode) ==
  CASE mode = "previous" -> 2
    [] mode \in {"kill", "nuke", "private", "cross"} -> 1
    [] OTHER -> 0

\* ReadNext where it finds a record; the caller has tested the bounds.
Target(s, mode) == s.rd.pos - Rpt(mode)
ReadAt(s, mode) ==
  LET k == Target(s, mode)
      t == IF mode \in {"kill", "nuke", "private"} /\ ~s.rd.dead
           THEN ChangeStatus(s, k, mode) ELSE s
  IN  ReadRecord(t, k, FALSE)

\* query_rep_exists: keep the replies unpacked, or PackReply, which may stop at
\* an old .rep file or export every reply that is not killed.  Exporting reads
\* the replies through rbuf.
PackAnswers == IF replyExist THEN {"no", "stop", "pack"} ELSE {"no"}

Packed(s, answer) ==
  LET c == Opened(s.disk[curBoard][REPL_CONF])
      t == [s EXCEPT !.disk[curBoard][REPL_CONF] = c]
  IN  IF answer # "pack" THEN s
      ELSE IF c.n = 0 THEN t
      ELSE [t EXCEPT !.rd.hdr = NoMsg, !.rd.body = NoMsg]

\* Mutant of ReplyLeft: whatever is not packed is taken to exist.
ReplyUnpacked(s, answer) == answer # "pack"

ReplyLeft(s, answer) ==
  replyExist /\ ~(answer = "pack" /\ Live(s.disk[curBoard][REPL_CONF]) # {})

----------------------------------------------------------------------------
(* Commands.                                                               *)

Prompt(cmd) == pc = "shell" /\ cmd \in Commands /\ Loaded

\* '+', Enter, '-', 'k' and 'p'.  At the end of a conference, or without open
\* files, ReadNext ends in AutoJoin.
ReadNext(mode) ==
  /\ Prompt(mode)
  /\ mode = "private" => rd.conf = RCONF_IDX(tbl)
  /\ \/ /\ FilesOpen(rd) /\ Target(Session, mode) \in Positions(OpenConf(Session))
        /\ Goto(ReadAt(Session, mode), "shell")
     \/ /\ FilesOpen(rd) => Target(Session, mode) >= OpenConf(Session).n
        /\ Goto(Session, "next")
  /\ UNCHANGED <<table, lp>>

\* A message number, 'last' and each hit of 'find' and 'next'.
GoToNum ==
  /\ Prompt("goto")
  /\ \E m \in 1 .. MaxMsgs : Goto(SeekNum(Session, m), "shell")
  /\ UNCHANGED <<table, lp>>

\* scruter: show headers up to record k, then reload the buffer by number.
Scan(mode) ==
  /\ Prompt(mode)
  /\ \E k \in -1 .. MaxMsgs - 1 :
       LET shows == FilesOpen(rd) /\ rd.pos < OpenConf(Session).n
           s == IF k < 0 THEN Session ELSE ReadRecord(Session, k, mode = "qscan")
           t == SeekNum(s, IF s.rd.num = 0 THEN 1 ELSE s.rd.num)
           found == s.rd.tot > 0 /\ s.rd.num <= s.rd.tot
       IN  /\ IF shows THEN k \in rd.pos .. OpenConf(Session).n - 1 ELSE k = -1
           /\ IF s.crash THEN Goto(s, "shell")
              ELSE Goto(IF found /\ s.rd.num = 0 /\ ~t.crash
                        THEN [t EXCEPT !.rd.pos = 0] ELSE t, "shell")
  /\ UNCHANGED <<table, lp>>

Reset ==
  /\ Prompt("reset")
  /\ Goto(UpdateConf(Session, TRUE), "shell")
  /\ UNCHANGED <<table, lp>>

Join ==
  /\ Prompt("join")
  /\ \E i \in DOMAIN active : Goto(ChConf(Session, i), "shell")
  /\ UNCHANGED <<table, lp>>

\* 'n'.
NextConf ==
  /\ Prompt("autojoin")
  /\ Goto(Session, "next")
  /\ UNCHANGED <<table, lp>>

\* Mutant of AutoJoin: the loop is one turn short.
AutoJoinShort ==
  /\ pc = "next"
  /\ Goto(Session, "joining") /\ lp' = [i |-> rd.conf, j |-> actvCnt - 1]
  /\ UNCHANGED table

AutoJoin ==
  /\ pc = "next"
  /\ IF actvCnt = 0
     THEN Goto(ChConf(Session, 0), "shell") /\ UNCHANGED lp
     ELSE Goto(Session, "joining") /\ lp' = [i |-> rd.conf, j |-> actvCnt]
  /\ UNCHANGED table

\* One turn of AutoJoin's loop.  It returns at a conference with unread mail.
AutoJoinTurn ==
  /\ pc = "joining" /\ lp.j # 0
  /\ LET i == FindActive(active, lp.i)
         s == ChConf(Session, i)
         done == s.rd.last < 0 \/ s.rd.last # s.rd.tot - 1 \/ ~newmail
     IN  /\ Goto(s, IF done THEN "shell" ELSE "joining")
         /\ lp' = IF done THEN NoLoop ELSE [i |-> i, j |-> lp.j - 1]
  /\ UNCHANGED table

\* Mutant of AutoJoinEnd: when nothing was found, the search starts again.
AutoJoinAgain ==
  /\ pc = "joining" /\ lp.j = 0
  /\ Goto(Session, "next") /\ lp' = NoLoop
  /\ UNCHANGED table

AutoJoinEnd ==
  /\ pc = "joining" /\ lp.j = 0
  /\ Goto(Session, "shell")
  /\ newmail' = FALSE
  /\ lp' = NoLoop
  /\ UNCHANGED <<home, curBoard, tbl, active, actvCnt, replyExist>>

ListConf ==
  /\ Prompt("conf")
  /\ active' = ActvConf(disk, curBoard, tbl)
  /\ actvCnt' = ActiveCount(active')
  /\ replyExist' \in ReplyFlags(active', tbl)
  /\ UNCHANGED <<disk, home, curBoard, tbl, newmail, rd, lp, pc>>

----------------------------------------------------------------------------
(* purge.c: the 'clean' command asks about every conference in turn.       *)

Purge ==
  /\ Prompt("clean")
  /\ Goto(IF active[rd.conf] THEN UpdateConf(Session, FALSE) ELSE Session, "purge")
  /\ lp' = NoLoop
  /\ UNCHANGED table

\* Mutant of PurgeAdjust: the files of the current conference stay open.
PurgeAdjustOpen(s, i) ==
  IF i # s.rd.conf THEN s
  ELSE [s EXCEPT !.rd.last = 0, !.rd.num = 0, !.rd.tot = 0, !.rd.first = FALSE]

\* PurgeAdjust: purging the current conference closes it first.
PurgeAdjust(s, i) ==
  IF i # s.rd.conf THEN s
  ELSE [CloseFiles(s) EXCEPT !.rd.last = 0, !.rd.num = 0, !.rd.tot = 0,
                             !.rd.first = @ /\ ~FilesOpen(s.rd)]

\* after is what the command leaves of the conference; clip() reads the old
\* messages through rbuf.  A pair still open keeps what was unlinked.  A current
\* conference that survives is reopened.
PurgeConf(i, after, clips) ==
  LET f == ConfNumbers(tbl)[i]
      s == PurgeAdjust(Session, i)
      unlinked == s.rd.fh = f /\ ~s.rd.own.there /\ (clips \/ ~after.there)
      t == [s EXCEPT !.rd.own = IF unlinked THEN s.disk[curBoard][f] ELSE @,
                     !.disk[curBoard][f] = after,
                     !.rd.hdr = IF clips THEN NoMsg ELSE @,
                     !.rd.body = IF clips THEN NoMsg ELSE @]
  IN  IF after.n > 0 /\ i = rd.conf THEN GetConf(t, curBoard, tbl, i) ELSE t

\* (D)elete, (C)lean, (T)runcate, (N)ext and (S)top.
PurgeTurn ==
  /\ pc = "purge" /\ lp.i <= LastConf(tbl)
  /\ LET i == lp.i
         c == disk[curBoard][ConfNumbers(tbl)[i]]
         next == [lp EXCEPT !.i = i + 1]
     IN  \/ /\ Goto(Session, "purge")
            /\ lp' \in IF c.there THEN {next, [lp EXCEPT !.i = LastConf(tbl) + 1]}
                       ELSE {next}
         \/ /\ c.there
            /\ Goto(PurgeConf(i, Absent, FALSE), "purge")
            /\ lp' = next
         \/ /\ c.there
            /\ \E cmd \in {"C", "T"}, k \in 0 .. MaxMsgs :
                 /\ cmd = "C" => k = MaxMsgs
                 /\ Goto(PurgeConf(i, Clip(c, cmd, k), Clips(c, cmd, k)), "purge")
            /\ lp' = next
  /\ UNCHANGED table

PurgeEnd ==
  /\ pc = "purge" /\ lp.i > LastConf(tbl)
  /\ active' = ActvConf(disk, curBoard, tbl)
  /\ actvCnt' = ActiveCount(active')
  /\ replyExist' \in ReplyFlags(active', tbl)
  /\ lp' = NoLoop
  /\ IF active'[rd.conf]
     THEN Goto(GetConf(Session, curBoard, tbl, rd.conf), "shell")
     ELSE Goto(Session, "next")
  /\ UNCHANGED <<home, curBoard, tbl, newmail>>

----------------------------------------------------------------------------
(* Load, Read, Reply, quit.                                                *)

\* Chk4RepCnf: the user may delete the replies left in the board's directory.
DeleteReplies(s, b) == [s EXCEPT !.disk[b][REPL_CONF] = Absent]

\* MkIndex: the packet appends new[f] messages to conference f, and mine of
\* them to the personal conference too, which is not left empty.
Tossed(s, b, new, mine) ==
  [s EXCEPT !.disk[b] =
     [f \in Numbers |->
        CASE f \in Regular(b) /\ new[f] > 0 -> Extended(s.disk[b][f], new[f])
          [] f = PERS_CONF ->
               IF mine > 0 THEN Extended(s.disk[b][f], mine)
               ELSE IF s.disk[b][f].n = 0 THEN Absent ELSE s.disk[b][f]
          [] OTHER -> s.disk[b][f]]]

\* The packets a board may send, within the bounds.
Packets(b) ==
  {p \in [new : [Regular(b) -> 0 .. MaxNew], mine : 0 .. MaxNew] :
     /\ p.mine <= SumFunction(p.new)
     /\ \A f \in Regular(b) : disk[b][f].n + p.new[f] <= MaxMsgs
     /\ disk[b][PERS_CONF].n + p.mine <= MaxMsgs}

\* Mutant of Leaving: the pointer is not saved.
LeavingUnsaved(answer) == Packed(Session, answer)

\* The session in which Load and Read start: replies queried, pointer saved.
Leaving(answer) ==
  LET s == Packed(Session, answer)
  IN  IF Loaded /\ active[rd.conf] THEN UpdateConf(s, FALSE) ELSE s

\* DoLoad_MkIndex after MkIndex, then GetConf.  ActvConf runs before the user
\* is asked to delete the replies, and is not run again.  The empty table has
\* no ConfNames[RCONF_IDX] to ask with.
JoinLoaded(s, b, t, mine) ==
  LET a   == ActvConf(s.disk, b, t)
      has == s.disk[b][REPL_CONF].there
  IN  \E del \in BOOLEAN :
        /\ del => has
        /\ active' = IF del /\ t # NoBoard THEN [a EXCEPT ![RCONF_IDX(t)] = FALSE] ELSE a
        /\ LET r == IF has /\ t = NoBoard THEN Crash(s) ELSE s
               u == CloseFiles(IF del THEN DeleteReplies(r, b) ELSE r)
               i == IF mine > 0 THEN PCONF_IDX(t) ELSE FirstActive(active', t)
           IN  Goto(GetConf([u EXCEPT !.rd.conf = i], b, t, i), "shell")
        /\ actvCnt' = ActiveCount(a)
        /\ replyExist' = (has /\ ~del)
        /\ curBoard' = b /\ tbl' = t /\ newmail' = TRUE
        /\ UNCHANGED lp

AtPrompt(cmd) == pc = "shell" /\ cmd \in Commands

\* No packet named, found or unpacked, or an older one declined: only the
\* replies have been asked about.
LoadNothing ==
  /\ AtPrompt("load")
  /\ \E answer \in PackAnswers :
       /\ Goto(Packed(Session, answer), "shell")
       /\ replyExist' = ReplyLeft(Session, answer)
  /\ UNCHANGED <<home, curBoard, tbl, active, actvCnt, newmail, lp>>

LoadPacket(b) ==
  /\ AtPrompt("load")
  /\ \E answer \in PackAnswers, p \in Packets(b) :
       JoinLoaded(Tossed(Leaving(answer), b, p.new, p.mine), b, b, p.mine)
  /\ home' = home \cup {b}

\* MkInOpen fails on control.dat, or after it on messages.dat; MkIndex still
\* reports success.
LoadUnopened(b) ==
  /\ AtPrompt("load")
  /\ \E answer \in PackAnswers :
       \/ "control" \in Faults /\ JoinLoaded(Leaving(answer), b, tbl, 0)
       \/ "messages" \in Faults /\ JoinLoaded(Leaving(answer), b, b, 0)
  /\ UNCHANGED home

\* MkIndex fails half way: the table is the new board's, its ConfActive is not
\* initialised, and the old board stays current.
LoadPartial(b) ==
  /\ AtPrompt("load") /\ "partial" \in Faults
  /\ \E answer \in PackAnswers, p \in Packets(b) :
       /\ Goto(GetConf(Tossed(Leaving(answer), b, p.new, p.mine), curBoard, b, rd.conf), "shell")
       /\ replyExist' = ReplyLeft(Session, answer)
  /\ tbl' = b
  /\ active' \in [0 .. LastConf(b) -> BOOLEAN]
  /\ home' = home \cup {b}
  /\ UNCHANGED <<curBoard, actvCnt, newmail, lp>>

\* Read: join a board without new mail.
Read(b) ==
  /\ AtPrompt("rev") /\ b \in home
  /\ \E answer \in PackAnswers, del \in BOOLEAN :
       LET s == Leaving(answer)
           u == CloseFiles(IF del THEN DeleteReplies(s, b) ELSE s)
           i == FirstActive(active', b)
       IN  /\ del => s.disk[b][REPL_CONF].there
           /\ active' = ActvConf(u.disk, b, b)
           /\ Goto(GetConf([u EXCEPT !.rd.conf = i], b, b, i), "shell")
  /\ actvCnt' = ActiveCount(active')
  /\ replyExist' = active'[RCONF_IDX(b)]
  /\ curBoard' = b /\ tbl' = b /\ newmail' = FALSE
  /\ UNCHANGED <<home, lp>>

\* VerifyBBS fails: the current conference is joined again.
ReadUnknown(b) ==
  /\ AtPrompt("rev") /\ (b \notin home \/ "control" \in Faults)
  /\ \E answer \in PackAnswers :
       /\ Goto(GetConf(Leaving(answer), curBoard, tbl, rd.conf), "shell")
       /\ replyExist' = ReplyLeft(Session, answer)
  /\ UNCHANGED <<home, curBoard, tbl, active, actvCnt, newmail, lp>>

\* Which replies Rep_mode_parse and the commands 'e', 'r', 'x', 'c' let through.
\* 'arg' says that the user named a conference.
InReplies == rd.conf = RCONF_IDX(tbl)
CanReply(mode, arg) ==
  CASE mode = "enter"  -> IF arg THEN tbl # NoBoard ELSE rd.conf < RCONF_IDX(tbl)
    [] mode = "reply"  -> rd.first /\ ~InReplies /\ tbl # NoBoard
    [] mode = "xpost"  -> rd.first /\ InReplies /\ arg
    [] mode = "change" -> rd.first /\ InReplies

\* OpenRepFile: a reply is written through the reader's own streams when the
\* current conference is the replies'.
OwnStreams == InReplies /\ disk[curBoard][REPL_CONF].there

\* ReadNext as AddReply calls it, for the message being changed or copied.
ReadReply(s, mode) ==
  IF Target(s, mode) \in Positions(OpenConf(s)) THEN ReadAt(s, mode) ELSE s

\* Mutant of ShowReply: the stored reply is neither counted nor shown.
ShowNothing(s, mode) == s

\* After the reply is stored: the old message is killed, or shown again.
ShowReply(s, mode) ==
  LET t == [s EXCEPT !.rd.tot = @ + 1]
      u == IF mode = "change" THEN ReadReply(t, "nuke") ELSE t
  IN  IF ~InReplies THEN s
      ELSE IF mode = "xpost" THEN ReadReply(t, "cross") ELSE SeekNum(u, u.rd.tot)

\* AddReply with a reply that fits.
Reply(mode, arg) ==
  LET c == IF OwnStreams THEN OpenConf(Session) ELSE disk[curBoard][REPL_CONF]
      s == IF OwnStreams THEN PutOpen(Session, Extended(c, 1))
           ELSE [Session EXCEPT !.disk[curBoard][REPL_CONF] = Extended(c, 1)]
  IN  /\ Prompt("reply") /\ CanReply(mode, arg)
      /\ FilesOpen(rd) \/ ~InReplies => c.n < MaxMsgs
      /\ IF InReplies /\ (~FilesOpen(rd) \/ rd.dead)
         THEN /\ Goto(Crash(Session), "shell")
              /\ UNCHANGED <<active, actvCnt, replyExist>>
         ELSE /\ Goto(ShowReply(s, mode), "shell")
              /\ active' = ActvConf(s.disk, curBoard, tbl)
              /\ actvCnt' = ActiveCount(active')
              /\ replyExist' = TRUE
      /\ UNCHANGED <<home, curBoard, tbl, newmail, lp>>

\* KodeMessage refuses a reply that is too large, and closes the file it was to
\* go to, even when that is the reader's own.
ReplyTooBig(mode, arg) ==
  /\ Prompt("reply") /\ CanReply(mode, arg) /\ "toobig" \in Faults
  /\ Goto(IF ~OwnStreams THEN [Session EXCEPT !.disk[curBoard][REPL_CONF] = Opened(@)]
          ELSE IF ~FilesOpen(rd) \/ rd.dead THEN Crash(Session)
          ELSE [Session EXCEPT !.rd.dead = TRUE], "shell")
  /\ UNCHANGED <<table, lp>>

Quit ==
  /\ AtPrompt("quit")
  /\ \E answer \in PackAnswers :
       Goto(Packed(IF Loaded THEN UpdateConf(Session, FALSE) ELSE Session, answer), "exit")
  /\ UNCHANGED <<table, lp>>

----------------------------------------------------------------------------
(* main: a new process finds what is on disk, and nothing else.            *)

EmptyActive == [i \in 0 .. 0 |-> FALSE]

Init ==
  /\ disk = [b \in Board |-> [f \in Numbers |-> Absent]]
  /\ home = {}
  /\ curBoard = NoBoard /\ tbl = NoBoard
  /\ active = EmptyActive /\ actvCnt = 0
  /\ replyExist = FALSE /\ newmail = TRUE
  /\ rd = NewReader /\ lp = NoLoop /\ pc = "shell"

Restart ==
  /\ pc \in {"exit", "crashed"}
  /\ curBoard' = NoBoard /\ tbl' = NoBoard
  /\ active' = EmptyActive /\ actvCnt' = 0
  /\ replyExist' = FALSE /\ newmail' = TRUE
  /\ rd' = NewReader /\ lp' = NoLoop /\ pc' = "shell"
  /\ UNCHANGED <<disk, home>>

----------------------------------------------------------------------------
\* What runs between two prompts without asking for a new command.
Internal == AutoJoin \/ AutoJoinTurn \/ AutoJoinEnd \/ PurgeTurn \/ PurgeEnd

Command ==
  \/ \E mode \in {"next", "previous", "kill", "private"} : ReadNext(mode)
  \/ \E mode \in {"scan", "qscan"} : Scan(mode)
  \/ GoToNum \/ Reset \/ Join \/ NextConf \/ Purge \/ ListConf
  \/ LoadNothing
  \/ \E b \in Board : LoadPacket(b) \/ LoadUnopened(b) \/ LoadPartial(b)
                      \/ Read(b) \/ ReadUnknown(b)
  \/ \E mode \in {"enter", "reply", "xpost", "change"}, arg \in BOOLEAN :
       Reply(mode, arg) \/ ReplyTooBig(mode, arg)
  \/ Quit

Next == Command \/ Internal \/ Restart

Spec == Init /\ [][Next]_vars

\* The loops run on by themselves, and the user answers Purge's questions.
FairSpec == Spec /\ WF_vars(Internal)

----------------------------------------------------------------------------
(* Properties.                                                             *)

\* Every variable stays in its type.
TypeOK ==
  /\ disk \in [Board -> [Numbers -> Conference]]
  /\ home \in SUBSET Board
  /\ curBoard \in Board \cup {NoBoard} /\ tbl \in Board \cup {NoBoard}
  /\ active \in [0 .. LastConf(tbl) -> BOOLEAN]
  /\ actvCnt \in Nat /\ replyExist \in BOOLEAN /\ newmail \in BOOLEAN
  /\ rd \in Reader
  /\ lp \in [i : Int, j : Int]
  /\ pc \in Labels

Saved(b, f) == disk[b][f].last

\* The last-read pointer of a conference names one of its messages, or none,
\* whatever was read, tossed, truncated or purged in between (UpdateConf,
\* WriteIndex, clip_do and clip_loop each write it).
LastReadInRange == \A b \in Board, f \in Numbers : InRange(disk[b][f])

\* While files are open, they are those of CurConf on CurBoard, they are on
\* disk, and TotMsg, the stream and the buffer agree with their length (GetConf,
\* PurgeAdjust, DoLoad_MkIndex and AddReply share that duty).
OpenFileIsCurrentConf ==
  FilesOpen(rd) /\ pc # "crashed" =>
    /\ Loaded /\ rd.conf <= LastConf(tbl)
    /\ rd.fh = ConfNumbers(tbl)[rd.conf]
    /\ LET c == disk[curBoard][rd.fh]
       IN  /\ c.there /\ ~rd.own.there /\ rd.tot = c.n
           /\ rd.pos \in 0 .. c.n
           /\ rd.num \in Positions(c)
           /\ {rd.hdr, rd.body} \subseteq Positions(c) \cup {NoMsg}

\* At the prompt, ReplyExist promises replies to pack: their conference is there.
ReplyExistIsTrue ==
  pc = "shell" /\ replyExist => Loaded /\ disk[curBoard][REPL_CONF].there

\* Loading mail does not reset a last-read pointer (docs/atp.txt:73); neither
\* does any other command but 'reset' and a purge.
LastReadKept ==
  [][\A b \in Board, f \in Numbers :
       disk[b][f].there /\ disk'[b][f].there /\ pc # "purge" /\ ~Reset
         => Saved(b, f)' >= Saved(b, f)]_vars

\* However a conference is left, after a message of it has been read, its
\* pointer has come as far as that message.
LeavingSavesPointer ==
  [][FilesOpen(rd) /\ rd.first /\ ~rd'.first /\ pc \notin {"purge", "crashed"}
       => LET c == disk'[curBoard][rd.fh] IN c.there => c.last >= rd.num]_vars

\* While there may be new mail, AutoJoin stops at a conference with unread mail,
\* and gives up only when no active conference has any.
AutoJoinFindsUnread ==
  [][pc = "joining" /\ pc' = "shell" /\ newmail =>
       LET conf(i) == disk'[curBoard][ConfNumbers(tbl)[i]]
       IN  IF newmail' THEN FilesOpen(rd') => Unread(conf(rd'.conf))
           ELSE \A i \in DOMAIN active : active[i] => ~Unread(conf(i))]_vars

\* Every command returns to the prompt: AutoJoin does not go round for ever.
ReturnsToPrompt ==
  pc \in {"next", "joining", "purge"} ~> pc \in {"shell", "exit", "crashed"}

----------------------------------------------------------------------------
(* What the documentation, a comment or an assertion says, and the code     *)
(* does not do; each is checked by a run of its own.                        *)

Killed == IF FilesOpen(rd) THEN OpenConf(Session).killed ELSE {}

\* "Use the `k' command while reading messages to mark a message as killed":
\* the message on the screen, not another one (docs/atp.txt:740).
KillHitsShown ==
  [][ReadNext("kill") /\ rd.first /\ Killed' # Killed =>
       Killed' \in {Killed \cup {rd.num}, Killed \ {rd.num}}]_vars

\* "Reading will resume with the last read message" (docs/atp.txt:74): what
\* has not been read is not counted as read after a purge.
PurgeKeepsUnread ==
  [][PurgeTurn => \A f \in Numbers :
       LET c == disk[curBoard][f] d == disk'[curBoard][f]
       IN  c.there /\ c.last = VIRGINDX /\ d.there => d.last = VIRGINDX]_vars
=============================================================================
