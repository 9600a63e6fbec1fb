# A verification project for ATP

ATP is an offline reader for QWK mail packets: it unpacks a packet into
conferences on disk, lets the user read and answer them, prunes old messages,
and packs the replies.  This directory holds TLA+ specifications translated from
its C source (`src/`), the TLC configurations that model-check them, and proofs
that TLAPS checks.

## 1. Inventory

| part | source | state it keeps | operations |
|---|---|---|---|
| Command shell | `atpmain.c` | none of its own | `ReadShell` parses a line and calls one of the others |
| Reader | `readlib.c`, `readlib.h`, `reader.h` | `fmsg`, `fidx`, `FilesOpen`, `FirstDone`, `Index`, `TotMsg`, `rbuf`, `ReplyExist` | `GetConf`, `SeekNum`, `ReadNext`/`ReadSeek` (in `atpmain.c`), `fclose_fmsg_fidx`, `query_rep_exists`, `PackReply`, `do_search` |
| Conference commands | `read.c` | `CurConf`, `CurBoard`, `IsEmpty`, `newmail`, saved last-read pointers | `UpdateConf`, `chconf`, `AutoJoin`, `Load`, `Read` |
| Conference table | `qlib.c` | `ConfNumbers`, `ConfActive`, `LastConf`, `ActvCnt`, the arrays of the table being built (`t_*`) | `RdCn_*`, `ActvConf`, `findCindex`, `WriteIndex`, `Chk4RepCnf` |
| Purge | `purge.c` | the four files of a rewrite | `Purge`, `clip` |
| Tosser | `mkindex.c` | open conference, block counters, the buffer that `reup` enlarges | `MkIndex` |
| Replies | `reply.c`, `makemail.c` | `9001.cnf`, `SaveConf`, the editor's file, the counters of the encoder | `Reply`, `AddReply`, `KodeMessage`, `DoRep` |
| Child processes | `system.c` | `Proc_ID`, `reperror`, the disposition of SIGINT | `fork_execvp`, `kill_child` |
| Configuration | `rdconfig.c` | options | reads `atprc` once |
| Display, colours, texts | `display.c`, `ansi.c`, `text.c` | screen options | output only |
| Taglines | `chosetag.c` | `CurTag`, `UserTag`, `OrigTag`, the style (`fido`), `taglines.atp` | `tag` and its subcommands, `TagFido`, `ChooseTag`, `get_CurTag` |
| Line editor | `editline/` | `Line`, `Point`, `Mark`, `Yanked`, `Repeat`, the history `H`, the search | `readline`, `add_history`, some forty keys |

How they interact.  There is one thread; parts share global variables, a single
message buffer (`rbuf`) and a single pair of streams (`fmsg`, `fidx`), and call
each other freely: `ReadSeek` calls `AutoJoin`, which calls `chconf`, which saves
the pointer of the conference being left and opens another.  Setters with an
access token (`fdone_access_t` and its like) say which function may write which
global, but not in which order.  A conference on disk is a pair `<n>.cnf`,
`<n>.idx`; the last-read pointer is a field of record 0 of the index, so an index
that is being read is written to as well.

What is hard.  Nearly every command changes two or three of: the streams'
positions, the index record in core, the buffer, the flags, the table, the
files.  They must agree again at the next prompt, also after a command that
failed half way, after a purge that rewrote the files that are open, and after
a load that replaced the table.  Nothing is journalled: a crash leaves the files
as they are, and a purge replaces two files by two others, one at a time; a toss
appends to four files in turn, index first.  The editor, the speller and the
archivers are child processes: they run beside ATP, and a signal may come at
any point of waiting for them.

What makes each part correct: the pointer of a conference is never lost, never
goes back, and never points outside it (reader, conference commands, purge,
tosser); open files, table and current conference belong together (all); mail
that has not been read is found (`AutoJoin`); commands act upon the message
that is shown (shell); a purge loses nothing it was to keep (purge); a reply
once stored is packed once, whole, and its text is not lost before that
(replies); no child outlives its command (child processes); the table is
replaced as a whole or not at all (conference table); what a key deletes can be
put back (line editor); a tagline is in one style (taglines); every command
comes back to the prompt.

## 2. Plan

The order is that of what the user can lose.

1. `ConfStore`: one conference, and what extending and purging it do. *Done.*
2. `Session`: the shell, the reader, the table, load, purge and reply as one
   state machine. *Done*, with the proofs of its type invariant, of
   `LastReadInRange`, `OpenFileIsCurrentConf`, `ReplyExistIsTrue` and `LastReadKept`.
3. `ClipAbs`, `Clip`: the promise of a purge and the two-file rewrite that keeps
   it, step by step, with failures and crashes. *Done*, with the proof that no
   message is lost.
4. `Control`, `Toss`: `control.dat` with its limits and failed allocations, and
   the packet block by block.  *Done*, with the proofs that the table is
   whole, that a load keeps older mail, and that mail arrives where it belongs
   with records that find it.
5. `Encode`, `TagLine`, `Reply`: the encoding of a reply, its tagline, the dialogue
   that writes it, packing, and the child processes under SIGINT.  *Done*, with
   the proofs that no child is left and that no text is lost.
6. `EditLine`: the line editor.  *Done.*
7. Left: `Find`, the text search and the position it remembers; the parser of
   `atprc`; the copying of bulletins by `load`.
8. Proofs left: `LeavingSavesPointer` and `AutoJoinFindsUnread` of `Session`.

## 3. Modules

**`ConfStore`** is a conference as the rest of ATP can tell it apart: whether its
files are there, how many index records it has (`n`), its pointer (`last`,
`VIRGINDX` = -1 when nothing was read), and which positions are marked killed.
`Extended` is `WriteIndex`; `Clip` is `clip()` as a function.  `ClipLast` is the
closed form of the loop of `clip_loop` that lowers the pointer; the run `clip`
compares it with the loop.

**`Session`** has one action per command of `ReadShell`.  Its variables are the
program's globals:

| variable | code |
|---|---|
| `disk` | the conferences in `HomePath/<board>/` |
| `home` | boards with a `control.dat` there |
| `curBoard`, `tbl` | `CurBoard` (`NoBoard` while `IsEmpty`), and the board whose `control.dat` filled `ConfNumbers` |
| `active`, `actvCnt` | `ConfActive`, `ActvCnt` |
| `replyExist`, `newmail` | the flags of that name |
| `rd` | `CurConf`, the open pair and its position, `Index`, `TotMsg`, `FirstDone`, and which message header and text of `rbuf` come from |
| `lp`, `pc` | the loop variables of `AutoJoin` and `Purge`, and where control is |

`curBoard` and `tbl` differ after a load that failed, and that is the point of
having both.  C functions called from several commands are operators on a
session `[disk, rd, crash]`, so that a command reads as its sequence of calls:
`ChConf` is `GetConf(UpdateConf(s, FALSE), ...)`.  `AutoJoin` and `Purge` take
one step per iteration (`AutoJoinTurn`, `PurgeTurn`), the other commands one step
each: nothing else runs in between.  Seeking or reading on a stream that is
`NULL` or closed is undefined in C; the model takes it as the end of the process
(`pc = "crashed"`), after which `Restart` finds what is on disk.  The
uninitialised `ConfActive` of a table just allocated, and the flag read from
`ConfActive[-1]` of the empty table, are arbitrary Booleans.

A `purge` that unlinks a pair of files the reader still has open is modelled as
it works on Unix: the streams keep the unlinked files (`rd.own`).

The faults (constant `Faults`) are the error paths: `control` and `messages`
(`MkInOpen` fails before or after `control.dat` was read; `MkIndex` returns
success), `partial` (`MkIndex` fails in the middle), `toobig` (`KodeMessage`
refuses a reply).

**`Clip`** is `clip()` again, one step per message and per system call.  A `.cnf`
is a sequence of messages with their sizes, an `.idx` a pointer and one record
(offset, size) per message; what stdio buffers (`out`, `recs`) is not on disk
until `Close`.  Its faults are failing opens, allocations, writes, unchecked
reads, data lost in `fclose`, and a crash at any step.  Unlinks and renames are
taken to succeed (`ClipAssumption` only says that no file is a value that stands
for something else); the part of a temporary file that stdio writes before `Close`
is not modelled.

**`ClipAbs`** is the promise: until it ends, the pair is the old one, a torn one
or the purged one of `ConfStore`; it never ends torn.

**`Control`** is `RdCn_*`: `control.dat` is read into arrays of its own, which take
the place of the old ones when everything has been found in order.  A file is
`[head, n, confs]`: whether its first lines are there, the count, the numbers that
follow.  `tbl` is `LastConf`, `ConfNumbers` and the three arrays in use, `tmp` their
`t_` counterparts, `heap` the blocks that `malloc` has given and `free` has not
taken back.  Each function of the file is a step (`ReadCount`, `DoMalloc`,
`FailedMalloc`, `GetConfNames`, `SwitchToNewBbs`).

**`Toss`** extends it with `MkIndex`: a load goes through `Control` and then tosses
`messages.dat`, one step per write.

| variable | code |
|---|---|
| `packet`, `next` | `messages.dat` and the position in it |
| `files` | the `.cnf` (sizes of the texts) and `.idx` (offset, size, number, `LastRead`) of each conference |
| `conf` | `conf`, the conference whose files are open |
| `rest`, `piece` | `TotBlocs`, `NbBlocs` |
| `recs` | the size of `rbuf` in blocks, which `reup` enlarges up to `MAXRECS` |
| `before`, `loads`, `failures`, `torn` | history, for the properties and bounds |

The faults of a run (`faults`) are a set: failing allocations, opens, reads,
writes, or a crash.  After a crash each open file has lost an arbitrary tail of
what this load wrote.  The cut is made between messages, and a conference that
a load closed and opened again may lose more in the model than on a disk.  A
`MkInReOpen` that fails closes `messages.dat` twice, which is undefined; the model
ends the process there.  A number missing from the table loses its high byte, and
failing that goes to the first conference (`Landing`).  Messages whose size
field is no number are not among the packets, nor is there a board that numbers a
conference 9000, like the personal one (`TossAssumption`): mail that named it would
be written to one pair of files as if to two.

**`Encode`** has the pure part of a reply: `Kode` turns the editor's file into the
text of blocks (`Put` keeps `CountBlocks` and `CountRecordChars`), with the long
subject in front and the tagline behind; `StripTag` turns it back into a file
when the reply is changed; `QuoteMsg` is the file for an answer.  A character is a
letter, a newline, a carriage return, a space or the mark `DOS_SPACE` that
divides the text from the tagline and may also be typed.

**`TagLine`** has the commands of the tagline manager, one action each.

**`Reply`** extends both with `Reply()`, `PackReply()` and `fork_execvp()`.  `pc` goes
through the header's fields, the editor, the question, and `AddReply`.  The
header may be given up at each field, and at a re-edit that starts the header
over, as the code does.  The child is a process of its own: `ChildEnds`
may happen at any time after `Fork` and may have written its file or not, and
`Interrupt` may come once the handler is there.

| variable | code |
|---|---|
| `mode`, `from`, `reedit`, `long`, `fname` | the command, the reply it takes, `reedit`, `RepSubjBuf`, the editor's file |
| `cnf`, `idx` | `9001.cnf` and `.idx` |
| `msg`, `rep` | `MsgFile` for the archiver, the packet `<board>.rep` |
| `child`, `Proc_ID`, `handler`, `sig` | the process, the number that `kill_child` kills (as a flag), the disposition of SIGINT, whether the handler runs |
| `reperror`, `hit` | the flag, and whether a child of this reply was the reason |

A *habit* is what one session does: the texts its editor writes, its commands
and faults, the options of `atprc` that may be set, and a bound on the replies.
Whether long subjects may be used (`pcb`) changes in the code with the board;
here it is fixed for a session.

**`EditLine`** is `readline()`: one action per key, on a record `ed` of the line,
`Point`, `Mark`, `Yanked` and `Length`.  `hist` is `H`, whose last slot is the edited
line's own while a line is edited.  `Special` keys are those `TTYspecial()` takes
before `emacs()`; they leave the repeat count alone, whatever the comment *No
pushback means no repeat count* says.  A key that takes `Point` off the line (`^K`
at its end with a larger count) or reads and writes outside of it (`transpose` on
one character) sends the editor to `"wild"`, where nothing is said any more.  The screen, the directory lister, and `malloc` failures are left
out; `rl_complete` works on one directory.

**`MCSession`**, **`MCClip`**, **`MCToss`**, **`MCReply`**, **`MCEditLine`** give the
constants their values.  **`SessionProofs`**, **`PointerProofs`**, **`ClipProofs`**,
**`TossProofs`**, **`ReplyProofs`** and **`EditLineProofs`** hold the theorems,
**`Induct`** and **`LeftFold`** what they need of induction and of folds.
The operators called *Mutant of ...* stand beside the definition they vary: each
is a plausible mistake in that function, and the property named for it in
`PROJECT.json` does not survive it.

## 4. Runs

Runs that pass:

| run | instance | shows |
|---|---|---|
| `reading` | 1 board, 2 conferences, 2 messages each, reading commands | `LastReadKept`, `LeavingSavesPointer`, `AutoJoinFindsUnread` |
| `replying` | 1 conference, 2 messages, reply commands and `clean` | `OpenFileIsCurrentConf`, `LastReadInRange`, `ReplyExistIsTrue` |
| `boards` | 2 boards, 1 message | `OpenFileIsCurrentConf`, `LeavingSavesPointer` |
| `faults` | 1 message, all error paths | `TypeOK`, `LastReadInRange`, and `ReturnsToPrompt` under fairness |
| `clip` | up to 3 messages, text of 0 or 2 blocks | `TypeOK`, `KeptOnDisk`, `EndsClean`, `AbsSpec` |
| `toss` | 4 `control.dat`s, 4 packets, 2 loads, 3 sets of faults | `TableWhole`, `TossedRight`, `IndexCovers`, `OldMailKept`, `LoadEnds` |
| `reply` | 6 habits, texts of up to 5 characters | `BlocksAddUp`, `ChangeKeepsText`, `PacketWhole`, `NoChildLeft`, `TagKeepsStyle`, `TextKept`, `InterruptReturns` |
| `editline` | 6 sets of keys, lines of up to 4 characters, 3 history slots | `TypeOK`, `KillsAreYanked`, `HistoryIsQueue` |

- `LastReadKept`: no command but `reset` and a purge lowers a pointer.
- `LeavingSavesPointer`: however a conference is left (join, autojoin, load, rev,
  quit), its pointer has come as far as the last message read in it.
- `AutoJoinFindsUnread`: while there may be new mail, `AutoJoin` stops at a
  conference with unread mail, and gives up only when there is none.
- `LastReadInRange`: a pointer is -1 or one of the conference's messages.
- `OpenFileIsCurrentConf`: open files, `CurConf`, `TotMsg`, the stream's position
  and the buffer belong together.
- `ReplyExistIsTrue`: replies are promised only where there are some.
- `ReturnsToPrompt`: the mutual recursion of reading and `AutoJoin` ends.
- `KeptOnDisk`, `EndsClean`, `AbsSpec`: a purge loses nothing, leaves two files
  that agree or the old ones, and computes what `ConfStore!Clip` says.
- `TableWhole`: the table in use has all its arrays and a count that fits, and no
  block of memory is lost, shared or used after it was freed.
- `TossedRight`: a toss that comes to its end has put every message where it
  belongs, split ones adding up, with records that find them, and has made of
  each conference what `ConfStore!Extended` says.
- `IndexCovers`: failures and repeated loads make no message unreachable, and
  leave at most one stray record each.
- `OldMailKept`: a load, failed or crashed, takes nothing from earlier ones.
- `LoadEnds`: every load comes to an end.
- `BlocksAddUp`: header, text and index agree on the size of every reply.
- `ChangeKeepsText`: changing a reply begins with the text that was typed.
- `PacketWhole`: the archiver gets all replies that are not killed, or is not run.
- `TextKept`: the editor's file goes only when its text is stored, or the user
  aborts; except on a full disk.
- `NoChildLeft`, `InterruptReturns`: no child or handler outlives its command, and
  an interrupt brings ATP back even from a child that never ends.
- `TagKeepsStyle`: no sequence of tag commands mixes two taglines or two styles.
- `KillsAreYanked`, `HistoryIsQueue`: what a key takes away can be put back, and
  the history loses only its oldest line.

In `Session`, `OpenFileIsCurrentConf`, `ReplyExistIsTrue` and `LeavingSavesPointer` are not
stated of the error paths: there they fail (see below), but for an unreadable
`messages.dat`, under which the proofs have the first two.

Bounds.  `MaxMsgs` bounds a conference: one message is both first and last, two
tell the first from the last, three put one between them, and a purge of three
can kill below, at and above the pointer.  `MaxNew` = 1 lets a conference grow
by repeated loads.  Two conferences are what `AutoJoin` needs to pass over one
(the personal and reply conferences are always there as well).  Every run lets
the process be restarted, after `quit` or a crash, so that what is on disk has
any history within the bounds.  Each run leaves out the commands it is not about
(`MCSession` lists them); every command is in one of them.

In `Toss` the buffer holds one block of text and grows to two at most: one message
fits, one makes it grow, and one of three blocks is split into three pieces or,
after an earlier one has enlarged the buffer, into two.  Two loads let the
second be tossed behind whatever the first has left.  The four `control.dat`s are
a good one, one cut short, one refused at once and one beyond `MAXCONF`.  In
`Reply` a block is four characters and a line three, so that texts of five end
before, on and behind the border of both; two taglines lie on either side of the
limit at which they are cut.  Each habit (and each set of faults of `Toss`, each
set of keys of `EditLine`) combines what shares state; all together would only
multiply.  In `EditLine` a history of three slots is one that is full while the
edited line has the third, and the buffer grows at its third character.

Fairness.  `FairSpec` of `Session` is weakly fair to the steps of `AutoJoin` and
`Purge` only: these loops run by themselves, and `Purge` returns if its user goes
on answering.  No command is ever forced upon the user.  `FairSpec` of `Toss` is
weakly fair to `Step`, the program's own steps: nothing in a load waits for
anybody.  `Spec` of `Reply` is weakly fair to `Waiting`: `fork_execvp`, the handler,
which sends SIGKILL in the end, and `wait`, when there is a child to reap.  It is
not fair to `ChildEnds`: an editor may stay open for ever.

Deadlock is checked except in the runs of `Clip`, which ends, and of `Toss`, which
stops after `MaxLoads` loads.

Runs that end in a violation.  Each checks what a document or a comment says, and
its counterexample is a way the code departs from it:

| run | the code |
|---|---|
| `kill` | after `reset`, `k` marks the message before the one shown (`read.c:413`) |
| `unread` | a purge counts the first message of an unread conference as read (`purge.c:217`) |
| `editline_column` | `^K` with a count ahead of the cursor leaves the character at the cursor, and kills one too few (`editline.c:797`) |
| `reply_interrupt` | a `^C` during `load` or packing gives up the *next* reply after its editor (`system.c:434`) |

Further departures that the code has and no run is spent on.  Those the models
have too:

- `reset` in an unread conference moves reading past its first message, and makes
  `c` kill another reply than the one replaced (`read.c:405-413`, as in `kill`).
- A scan with nothing to show reloads the message before the current one
  (`atpmain.c:344`).
- Packing the replies overwrites the buffer that `FirstDone` vouches for
  (`makemail.c:106`).
- `p` revives a killed reply (`atpmain.c:184`).
- `ActvCnt` still counts the replies deleted at a load (`read.c:461-463`).
- After a load that failed half way `UpdateConf` refuses the conference that is
  open (`read.c:392`).
- `TotMsg` outlives the files it was counted in, and a message number seeks on
  `NULL` (`readlib.c:196`); a reply refused for its size closes the reader's own
  stream (`makemail.c:529`).
- The last write of a purge is in `fclose`, whose result is ignored before the
  source is unlinked (`purge.c:378`; `Clip`'s fault `close`).
- A `control.dat` beyond `MAXCONF` leaves `t_LastConf` set, which the assertions of a
  debugging build forbid (`qlib.c:763`).
- A reply of which the write fails on a full disk is reported and then unlinked
  (`makemail.c:400`).
- An interrupt while a reply is edited again starts the header over, as
  `reperror` stays set until the end of `Reply()`; and an empty field cannot abort
  then.
- The archiver's exit status is not looked at: the replies count as packed
  (`readlib.c:451`).
- A line that is too long loses its next character (`KodeXlat`).
- The first `tag swap` brings the persistent tagline that is in use anyway.
- `transpose` on a line of one character reads and writes the byte before it
  (`editline.c:1250`); `^K` at the end of the line, with a count beyond it, moves
  `Point` behind the terminator (`editline.c:797`).
- `add_history` compares with the line before `H.Pos`, which browsing has moved; a
  search that finds nothing loses the line typed so far.

Those outside of the models: a count of -2 in `control.dat` passes the range check
with no room for ATP's own conferences (`ControlAssumption` excludes it); a read
error of a header in `DoRep` is taken for the end of the replies
(`makemail.c:138`); a SIGINT between `wait()` and the reset of the handler signals a
process number that is already reaped (the model's child is then gone, but not
another process that got its number); `fclose` of the packed replies is
unchecked; `KodeMessage` without a file leaves the reply conference open; the end of
input makes `get_shell_input` spin (`atpmain.c:624`); the comparison of `complete.c`
reads the pointers of `qsort` with one level of indirection missing; a prompt's text is
copied to the line without a limit (`EditAssumption` has it fit).

## 5. Proofs

TLAPS checks, for every value of the constants:

- `SessionProofs!TypeCorrect`: `Spec => []TypeOK` of `Session`.  `TypeOK` is not
  inductive: `PurgeTurn` and `AutoJoinTurn` index `disk` by `curBoard` without
  asking whether a board is loaded.  The invariant `TypeInv` adds that those
  loops run on a loaded board, with their index in the table.  There is one
  lemma per C function (a typed session goes in, a typed session comes out) and
  one per command.  Assumption: `SessionAssumption`, that conference numbers of
  a `control.dat` are distinct and below 9000.
- `SessionProofs!ClipInRange`, `ExtendedInRange`: purging and tossing keep the
  pointer of a conference in range.  The argument of the first: the messages
  between the start and the pointer are either killed, and each lowers the
  pointer by one, or survivors, of which there are then more than the pointer.
- `PointerProofs!PointersInRange`: `Spec => []LastReadInRange` of `Session`, under
  the same assumption and every fault.  The property is not inductive:
  `UpdateConf` writes `Index.MsgNum` into record 0 of whatever pair is open.  The
  invariant `PointerInv` adds what ties the two (`Anchored`): unless a purge has
  unlinked it, the open pair is one on disk and `MsgNum` is a position of it.
  `OpenFileIsCurrentConf` would say so too, but does not survive the error
  paths; `Anchored` does, and needs neither `CurConf` nor `TotMsg`.  Again there
  is one lemma per C function, and `ClipInRange` and `ExtendedInRange` are the
  purge's and the tosser's share.
- `PointerProofs!OpenFilesAreCurrent`, `RepliesAreThere`: `Spec => []OpenFileIsCurrentConf`
  and `Spec => []ReplyExistIsTrue` of `Session` when `Faults` is within
  `{"messages"}`, for any boards, conferences, bounds and commands.  The other
  error paths break them: after an unreadable or incomplete `control.dat` the
  table is not that of the current board, and a reply too large closes the reader's
  stream under it.  The invariant `OpenInv` is `PointerInv` with what makes the calls fit
  together: the table is the current board's; nothing on disk is without a message
  (`Whole`), so that `GetConf` does not stop half way; the open pair is whole
  (`Current`); and the flag is right at the prompt, and where a command begins
  that will come back to it (`Promised`).  What `PurgeAdjust` is for shows in one place:
  the numbers of a table are distinct, so that a purge of another conference
  never unlinks the pair that is open.
- `PointerProofs!LastReadIsKept`: `Spec => LastReadKept` of `Session`, under every fault,
  from `PointerInv`: of each call, that a conference there stays there and its
  pointer does not go down (`Later`); a toss may take an empty personal conference away
  (`Kept`), the question about old replies theirs (`Shrunk`), and no call
  after either adds a conference in the same command.  Messages tossed to an empty conference give
  it the virgin pointer, which is no lower, because the pointer was in range.
- `ClipProofs!TypeCorrect`: `Spec => []TypeOK` of `Clip`.
- `ClipProofs!MessagesKept`: `Spec => []KeptOnDisk` when reads and closes do what
  they report, whatever opens, allocations, writes and crashes do.  The
  strengthening `Where` says where the survivors are at each label: in the old
  conference until the temporary one is complete, in the temporary one until it
  is renamed, in the new one from then on.
- `TossProofs!TableIsWhole`: `Spec => []TableWhole` of `Toss`, for every set of
  `control.dat`s, packets and faults, under `ControlAssumption`.  `TableWhole`
  does not say where in the reading of a file the new table is.  The invariant
  `TableInv` adds, for each label, which arrays there are (none, or all three
  from `names` on) and that the count has passed the range check before anything
  is allocated for it.  Its arithmetic is one lemma, `FreshBlock`: of `n + 1`
  addresses, `n` blocks leave one free.
- `ReplyProofs!NoChildIsLeft`: `Spec => []NoChildLeft` of `Reply`, for any texts,
  habits and number of interrupts.  The invariant `ChildInv` adds how far
  `fork_execvp` has come: the handler exists only from `wait` on, and a child
  waited for is gone; so no handler can run, and no child be left, once it
  returns.
- `TossProofs!MailIsKept`: `Spec => []OldMailKept` of `Toss`, for every packet,
  `control.dat` and fault.  The property says nothing of a conference that had no
  mail, since `MkInClose` may remove the one it made for nothing.  The invariant
  `MailInv` adds that both files of every conference are sequences, and that
  each begins with what it was before the load, unless the conference is at rest
  without mail; a crash then takes only from what this load appended.
- `TossProofs!IndexAlwaysCovers`: `Spec => []IndexCovers` of `Toss`.  On the way to
  the prompt a record is ahead of its text.  The invariant `CoverInv` says in which
  conferences (`Waits`): in the open one from its record to its text, and for mail
  to the user in the personal one; there the surplus is one larger, and the
  last record is that of the text to come, so that a failure at this point
  costs one record and the next load's records are right again.  It needs
  `LandInv`: the two conferences are never the same one, since `Landing` yields
  the personal conference for no number but its own.
- `TossProofs!TossIsRight`: `Spec => []TossedRight` of `Toss`, for packets of any
  length, messages of any size and a buffer that grows or fails to.  The
  invariant `RightInv` follows each conference through the load (`Ready`): the
  texts new in it add up to the messages before `next` that belong there and
  to `size - rest` of the current one, plus the piece just written in those of
  the two conferences that have it (`Written`); they are as many as there were
  messages when none is split, and each has its record behind the old ones.
  Both under `ControlAssumption` and `TossAssumption`.
- `ReplyProofs!TextIsKept`: `Spec => []TextKept` of `Reply`, under
  `ReplyAssumption`, that no editor takes its file away.  A step of the
  dialogue that calls the editor writes `fname` anew; the invariant `TextInv` adds
  that there is no file there to be given up, unless the user edits again, and
  that the reply conference is a sequence.

- `ClipProofs!EndsCleanly`: `Spec => []EndsClean` of `Clip`, and `ClipProofs!Refines`:
  `Spec => AbsSpec`, each when reads and closes do what they report: that is the run's
  instance too (`Noticed`), for with an unread message or a full disk at `fclose`
  the purge does end torn (see section 4).  The invariant `PInv` counts in the
  loop: how many survivors lie before the position reached (`Counted`), that
  the files written are those survivors in order with offsets that add up
  (`Follows`), and which of the four files is where after each rename (`Moved`).
  The closed form of the pointer, `ClipLast` of `ConfStore`, is what the loop has
  lowered it to when it ends.
- `EditLineProofs!LineInBounds`, `KilledIsYanked`, `HistoryQueues`: `TypeOK`,
  `KillsAreYanked` and `HistoryIsQueue` of `EditLine`, for any characters, keys, counts,
  buffer increment and size of the history.  The invariant `EInv` says that the
  line is on the buffer with room for its terminator, `Point` on the line, and
  the edited line's slot the last one of the history while a line is edited.
  There is one lemma per function of the editor.  Assumption: what the program
  preloads and completes fits the buffer it is copied to (`EditAssumption`).
- `ReplyProofs!TagIsStyled`: `Spec => []TagKeepsStyle` of `Reply`.  The invariant
  `TagInv` adds that the sources a tagline may be taken from, the file and the
  two saved ones, are words with one newline behind, whatever swapped them.
- `ReplyProofs!PacketIsWhole`: `Spec => []PacketWhole` of `Reply`.  `DoRep` stops at a
  reply it cannot write; the packet counts as whole only when it came to the
  last one and one at least was not killed.  The invariant `PackInv` adds that
  the reply conference does not change while the archiver is at work on what
  was taken from it.
- `ReplyProofs!BlocksDoAddUp`: `Spec => []BlocksAddUp` of `Reply`, for texts of any
  length.  The invariant `ConfInv` says that each stored reply was encoded
  (`Coded`): its text fills whole blocks, and the blocks counted by `Put` while
  it was encoded are those its header and its index record name (`Accounts`,
  `Filled`).
- `ReplyProofs!ChangeIsFaithful`: `Spec => []ChangeKeepsText` of `Reply`: `StripTag` is
  the inverse of `Kode` on the texts that `KodeXlat` breaks no line of.  The
  encoder is a fold with a state (column, last space); the induction is over the
  prefix of the text it has read (`KodeRestored`).

Assumptions on constants are in the modules that declare them, and each run
evaluates them: sizes that are natural numbers and not 0 where the code divides
or indexes by them, texts that are sequences of characters (`ReplyAssumption`,
`TagAssumption`, `EditAssumption`), values of the model that are not also a file.

Induction over data is done without the induction theorems of the library, which
take an operator that no installed prover instantiates: `Induct!Induction` says
that a *set* with 0 and with each successor is all of the natural numbers, and
follows from their well-foundedness.  `LeftFold` proves from it what `FoldLeft`
computes, for any operator: that it starts with its base, takes one step for each
element, keeps what each step keeps.  `Reply`, `Encode` and `Toss` write their
loops as such folds, and no module uses a RECURSIVE operator.

Only model-checked: `LeavingSavesPointer` and `AutoJoinFindsUnread` of `Session`, and
everything that must happen eventually (`ReturnsToPrompt`, `LoadEnds`, `InterruptReturns`: liveness and `ENABLED` are out of
the reach of the prover).

## 6. What is not modelled

Text that no property is about: wording, dates, names, file names, colours and
paging (`display.c`, `ansi.c`, `text.c`); the character set tables of the encoder.
The text search of `readlib.c` with the position it remembers; the parser of `atprc`
(`rdconfig.c`), which runs once before the first prompt; the bulletin files that a
load copies (`qlib.c`); the commands of the shell that only print or leave for the
operating system; paths and the terminal (`system.c`).  In the line editor, the
screen, real directories and a failing `malloc`.  The DOS branch of `ActvConf` and
the other `#ifdef` variants: the Unix build is the one modelled.  Changes made to
the files by another process while ATP runs.  `Session` and `Toss` see a
conference at different depths and are not composed: `ConfStore!Extended` is what
the one takes from the other, and `TossedRight` shows that it is delivered.
