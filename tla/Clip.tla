-------------------------------- MODULE Clip --------------------------------
(***************************************************************************)
(* clip() of purge.c: rewrite a conference without its killed messages     *)
(* ("C"lean) or its oldest ones too ("T"runcate).  The survivors go to a   *)
(* temporary pair .tmc/.tmi; then .cnf and .idx are unlinked and the       *)
(* temporary files renamed, one after the other.  Disk writes and opens    *)
(* may fail, and the process may die, between any two steps.               *)
(*                                                                         *)
(* Messages are the numbers 1 .. old.n; 0 is what a failed read leaves in  *)
(* the buffer.  A .cnf is the sequence of its messages, a .idx the pointer *)
(* LastRead and one record per message.  Lengths count blocks of 128       *)
(* bytes: a message of size k is a header block and k blocks of text.      *)
(***************************************************************************)
EXTENDS Integers, Sequences, FiniteSets

CONSTANTS
  MaxMsgs,   \* bound: messages of the conference
  Sizes,     \* sizes of a message's text
  NoFile,    \* no file of that name
  Torn,      \* a pair of files that do not belong together
  Faults     \* what may go wrong in this instance

AllFaults == {"open", "memory", "read", "write", "close", "crash"}

ASSUME ClipAssumption ==
  /\ MaxMsgs \in Nat /\ Sizes \subseteq Nat
  /\ Faults \subseteq AllFaults
  /\ NoFile \notin Seq([msg : Nat, size : Nat])
  /\ NoFile \notin [last : Int, recs : Seq([off : Nat, size : Nat])]
  /\ Torn \notin [there : BOOLEAN, n : Nat, last : Int, killed : SUBSET Int]

Garbage == 0

VARIABLES
  old,     \* the conference as clip() finds it
  cmd,     \* "C" or "T"
  trunc,   \* trunc_num
  cnf, idx, tmc, tmi,  \* the four files, as a new process would find them
  out,     \* what has been written to ncnfptr
  recs,    \* what has been written to ndxptr
  last,    \* last_read
  at,      \* the index record read next
  off,     \* old_size + old_offset, the offset of the next survivor
  pc

vars == <<old, cmd, trunc, cnf, idx, tmc, tmi, out, recs, last, at, off, pc>>
input == <<old, cmd, trunc>>
files == <<cnf, idx, tmc, tmi>>
work == <<out, recs, last, at, off>>

----------------------------------------------------------------------------
(* The conference clip() finds: one message lies behind the other.         *)

\* Where the messages of a .cnf lie.
Places(c) ==
  LET place[j \in 1 .. Len(c)] == IF j = 1 THEN 0 ELSE place[j - 1] + 1 + c[j - 1].size
  IN  place

OldCnf(c) == [k \in 1 .. c.n |-> [msg |-> k, size |-> c.size[k]]]
OldIdx(c) ==
  [last |-> c.last,
   recs |-> [k \in 1 .. c.n |-> [off |-> Places(OldCnf(c))[k], size |-> c.size[k]]]]

\* LastRead may have been damaged; clip_do repairs what is too large.
Olds ==
  UNION {[n : {n}, size : [1 .. n -> Sizes], killed : SUBSET (1 .. n),
          last : -1 .. (IF n = 0 THEN -1 ELSE n)]
           : n \in 0 .. MaxMsgs}

Start == IF cmd = "C" THEN 0 ELSE old.n - trunc
Kept == {k \in 1 .. old.n : k > Start /\ k \notin old.killed}

Labels == {"open", "loop", "abort", "close", "unlink cnf", "rename cnf",
           "unlink idx", "rename idx", "done", "unchanged", "crashed"}

Init ==
  /\ old \in Olds /\ cmd \in {"C", "T"} /\ trunc \in 0 .. MaxMsgs
  /\ cnf = OldCnf(old) /\ idx = OldIdx(old)
  /\ tmc = NoFile /\ tmi = NoFile
  /\ out = <<>> /\ recs = <<>> /\ last = 0 /\ at = 0 /\ off = 0
  /\ pc = "open"

----------------------------------------------------------------------------
\* trunc_num is 0, or a file cannot be opened, or the index is empty; what was
\* created is removed again.
OpenFails ==
  /\ pc = "open"
  /\ trunc = 0 \/ old.n = 0 \/ "open" \in Faults
  /\ pc' = "unchanged"
  /\ UNCHANGED <<input, files, work>>

\* clip_open creates the temporary files; "T" finds nothing to truncate.
OpenForNothing ==
  /\ pc = "open" /\ trunc > 0 /\ old.n > 0
  /\ cmd = "T" /\ trunc >= old.n
  /\ tmc' = <<>> /\ tmi' = [last |-> 0, recs |-> <<>>]
  /\ pc' = "abort"
  /\ UNCHANGED <<input, cnf, idx, work>>

\* clip_open, and clip_do up to the loop: the last-read pointer moves along
\* with the messages.
Open ==
  /\ pc = "open" /\ trunc > 0 /\ old.n > 0
  /\ cmd = "C" \/ trunc < old.n
  /\ tmc' = <<>> /\ tmi' = [last |-> 0, recs |-> <<>>]
  /\ LET l == IF old.last >= old.n THEN old.n - 1 ELSE old.last
     IN  last' = IF l > Start THEN l - Start ELSE 0
  /\ at' = Start + 1
  /\ pc' = "loop"
  /\ UNCHANGED <<input, cnf, idx, out, recs, off>>

\* Mutants of SkipKilled: the pointer may fall below 0; it stays when it lies at
\* the survivors so far.
SkipKilledUnder ==
  /\ pc = "loop" /\ at <= old.n /\ at \in old.killed
  /\ last' = IF Len(recs) <= last \/ last = 0 THEN last - 1 ELSE last
  /\ at' = at + 1
  /\ UNCHANGED <<input, files, out, recs, off, pc>>

SkipKilledPast ==
  /\ pc = "loop" /\ at <= old.n /\ at \in old.killed
  /\ last' = IF Len(recs) < last /\ last # 0 THEN last - 1 ELSE last
  /\ at' = at + 1
  /\ UNCHANGED <<input, files, out, recs, off, pc>>

\* clip_loop at a killed message: the pointer drops when it lies at or beyond
\* the survivors so far.
SkipKilled ==
  /\ pc = "loop" /\ at <= old.n /\ at \in old.killed
  /\ last' = IF Len(recs) <= last /\ last # 0 THEN last - 1 ELSE last
  /\ at' = at + 1
  /\ UNCHANGED <<input, files, out, recs, off, pc>>

\* Mutant of Copy: old_offset without the header block.
CopyShort ==
  /\ pc = "loop" /\ at <= old.n
  /\ \E m \in ({at} \ old.killed) \cup (IF "read" \in Faults THEN {Garbage} ELSE {}) :
       out' = Append(out, [msg |-> m, size |-> old.size[at]])
  /\ recs' = Append(recs, [off |-> off, size |-> old.size[at]])
  /\ off' = off + old.size[at]
  /\ at' = at + 1
  /\ UNCHANGED <<input, files, last, pc>>

\* clip_loop at a survivor.  The fread of the message is not checked: a message
\* that cannot be read, killed or not, is replaced by what the buffer holds.
Copy ==
  /\ pc = "loop" /\ at <= old.n
  /\ \E m \in ({at} \ old.killed) \cup (IF "read" \in Faults THEN {Garbage} ELSE {}) :
       out' = Append(out, [msg |-> m, size |-> old.size[at]])
  /\ recs' = Append(recs, [off |-> off, size |-> old.size[at]])
  /\ off' = off + 1 + old.size[at]
  /\ at' = at + 1
  /\ UNCHANGED <<input, files, last, pc>>

\* Mutant of CopyFails: ret_code stays TRUE.
CopyFailsUnseen ==
  /\ pc = "loop" /\ at <= old.n
  /\ "memory" \in Faults \/ ("write" \in Faults /\ at \notin old.killed)
  /\ pc' = "close"
  /\ UNCHANGED <<input, files, work>>

\* The buffer cannot grow, or an fwrite reports an error.
CopyFails ==
  /\ pc = "loop" /\ at <= old.n
  /\ "memory" \in Faults \/ ("write" \in Faults /\ at \notin old.killed)
  /\ pc' = "abort"
  /\ UNCHANGED <<input, files, work>>

EndLoop ==
  /\ pc = "loop" /\ at > old.n
  /\ pc' = "close"
  /\ UNCHANGED <<input, files, work>>

\* clip_close after an error: the temporary files go.
Abort ==
  /\ pc = "abort"
  /\ tmc' = NoFile /\ tmi' = NoFile
  /\ pc' = "unchanged"
  /\ UNCHANGED <<input, cnf, idx, work>>

\* clip_close: fclose writes out what stdio holds, and nobody looks whether it
\* could: the end of either file may be missing.
Flushed(s) ==
  {s} \cup (IF "close" \in Faults THEN {SubSeq(s, 1, k) : k \in 0 .. Len(s)} ELSE {})

Close ==
  /\ pc = "close"
  /\ tmc' \in Flushed(out)
  /\ \E r \in Flushed(recs) : tmi' = [last |-> last, recs |-> r]
  /\ pc' = "unlink cnf"
  /\ UNCHANGED <<input, cnf, idx, work>>

UnlinkCnf ==
  /\ pc = "unlink cnf"
  /\ cnf' = NoFile /\ pc' = "rename cnf"
  /\ UNCHANGED <<input, idx, tmc, tmi, work>>

\* wrote_one: an empty temporary file is removed instead.
RenameCnf ==
  /\ pc = "rename cnf"
  /\ cnf' = IF out # <<>> THEN tmc ELSE cnf
  /\ tmc' = NoFile /\ pc' = "unlink idx"
  /\ UNCHANGED <<input, idx, tmi, work>>

UnlinkIdx ==
  /\ pc = "unlink idx"
  /\ idx' = NoFile /\ pc' = "rename idx"
  /\ UNCHANGED <<input, cnf, tmc, tmi, work>>

RenameIdx ==
  /\ pc = "rename idx"
  /\ idx' = IF out # <<>> THEN tmi ELSE idx
  /\ tmi' = NoFile /\ pc' = "done"
  /\ UNCHANGED <<input, cnf, tmc, work>>

Final == {"done", "unchanged", "crashed"}

\* The process is killed; the files stay as they are.
Die ==
  /\ pc \notin Final /\ "crash" \in Faults
  /\ pc' = "crashed"
  /\ UNCHANGED <<input, files, work>>

Step ==
  \/ OpenFails \/ OpenForNothing \/ Open
  \/ SkipKilled \/ Copy \/ CopyFails \/ EndLoop
  \/ Abort \/ Close
  \/ UnlinkCnf \/ RenameCnf \/ UnlinkIdx \/ RenameIdx

Next == Step \/ Die

Spec == Init /\ [][Next]_vars

----------------------------------------------------------------------------
(* Properties.                                                             *)

\* Every variable stays in its type: LastRead never falls below 0, and the index
\* is read between its first record and its end.
TypeOK ==
  /\ old \in Olds /\ cmd \in {"C", "T"} /\ trunc \in 0 .. MaxMsgs
  /\ out \in Seq([msg : Nat, size : Nat])
  /\ recs \in Seq([off : Nat, size : Nat])
  /\ last \in Nat /\ at \in Nat /\ off \in Nat
  /\ pc = "loop" => at \in 1 .. old.n + 1
  /\ pc \in Labels

Holds(file, k) ==
  file # NoFile /\ \E j \in 1 .. Len(file) : file[j].msg = k

\* Whenever the process stops, for whatever reason, each message that was to be
\* kept is in the conference or in the temporary file (clip_close's order of
\* closing, unlinking and renaming).
KeptOnDisk == \A k \in Kept : Holds(cnf, k) \/ Holds(tmc, k)

\* The index describes the conference: each record says where its message is.
PairAgrees(c, i) ==
  /\ Len(c) = Len(i.recs)
  /\ \A j \in 1 .. Len(c) : i.recs[j] = [off |-> Places(c)[j], size |-> c[j].size]

\* At the end either nothing has changed or the new pair agrees with itself, and
\* no temporary file is left behind.
EndsClean ==
  pc \in {"done", "unchanged"} =>
    /\ tmc = NoFile /\ tmi = NoFile
    /\ pc = "unchanged" => cnf = OldCnf(old) /\ idx = OldIdx(old)
    /\ cnf # NoFile => idx # NoFile /\ PairAgrees(cnf, idx)
    /\ cnf = NoFile => idx = NoFile

----------------------------------------------------------------------------
(* The promise of ClipAbs, kept by the files: what a reader of the pair     *)
(* finds, position by position.                                            *)

ConfOf(c, i) ==
  IF c = NoFile /\ i = NoFile
  THEN [there |-> FALSE, n |-> 0, last |-> -1, killed |-> {}]
  ELSE IF c = NoFile \/ i = NoFile THEN Torn
  ELSE IF ~PairAgrees(c, i) THEN Torn
  ELSE [there |-> TRUE, n |-> Len(c), last |-> i.last,
        killed |-> {j - 1 : j \in {k \in 1 .. Len(c) : c[k].msg \in old.killed}}]

Abs == INSTANCE ClipAbs WITH
  conf   <- ConfOf(cnf, idx),
  before <- ConfOf(OldCnf(old), OldIdx(old)),
  ended  <- pc \in {"done", "unchanged"}

AbsSpec == Abs!AbsSpec
=============================================================================
