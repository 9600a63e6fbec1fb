----------------------------- MODULE ConfStore -----------------------------
(***************************************************************************)
(* One conference of a board as it lies on disk: the pair <n>.cnf (the     *)
(* messages) and <n>.idx (one record per message).  What the rest of ATP   *)
(* can tell apart is                                                       *)
(*   there   both files exist;                                             *)
(*   n       the number of index records;                                  *)
(*   last    LastRead of record 0, the conference's last-read pointer;     *)
(*   killed  the positions whose status byte has its high bit set.         *)
(* A message is its position 0 .. n-1; its text is not modelled.           *)
(***************************************************************************)
EXTENDS Integers, FiniteSets

VIRGINDX == -1                 \* "virgin" index: nothing read yet
PERS_CONF == 9000
REPL_CONF == 9001

Absent  == [there |-> FALSE, n |-> 0, last |-> VIRGINDX, killed |-> {}]
Created == [Absent EXCEPT !.there = TRUE]

Conference == [there : BOOLEAN, n : Nat, last : Int, killed : SUBSET Nat]

\* The positions of a conference, and those a purge would keep.
Positions(c) == 0 .. c.n - 1
Live(c) == Positions(c) \ c.killed

\* The pointer names a message or nothing, and only messages are killed.
InRange(c) ==
  /\ c.last \in VIRGINDX .. c.n - 1
  /\ c.killed \subseteq Positions(c)

\* AutoJoin's test: some message lies beyond the last-read pointer.
Unread(c) == c.there /\ c.n > 0 /\ c.last # c.n - 1

\* OpenCon: a missing file is created empty.
Opened(c) == IF c.there THEN c ELSE Created

\* k new index records.  WriteIndex gives record 0 the virgin pointer.
Extended(c, k) ==
  [there |-> TRUE, n |-> c.n + k, killed |-> c.killed,
   last |-> IF c.n = 0 THEN VIRGINDX ELSE c.last]

(***************************************************************************)
(* purge.c.  A conference is rewritten from message start on, without the  *)
(* killed messages.  The pointer is first repaired and shifted, then       *)
(* lowered once for every killed message met while it still lies at or     *)
(* beyond the survivors counted so far.                                    *)
(***************************************************************************)
ClipBase(c, start) ==
  LET l == IF c.last >= c.n THEN c.n - 1 ELSE c.last
  IN  IF l > start THEN l - start ELSE 0

ClipLast(c, start) ==
  LET base == ClipBase(c, start)
      hit  == {p \in c.killed : p >= start /\ p - start <= base}
  IN  IF Cardinality(hit) >= base THEN 0 ELSE base - Cardinality(hit)

Clipped(c, start) ==
  LET kept == {p \in Live(c) : p >= start}
  IN  IF kept = {} THEN Absent
      ELSE [there |-> TRUE, n |-> Cardinality(kept),
            last |-> ClipLast(c, start), killed |-> {}]

\* When clip() rewrites a conference for the commands (C)lean and (T)runcate,
\* and what it leaves of it.
Clips(c, cmd, trunc) == trunc > 0 /\ c.n > 0 /\ (cmd = "T" => trunc < c.n)

Clip(c, cmd, trunc) ==
  IF Clips(c, cmd, trunc) THEN Clipped(c, IF cmd = "C" THEN 0 ELSE c.n - trunc) ELSE c
=============================================================================
