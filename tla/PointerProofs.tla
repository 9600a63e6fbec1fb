---------------------------- MODULE PointerProofs ----------------------------
(***************************************************************************)
(* What the shell keeps true of the reader and of the pointers on disk.    *)
(*                                                                         *)
(* First, the last-read pointer of every conference stays in range.  It is *)
(* written from Index.MsgNum through the open index, so MsgNum must be a   *)
(* position of the conference that is open, and that conference must be    *)
(* the one on disk: what the reader holds is anchored there.  An open pair *)
(* that a purge has unlinked is written to no effect.                      *)
(*                                                                         *)
(* Second, the open pair is the current conference's and agrees with       *)
(* TotMsg, the stream and the buffer, and ReplyExist promises replies only *)
(* where there are some, unless a control.dat cannot be read to its end or *)
(* a reply is refused as too large.                                        *)
(*                                                                         *)
(* Third, nothing but 'reset' and a purge lowers a pointer.                *)
(***************************************************************************)
EXTENDS SessionProofs

InRanges(s) == \A d \in Board, f \in Numbers : InRange(s.disk[d][f])

Anchored(s, b) ==
  FilesOpen(s.rd) /\ ~s.rd.own.there =>
    /\ b \in Board
    /\ s.disk[b][s.rd.fh].there
    /\ s.rd.num \in Positions(s.disk[b][s.rd.fh])

Fits(s, b) == s \in Sessions /\ InRanges(s) /\ Anchored(s, b)

PointerInv == TypeInv /\ Fits(Session, curBoard)

----------------------------------------------------------------------------
(* The calls.                                                              *)

\* What Fits says depends on the disk and on three fields of the reader.
LEMMA SameFits ==
  ASSUME NEW b, NEW s, Fits(s, b), NEW t \in Sessions,
         t.disk = s.disk, t.rd.fh = s.rd.fh, t.rd.own = s.rd.own, t.rd.num = s.rd.num
  PROVE  Fits(t, b)
  BY DEF Fits, InRanges, Anchored, FilesOpen

\* Closed files are anchored anywhere.
LEMMA ClosedFits ==
  ASSUME NEW b, NEW s \in Sessions, InRanges(s), ~FilesOpen(s.rd)
  PROVE  Fits(s, b)
  BY DEF Fits, Anchored

LEMMA PutInRanges ==
  ASSUME NEW s \in Sessions, InRanges(s), NEW d, NEW f, NEW c,
         d \in Board /\ f \in Numbers => InRange(c)
  PROVE  InRanges([s EXCEPT !.disk[d][f] = c])
  <1> DEFINE t == [s EXCEPT !.disk[d][f] = c]
  <1>1. \A e \in Board, g \in Numbers :
          t.disk[e][g] = IF e = d /\ g = f THEN c ELSE s.disk[e][g]
    BY DEF Sessions
  <1> SUFFICES InRanges(t)
    OBVIOUS
  <1> HIDE DEF t
  <1> QED
    BY <1>1 DEF InRanges

\* A write to the disk, which does not take the message shown away.
LEMMA PutFits ==
  ASSUME NEW b, NEW s, Fits(s, b), NEW d, NEW f, NEW c,
         d \in Board /\ f \in Numbers => c \in Conference /\ InRange(c),
         FilesOpen(s.rd) /\ ~s.rd.own.there /\ d = b /\ f = s.rd.fh
           => c.there /\ s.rd.num \in Positions(c)
  PROVE  Fits([s EXCEPT !.disk[d][f] = c], b)
  <1> DEFINE t == [s EXCEPT !.disk[d][f] = c]
  <1>1. t \in Sessions /\ s \in Sessions
    BY PutType DEF Fits
  <1>2. t.rd = s.rd
    BY <1>1 DEF Sessions
  <1>3. CASE d \in Board /\ f \in Numbers
    <2>1. \A e \in Board, g \in Numbers :
            t.disk[e][g] = IF e = d /\ g = f THEN c ELSE s.disk[e][g]
      BY <1>1, <1>3 DEF Sessions
    <2>2. InRanges(t)
      BY <1>1, PutInRanges DEF Fits
    <2>3. FilesOpen(s.rd) => s.rd.fh \in Numbers
      BY <1>1 DEF Sessions, Reader, FilesOpen
    <2>4. Anchored(t, b)
      <3> HIDE DEF t
      <3> QED
        BY <1>2, <2>1, <2>3 DEF Fits, Anchored
    <2> QED
      BY <1>1, <2>2, <2>4 DEF Fits
  <1>4. CASE ~(d \in Board /\ f \in Numbers)
    <2>1. t.disk = s.disk
      BY <1>1, <1>4 DEF Sessions
    <2> SUFFICES Fits(t, b)
      OBVIOUS
    <2> HIDE DEF t
    <2> QED
      BY <1>1, <1>2, <2>1, SameFits
  <1> QED
    BY <1>3, <1>4

\* A write through the open streams.
LEMMA PutOpenFits ==
  ASSUME NEW s, Fits(s, curBoard), FilesOpen(s.rd), NEW c \in Conference, c.there,
         ~s.rd.own.there => InRange(c) /\ s.rd.num \in Positions(c)
  PROVE  /\ Fits(PutOpen(s, c), curBoard) /\ PutOpen(s, c).rd.fh = s.rd.fh
         /\ curBoard \in Board => OpenConf(PutOpen(s, c)) = c
  <1>1. s \in Sessions
    BY DEF Fits
  <1>2. CASE s.rd.own.there
    <2> DEFINE t == [s EXCEPT !.rd.own = c]
    <2>1. t = PutOpen(s, c) /\ t \in Sessions /\ t.disk = s.disk /\ t.rd.own = c /\ t.rd.fh = s.rd.fh
      BY <1>1, <1>2 DEF PutOpen, Sessions, Reader
    <2> HIDE DEF t
    <2> QED
      BY <2>1 DEF Fits, InRanges, Anchored, OpenConf
  <1>3. CASE ~s.rd.own.there
    <2>1. PutOpen(s, c) = [s EXCEPT !.disk[curBoard][s.rd.fh] = c]
      BY <1>3 DEF PutOpen
    <2>2. [s EXCEPT !.disk[curBoard][s.rd.fh] = c].rd = s.rd
      BY <1>1 DEF Sessions
    <2>3. s.rd.fh \in Numbers
      BY <1>1 DEF Sessions, Reader, FilesOpen
    <2>4. curBoard \in Board => PutOpen(s, c).disk[curBoard][s.rd.fh] = c
      BY <1>1, <2>1, <2>3 DEF Sessions
    <2>5. curBoard \in Board => OpenConf(PutOpen(s, c)) = c
      BY <1>3, <2>1, <2>2, <2>4 DEF OpenConf
    <2>6. Fits([s EXCEPT !.disk[curBoard][s.rd.fh] = c], curBoard)
      BY <1>3, PutFits
    <2> QED
      BY <2>1, <2>2, <2>5, <2>6
  <1> QED
    BY <1>2, <1>3

LEMMA CloseFits ==
  ASSUME NEW s \in Sessions, InRanges(s), NEW b
  PROVE  /\ Fits(CloseFiles(s), b) /\ ~FilesOpen(CloseFiles(s).rd)
         /\ CloseFiles(s).disk = s.disk
  <1>1. CloseFiles(s) \in Sessions
    BY CloseType
  <1>2. CloseFiles(s).disk = s.disk /\ CloseFiles(s).rd.fh = NoFile
    BY DEF CloseFiles, FilesOpen, Sessions, Reader
  <1> QED
    BY <1>1, <1>2, ClosedFits DEF InRanges, FilesOpen

LEMMA CrashFits ==
  ASSUME NEW b, NEW s, Fits(s, b)
  PROVE  Fits(Crash(s), b)
  <1>1. Crash(s) \in Sessions /\ Crash(s).disk = s.disk /\ Crash(s).rd = s.rd
    BY DEF Fits, Sessions, Crash
  <1> QED
    BY <1>1, SameFits

\* The fields of the reader that Fits does not depend on.
LEMMA FieldFits ==
  ASSUME NEW b, NEW s, Fits(s, b), NEW x \in Int
  PROVE  /\ Fits([s EXCEPT !.rd.pos = x], b) /\ Fits([s EXCEPT !.rd.last = x], b)
         /\ Fits([s EXCEPT !.rd.tot = x], b)
         /\ Fits([s EXCEPT !.rd.hdr = x], b) /\ Fits([s EXCEPT !.rd.body = x], b)
         /\ x \in Nat => Fits([s EXCEPT !.rd.conf = x], b)
         /\ \A d \in BOOLEAN : Fits([s EXCEPT !.rd.dead = d], b) /\ Fits([s EXCEPT !.rd.first = d], b)
  <1>1. s \in Sessions
    BY DEF Fits
  <1>2. ASSUME NEW t \in {[s EXCEPT !.rd.pos = x], [s EXCEPT !.rd.last = x],
                          [s EXCEPT !.rd.tot = x], [s EXCEPT !.rd.hdr = x],
                          [s EXCEPT !.rd.body = x]}
        PROVE  Fits(t, b)
    <2>1. t \in Sessions
      BY <1>1, IntFieldType
    <2>2. /\ t.disk = s.disk /\ t.rd.fh = s.rd.fh
          /\ t.rd.own = s.rd.own /\ t.rd.num = s.rd.num
      BY <1>1 DEF Sessions, Reader
    <2> QED
      BY <2>1, <2>2, SameFits
  <1>3. ASSUME x \in Nat PROVE Fits([s EXCEPT !.rd.conf = x], b)
    <2> DEFINE t == [s EXCEPT !.rd.conf = x]
    <2>1. /\ t \in Sessions /\ t.disk = s.disk /\ t.rd.fh = s.rd.fh
          /\ t.rd.own = s.rd.own /\ t.rd.num = s.rd.num
      BY <1>1, <1>3 DEF Sessions, Reader
    <2> SUFFICES Fits(t, b)
      OBVIOUS
    <2> HIDE DEF t
    <2> QED
      BY <2>1, SameFits
  <1>4. ASSUME NEW d \in BOOLEAN, NEW t \in {[s EXCEPT !.rd.dead = d], [s EXCEPT !.rd.first = d]}
        PROVE  Fits(t, b)
    <2>1. /\ t \in Sessions /\ t.disk = s.disk /\ t.rd.fh = s.rd.fh
          /\ t.rd.own = s.rd.own /\ t.rd.num = s.rd.num
      BY <1>1 DEF Sessions, Reader
    <2> QED
      BY <2>1, SameFits
  <1> QED
    BY <1>2, <1>3, <1>4

LEMMA GetConfFits ==
  ASSUME NEW b \in Tables, NEW s, Fits(s, b), NEW t \in Tables, NEW i \in Nat
  PROVE  Fits(GetConf(s, b, t, i), b)
  <1> DEFINE f == ConfNumbers(t)[i]
             c == s.disk[b][f]
             r == [conf |-> i, fh |-> f, dead |-> FALSE,
                   pos |-> IF c.last = VIRGINDX THEN 0 ELSE c.last,
                   last |-> c.last, num |-> 0, tot |-> c.n, first |-> FALSE,
                   hdr |-> NoMsg, body |-> NoMsg, own |-> Absent]
             u == [CloseFiles(s) EXCEPT !.rd = r]
  <1>1. s \in Sessions /\ GetConf(s, b, t, i) \in Sessions
    BY GetConfType DEF Fits
  <1> DEFINE zero == 0
  <1>2. \/ GetConf(s, b, t, i) \in {s, Crash(s), [s EXCEPT !.rd.tot = zero]}
        \/ /\ GetConf(s, b, t, i) = u
           /\ b \in Board /\ i \in 0 .. LastConf(t) /\ c.there /\ c.n # 0
    BY TableType DEF GetConf, Tables
  <1>3. zero \in Int
    OBVIOUS
  <1> HIDE DEF zero
  <1>4. CASE GetConf(s, b, t, i) \in {s, Crash(s), [s EXCEPT !.rd.tot = zero]}
    <2>1. Fits(Crash(s), b) /\ Fits([s EXCEPT !.rd.tot = zero], b)
      BY <1>3, FieldFits, CrashFits
    <2> QED
      BY <1>4, <2>1
  <1>5. CASE /\ GetConf(s, b, t, i) = u
             /\ b \in Board /\ i \in 0 .. LastConf(t) /\ c.there /\ c.n # 0
    <2>1. f \in Numbers /\ c \in Conference
      <3>1. f \in Numbers
        BY <1>5, TableType
      <3> HIDE DEF f
      <3> QED
        BY <1>1, <1>5, <3>1 DEF Sessions
    <2>2. CloseFiles(s) \in Sessions /\ CloseFiles(s).disk = s.disk
      BY <1>1, CloseFits, CloseType DEF Fits
    <2>3. u.rd = r /\ u.disk = s.disk
      <3> HIDE DEF r
      <3> QED
        BY <2>2 DEF Sessions
    <2>4. r.fh = f /\ r.num = 0
      OBVIOUS
    <2>5. 0 \in Positions(c)
      BY <1>5, <2>1 DEF Positions, Conference
    <2>6. Anchored(u, b)
      <3> HIDE DEF u, r, f
      <3> QED
        BY <1>5, <2>3, <2>4, <2>5 DEF Anchored
    <2>7. InRanges(u)
      <3> HIDE DEF u
      <3> QED
        BY <2>3 DEF Fits, InRanges
    <2> QED
      BY <1>1, <1>5, <2>6, <2>7 DEF Fits
  <1> QED
    BY <1>2, <1>4, <1>5

LEMMA UpdateConfFits ==
  ASSUME NEW s, Fits(s, curBoard), NEW reset \in BOOLEAN
  PROVE  Fits(UpdateConf(s, reset), curBoard)
  <1> DEFINE m == s.rd.num
             one == 1
             t == [s EXCEPT !.rd.pos = m]
             c == [OpenConf(s) EXCEPT !.last = m]
  <1>1. s \in Sessions /\ m \in Int /\ one \in Int
    BY DEF Fits, Sessions, Reader
  <1>2. \/ UpdateConf(s, reset) \in {s, [s EXCEPT !.rd.pos = one]}
        \/ UpdateConf(s, reset) = PutOpen(t, c) /\ FilesOpen(s.rd)
    BY DEF UpdateConf
  <1>3. /\ Fits(t, curBoard) /\ t.rd.fh = s.rd.fh /\ t.rd.own = s.rd.own
        /\ t.rd.num = m
    <2>1. Fits(t, curBoard)
      <3> HIDE DEF m
      <3> QED
        BY <1>1, FieldFits
    <2> QED
      BY <1>1, <2>1 DEF Sessions, Reader
  <1>4. Fits([s EXCEPT !.rd.pos = one], curBoard)
    <2> HIDE DEF one
    <2> QED
      BY <1>1, FieldFits
  <1>5. ASSUME FilesOpen(s.rd)
        PROVE  /\ c \in Conference /\ c.there
               /\ ~s.rd.own.there => InRange(c) /\ m \in Positions(c)
    <2> DEFINE o == OpenConf(s)
    <2>1. /\ o \in Conference /\ o.there
          /\ ~s.rd.own.there => InRange(o) /\ m \in Positions(o)
      <3>1. CASE s.rd.own.there
        BY <1>1, <3>1 DEF OpenConf, Sessions, Reader
      <3>2. CASE ~s.rd.own.there
        <4>1. curBoard \in Board /\ s.rd.fh \in Numbers
          BY <1>1, <1>5, <3>2 DEF Fits, Anchored, FilesOpen, Sessions, Reader
        <4>2. o \in Conference
          BY <1>1, <1>5, <4>1, OpenType
        <4> QED
          BY <1>5, <3>2, <4>1, <4>2 DEF OpenConf, Fits, Anchored, InRanges
      <3> QED
        BY <3>1, <3>2
    <2> HIDE DEF o, m
    <2>2. c = [o EXCEPT !.last = m]
      BY DEF o
    <2>3. c \in Conference /\ c.there /\ c.n = o.n /\ c.killed = o.killed /\ c.last = m
      BY <1>1, <2>1, <2>2 DEF Conference
    <2>4. ~s.rd.own.there => m \in VIRGINDX .. o.n - 1
      BY <2>1 DEF Positions, VIRGINDX, Conference
    <2> HIDE DEF c
    <2> QED
      BY <2>1, <2>3, <2>4 DEF InRange, Positions
  <1> HIDE DEF t, c, m, one
  <1>6. FilesOpen(s.rd) => Fits(PutOpen(t, c), curBoard)
    BY <1>3, <1>5, PutOpenFits DEF FilesOpen
  <1> QED
    BY <1>2, <1>4, <1>6

LEMMA ChConfFits ==
  ASSUME NEW s, Fits(s, curBoard), curBoard \in Tables, tbl \in Tables,
         active \in [0 .. LastConf(tbl) -> BOOLEAN], NEW i
  PROVE  Fits(ChConf(s, i), curBoard)
  <1>1. i \in DOMAIN active => i \in Nat
    BY TableType
  <1>2. Fits(UpdateConf(s, FALSE), curBoard)
    BY UpdateConfFits
  <1> QED
    BY <1>1, <1>2, GetConfFits DEF ChConf

\* The record read becomes the one that the pointer may be moved to.
LEMMA ReadRecordFits ==
  ASSUME NEW s, Fits(s, curBoard), curBoard \in Board, FilesOpen(s.rd),
         NEW k \in Positions(OpenConf(s)), NEW quick \in BOOLEAN
  PROVE  Fits(ReadRecord(s, k, quick), curBoard)
  <1> DEFINE t == ReadRecord(s, k, quick)
  <1>1. s \in Sessions /\ OpenConf(s) \in Conference /\ k \in Int
    BY OpenType DEF Fits, Positions, Conference
  <1>2. t \in Sessions
    BY <1>1, ReadRecordType
  <1>3. CASE s.rd.dead
    BY <1>3, CrashFits DEF ReadRecord
  <1>4. CASE ~s.rd.dead
    <2>1. /\ t.disk = s.disk /\ t.rd.fh = s.rd.fh
          /\ t.rd.own = s.rd.own /\ t.rd.num = k
      BY <1>1, <1>4 DEF ReadRecord, Sessions, Reader
    <2>2. InRanges(t) /\ Anchored(t, curBoard)
      <3> HIDE DEF t
      <3> QED
        BY <2>1 DEF Fits, InRanges, Anchored, OpenConf, FilesOpen
    <2> QED
      BY <1>2, <2>2 DEF Fits
  <1> QED
    BY <1>3, <1>4

LEMMA SeekNumFits ==
  ASSUME NEW s, Fits(s, curBoard), curBoard \in Board, NEW m \in Int
  PROVE  Fits(SeekNum(s, m), curBoard)
  <1> DEFINE k == m - 1
  <1>1. \/ SeekNum(s, m) \in {s, Crash(s), [s EXCEPT !.rd.pos = k]}
        \/ /\ SeekNum(s, m) = ReadRecord(s, k, FALSE)
           /\ FilesOpen(s.rd) /\ m \in 1 .. s.rd.tot /\ ~(m > OpenConf(s).n)
    BY DEF SeekNum
  <1>2. k \in Int
    OBVIOUS
  <1>3. FilesOpen(s.rd) /\ m \in 1 .. s.rd.tot /\ ~(m > OpenConf(s).n)
          => k \in Positions(OpenConf(s))
    <2>1. FilesOpen(s.rd) => OpenConf(s) \in Conference
      BY OpenType DEF Fits
    <2> QED
      BY <2>1 DEF Positions, Conference
  <1> HIDE DEF k
  <1>4. Fits([s EXCEPT !.rd.pos = k], curBoard) /\ Fits(Crash(s), curBoard)
    BY <1>2, FieldFits, CrashFits
  <1> QED
    BY <1>1, <1>3, <1>4, ReadRecordFits

LEMMA ReadAtFits ==
  ASSUME NEW s, Fits(s, curBoard), NEW mode, curBoard \in Board, FilesOpen(s.rd),
         Target(s, mode) \in Positions(OpenConf(s))
  PROVE  Fits(ReadAt(s, mode), curBoard)
  <1> DEFINE k == Target(s, mode)
             o == OpenConf(s)
             after == CASE mode = "kill" -> IF k \in o.killed THEN o.killed \ {k} ELSE o.killed \cup {k}
                        [] mode = "nuke" -> o.killed \cup {k}
                        [] OTHER         -> o.killed \ {k}
             c == [o EXCEPT !.killed = after]
  <1>1. s \in Sessions /\ o \in Conference /\ k \in Positions(o)
    BY OpenType DEF Fits
  <1>2. after \in SUBSET (o.killed \cup {k})
    <2> HIDE DEF k, o
    <2> QED
      OBVIOUS
  <1>3. ChangeStatus(s, k, mode) = PutOpen(s, c)
    BY DEF ChangeStatus
  <1>4. o.there /\ (~s.rd.own.there => InRange(o) /\ s.rd.num \in Positions(o))
    <2>1. s.rd.fh \in Numbers
      BY <1>1 DEF FilesOpen, Sessions, Reader
    <2> HIDE DEF k
    <2> QED
      BY <1>1, <2>1 DEF OpenConf, Fits, Anchored, InRanges
  <1> HIDE DEF k, o, after
  <1>5. /\ c \in Conference /\ c.n = o.n /\ c.last = o.last /\ c.there = o.there
        /\ c.killed = after
    <2>1. after \in SUBSET Nat
      BY <1>1, <1>2 DEF Conference, Positions
    <2> QED
      BY <1>1, <2>1 DEF Conference
  <1> HIDE DEF c
  <1>6. Positions(c) = Positions(o) /\ (InRange(o) => InRange(c))
    BY <1>1, <1>2, <1>5 DEF Positions, InRange
  <1>7. /\ Fits(PutOpen(s, c), curBoard) /\ OpenConf(PutOpen(s, c)) = c
        /\ FilesOpen(PutOpen(s, c).rd)
    BY <1>4, <1>5, <1>6, PutOpenFits DEF FilesOpen
  <1> DEFINE t == IF mode \in {"kill", "nuke", "private"} /\ ~s.rd.dead THEN PutOpen(s, c) ELSE s
  <1>8. ReadAt(s, mode) = ReadRecord(t, k, FALSE)
    BY <1>3 DEF ReadAt, k
  <1>9. Fits(t, curBoard) /\ FilesOpen(t.rd) /\ k \in Positions(OpenConf(t))
    BY <1>1, <1>6, <1>7 DEF o
  <1> HIDE DEF t
  <1> QED
    BY <1>8, <1>9, ReadRecordFits

LEMMA ReadReplyFits ==
  ASSUME NEW s, Fits(s, curBoard), NEW mode, curBoard \in Board, FilesOpen(s.rd)
  PROVE  Fits(ReadReply(s, mode), curBoard)
  BY ReadAtFits DEF ReadReply

LEMMA ShowReplyFits ==
  ASSUME NEW s, Fits(s, curBoard), NEW mode, curBoard \in Board,
         FilesOpen(s.rd) \/ ~InReplies
  PROVE  Fits(ShowReply(s, mode), curBoard)
  <1> DEFINE count == s.rd.tot + 1
             t == [s EXCEPT !.rd.tot = count]
             u == IF mode = "change" THEN ReadReply(t, "nuke") ELSE t
  <1>1. ShowReply(s, mode) \in {s, ReadReply(t, "cross"), SeekNum(u, u.rd.tot)}
        /\ (~InReplies => ShowReply(s, mode) = s)
    BY DEF ShowReply
  <1>2. s \in Sessions /\ count \in Int
    BY DEF Fits, Sessions, Reader
  <1>3. t.rd.fh = s.rd.fh
    BY <1>2 DEF Sessions, Reader
  <1> HIDE DEF count
  <1>4. Fits(t, curBoard)
    BY <1>2, FieldFits
  <1> HIDE DEF t
  <1>5. InReplies => Fits(ReadReply(t, "cross"), curBoard) /\ Fits(u, curBoard)
    BY <1>3, <1>4, ReadReplyFits DEF FilesOpen
  <1> HIDE DEF u
  <1>6. InReplies => Fits(SeekNum(u, u.rd.tot), curBoard)
    <2>1. Fits(u, curBoard) => u.rd.tot \in Int
      BY DEF Fits, Sessions, Reader
    <2> QED
      BY <1>5, <2>1, SeekNumFits
  <1> QED
    BY <1>1, <1>5, <1>6

LEMMA PackedFits ==
  ASSUME NEW s, Fits(s, curBoard), NEW answer, curBoard \in Tables
  PROVE  Fits(Packed(s, answer), curBoard)
  <1> DEFINE o == s.disk[curBoard][REPL_CONF]
             c == Opened(o)
             t == [s EXCEPT !.disk[curBoard][REPL_CONF] = c]
             u == [[t EXCEPT !.rd.hdr = NoMsg] EXCEPT !.rd.body = NoMsg]
  <1>1. Packed(s, answer) \in {s, t, u}
    BY DEF Packed
  <1>2. curBoard \in Board /\ REPL_CONF \in Numbers => o \in Conference /\ InRange(o)
    BY DEF Fits, InRanges, Sessions
  <1> HIDE DEF o
  <1>3. curBoard \in Board /\ REPL_CONF \in Numbers => c \in Conference /\ InRange(c)
    BY <1>2, ConferenceType, ExtendedInRange
  <1>4. FilesOpen(s.rd) /\ ~s.rd.own.there /\ REPL_CONF = s.rd.fh
          => c.there /\ s.rd.num \in Positions(c)
    BY DEF Fits, Anchored, Opened, o
  <1> HIDE DEF c
  <1>5. Fits(t, curBoard)
    BY <1>3, <1>4, PutFits
  <1> HIDE DEF t
  <1>6. Fits(u, curBoard)
    <2>1. NoMsg \in Int
      BY DEF NoMsg
    <2>2. Fits([t EXCEPT !.rd.hdr = NoMsg], curBoard)
      BY <1>5, <2>1, FieldFits
    <2> QED
      BY <2>1, <2>2, FieldFits
  <1> QED
    BY <1>1, <1>5, <1>6

LEMMA LeavingFits ==
  ASSUME Fits(Session, curBoard), NEW answer, curBoard \in Tables
  PROVE  Fits(Leaving(answer), curBoard)
  <1>1. Fits(Packed(Session, answer), curBoard)
    BY PackedFits
  <1> QED
    BY <1>1, UpdateConfFits DEF Leaving

\* A packet adds messages after those that are there.
LEMMA TossedFits ==
  ASSUME NEW s, Fits(s, curBoard), NEW b \in Board,
         NEW new \in [Regular(b) -> Nat], NEW mine \in Nat
  PROVE  Fits(Tossed(s, b, new, mine), curBoard)
  <1> DEFINE t == Tossed(s, b, new, mine)
  <1>1. s \in Sessions /\ t \in Sessions
    BY TossedType DEF Fits
  <1>2. t.rd = s.rd /\ \A e \in Board : e # b => t.disk[e] = s.disk[e]
    BY <1>1 DEF Tossed, Sessions
  <1>3. ASSUME NEW f \in Numbers
        PROVE  \/ t.disk[b][f] = s.disk[b][f]
               \/ \E k \in Nat : t.disk[b][f] = Extended(s.disk[b][f], k)
               \/ t.disk[b][f] = Absent /\ s.disk[b][f].n = 0
    <2> DEFINE o == s.disk[b][f]
               after == CASE f \in Regular(b) /\ new[f] > 0 -> Extended(o, new[f])
                          [] f = PERS_CONF -> IF mine > 0 THEN Extended(o, mine)
                                              ELSE IF o.n = 0 THEN Absent ELSE o
                          [] OTHER -> o
    <2>1. t.disk[b][f] = after
      BY <1>1, <1>3 DEF Tossed, Sessions
    <2>2. \/ after = o
          \/ f \in Regular(b) /\ after = Extended(o, new[f])
          \/ after = Extended(o, mine)
          \/ after = Absent /\ o.n = 0
      <3> HIDE DEF o
      <3> QED
        OBVIOUS
    <2>3. f \in Regular(b) => new[f] \in Nat
      OBVIOUS
    <2> HIDE DEF o, after, t
    <2> QED
      BY <2>1, <2>2, <2>3 DEF o
  <1> HIDE DEF t
  <1>4. ASSUME NEW f \in Numbers
        PROVE  /\ InRange(t.disk[b][f])
               /\ s.disk[b][f].there /\ Positions(s.disk[b][f]) # {}
                    => /\ t.disk[b][f].there
                       /\ Positions(s.disk[b][f]) \subseteq Positions(t.disk[b][f])
    <2> DEFINE o == s.disk[b][f]
               n == t.disk[b][f]
    <2>1. o \in Conference /\ InRange(o)
      BY <1>1 DEF Fits, InRanges, Sessions
    <2>2. \/ n = o
          \/ \E k \in Nat : n = Extended(o, k)
          \/ n = Absent /\ o.n = 0
      BY <1>3
    <2> HIDE DEF o, n
    <2>3. CASE n = o
      BY <2>1, <2>3 DEF o, n
    <2>4. ASSUME NEW k \in Nat, n = Extended(o, k)
          PROVE  InRange(n) /\ n.there /\ Positions(o) \subseteq Positions(n)
      <3>1. InRange(n)
        BY <2>1, <2>4, ExtendedInRange
      <3>2. n.there /\ n.n = o.n + k /\ o.n \in Nat
        BY <2>1, <2>4 DEF Extended, Conference
      <3> QED
        BY <3>1, <3>2 DEF Positions
    <2>5. ASSUME n = Absent, o.n = 0
          PROVE  InRange(n) /\ Positions(o) = {}
      BY <2>5 DEF Absent, InRange, Positions, VIRGINDX
    <2> QED
      BY <2>2, <2>3, <2>4, <2>5 DEF o, n
  <1>5. InRanges(t)
    BY <1>2, <1>4 DEF Fits, InRanges
  <1>6. Anchored(t, curBoard)
    <2> SUFFICES ASSUME FilesOpen(s.rd), ~s.rd.own.there
                 PROVE  /\ curBoard \in Board /\ t.disk[curBoard][s.rd.fh].there
                        /\ s.rd.num \in Positions(t.disk[curBoard][s.rd.fh])
      BY <1>2 DEF Anchored
    <2>1. /\ curBoard \in Board /\ s.rd.fh \in Numbers /\ s.disk[curBoard][s.rd.fh].there
          /\ s.rd.num \in Positions(s.disk[curBoard][s.rd.fh])
      BY <1>1 DEF Fits, Anchored, Sessions, Reader, FilesOpen
    <2>2. CASE curBoard = b
      BY <1>4, <2>1, <2>2
    <2>3. CASE curBoard # b
      BY <1>2, <2>1, <2>3
    <2> QED
      BY <2>2, <2>3
  <1> QED
    BY <1>1, <1>5, <1>6 DEF Fits, t

----------------------------------------------------------------------------
(* Purging.                                                                *)

LEMMA PurgeAdjustFits ==
  ASSUME NEW s, Fits(s, curBoard), NEW i
  PROVE  Fits(PurgeAdjust(s, i), curBoard) /\ PurgeAdjust(s, i).disk = s.disk
  <1> DEFINE t == PurgeAdjust(s, i)
             u == CloseFiles(s)
  <1>1. s \in Sessions /\ t \in Sessions /\ InRanges(s)
    BY PurgeAdjustType DEF Fits
  <1>2. CASE i # s.rd.conf
    BY <1>2 DEF PurgeAdjust
  <1>3. CASE i = s.rd.conf
    <2>1. u \in Sessions /\ u.disk = s.disk /\ ~FilesOpen(u.rd)
      BY <1>1, CloseFits DEF Fits
    <2> DEFINE first == u.rd.first /\ ~FilesOpen(s.rd)
               zero == 0
    <2>2. t = [u EXCEPT !.rd.last = zero, !.rd.num = zero, !.rd.tot = zero, !.rd.first = first]
      BY <1>3 DEF PurgeAdjust
    <2> HIDE DEF u, first, zero, t
    <2>3. t.disk = u.disk /\ t.rd.fh = u.rd.fh
      BY <2>1, <2>2 DEF Sessions, Reader
    <2>4. InRanges(t) /\ ~FilesOpen(t.rd)
      BY <1>1, <2>1, <2>3 DEF InRanges, FilesOpen
    <2> QED
      BY <1>1, <2>1, <2>3, <2>4, ClosedFits DEF t
  <1> QED
    BY <1>2, <1>3

\* What is unlinked under the reader's streams is left to them; a conference
\* that is not rewritten stays as it is.
LEMMA PurgeConfFits ==
  ASSUME TypeOK, Loaded, Fits(Session, curBoard), NEW i \in 0 .. LastConf(tbl),
         NEW after \in Conference, InRange(after), NEW clips \in BOOLEAN,
         ~clips /\ after.there => after = disk[curBoard][ConfNumbers(tbl)[i]]
  PROVE  Fits(PurgeConf(i, after, clips), curBoard)
  <1> DEFINE f == ConfNumbers(tbl)[i]
             s == PurgeAdjust(Session, i)
             unlinked == s.rd.fh = f /\ ~s.rd.own.there /\ (clips \/ ~after.there)
             own  == IF unlinked THEN s.disk[curBoard][f] ELSE s.rd.own
             hdr  == IF clips THEN NoMsg ELSE s.rd.hdr
             body == IF clips THEN NoMsg ELSE s.rd.body
             t1 == [s EXCEPT !.rd.own = own]
             t2 == [t1 EXCEPT !.disk[curBoard][f] = after]
             t  == [[t2 EXCEPT !.rd.hdr = hdr] EXCEPT !.rd.body = body]
  <1>1. PurgeConf(i, after, clips) \in {GetConf(t, curBoard, tbl, i), t}
    BY DEF PurgeConf
  <1>2. curBoard \in Board /\ tbl \in Tables /\ f \in Numbers /\ i \in Nat
    BY TableType DEF TypeOK, Loaded, Tables
  <1>3. s \in Sessions /\ Fits(s, curBoard) /\ s.disk = disk
    BY PurgeAdjustFits, SessionType DEF Fits
  <1>4. /\ own \in Conference /\ hdr \in Int /\ body \in Int
        /\ unlinked => own.there
        /\ ~unlinked => own = s.rd.own
    <2>1. s.disk[curBoard][f] \in Conference /\ s.rd \in Reader
      BY <1>2, <1>3 DEF Sessions
    <2>2. unlinked => s.disk[curBoard][f].there
      <3>1. s.rd.fh = f => FilesOpen(s.rd)
        BY <1>2, NumbersType DEF FilesOpen, NoFile
      <3> HIDE DEF s, f
      <3> QED
        BY <1>3, <3>1 DEF Fits, Anchored
    <2> HIDE DEF s, f
    <2> QED
      BY <2>1, <2>2 DEF Reader, NoMsg
  <1>5. ~unlinked /\ s.rd.fh = f /\ ~s.rd.own.there => after = s.disk[curBoard][f]
    BY <1>3
  <1> HIDE DEF f, s, unlinked, own, hdr, body
  <1>6. /\ t1 \in Sessions /\ t1.disk = s.disk /\ t1.rd.fh = s.rd.fh
        /\ t1.rd.num = s.rd.num /\ t1.rd.own = own
    BY <1>3, <1>4 DEF Sessions, Reader
  <1> HIDE DEF t1
  <1>7. Fits(t1, curBoard)
    BY <1>3, <1>4, <1>6 DEF Fits, InRanges, Anchored, FilesOpen
  <1>8. FilesOpen(t1.rd) /\ ~t1.rd.own.there /\ f = t1.rd.fh
          => after.there /\ t1.rd.num \in Positions(after)
    BY <1>3, <1>4, <1>5, <1>6 DEF Fits, Anchored, FilesOpen
  <1>9. Fits(t2, curBoard)
    BY <1>7, <1>8, PutFits
  <1> HIDE DEF t2
  <1>10. Fits(t, curBoard)
    <2>1. Fits([t2 EXCEPT !.rd.hdr = hdr], curBoard)
      BY <1>4, <1>9, FieldFits
    <2> QED
      BY <1>4, <2>1, FieldFits
  <1> HIDE DEF t
  <1> QED
    BY <1>1, <1>2, <1>10, GetConfFits DEF Tables

----------------------------------------------------------------------------
(* The commands.                                                           *)

\* What PointerInv says of the state, and what a step has to show.
LEMMA PointerState ==
  ASSUME PointerInv
  PROVE  /\ TypeInv /\ TypeOK /\ Session \in Sessions /\ Fits(Session, curBoard)
         /\ curBoard \in Tables /\ tbl \in Tables /\ (Loaded => curBoard \in Board)
         /\ active \in [0 .. LastConf(tbl) -> BOOLEAN]
         /\ Session.rd = rd /\ Session.disk = disk
  BY SessionType DEF PointerInv, TypeInv, TypeOK

LEMMA GotoFits ==
  ASSUME NEW s, Fits(s, curBoard'), NEW label, Goto(s, label)
  PROVE  Fits(Session, curBoard)'
  <1> DEFINE t == [disk |-> disk', rd |-> rd', crash |-> FALSE]
  <1>1. s \in Sessions /\ s.disk = t.disk /\ s.rd = t.rd
    BY DEF Goto, Fits
  <1>2. t \in Sessions
    BY <1>1 DEF Sessions
  <1>3. Session' = t
    BY DEF Session
  <1> HIDE DEF t
  <1>4. Fits(t, curBoard')
    BY <1>1, <1>2, SameFits
  <1> QED
    BY <1>3, <1>4

LEMMA KeptFits ==
  ASSUME PointerInv, curBoard' = curBoard, NEW s, Fits(s, curBoard), NEW label, Goto(s, label)
  PROVE  Fits(Session, curBoard)'
  BY GotoFits

LEMMA ReadingFits ==
  ASSUME PointerInv, NEW mode, ReadNext(mode) \/ Scan(mode) \/ GoToNum
  PROVE  Fits(Session, curBoard)'
  <1>1. /\ Fits(Session, curBoard) /\ curBoard \in Board /\ Session.rd = rd
        /\ curBoard' = curBoard /\ TypeOK
    BY PointerState DEF ReadNext, Scan, GoToNum, Prompt, table
  <1>2. CASE ReadNext(mode)
    <2>1. CASE FilesOpen(rd) /\ Target(Session, mode) \in Positions(OpenConf(Session))
               /\ Goto(ReadAt(Session, mode), "shell")
      BY <1>1, <2>1, ReadAtFits, KeptFits
    <2>2. CASE Goto(Session, "next")
      BY <1>1, <2>2, KeptFits
    <2> QED
      BY <1>2, <2>1, <2>2 DEF ReadNext
  <1>3. CASE GoToNum
    <2>1. PICK m \in 1 .. MaxMsgs : Goto(SeekNum(Session, m), "shell")
      BY <1>3 DEF GoToNum
    <2>2. m \in Int
      BY SessionAssumption
    <2> QED
      BY <1>1, <2>1, <2>2, SeekNumFits, KeptFits
  <1>4. CASE Scan(mode)
    <2> DEFINE quick == mode = "qscan"
               read(k) == IF k < 0 THEN Session ELSE ReadRecord(Session, k, quick)
               m(k) == IF read(k).rd.num = 0 THEN 1 ELSE read(k).rd.num
               seek(k) == SeekNum(read(k), m(k))
               zero == 0
               back(k) == [seek(k) EXCEPT !.rd.pos = zero]
    <2>1. PICK k \in -1 .. MaxMsgs - 1 :
            /\ IF FilesOpen(rd) /\ rd.pos < OpenConf(Session).n
               THEN k \in rd.pos .. OpenConf(Session).n - 1 ELSE k = -1
            /\ \/ Goto(read(k), "shell") \/ Goto(seek(k), "shell") \/ Goto(back(k), "shell")
      BY <1>4 DEF Scan
    <2>2. k < 0 \/ (FilesOpen(rd) /\ k \in Positions(OpenConf(Session)))
      <3>1. FilesOpen(rd) => OpenConf(Session) \in Conference
        BY <1>1, OpenType DEF Fits
      <3>2. rd.pos \in Int /\ k \in Int
        BY <1>1, <2>1, SessionAssumption DEF TypeOK, Reader
      <3> QED
        BY <2>1, <3>1, <3>2 DEF Positions, Conference
    <2>3. Fits(read(k), curBoard)
      <3>1. quick \in BOOLEAN
        OBVIOUS
      <3> HIDE DEF quick
      <3>2. ~(k < 0) => Fits(ReadRecord(Session, k, quick), curBoard)
        BY <1>1, <2>2, <3>1, ReadRecordFits
      <3> QED
        BY <1>1, <3>2
    <2>4. m(k) \in Int /\ zero \in Int
      <3>1. read(k).rd.num \in Int
        BY <2>3 DEF Fits, Sessions, Reader
      <3> HIDE DEF read
      <3> QED
        BY <3>1
    <2> HIDE DEF read, m, zero
    <2>5. Fits(seek(k), curBoard)
      BY <1>1, <2>3, <2>4, SeekNumFits
    <2> HIDE DEF seek
    <2>6. Fits(back(k), curBoard)
      BY <2>4, <2>5, FieldFits
    <2> HIDE DEF back
    <2> QED
      BY <1>1, <2>1, <2>3, <2>5, <2>6, KeptFits
  <1> QED
    BY <1>2, <1>3, <1>4

LEMMA ConferenceFits ==
  ASSUME PointerInv, Reset \/ Join \/ NextConf \/ AutoJoin \/ AutoJoinTurn \/ AutoJoinEnd \/ ListConf
  PROVE  Fits(Session, curBoard)'
  <1>1. /\ Fits(Session, curBoard) /\ curBoard' = curBoard
        /\ Fits(UpdateConf(Session, TRUE), curBoard)
    BY PointerState, UpdateConfFits
       DEF Reset, Join, NextConf, AutoJoin, AutoJoinTurn, AutoJoinEnd, ListConf, table
  <1>2. \A i : Fits(ChConf(Session, i), curBoard)
    BY PointerState, ChConfFits
  <1>3. CASE ListConf
    <2>1. Session' = Session
      BY <1>3 DEF ListConf, Session
    <2> QED
      BY <1>1, <2>1
  <1>4. CASE Reset \/ Join \/ NextConf \/ AutoJoin \/ AutoJoinTurn \/ AutoJoinEnd
    <2>1. \/ \E label : Goto(Session, label)
          \/ \E label : Goto(UpdateConf(Session, TRUE), label)
          \/ \E i, label : Goto(ChConf(Session, i), label)
      BY <1>4 DEF Reset, Join, NextConf, AutoJoin, AutoJoinTurn, AutoJoinEnd
    <2> QED
      BY <1>1, <1>2, <2>1, KeptFits
  <1> QED
    BY <1>3, <1>4

LEMMA PurgingFits ==
  ASSUME PointerInv, Purge \/ PurgeTurn \/ PurgeEnd
  PROVE  Fits(Session, curBoard)'
  <1>1. /\ Fits(Session, curBoard) /\ curBoard' = curBoard
        /\ Fits(UpdateConf(Session, FALSE), curBoard)
    BY PointerState, UpdateConfFits DEF Purge, PurgeTurn, PurgeEnd, table
  <1>2. CASE Purge
    <2>1. PICK s \in {Session, UpdateConf(Session, FALSE)} : Goto(s, "purge")
      BY <1>2 DEF Purge
    <2> QED
      BY <1>1, <2>1, KeptFits
  <1>3. CASE PurgeTurn
    <2> DEFINE i == lp.i
               c == disk[curBoard][ConfNumbers(tbl)[i]]
    <2>1. Loaded /\ i \in 0 .. LastConf(tbl) /\ TypeOK
      BY <1>3, PointerState, TableType DEF PurgeTurn, TypeInv, TypeOK
    <2>2. c \in Conference /\ InRange(c)
      <3>1. curBoard \in Board /\ ConfNumbers(tbl)[i] \in Numbers
        BY <2>1, PointerState, TableType
      <3> QED
        BY <3>1, <2>1, PointerState DEF TypeOK, Fits, InRanges
    <2>3. CASE Goto(Session, "purge")
      BY <1>1, <2>3, KeptFits
    <2>4. CASE Goto(PurgeConf(i, Absent, FALSE), "purge")
      <3>1. InRange(Absent) /\ ~Absent.there /\ Absent \in Conference
        BY ConferenceType DEF InRange, Absent, Positions, VIRGINDX
      <3> QED
        BY <1>1, <2>1, <2>4, <3>1, PurgeConfFits, KeptFits
    <2>5. CASE \E cmd \in {"C", "T"}, k \in 0 .. MaxMsgs :
                 Goto(PurgeConf(i, Clip(c, cmd, k), Clips(c, cmd, k)), "purge")
      <3>1. PICK cmd \in {"C", "T"}, k \in 0 .. MaxMsgs :
              Goto(PurgeConf(i, Clip(c, cmd, k), Clips(c, cmd, k)), "purge")
        BY <2>5
      <3>2. k \in Nat /\ Clips(c, cmd, k) \in BOOLEAN
        BY SessionAssumption DEF Clips
      <3>3. ~Clips(c, cmd, k) => Clip(c, cmd, k) = c
        BY DEF Clip
      <3>4. Clip(c, cmd, k) \in Conference /\ InRange(Clip(c, cmd, k))
        <4> HIDE DEF c
        <4> QED
          BY <2>2, <3>2, ClipType, ClipInRange
      <3>5. Fits(PurgeConf(i, Clip(c, cmd, k), Clips(c, cmd, k)), curBoard)
        BY <1>1, <2>1, <3>2, <3>3, <3>4, PurgeConfFits
      <3> QED
        BY <1>1, <3>1, <3>5, KeptFits
    <2> QED
      BY <1>3, <2>3, <2>4, <2>5 DEF PurgeTurn
  <1>4. CASE PurgeEnd
    <2>1. rd.conf \in Nat
      BY PointerState DEF TypeOK, Reader
    <2>2. Fits(GetConf(Session, curBoard, tbl, rd.conf), curBoard)
      BY <2>1, PointerState, GetConfFits
    <2> QED
      BY <1>1, <1>4, <2>2, KeptFits DEF PurgeEnd
  <1> QED
    BY <1>2, <1>3, <1>4

\* Joining conference i of a board: the old files are closed first.
LEMMA JoinBoardFits ==
  ASSUME NEW s \in Sessions, InRanges(s), NEW b \in Board, NEW t \in Tables, NEW i \in Nat,
         NEW del \in BOOLEAN
  PROVE  LET u == CloseFiles(IF del THEN DeleteReplies(s, b) ELSE s)
         IN  Fits(GetConf([u EXCEPT !.rd.conf = i], b, t, i), b)
  <1> DEFINE d == IF del THEN DeleteReplies(s, b) ELSE s
             u == CloseFiles(d)
             v == [u EXCEPT !.rd.conf = i]
  <1>1. DeleteReplies(s, b) \in Sessions /\ InRanges(DeleteReplies(s, b))
    <2>1. InRange(Absent)
      BY DEF InRange, Absent, Positions, VIRGINDX
    <2> QED
      BY <2>1, DeleteType, PutInRanges DEF DeleteReplies
  <1>2. d \in Sessions /\ InRanges(d)
    BY <1>1
  <1> HIDE DEF d
  <1>3. Fits(u, b)
    BY <1>2, CloseFits
  <1> HIDE DEF u
  <1>4. Fits(v, b)
    <2>1. i \in Int
      OBVIOUS
    <2> QED
      BY <1>3, <2>1, FieldFits
  <1> HIDE DEF v
  <1>5. Fits(GetConf(v, b, t, i), b)
    BY <1>4, GetConfFits DEF Tables
  <1> QED
    BY <1>5 DEF v, u, d

LEMMA JoinLoadedFits ==
  ASSUME TypeInv, NEW s \in Sessions, InRanges(s), NEW b \in Board, NEW t \in Tables,
         NEW mine \in Nat, JoinLoaded(s, b, t, mine)
  PROVE  Fits(Session, curBoard)'
  <1> DEFINE a   == ActvConf(s.disk, b, t)
             has == s.disk[b][REPL_CONF].there
             r   == IF has /\ t = NoBoard THEN Crash(s) ELSE s
             u(del) == CloseFiles(IF del THEN DeleteReplies(r, b) ELSE r)
             i   == IF mine > 0 THEN PCONF_IDX(t) ELSE FirstActive(active', t)
             v(del) == [u(del) EXCEPT !.rd.conf = i]
  <1>1. PICK del \in BOOLEAN :
          /\ active' = IF del /\ t # NoBoard THEN [a EXCEPT ![RCONF_IDX(t)] = FALSE] ELSE a
          /\ Goto(GetConf(v(del), b, t, i), "shell")
          /\ curBoard' = b
    BY DEF JoinLoaded
  <1>2. a \in [0 .. LastConf(t) -> BOOLEAN]
    BY ActiveType DEF Sessions, Tables
  <1>3. active' \in [0 .. LastConf(t) -> BOOLEAN]
    <2> HIDE DEF a
    <2> QED
      BY <1>1, <1>2
  <1>4. i \in Nat
    <2>1. PCONF_IDX(t) \in Nat
      BY TableType DEF PCONF_IDX
    <2> QED
      BY <1>3, <2>1, FindActiveType
  <1>5. r \in Sessions /\ InRanges(r)
    <2>1. Crash(s) \in Sessions /\ Crash(s).disk = s.disk
      BY DEF Crash, Sessions
    <2> QED
      BY <2>1 DEF InRanges
  <1> HIDE DEF i, r, a
  <1>6. Fits(GetConf(v(del), b, t, i), b)
    BY <1>4, <1>5, JoinBoardFits
  <1> HIDE DEF v
  <1> QED
    BY <1>1, <1>6, GotoFits

LEMMA LoadFits ==
  ASSUME PointerInv, NEW b \in Board,
         LoadPacket(b) \/ LoadUnopened(b) \/ LoadPartial(b)
  PROVE  Fits(Session, curBoard)'
  <1>1. \A answer : Fits(Packed(Session, answer), curBoard) /\ Fits(Leaving(answer), curBoard)
    BY PointerState, PackedFits, LeavingFits
  <1>2. \A answer : \A p \in Packets(b) :
          Fits(Tossed(Leaving(answer), b, p.new, p.mine), curBoard)
    BY <1>1, PacketType, TossedFits
  <1>3. b \in Tables /\ tbl \in Tables /\ curBoard \in Tables /\ TypeInv /\ rd.conf \in Nat
    BY PointerState DEF Tables, TypeOK, Reader
  <1>5. CASE LoadPacket(b)
    <2>1. PICK answer \in PackAnswers, p \in Packets(b) :
            JoinLoaded(Tossed(Leaving(answer), b, p.new, p.mine), b, b, p.mine)
      BY <1>5 DEF LoadPacket
    <2> DEFINE s == Tossed(Leaving(answer), b, p.new, p.mine)
    <2>2. Fits(s, curBoard)
      BY <1>2
    <2> HIDE DEF s
    <2>3. s \in Sessions /\ InRanges(s)
      BY <2>2 DEF Fits
    <2> QED
      BY <1>3, <2>1, <2>3, PacketType, JoinLoadedFits DEF s
  <1>6. CASE LoadUnopened(b)
    <2>1. PICK answer \in PackAnswers, t \in {tbl, b} : JoinLoaded(Leaving(answer), b, t, 0)
      BY <1>6 DEF LoadUnopened
    <2>2. Leaving(answer) \in Sessions /\ InRanges(Leaving(answer)) /\ t \in Tables /\ 0 \in Nat
      BY <1>1, <1>3 DEF Fits
    <2> QED
      BY <1>3, <2>1, <2>2, JoinLoadedFits
  <1>7. CASE LoadPartial(b)
    <2>1. PICK answer \in PackAnswers, p \in Packets(b) :
            Goto(GetConf(Tossed(Leaving(answer), b, p.new, p.mine), curBoard, b, rd.conf), "shell")
      BY <1>7 DEF LoadPartial
    <2> DEFINE s == Tossed(Leaving(answer), b, p.new, p.mine)
    <2>2. Fits(GetConf(s, curBoard, b, rd.conf), curBoard)
      <3>1. Fits(s, curBoard)
        BY <1>2
      <3> HIDE DEF s
      <3> QED
        BY <1>3, <3>1, GetConfFits
    <2> QED
      BY <1>7, <2>1, <2>2, KeptFits DEF LoadPartial
  <1> QED
    BY <1>5, <1>6, <1>7

LEMMA ReadFits ==
  ASSUME PointerInv, NEW b \in Board, Read(b) \/ ReadUnknown(b)
  PROVE  Fits(Session, curBoard)'
  <1>1. \A answer : Fits(Leaving(answer), curBoard)
    BY PointerState, LeavingFits
  <1>2. b \in Tables /\ tbl \in Tables /\ curBoard \in Tables /\ rd.conf \in Nat
    BY PointerState DEF Tables, TypeOK, Reader
  <1>3. CASE Read(b)
    <2> DEFINE u(answer, del) ==
          CloseFiles(IF del THEN DeleteReplies(Leaving(answer), b) ELSE Leaving(answer))
               i == FirstActive(active', b)
               v(answer, del) == [u(answer, del) EXCEPT !.rd.conf = i]
    <2>1. PICK answer \in PackAnswers, del \in BOOLEAN :
            /\ active' = ActvConf(u(answer, del).disk, b, b)
            /\ Goto(GetConf(v(answer, del), b, b, i), "shell")
      BY <1>3 DEF Read
    <2>2. Leaving(answer) \in Sessions /\ InRanges(Leaving(answer)) /\ u(answer, del) \in Sessions
      BY <1>1, DeleteType, CloseType DEF Fits
    <2>3. i \in Nat
      <3> HIDE DEF u
      <3>1. active' \in [0 .. LastConf(b) -> BOOLEAN]
        BY <1>2, <2>1, <2>2, ActiveType DEF Sessions
      <3> QED
        BY <1>2, <3>1, FindActiveType
    <2> HIDE DEF i
    <2>4. Fits(GetConf(v(answer, del), b, b, i), b)
      BY <1>2, <2>2, <2>3, JoinBoardFits
    <2> HIDE DEF v
    <2>5. curBoard' = b
      BY <1>3 DEF Read
    <2> QED
      BY <2>1, <2>4, <2>5, GotoFits
  <1>4. CASE ReadUnknown(b)
    <2>1. PICK answer : Goto(GetConf(Leaving(answer), curBoard, tbl, rd.conf), "shell")
      BY <1>4 DEF ReadUnknown
    <2>2. Fits(GetConf(Leaving(answer), curBoard, tbl, rd.conf), curBoard)
      BY <1>1, <1>2, GetConfFits
    <2> QED
      BY <1>4, <2>1, <2>2, KeptFits DEF ReadUnknown
  <1> QED
    BY <1>3, <1>4

\* The conference of replies once one more is stored, through the open streams
\* when they are its own.
Stored ==
  LET o == IF OwnStreams THEN OpenConf(Session) ELSE disk[curBoard][REPL_CONF]
  IN  IF OwnStreams THEN PutOpen(Session, Extended(o, 1))
      ELSE [Session EXCEPT !.disk[curBoard][REPL_CONF] = Extended(o, 1)]

LEMMA StoredFits ==
  ASSUME PointerInv, curBoard \in Board, FilesOpen(rd) \/ ~InReplies
  PROVE  Fits(Stored, curBoard) /\ Stored.rd.fh = rd.fh
  <1> DEFINE o == IF OwnStreams THEN OpenConf(Session) ELSE disk[curBoard][REPL_CONF]
             c == Extended(o, 1)
             s == IF OwnStreams THEN PutOpen(Session, c)
                  ELSE [Session EXCEPT !.disk[curBoard][REPL_CONF] = c]
  <1>1. /\ Fits(Session, curBoard) /\ Session \in Sessions
        /\ Session.rd = rd /\ Session.disk = disk
    BY PointerState
  <1>2. /\ o \in Conference
        /\ ~OwnStreams \/ ~rd.own.there => InRange(o)
        /\ FilesOpen(rd) /\ ~rd.own.there /\ (OwnStreams \/ rd.fh = REPL_CONF)
             => rd.num \in Positions(o)
    <2>1. REPL_CONF \in Numbers
      BY NumbersType
    <2>2. CASE OwnStreams
      <3>1. FilesOpen(rd) /\ rd.fh \in Numbers
        BY <1>1, <2>2 DEF OwnStreams, FilesOpen, Sessions, Reader
      <3>2. o \in Conference
        BY <1>1, <2>2, <3>1, OpenType
      <3> QED
        BY <1>1, <2>2, <3>1, <3>2 DEF OpenConf, Fits, InRanges, Anchored
    <2>3. CASE ~OwnStreams
      <3>1. o \in Conference /\ InRange(o)
        BY <1>1, <2>1, <2>3 DEF Fits, InRanges, Sessions
      <3> QED
        BY <1>1, <2>3, <3>1 DEF Fits, Anchored
    <2> QED
      BY <2>2, <2>3
  <1> HIDE DEF o
  <1>3. c \in Conference /\ c.there /\ c.n = o.n + 1
    BY <1>2, ConferenceType DEF Extended
  <1>4. (InRange(o) => InRange(c)) /\ Positions(o) \subseteq Positions(c)
    <2>1. o.n \in Nat
      BY <1>2 DEF Conference
    <2> QED
      BY <1>2, <1>3, <2>1, ExtendedInRange DEF Positions
  <1> HIDE DEF c
  <1>5. Fits(s, curBoard) /\ s.rd.fh = rd.fh
    <2>1. CASE OwnStreams
      <3>1. FilesOpen(rd)
        BY <2>1 DEF OwnStreams
      <3> QED
        BY <1>1, <1>2, <1>3, <1>4, <2>1, <3>1, PutOpenFits
    <2>2. CASE ~OwnStreams
      <3>1. [Session EXCEPT !.disk[curBoard][REPL_CONF] = c].rd.fh = rd.fh
        BY <1>1 DEF Sessions
      <3>2. Fits([Session EXCEPT !.disk[curBoard][REPL_CONF] = c], curBoard)
        BY <1>1, <1>2, <1>3, <1>4, <2>2, PutFits
      <3> QED
        BY <2>2, <3>1, <3>2
    <2> QED
      BY <2>1, <2>2
  <1> QED
    BY <1>5 DEF Stored, c, o

LEMMA ReplyFits ==
  ASSUME PointerInv, NEW mode, NEW arg, Reply(mode, arg)
  PROVE  Fits(Session, curBoard)'
  <1>1. Fits(Session, curBoard) /\ curBoard \in Board /\ curBoard' = curBoard
    BY PointerState DEF Reply, Prompt
  <1>2. CASE InReplies /\ (~FilesOpen(rd) \/ rd.dead)
    <2>1. Goto(Crash(Session), "shell")
      BY <1>2 DEF Reply
    <2> QED
      BY <1>1, <2>1, CrashFits, KeptFits
  <1>3. CASE ~(InReplies /\ (~FilesOpen(rd) \/ rd.dead))
    <2>1. Goto(ShowReply(Stored, mode), "shell")
      BY <1>3 DEF Reply, Stored
    <2>2. Fits(ShowReply(Stored, mode), curBoard)
      BY <1>1, <1>3, StoredFits, ShowReplyFits DEF FilesOpen
    <2> QED
      BY <1>1, <2>1, <2>2, KeptFits
  <1> QED
    BY <1>2, <1>3

LEMMA ReplyTooBigFits ==
  ASSUME PointerInv, NEW mode, NEW arg, ReplyTooBig(mode, arg)
  PROVE  Fits(Session, curBoard)'
  <1> DEFINE o == Session.disk[curBoard][REPL_CONF]
             c == Opened(o)
             s1 == [Session EXCEPT !.disk[curBoard][REPL_CONF] = c]
             s2 == [Session EXCEPT !.rd.dead = TRUE]
  <1>1. Fits(Session, curBoard) /\ Session \in Sessions /\ curBoard' = curBoard /\ curBoard \in Board
    BY PointerState DEF ReplyTooBig, Prompt, table
  <1>2. o \in Conference /\ InRange(o)
    BY <1>1, NumbersType DEF Fits, InRanges, Sessions
  <1>3. PICK s \in {s1, s2, Crash(Session)} : Goto(s, "shell")
    BY DEF ReplyTooBig
  <1>4. FilesOpen(Session.rd) /\ ~Session.rd.own.there /\ REPL_CONF = Session.rd.fh
          => c.there /\ Session.rd.num \in Positions(c)
    BY <1>1 DEF Fits, Anchored, Opened
  <1> HIDE DEF o
  <1>5. c \in Conference /\ InRange(c)
    BY <1>2, ConferenceType, ExtendedInRange
  <1> HIDE DEF c
  <1>6. Fits(s1, curBoard)
    BY <1>1, <1>4, <1>5, PutFits
  <1>7. Fits(s2, curBoard)
    <2>1. 0 \in Int
      OBVIOUS
    <2> QED
      BY <1>1, <2>1, FieldFits
  <1> HIDE DEF s1, s2
  <1> QED
    BY <1>1, <1>3, <1>6, <1>7, CrashFits, KeptFits

LEMMA QuitFits ==
  ASSUME PointerInv, Quit
  PROVE  Fits(Session, curBoard)'
  <1> DEFINE s == IF Loaded THEN UpdateConf(Session, FALSE) ELSE Session
  <1>1. PICK answer \in PackAnswers : Goto(Packed(s, answer), "exit")
    BY DEF Quit
  <1>2. Fits(s, curBoard) /\ curBoard \in Tables
    BY PointerState, UpdateConfFits
  <1> HIDE DEF s
  <1>3. Fits(Packed(s, answer), curBoard)
    BY <1>2, PackedFits
  <1> QED
    BY <1>1, <1>3, KeptFits DEF Quit, table

LEMMA InitFits == Init => PointerInv
  <1> SUFFICES ASSUME Init PROVE PointerInv
    OBVIOUS
  <1>1. TypeInv
    BY InitType
  <1>2. InRange(Absent)
    BY DEF InRange, Absent, Positions, VIRGINDX
  <1>3. InRanges(Session) /\ ~FilesOpen(Session.rd)
    BY <1>2 DEF Init, Session, InRanges, FilesOpen, NewReader
  <1> QED
    BY <1>1, <1>3, SessionType, ClosedFits DEF PointerInv, TypeInv

LEMMA RestartFits ==
  ASSUME PointerInv, Restart, TypeInv'
  PROVE  Fits(Session, curBoard)'
  <1>1. Session' = [disk |-> disk, rd |-> NewReader, crash |-> FALSE]
    BY DEF Session, Restart
  <1>2. Session' \in Sessions
    BY <1>1, PointerState, NewProcessType DEF TypeOK, Sessions
  <1>3. InRanges(Session') /\ ~FilesOpen(Session'.rd)
    BY <1>1, PointerState DEF Fits, InRanges, FilesOpen, NewReader
  <1>4. \A b : Fits(Session', b)
    BY <1>2, <1>3, ClosedFits
  <1> QED
    BY <1>4

LEMMA PointerStep ==
  ASSUME PointerInv, [Next]_vars
  PROVE  PointerInv'
  <1>1. TypeInv'
    BY PointerState, TypeStep
  <1>2. Fits(Session, curBoard)'
    <2>1. CASE Command
      <3>1. ASSUME NEW mode, ReadNext(mode) \/ Scan(mode) PROVE Fits(Session, curBoard)'
        BY <3>1, ReadingFits
      <3>2. CASE GoToNum
        BY <3>2, ReadingFits
      <3>3. CASE Reset \/ Join \/ NextConf \/ Purge \/ ListConf \/ Quit
        BY <3>3, ConferenceFits, PurgingFits, QuitFits
      <3>4. CASE LoadNothing
        <4>1. PICK answer : Goto(Packed(Session, answer), "shell")
          BY <3>4 DEF LoadNothing
        <4>2. Fits(Packed(Session, answer), curBoard)
          BY PointerState, PackedFits
        <4> QED
          BY <3>4, <4>1, <4>2, KeptFits DEF LoadNothing
      <3>5. ASSUME NEW b \in Board,
                   LoadPacket(b) \/ LoadUnopened(b) \/ LoadPartial(b) \/ Read(b) \/ ReadUnknown(b)
            PROVE  Fits(Session, curBoard)'
        BY <3>5, LoadFits, ReadFits
      <3>6. ASSUME NEW mode, NEW arg, Reply(mode, arg) \/ ReplyTooBig(mode, arg)
            PROVE  Fits(Session, curBoard)'
        BY <3>6, ReplyFits, ReplyTooBigFits
      <3> QED
        BY <2>1, <3>1, <3>2, <3>3, <3>4, <3>5, <3>6 DEF Command
    <2>2. CASE Internal
      BY <2>2, ConferenceFits, PurgingFits DEF Internal
    <2>3. CASE Restart
      BY <1>1, <2>3, RestartFits
    <2>4. CASE UNCHANGED vars
      <3>1. Session' = Session /\ curBoard' = curBoard
        BY <2>4 DEF vars, Session
      <3> QED
        BY <3>1, PointerState
    <2> QED
      BY <2>1, <2>2, <2>3, <2>4 DEF Next
  <1> QED
    BY <1>1, <1>2 DEF PointerInv

\* The last-read pointer of every conference on disk names one of its messages
\* or none, and only messages are killed, whatever the user, the packets and the
\* faults do.
THEOREM PointersInRange == Spec => []LastReadInRange
  <1>1. PointerInv /\ [Next]_vars => PointerInv'
    BY PointerStep
  <1>2. PointerInv => LastReadInRange
    BY PointerState DEF Fits, InRanges, LastReadInRange
  <1> QED
    BY InitFits, <1>1, <1>2, PTL DEF Spec

(***************************************************************************)
(* What the reader holds is the current conference, as long as no fault    *)
(* tears the two apart.  Everything the commands leave on the disk has a   *)
(* message, so that GetConf() never stops half way; the table is always    *)
(* that of the board; and the replies promised to be there are there.      *)
(***************************************************************************)
Whole(s) == \A d \in Board, f \in Numbers : s.disk[d][f].there => s.disk[d][f].n > 0

Current(s, b) ==
  FilesOpen(s.rd) =>
    /\ b \in Board /\ ~s.rd.own.there
    /\ s.rd.fh = ConfNumbers(b)[s.rd.conf]
    /\ s.disk[b][s.rd.fh].there /\ s.rd.tot = s.disk[b][s.rd.fh].n
    /\ s.rd.pos \in 0 .. s.rd.tot /\ s.rd.num \in 0 .. s.rd.tot - 1
    /\ s.rd.hdr \in -1 .. s.rd.tot - 1 /\ s.rd.body \in -1 .. s.rd.tot - 1

Promised(s, b, rep) == rep => b \in Board /\ s.disk[b][REPL_CONF].there

Sound(s, b, rep) ==
  /\ Fits(s, b) /\ Whole(s) /\ s.rd.dead = FALSE /\ s.rd.conf <= LastConf(b)
  /\ Current(s, b) /\ Promised(s, b, rep)

\* Where ReplyExist is to be believed: a purge may be about to remove the replies.
Prompting == {"shell", "next", "joining"}
Promising == replyExist /\ pc \in Prompting

OpenInv == PointerInv /\ tbl = curBoard /\ Sound(Session, curBoard, Promising)

----------------------------------------------------------------------------
(* The calls, once more.                                                   *)

LEMMA SoundType ==
  ASSUME NEW s, NEW b, NEW rep, Sound(s, b, rep)
  PROVE  /\ s \in Sessions /\ InRanges(s) /\ s.rd \in Reader
         /\ s.rd.tot \in Int /\ s.rd.num \in Int /\ s.rd.pos \in Int /\ s.rd.conf \in Nat
         /\ FilesOpen(s.rd) =>
              /\ b \in Board /\ s.rd.fh \in Numbers /\ s.disk[b][s.rd.fh] \in Conference
              /\ s.rd.tot > 0 /\ ~s.rd.own.there
  <1>1. /\ s \in Sessions /\ InRanges(s) /\ s.rd \in Reader
        /\ s.rd.tot \in Int /\ s.rd.num \in Int /\ s.rd.pos \in Int /\ s.rd.conf \in Nat
    BY DEF Sound, Fits, Sessions, Reader
  <1>2. FilesOpen(s.rd) => b \in Board /\ s.rd.num \in 0 .. s.rd.tot - 1 /\ ~s.rd.own.there
    BY DEF Sound, Current
  <1>3. FilesOpen(s.rd) => s.rd.tot > 0
    BY <1>1, <1>2
  <1>4. FilesOpen(s.rd) => s.rd.fh \in Numbers
    BY <1>1 DEF FilesOpen, Reader
  <1>5. FilesOpen(s.rd) => s.disk[b][s.rd.fh] \in Conference
    BY <1>1, <1>2, <1>4 DEF Sessions
  <1> QED
    BY <1>1, <1>2, <1>3, <1>4, <1>5

LEMMA SoundFrom ==
  ASSUME NEW s, NEW b, NEW rep, Sound(s, b, rep), NEW t \in Sessions,
         t.disk = s.disk, t.rd.fh = s.rd.fh, t.rd.own = s.rd.own, t.rd.conf = s.rd.conf,
         t.rd.tot = s.rd.tot, t.rd.dead = FALSE,
         FilesOpen(s.rd) =>
           /\ t.rd.pos \in 0 .. s.rd.tot /\ t.rd.num \in 0 .. s.rd.tot - 1
           /\ t.rd.hdr \in -1 .. s.rd.tot - 1 /\ t.rd.body \in -1 .. s.rd.tot - 1
  PROVE  Sound(t, b, rep)
  <1>1. Current(t, b) /\ Promised(t, b, rep) /\ Whole(t)
    BY DEF Sound, Current, Promised, Whole, FilesOpen
  <1>2. Anchored(t, b)
    BY <1>1 DEF Current, Anchored, Positions
  <1>3. InRanges(t)
    BY DEF Sound, Fits, InRanges
  <1> QED
    BY <1>1, <1>2, <1>3 DEF Sound, Fits

LEMMA WeakSound ==
  ASSUME NEW s, NEW b, NEW rep, Sound(s, b, rep), NEW less, less => rep
  PROVE  Sound(s, b, less)
  BY DEF Sound, Promised

LEMMA CrashSound ==
  ASSUME NEW s, NEW b, NEW rep, Sound(s, b, rep)
  PROVE  Sound(Crash(s), b, rep)
  <1>1. s \in Sessions
    BY SoundType
  <1>2. Crash(s) \in Sessions /\ Crash(s).disk = s.disk /\ Crash(s).rd = s.rd
    BY <1>1 DEF Sessions, Crash
  <1> QED
    BY <1>2, SoundFrom DEF Sound, Current

\* The stream, and what is in the buffer.
LEMMA MoveSound ==
  ASSUME NEW s, NEW b, NEW rep, Sound(s, b, rep), NEW x \in Int, NEW h \in Int
  PROVE  /\ (FilesOpen(s.rd) => x \in 0 .. s.rd.tot) => Sound([s EXCEPT !.rd.pos = x], b, rep)
         /\ h = NoMsg => Sound([[s EXCEPT !.rd.hdr = h] EXCEPT !.rd.body = h], b, rep)
  <1>1. s \in Sessions
    BY SoundType
  <1>2. ASSUME FilesOpen(s.rd) => x \in 0 .. s.rd.tot
        PROVE  Sound([s EXCEPT !.rd.pos = x], b, rep)
    <2> DEFINE t == [s EXCEPT !.rd.pos = x]
    <2>1. t \in Sessions
      BY <1>1, IntFieldType
    <2>2. /\ t.disk = s.disk /\ t.rd.fh = s.rd.fh /\ t.rd.own = s.rd.own /\ t.rd.conf = s.rd.conf
          /\ t.rd.tot = s.rd.tot /\ t.rd.dead = s.rd.dead /\ t.rd.pos = x /\ t.rd.num = s.rd.num
          /\ t.rd.hdr = s.rd.hdr /\ t.rd.body = s.rd.body
      BY <1>1 DEF Sessions, Reader
    <2> HIDE DEF t
    <2>3. Sound(t, b, rep)
      BY <1>2, <2>1, <2>2, SoundFrom DEF Sound, Current
    <2> QED
      BY <2>3 DEF t
  <1>3. ASSUME h = NoMsg PROVE Sound([[s EXCEPT !.rd.hdr = h] EXCEPT !.rd.body = h], b, rep)
    <2> DEFINE t == [[s EXCEPT !.rd.hdr = h] EXCEPT !.rd.body = h]
    <2>1. t \in Sessions
      BY <1>1, IntFieldType
    <2>2. /\ t.disk = s.disk /\ t.rd.fh = s.rd.fh /\ t.rd.own = s.rd.own /\ t.rd.conf = s.rd.conf
          /\ t.rd.tot = s.rd.tot /\ t.rd.dead = s.rd.dead /\ t.rd.pos = s.rd.pos
          /\ t.rd.num = s.rd.num /\ t.rd.hdr = h /\ t.rd.body = h
      BY <1>1 DEF Sessions, Reader
    <2> HIDE DEF t
    <2>3. FilesOpen(s.rd) => h \in -1 .. s.rd.tot - 1
      <3>1. FilesOpen(s.rd) => s.rd.tot \in Int /\ s.rd.tot > 0
        BY SoundType
      <3> QED
        BY <1>3, <3>1 DEF NoMsg
    <2>4. Sound(t, b, rep)
      BY <2>1, <2>2, <2>3, SoundFrom DEF Sound, Current
    <2> QED
      BY <2>4 DEF t
  <1> QED
    BY <1>2, <1>3

\* A write to the disk that leaves the length of the open conference alone.
LEMMA PutSound ==
  ASSUME NEW s, NEW b, NEW rep, Sound(s, b, rep), NEW d \in Board, NEW f \in Numbers,
         NEW c \in Conference, InRange(c), c.there => c.n > 0,
         FilesOpen(s.rd) /\ d = b /\ f = s.rd.fh => c.there /\ c.n = s.rd.tot,
         rep /\ d = b /\ f = REPL_CONF => c.there
  PROVE  Sound([s EXCEPT !.disk[d][f] = c], b, rep)
  <1> DEFINE t == [s EXCEPT !.disk[d][f] = c]
  <1>1. s \in Sessions /\ t \in Sessions
    BY SoundType, PutType
  <1>2. t.rd = s.rd /\ \A e \in Board, g \in Numbers :
          t.disk[e][g] = IF e = d /\ g = f THEN c ELSE s.disk[e][g]
    BY <1>1 DEF Sessions
  <1>3. InRanges(t)
    BY <1>1, PutInRanges DEF Sound, Fits
  <1> HIDE DEF t
  <1>4. Whole(t)
    BY <1>2 DEF Sound, Whole
  <1>5. Promised(t, b, rep)
    BY <1>2, NumbersType DEF Sound, Promised
  <1>6. Current(t, b)
    <2>1. FilesOpen(s.rd) => b \in Board /\ s.rd.fh \in Numbers
      BY SoundType
    <2> QED
      BY <1>2, <2>1 DEF Sound, Current
  <1>7. Anchored(t, b)
    BY <1>6 DEF Current, Anchored, Positions
  <1>8. Sound(t, b, rep)
    BY <1>1, <1>2, <1>3, <1>4, <1>5, <1>6, <1>7 DEF Sound, Fits
  <1> QED
    BY <1>8 DEF t

LEMMA PutOpenSound ==
  ASSUME NEW s, NEW rep, Sound(s, curBoard, rep), FilesOpen(s.rd),
         NEW c \in Conference, InRange(c), c.there, c.n = s.rd.tot
  PROVE  /\ Sound(PutOpen(s, c), curBoard, rep) /\ PutOpen(s, c).rd = s.rd
         /\ OpenConf(PutOpen(s, c)) = c
  <1>1. /\ curBoard \in Board /\ ~s.rd.own.there /\ s.rd.fh \in Numbers /\ s \in Sessions
        /\ s.rd.tot > 0
    BY SoundType
  <1>2. PutOpen(s, c) = [s EXCEPT !.disk[curBoard][s.rd.fh] = c]
    BY <1>1 DEF PutOpen
  <1>3. Sound([s EXCEPT !.disk[curBoard][s.rd.fh] = c], curBoard, rep)
    BY <1>1, PutSound
  <1>4. [s EXCEPT !.disk[curBoard][s.rd.fh] = c].rd = s.rd
        /\ [s EXCEPT !.disk[curBoard][s.rd.fh] = c].disk[curBoard][s.rd.fh] = c
    BY <1>1 DEF Sessions
  <1> QED
    BY <1>1, <1>2, <1>3, <1>4 DEF OpenConf

\* The numbers of a loaded table are all different, the replies' next to last.
LEMMA TableOrder ==
  ASSUME NEW b \in Board
  PROVE  /\ LastConf(b) \in Nat /\ RCONF_IDX(b) \in 0 .. LastConf(b)
         /\ PCONF_IDX(b) \in 0 .. LastConf(b)
         /\ ConfNumbers(b)[RCONF_IDX(b)] = REPL_CONF
         /\ \A i \in 0 .. LastConf(b) : ConfNumbers(b)[i] = REPL_CONF => i = RCONF_IDX(b)
         /\ \A i, j \in 0 .. LastConf(b) : ConfNumbers(b)[i] = ConfNumbers(b)[j] => i = j
  <1> DEFINE m == MainConfs[b]
             n == Len(m)
  <1>1. b # NoBoard /\ m \in Seq(0 .. PERS_CONF - 1) /\ IsInjective(m) /\ n \in Nat /\ DOMAIN m = 1 .. n
    BY SessionAssumption
  <1>2. LastConf(b) = n + 1 /\ RCONF_IDX(b) = n /\ PCONF_IDX(b) = n + 1
    BY <1>1 DEF LastConf, RCONF_IDX, PCONF_IDX
  <1> HIDE DEF n
  <1>3. \A i \in 0 .. n + 1 :
          ConfNumbers(b)[i] = CASE i = n -> REPL_CONF [] i = n + 1 -> PERS_CONF
                                [] OTHER -> m[i + 1]
    BY <1>1, <1>2 DEF ConfNumbers
  <1>4. \A k \in 1 .. n : m[k] \in 0 .. PERS_CONF - 1
    BY <1>1, SeqElement DEF n
  <1>5. \A k, l \in 1 .. n : m[k] = m[l] => k = l
    BY <1>1 DEF IsInjective
  <1> HIDE DEF m
  <1>6. \A i \in 0 .. n - 1 : ConfNumbers(b)[i] = m[i + 1] /\ i + 1 \in 1 .. n
    BY <1>1, <1>3
  <1>7. ASSUME NEW i \in 0 .. n - 1
        PROVE  ConfNumbers(b)[i] # REPL_CONF /\ ConfNumbers(b)[i] # PERS_CONF
    <2>1. ConfNumbers(b)[i] = m[i + 1] /\ i + 1 \in 1 .. n
      BY <1>6
    <2>2. m[i + 1] \in 0 .. PERS_CONF - 1
      BY <1>4, <2>1, Zenon
    <2>3. ASSUME NEW x \in 0 .. PERS_CONF - 1 PROVE x # REPL_CONF /\ x # PERS_CONF
      <3>1. x \in Int /\ x <= 8999
        BY DEF PERS_CONF
      <3> QED
        BY <3>1 DEF REPL_CONF, PERS_CONF
    <2> QED
      BY <2>1, <2>2, <2>3, Zenon
  <1>8. /\ ConfNumbers(b)[n] = REPL_CONF /\ ConfNumbers(b)[n + 1] = PERS_CONF
        /\ REPL_CONF # PERS_CONF
    BY <1>1, <1>3 DEF REPL_CONF, PERS_CONF
  <1>9. \A i \in 0 .. n + 1 : i \in 0 .. n - 1 \/ i = n \/ i = n + 1
    BY <1>1
  <1>10. \A i \in 0 .. n + 1 : ConfNumbers(b)[i] = REPL_CONF => i = n
    BY <1>7, <1>8, <1>9, Zenon
  <1>11. ASSUME NEW i \in 0 .. n + 1, NEW j \in 0 .. n + 1, ConfNumbers(b)[i] = ConfNumbers(b)[j]
         PROVE  i = j
    <2>1. CASE i \in 0 .. n - 1 /\ j \in 0 .. n - 1
      <3>1. i + 1 = j + 1
        BY <1>5, <1>6, <1>11, <2>1
      <3> QED
        BY <3>1, <2>1
    <2>2. CASE i \notin 0 .. n - 1 \/ j \notin 0 .. n - 1
      BY <1>7, <1>8, <1>9, <1>11, <2>2, Zenon
    <2> QED
      BY <2>1, <2>2
  <1> QED
    BY <1>1, <1>2, <1>8, <1>10, <1>11

\* FindActive names an index of the table.
LEMMA FindActiveIndex ==
  ASSUME NEW t \in Tables, NEW a \in [0 .. LastConf(t) -> BOOLEAN], NEW i \in Int
  PROVE  FindActive(a, i) \in 0 .. LastConf(t) \cup {-1} /\ FirstActive(a, t) \in 0 .. LastConf(t)
  <1>1. LastConf(t) \in Nat
    BY TableType
  <1>2. ASSUME NEW j \in Int PROVE FindActive(a, j) \in (0 .. LastConf(t)) \cup {-1}
    <2> DEFINE after  == {k \in DOMAIN a : k > j /\ a[k]}
               before == {k \in DOMAIN a : k <= j /\ a[k]}
    <2>1. after \in SUBSET Nat /\ before \in SUBSET Nat
      BY <1>1
    <2>2. (after # {} => Min(after) \in after) /\ (before # {} => Min(before) \in before)
      BY <2>1, MinNat
    <2> QED
      BY <2>2 DEF FindActive
  <1>3. FirstActive(a, t) \in 0 .. LastConf(t)
    BY <1>1, <1>2 DEF FirstActive
  <1> QED
    BY <1>2, <1>3

\* With no file open there is less to say.
LEMMA ClosedSound ==
  ASSUME NEW s \in Sessions, InRanges(s), Whole(s), s.rd.dead = FALSE, ~FilesOpen(s.rd),
         NEW b, s.rd.conf <= LastConf(b), NEW rep, Promised(s, b, rep)
  PROVE  Sound(s, b, rep)
  BY ClosedFits DEF Sound, Current

LEMMA CloseFields ==
  ASSUME NEW s \in Sessions, s.rd.dead = FALSE
  PROVE  LET u == CloseFiles(s)
         IN  /\ u \in Sessions /\ u.disk = s.disk /\ u.rd.conf = s.rd.conf
             /\ u.rd.dead = FALSE /\ ~FilesOpen(u.rd)
  <1>1. CloseFiles(s) \in Sessions
    BY CloseType
  <1> QED
    BY <1>1 DEF CloseFiles, FilesOpen, Sessions, Reader

LEMMA GetConfSound ==
  ASSUME NEW b \in Tables, NEW s, NEW rep, Sound(s, b, rep), NEW i \in 0 .. LastConf(b)
  PROVE  Sound(GetConf(s, b, b, i), b, rep)
  <1> DEFINE f == ConfNumbers(b)[i]
             c == s.disk[b][f]
             r == [conf |-> i, fh |-> f, dead |-> FALSE,
                   pos |-> IF c.last = VIRGINDX THEN 0 ELSE c.last,
                   last |-> c.last, num |-> 0, tot |-> c.n, first |-> FALSE,
                   hdr |-> NoMsg, body |-> NoMsg, own |-> Absent]
             u == [CloseFiles(s) EXCEPT !.rd = r]
  <1>1. s \in Sessions /\ InRanges(s) /\ LastConf(b) \in Nat /\ i \in Nat /\ f \in Numbers
    BY SoundType, TableType
  <1>2. b \in Board => c \in Conference /\ InRange(c) /\ (c.there => c.n > 0)
    <2> HIDE DEF f
    <2> QED
      BY <1>1 DEF Sound, Whole, Sessions, InRanges
  <1>3. GetConf(s, b, b, i) # s => GetConf(s, b, b, i) = u /\ b \in Board /\ c.there
    BY <1>1, <1>2 DEF GetConf, Tables
  <1>4. ASSUME GetConf(s, b, b, i) = u, b \in Board, c.there
        PROVE  Sound(u, b, rep)
    <2>1. Fits(u, b)
      <3>1. Fits(GetConf(s, b, b, i), b)
        BY <1>1, GetConfFits DEF Sound
      <3> HIDE DEF u
      <3> QED
        BY <1>4, <3>1
    <2>2. CloseFiles(s) \in Sessions /\ CloseFiles(s).disk = s.disk
      BY <1>1, CloseFields DEF Sound
    <2>3. u.rd = r /\ u.disk = s.disk
      <3> HIDE DEF r
      <3> QED
        BY <2>2 DEF Sessions
    <2>4. /\ r.conf = i /\ r.fh = f /\ r.dead = FALSE /\ r.num = 0 /\ r.tot = c.n
          /\ r.hdr = -1 /\ r.body = -1 /\ r.own = Absent
          /\ r.pos = IF c.last = VIRGINDX THEN 0 ELSE c.last
      BY DEF NoMsg
    <2> HIDE DEF r, u
    <2>5. r.pos \in 0 .. c.n /\ 0 \in 0 .. c.n - 1 /\ -1 \in -1 .. c.n - 1
      <3> HIDE DEF c
      <3> QED
        BY <1>2, <1>4, <2>4 DEF InRange, VIRGINDX, Conference
    <2>6. Current(u, b)
      <3> HIDE DEF f
      <3> QED
        BY <1>4, <2>3, <2>4, <2>5 DEF Current, Absent, f
    <2>7. Whole(u) /\ Promised(u, b, rep)
      BY <2>3 DEF Sound, Whole, Promised
    <2> QED
      BY <1>1, <2>1, <2>3, <2>4, <2>6, <2>7 DEF Sound
  <1> HIDE DEF u
  <1> QED
    BY <1>3, <1>4

LEMMA UpdateConfSound ==
  ASSUME NEW s, NEW rep, Sound(s, curBoard, rep), NEW reset \in BOOLEAN
  PROVE  Sound(UpdateConf(s, reset), curBoard, rep)
  <1> DEFINE m == s.rd.num
             one == 1
             t == [s EXCEPT !.rd.pos = m]
             c == [OpenConf(s) EXCEPT !.last = m]
  <1>1. \/ UpdateConf(s, reset) = s
        \/ FilesOpen(s.rd) /\ UpdateConf(s, reset) \in {[s EXCEPT !.rd.pos = one], PutOpen(t, c)}
    BY DEF UpdateConf
  <1>2. ASSUME FilesOpen(s.rd)
        PROVE  /\ one \in 0 .. s.rd.tot /\ m \in 0 .. s.rd.tot /\ m \in 0 .. s.rd.tot - 1
               /\ one \in Int /\ m \in Int /\ s \in Sessions
    <2>1. /\ s.rd.tot \in Int /\ s.rd.tot > 0 /\ m \in Int /\ s \in Sessions
          /\ m \in 0 .. s.rd.tot - 1
      BY <1>2, SoundType DEF Sound, Current
    <2> QED
      BY <2>1
  <1>3. ASSUME FilesOpen(s.rd)
        PROVE  /\ c \in Conference /\ InRange(c) /\ c.there /\ c.n = s.rd.tot
               /\ t.rd.tot = s.rd.tot /\ FilesOpen(t.rd)
    <2> DEFINE o == OpenConf(s)
    <2>1. /\ o \in Conference /\ InRange(o) /\ o.there /\ o.n = s.rd.tot
          /\ m \in VIRGINDX .. s.rd.tot - 1 /\ m \in Int
      <3>1. /\ curBoard \in Board /\ s.rd.fh \in Numbers /\ ~s.rd.own.there
            /\ s.disk[curBoard][s.rd.fh] \in Conference /\ InRanges(s)
        BY <1>3, SoundType
      <3>2. o = s.disk[curBoard][s.rd.fh]
        BY <3>1 DEF OpenConf
      <3>3. m \in 0 .. s.rd.tot - 1 /\ o.there /\ o.n = s.rd.tot
        BY <1>3, <3>2 DEF Sound, Current
      <3> HIDE DEF o
      <3> QED
        BY <1>2, <1>3, <3>1, <3>2, <3>3 DEF InRanges, VIRGINDX
    <2> HIDE DEF o, m
    <2>2. c = [o EXCEPT !.last = m]
      BY DEF o
    <2>3. c \in Conference /\ c.there /\ c.n = o.n /\ c.killed = o.killed /\ c.last = m
      BY <2>1, <2>2 DEF Conference
    <2>4. t.rd.tot = s.rd.tot /\ t.rd.fh = s.rd.fh
      BY <1>2, <1>3 DEF Sessions, Reader
    <2> HIDE DEF c, t
    <2> QED
      BY <1>3, <2>1, <2>3, <2>4 DEF InRange, Positions, FilesOpen
  <1> HIDE DEF one, m
  <1>4. FilesOpen(s.rd) => Sound([s EXCEPT !.rd.pos = one], curBoard, rep) /\ Sound(t, curBoard, rep)
    BY <1>2, MoveSound
  <1> HIDE DEF t, c
  <1>5. FilesOpen(s.rd) => Sound(PutOpen(t, c), curBoard, rep)
    BY <1>3, <1>4, PutOpenSound
  <1> QED
    BY <1>1, <1>4, <1>5

LEMMA ChConfSound ==
  ASSUME NEW s, NEW rep, Sound(s, curBoard, rep), curBoard \in Tables, tbl = curBoard,
         active \in [0 .. LastConf(tbl) -> BOOLEAN], NEW i
  PROVE  Sound(ChConf(s, i), curBoard, rep)
  <1>1. Sound(UpdateConf(s, FALSE), curBoard, rep)
    BY UpdateConfSound
  <1> QED
    BY <1>1, GetConfSound DEF ChConf

\* What the open streams see.
LEMMA OpenSound ==
  ASSUME NEW s, NEW rep, Sound(s, curBoard, rep), FilesOpen(s.rd)
  PROVE  /\ curBoard \in Board /\ OpenConf(s) \in Conference /\ InRange(OpenConf(s))
         /\ OpenConf(s).there /\ OpenConf(s).n = s.rd.tot
         /\ Positions(OpenConf(s)) = 0 .. s.rd.tot - 1
  <1>1. /\ curBoard \in Board /\ s.rd.fh \in Numbers /\ ~s.rd.own.there /\ InRanges(s)
        /\ s.disk[curBoard][s.rd.fh] \in Conference
    BY SoundType
  <1>2. OpenConf(s) = s.disk[curBoard][s.rd.fh]
    BY <1>1 DEF OpenConf
  <1>3. OpenConf(s).there /\ OpenConf(s).n = s.rd.tot
    BY <1>2 DEF Sound, Current
  <1>4. Positions(OpenConf(s)) = 0 .. s.rd.tot - 1
    BY <1>3 DEF Positions
  <1> QED
    BY <1>1, <1>2, <1>3, <1>4 DEF InRanges

LEMMA ReadRecordSound ==
  ASSUME NEW s, NEW rep, Sound(s, curBoard, rep), FilesOpen(s.rd),
         NEW k \in Positions(OpenConf(s)), NEW quick \in BOOLEAN
  PROVE  Sound(ReadRecord(s, k, quick), curBoard, rep)
  <1> DEFINE t == ReadRecord(s, k, quick)
  <1>1. /\ s \in Sessions /\ curBoard \in Board /\ s.rd.tot \in Int /\ s.rd.tot > 0
        /\ k \in 0 .. s.rd.tot - 1
    BY SoundType, OpenSound
  <1>2. k \in Int /\ k + 1 \in 0 .. s.rd.tot /\ k \in -1 .. s.rd.tot - 1
    BY <1>1
  <1>3. t \in Sessions
    BY <1>1, <1>2, ReadRecordType
  <1>4. /\ t.disk = s.disk /\ t.rd.fh = s.rd.fh /\ t.rd.own = s.rd.own /\ t.rd.conf = s.rd.conf
        /\ t.rd.tot = s.rd.tot /\ t.rd.dead = FALSE /\ t.rd.pos = k + 1 /\ t.rd.num = k
        /\ t.rd.hdr = k /\ t.rd.body \in {k, s.rd.body}
    BY <1>1 DEF ReadRecord, Sessions, Reader, Sound
  <1> HIDE DEF t
  <1>5. s.rd.body \in -1 .. s.rd.tot - 1
    BY DEF Sound, Current
  <1>6. /\ t.rd.pos \in 0 .. s.rd.tot /\ t.rd.num \in 0 .. s.rd.tot - 1
        /\ t.rd.hdr \in -1 .. s.rd.tot - 1 /\ t.rd.body \in -1 .. s.rd.tot - 1
    BY <1>1, <1>2, <1>4, <1>5
  <1>7. Sound(t, curBoard, rep)
    BY <1>3, <1>4, <1>6, SoundFrom
  <1> QED
    BY <1>7 DEF t

LEMMA SeekNumSound ==
  ASSUME NEW s, NEW rep, Sound(s, curBoard, rep), NEW m \in Int
  PROVE  Sound(SeekNum(s, m), curBoard, rep)
  <1> DEFINE k == m - 1
  <1>1. FilesOpen(s.rd) => OpenConf(s).n = s.rd.tot /\ Positions(OpenConf(s)) = 0 .. s.rd.tot - 1
    BY OpenSound
  <1>2. s.rd.tot \in Int
    BY SoundType
  <1>3. m \in 1 .. s.rd.tot => k \in 0 .. s.rd.tot - 1 /\ ~(m > s.rd.tot)
    BY <1>2
  <1>4. \/ SeekNum(s, m) \in {s, Crash(s)}
        \/ SeekNum(s, m) = ReadRecord(s, k, FALSE) /\ FilesOpen(s.rd) /\ k \in Positions(OpenConf(s))
    BY <1>1, <1>3 DEF SeekNum
  <1> HIDE DEF k
  <1> QED
    BY <1>4, CrashSound, ReadRecordSound

LEMMA ReadAtSound ==
  ASSUME NEW s, NEW rep, Sound(s, curBoard, rep), NEW mode, FilesOpen(s.rd),
         Target(s, mode) \in Positions(OpenConf(s))
  PROVE  Sound(ReadAt(s, mode), curBoard, rep)
  <1> DEFINE k == Target(s, mode)
             o == OpenConf(s)
             after == CASE mode = "kill" -> IF k \in o.killed THEN o.killed \ {k} ELSE o.killed \cup {k}
                        [] mode = "nuke" -> o.killed \cup {k}
                        [] OTHER         -> o.killed \ {k}
             c == [o EXCEPT !.killed = after]
  <1>1. o \in Conference /\ InRange(o) /\ o.there /\ o.n = s.rd.tot /\ k \in Positions(o)
    BY OpenSound
  <1>2. after \in SUBSET (o.killed \cup {k})
    <2> HIDE DEF k, o
    <2> QED
      OBVIOUS
  <1>3. ChangeStatus(s, k, mode) = PutOpen(s, c)
    BY DEF ChangeStatus
  <1> HIDE DEF k, o, after
  <1>4. /\ c \in Conference /\ c.n = o.n /\ c.last = o.last /\ c.there = o.there
        /\ c.killed = after
    <2>1. after \in SUBSET Nat
      BY <1>1, <1>2 DEF Conference, Positions
    <2> QED
      BY <1>1, <2>1 DEF Conference
  <1> HIDE DEF c
  <1>5. Positions(c) = Positions(o) /\ InRange(c)
    BY <1>1, <1>2, <1>4 DEF Positions, InRange
  <1> DEFINE t == IF mode \in {"kill", "nuke", "private"} /\ ~s.rd.dead THEN PutOpen(s, c) ELSE s
  <1>6. ReadAt(s, mode) = ReadRecord(t, k, FALSE)
    BY <1>3 DEF ReadAt, k
  <1>7. Sound(t, curBoard, rep) /\ FilesOpen(t.rd) /\ k \in Positions(OpenConf(t))
    <2>1. /\ Sound(PutOpen(s, c), curBoard, rep) /\ PutOpen(s, c).rd = s.rd
          /\ OpenConf(PutOpen(s, c)) = c
      BY <1>1, <1>4, <1>5, PutOpenSound
    <2> QED
      BY <1>1, <1>5, <2>1 DEF o
  <1> HIDE DEF t
  <1> QED
    BY <1>6, <1>7, ReadRecordSound

LEMMA ReadReplySound ==
  ASSUME NEW s, NEW rep, Sound(s, curBoard, rep), NEW mode, FilesOpen(s.rd)
  PROVE  Sound(ReadReply(s, mode), curBoard, rep)
  BY ReadAtSound DEF ReadReply

\* Packing finds the replies where they were promised to be.
LEMMA PackedSound ==
  ASSUME NEW s, NEW rep, Sound(s, curBoard, rep), NEW answer, answer = "pack" => rep
  PROVE  Sound(Packed(s, answer), curBoard, rep)
  <1> DEFINE o == s.disk[curBoard][REPL_CONF]
             c == Opened(o)
             t == [s EXCEPT !.disk[curBoard][REPL_CONF] = c]
             u == [[t EXCEPT !.rd.hdr = NoMsg] EXCEPT !.rd.body = NoMsg]
  <1>1. Packed(s, answer) = s \/ (answer = "pack" /\ Packed(s, answer) \in {t, u})
    BY DEF Packed
  <1>2. ASSUME answer = "pack"
        PROVE  /\ curBoard \in Board /\ REPL_CONF \in Numbers /\ c = o
               /\ o \in Conference /\ InRange(o) /\ o.there /\ o.n > 0
    <2>1. curBoard \in Board /\ o.there /\ REPL_CONF \in Numbers
      BY <1>2, NumbersType DEF Sound, Promised
    <2> QED
      BY <2>1 DEF Opened, Sound, Whole, Fits, InRanges, Sessions
  <1>3. answer = "pack" /\ FilesOpen(s.rd) /\ REPL_CONF = s.rd.fh => o.n = s.rd.tot
    BY DEF Sound, Current
  <1> HIDE DEF c, o
  <1>4. answer = "pack" => Sound(t, curBoard, rep)
    BY <1>2, <1>3, PutSound
  <1> HIDE DEF t
  <1>5. answer = "pack" => Sound(u, curBoard, rep)
    <2>1. NoMsg \in Int /\ 0 \in Int
      BY DEF NoMsg
    <2> QED
      BY <1>4, <2>1, MoveSound
  <1> QED
    BY <1>1, <1>4, <1>5

LEMMA LeavingSound ==
  ASSUME NEW rep, Sound(Session, curBoard, rep), NEW answer, answer = "pack" => rep
  PROVE  Sound(Leaving(answer), curBoard, rep)
  <1>1. Sound(Packed(Session, answer), curBoard, rep)
    BY PackedSound
  <1> QED
    BY <1>1, UpdateConfSound DEF Leaving

\* Every conference a packet has written to has a message.
LEMMA TossedSound ==
  ASSUME NEW s, NEW rep, Sound(s, curBoard, rep), NEW b \in Board,
         NEW new \in [Regular(b) -> Nat], NEW mine \in Nat
  PROVE  LET t == Tossed(s, b, new, mine)
         IN  t \in Sessions /\ InRanges(t) /\ Whole(t) /\ t.rd = s.rd
  <1> DEFINE t == Tossed(s, b, new, mine)
  <1>1. s \in Sessions /\ t \in Sessions /\ InRanges(t)
    BY TossedFits DEF Sound, Fits
  <1>2. t.rd = s.rd /\ \A e \in Board : e # b => t.disk[e] = s.disk[e]
    BY <1>1 DEF Tossed, Sessions
  <1>3. ASSUME NEW f \in Numbers, t.disk[b][f].there
        PROVE  t.disk[b][f].n > 0
    <2> DEFINE o == s.disk[b][f]
               after == CASE f \in Regular(b) /\ new[f] > 0 -> Extended(o, new[f])
                          [] f = PERS_CONF -> IF mine > 0 THEN Extended(o, mine)
                                              ELSE IF o.n = 0 THEN Absent ELSE o
                          [] OTHER -> o
    <2>1. t.disk[b][f] = after
      BY <1>1, <1>3 DEF Tossed, Sessions
    <2>2. o \in Conference /\ (o.there => o.n > 0)
      BY <1>1 DEF Sound, Whole, Sessions
    <2>3. f \in Regular(b) => new[f] \in Nat
      OBVIOUS
    <2>4. \A k \in Nat : k > 0 => Extended(o, k).n > 0
      <3> HIDE DEF o
      <3> QED
        BY <2>2 DEF Extended, Conference
    <2>5. ~Absent.there
      BY DEF Absent
    <2>6. \/ f \in Regular(b) /\ new[f] > 0 /\ after = Extended(o, new[f])
          \/ mine > 0 /\ after = Extended(o, mine)
          \/ after = Absent \/ after = o
      <3> HIDE DEF o
      <3> QED
        OBVIOUS
    <2> HIDE DEF o, after, t
    <2> QED
      BY <1>3, <2>1, <2>2, <2>3, <2>4, <2>5, <2>6
  <1> HIDE DEF t
  <1>4. Whole(t)
    BY <1>2, <1>3 DEF Sound, Whole
  <1> QED
    BY <1>1, <1>2, <1>4 DEF t

\* Joining conference i of a board: the old files are closed first.
LEMMA JoinBoardSound ==
  ASSUME NEW s \in Sessions, InRanges(s), Whole(s), s.rd.dead = FALSE, NEW b \in Board,
         NEW i \in 0 .. LastConf(b), NEW del \in BOOLEAN, NEW rep,
         rep => ~del /\ s.disk[b][REPL_CONF].there
  PROVE  LET u == CloseFiles(IF del THEN DeleteReplies(s, b) ELSE s)
         IN  Sound(GetConf([u EXCEPT !.rd.conf = i], b, b, i), b, rep)
  <1> DEFINE d == IF del THEN DeleteReplies(s, b) ELSE s
             u == CloseFiles(d)
             v == [u EXCEPT !.rd.conf = i]
  <1>1. LET t == DeleteReplies(s, b)
        IN  t \in Sessions /\ InRanges(t) /\ Whole(t) /\ t.rd = s.rd
    <2> DEFINE t == DeleteReplies(s, b)
    <2>1. InRange(Absent) /\ Absent.there = FALSE
      BY DEF InRange, Absent, Positions, VIRGINDX
    <2>2. t \in Sessions /\ InRanges(t)
      BY <2>1, DeleteType, PutInRanges DEF DeleteReplies
    <2>3. t.rd = s.rd /\ \A e \in Board, g \in Numbers :
            t.disk[e][g] = IF e = b /\ g = REPL_CONF THEN Absent ELSE s.disk[e][g]
      BY DEF DeleteReplies, Sessions
    <2> HIDE DEF t
    <2>4. Whole(t)
      BY <2>1, <2>3 DEF Whole
    <2> QED
      BY <2>2, <2>3, <2>4 DEF t
  <1>2. d \in Sessions /\ InRanges(d) /\ Whole(d) /\ d.rd.dead = FALSE /\ Promised(d, b, rep)
    BY <1>1 DEF Promised
  <1> HIDE DEF d
  <1>3. u \in Sessions /\ u.disk = d.disk /\ u.rd.dead = FALSE /\ ~FilesOpen(u.rd)
    BY <1>2, CloseFields
  <1> HIDE DEF u
  <1>4. i \in Nat /\ i <= LastConf(b)
    BY TableOrder
  <1>5. /\ v \in Sessions /\ v.disk = u.disk /\ v.rd.dead = FALSE /\ ~FilesOpen(v.rd)
        /\ v.rd.conf = i
    BY <1>3, <1>4 DEF Sessions, Reader, FilesOpen
  <1> HIDE DEF v
  <1>6. InRanges(v) /\ Whole(v) /\ Promised(v, b, rep)
    BY <1>2, <1>3, <1>5 DEF InRanges, Whole, Promised
  <1>7. Sound(v, b, rep)
    BY <1>4, <1>5, <1>6, ClosedSound
  <1>8. Sound(GetConf(v, b, b, i), b, rep)
    BY <1>7, GetConfSound DEF Tables
  <1> QED
    BY <1>8 DEF v, u, d

----------------------------------------------------------------------------
(* Purging.                                                                *)

LEMMA PurgeAdjustSound ==
  ASSUME NEW s, Sound(s, curBoard, FALSE), NEW i
  PROVE  /\ Sound(PurgeAdjust(s, i), curBoard, FALSE)
         /\ FilesOpen(PurgeAdjust(s, i).rd) => PurgeAdjust(s, i).rd.conf # i
  <1> DEFINE u == CloseFiles(s)
             t == PurgeAdjust(s, i)
             first == u.rd.first /\ ~FilesOpen(s.rd)
             zero == 0
  <1>1. t \in Sessions /\ s \in Sessions
    BY SoundType, PurgeAdjustType
  <1>2. CASE i # s.rd.conf
    <2>1. t = s
      BY <1>2 DEF PurgeAdjust
    <2> QED
      BY <1>2, <2>1
  <1>3. CASE i = s.rd.conf
    <2>1. /\ u \in Sessions /\ u.disk = s.disk /\ u.rd.conf = s.rd.conf
          /\ u.rd.dead = FALSE /\ ~FilesOpen(u.rd)
      BY <1>1, CloseFields DEF Sound
    <2>2. t = [u EXCEPT !.rd.last = zero, !.rd.num = zero, !.rd.tot = zero, !.rd.first = first]
      BY <1>3 DEF PurgeAdjust
    <2> HIDE DEF u, first, zero, t
    <2>3. /\ t.disk = u.disk /\ t.rd.fh = u.rd.fh /\ t.rd.dead = u.rd.dead
          /\ t.rd.conf = u.rd.conf
      BY <2>1, <2>2 DEF Sessions, Reader
    <2>4. InRanges(t) /\ Whole(t) /\ ~FilesOpen(t.rd) /\ Promised(t, curBoard, FALSE)
      BY <2>1, <2>3 DEF Sound, Fits, InRanges, Whole, FilesOpen, Promised
    <2>5. Sound(t, curBoard, FALSE)
      BY <1>1, <2>1, <2>3, <2>4, ClosedSound DEF Sound, t
    <2> QED
      BY <2>4, <2>5 DEF t
  <1> QED
    BY <1>2, <1>3

\* The conference that is rewritten or removed is not open.
LEMMA PurgeConfSound ==
  ASSUME tbl = curBoard, Loaded, curBoard \in Board, Sound(Session, curBoard, FALSE),
         NEW i \in 0 .. LastConf(tbl), NEW after \in Conference, InRange(after),
         after.there => after.n > 0, NEW clips \in BOOLEAN
  PROVE  Sound(PurgeConf(i, after, clips), curBoard, FALSE)
  <1> DEFINE f == ConfNumbers(tbl)[i]
             s == PurgeAdjust(Session, i)
             unlinked == s.rd.fh = f /\ ~s.rd.own.there /\ (clips \/ ~after.there)
             own  == IF unlinked THEN s.disk[curBoard][f] ELSE s.rd.own
             hdr  == IF clips THEN NoMsg ELSE s.rd.hdr
             body == IF clips THEN NoMsg ELSE s.rd.body
             t1 == [s EXCEPT !.rd.own = own]
             t2 == [t1 EXCEPT !.disk[curBoard][f] = after]
             t  == [[t2 EXCEPT !.rd.hdr = hdr] EXCEPT !.rd.body = body]
  <1>1. PurgeConf(i, after, clips) \in {GetConf(t, curBoard, tbl, i), t}
    BY DEF PurgeConf
  <1>2. Sound(s, curBoard, FALSE) /\ (FilesOpen(s.rd) => s.rd.conf # i) /\ s \in Sessions
    BY PurgeAdjustSound, SoundType
  <1>3. f \in Numbers /\ f # NoFile
    BY TableType, NumbersType DEF Tables, NoFile
  <1>4. s.rd.fh # f
    <2> SUFFICES ASSUME s.rd.fh = f PROVE FALSE
      OBVIOUS
    <2>1. FilesOpen(s.rd)
      BY <1>3 DEF FilesOpen
    <2>2. s.rd.conf \in 0 .. LastConf(curBoard) /\ s.rd.fh = ConfNumbers(curBoard)[s.rd.conf]
      <3>1. s.rd.conf \in Nat /\ LastConf(curBoard) \in Nat
        BY <1>2, SoundType, TableOrder
      <3>2. s.rd.conf <= LastConf(curBoard) /\ s.rd.fh = ConfNumbers(curBoard)[s.rd.conf]
        BY <1>2, <2>1 DEF Sound, Current
      <3> QED
        BY <3>1, <3>2
    <2> QED
      BY <1>2, <2>1, <2>2, TableOrder
  <1>5. own = s.rd.own
    BY <1>4
  <1>6. /\ hdr \in {NoMsg, s.rd.hdr} /\ body \in {NoMsg, s.rd.body}
        /\ hdr \in Int /\ body \in Int
    <2>1. s.rd.hdr \in Int /\ s.rd.body \in Int
      BY <1>2 DEF Sessions, Reader
    <2> HIDE DEF s
    <2> QED
      BY <2>1 DEF NoMsg
  <1> HIDE DEF f, s, unlinked, own, hdr, body
  <1>7. t1 = s
    BY <1>2, <1>5 DEF Sessions, Reader
  <1> HIDE DEF t1
  <1>8. Sound(t2, curBoard, FALSE) /\ t2.rd = s.rd
    <2>1. Sound([s EXCEPT !.disk[curBoard][f] = after], curBoard, FALSE)
      BY <1>2, <1>3, <1>4, PutSound
    <2>2. [s EXCEPT !.disk[curBoard][f] = after].rd = s.rd
      BY <1>2 DEF Sessions
    <2> QED
      BY <1>7, <2>1, <2>2
  <1> HIDE DEF t2
  <1>9. Sound(t, curBoard, FALSE)
    <2>1. t2 \in Sessions
      BY <1>8, SoundType
    <2>2. t \in Sessions
      BY <1>6, <2>1, IntFieldType
    <2>3. /\ t.disk = t2.disk /\ t.rd.fh = t2.rd.fh /\ t.rd.own = t2.rd.own
          /\ t.rd.conf = t2.rd.conf /\ t.rd.tot = t2.rd.tot /\ t.rd.dead = t2.rd.dead
          /\ t.rd.pos = t2.rd.pos /\ t.rd.num = t2.rd.num /\ t.rd.hdr = hdr /\ t.rd.body = body
      BY <2>1 DEF Sessions, Reader
    <2> HIDE DEF t
    <2>4. FilesOpen(t2.rd) => -1 \in -1 .. t2.rd.tot - 1
      <3>1. FilesOpen(t2.rd) => t2.rd.tot \in Int /\ t2.rd.tot > 0
        BY <1>8, SoundType
      <3> QED
        BY <3>1
    <2>5. FilesOpen(t2.rd) => hdr \in -1 .. t2.rd.tot - 1 /\ body \in -1 .. t2.rd.tot - 1
      BY <1>6, <1>8, <2>4 DEF Sound, Current, NoMsg
    <2>6. FilesOpen(t2.rd) => t2.rd.pos \in 0 .. t2.rd.tot /\ t2.rd.num \in 0 .. t2.rd.tot - 1
      BY <1>8 DEF Sound, Current
    <2>7. t2.rd.dead = FALSE
      BY <1>8 DEF Sound
    <2> QED
      BY <1>8, <2>2, <2>3, <2>5, <2>6, <2>7, SoundFrom
  <1> HIDE DEF t
  <1> QED
    BY <1>1, <1>9, GetConfSound DEF Tables

\* A purge leaves no conference without messages.
LEMMA ClipWhole ==
  ASSUME NEW c \in Conference, c.there => c.n > 0, NEW cmd, NEW k \in Nat,
         Clip(c, cmd, k).there
  PROVE  Clip(c, cmd, k).n > 0
  <1> DEFINE start == IF cmd = "C" THEN 0 ELSE c.n - k
             kept  == {p \in Live(c) : p >= start}
  <1>1. Clip(c, cmd, k) = c \/ Clip(c, cmd, k) = Clipped(c, start)
    BY DEF Clip
  <1>2. CASE Clip(c, cmd, k) = Clipped(c, start)
    <2>1. kept # {} /\ Clipped(c, start).n = Cardinality(kept)
      BY <1>2 DEF Clipped, Absent
    <2>2. IsFiniteSet(kept)
      <3>1. c.n - 1 \in Int /\ 0 \in Int
        BY DEF Conference
      <3>2. IsFiniteSet(Positions(c))
        BY <3>1, FS_Interval DEF Positions
      <3> QED
        BY <3>2, FS_Subset DEF Live
    <2>3. Cardinality(kept) \in Nat /\ Cardinality(kept) # 0
      BY <2>1, <2>2, FS_CardinalityType, FS_EmptySet
    <2> QED
      BY <1>2, <2>1, <2>3
  <1> QED
    BY <1>1, <1>2

----------------------------------------------------------------------------
(* The commands.                                                           *)

LEMMA OpenState ==
  ASSUME OpenInv
  PROVE  /\ PointerInv /\ TypeOK /\ tbl = curBoard /\ curBoard \in Tables
         /\ (Loaded => curBoard \in Board)
         /\ active \in [0 .. LastConf(curBoard) -> BOOLEAN]
         /\ Session \in Sessions /\ Session.rd = rd /\ Session.disk = disk
         /\ Sound(Session, curBoard, Promising) /\ Sound(Session, curBoard, FALSE)
         /\ pc \in Prompting => Sound(Session, curBoard, replyExist)
         /\ rd.conf \in 0 .. LastConf(curBoard)
  <1>1. /\ PointerInv /\ TypeOK /\ tbl = curBoard /\ curBoard \in Tables
        /\ (Loaded => curBoard \in Board)
        /\ active \in [0 .. LastConf(curBoard) -> BOOLEAN]
        /\ Session \in Sessions /\ Session.rd = rd /\ Session.disk = disk
        /\ Sound(Session, curBoard, Promising)
    BY PointerState DEF OpenInv
  <1>2. /\ Sound(Session, curBoard, FALSE)
        /\ pc \in Prompting => Sound(Session, curBoard, replyExist)
    <2>1. (FALSE => Promising) /\ (pc \in Prompting => (replyExist => Promising))
      BY DEF Promising
    <2> QED
      BY <1>1, <2>1, WeakSound
  <1>3. rd.conf \in Nat /\ rd.conf <= LastConf(curBoard) /\ LastConf(curBoard) \in Nat
    BY <1>1, SoundType, TableType DEF Sound
  <1>4. rd.conf \in 0 .. LastConf(curBoard)
    BY <1>3
  <1> QED
    BY <1>1, <1>2, <1>4, Zenon

\* The step's session is what the next one finds.
LEMMA GotoSound ==
  ASSUME NEW s, NEW rep, Sound(s, curBoard', rep), NEW label, Goto(s, label),
         replyExist' /\ label \in Prompting => rep
  PROVE  Sound(Session, curBoard, Promising)'
  <1> DEFINE t == [disk |-> disk', rd |-> rd', crash |-> FALSE]
  <1>1. /\ s \in Sessions /\ s.disk = t.disk /\ s.rd = t.rd
        /\ Promising' => rep
    BY SoundType DEF Goto, Promising, Prompting
  <1>2. t \in Sessions
    BY <1>1 DEF Sessions
  <1>3. Session' = t
    BY DEF Session
  <1> HIDE DEF t
  <1>4. /\ s.rd.dead = FALSE
        /\ FilesOpen(s.rd) =>
             /\ s.rd.pos \in 0 .. s.rd.tot /\ s.rd.num \in 0 .. s.rd.tot - 1
             /\ s.rd.hdr \in -1 .. s.rd.tot - 1 /\ s.rd.body \in -1 .. s.rd.tot - 1
    BY DEF Sound, Current
  <1>5. Sound(t, curBoard', rep)
    BY <1>1, <1>2, <1>4, SoundFrom
  <1>6. Sound(t, curBoard', Promising')
    BY <1>1, <1>5, WeakSound
  <1> QED
    BY <1>3, <1>6

LEMMA KeptSound ==
  ASSUME pc \in Prompting, curBoard' = curBoard, replyExist' => replyExist,
         NEW s, Sound(s, curBoard, replyExist), NEW label, Goto(s, label)
  PROVE  Sound(Session, curBoard, Promising)'
  BY GotoSound

LEMMA ReadingSound ==
  ASSUME OpenInv, NEW mode, ReadNext(mode) \/ Scan(mode) \/ GoToNum
  PROVE  Sound(Session, curBoard, Promising)'
  <1>1. /\ Sound(Session, curBoard, replyExist) /\ curBoard \in Board /\ Session.rd = rd
        /\ curBoard' = curBoard /\ replyExist' = replyExist /\ TypeOK /\ pc \in Prompting
    BY OpenState DEF ReadNext, Scan, GoToNum, Prompt, table, Prompting
  <1>2. CASE ReadNext(mode)
    <2>1. CASE FilesOpen(rd) /\ Target(Session, mode) \in Positions(OpenConf(Session))
               /\ Goto(ReadAt(Session, mode), "shell")
      BY <1>1, <2>1, ReadAtSound, KeptSound
    <2>2. CASE Goto(Session, "next")
      BY <1>1, <2>2, KeptSound
    <2> QED
      BY <1>2, <2>1, <2>2 DEF ReadNext
  <1>3. CASE GoToNum
    <2>1. PICK m \in 1 .. MaxMsgs : Goto(SeekNum(Session, m), "shell")
      BY <1>3 DEF GoToNum
    <2>2. m \in Int
      BY SessionAssumption
    <2> QED
      BY <1>1, <2>1, <2>2, SeekNumSound, KeptSound
  <1>4. CASE Scan(mode)
    <2> DEFINE quick == mode = "qscan"
               read(k) == IF k < 0 THEN Session ELSE ReadRecord(Session, k, quick)
               m(k) == IF read(k).rd.num = 0 THEN 1 ELSE read(k).rd.num
               seek(k) == SeekNum(read(k), m(k))
               zero == 0
               back(k) == [seek(k) EXCEPT !.rd.pos = zero]
    <2>1. PICK k \in -1 .. MaxMsgs - 1 :
            /\ IF FilesOpen(rd) /\ rd.pos < OpenConf(Session).n
               THEN k \in rd.pos .. OpenConf(Session).n - 1 ELSE k = -1
            /\ Goto(read(k), "shell") \/ Goto(seek(k), "shell") \/ Goto(back(k), "shell")
      BY <1>4 DEF Scan
    <2>2. k < 0 \/ (FilesOpen(rd) /\ k \in Positions(OpenConf(Session)))
      <3>1. FilesOpen(rd) => OpenConf(Session) \in Conference
        BY <1>1, OpenSound
      <3>2. rd.pos \in Int /\ k \in Int
        BY <1>1, <2>1, SessionAssumption DEF TypeOK, Reader
      <3> QED
        BY <2>1, <3>1, <3>2 DEF Positions, Conference
    <2>3. Sound(read(k), curBoard, replyExist)
      <3>1. quick \in BOOLEAN
        OBVIOUS
      <3> HIDE DEF quick
      <3>2. ~(k < 0) => Sound(ReadRecord(Session, k, quick), curBoard, replyExist)
        BY <1>1, <2>2, <3>1, ReadRecordSound
      <3> QED
        BY <1>1, <3>2
    <2>4. m(k) \in Int /\ zero \in Int
      <3>1. read(k).rd.num \in Int
        BY <2>3, SoundType
      <3> HIDE DEF read
      <3> QED
        BY <3>1
    <2> HIDE DEF read, m
    <2>5. Sound(seek(k), curBoard, replyExist)
      BY <2>3, <2>4, SeekNumSound
    <2> HIDE DEF seek
    <2>6. Sound(back(k), curBoard, replyExist)
      <3>1. FilesOpen(seek(k).rd) => zero \in 0 .. seek(k).rd.tot
        BY <2>5, SoundType
      <3> HIDE DEF zero
      <3> QED
        BY <2>4, <2>5, <3>1, MoveSound
    <2> HIDE DEF back, zero
    <2> QED
      BY <1>1, <2>1, <2>3, <2>5, <2>6, KeptSound
  <1> QED
    BY <1>2, <1>3, <1>4

\* What ActvConf finds of the replies.
LEMMA ReplyFound ==
  ASSUME NEW b \in Board, NEW d, NEW x \in ReplyFlags(ActvConf(d, b, b), b), x
  PROVE  d[b][REPL_CONF].there
  <1>1. b # NoBoard /\ RCONF_IDX(b) \in 0 .. LastConf(b) /\ ConfNumbers(b)[RCONF_IDX(b)] = REPL_CONF
    BY SessionAssumption, TableOrder
  <1>2. ActvConf(d, b, b)[RCONF_IDX(b)]
    BY <1>1 DEF ReplyFlags
  <1>3. ActvConf(d, b, b)[RCONF_IDX(b)] = (b # NoBoard /\ d[b][ConfNumbers(b)[RCONF_IDX(b)]].there)
    BY <1>1 DEF ActvConf
  <1> QED
    BY <1>1, <1>2, <1>3, Zenon

LEMMA ConferenceSound ==
  ASSUME OpenInv, Reset \/ Join \/ NextConf \/ AutoJoin \/ AutoJoinTurn \/ AutoJoinEnd \/ ListConf
  PROVE  Sound(Session, curBoard, Promising)'
  <1>1. curBoard' = curBoard /\ pc \in Prompting
    BY DEF Reset, Join, NextConf, AutoJoin, AutoJoinTurn, AutoJoinEnd, ListConf, table, Prompt, Prompting
  <1>2. Sound(Session, curBoard, replyExist) /\ Sound(UpdateConf(Session, TRUE), curBoard, replyExist)
    BY <1>1, OpenState, UpdateConfSound
  <1>3. \A i : Sound(ChConf(Session, i), curBoard, replyExist)
    BY <1>2, OpenState, ChConfSound
  <1>4. CASE ListConf
    <2>1. /\ Session' = Session /\ Loaded /\ pc' = pc
          /\ active' = ActvConf(disk, curBoard, curBoard) /\ replyExist' \in ReplyFlags(active', curBoard)
      BY <1>4, OpenState DEF ListConf, Session, Prompt
    <2>2. curBoard \in Board /\ Session.disk = disk
      BY <2>1, OpenState
    <2>3. Promised(Session, curBoard, Promising')
      BY <2>1, <2>2, ReplyFound DEF Promised, Promising
    <2>4. Sound(Session, curBoard, Promising')
      BY <1>2, <2>3 DEF Sound
    <2> QED
      BY <1>1, <2>1, <2>4
  <1>5. CASE Reset \/ Join \/ NextConf \/ AutoJoin \/ AutoJoinTurn \/ AutoJoinEnd
    <2>1. \/ \E label : Goto(Session, label)
          \/ \E label : Goto(UpdateConf(Session, TRUE), label)
          \/ \E i, label : Goto(ChConf(Session, i), label)
      BY <1>5 DEF Reset, Join, NextConf, AutoJoin, AutoJoinTurn, AutoJoinEnd
    <2>2. replyExist' = replyExist
      BY <1>5 DEF Reset, Join, NextConf, AutoJoin, AutoJoinTurn, AutoJoinEnd, table
    <2> QED
      BY <1>1, <1>2, <1>3, <2>1, <2>2, KeptSound
  <1> QED
    BY <1>4, <1>5

LEMMA PurgingSound ==
  ASSUME OpenInv, Purge \/ PurgeTurn \/ PurgeEnd
  PROVE  Sound(Session, curBoard, Promising)'
  <1>1. /\ curBoard' = curBoard /\ tbl = curBoard /\ Sound(Session, curBoard, FALSE)
        /\ Sound(UpdateConf(Session, FALSE), curBoard, FALSE)
    BY OpenState, UpdateConfSound DEF Purge, PurgeTurn, PurgeEnd, table
  <1>2. curBoard \in Board /\ Loaded
    BY OpenState DEF OpenInv, PointerInv, TypeInv, Purge, PurgeTurn, PurgeEnd, Prompt
  <1>3. "purge" \notin Prompting
    BY DEF Prompting
  <1>4. CASE Purge
    <2>1. PICK s \in {Session, UpdateConf(Session, FALSE)} : Goto(s, "purge")
      BY <1>4 DEF Purge
    <2> QED
      BY <1>1, <1>3, <2>1, GotoSound
  <1>5. CASE PurgeTurn
    <2> DEFINE i == lp.i
               c == disk[curBoard][ConfNumbers(tbl)[i]]
    <2>1. i \in 0 .. LastConf(tbl)
      BY <1>5, OpenState, TableType DEF PurgeTurn, OpenInv, PointerInv, TypeInv, TypeOK
    <2>2. c \in Conference /\ InRange(c) /\ (c.there => c.n > 0)
      <3>1. ConfNumbers(tbl)[i] \in Numbers
        BY <1>1, <2>1, OpenState, TableType
      <3>2. disk = Session.disk
        BY OpenState
      <3>3. Session \in Sessions /\ InRanges(Session) /\ Whole(Session)
        BY <1>1, SoundType DEF Sound
      <3> QED
        BY <1>2, <3>1, <3>2, <3>3 DEF Whole, InRanges, Sessions
    <2>3. CASE Goto(Session, "purge")
      BY <1>1, <1>3, <2>3, GotoSound
    <2>4. CASE Goto(PurgeConf(i, Absent, FALSE), "purge")
      <3>1. InRange(Absent) /\ ~Absent.there /\ Absent \in Conference
        BY ConferenceType DEF InRange, Absent, Positions, VIRGINDX
      <3>2. Sound(PurgeConf(i, Absent, FALSE), curBoard, FALSE)
        <4> HIDE DEF i
        <4> QED
          BY <1>1, <1>2, <2>1, <3>1, PurgeConfSound
      <3> QED
        BY <1>1, <1>3, <2>4, <3>2, GotoSound
    <2>5. CASE \E cmd \in {"C", "T"}, k \in 0 .. MaxMsgs :
                 Goto(PurgeConf(i, Clip(c, cmd, k), Clips(c, cmd, k)), "purge")
      <3>1. PICK cmd \in {"C", "T"}, k \in 0 .. MaxMsgs :
              Goto(PurgeConf(i, Clip(c, cmd, k), Clips(c, cmd, k)), "purge")
        BY <2>5
      <3>2. k \in Nat /\ Clips(c, cmd, k) \in BOOLEAN
        BY SessionAssumption DEF Clips
      <3> HIDE DEF c, i
      <3>3. Clip(c, cmd, k) \in Conference /\ InRange(Clip(c, cmd, k))
        BY <2>2, <3>2, ClipType, ClipInRange
      <3>4. Clip(c, cmd, k).there => Clip(c, cmd, k).n > 0
        BY <2>2, <3>2, ClipWhole
      <3>5. Sound(PurgeConf(i, Clip(c, cmd, k), Clips(c, cmd, k)), curBoard, FALSE)
        BY <1>1, <1>2, <2>1, <3>2, <3>3, <3>4, PurgeConfSound
      <3> QED
        BY <1>1, <1>3, <3>1, <3>5, GotoSound
    <2> QED
      BY <1>5, <2>3, <2>4, <2>5 DEF PurgeTurn
  <1>6. CASE PurgeEnd
    <2>1. active' = ActvConf(disk, curBoard, curBoard) /\ replyExist' \in ReplyFlags(active', curBoard)
      BY <1>1, <1>6 DEF PurgeEnd
    <2>2. Promised(Session, curBoard, replyExist')
      BY <1>2, <2>1, OpenState, ReplyFound DEF Promised
    <2>3. Sound(Session, curBoard, replyExist')
      BY <1>1, <2>2 DEF Sound
    <2>4. Sound(GetConf(Session, curBoard, curBoard, rd.conf), curBoard, replyExist')
      BY <2>3, OpenState, GetConfSound
    <2>5. PICK s \in {Session, GetConf(Session, curBoard, curBoard, rd.conf)} :
            \E label : Goto(s, label)
      BY <1>1, <1>6 DEF PurgeEnd
    <2> QED
      BY <1>1, <2>3, <2>4, <2>5, GotoSound
  <1> QED
    BY <1>4, <1>5, <1>6

LEMMA QuitSound ==
  ASSUME OpenInv, Quit
  PROVE  Sound(Session, curBoard, Promising)'
  <1> DEFINE s == IF Loaded THEN UpdateConf(Session, FALSE) ELSE Session
  <1>1. PICK answer \in PackAnswers : Goto(Packed(s, answer), "exit")
    BY DEF Quit
  <1>2. /\ Sound(s, curBoard, replyExist) /\ curBoard' = curBoard /\ replyExist' = replyExist
        /\ pc \in Prompting
    BY OpenState, UpdateConfSound DEF Quit, AtPrompt, table, Prompting
  <1>3. answer = "pack" => replyExist
    BY DEF PackAnswers
  <1> HIDE DEF s
  <1>4. Sound(Packed(s, answer), curBoard, replyExist)
    BY <1>2, <1>3, PackedSound
  <1> QED
    BY <1>1, <1>2, <1>4, KeptSound

LEMMA LoadNothingSound ==
  ASSUME OpenInv, LoadNothing
  PROVE  Sound(Session, curBoard, Promising)'
  <1>1. pc \in Prompting /\ Sound(Session, curBoard, replyExist)
    BY OpenState DEF LoadNothing, AtPrompt, Prompting
  <1>2. PICK answer \in PackAnswers :
          Goto(Packed(Session, answer), "shell") /\ replyExist' = ReplyLeft(Session, answer)
    BY DEF LoadNothing
  <1>3. answer = "pack" => replyExist
    BY DEF PackAnswers
  <1>4. Sound(Packed(Session, answer), curBoard, replyExist)
    BY <1>1, <1>3, PackedSound
  <1>5. curBoard' = curBoard /\ (replyExist' => replyExist)
    BY <1>2 DEF LoadNothing, ReplyLeft
  <1> QED
    BY <1>1, <1>2, <1>4, <1>5, KeptSound

\* Load joins a conference of the new board; its table is the new board's.
LEMMA JoinLoadedSound ==
  ASSUME NEW s \in Sessions, InRanges(s), Whole(s), s.rd.dead = FALSE, NEW b \in Board,
         NEW mine \in Nat, JoinLoaded(s, b, b, mine)
  PROVE  Sound(Session, curBoard, Promising)'
  <1> DEFINE a   == ActvConf(s.disk, b, b)
             has == s.disk[b][REPL_CONF].there
             i   == IF mine > 0 THEN PCONF_IDX(b) ELSE FirstActive(active', b)
             u(del) == CloseFiles(IF del THEN DeleteReplies(s, b) ELSE s)
             v(del) == [u(del) EXCEPT !.rd.conf = i]
  <1>1. b # NoBoard
    BY SessionAssumption
  <1>2. PICK del \in BOOLEAN :
          /\ active' = IF del /\ b # NoBoard THEN [a EXCEPT ![RCONF_IDX(b)] = FALSE] ELSE a
          /\ Goto(GetConf(v(del), b, b, i), "shell")
          /\ replyExist' = (has /\ ~del) /\ curBoard' = b
    BY <1>1 DEF JoinLoaded
  <1>3. i \in 0 .. LastConf(b)
    <2>1. a \in [0 .. LastConf(b) -> BOOLEAN]
      BY ActiveType DEF Sessions, Tables
    <2>2. active' \in [0 .. LastConf(b) -> BOOLEAN]
      <3> HIDE DEF a
      <3> QED
        BY <1>2, <2>1
    <2> QED
      BY <2>2, TableOrder, FindActiveIndex DEF Tables
  <1>4. replyExist' => ~del /\ s.disk[b][REPL_CONF].there
    BY <1>2
  <1> HIDE DEF i
  <1>5. Sound(GetConf(v(del), b, b, i), b, replyExist')
    BY <1>3, <1>4, JoinBoardSound
  <1> HIDE DEF v
  <1> QED
    BY <1>2, <1>5, GotoSound

LEMMA LoadSound ==
  ASSUME OpenInv, Faults \subseteq {"messages"}, NEW b \in Board,
         LoadPacket(b) \/ LoadUnopened(b) \/ LoadPartial(b)
  PROVE  Sound(Session, curBoard, Promising)'
  <1>1. pc \in Prompting /\ Sound(Session, curBoard, replyExist)
    BY OpenState DEF LoadPacket, LoadUnopened, LoadPartial, AtPrompt, Prompting
  <1>2. \A answer \in PackAnswers : answer = "pack" => replyExist
    BY DEF PackAnswers
  <1>3. \A answer \in PackAnswers : Sound(Leaving(answer), curBoard, replyExist)
    BY <1>1, <1>2, LeavingSound
  <1>4. CASE LoadPacket(b)
    <2>1. PICK answer \in PackAnswers, p \in Packets(b) :
            JoinLoaded(Tossed(Leaving(answer), b, p.new, p.mine), b, b, p.mine)
      BY <1>4 DEF LoadPacket
    <2> DEFINE s == Tossed(Leaving(answer), b, p.new, p.mine)
    <2>2. s \in Sessions /\ InRanges(s) /\ Whole(s) /\ s.rd.dead = FALSE
      BY <1>3, PacketType, TossedSound DEF Sound
    <2> HIDE DEF s
    <2> QED
      BY <2>1, <2>2, PacketType, JoinLoadedSound DEF s
  <1>5. CASE LoadUnopened(b)
    <2>1. PICK answer \in PackAnswers : JoinLoaded(Leaving(answer), b, b, 0)
      BY <1>5 DEF LoadUnopened
    <2> DEFINE s == Leaving(answer)
    <2>2. s \in Sessions /\ InRanges(s) /\ Whole(s) /\ s.rd.dead = FALSE
      BY <1>3, SoundType DEF Sound
    <2> HIDE DEF s
    <2>3. JoinLoaded(s, b, b, 0) /\ 0 \in Nat
      BY <2>1 DEF s
    <2> QED
      BY <2>2, <2>3, JoinLoadedSound
  <1>6. ~LoadPartial(b)
    BY DEF LoadPartial
  <1> QED
    BY <1>4, <1>5, <1>6

LEMMA ReadSound ==
  ASSUME OpenInv, Faults \subseteq {"messages"}, NEW b \in Board, Read(b) \/ ReadUnknown(b)
  PROVE  Sound(Session, curBoard, Promising)'
  <1>1. pc \in Prompting /\ Sound(Session, curBoard, replyExist)
    BY OpenState DEF Read, ReadUnknown, AtPrompt, Prompting
  <1>2. \A answer \in PackAnswers : answer = "pack" => replyExist
    BY DEF PackAnswers
  <1>3. \A answer \in PackAnswers : Sound(Leaving(answer), curBoard, replyExist)
    BY <1>1, <1>2, LeavingSound
  <1>4. CASE Read(b)
    <2> DEFINE u(answer, del) ==
          CloseFiles(IF del THEN DeleteReplies(Leaving(answer), b) ELSE Leaving(answer))
               i == FirstActive(active', b)
               v(answer, del) == [u(answer, del) EXCEPT !.rd.conf = i]
    <2>1. PICK answer \in PackAnswers, del \in BOOLEAN :
            /\ active' = ActvConf(u(answer, del).disk, b, b)
            /\ Goto(GetConf(v(answer, del), b, b, i), "shell")
      BY <1>4 DEF Read
    <2>2. replyExist' = active'[RCONF_IDX(b)] /\ curBoard' = b
      BY <1>4 DEF Read
    <2> DEFINE s == Leaving(answer)
    <2>3. s \in Sessions /\ InRanges(s) /\ Whole(s) /\ s.rd.dead = FALSE
      BY <1>3, SoundType DEF Sound
    <2> HIDE DEF s
    <2> DEFINE d == IF del THEN DeleteReplies(s, b) ELSE s
    <2>4. d \in Sessions /\ d.rd.dead = FALSE
      <3>1. DeleteReplies(s, b) \in Sessions
        BY <2>3, DeleteType
      <3>2. DeleteReplies(s, b).rd = s.rd
        BY <2>3 DEF DeleteReplies, Sessions
      <3> QED
        BY <2>3, <3>1, <3>2
    <2>5. del => ~d.disk[b][REPL_CONF].there
      BY <2>3, NumbersType DEF DeleteReplies, Sessions, Absent
    <2>6. ~del => d.disk = s.disk
      OBVIOUS
    <2>7. u(answer, del) = CloseFiles(d)
      BY DEF s
    <2> HIDE DEF d, u
    <2>8. u(answer, del).disk = d.disk /\ u(answer, del) \in Sessions
      BY <2>4, <2>7, CloseFields
    <2>9. active' \in [0 .. LastConf(b) -> BOOLEAN]
      BY <2>1, <2>8, ActiveType DEF Sessions, Tables
    <2>10. i \in 0 .. LastConf(b)
      BY <2>9, FindActiveIndex DEF Tables
    <2>11. replyExist' => ~del /\ s.disk[b][REPL_CONF].there
      <3>1. b # NoBoard
        BY SessionAssumption
      <3>2. replyExist' \in ReplyFlags(ActvConf(u(answer, del).disk, b, b), b)
        BY <2>1, <2>2, <3>1 DEF ReplyFlags
      <3>3. replyExist' => d.disk[b][REPL_CONF].there
        BY <2>8, <3>2, ReplyFound
      <3> QED
        BY <2>5, <2>6, <3>3
    <2> HIDE DEF i
    <2>12. Sound(GetConf(v(answer, del), b, b, i), b, replyExist')
      BY <2>3, <2>10, <2>11, JoinBoardSound DEF s, u
    <2> HIDE DEF v
    <2> QED
      BY <2>1, <2>2, <2>12, GotoSound
  <1>5. CASE ReadUnknown(b)
    <2>1. PICK answer \in PackAnswers :
            /\ Goto(GetConf(Leaving(answer), curBoard, tbl, rd.conf), "shell")
            /\ replyExist' = ReplyLeft(Session, answer)
      BY <1>5 DEF ReadUnknown
    <2>2. curBoard' = curBoard /\ tbl = curBoard /\ (replyExist' => replyExist)
      BY <1>5, <2>1, OpenState DEF ReadUnknown, ReplyLeft
    <2>3. Sound(GetConf(Leaving(answer), curBoard, curBoard, rd.conf), curBoard, replyExist)
      BY <1>3, OpenState, GetConfSound
    <2> QED
      BY <1>1, <2>1, <2>2, <2>3, KeptSound
  <1> QED
    BY <1>4, <1>5

\* A reply written through the reader's own streams makes the conference one
\* longer, and TotMsg with it.
LEMMA GrownSound ==
  ASSUME Sound(Session, curBoard, FALSE), FilesOpen(rd), rd.fh = REPL_CONF
  PROVE  LET s == PutOpen(Session, Extended(OpenConf(Session), 1))
         IN  /\ Sound([s EXCEPT !.rd.tot = @ + 1], curBoard, TRUE)
             /\ FilesOpen([s EXCEPT !.rd.tot = @ + 1].rd)
  <1> DEFINE o == OpenConf(Session)
             c == Extended(o, 1)
             s == PutOpen(Session, c)
             count == s.rd.tot + 1
             t == [s EXCEPT !.rd.tot = count]
  <1>1. /\ curBoard \in Board /\ ~rd.own.there /\ REPL_CONF \in Numbers
        /\ Session \in Sessions /\ Session.rd = rd /\ Session.disk = disk /\ rd.tot \in Int /\ rd.tot > 0
    <2>1. Session.rd = rd /\ Session.disk = disk
      BY DEF Session
    <2> QED
      BY <2>1, NumbersType, SoundType
  <1>2. o \in Conference /\ InRange(o) /\ o.there /\ o.n = rd.tot /\ Positions(o) = 0 .. rd.tot - 1
    BY <1>1, OpenSound
  <1> HIDE DEF o
  <1>3. c \in Conference /\ InRange(c) /\ c.there /\ c.n = rd.tot + 1
    BY <1>2, ConferenceType, ExtendedInRange DEF Extended
  <1>4. Positions(c) = 0 .. rd.tot
    BY <1>1, <1>3 DEF Positions
  <1> HIDE DEF c
  <1>5. s = [Session EXCEPT !.disk[curBoard][REPL_CONF] = c]
    BY <1>1 DEF PutOpen
  <1> HIDE DEF s
  <1>6. s \in Sessions /\ s.rd = rd /\ \A e \in Board, g \in Numbers :
          s.disk[e][g] = IF e = curBoard /\ g = REPL_CONF THEN c ELSE disk[e][g]
    <2>1. s \in Sessions
      BY <1>1, <1>3, <1>5, PutType
    <2> QED
      BY <1>1, <1>5, <2>1 DEF Sessions
  <1>7. count \in Int /\ count = rd.tot + 1
    BY <1>1, <1>6
  <1> HIDE DEF count
  <1>8. t \in Sessions
    BY <1>6, <1>7, IntFieldType
  <1>9. /\ t.disk = s.disk /\ t.rd.fh = rd.fh /\ t.rd.own = rd.own /\ t.rd.conf = rd.conf
        /\ t.rd.tot = count /\ t.rd.dead = rd.dead /\ t.rd.pos = rd.pos /\ t.rd.num = rd.num
        /\ t.rd.hdr = rd.hdr /\ t.rd.body = rd.body
    BY <1>6 DEF Sessions, Reader
  <1> HIDE DEF t
  <1>10. InRanges(t) /\ Whole(t)
    <2>1. InRanges(Session) /\ Whole(Session) /\ c.n > 0
      BY <1>1, <1>3 DEF Sound, Fits
    <2> QED
      BY <1>1, <1>3, <1>6, <1>9, <2>1 DEF InRanges, Whole
  <1>11. /\ rd.pos \in 0 .. rd.tot /\ rd.num \in 0 .. rd.tot - 1
         /\ rd.hdr \in -1 .. rd.tot - 1 /\ rd.body \in -1 .. rd.tot - 1
         /\ rd.fh = ConfNumbers(curBoard)[rd.conf]
    BY <1>1 DEF Sound, Current
  <1>12. /\ rd.pos \in 0 .. count /\ rd.num \in 0 .. count - 1
         /\ rd.hdr \in -1 .. count - 1 /\ rd.body \in -1 .. count - 1
    BY <1>1, <1>7, <1>11
  <1>13. Current(t, curBoard)
    BY <1>1, <1>3, <1>6, <1>7, <1>9, <1>11, <1>12 DEF Current
  <1>14. Anchored(t, curBoard)
    <2>1. FilesOpen(t.rd) => t.rd.num \in Positions(t.disk[curBoard][t.rd.fh])
      BY <1>13 DEF Current, Positions
    <2> QED
      BY <1>13, <2>1 DEF Current, Anchored
  <1>15. Promised(t, curBoard, TRUE)
    BY <1>1, <1>3, <1>6, <1>9 DEF Promised
  <1>16. Sound(t, curBoard, TRUE)
    BY <1>1, <1>8, <1>9, <1>10, <1>13, <1>14, <1>15 DEF Sound, Fits
  <1>17. FilesOpen(t.rd)
    BY <1>9 DEF FilesOpen
  <1> QED
    BY <1>16, <1>17 DEF t, count, s, c, o

LEMMA ReplySound ==
  ASSUME OpenInv, Faults \subseteq {"messages"}, NEW mode, NEW arg, Reply(mode, arg) \/ ReplyTooBig(mode, arg)
  PROVE  Sound(Session, curBoard, Promising)'
  <1>1. ~ReplyTooBig(mode, arg)
    BY DEF ReplyTooBig
  <1>2. /\ Sound(Session, curBoard, FALSE) /\ Sound(Session, curBoard, replyExist)
        /\ curBoard \in Board /\ tbl = curBoard /\ curBoard' = curBoard /\ pc \in Prompting
        /\ Session.rd = rd /\ Session.disk = disk
    BY <1>1, OpenState DEF Reply, Prompt, Prompting
  <1>3. rd.dead = FALSE /\ rd.conf \in 0 .. LastConf(curBoard)
    BY <1>2, OpenState DEF Sound
  <1>4. FilesOpen(rd) => /\ rd.fh = ConfNumbers(curBoard)[rd.conf]
                         /\ disk[curBoard][rd.fh].there
    BY <1>2 DEF Sound, Current
  <1>5. FilesOpen(rd) => (InReplies <=> rd.fh = REPL_CONF)
    BY <1>2, <1>3, <1>4, TableOrder DEF InReplies
  <1>6. FilesOpen(rd) /\ InReplies => OwnStreams
    BY <1>4, <1>5 DEF OwnStreams
  <1>7. CASE InReplies /\ ~FilesOpen(rd)
    <2>1. Goto(Crash(Session), "shell") /\ replyExist' = replyExist
      BY <1>1, <1>7 DEF Reply
    <2> QED
      BY <1>2, <2>1, CrashSound, KeptSound
  <1>8. CASE InReplies /\ FilesOpen(rd)
    <2> DEFINE s == PutOpen(Session, Extended(OpenConf(Session), 1))
               t == [s EXCEPT !.rd.tot = @ + 1]
               u == IF mode = "change" THEN ReadReply(t, "nuke") ELSE t
    <2>1. Goto(ShowReply(s, mode), "shell")
      BY <1>1, <1>3, <1>6, <1>8 DEF Reply
    <2>2. ShowReply(s, mode) \in {ReadReply(t, "cross"), SeekNum(u, u.rd.tot)}
      BY <1>8 DEF ShowReply
    <2>3. Sound(t, curBoard, TRUE) /\ FilesOpen(t.rd)
      BY <1>2, <1>5, <1>8, GrownSound
    <2> HIDE DEF t
    <2>4. Sound(ReadReply(t, "cross"), curBoard, TRUE) /\ Sound(u, curBoard, TRUE)
      BY <2>3, ReadReplySound
    <2> HIDE DEF u
    <2>5. Sound(SeekNum(u, u.rd.tot), curBoard, TRUE)
      BY <2>4, SoundType, SeekNumSound
    <2> QED
      BY <1>2, <2>1, <2>2, <2>4, <2>5, GotoSound
  <1>9. CASE ~InReplies
    <2> DEFINE o == disk[curBoard][REPL_CONF]
               c == Extended(o, 1)
               s == [Session EXCEPT !.disk[curBoard][REPL_CONF] = c]
    <2>1. Goto(s, "shell")
      <3>1. ~OwnStreams
        BY <1>9 DEF OwnStreams
      <3>2. ShowReply(s, mode) = s
        BY <1>9 DEF ShowReply
      <3> QED
        BY <1>1, <1>9, <3>1, <3>2 DEF Reply
    <2>2. REPL_CONF \in Numbers /\ o \in Conference /\ InRange(o)
      BY <1>2, NumbersType, SoundType DEF InRanges, Sessions
    <2> HIDE DEF o
    <2>3. c \in Conference /\ InRange(c) /\ c.there /\ c.n > 0
      <3>1. c \in Conference /\ InRange(c)
        BY <2>2, ConferenceType, ExtendedInRange
      <3> QED
        BY <2>2, <3>1 DEF Extended, Conference
    <2> HIDE DEF c
    <2>4. Sound(s, curBoard, FALSE)
      BY <1>2, <1>5, <1>9, <2>2, <2>3, PutSound
    <2>5. s.disk[curBoard][REPL_CONF] = c
      BY <1>2, <2>2, SoundType DEF Sessions
    <2> HIDE DEF s
    <2>6. Sound(s, curBoard, TRUE)
      BY <1>2, <2>3, <2>4, <2>5 DEF Sound, Promised
    <2> QED
      BY <1>2, <2>1, <2>6, GotoSound
  <1> QED
    BY <1>7, <1>8, <1>9

LEMMA InitSound == Init => OpenInv
  <1> SUFFICES ASSUME Init PROVE OpenInv
    OBVIOUS
  <1>1. PointerInv /\ tbl = curBoard /\ curBoard \in Tables
    BY InitFits DEF Init, Tables
  <1>2. /\ Session \in Sessions /\ InRanges(Session) /\ ~FilesOpen(Session.rd)
        /\ Session.rd.dead = FALSE /\ Session.rd.conf = 0 /\ ~Promising
    BY <1>1, PointerState DEF Init, NewReader, FilesOpen, Promising, Fits
  <1>3. Whole(Session)
    BY DEF Whole, Init, Session, Absent
  <1>4. 0 <= LastConf(curBoard)
    BY <1>1, TableType
  <1>5. Promised(Session, curBoard, Promising)
    BY <1>2 DEF Promised
  <1> QED
    BY <1>1, <1>2, <1>3, <1>4, <1>5, ClosedSound DEF OpenInv

LEMMA RestartSound ==
  ASSUME OpenInv, Restart, PointerInv'
  PROVE  Sound(Session, curBoard, Promising)'
  <1>1. Session' = [disk |-> disk, rd |-> NewReader, crash |-> FALSE] /\ curBoard' = NoBoard
    BY DEF Session, Restart
  <1>2. /\ Session' \in Sessions /\ InRanges(Session') /\ ~FilesOpen(Session'.rd)
        /\ Session'.rd.dead = FALSE /\ Session'.rd.conf = 0
    BY <1>1 DEF PointerInv, Fits, FilesOpen, NewReader
  <1>3. Whole(Session')
    BY <1>1, OpenState DEF Sound, Whole
  <1>4. 0 <= LastConf(NoBoard)
    BY TableType DEF Tables
  <1>5. ~Promising'
    BY DEF Promising, Restart
  <1>6. Promised(Session', NoBoard, Promising')
    BY <1>5 DEF Promised
  <1>7. Sound(Session', NoBoard, Promising')
    BY <1>2, <1>3, <1>4, <1>6, ClosedSound
  <1> QED
    BY <1>1, <1>7

LEMMA SameTable ==
  ASSUME tbl = curBoard, Faults \subseteq {"messages"}, [Next]_vars
  PROVE  tbl' = curBoard'
  <1>1. CASE Command
    <2>1. ASSUME NEW mode, ReadNext(mode) \/ Scan(mode) PROVE UNCHANGED table
      BY <2>1 DEF ReadNext, Scan
    <2>2. ASSUME NEW mode, NEW arg, Reply(mode, arg) \/ ReplyTooBig(mode, arg)
          PROVE  tbl' = tbl /\ curBoard' = curBoard
      BY <2>2 DEF Reply, ReplyTooBig, table
    <2>3. CASE GoToNum \/ Reset \/ Join \/ NextConf \/ Purge \/ ListConf \/ LoadNothing \/ Quit
      BY <2>3 DEF GoToNum, Reset, Join, NextConf, Purge, ListConf, LoadNothing, Quit, table
    <2>4. ASSUME NEW b \in Board, LoadPacket(b) \/ LoadUnopened(b)
          PROVE  tbl' = b /\ curBoard' = b
      <3>1. \A s, mine : JoinLoaded(s, b, b, mine) => tbl' = b /\ curBoard' = b
        BY DEF JoinLoaded
      <3> QED
        BY <2>4, <3>1 DEF LoadPacket, LoadUnopened
    <2>5. ASSUME NEW b \in Board, Read(b) PROVE tbl' = b /\ curBoard' = b
      BY <2>5 DEF Read
    <2>6. ASSUME NEW b \in Board, ReadUnknown(b) PROVE tbl' = tbl /\ curBoard' = curBoard
      BY <2>6 DEF ReadUnknown
    <2>7. ASSUME NEW b \in Board PROVE ~LoadPartial(b)
      BY DEF LoadPartial
    <2> QED
      BY <1>1, <2>1, <2>2, <2>3, <2>4, <2>5, <2>6, <2>7 DEF Command, table
  <1>2. CASE Internal
    <2>1. AutoJoin \/ AutoJoinTurn \/ PurgeTurn => UNCHANGED table
      BY DEF AutoJoin, AutoJoinTurn, PurgeTurn
    <2>2. AutoJoinEnd \/ PurgeEnd => tbl' = tbl /\ curBoard' = curBoard
      BY DEF AutoJoinEnd, PurgeEnd
    <2> QED
      BY <1>2, <2>1, <2>2 DEF Internal, table
  <1>3. CASE Restart
    BY <1>3 DEF Restart
  <1>4. CASE UNCHANGED vars
    BY <1>4 DEF vars
  <1> QED
    BY <1>1, <1>2, <1>3, <1>4 DEF Next

LEMMA OpenStep ==
  ASSUME OpenInv, Faults \subseteq {"messages"}, [Next]_vars
  PROVE  OpenInv'
  <1>1. PointerInv'
    BY PointerStep DEF OpenInv
  <1>2. tbl' = curBoard'
    BY SameTable DEF OpenInv
  <1>3. Sound(Session, curBoard, Promising)'
    <2>1. CASE Command
      <3>1. ASSUME NEW mode, ReadNext(mode) \/ Scan(mode)
            PROVE  Sound(Session, curBoard, Promising)'
        BY <3>1, ReadingSound
      <3>2. CASE GoToNum
        BY <3>2, ReadingSound
      <3>3. CASE Reset \/ Join \/ NextConf \/ Purge \/ ListConf \/ Quit
        BY <3>3, ConferenceSound, PurgingSound, QuitSound
      <3>4. ASSUME NEW b \in Board,
                   \/ LoadPacket(b) \/ LoadUnopened(b) \/ LoadPartial(b)
                   \/ Read(b) \/ ReadUnknown(b)
            PROVE  Sound(Session, curBoard, Promising)'
        BY <3>4, LoadSound, ReadSound
      <3>5. CASE LoadNothing
        BY <3>5, LoadNothingSound
      <3>6. ASSUME NEW mode, NEW arg, Reply(mode, arg) \/ ReplyTooBig(mode, arg)
            PROVE  Sound(Session, curBoard, Promising)'
        BY <3>6, ReplySound
      <3> QED
        BY <2>1, <3>1, <3>2, <3>3, <3>4, <3>5, <3>6 DEF Command
    <2>2. CASE Internal
      BY <2>2, ConferenceSound, PurgingSound DEF Internal
    <2>3. CASE Restart
      BY <1>1, <2>3, RestartSound
    <2>4. CASE UNCHANGED vars
      <3>1. Session' = Session /\ curBoard' = curBoard /\ (Promising' <=> Promising)
        BY <2>4 DEF vars, Session, Promising
      <3>2. Sound(Session, curBoard, Promising')
        BY <3>1, OpenState, WeakSound
      <3> QED
        BY <3>1, <3>2
    <2> QED
      BY <2>1, <2>2, <2>3, <2>4 DEF Next
  <1> QED
    BY <1>1, <1>2, <1>3 DEF OpenInv

\* As long as the control table that Load reads is complete, and every reply fits,
\* the open streams are those of the current conference, and TotMsg, the stream
\* and the buffer agree with what is on disk.  GetConf, PurgeAdjust, DoLoad_MkIndex
\* and AddReply share that duty.
THEOREM OpenFilesAreCurrent ==
  ASSUME Faults \subseteq {"messages"}
  PROVE  Spec => []OpenFileIsCurrentConf
  <1>1. OpenInv /\ [Next]_vars => OpenInv'
    BY OpenStep
  <1>2. OpenInv => OpenFileIsCurrentConf
    <2> SUFFICES ASSUME OpenInv, FilesOpen(rd) PROVE OpenFileIsCurrentConf
      BY DEF OpenFileIsCurrentConf
    <2>1. Session.rd = rd /\ Session.disk = disk /\ tbl = curBoard
      BY OpenState
    <2>2. /\ curBoard \in Board /\ ~rd.own.there /\ rd.conf <= LastConf(tbl)
          /\ rd.fh = ConfNumbers(tbl)[rd.conf]
          /\ disk[curBoard][rd.fh].there /\ rd.tot = disk[curBoard][rd.fh].n
          /\ rd.pos \in 0 .. rd.tot /\ rd.num \in 0 .. rd.tot - 1
          /\ rd.hdr \in -1 .. rd.tot - 1 /\ rd.body \in -1 .. rd.tot - 1 /\ rd.tot \in Int
      BY <2>1, OpenState, SoundType DEF Sound, Current
    <2>3. {rd.hdr, rd.body} \subseteq Positions(disk[curBoard][rd.fh]) \cup {NoMsg}
      BY <2>2 DEF Positions, NoMsg
    <2>4. Loaded
      BY <2>2, SessionAssumption DEF Loaded
    <2> QED
      BY <2>2, <2>3, <2>4 DEF OpenFileIsCurrentConf, Positions
  <1> QED
    BY InitSound, <1>1, <1>2, PTL DEF Spec

\* Under the same condition ReplyExist, by which query_rep_exists offers to pack
\* the replies, is set at the prompt only if the conference of replies is there.
THEOREM RepliesAreThere ==
  ASSUME Faults \subseteq {"messages"}
  PROVE  Spec => []ReplyExistIsTrue
  <1>1. OpenInv /\ [Next]_vars => OpenInv'
    BY OpenStep
  <1>2. OpenInv => ReplyExistIsTrue
    <2> SUFFICES ASSUME OpenInv, pc = "shell", replyExist
                 PROVE  Loaded /\ disk[curBoard][REPL_CONF].there
      BY DEF ReplyExistIsTrue
    <2>1. Promised(Session, curBoard, replyExist) /\ Session.disk = disk
      BY OpenState DEF Sound, Prompting
    <2> QED
      BY <2>1, SessionAssumption DEF Promised, Loaded
  <1> QED
    BY InitSound, <1>1, <1>2, PTL DEF Spec

----------------------------------------------------------------------------
(* The pointer is not lowered: what every call does to the conferences that *)
(* are there.  Only Tossed and DeleteReplies, after which nothing is written *)
(* any more, take one away.                                                  *)

Later(s, t) ==
  \A d \in Board, f \in Numbers :
    s.disk[d][f].there => t.disk[d][f].there /\ t.disk[d][f].last >= s.disk[d][f].last

Kept(s, t) ==
  \A d \in Board, f \in Numbers :
    s.disk[d][f].there /\ t.disk[d][f].there => t.disk[d][f].last >= s.disk[d][f].last

Shrunk(s, t) ==
  \A d \in Board, f \in Numbers :
    t.disk[d][f].there => s.disk[d][f].there /\ t.disk[d][f].last >= s.disk[d][f].last

LEMMA SameLater ==
  ASSUME NEW s \in Sessions, NEW t, t.disk = s.disk
  PROVE  Later(s, t) /\ Kept(s, t)
  <1>1. \A d \in Board, f \in Numbers : s.disk[d][f].last \in Int
    BY DEF Sessions, Conference
  <1> QED
    BY <1>1 DEF Later, Kept

LEMMA LaterThen ==
  ASSUME NEW s \in Sessions, NEW t \in Sessions, NEW u \in Sessions
  PROVE  /\ Later(s, t) /\ Later(t, u) => Later(s, u)
         /\ Later(s, t) /\ Kept(t, u) => Kept(s, u)
         /\ Kept(s, t) /\ Shrunk(t, u) => Kept(s, u)
         /\ Later(s, t) => Kept(s, t)
  <1>1. \A d \in Board, f \in Numbers :
          /\ s.disk[d][f].last \in Int /\ t.disk[d][f].last \in Int /\ u.disk[d][f].last \in Int
    BY DEF Sessions, Conference
  <1>2. Later(s, t) /\ Later(t, u) => Later(s, u)
    BY <1>1 DEF Later
  <1>3. Later(s, t) /\ Kept(t, u) => Kept(s, u)
    BY <1>1 DEF Later, Kept
  <1>4. Kept(s, t) /\ Shrunk(t, u) => Kept(s, u)
    BY <1>1 DEF Kept, Shrunk
  <1>5. Later(s, t) => Kept(s, t)
    BY DEF Later, Kept
  <1> QED
    BY <1>2, <1>3, <1>4, <1>5

LEMMA PutLater ==
  ASSUME NEW s \in Sessions, NEW d, NEW f, NEW c,
         d \in Board /\ f \in Numbers /\ s.disk[d][f].there => c.there /\ c.last >= s.disk[d][f].last
  PROVE  Later(s, [s EXCEPT !.disk[d][f] = c])
  <1> DEFINE t == [s EXCEPT !.disk[d][f] = c]
  <1>1. \A e \in Board, g \in Numbers :
          t.disk[e][g] = IF e = d /\ g = f THEN c ELSE s.disk[e][g]
    BY DEF Sessions
  <1>2. \A e \in Board, g \in Numbers : s.disk[e][g].last \in Int
    BY DEF Sessions, Conference
  <1> HIDE DEF t
  <1>3. Later(s, t)
    BY <1>1, <1>2 DEF Later
  <1> QED
    BY <1>3 DEF t

LEMMA PutOpenLater ==
  ASSUME NEW s \in Sessions, NEW c, c.there, c.last >= OpenConf(s).last
  PROVE  Later(s, PutOpen(s, c))
  <1>1. CASE s.rd.own.there
    <2>1. [s EXCEPT !.rd.own = c].disk = s.disk
      BY DEF Sessions
    <2> QED
      BY <1>1, <2>1, SameLater DEF PutOpen
  <1>2. CASE ~s.rd.own.there
    <2>1. PutOpen(s, c) = [s EXCEPT !.disk[curBoard][s.rd.fh] = c]
      BY <1>2 DEF PutOpen
    <2> DEFINE f == s.rd.fh
    <2>2. c.there /\ c.last >= s.disk[curBoard][f].last
      BY <1>2 DEF OpenConf
    <2> HIDE DEF f
    <2>3. Later(s, [s EXCEPT !.disk[curBoard][f] = c])
      BY <2>2, PutLater
    <2> QED
      BY <2>1, <2>3 DEF f
  <1> QED
    BY <1>1, <1>2

LEMMA UpdateConfLater ==
  ASSUME NEW s, Fits(s, curBoard)
  PROVE  Later(s, UpdateConf(s, FALSE))
  <1> DEFINE m == s.rd.num
             one == 1
             o == OpenConf(s)
             t == [s EXCEPT !.rd.pos = m]
             c == [o EXCEPT !.last = m]
  <1>1. s \in Sessions /\ m \in Int
    BY DEF Fits, Sessions, Reader
  <1>2. \/ UpdateConf(s, FALSE) \in {s, [s EXCEPT !.rd.pos = one]}
        \/ UpdateConf(s, FALSE) = PutOpen(t, c) /\ FilesOpen(s.rd) /\ o.last < m
    BY DEF UpdateConf
  <1>3. /\ t \in Sessions /\ t.disk = s.disk /\ t.rd.own = s.rd.own /\ t.rd.fh = s.rd.fh
        /\ [s EXCEPT !.rd.pos = one].disk = s.disk
    <2>1. t \in Sessions
      <3> HIDE DEF m
      <3> QED
        BY <1>1, IntFieldType
    <2> QED
      BY <1>1, <2>1 DEF Sessions, Reader
  <1>4. Later(s, s) /\ Later(s, [s EXCEPT !.rd.pos = one])
    BY <1>1, <1>3, SameLater
  <1>5. ASSUME FilesOpen(s.rd), o.last < m
        PROVE  Later(t, PutOpen(t, c)) /\ PutOpen(t, c) \in Sessions
    <2>1. o \in Conference /\ o.there
      <3>1. CASE s.rd.own.there
        BY <1>1, <3>1 DEF OpenConf, Sessions, Reader
      <3>2. CASE ~s.rd.own.there
        <4>1. curBoard \in Board /\ s.rd.fh \in Numbers /\ s.disk[curBoard][s.rd.fh].there
          BY <1>1, <1>5, <3>2 DEF Fits, Anchored, FilesOpen, Sessions, Reader
        <4> QED
          BY <1>1, <1>5, <3>2, <4>1, OpenType DEF OpenConf
      <3> QED
        BY <3>1, <3>2
    <2>2. OpenConf(t) = o
      BY <1>3 DEF OpenConf
    <2> HIDE DEF o, m, t
    <2>3. c \in Conference /\ c.there /\ c.last = m /\ o.last \in Int
      BY <1>1, <2>1 DEF Conference
    <2> HIDE DEF c
    <2>4. c.last >= OpenConf(t).last
      BY <1>1, <1>5, <2>2, <2>3
    <2> QED
      BY <1>3, <2>3, <2>4, PutOpenLater, PutOpenType
  <1> HIDE DEF t, c, o, m, one
  <1>6. Later(s, t)
    BY <1>1, <1>3, SameLater
  <1>7. FilesOpen(s.rd) /\ o.last < m => Later(s, PutOpen(t, c))
    BY <1>1, <1>3, <1>5, <1>6, LaterThen
  <1> QED
    BY <1>2, <1>4, <1>7

\* Calls that read.
LEMMA ReadsDisk ==
  ASSUME NEW s \in Sessions
  PROVE  /\ \A b, t, i : GetConf(s, b, t, i).disk = s.disk
         /\ \A k, quick : ReadRecord(s, k, quick).disk = s.disk
         /\ \A m : SeekNum(s, m).disk = s.disk
         /\ CloseFiles(s).disk = s.disk /\ Crash(s).disk = s.disk
         /\ \A i : PurgeAdjust(s, i).disk = s.disk
  <1>1. CloseFiles(s).disk = s.disk /\ Crash(s).disk = s.disk /\ CloseFiles(s) \in Sessions
    <2>1. CloseFiles(s) \in Sessions
      BY CloseType
    <2>2. CloseFiles(s).disk = s.disk
      BY DEF CloseFiles, Sessions
    <2>3. Crash(s).disk = s.disk
      BY DEF Crash, Sessions
    <2> QED
      BY <2>1, <2>2, <2>3
  <1>2. ASSUME NEW b, NEW t, NEW i PROVE GetConf(s, b, t, i).disk = s.disk
    <2>1. \A r : [CloseFiles(s) EXCEPT !.rd = r].disk = CloseFiles(s).disk
      BY <1>1 DEF Sessions
    <2>2. \A x : [s EXCEPT !.rd.tot = x].disk = s.disk
      BY DEF Sessions
    <2> QED
      BY <1>1, <2>1, <2>2 DEF GetConf
  <1>3. ASSUME NEW k, NEW quick PROVE ReadRecord(s, k, quick).disk = s.disk
    BY <1>1 DEF ReadRecord, Sessions
  <1>4. ASSUME NEW m PROVE SeekNum(s, m).disk = s.disk
    <2>1. \A x : [s EXCEPT !.rd.pos = x].disk = s.disk
      BY DEF Sessions
    <2> QED
      BY <1>1, <1>3, <2>1 DEF SeekNum
  <1>5. ASSUME NEW i PROVE PurgeAdjust(s, i).disk = s.disk
    BY <1>1 DEF PurgeAdjust, Sessions
  <1> QED
    BY <1>1, <1>2, <1>3, <1>4, <1>5

LEMMA ReadRecordLater ==
  ASSUME NEW s \in Sessions
  PROVE  /\ \A k, quick : Later(s, ReadRecord(s, k, quick))
         /\ \A m : Later(s, SeekNum(s, m))
         /\ \A b, t, i : Later(s, GetConf(s, b, t, i))
         /\ Later(s, Crash(s))
  BY ReadsDisk, SameLater

LEMMA ChConfLater ==
  ASSUME NEW s, Fits(s, curBoard), NEW i
  PROVE  Later(s, ChConf(s, i))
  <1> DEFINE u == UpdateConf(s, FALSE)
  <1>1. s \in Sessions /\ u \in Sessions /\ Later(s, u)
    BY UpdateConfFits, UpdateConfLater DEF Fits
  <1> HIDE DEF u
  <1>2. GetConf(u, curBoard, tbl, i).disk = u.disk
    BY <1>1, ReadsDisk
  <1>3. Later(s, GetConf(u, curBoard, tbl, i))
    BY <1>1, <1>2 DEF Later
  <1> QED
    BY <1>1, <1>3, SameLater DEF ChConf, u

\* A new status byte leaves the pointer alone.
LEMMA ReadAtLater ==
  ASSUME NEW s, Fits(s, curBoard), NEW mode, curBoard \in Board, FilesOpen(s.rd),
         Target(s, mode) \in Positions(OpenConf(s))
  PROVE  Later(s, ReadAt(s, mode))
  <1> DEFINE k == Target(s, mode)
             o == OpenConf(s)
             after == CASE mode = "kill" -> IF k \in o.killed THEN o.killed \ {k} ELSE o.killed \cup {k}
                        [] mode = "nuke" -> o.killed \cup {k}
                        [] OTHER         -> o.killed \ {k}
             c == [o EXCEPT !.killed = after]
             t == IF mode \in {"kill", "nuke", "private"} /\ ~s.rd.dead THEN PutOpen(s, c) ELSE s
  <1>1. s \in Sessions /\ o \in Conference /\ k \in Positions(o) /\ o.there
    <2>1. s \in Sessions /\ o \in Conference /\ k \in Positions(o)
      BY OpenType DEF Fits
    <2>2. o.there
      BY DEF OpenConf, Fits, Anchored
    <2> QED
      BY <2>1, <2>2
  <1>2. ReadAt(s, mode) = ReadRecord(t, k, FALSE)
    BY DEF ReadAt, ChangeStatus
  <1>3. after \in SUBSET (o.killed \cup {k})
    <2> HIDE DEF k, o
    <2> QED
      OBVIOUS
  <1> HIDE DEF k, o, after
  <1>4. c \in Conference /\ c.there /\ c.last = o.last /\ o.last \in Int
    <2>1. after \in SUBSET Nat
      BY <1>1, <1>3 DEF Conference, Positions
    <2> QED
      BY <1>1, <2>1 DEF Conference
  <1> HIDE DEF c
  <1>5. PutOpen(s, c) \in Sessions /\ Later(s, PutOpen(s, c))
    <2>1. c.last >= OpenConf(s).last
      BY <1>4 DEF o
    <2> QED
      BY <1>1, <1>4, <2>1, PutOpenLater, PutOpenType
  <1>6. t \in Sessions /\ Later(s, t)
    BY <1>1, <1>5, SameLater
  <1> HIDE DEF t
  <1>7. ReadRecord(t, k, FALSE).disk = t.disk
    <2> DEFINE quick == FALSE
    <2> HIDE DEF quick
    <2>1. ReadRecord(t, k, quick).disk = t.disk
      BY <1>6, ReadsDisk
    <2> QED
      BY <2>1 DEF quick
  <1> QED
    BY <1>2, <1>6, <1>7 DEF Later

LEMMA ShowReplyLater ==
  ASSUME NEW s, Fits(s, curBoard), NEW mode, curBoard \in Board,
         FilesOpen(s.rd) \/ ~InReplies
  PROVE  Later(s, ShowReply(s, mode))
  <1> DEFINE count == s.rd.tot + 1
             t == [s EXCEPT !.rd.tot = count]
             u == IF mode = "change" THEN ReadReply(t, "nuke") ELSE t
  <1>1. ShowReply(s, mode) \in {s, ReadReply(t, "cross"), SeekNum(u, u.rd.tot)}
        /\ (~InReplies => ShowReply(s, mode) = s)
    BY DEF ShowReply
  <1>2. s \in Sessions /\ count \in Int
    BY DEF Fits, Sessions, Reader
  <1>3. t.rd.fh = s.rd.fh /\ t.disk = s.disk
    BY <1>2 DEF Sessions, Reader
  <1> HIDE DEF count
  <1>4. Fits(t, curBoard) /\ t \in Sessions
    BY <1>2, FieldFits DEF Fits
  <1> HIDE DEF t
  <1>5. Later(s, t) /\ Later(s, s)
    BY <1>2, <1>3, SameLater
  <1>6. \A m : InReplies => ReadReply(t, m) \in Sessions /\ Later(s, ReadReply(t, m))
    <2> SUFFICES ASSUME NEW m, InReplies
                 PROVE  ReadReply(t, m) \in Sessions /\ Later(s, ReadReply(t, m))
      OBVIOUS
    <2>1. FilesOpen(t.rd)
      BY <1>3 DEF FilesOpen
    <2>2. ReadReply(t, m) \in Sessions
      BY <1>4, <2>1, ReadReplyFits DEF Fits
    <2>3. Later(t, ReadReply(t, m))
      BY <1>4, <2>1, ReadAtLater, SameLater DEF ReadReply
    <2> QED
      BY <1>2, <1>4, <1>5, <2>2, <2>3, LaterThen
  <1>7. InReplies => u \in Sessions /\ Later(s, u)
    BY <1>4, <1>5, <1>6
  <1> HIDE DEF u
  <1>8. InReplies => Later(s, SeekNum(u, u.rd.tot))
    <2>1. u \in Sessions => SeekNum(u, u.rd.tot).disk = u.disk
      BY ReadsDisk
    <2> QED
      BY <1>7, <2>1 DEF Later
  <1> QED
    BY <1>1, <1>5, <1>6, <1>8

LEMMA PackedLater ==
  ASSUME NEW s \in Sessions, NEW answer
  PROVE  Later(s, Packed(s, answer))
  <1> DEFINE o == s.disk[curBoard][REPL_CONF]
             c == Opened(o)
             t == [s EXCEPT !.disk[curBoard][REPL_CONF] = c]
             u == [[t EXCEPT !.rd.hdr = NoMsg] EXCEPT !.rd.body = NoMsg]
  <1>1. Packed(s, answer) \in {s, t, u}
    BY DEF Packed
  <1>2. curBoard \in Board /\ REPL_CONF \in Numbers /\ o.there => c.there /\ c.last >= o.last
    <2>1. curBoard \in Board /\ REPL_CONF \in Numbers => o.last \in Int
      BY DEF Sessions, Conference
    <2> HIDE DEF o
    <2> QED
      BY <2>1 DEF Opened
  <1> HIDE DEF c
  <1>3. Later(s, t)
    BY <1>2, PutLater
  <1>4. u.disk = t.disk
    <2>1. DOMAIN t = {"disk", "rd", "crash"}
      BY DEF Sessions
    <2> HIDE DEF t
    <2> QED
      BY <2>1
  <1> HIDE DEF t, u
  <1>5. Later(s, u)
    BY <1>3, <1>4 DEF Later
  <1> QED
    BY <1>1, <1>3, <1>5, SameLater

LEMMA LeavingLater ==
  ASSUME Fits(Session, curBoard), NEW answer, curBoard \in Tables
  PROVE  Leaving(answer) \in Sessions /\ InRanges(Leaving(answer)) /\ Later(Session, Leaving(answer))
  <1> DEFINE s == Packed(Session, answer)
  <1>1. Session \in Sessions /\ Fits(s, curBoard) /\ Later(Session, s) /\ s \in Sessions
    BY PackedFits, PackedLater DEF Fits
  <1>2. Leaving(answer) \in {s, UpdateConf(s, FALSE)}
    BY DEF Leaving
  <1> HIDE DEF s
  <1>3. Later(s, UpdateConf(s, FALSE)) /\ UpdateConf(s, FALSE) \in Sessions
    BY <1>1, UpdateConfFits, UpdateConfLater DEF Fits
  <1>4. Later(Session, UpdateConf(s, FALSE))
    BY <1>1, <1>3, LaterThen
  <1> QED
    BY <1>1, <1>2, <1>4, LeavingFits DEF Fits

\* Messages are added at the end; only an empty conference starts out unread.
LEMMA TossedKept ==
  ASSUME NEW s \in Sessions, InRanges(s), NEW b \in Board,
         NEW new \in [Regular(b) -> Nat], NEW mine \in Nat
  PROVE  Kept(s, Tossed(s, b, new, mine))
  <1> DEFINE t == Tossed(s, b, new, mine)
  <1>1. \A e \in Board : e # b => t.disk[e] = s.disk[e]
    BY DEF Tossed, Sessions
  <1>2. ASSUME NEW f \in Numbers, s.disk[b][f].there, t.disk[b][f].there
        PROVE  t.disk[b][f].last >= s.disk[b][f].last
    <2> DEFINE o == s.disk[b][f]
               after == CASE f \in Regular(b) /\ new[f] > 0 -> Extended(o, new[f])
                          [] f = PERS_CONF -> IF mine > 0 THEN Extended(o, mine)
                                              ELSE IF o.n = 0 THEN Absent ELSE o
                          [] OTHER -> o
    <2>1. t.disk[b][f] = after
      BY <1>2 DEF Tossed, Sessions
    <2>2. o \in Conference /\ InRange(o)
      BY DEF InRanges, Sessions
    <2> HIDE DEF o, t
    <2>3. \/ after = o
          \/ after = Extended(o, new[f])
          \/ after = Extended(o, mine)
          \/ after = Absent
      OBVIOUS
    <2> HIDE DEF after
    <2>4. \A k : Extended(o, k).last >= o.last
      <3>1. o.last \in Int /\ o.n \in Nat /\ (o.n = 0 => o.last = VIRGINDX)
        BY <2>2 DEF Conference, InRange, VIRGINDX
      <3>2. \A k : Extended(o, k).last = IF o.n = 0 THEN VIRGINDX ELSE o.last
        BY DEF Extended
      <3> QED
        BY <3>1, <3>2 DEF VIRGINDX
    <2>5. after # Absent
      BY <1>2, <2>1 DEF Absent
    <2>6. o.last \in Int
      BY <2>2 DEF Conference
    <2>7. after.last >= o.last
      BY <2>3, <2>4, <2>5, <2>6
    <2> QED
      BY <2>1, <2>7 DEF o
  <1>3. \A d \in Board, f \in Numbers : s.disk[d][f].last \in Int
    BY DEF Sessions, Conference
  <1> HIDE DEF t
  <1>4. Kept(s, t)
    BY <1>1, <1>2, <1>3 DEF Kept
  <1> QED
    BY <1>4 DEF t

LEMMA JoinBoardShrunk ==
  ASSUME NEW s \in Sessions, NEW b \in Board, NEW t, NEW i \in Nat, NEW del \in BOOLEAN
  PROVE  LET u == CloseFiles(IF del THEN DeleteReplies(s, b) ELSE s)
         IN  Shrunk(s, GetConf([u EXCEPT !.rd.conf = i], b, t, i))
  <1> DEFINE d == IF del THEN DeleteReplies(s, b) ELSE s
             u == CloseFiles(d)
             v == [u EXCEPT !.rd.conf = i]
  <1>1. d \in Sessions
    BY DeleteType
  <1>2. Shrunk(s, d)
    <2>1. \A e \in Board, g \in Numbers :
            DeleteReplies(s, b).disk[e][g]
              = IF e = b /\ g = REPL_CONF THEN Absent ELSE s.disk[e][g]
      BY DEF DeleteReplies, Sessions
    <2>2. \A e \in Board, g \in Numbers : s.disk[e][g].last \in Int
      BY DEF Sessions, Conference
    <2>3. ~Absent.there
      BY DEF Absent
    <2>4. Shrunk(s, DeleteReplies(s, b)) /\ Shrunk(s, s)
      BY <2>1, <2>2, <2>3 DEF Shrunk
    <2> QED
      BY <2>4
  <1> HIDE DEF d
  <1>3. u \in Sessions /\ u.disk = d.disk
    BY <1>1, CloseType, ReadsDisk
  <1> HIDE DEF u
  <1>4. v \in Sessions /\ v.disk = u.disk
    BY <1>3 DEF Sessions, Reader
  <1> HIDE DEF v
  <1>5. GetConf(v, b, t, i).disk = v.disk
    BY <1>4, ReadsDisk
  <1>6. Shrunk(s, GetConf(v, b, t, i))
    BY <1>2, <1>3, <1>4, <1>5 DEF Shrunk
  <1> QED
    BY <1>6 DEF v, u, d

----------------------------------------------------------------------------
(* The commands.                                                           *)

NotLowered ==
  \A b \in Board, f \in Numbers :
    disk[b][f].there /\ disk'[b][f].there => Saved(b, f)' >= Saved(b, f)

LEMMA GotoKept ==
  ASSUME NEW s, Kept(Session, s), NEW label, Goto(s, label)
  PROVE  NotLowered
  BY DEF Goto, Kept, Session, NotLowered, Saved

LEMMA GotoLater ==
  ASSUME PointerInv, NEW s, Later(Session, s), NEW label, Goto(s, label)
  PROVE  NotLowered
  BY DEF Goto, Later, Session, NotLowered, Saved

LEMMA SameDisk ==
  ASSUME PointerInv, disk' = disk
  PROVE  NotLowered
  <1>1. \A b \in Board, f \in Numbers : disk[b][f].last \in Int
    BY PointerState DEF TypeOK, Conference
  <1> QED
    BY <1>1 DEF NotLowered, Saved

LEMMA ReadingKept ==
  ASSUME PointerInv, NEW mode, ReadNext(mode) \/ Scan(mode) \/ GoToNum
  PROVE  NotLowered
  <1>1. /\ Fits(Session, curBoard) /\ curBoard \in Board /\ Session.rd = rd
        /\ Session \in Sessions /\ Session.disk = disk /\ TypeOK
    BY PointerState DEF ReadNext, Scan, GoToNum, Prompt, table
  <1>2. CASE ReadNext(mode)
    <2>1. CASE FilesOpen(rd) /\ Target(Session, mode) \in Positions(OpenConf(Session))
               /\ Goto(ReadAt(Session, mode), "shell")
      BY <1>1, <2>1, ReadAtLater, GotoLater
    <2>2. CASE Goto(Session, "next")
      BY <1>1, <2>2, SameDisk DEF Goto
    <2> QED
      BY <1>2, <2>1, <2>2 DEF ReadNext
  <1>3. CASE GoToNum
    <2>1. PICK m \in 1 .. MaxMsgs : Goto(SeekNum(Session, m), "shell")
      BY <1>3 DEF GoToNum
    <2> QED
      BY <1>1, <2>1, ReadRecordLater, GotoLater
  <1>4. CASE Scan(mode)
    <2> DEFINE quick == mode = "qscan"
               read(k) == IF k < 0 THEN Session ELSE ReadRecord(Session, k, quick)
               m(k) == IF read(k).rd.num = 0 THEN 1 ELSE read(k).rd.num
               seek(k) == SeekNum(read(k), m(k))
               zero == 0
               back(k) == [seek(k) EXCEPT !.rd.pos = zero]
    <2>1. PICK k \in -1 .. MaxMsgs - 1 :
            /\ IF FilesOpen(rd) /\ rd.pos < OpenConf(Session).n
               THEN k \in rd.pos .. OpenConf(Session).n - 1 ELSE k = -1
            /\ \/ Goto(read(k), "shell") \/ Goto(seek(k), "shell") \/ Goto(back(k), "shell")
      BY <1>4 DEF Scan
    <2>2. k < 0 \/ (FilesOpen(rd) /\ k \in Positions(OpenConf(Session)))
      <3>1. FilesOpen(rd) => OpenConf(Session) \in Conference
        BY <1>1, OpenType DEF Fits
      <3>2. rd.pos \in Int /\ k \in Int
        BY <1>1, <2>1, SessionAssumption DEF TypeOK, Reader
      <3> QED
        BY <2>1, <3>1, <3>2 DEF Positions, Conference
    <2>3. Fits(read(k), curBoard) /\ read(k) \in Sessions /\ read(k).disk = disk
      <3>1. quick \in BOOLEAN
        OBVIOUS
      <3> HIDE DEF quick
      <3>2. ~(k < 0) => Fits(ReadRecord(Session, k, quick), curBoard)
        BY <1>1, <2>2, <3>1, ReadRecordFits
      <3>3. ReadRecord(Session, k, quick).disk = disk
        BY <1>1, ReadsDisk
      <3> QED
        BY <1>1, <3>2, <3>3 DEF Fits
    <2>4. m(k) \in Int
      <3>1. read(k).rd.num \in Int
        BY <2>3 DEF Sessions, Reader
      <3> HIDE DEF read
      <3> QED
        BY <3>1
    <2> HIDE DEF read, m, zero
    <2>5. seek(k) \in Sessions /\ seek(k).disk = disk
      BY <1>1, <2>3, <2>4, SeekNumFits, ReadsDisk DEF Fits
    <2> HIDE DEF seek
    <2>6. back(k).disk = seek(k).disk
      BY <2>5 DEF Sessions
    <2> HIDE DEF back
    <2> QED
      BY <1>1, <2>1, <2>3, <2>5, <2>6, SameDisk DEF Goto
  <1> QED
    BY <1>2, <1>3, <1>4

LEMMA ConferenceKept ==
  ASSUME PointerInv, Join \/ NextConf \/ AutoJoin \/ AutoJoinTurn \/ AutoJoinEnd \/ ListConf
  PROVE  NotLowered
  <1>1. /\ Session \in Sessions /\ Session.disk = disk
        /\ \A i : Later(Session, ChConf(Session, i))
    BY PointerState, ChConfLater
  <1>2. \/ disk' = disk
        \/ \E label : Goto(Session, label)
        \/ \E i, label : Goto(ChConf(Session, i), label)
    BY DEF Join, NextConf, AutoJoin, AutoJoinTurn, AutoJoinEnd, ListConf
  <1>3. Later(Session, Session)
    BY <1>1, SameLater
  <1> QED
    BY <1>1, <1>2, <1>3, SameDisk, GotoLater

LEMMA LeavingKept ==
  ASSUME PointerInv, Purge \/ LoadNothing \/ Quit
  PROVE  NotLowered
  <1> DEFINE u == UpdateConf(Session, FALSE)
  <1>1. /\ Fits(Session, curBoard) /\ curBoard \in Tables
        /\ Session \in Sessions /\ u \in Sessions
        /\ Later(Session, Session) /\ Later(Session, u)
    BY PointerState, UpdateConfFits, UpdateConfLater, SameLater DEF Fits
  <1>2. PICK s \in {Session, u} :
          \/ \E label : Goto(s, label)
          \/ \E answer, label : Goto(Packed(s, answer), label)
    BY DEF Purge, LoadNothing, Quit
  <1> HIDE DEF u
  <1>3. s \in Sessions /\ Later(Session, s)
    BY <1>1, <1>2
  <1>4. \A answer : Packed(s, answer) \in Sessions /\ Later(Session, Packed(s, answer))
    <2> SUFFICES ASSUME NEW answer
                 PROVE  Packed(s, answer) \in Sessions /\ Later(Session, Packed(s, answer))
      OBVIOUS
    <2>1. Fits(s, curBoard)
      BY <1>1, <1>2, UpdateConfFits DEF u
    <2>2. Packed(s, answer) \in Sessions
      BY <1>1, <2>1, PackedFits DEF Fits
    <2> QED
      BY <1>1, <1>3, <2>2, PackedLater, LaterThen
  <1> QED
    BY <1>2, <1>3, <1>4, GotoLater

\* A board is joined after mail was tossed: s is what is left of Session then.
LEMMA JoinLoadedKept ==
  ASSUME PointerInv, NEW s \in Sessions, InRanges(s), Kept(Session, s),
         NEW b \in Board, NEW t \in Tables, NEW mine \in Nat, JoinLoaded(s, b, t, mine)
  PROVE  NotLowered
  <1> DEFINE a   == ActvConf(s.disk, b, t)
             has == s.disk[b][REPL_CONF].there
             r   == IF has /\ t = NoBoard THEN Crash(s) ELSE s
             u(del) == CloseFiles(IF del THEN DeleteReplies(r, b) ELSE r)
             i   == IF mine > 0 THEN PCONF_IDX(t) ELSE FirstActive(active', t)
             v(del) == [u(del) EXCEPT !.rd.conf = i]
             g(del) == GetConf(v(del), b, t, i)
  <1>1. PICK del \in BOOLEAN :
          /\ active' = IF del /\ t # NoBoard THEN [a EXCEPT ![RCONF_IDX(t)] = FALSE] ELSE a
          /\ Goto(g(del), "shell")
    BY DEF JoinLoaded
  <1>2. i \in Nat
    <2>1. a \in [0 .. LastConf(t) -> BOOLEAN]
      BY ActiveType DEF Sessions, Tables
    <2>2. active' \in [0 .. LastConf(t) -> BOOLEAN]
      <3> HIDE DEF a
      <3> QED
        BY <1>1, <2>1
    <2>3. PCONF_IDX(t) \in Nat
      BY TableType DEF PCONF_IDX
    <2> QED
      BY <2>2, <2>3, FindActiveType
  <1>3. r \in Sessions /\ r.disk = s.disk
    BY ReadsDisk, CrashType
  <1> HIDE DEF i, r, a
  <1>4. g(del) \in Sessions /\ Shrunk(r, g(del))
    <2>1. InRanges(r)
      BY <1>3 DEF InRanges
    <2> QED
      BY <1>2, <1>3, <2>1, JoinBoardFits, JoinBoardShrunk DEF Fits
  <1> HIDE DEF g
  <1>5. Shrunk(s, g(del))
    BY <1>3, <1>4 DEF Shrunk
  <1>6. Kept(Session, g(del))
    BY <1>4, <1>5, PointerState, LaterThen
  <1> QED
    BY <1>1, <1>6, GotoKept

LEMMA LoadKept ==
  ASSUME PointerInv, NEW b \in Board,
         LoadPacket(b) \/ LoadUnopened(b) \/ LoadPartial(b)
  PROVE  NotLowered
  <1>1. \A answer : /\ Leaving(answer) \in Sessions /\ InRanges(Leaving(answer))
                    /\ Kept(Session, Leaving(answer))
    BY PointerState, LeavingLater, LaterThen
  <1>2. \A answer : \A p \in Packets(b) :
          LET s == Tossed(Leaving(answer), b, p.new, p.mine)
          IN  Fits(s, curBoard) /\ s \in Sessions /\ InRanges(s) /\ Kept(Session, s)
    <2> SUFFICES ASSUME NEW answer, NEW p \in Packets(b)
                 PROVE  LET s == Tossed(Leaving(answer), b, p.new, p.mine)
                        IN  Fits(s, curBoard) /\ s \in Sessions /\ InRanges(s) /\ Kept(Session, s)
      OBVIOUS
    <2> DEFINE l == Leaving(answer)
               s == Tossed(l, b, p.new, p.mine)
    <2>1. p.new \in [Regular(b) -> Nat] /\ p.mine \in Nat
      BY PacketType
    <2>2. Later(Session, l) /\ l \in Sessions /\ InRanges(l) /\ Fits(l, curBoard)
      BY PointerState, LeavingLater, LeavingFits
    <2> HIDE DEF l
    <2>3. Fits(s, curBoard) /\ Kept(l, s)
      BY <2>1, <2>2, TossedFits, TossedKept
    <2> HIDE DEF s
    <2>4. s \in Sessions /\ InRanges(s) /\ Kept(Session, s)
      BY <2>2, <2>3, PointerState, LaterThen DEF Fits
    <2> QED
      BY <2>3, <2>4 DEF s, l
  <1>3. b \in Tables /\ tbl \in Tables
    BY PointerState DEF Tables
  <1>4. CASE LoadPacket(b)
    <2>1. PICK answer \in PackAnswers, p \in Packets(b) :
            JoinLoaded(Tossed(Leaving(answer), b, p.new, p.mine), b, b, p.mine)
      BY <1>4 DEF LoadPacket
    <2> DEFINE s == Tossed(Leaving(answer), b, p.new, p.mine)
    <2>2. s \in Sessions /\ InRanges(s) /\ Kept(Session, s) /\ p.mine \in Nat
      BY <1>2, PacketType
    <2> HIDE DEF s
    <2> QED
      BY <1>3, <2>1, <2>2, JoinLoadedKept DEF s
  <1>5. CASE LoadUnopened(b)
    <2>1. PICK answer \in PackAnswers, t \in {tbl, b} : JoinLoaded(Leaving(answer), b, t, 0)
      BY <1>5 DEF LoadUnopened
    <2>2. t \in Tables /\ 0 \in Nat
      BY <1>3
    <2> QED
      BY <1>1, <2>1, <2>2, JoinLoadedKept
  <1>6. CASE LoadPartial(b)
    <2>1. PICK answer \in PackAnswers, p \in Packets(b) :
            Goto(GetConf(Tossed(Leaving(answer), b, p.new, p.mine), curBoard, b, rd.conf), "shell")
      BY <1>6 DEF LoadPartial
    <2> DEFINE s == Tossed(Leaving(answer), b, p.new, p.mine)
    <2>2. s \in Sessions /\ Kept(Session, s)
      BY <1>2
    <2> HIDE DEF s
    <2>3. GetConf(s, curBoard, b, rd.conf).disk = s.disk
      BY <2>2, ReadsDisk
    <2>4. Kept(Session, GetConf(s, curBoard, b, rd.conf))
      BY <2>2, <2>3 DEF Kept
    <2> QED
      BY <2>1, <2>4, GotoKept DEF s
  <1> QED
    BY <1>4, <1>5, <1>6

LEMMA ReadKept ==
  ASSUME PointerInv, NEW b \in Board, Read(b) \/ ReadUnknown(b)
  PROVE  NotLowered
  <1>1. \A answer : /\ Leaving(answer) \in Sessions /\ InRanges(Leaving(answer))
                    /\ Kept(Session, Leaving(answer))
    BY PointerState, LeavingLater, LaterThen
  <1>2. b \in Tables
    BY DEF Tables
  <1>3. CASE Read(b)
    <2> DEFINE u(answer, del) ==
          CloseFiles(IF del THEN DeleteReplies(Leaving(answer), b) ELSE Leaving(answer))
               i == FirstActive(active', b)
               v(answer, del) == [u(answer, del) EXCEPT !.rd.conf = i]
               g(answer, del) == GetConf(v(answer, del), b, b, i)
    <2>1. PICK answer \in PackAnswers, del \in BOOLEAN :
            /\ active' = ActvConf(u(answer, del).disk, b, b)
            /\ Goto(g(answer, del), "shell")
      BY <1>3 DEF Read
    <2>2. u(answer, del) \in Sessions
      BY <1>1, DeleteType, CloseType
    <2>3. i \in Nat
      <3> HIDE DEF u
      <3>1. active' \in [0 .. LastConf(b) -> BOOLEAN]
        BY <1>2, <2>1, <2>2, ActiveType DEF Sessions
      <3> QED
        BY <1>2, <3>1, FindActiveType
    <2> HIDE DEF i
    <2>4. g(answer, del) \in Sessions /\ Shrunk(Leaving(answer), g(answer, del))
      BY <1>1, <1>2, <2>3, JoinBoardFits, JoinBoardShrunk DEF Fits
    <2> HIDE DEF g
    <2>5. Kept(Session, g(answer, del))
      BY <1>1, <2>4, PointerState, LaterThen
    <2> QED
      BY <2>1, <2>5, GotoKept
  <1>4. CASE ReadUnknown(b)
    <2>1. PICK answer : Goto(GetConf(Leaving(answer), curBoard, tbl, rd.conf), "shell")
      BY <1>4 DEF ReadUnknown
    <2>2. GetConf(Leaving(answer), curBoard, tbl, rd.conf).disk = Leaving(answer).disk
      BY <1>1, ReadsDisk
    <2>3. Kept(Session, GetConf(Leaving(answer), curBoard, tbl, rd.conf))
      BY <1>1, <2>2 DEF Kept
    <2> QED
      BY <2>1, <2>3, GotoKept
  <1> QED
    BY <1>3, <1>4

LEMMA StoredLater ==
  ASSUME PointerInv, curBoard \in Board, FilesOpen(rd) \/ ~InReplies
  PROVE  Later(Session, Stored)
  <1> DEFINE o == IF OwnStreams THEN OpenConf(Session) ELSE disk[curBoard][REPL_CONF]
             c == Extended(o, 1)
             s == IF OwnStreams THEN PutOpen(Session, c)
                  ELSE [Session EXCEPT !.disk[curBoard][REPL_CONF] = c]
  <1>1. /\ Fits(Session, curBoard) /\ Session \in Sessions /\ REPL_CONF \in Numbers
        /\ Session.rd = rd /\ Session.disk = disk
    BY PointerState, NumbersType
  <1>2. CASE OwnStreams /\ rd.own.there
    <2>1. s = [Session EXCEPT !.rd.own = c]
      BY <1>1, <1>2 DEF PutOpen
    <2>2. [Session EXCEPT !.rd.own = c].disk = disk
      <3> HIDE DEF c
      <3> QED
        BY <1>1 DEF Sessions
    <2>3. s.disk = Session.disk
      BY <1>1, <2>1, <2>2
    <2> HIDE DEF s
    <2>4. Later(Session, s)
      BY <1>1, <2>3, SameLater
    <2> QED
      BY <2>4 DEF s, Stored
  <1>3. CASE ~(OwnStreams /\ rd.own.there)
    <2>1. o \in Conference /\ InRange(o)
      <3>1. FilesOpen(rd) => rd.fh \in Numbers
        BY <1>1 DEF FilesOpen, Sessions, Reader
      <3>2. OwnStreams => InReplies
        BY DEF OwnStreams
      <3> QED
        BY <1>1, <1>3, <3>1, <3>2 DEF OpenConf, Fits, InRanges, Sessions
    <2>2. OwnStreams => o = OpenConf(Session)
      OBVIOUS
    <2>3. ~OwnStreams => o = Session.disk[curBoard][REPL_CONF]
      BY <1>1
    <2> HIDE DEF o
    <2>4. c.there /\ c.last >= o.last
      BY <2>1 DEF Extended, Conference, InRange, VIRGINDX
    <2> HIDE DEF c
    <2>5. CASE OwnStreams
      <3>1. Later(Session, PutOpen(Session, c))
        BY <1>1, <2>2, <2>4, <2>5, PutOpenLater
      <3> QED
        BY <2>5, <3>1 DEF Stored, c, o
    <2>6. CASE ~OwnStreams
      <3>1. Later(Session, [Session EXCEPT !.disk[curBoard][REPL_CONF] = c])
        BY <1>1, <2>3, <2>4, <2>6, PutLater
      <3> QED
        BY <2>6, <3>1 DEF Stored, c, o
    <2> QED
      BY <2>5, <2>6
  <1> QED
    BY <1>2, <1>3

LEMMA ReplyKept ==
  ASSUME PointerInv, NEW mode, NEW arg, Reply(mode, arg) \/ ReplyTooBig(mode, arg)
  PROVE  NotLowered
  <1>1. /\ Fits(Session, curBoard) /\ Session \in Sessions /\ curBoard \in Board
        /\ Session.rd = rd /\ Session.disk = disk /\ REPL_CONF \in Numbers
    BY PointerState, NumbersType DEF Reply, ReplyTooBig, Prompt
  <1>2. CASE Reply(mode, arg) /\ ~(InReplies /\ (~FilesOpen(rd) \/ rd.dead))
    <2>1. Goto(ShowReply(Stored, mode), "shell")
      BY <1>2 DEF Reply, Stored
    <2>2. FilesOpen(rd) \/ ~InReplies
      BY <1>2
    <2>3. Fits(Stored, curBoard) /\ Stored \in Sessions /\ Later(Session, Stored)
      BY <1>1, <2>2, StoredFits, StoredLater DEF Fits
    <2>4. FilesOpen(Stored.rd) \/ ~InReplies
      BY <1>1, <2>2, StoredFits DEF FilesOpen
    <2>5. Later(Stored, ShowReply(Stored, mode)) /\ ShowReply(Stored, mode) \in Sessions
      BY <1>1, <2>3, <2>4, ShowReplyLater, ShowReplyFits DEF Fits
    <2>6. Later(Session, ShowReply(Stored, mode))
      BY <1>1, <2>3, <2>5, LaterThen
    <2> QED
      BY <2>1, <2>6, GotoLater
  <1>3. CASE Reply(mode, arg) /\ InReplies /\ (~FilesOpen(rd) \/ rd.dead)
    <2>1. Goto(Crash(Session), "shell")
      BY <1>3 DEF Reply
    <2> QED
      BY <1>1, <2>1, ReadRecordLater, GotoLater
  <1>4. CASE ReplyTooBig(mode, arg)
    <2> DEFINE p == Session.disk[curBoard][REPL_CONF]
               q == Opened(p)
               s1 == [Session EXCEPT !.disk[curBoard][REPL_CONF] = q]
               s2 == [Session EXCEPT !.rd.dead = TRUE]
    <2>1. PICK t \in {s1, s2, Crash(Session)} : Goto(t, "shell")
      BY <1>4 DEF ReplyTooBig
    <2>2. p.there => q.there /\ q.last >= p.last
      <3>1. p.last \in Int
        BY <1>1 DEF Sessions, Conference
      <3> HIDE DEF p
      <3> QED
        BY <3>1 DEF Opened
    <2> HIDE DEF q
    <2>3. Later(Session, s1)
      BY <1>1, <2>2, PutLater
    <2>4. s2.disk = Session.disk
      BY <1>1 DEF Sessions
    <2> HIDE DEF s1, s2
    <2> QED
      BY <1>1, <2>1, <2>3, <2>4, SameLater, ReadRecordLater, GotoLater
  <1> QED
    BY <1>2, <1>3, <1>4

\* No command but 'reset' and a purge lowers the pointer of a conference that is
\* there before and after, whatever the packets bring and the faults do: what has
\* been read does not come back as unread.
THEOREM LastReadIsKept == Spec => LastReadKept
  <1>1. PointerInv /\ [Next]_vars =>
          (\A b \in Board, f \in Numbers :
             disk[b][f].there /\ disk'[b][f].there /\ pc # "purge" /\ ~Reset
               => Saved(b, f)' >= Saved(b, f))
    <2> SUFFICES ASSUME PointerInv, [Next]_vars, pc # "purge", ~Reset PROVE NotLowered
      BY DEF NotLowered
    <2>1. CASE Command
      <3>1. ASSUME NEW mode, ReadNext(mode) \/ Scan(mode) PROVE NotLowered
        BY <3>1, ReadingKept
      <3>2. CASE GoToNum
        BY <3>2, ReadingKept
      <3>3. CASE Join \/ NextConf \/ ListConf \/ Purge \/ LoadNothing \/ Quit
        BY <3>3, ConferenceKept, LeavingKept
      <3>4. ASSUME NEW b \in Board,
                   LoadPacket(b) \/ LoadUnopened(b) \/ LoadPartial(b) \/ Read(b) \/ ReadUnknown(b)
            PROVE  NotLowered
        BY <3>4, LoadKept, ReadKept
      <3>5. ASSUME NEW mode, NEW arg, Reply(mode, arg) \/ ReplyTooBig(mode, arg)
            PROVE  NotLowered
        BY <3>5, ReplyKept
      <3> QED
        BY <2>1, <3>1, <3>2, <3>3, <3>4, <3>5 DEF Command
    <2>2. CASE Internal
      <3>1. ~PurgeTurn /\ ~PurgeEnd
        BY DEF PurgeTurn, PurgeEnd
      <3> QED
        BY <2>2, <3>1, ConferenceKept DEF Internal
    <2>3. CASE Restart \/ UNCHANGED vars
      <3>1. disk' = disk
        BY <2>3 DEF Restart, vars
      <3> QED
        BY <3>1, SameDisk
    <2> QED
      BY <2>1, <2>2, <2>3 DEF Next
  <1>2. PointerInv /\ [Next]_vars => PointerInv'
    BY PointerStep
  <1> QED
    BY InitFits, <1>1, <1>2, PTL DEF Spec, LastReadKept
=============================================================================
