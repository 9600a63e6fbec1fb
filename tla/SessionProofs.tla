---------------------------- MODULE SessionProofs ----------------------------
(***************************************************************************)
(* Type correctness of the shell for any boards, conferences and messages, *)
(* under every fault.  A command is a sequence of calls on a session       *)
(* s = [disk, rd, crash]; each call is shown to map sessions to sessions.  *)
(***************************************************************************)
EXTENDS Session, FiniteSetTheorems, WellFoundedInduction, TLAPS

----------------------------------------------------------------------------
(* What the operations on a conference preserve, for conferences of any    *)
(* length: they yield conferences, and a last-read pointer that names a    *)
(* message, or none, still does so when messages are added or purged.      *)

\* What the shell makes of a conference is one: new, created, extended.
LEMMA ConferenceType ==
  /\ Absent \in Conference /\ Created \in Conference
  /\ \A c \in Conference : Opened(c) \in Conference
  /\ \A c \in Conference, k \in Nat : Extended(c, k) \in Conference
  <1>1. Absent \in Conference
    BY DEF Absent, Conference, VIRGINDX
  <1>2. Created \in Conference
    BY <1>1 DEF Created, Conference
  <1>3. \A c \in Conference, k \in Nat : Extended(c, k) \in Conference
    BY DEF Extended, Conference, VIRGINDX
  <1> QED
    BY <1>1, <1>2, <1>3 DEF Opened

\* A purged conference is a conference.
LEMMA ClipType ==
  ASSUME NEW c \in Conference, NEW cmd, NEW k \in Nat
  PROVE  Clip(c, cmd, k) \in Conference
  <1> DEFINE start == IF cmd = "C" THEN 0 ELSE c.n - k
             kept  == {p \in Live(c) : p >= start}
             base  == ClipBase(c, start)
             hit   == {p \in c.killed : p >= start /\ p - start <= base}
  <1>1. c.n \in Nat /\ c.last \in Int /\ c.killed \in SUBSET Nat /\ start \in Int
    BY DEF Conference
  <1>2. base \in Int
    BY <1>1 DEF ClipBase
  <1>3. Cardinality(kept) \in Nat
    <2>1. IsFiniteSet(0 .. c.n - 1) /\ kept \in SUBSET (0 .. c.n - 1)
      BY <1>1, FS_Interval DEF Live, Positions
    <2> QED
      BY <2>1, FS_Subset, FS_CardinalityType
  <1>4. Cardinality(hit) \in Nat
    <2>1. hit \in SUBSET (start .. start + base)
      BY <1>1, <1>2
    <2>2. IsFiniteSet(start .. start + base)
      <3>1. start \in Int /\ start + base \in Int
        BY <1>1, <1>2
      <3> HIDE DEF start, base
      <3> QED
        BY <3>1, FS_Interval
    <2> QED
      BY <2>1, <2>2, FS_Subset, FS_CardinalityType
  <1>5. ClipLast(c, start) \in Int
    BY <1>2, <1>4 DEF ClipLast
  <1>6. Clipped(c, start) \in Conference
    BY <1>3, <1>5, ConferenceType DEF Clipped, Conference
  <1> QED
    BY <1>6 DEF Clip

----------------------------------------------------------------------------
(* The pointer stays in range.                                             *)

\* Messages are added at the end, and a new conference starts out unread.
THEOREM ExtendedInRange ==
  ASSUME NEW c \in Conference, NEW k \in Nat, InRange(c)
  PROVE  InRange(Opened(c)) /\ InRange(Extended(c, k))
  <1>1. c.n \in Nat /\ c.last \in Int
    BY DEF Conference
  <1>2. InRange(Created)
    BY DEF InRange, Created, Absent, Positions, VIRGINDX
  <1> QED
    BY <1>1, <1>2 DEF Opened, Extended, InRange, Positions, VIRGINDX

\* clip_do and clip_loop lower the pointer by one for every killed message at or
\* before it, and no further than 0; it then lies below the number of survivors.
\* The messages start .. start + base, base being the pointer to begin with, are
\* the killed ones it is lowered for and survivors, of which there are therefore
\* more than the pointer that is left.
THEOREM ClipInRange ==
  ASSUME NEW c \in Conference, InRange(c), NEW cmd \in {"C", "T"}, NEW k \in Nat
  PROVE  InRange(Clip(c, cmd, k))
  <1> DEFINE start == IF cmd = "C" THEN 0 ELSE c.n - k
             kept  == {p \in Live(c) : p >= start}
             base  == ClipBase(c, start)
             hit   == {p \in c.killed : p >= start /\ p - start <= base}
             met   == start .. start + base
  <1> SUFFICES ASSUME Clips(c, cmd, k), kept # {}
               PROVE  ClipLast(c, start) \in 0 .. Cardinality(kept) - 1
    <2>1. InRange(Absent)
      BY DEF InRange, Absent, Positions, VIRGINDX
    <2>2. Cardinality(kept) - 1 >= ClipLast(c, start) /\ ClipLast(c, start) >= 0
            /\ ClipLast(c, start) \in Int
            => InRange([there |-> TRUE, n |-> Cardinality(kept),
                        last |-> ClipLast(c, start), killed |-> {}])
      BY DEF InRange, Positions, VIRGINDX
    <2> QED
      BY <2>1, <2>2 DEF Clip, Clipped
  <1>1. /\ c.n \in Nat /\ c.n > 0 /\ c.last \in Int /\ c.last < c.n
        /\ c.killed \subseteq 0 .. c.n - 1
        /\ start \in Nat /\ start < c.n
    BY DEF Conference, InRange, Positions, Clips, VIRGINDX
  <1>2. base \in Nat /\ start + base < c.n
    BY <1>1 DEF ClipBase
  <1> HIDE DEF start, base
  <1>3. /\ IsFiniteSet(met) /\ Cardinality(met) = base + 1
        /\ hit \in SUBSET met /\ kept \cap met \in SUBSET kept
    <2>1. start + base \in Int /\ start \in Int /\ start <= start + base
      BY <1>1, <1>2
    <2>2. IsFiniteSet(met) /\ Cardinality(met) = (start + base) - start + 1
      BY <2>1, FS_Interval
    <2>3. (start + base) - start + 1 = base + 1
      BY <1>1, <1>2
    <2>4. hit \in SUBSET met
      BY <1>1, <1>2
    <2> QED
      BY <2>2, <2>3, <2>4
  <1>4. IsFiniteSet(kept)
    <2>1. c.n - 1 \in Int /\ 0 \in Int
      BY <1>1
    <2>2. IsFiniteSet(0 .. c.n - 1)
      BY <2>1, FS_Interval
    <2>3. kept \in SUBSET (0 .. c.n - 1)
      BY DEF Live, Positions
    <2> QED
      BY <2>2, <2>3, FS_Subset
  <1>5. met \ hit = kept \cap met
    BY <1>1, <1>2 DEF Live, Positions
  <1> HIDE DEF met, hit, kept
  <1>6. Cardinality(met \ hit) = (base + 1) - Cardinality(hit) /\ Cardinality(hit) \in Nat
    <2>1. IsFiniteSet(hit)
      BY <1>3, FS_Subset
    <2>2. Cardinality(met \ hit) = Cardinality(met) - Cardinality(met \cap hit)
      BY <1>3, <2>1, FS_Difference
    <2>3. met \cap hit = hit
      BY <1>3
    <2>4. Cardinality(hit) \in Nat
      BY <2>1, FS_CardinalityType
    <2>5. Cardinality(met \cap hit) = Cardinality(hit)
      BY <2>3
    <2>6. Cardinality(met \ hit) = (base + 1) - Cardinality(hit)
      BY <1>3, <2>2, <2>5, Zenon
    <2> QED
      BY <2>4, <2>6
  <1>7. Cardinality(kept) \in Nat /\ Cardinality(kept) >= (base + 1) - Cardinality(hit)
    BY <1>3, <1>4, <1>5, <1>6, FS_Subset, FS_CardinalityType
  <1>8. Cardinality(kept) > 0
    BY <1>4, <1>7, FS_EmptySet
  <1>9. ClipLast(c, start) = IF Cardinality(hit) >= base THEN 0 ELSE base - Cardinality(hit)
    BY DEF ClipLast, hit, base
  <1> QED
    BY <1>2, <1>6, <1>7, <1>8, <1>9

----------------------------------------------------------------------------
(* The session. *)

Sessions ==
  [disk : [Board -> [Numbers -> Conference]], rd : Reader, crash : BOOLEAN]

Tables == Board \cup {NoBoard}

----------------------------------------------------------------------------
(* The control table.                                                      *)

LEMMA SeqElement ==
  ASSUME NEW S, NEW s \in Seq(S), NEW k \in 1 .. Len(s)
  PROVE  s[k] \in S
  OBVIOUS

\* The conference numbers are natural numbers.
LEMMA NumbersType ==
  /\ 0 \in Numbers /\ PERS_CONF \in Numbers /\ REPL_CONF \in Numbers
  /\ \A b \in Board : Regular(b) \subseteq Numbers
  /\ Numbers \subseteq Nat
  <1>1. ASSUME NEW b \in Board, NEW k \in 1 .. Len(MainConfs[b])
        PROVE  MainConfs[b][k] \in Nat
    <2>1. MainConfs[b] \in Seq(0 .. PERS_CONF - 1)
      BY SessionAssumption
    <2>2. MainConfs[b][k] \in 0 .. PERS_CONF - 1
      BY <2>1, SeqElement
    <2>3. 0 .. PERS_CONF - 1 \subseteq Nat
      BY DEF PERS_CONF
    <2> QED
      BY <2>2, <2>3
  <1>2. \A b \in Board : Regular(b) \subseteq Nat
    BY <1>1 DEF Regular
  <1> DEFINE U == UNION {Regular(b) : b \in Board}
  <1>3. U \subseteq Nat /\ \A b \in Board : Regular(b) \subseteq U
    BY <1>2
  <1>4. Numbers = U \cup {0, PERS_CONF, REPL_CONF}
    BY DEF Numbers
  <1> HIDE DEF U
  <1> QED
    BY <1>3, <1>4 DEF PERS_CONF, REPL_CONF

\* Every index of a table stands for one of the conference numbers.
LEMMA TableType ==
  ASSUME NEW t \in Tables
  PROVE  /\ LastConf(t) \in Nat
         /\ t # NoBoard => LastConf(t) >= 1
         /\ \A i \in 0 .. LastConf(t) : ConfNumbers(t)[i] \in Numbers
  <1>1. LastConf(t) \in Nat /\ (t # NoBoard => LastConf(t) >= 1)
    BY SessionAssumption DEF LastConf, Tables
  <1>2. ASSUME NEW i \in 0 .. LastConf(t) PROVE ConfNumbers(t)[i] \in Numbers
    <2>1. CASE t = NoBoard
      BY <2>1, <1>2, NumbersType DEF ConfNumbers
    <2>2. CASE t # NoBoard /\ i \in {RCONF_IDX(t), PCONF_IDX(t)}
      BY <2>2, <1>2, NumbersType DEF ConfNumbers
    <2>3. CASE t # NoBoard /\ i \notin {RCONF_IDX(t), PCONF_IDX(t)}
      <3>1. t \in Board /\ i + 1 \in 1 .. Len(MainConfs[t])
        BY <1>1, <2>3, SessionAssumption DEF LastConf, RCONF_IDX, PCONF_IDX, Tables
      <3>2. ConfNumbers(t)[i] = MainConfs[t][i + 1]
        BY <2>3 DEF ConfNumbers
      <3> QED
        BY <3>1, <3>2, NumbersType DEF Regular
    <2> QED
      BY <2>1, <2>2, <2>3
  <1> QED
    BY <1>1, <1>2

\* ActvConf and its count.
LEMMA ActiveType ==
  ASSUME NEW d \in [Board -> [Numbers -> Conference]], NEW b \in Tables, NEW t \in Tables
  PROVE  /\ ActvConf(d, b, t) \in [0 .. LastConf(t) -> BOOLEAN]
         /\ ReplyFlags(ActvConf(d, b, t), t) \subseteq BOOLEAN
  <1>1. ASSUME NEW i \in 0 .. LastConf(t)
        PROVE  (b # NoBoard /\ d[b][ConfNumbers(t)[i]].there) \in BOOLEAN
    BY <1>1
  <1>2. ActvConf(d, b, t) \in [0 .. LastConf(t) -> BOOLEAN]
    BY <1>1 DEF ActvConf
  <1>3. t # NoBoard => RCONF_IDX(t) \in 0 .. LastConf(t)
    BY TableType DEF RCONF_IDX
  <1> QED
    BY <1>2, <1>3 DEF ReplyFlags

LEMMA CountType ==
  ASSUME NEW t \in Tables, NEW a \in [0 .. LastConf(t) -> BOOLEAN]
  PROVE  ActiveCount(a) \in Nat
  <1>1. IsFiniteSet(0 .. LastConf(t))
    BY TableType, FS_Interval
  <1> QED
    BY <1>1, FS_Subset, FS_CardinalityType DEF ActiveCount

\* A set of indices has a least one.
LEMMA MinNat ==
  ASSUME NEW S \in SUBSET Nat, S # {}
  PROVE  Min(S) \in S
  <1> DEFINE R == {p \in Nat \X Nat : p[1] < p[2]}
  <1>1. IsWellFoundedOn(R, Nat)
    <2>1. R = OpToRel(<, Nat)
      BY Zenon DEF OpToRel
    <2> QED
      BY <2>1, NatLessThanWellFounded, Zenon
  <1>2. PICK x \in S : \A y \in S : ~(<<y, x>> \in R)
    <2> HIDE DEF R
    <2> QED
      BY <1>1, WFMin
  <1>3. \A y \in S : <<y, x>> \in R <=> y < x
    OBVIOUS
  <1>4. \A y \in S : x <= y
    <2> HIDE DEF R
    <2> SUFFICES ASSUME NEW y \in S PROVE x <= y
      OBVIOUS
    <2>1. ~(y < x) /\ x \in Nat /\ y \in Nat
      BY <1>2, <1>3
    <2> QED
      BY <2>1
  <1> QED
    BY <1>4 DEF Min

LEMMA FindActiveType ==
  ASSUME NEW t \in Tables, NEW a \in [0 .. LastConf(t) -> BOOLEAN], NEW i \in Int
  PROVE  FindActive(a, i) \in Int /\ FirstActive(a, t) \in Nat
  <1>1. ASSUME NEW j \in Int PROVE FindActive(a, j) \in Nat \cup {-1}
    <2>1. LastConf(t) \in Nat
      BY TableType
    <2> DEFINE after  == {k \in DOMAIN a : k > j /\ a[k]}
               before == {k \in DOMAIN a : k <= j /\ a[k]}
    <2>2. after \in SUBSET Nat /\ before \in SUBSET Nat
      BY <2>1
    <2>3. (after # {} => Min(after) \in Nat) /\ (before # {} => Min(before) \in Nat)
      BY <2>2, MinNat
    <2> QED
      BY <2>3 DEF FindActive
  <1>2. LastConf(t) \in Int
    BY TableType
  <1> QED
    BY <1>1, <1>2 DEF FirstActive

----------------------------------------------------------------------------
(* The calls.                                                              *)

\* Type of everything but the loop variables, and that a loop runs on a loaded
\* board from a legal index.
TypeInv ==
  /\ TypeOK
  /\ pc \in {"next", "joining", "purge"} => Loaded
  /\ pc = "purge" => lp.i \in Nat

\* What a write to the disk changes.
LEMMA PutType ==
  ASSUME NEW s \in Sessions, NEW b, NEW f,
         NEW c, b \in Board /\ f \in Numbers => c \in Conference
  PROVE  [s EXCEPT !.disk[b][f] = c] \in Sessions
  <1>1. CASE b \in Board /\ f \in Numbers
    BY <1>1 DEF Sessions
  <1>2. CASE b \in Board /\ f \notin Numbers
    BY <1>2 DEF Sessions
  <1>3. CASE b \notin Board
    BY <1>3 DEF Sessions
  <1> QED
    BY <1>1, <1>2, <1>3

\* What a change of the reader keeps.
LEMMA ReaderType ==
  ASSUME NEW s \in Sessions, NEW r \in Reader
  PROVE  [s EXCEPT !.rd = r] \in Sessions
  BY DEF Sessions

LEMMA CrashType ==
  ASSUME NEW s \in Sessions
  PROVE  Crash(s) \in Sessions
  BY DEF Sessions, Crash

LEMMA OpenType ==
  ASSUME NEW s \in Sessions, curBoard \in Board, FilesOpen(s.rd)
  PROVE  OpenConf(s) \in Conference
  BY DEF Sessions, Reader, OpenConf, FilesOpen

LEMMA PutOpenType ==
  ASSUME NEW s \in Sessions, NEW c,
         s.rd.own.there \/ (curBoard \in Board /\ s.rd.fh \in Numbers) => c \in Conference
  PROVE  PutOpen(s, c) \in Sessions
  <1>1. CASE s.rd.own.there
    BY <1>1 DEF Sessions, Reader, PutOpen
  <1>2. CASE ~s.rd.own.there
    BY <1>2, PutType DEF PutOpen
  <1> QED
    BY <1>1, <1>2

\* The integer fields of the reader.  (An EXCEPT with several updates is taken
\* apart into single ones in what follows.)
LEMMA IntFieldType ==
  ASSUME NEW s \in Sessions, NEW x \in Int
  PROVE  /\ [s EXCEPT !.rd.pos = x] \in Sessions
         /\ [s EXCEPT !.rd.last = x] \in Sessions
         /\ [s EXCEPT !.rd.num = x] \in Sessions
         /\ [s EXCEPT !.rd.tot = x] \in Sessions
         /\ [s EXCEPT !.rd.hdr = x] \in Sessions
         /\ [s EXCEPT !.rd.body = x] \in Sessions
  BY DEF Sessions, Reader

LEMMA CloseType ==
  ASSUME NEW s \in Sessions
  PROVE  CloseFiles(s) \in Sessions
  <1> DEFINE zero == 0
             s1 == [[s EXCEPT !.rd.fh = NoFile] EXCEPT !.rd.dead = FALSE]
             s2 == [s1 EXCEPT !.rd.pos = zero]
             s3 == [[s2 EXCEPT !.rd.hdr = NoMsg] EXCEPT !.rd.body = NoMsg]
             s4 == [[s3 EXCEPT !.rd.own = Absent] EXCEPT !.crash = @ \/ s.rd.dead]
  <1>1. FilesOpen(s.rd) => CloseFiles(s) = s4
    BY DEF CloseFiles
  <1>0. zero \in Int /\ NoMsg \in Int
    BY DEF NoMsg
  <1> HIDE DEF zero, s1, s2, s3, s4
  <1>2. s1 \in Sessions
    BY DEF s1, Sessions, Reader
  <1>3. s2 \in Sessions
    BY <1>0, <1>2, IntFieldType DEF s2
  <1>4. s3 \in Sessions
    BY <1>0, <1>3, IntFieldType DEF s3
  <1>5. s4 \in Sessions
    BY <1>4, ConferenceType DEF s4, Sessions, Reader
  <1> QED
    BY <1>1, <1>5 DEF CloseFiles

LEMMA GetConfType ==
  ASSUME NEW s \in Sessions, NEW b \in Tables, NEW t \in Tables, NEW i \in Nat
  PROVE  GetConf(s, b, t, i) \in Sessions
  <1> DEFINE f == ConfNumbers(t)[i]
             c == s.disk[b][f]
  <1>1. CASE b = NoBoard
    BY <1>1 DEF GetConf
  <1>2. CASE b # NoBoard /\ i > LastConf(t)
    BY <1>2, CrashType DEF GetConf
  <1>3. CASE b # NoBoard /\ ~(i > LastConf(t))
    <2>1. b \in Board /\ f \in Numbers /\ c \in Conference
      <3>1. b \in Board /\ i \in 0 .. LastConf(t)
        BY <1>3, TableType DEF Tables
      <3> QED
        BY <3>1, TableType DEF Sessions
    <2> DEFINE r == [conf |-> i, fh |-> f, dead |-> FALSE,
                     pos |-> IF c.last = VIRGINDX THEN 0 ELSE c.last,
                     last |-> c.last, num |-> 0, tot |-> c.n, first |-> FALSE,
                     hdr |-> NoMsg, body |-> NoMsg, own |-> Absent]
    <2>2. r \in Reader
      BY <2>1, ConferenceType DEF Reader, Conference, NoMsg
    <2>3. [CloseFiles(s) EXCEPT !.rd = r] \in Sessions
      BY <2>2, CloseType, ReaderType
    <2>4. [s EXCEPT !.rd.tot = 0] \in Sessions
      BY DEF Sessions, Reader
    <2> QED
      BY <1>3, <2>1, <2>3, <2>4 DEF GetConf, Conference
  <1> QED
    BY <1>1, <1>2, <1>3

LEMMA UpdateConfType ==
  ASSUME NEW s \in Sessions, NEW reset \in BOOLEAN
  PROVE  UpdateConf(s, reset) \in Sessions
  <1> DEFINE t == [s EXCEPT !.rd.pos = s.rd.num]
             c == [OpenConf(s) EXCEPT !.last = s.rd.num]
  <1>1. t \in Sessions /\ [s EXCEPT !.rd.pos = 1] \in Sessions
    BY DEF Sessions, Reader
  <1>2. t.rd.own = s.rd.own /\ t.rd.fh = s.rd.fh
    BY DEF Sessions, Reader
  <1>3. s.rd.own.there \/ (curBoard \in Board /\ s.rd.fh \in Numbers) => c \in Conference
    <2>1. s.rd.own.there \/ (curBoard \in Board /\ s.rd.fh \in Numbers)
            => OpenConf(s) \in Conference
      BY DEF Sessions, Reader, OpenConf
    <2>2. s.rd.num \in Int
      BY DEF Sessions, Reader
    <2> QED
      BY <2>1, <2>2 DEF Conference
  <1> HIDE DEF t, c
  <1>4. PutOpen(t, c) \in Sessions
    BY <1>1, <1>2, <1>3, PutOpenType
  <1> QED
    BY <1>1, <1>4 DEF UpdateConf, t, c

LEMMA ChConfType ==
  ASSUME NEW s \in Sessions, curBoard \in Tables, tbl \in Tables,
         active \in [0 .. LastConf(tbl) -> BOOLEAN], NEW i
  PROVE  ChConf(s, i) \in Sessions
  <1>1. i \in DOMAIN active => i \in Nat
    BY TableType
  <1> QED
    BY <1>1, UpdateConfType, GetConfType DEF ChConf

LEMMA ReadRecordType ==
  ASSUME NEW s \in Sessions, NEW k \in Int, NEW quick \in BOOLEAN,
         curBoard \in Board, FilesOpen(s.rd)
  PROVE  ReadRecord(s, k, quick) \in Sessions
  <1> DEFINE l == IF k = 0 THEN OpenConf(s).last ELSE 0
             next == k + 1
             text == IF quick THEN s.rd.body ELSE k
             read == IF quick THEN s.rd.first ELSE TRUE
             s1 == [[s EXCEPT !.rd.last = l] EXCEPT !.rd.num = k]
             s2 == [[s1 EXCEPT !.rd.pos = next] EXCEPT !.rd.hdr = k]
             s3 == [s2 EXCEPT !.rd.body = text]
             s4 == [s3 EXCEPT !.rd.first = read]
  <1>1. ~s.rd.dead => ReadRecord(s, k, quick) = s4
    BY DEF ReadRecord
  <1>2. l \in Int /\ next \in Int /\ text \in Int /\ read \in BOOLEAN
    <2>1. OpenConf(s).last \in Int
      BY OpenType DEF Conference
    <2>2. s.rd.body \in Int /\ s.rd.first \in BOOLEAN
      BY DEF Sessions, Reader
    <2>3. l \in Int
      BY <2>1
    <2>4. next \in Int
      OBVIOUS
    <2>5. text \in Int
      BY <2>2
    <2>6. read \in BOOLEAN
      BY <2>2
    <2> QED
      BY <2>3, <2>4, <2>5, <2>6
  <1> HIDE DEF l, next, text, read, s1, s2, s3, s4
  <1>3. s1 \in Sessions
    BY <1>2, IntFieldType DEF s1
  <1>4. s2 \in Sessions
    BY <1>2, <1>3, IntFieldType DEF s2
  <1>5. s3 \in Sessions
    BY <1>2, <1>4, IntFieldType DEF s3
  <1>6. s4 \in Sessions
    BY <1>2, <1>5 DEF s4, Sessions, Reader
  <1> QED
    BY <1>1, <1>6, CrashType DEF ReadRecord

LEMMA SeekNumType ==
  ASSUME NEW s \in Sessions, NEW m \in Int, curBoard \in Board
  PROVE  SeekNum(s, m) \in Sessions
  <1> DEFINE k == m - 1
  <1>1. \/ SeekNum(s, m) \in {s, Crash(s), [s EXCEPT !.rd.pos = k]}
        \/ SeekNum(s, m) = ReadRecord(s, k, FALSE) /\ FilesOpen(s.rd)
    BY DEF SeekNum
  <1>2. k \in Int
    OBVIOUS
  <1> HIDE DEF k
  <1>3. [s EXCEPT !.rd.pos = k] \in Sessions
    BY <1>2, IntFieldType
  <1>4. FilesOpen(s.rd) => ReadRecord(s, k, FALSE) \in Sessions
    BY <1>2, ReadRecordType
  <1> QED
    BY <1>1, <1>3, <1>4, CrashType

LEMMA ReadAtType ==
  ASSUME NEW s \in Sessions, NEW mode, curBoard \in Board, FilesOpen(s.rd),
         Target(s, mode) \in Nat
  PROVE  ReadAt(s, mode) \in Sessions
  <1> DEFINE k == Target(s, mode)
  <1>1. ChangeStatus(s, k, mode) \in Sessions /\ FilesOpen(ChangeStatus(s, k, mode).rd)
    <2> DEFINE killed == OpenConf(s).killed
               after == CASE mode = "kill" -> IF k \in killed THEN killed \ {k} ELSE killed \cup {k}
                          [] mode = "nuke" -> killed \cup {k}
                          [] OTHER         -> killed \ {k}
               c == [OpenConf(s) EXCEPT !.killed = after]
    <2>1. OpenConf(s) \in Conference /\ killed \in SUBSET Nat
      BY OpenType DEF Conference
    <2>2. after \in SUBSET Nat
      BY <2>1
    <2>3. c \in Conference
      <3> HIDE DEF after
      <3> QED
        BY <2>1, <2>2 DEF Conference
    <2>4. ChangeStatus(s, k, mode) = PutOpen(s, c)
      BY DEF ChangeStatus
    <2> HIDE DEF c
    <2>5. PutOpen(s, c) \in Sessions
      BY <2>3, PutOpenType
    <2>6. PutOpen(s, c).rd.fh = s.rd.fh
      BY DEF PutOpen, Sessions, Reader
    <2> QED
      BY <2>4, <2>5, <2>6 DEF FilesOpen
  <1> DEFINE t == IF mode \in {"kill", "nuke", "private"} /\ ~s.rd.dead
                  THEN ChangeStatus(s, k, mode) ELSE s
  <1>2. t \in Sessions /\ FilesOpen(t.rd)
    BY <1>1
  <1>3. ReadAt(s, mode) = ReadRecord(t, k, FALSE) /\ k \in Int
    BY DEF ReadAt
  <1> HIDE DEF t, k
  <1> QED
    BY <1>2, <1>3, ReadRecordType

LEMMA PackedType ==
  ASSUME NEW s \in Sessions, NEW answer, curBoard \in Tables
  PROVE  Packed(s, answer) \in Sessions
  <1> DEFINE c == Opened(s.disk[curBoard][REPL_CONF])
             t == [s EXCEPT !.disk[curBoard][REPL_CONF] = c]
             u == [[t EXCEPT !.rd.hdr = NoMsg] EXCEPT !.rd.body = NoMsg]
  <1>1. curBoard \in Board /\ REPL_CONF \in Numbers => c \in Conference
    BY ConferenceType DEF Sessions
  <1>2. Packed(s, answer) \in {s, t, u}
    BY DEF Packed
  <1> HIDE DEF c
  <1>3. t \in Sessions
    BY <1>1, PutType
  <1>4. NoMsg \in Int
    BY DEF NoMsg
  <1> HIDE DEF t
  <1>5. u \in Sessions
    BY <1>3, <1>4, IntFieldType
  <1> QED
    BY <1>2, <1>3, <1>5

LEMMA PurgeAdjustType ==
  ASSUME NEW s \in Sessions, NEW i
  PROVE  PurgeAdjust(s, i) \in Sessions
  <1> DEFINE zero == 0
             c  == CloseFiles(s)
             first == c.rd.first /\ ~FilesOpen(s.rd)
             s1 == [[c EXCEPT !.rd.last = zero] EXCEPT !.rd.num = zero]
             s2 == [s1 EXCEPT !.rd.tot = zero]
             s3 == [s2 EXCEPT !.rd.first = first]
  <1>1. PurgeAdjust(s, i) \in {s, s3}
    BY DEF PurgeAdjust
  <1>2. zero \in Int /\ c \in Sessions /\ first \in BOOLEAN
    BY CloseType
  <1> HIDE DEF zero, c, first
  <1>3. s1 \in Sessions
    BY <1>2, IntFieldType
  <1> HIDE DEF s1
  <1>4. s2 \in Sessions
    BY <1>2, <1>3, IntFieldType
  <1> HIDE DEF s2
  <1>5. s3 \in Sessions
    BY <1>2, <1>4 DEF Sessions, Reader
  <1> QED
    BY <1>1, <1>5

LEMMA PurgeConfType ==
  ASSUME TypeOK, Loaded, NEW i \in 0 .. LastConf(tbl), NEW after \in Conference,
         NEW clips \in BOOLEAN
  PROVE  PurgeConf(i, after, clips) \in Sessions
  <1> DEFINE f == ConfNumbers(tbl)[i]
             s == PurgeAdjust(Session, i)
             unlinked == s.rd.fh = f /\ ~s.rd.own.there /\ (clips \/ ~after.there)
             own  == IF unlinked THEN s.disk[curBoard][f] ELSE s.rd.own
             hdr  == IF clips THEN NoMsg ELSE s.rd.hdr
             body == IF clips THEN NoMsg ELSE s.rd.body
             t1 == [s EXCEPT !.rd.own = own]
             t2 == [t1 EXCEPT !.disk[curBoard][f] = after]
             t  == [[t2 EXCEPT !.rd.hdr = hdr] EXCEPT !.rd.body = body]
  <1>1. PurgeConf(i, after, clips) \in {GetConf(t, curBoard, tbl, i), t}
    BY DEF PurgeConf
  <1>2. curBoard \in Board /\ tbl \in Tables /\ f \in Numbers /\ i \in Nat
    BY TableType DEF TypeOK, Loaded, Tables
  <1>3. s \in Sessions
    BY PurgeAdjustType DEF Session, Sessions, TypeOK
  <1>4. own \in Conference /\ hdr \in Int /\ body \in Int
    <2>1. s.disk[curBoard][f] \in Conference /\ s.rd \in Reader
      BY <1>2, <1>3 DEF Sessions
    <2> HIDE DEF s, f
    <2> QED
      BY <2>1 DEF Reader, NoMsg
  <1> HIDE DEF f, s, own, hdr, body
  <1>5. t1 \in Sessions
    BY <1>3, <1>4 DEF Sessions, Reader
  <1> HIDE DEF t1
  <1>6. t2 \in Sessions
    BY <1>2, <1>5, PutType
  <1> HIDE DEF t2
  <1>7. t \in Sessions
    BY <1>4, <1>6, IntFieldType
  <1> HIDE DEF t
  <1> QED
    BY <1>1, <1>2, <1>7, GetConfType DEF Tables

LEMMA DeleteType ==
  ASSUME NEW s \in Sessions, NEW b
  PROVE  DeleteReplies(s, b) \in Sessions
  BY ConferenceType, PutType DEF DeleteReplies

LEMMA TossedType ==
  ASSUME NEW s \in Sessions, NEW b \in Board,
         NEW new \in [Regular(b) -> Nat], NEW mine \in Nat
  PROVE  Tossed(s, b, new, mine) \in Sessions
  <1> DEFINE after(f) ==
        CASE f \in Regular(b) /\ new[f] > 0 -> Extended(s.disk[b][f], new[f])
          [] f = PERS_CONF ->
               IF mine > 0 THEN Extended(s.disk[b][f], mine)
               ELSE IF s.disk[b][f].n = 0 THEN Absent ELSE s.disk[b][f]
          [] OTHER -> s.disk[b][f]
             d == [f \in Numbers |-> after(f)]
  <1>1. ASSUME NEW f \in Numbers PROVE after(f) \in Conference
    <2>1. s.disk[b][f] \in Conference
      BY DEF Sessions
    <2> QED
      BY <2>1, ConferenceType
  <1>2. Tossed(s, b, new, mine) = [s EXCEPT !.disk[b] = d]
    BY DEF Tossed
  <1> HIDE DEF after
  <1>3. d \in [Numbers -> Conference]
    BY <1>1
  <1> HIDE DEF d
  <1>4. [s EXCEPT !.disk[b] = d] \in Sessions
    BY <1>3 DEF Sessions
  <1> QED
    BY <1>2, <1>4

LEMMA LeavingType ==
  ASSUME TypeOK, NEW answer
  PROVE  Leaving(answer) \in Sessions
  <1>1. Session \in Sessions /\ curBoard \in Tables
    BY DEF Session, Sessions, TypeOK, Tables
  <1>2. Packed(Session, answer) \in Sessions
    BY <1>1, PackedType
  <1> QED
    BY <1>2, UpdateConfType DEF Leaving

LEMMA ReadReplyType ==
  ASSUME NEW s \in Sessions, NEW mode, curBoard \in Board, FilesOpen(s.rd)
  PROVE  ReadReply(s, mode) \in Sessions
  <1>1. Target(s, mode) \in Positions(OpenConf(s)) => Target(s, mode) \in Nat
    BY OpenType DEF Positions, Conference
  <1> QED
    BY <1>1, ReadAtType DEF ReadReply

LEMMA ShowReplyType ==
  ASSUME NEW s \in Sessions, NEW mode, curBoard \in Board, FilesOpen(s.rd) \/ ~InReplies
  PROVE  ShowReply(s, mode) \in Sessions
  <1> DEFINE count == s.rd.tot + 1
             t == [s EXCEPT !.rd.tot = count]
             u == IF mode = "change" THEN ReadReply(t, "nuke") ELSE t
  <1>1. ShowReply(s, mode) \in {s, ReadReply(t, "cross"), SeekNum(u, u.rd.tot)}
        /\ (~InReplies => ShowReply(s, mode) = s)
    BY DEF ShowReply
  <1>2. count \in Int
    BY DEF Sessions, Reader
  <1> HIDE DEF count
  <1>3. t \in Sessions /\ t.rd.fh = s.rd.fh
    BY <1>2 DEF Sessions, Reader
  <1> HIDE DEF t
  <1>4. InReplies => FilesOpen(t.rd)
    BY <1>3 DEF FilesOpen
  <1>5. InReplies => ReadReply(t, "cross") \in Sessions /\ u \in Sessions
    BY <1>3, <1>4, ReadReplyType
  <1> HIDE DEF u
  <1>6. InReplies => SeekNum(u, u.rd.tot) \in Sessions
    <2>1. u \in Sessions => u.rd.tot \in Int
      BY DEF Sessions, Reader
    <2> QED
      BY <1>5, <2>1, SeekNumType
  <1> QED
    BY <1>1, <1>5, <1>6

----------------------------------------------------------------------------
(* The commands.                                                           *)

LEMMA SessionType ==
  ASSUME TypeOK
  PROVE  /\ Session \in Sessions /\ curBoard \in Tables /\ tbl \in Tables
         /\ Loaded => curBoard \in Board
         /\ Session.rd = rd /\ Session.disk = disk
  BY DEF TypeOK, Session, Sessions, Tables, Loaded

LEMMA GotoType ==
  ASSUME NEW s \in Sessions, NEW label \in Labels, Goto(s, label)
  PROVE  /\ disk' \in [Board -> [Numbers -> Conference]] /\ rd' \in Reader
         /\ pc' \in Labels /\ pc' \in {label, "crashed"}
  BY DEF Goto, Sessions, Labels

\* A command that leaves the table alone and returns to the prompt, or goes on
\* to AutoJoin from a loaded board.
LEMMA TableKept ==
  ASSUME TypeInv, UNCHANGED <<table, lp>>, NEW s \in Sessions,
         NEW label \in {"shell", "next", "exit"}, Goto(s, label), label = "next" => Loaded
  PROVE  TypeInv'
  <1>1. label \in Labels
    BY DEF Labels
  <1>2. /\ disk' \in [Board -> [Numbers -> Conference]] /\ rd' \in Reader
        /\ pc' \in Labels /\ pc' \in {label, "crashed"}
    BY <1>1, GotoType
  <1> QED
    BY <1>2 DEF TypeInv, TypeOK, table, Loaded

LEMMA ReadNextStep ==
  ASSUME TypeInv, NEW mode, ReadNext(mode)
  PROVE  TypeInv'
  <1>1. Session \in Sessions /\ curBoard \in Board /\ Session.rd = rd /\ UNCHANGED <<table, lp>>
    BY SessionType DEF ReadNext, Prompt, TypeInv
  <1>2. CASE FilesOpen(rd) /\ Target(Session, mode) \in Positions(OpenConf(Session))
             /\ Goto(ReadAt(Session, mode), "shell")
    <2>1. Target(Session, mode) \in Nat
      BY <1>1, <1>2, OpenType DEF Positions, Conference
    <2> QED
      BY <1>1, <1>2, <2>1, ReadAtType, TableKept
  <1>3. CASE Goto(Session, "next")
    BY <1>1, <1>3, TableKept DEF ReadNext, Prompt
  <1> QED
    BY <1>2, <1>3 DEF ReadNext

LEMMA GoToNumStep ==
  ASSUME TypeInv, GoToNum
  PROVE  TypeInv'
  <1>1. PICK m \in 1 .. MaxMsgs : Goto(SeekNum(Session, m), "shell")
    BY DEF GoToNum
  <1>2. SeekNum(Session, m) \in Sessions
    BY SessionType, SeekNumType DEF GoToNum, Prompt, TypeInv
  <1> QED
    BY <1>1, <1>2, TableKept DEF GoToNum

LEMMA ScanStep ==
  ASSUME TypeInv, NEW mode, Scan(mode)
  PROVE  TypeInv'
  <1>1. Session \in Sessions /\ curBoard \in Board /\ Session.rd = rd /\ UNCHANGED <<table, lp>>
    BY SessionType DEF Scan, Prompt, TypeInv
  <1> DEFINE read(k) == IF k < 0 THEN Session ELSE ReadRecord(Session, k, mode = "qscan")
             seek(k) == SeekNum(read(k), IF read(k).rd.num = 0 THEN 1 ELSE read(k).rd.num)
             back(k) == [seek(k) EXCEPT !.rd.pos = 0]
  <1>2. PICK k \in -1 .. MaxMsgs - 1 :
          /\ IF FilesOpen(rd) /\ rd.pos < OpenConf(Session).n
             THEN k \in rd.pos .. OpenConf(Session).n - 1 ELSE k = -1
          /\ \/ Goto(read(k), "shell") \/ Goto(seek(k), "shell") \/ Goto(back(k), "shell")
    BY DEF Scan
  <1>3. k \in Int /\ (FilesOpen(rd) \/ k < 0)
    BY <1>2, SessionAssumption
  <1>4. read(k) \in Sessions
    <2> DEFINE quick == mode = "qscan"
    <2>1. quick \in BOOLEAN
      OBVIOUS
    <2>2. ReadRecord(Session, k, quick) \in Sessions \/ k < 0
      <3> HIDE DEF quick
      <3> QED
        BY <1>1, <1>3, <2>1, ReadRecordType
    <2> QED
      BY <1>1, <2>2
  <1> DEFINE m == IF read(k).rd.num = 0 THEN 1 ELSE read(k).rd.num
  <1>5. m \in Int
    BY <1>4 DEF Sessions, Reader
  <1>6. seek(k) \in Sessions
    <2> HIDE DEF read
    <2> QED
      BY <1>1, <1>4, <1>5, SeekNumType
  <1>7. back(k) \in Sessions
    <2> HIDE DEF seek
    <2> QED
      BY <1>6 DEF Sessions, Reader
  <1> HIDE DEF read, seek, back
  <1> QED
    BY <1>1, <1>2, <1>4, <1>6, <1>7, TableKept

LEMMA ConferenceCommands ==
  ASSUME TypeInv, Reset \/ Join \/ NextConf
  PROVE  TypeInv'
  <1>1. Session \in Sessions /\ UNCHANGED <<table, lp>> /\ Loaded
    BY SessionType DEF Reset, Join, NextConf, Prompt, TypeInv
  <1>2. CASE Reset
    BY <1>1, <1>2, UpdateConfType, TableKept DEF Reset
  <1>3. CASE Join
    <2>1. PICK i \in DOMAIN active : Goto(ChConf(Session, i), "shell")
      BY <1>3 DEF Join
    <2>2. ChConf(Session, i) \in Sessions
      BY <1>1, SessionType, ChConfType DEF TypeInv, TypeOK
    <2> QED
      BY <1>1, <2>1, <2>2, TableKept
  <1>4. CASE NextConf
    BY <1>1, <1>4, TableKept DEF NextConf
  <1> QED
    BY <1>2, <1>3, <1>4

LEMMA NoLoopType == NoLoop \in [i : Int, j : Int] /\ NoLoop.i = 0
  BY DEF NoLoop

LEMMA AutoJoinStep ==
  ASSUME TypeInv, AutoJoin \/ AutoJoinTurn \/ AutoJoinEnd
  PROVE  TypeInv'
  <1>1. Loaded /\ UNCHANGED <<curBoard, tbl, active, actvCnt, replyExist, home>>
    BY DEF AutoJoin, AutoJoinTurn, AutoJoinEnd, TypeInv, table
  <1>2. Session \in Sessions /\ \A i : ChConf(Session, i) \in Sessions
    BY SessionType, ChConfType DEF TypeInv, TypeOK
  <1>3. /\ newmail' \in BOOLEAN /\ lp' \in [i : Int, j : Int]
        /\ \E s \in Sessions, label \in {"shell", "joining"} : Goto(s, label)
    <2>1. CASE AutoJoin
      <3>1. newmail' = newmail /\ lp' \in {lp, [i |-> rd.conf, j |-> actvCnt]}
        BY <2>1 DEF AutoJoin, table
      <3>2. rd.conf \in Int /\ actvCnt \in Int
        BY DEF TypeInv, TypeOK, Reader
      <3> QED
        BY <1>2, <2>1, <3>1, <3>2 DEF AutoJoin, TypeInv, TypeOK
    <2>2. CASE AutoJoinTurn
      <3> DEFINE i == FindActive(active, lp.i)
                 j == lp.j - 1
      <3>1. i \in Int /\ j \in Int
        BY SessionType, FindActiveType DEF TypeInv, TypeOK
      <3>2. newmail' = newmail /\ lp' \in {NoLoop, [i |-> i, j |-> j]}
        BY <2>2 DEF AutoJoinTurn, table
      <3>3. \E label \in {"shell", "joining"} : Goto(ChConf(Session, i), label)
        BY <2>2 DEF AutoJoinTurn
      <3> HIDE DEF i, j
      <3> QED
        BY <1>2, <3>1, <3>2, <3>3, NoLoopType DEF TypeInv, TypeOK
    <2>3. CASE AutoJoinEnd
      BY <1>2, <2>3, NoLoopType DEF AutoJoinEnd
    <2> QED
      BY <2>1, <2>2, <2>3
  <1>4. PICK s \in Sessions, label \in {"shell", "joining"} : Goto(s, label)
    BY <1>3
  <1>5. /\ disk' \in [Board -> [Numbers -> Conference]] /\ rd' \in Reader
        /\ pc' \in Labels /\ pc' \in {label, "crashed"}
    <2>1. label \in Labels
      BY DEF Labels
    <2> QED
      BY <1>4, <2>1, GotoType
  <1> QED
    BY <1>1, <1>3, <1>5 DEF TypeInv, TypeOK, Loaded

LEMMA ListConfStep ==
  ASSUME TypeInv, ListConf
  PROVE  TypeInv'
  <1>1. active' \in [0 .. LastConf(tbl) -> BOOLEAN] /\ replyExist' \in BOOLEAN
    BY SessionType, ActiveType DEF ListConf, TypeInv, TypeOK
  <1>2. actvCnt' \in Nat
    BY <1>1, SessionType, CountType DEF ListConf, TypeInv
  <1> QED
    BY <1>1, <1>2 DEF ListConf, TypeInv, TypeOK, Loaded

LEMMA PurgeStep ==
  ASSUME TypeInv, Purge
  PROVE  TypeInv'
  <1>1. PICK s \in {Session, UpdateConf(Session, FALSE)} : Goto(s, "purge")
    BY DEF Purge
  <1>2. s \in Sessions /\ "purge" \in Labels
    BY SessionType, UpdateConfType DEF TypeInv, Labels
  <1>3. /\ disk' \in [Board -> [Numbers -> Conference]] /\ rd' \in Reader
        /\ pc' \in Labels /\ pc' \in {"purge", "crashed"}
    BY <1>1, <1>2, GotoType
  <1>4. Loaded /\ lp' = NoLoop /\ UNCHANGED table
    BY DEF Purge, Prompt
  <1> QED
    BY <1>3, <1>4, NoLoopType DEF TypeInv, TypeOK, table, Loaded

LEMMA PurgeTurnStep ==
  ASSUME TypeInv, PurgeTurn
  PROVE  TypeInv'
  <1> DEFINE i == lp.i
             c == disk[curBoard][ConfNumbers(tbl)[i]]
  <1>1. Loaded /\ i \in 0 .. LastConf(tbl) /\ UNCHANGED table /\ lp \in [i : Int, j : Int]
    BY SessionType, TableType DEF PurgeTurn, TypeInv, TypeOK
  <1>2. c \in Conference
    <2>1. curBoard \in Board /\ ConfNumbers(tbl)[i] \in Numbers
      BY <1>1, SessionType, TableType DEF TypeInv
    <2> QED
      BY <2>1 DEF TypeInv, TypeOK
  <1> DEFINE next == i + 1
             last == LastConf(tbl) + 1
  <1>3. lp' \in {[lp EXCEPT !.i = next], [lp EXCEPT !.i = last]}
    BY DEF PurgeTurn
  <1>4. lp' \in [i : Int, j : Int] /\ lp'.i \in Nat
    <2>1. next \in Nat /\ last \in Nat
      BY <1>1, SessionType, TableType DEF TypeInv
    <2> HIDE DEF next, last
    <2> QED
      BY <1>1, <1>3, <2>1
  <1>5. PICK s \in Sessions : Goto(s, "purge")
    <2>1. CASE Goto(Session, "purge")
      BY <2>1, SessionType DEF TypeInv
    <2>2. CASE Goto(PurgeConf(i, Absent, FALSE), "purge")
      BY <1>1, <2>2, PurgeConfType, ConferenceType DEF TypeInv
    <2>3. CASE \E cmd \in {"C", "T"}, k \in 0 .. MaxMsgs :
                 Goto(PurgeConf(i, Clip(c, cmd, k), Clips(c, cmd, k)), "purge")
      <3>1. PICK cmd \in {"C", "T"}, k \in 0 .. MaxMsgs :
              Goto(PurgeConf(i, Clip(c, cmd, k), Clips(c, cmd, k)), "purge")
        BY <2>3
      <3>2. k \in Nat /\ Clips(c, cmd, k) \in BOOLEAN
        BY SessionAssumption DEF Clips
      <3>3. Clip(c, cmd, k) \in Conference
        <4> HIDE DEF c
        <4> QED
          BY <1>2, <3>2, ClipType
      <3> QED
        BY <1>1, <3>1, <3>2, <3>3, PurgeConfType DEF TypeInv
    <2> QED
      BY <2>1, <2>2, <2>3 DEF PurgeTurn
  <1>6. /\ disk' \in [Board -> [Numbers -> Conference]] /\ rd' \in Reader
        /\ pc' \in Labels /\ pc' \in {"purge", "crashed"}
    <2>1. "purge" \in Labels
      BY DEF Labels
    <2> QED
      BY <1>5, <2>1, GotoType
  <1> QED
    BY <1>1, <1>4, <1>6 DEF TypeInv, TypeOK, table, Loaded

LEMMA PurgeEndStep ==
  ASSUME TypeInv, PurgeEnd
  PROVE  TypeInv'
  <1>1. /\ active' \in [0 .. LastConf(tbl) -> BOOLEAN] /\ replyExist' \in BOOLEAN
        /\ actvCnt' \in Nat
    <2>1. active' \in [0 .. LastConf(tbl) -> BOOLEAN] /\ replyExist' \in BOOLEAN
      BY SessionType, ActiveType DEF PurgeEnd, TypeInv, TypeOK
    <2> QED
      BY <2>1, SessionType, CountType DEF PurgeEnd, TypeInv
  <1>2. PICK s \in Sessions, label \in {"shell", "next"} : Goto(s, label)
    <2>1. rd.conf \in Nat /\ Session \in Sessions
      BY SessionType DEF TypeInv, TypeOK, Reader
    <2>2. GetConf(Session, curBoard, tbl, rd.conf) \in Sessions
      BY <2>1, SessionType, GetConfType DEF TypeInv
    <2> QED
      BY <2>1, <2>2 DEF PurgeEnd
  <1>3. /\ disk' \in [Board -> [Numbers -> Conference]] /\ rd' \in Reader
        /\ pc' \in Labels /\ pc' \in {"shell", "next", "crashed"}
    <2>1. label \in Labels
      BY DEF Labels
    <2> QED
      BY <1>2, <2>1, GotoType
  <1> QED
    BY <1>1, <1>3, NoLoopType DEF PurgeEnd, TypeInv, TypeOK, Loaded

\* A command that may change the table, and returns to the prompt.
LEMMA TableSet ==
  ASSUME TypeInv, lp' = lp, NEW s \in Sessions, NEW label \in {"shell", "exit"}, Goto(s, label),
         home' \in SUBSET Board, curBoard' \in Tables, tbl' \in Tables,
         active' \in [0 .. LastConf(tbl') -> BOOLEAN], actvCnt' \in Nat,
         replyExist' \in BOOLEAN, newmail' \in BOOLEAN
  PROVE  TypeInv'
  <1>1. label \in Labels
    BY DEF Labels
  <1>2. /\ disk' \in [Board -> [Numbers -> Conference]] /\ rd' \in Reader
        /\ pc' \in Labels /\ pc' \in {label, "crashed"}
    BY <1>1, GotoType
  <1> QED
    BY <1>2 DEF TypeInv, TypeOK, Tables

LEMMA ReplyLeftType == ASSUME TypeOK, NEW s, NEW answer PROVE ReplyLeft(s, answer) \in BOOLEAN
  BY DEF ReplyLeft, TypeOK

LEMMA JoinLoadedStep ==
  ASSUME TypeInv, NEW s \in Sessions, NEW b \in Board, NEW t \in Tables, NEW mine \in Nat,
         JoinLoaded(s, b, t, mine), home' \in SUBSET Board
  PROVE  TypeInv'
  <1> DEFINE a   == ActvConf(s.disk, b, t)
             has == s.disk[b][REPL_CONF].there
             r   == IF has /\ t = NoBoard THEN Crash(s) ELSE s
             u(del) == CloseFiles(IF del THEN DeleteReplies(r, b) ELSE r)
             i   == IF mine > 0 THEN PCONF_IDX(t) ELSE FirstActive(active', t)
             v(del) == [u(del) EXCEPT !.rd.conf = i]
  <1>1. PICK del \in BOOLEAN :
          /\ active' = IF del /\ t # NoBoard THEN [a EXCEPT ![RCONF_IDX(t)] = FALSE] ELSE a
          /\ Goto(GetConf(v(del), b, t, i), "shell")
          /\ actvCnt' = ActiveCount(a) /\ replyExist' = (has /\ ~del)
          /\ curBoard' = b /\ tbl' = t /\ newmail' = TRUE /\ lp' = lp
    BY DEF JoinLoaded
  <1>2. a \in [0 .. LastConf(t) -> BOOLEAN] /\ b \in Tables
    BY ActiveType DEF Sessions, Tables
  <1>3. actvCnt' \in Nat
    <2> HIDE DEF a
    <2> QED
      BY <1>1, <1>2, CountType
  <1>4. active' \in [0 .. LastConf(t) -> BOOLEAN]
    <2> HIDE DEF a
    <2> QED
      BY <1>1, <1>2
  <1>5. i \in Nat
    <2>1. PCONF_IDX(t) \in Nat
      BY TableType DEF PCONF_IDX
    <2> QED
      BY <1>4, <2>1, FindActiveType
  <1>6. u(del) \in Sessions
    <2>1. r \in Sessions
      BY CrashType
    <2> HIDE DEF r
    <2> QED
      BY <2>1, DeleteType, CloseType
  <1>7. GetConf(v(del), b, t, i) \in Sessions
    <2> HIDE DEF u, i
    <2>1. v(del) \in Sessions
      BY <1>5, <1>6 DEF Sessions, Reader
    <2> HIDE DEF v
    <2> QED
      BY <1>2, <1>5, <2>1, GetConfType
  <1>8. replyExist' \in BOOLEAN
    <2>1. has \in BOOLEAN
      BY NumbersType DEF Sessions, Conference
    <2> HIDE DEF has
    <2> QED
      BY <1>1, <2>1
  <1> HIDE DEF v, i
  <1> QED
    BY <1>1, <1>2, <1>3, <1>4, <1>7, <1>8, TableSet

\* A packet brings natural numbers of messages.
LEMMA PacketType ==
  ASSUME NEW b \in Board, NEW p \in Packets(b)
  PROVE  p.new \in [Regular(b) -> Nat] /\ p.mine \in Nat
  BY SessionAssumption DEF Packets

LEMMA LoadNothingStep ==
  ASSUME TypeInv, LoadNothing
  PROVE  TypeInv'
  <1>1. PICK answer \in PackAnswers : /\ Goto(Packed(Session, answer), "shell")
                                     /\ replyExist' = ReplyLeft(Session, answer)
    BY DEF LoadNothing
  <1>2. Packed(Session, answer) \in Sessions /\ replyExist' \in BOOLEAN
    BY <1>1, SessionType, PackedType, ReplyLeftType DEF TypeInv
  <1> QED
    BY <1>1, <1>2, SessionType, TableSet DEF LoadNothing, TypeInv, TypeOK

LEMMA LoadStep ==
  ASSUME TypeInv, NEW b \in Board,
         LoadPacket(b) \/ LoadUnopened(b) \/ LoadPartial(b)
  PROVE  TypeInv'
  <1>1. /\ \A answer : Leaving(answer) \in Sessions
        /\ b \in Tables /\ curBoard \in Tables /\ tbl \in Tables /\ home \in SUBSET Board
    BY SessionType, LeavingType DEF TypeInv, TypeOK, Tables
  <1>2. CASE LoadPacket(b)
    <2>1. PICK answer \in PackAnswers, p \in Packets(b) :
            JoinLoaded(Tossed(Leaving(answer), b, p.new, p.mine), b, b, p.mine)
      BY <1>2 DEF LoadPacket
    <2>2. Tossed(Leaving(answer), b, p.new, p.mine) \in Sessions
      BY <1>1, PacketType, TossedType
    <2>3. home' \in SUBSET Board
      BY <1>1, <1>2 DEF LoadPacket
    <2> QED
      BY <1>1, <2>1, <2>2, <2>3, PacketType, JoinLoadedStep
  <1>3. CASE LoadUnopened(b)
    <2>1. PICK answer \in PackAnswers, t \in {tbl, b} : JoinLoaded(Leaving(answer), b, t, 0)
      BY <1>3 DEF LoadUnopened
    <2>2. t \in Tables /\ home' = home /\ 0 \in Nat
      BY <1>1, <1>3 DEF LoadUnopened
    <2> QED
      BY <1>1, <2>1, <2>2, JoinLoadedStep
  <1>4. CASE LoadPartial(b)
    <2>1. PICK answer \in PackAnswers, p \in Packets(b) :
            /\ Goto(GetConf(Tossed(Leaving(answer), b, p.new, p.mine), curBoard, b, rd.conf), "shell")
            /\ replyExist' = ReplyLeft(Session, answer)
      BY <1>4 DEF LoadPartial
    <2>2. Tossed(Leaving(answer), b, p.new, p.mine) \in Sessions /\ rd.conf \in Nat
      BY <1>1, PacketType, TossedType DEF TypeInv, TypeOK, Reader
    <2>3. GetConf(Tossed(Leaving(answer), b, p.new, p.mine), curBoard, b, rd.conf) \in Sessions
      BY <1>1, <2>2, GetConfType
    <2>4. replyExist' \in BOOLEAN
      BY <2>1, ReplyLeftType DEF TypeInv
    <2>5. home' \in SUBSET Board /\ curBoard' \in Tables /\ tbl' \in Tables
          /\ active' \in [0 .. LastConf(tbl') -> BOOLEAN]
          /\ actvCnt' \in Nat /\ newmail' \in BOOLEAN /\ lp' = lp
      BY <1>1, <1>4 DEF LoadPartial, TypeInv, TypeOK
    <2> QED
      BY <2>1, <2>3, <2>4, <2>5, TableSet
  <1> QED
    BY <1>2, <1>3, <1>4

LEMMA ReadStep ==
  ASSUME TypeInv, NEW b \in Board, Read(b) \/ ReadUnknown(b)
  PROVE  TypeInv'
  <1>1. /\ \A answer : Leaving(answer) \in Sessions
        /\ b \in Tables /\ curBoard \in Tables /\ tbl \in Tables /\ home \in SUBSET Board
    BY SessionType, LeavingType DEF TypeInv, TypeOK, Tables
  <1>2. CASE Read(b)
    <2> DEFINE u(answer, del) ==
          CloseFiles(IF del THEN DeleteReplies(Leaving(answer), b) ELSE Leaving(answer))
               i == FirstActive(active', b)
               v(answer, del) == [u(answer, del) EXCEPT !.rd.conf = i]
    <2>1. PICK answer \in PackAnswers, del \in BOOLEAN :
            /\ active' = ActvConf(u(answer, del).disk, b, b)
            /\ Goto(GetConf(v(answer, del), b, b, i), "shell")
      BY <1>2 DEF Read
    <2>2. u(answer, del) \in Sessions
      BY <1>1, DeleteType, CloseType
    <2> HIDE DEF u
    <2>3. active' \in [0 .. LastConf(b) -> BOOLEAN] /\ ReplyFlags(active', b) \subseteq BOOLEAN
      BY <1>1, <2>1, <2>2, ActiveType DEF Sessions
    <2>4. actvCnt' \in Nat /\ i \in Nat
      BY <1>1, <1>2, <2>3, CountType, FindActiveType DEF Read
    <2>5. replyExist' \in BOOLEAN
      <3>1. b # NoBoard
        BY SessionAssumption
      <3> QED
        BY <1>2, <2>3, <3>1 DEF Read, ReplyFlags
    <2> HIDE DEF i
    <2>6. v(answer, del) \in Sessions
      BY <2>2, <2>4 DEF Sessions, Reader
    <2> HIDE DEF v
    <2>7. GetConf(v(answer, del), b, b, i) \in Sessions
      BY <1>1, <2>4, <2>6, GetConfType
    <2>8. home' = home /\ curBoard' = b /\ tbl' = b /\ newmail' = FALSE /\ lp' = lp
      BY <1>2 DEF Read
    <2> QED
      BY <1>1, <2>1, <2>3, <2>4, <2>5, <2>7, <2>8, TableSet
  <1>3. CASE ReadUnknown(b)
    <2>1. PICK answer : /\ Goto(GetConf(Leaving(answer), curBoard, tbl, rd.conf), "shell")
                        /\ replyExist' = ReplyLeft(Session, answer)
      BY <1>3 DEF ReadUnknown
    <2>2. rd.conf \in Nat /\ replyExist' \in BOOLEAN
      BY <2>1, ReplyLeftType DEF TypeInv, TypeOK, Reader
    <2>3. GetConf(Leaving(answer), curBoard, tbl, rd.conf) \in Sessions
      BY <1>1, <2>2, GetConfType
    <2> QED
      BY <1>1, <1>3, <2>1, <2>2, <2>3, TableSet DEF ReadUnknown, TypeInv, TypeOK
  <1> QED
    BY <1>2, <1>3

LEMMA ReplyStep ==
  ASSUME TypeInv, NEW mode, NEW arg, Reply(mode, arg)
  PROVE  TypeInv'
  <1> DEFINE c == IF OwnStreams THEN OpenConf(Session) ELSE disk[curBoard][REPL_CONF]
             s == IF OwnStreams THEN PutOpen(Session, Extended(c, 1))
                  ELSE [Session EXCEPT !.disk[curBoard][REPL_CONF] = Extended(c, 1)]
  <1>1. /\ Session \in Sessions /\ curBoard \in Board /\ tbl \in Tables /\ curBoard \in Tables
        /\ Session.rd = rd /\ Session.disk = disk /\ home \in SUBSET Board
        /\ UNCHANGED <<home, curBoard, tbl, newmail, lp>>
    BY SessionType DEF Reply, Prompt, TypeInv, TypeOK
  <1>2. CASE InReplies /\ (~FilesOpen(rd) \/ rd.dead)
    <2>1. Goto(Crash(Session), "shell") /\ UNCHANGED <<table, lp>>
      BY <1>2 DEF Reply, table
    <2> QED
      BY <1>1, <2>1, CrashType, TableKept
  <1>3. CASE ~(InReplies /\ (~FilesOpen(rd) \/ rd.dead))
    <2>1. /\ Goto(ShowReply(s, mode), "shell")
          /\ active' = ActvConf(s.disk, curBoard, tbl)
          /\ actvCnt' = ActiveCount(active') /\ replyExist' = TRUE
      BY <1>3 DEF Reply
    <2>2. Extended(c, 1) \in Conference
      <3>1. c \in Conference
        <4>1. OwnStreams => OpenConf(Session) \in Conference
          BY <1>1, <1>3, OpenType DEF OwnStreams
        <4>2. disk[curBoard][REPL_CONF] \in Conference
          BY <1>1, NumbersType DEF TypeInv, TypeOK
        <4> QED
          BY <4>1, <4>2
      <3> HIDE DEF c
      <3> QED
        BY <3>1, ConferenceType
    <2> HIDE DEF c
    <2>3. s \in Sessions /\ s.rd.fh = rd.fh
      <3>1. PutOpen(Session, Extended(c, 1)) \in Sessions
        BY <1>1, <2>2, PutOpenType
      <3>2. [Session EXCEPT !.disk[curBoard][REPL_CONF] = Extended(c, 1)] \in Sessions
        BY <1>1, <2>2, PutType
      <3>3. PutOpen(Session, Extended(c, 1)).rd.fh = rd.fh
        BY <1>1 DEF PutOpen, Sessions, Reader
      <3>4. [Session EXCEPT !.disk[curBoard][REPL_CONF] = Extended(c, 1)].rd.fh = rd.fh
        BY <1>1 DEF Sessions
      <3> QED
        BY <3>1, <3>2, <3>3, <3>4
    <2> HIDE DEF s
    <2>4. ShowReply(s, mode) \in Sessions
      BY <1>1, <1>3, <2>3, ShowReplyType DEF FilesOpen
    <2>5. active' \in [0 .. LastConf(tbl) -> BOOLEAN]
      BY <1>1, <2>1, <2>3, ActiveType DEF Sessions
    <2>6. actvCnt' \in Nat
      BY <1>1, <2>1, <2>5, CountType
    <2> QED
      BY <1>1, <2>1, <2>4, <2>5, <2>6, TableSet DEF TypeInv, TypeOK
  <1> QED
    BY <1>2, <1>3

LEMMA ReplyTooBigStep ==
  ASSUME TypeInv, NEW mode, NEW arg, ReplyTooBig(mode, arg)
  PROVE  TypeInv'
  <1> DEFINE c == Opened(Session.disk[curBoard][REPL_CONF])
             s1 == [Session EXCEPT !.disk[curBoard][REPL_CONF] = c]
             s2 == [Session EXCEPT !.rd.dead = TRUE]
  <1>1. Session \in Sessions /\ curBoard \in Board /\ UNCHANGED <<table, lp>>
    BY SessionType DEF ReplyTooBig, Prompt, TypeInv
  <1>2. c \in Conference
    BY <1>1, NumbersType, ConferenceType DEF Sessions
  <1>3. PICK s \in {s1, s2, Crash(Session)} : Goto(s, "shell")
    BY DEF ReplyTooBig
  <1> HIDE DEF c
  <1>4. s1 \in Sessions /\ s2 \in Sessions /\ Crash(Session) \in Sessions
    <2>1. s1 \in Sessions
      BY <1>1, <1>2, PutType
    <2>2. s2 \in Sessions
      BY <1>1 DEF Sessions, Reader
    <2> QED
      BY <1>1, <2>1, <2>2, CrashType
  <1> HIDE DEF s1, s2
  <1> QED
    BY <1>1, <1>3, <1>4, TableKept

LEMMA QuitStep ==
  ASSUME TypeInv, Quit
  PROVE  TypeInv'
  <1> DEFINE s == IF Loaded THEN UpdateConf(Session, FALSE) ELSE Session
  <1>1. PICK answer \in PackAnswers : Goto(Packed(s, answer), "exit")
    BY DEF Quit
  <1>2. s \in Sessions
    BY SessionType, UpdateConfType DEF TypeInv
  <1> HIDE DEF s
  <1>3. Packed(s, answer) \in Sessions
    BY <1>2, SessionType, PackedType DEF TypeInv
  <1> QED
    BY <1>1, <1>3, TableKept DEF Quit

\* A new process.
LEMMA NewProcessType ==
  /\ NewReader \in Reader
  /\ EmptyActive \in [0 .. LastConf(NoBoard) -> BOOLEAN]
  /\ NoBoard \in Tables
  <1>1. Absent \in Conference
    BY ConferenceType
  <1>2. NewReader \in Reader
    BY <1>1 DEF NewReader, Reader, NoMsg
  <1> QED
    BY <1>2 DEF EmptyActive, LastConf, Tables

LEMMA InitType == Init => TypeInv
  <1> SUFFICES ASSUME Init PROVE TypeInv
    OBVIOUS
  <1>1. disk \in [Board -> [Numbers -> Conference]]
    BY ConferenceType DEF Init
  <1>2. rd \in Reader /\ active \in [0 .. LastConf(tbl) -> BOOLEAN] /\ lp \in [i : Int, j : Int]
    BY NewProcessType, NoLoopType DEF Init
  <1> QED
    BY <1>1, <1>2 DEF Init, TypeInv, TypeOK, Labels

LEMMA RestartStep ==
  ASSUME TypeInv, Restart
  PROVE  TypeInv'
  <1>1. /\ rd' \in Reader /\ active' \in [0 .. LastConf(tbl') -> BOOLEAN]
        /\ lp' \in [i : Int, j : Int]
    BY NewProcessType, NoLoopType DEF Restart
  <1> QED
    BY <1>1 DEF Restart, TypeInv, TypeOK, Labels

LEMMA TypeStep ==
  ASSUME TypeInv, [Next]_vars
  PROVE  TypeInv'
  <1>1. CASE Command
    <2>1. ASSUME NEW mode, ReadNext(mode) \/ Scan(mode) PROVE TypeInv'
      BY <2>1, ReadNextStep, ScanStep
    <2>2. CASE GoToNum \/ Reset \/ Join \/ NextConf \/ Purge \/ ListConf \/ LoadNothing \/ Quit
      BY <2>2, GoToNumStep, ConferenceCommands, PurgeStep, ListConfStep,
         LoadNothingStep, QuitStep
    <2>3. ASSUME NEW b \in Board,
                 LoadPacket(b) \/ LoadUnopened(b) \/ LoadPartial(b) \/ Read(b) \/ ReadUnknown(b)
          PROVE  TypeInv'
      BY <2>3, LoadStep, ReadStep
    <2>4. ASSUME NEW mode, NEW arg, Reply(mode, arg) \/ ReplyTooBig(mode, arg) PROVE TypeInv'
      BY <2>4, ReplyStep, ReplyTooBigStep
    <2> QED
      BY <1>1, <2>1, <2>2, <2>3, <2>4 DEF Command
  <1>2. CASE Internal
    BY <1>2, AutoJoinStep, PurgeTurnStep, PurgeEndStep DEF Internal
  <1>3. CASE Restart
    BY <1>3, RestartStep
  <1>4. CASE UNCHANGED vars
    BY <1>4 DEF vars, TypeInv, TypeOK, Loaded
  <1> QED
    BY <1>1, <1>2, <1>3, <1>4 DEF Next

\* Every variable of the shell stays in its type, for any boards and bounds and
\* under every fault; an AutoJoin or a purge runs on a loaded board only.
THEOREM TypeCorrect == Spec => []TypeOK
  <1>1. TypeInv /\ [Next]_vars => TypeInv'
    BY TypeStep
  <1>2. TypeInv => TypeOK
    BY DEF TypeInv
  <1> QED
    BY InitType, <1>1, <1>2, PTL DEF Spec
=============================================================================
