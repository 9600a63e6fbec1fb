------------------------------ MODULE TossProofs ------------------------------
(***************************************************************************)
(* What holds of a load for every control.dat and packet that may arrive,  *)
(* whichever allocation or write fails and wherever the process dies: the  *)
(* table of conferences and its memory stay whole, the mail of earlier     *)
(* loads stays on the disk, the index has a record for each message, and a *)
(* load that comes to its end has put all mail where it belongs.           *)
(***************************************************************************)
EXTENDS Toss, Induct, SequenceTheorems, TLAPS

Addresses == Nat \ {NoBlock}

\* A heap that malloc() can be called on.
Heap(h) == h \in SUBSET Addresses /\ IsFiniteSet(h)

\* A table that has all its arrays, and a table that may lack some.
Full(at) ==
    /\ at \in [active : Addresses, numbers : Addresses, names : Addresses]
    /\ at.active # at.numbers /\ at.active # at.names /\ at.numbers # at.names
Table(t) == t \in [last : Int, numbers : Seq(Int),
                   at : [active : Nat, numbers : Nat, names : Nat]]

(***************************************************************************)
(* TableWhole relates the two tables and the heap, not where in the        *)
(* reading of a file the new table stands.  The invariant adds, for each   *)
(* label, how many arrays there are and whether the count fits them.       *)
(***************************************************************************)
Reading == {"count", "malloc", "nomalloc", "names", "switch"}
TypeInv ==
    /\ Table(tbl) /\ Table(tmp) /\ Heap(heap)
    /\ pc \in Reading => ctl \in Controls
HeapInv ==
    /\ Blocks(tbl) \cup Blocks(tmp) = heap
    /\ Blocks(tbl) \cap Blocks(tmp) = {}
    /\ Full(tbl.at)
    /\ pc \notin {"names", "switch", "nomalloc"} => Blocks(tmp) = {}
    /\ pc \in {"names", "switch"} => Full(tmp.at)
SizeInv ==
    /\ Len(tbl.numbers) = tbl.last + 1 /\ tbl.last <= MAXCONF
    /\ pc \in {"malloc", "names", "switch"} => tmp.last = ctl.n + 2 /\ tmp.last <= MAXCONF
    /\ pc = "switch" => Len(tmp.numbers) = tmp.last + 1
TableInv == TypeInv /\ HeapInv /\ SizeInv

(***************************************************************************)
(* malloc().                                                               *)
(***************************************************************************)
LEMMA FreshBlock ==
    ASSUME NEW h, Heap(h)
    PROVE  Block(h) \in Addresses /\ Block(h) \notin h
<1> DEFINE n == Cardinality(h) + 1
<1>1. n \in Nat /\ n > 0 /\ n > Cardinality(h)
  BY FS_CardinalityType DEF Heap
<1>2. IsFiniteSet(1..n) /\ Cardinality(1..n) = n
  BY <1>1, FS_Interval
<1>3. ~(1..n \subseteq h)
  <2>1. SUFFICES ASSUME 1..n \in SUBSET h PROVE FALSE
    OBVIOUS
  <2>2. Cardinality(1..n) <= Cardinality(h)
    BY <2>1, FS_Subset DEF Heap
  <2>3. Cardinality(h) \in Nat
    BY FS_CardinalityType DEF Heap
  <2>4. QED
    BY <2>2, <2>3, <1>1, <1>2
<1>4. PICK b \in 1..n : b \notin h
  BY <1>3
<1>5. Block(h) \in 1..n /\ Block(h) \notin h
  BY <1>4 DEF Block
<1>6. QED
  BY <1>1, <1>5 DEF Addresses, NoBlock

LEMMA MoreHeap ==
    ASSUME NEW h, Heap(h), NEW b \in Addresses PROVE Heap(h \cup {b})
  BY FS_AddElement DEF Heap

\* The arrays allocated are new blocks, and all are there after three calls.
LEMMA AllocatedFresh ==
    ASSUME NEW h, Heap(h), NEW got \in 0..3
    PROVE  LET at == Allocated(h, got)
           IN  /\ at \in [active : Nat, numbers : Nat, names : Nat]
               /\ BlocksOf(at) \cap h = {}
               /\ Heap(h \cup BlocksOf(at))
               /\ got = 3 => Full(at)
<1> DEFINE b1 == Block(h)
           b2 == Block(h \cup {b1})
           b3 == Block(h \cup {b1, b2})
           at == Allocated(h, got)
<1>1. b1 \in Addresses /\ b1 \notin h
  BY FreshBlock
<1>2. Heap(h \cup {b1})
  BY <1>1, MoreHeap
<1>3. b2 \in Addresses /\ b2 \notin h \cup {b1}
  BY <1>2, FreshBlock
<1>4. Heap(h \cup {b1, b2})
  <2>1. h \cup {b1, b2} = (h \cup {b1}) \cup {b2}
    OBVIOUS
  <2>2. QED
    BY <2>1, <1>2, <1>3, MoreHeap
<1>5. b3 \in Addresses /\ b3 \notin h \cup {b1, b2}
  BY <1>4, FreshBlock
<1>6. Heap(h \cup {b1, b2, b3})
  <2>1. h \cup {b1, b2, b3} = (h \cup {b1, b2}) \cup {b3}
    OBVIOUS
  <2>2. QED
    BY <2>1, <1>4, <1>5, MoreHeap
<1>7. at = [active  |-> IF got >= 1 THEN b1 ELSE NoBlock,
            numbers |-> IF got >= 2 THEN b2 ELSE NoBlock,
            names   |-> IF got >= 3 THEN b3 ELSE NoBlock]
  BY DEF Allocated
<1> HIDE DEF b1, b2, b3, at
<1>8. at \in [active : Nat, numbers : Nat, names : Nat]
  BY <1>1, <1>3, <1>5, <1>7 DEF Addresses, NoBlock
<1>9. BlocksOf(at) \subseteq {b1, b2, b3}
  BY <1>7 DEF BlocksOf
<1>10. Heap(h \cup BlocksOf(at))
  <2>1. h \cup BlocksOf(at) \in SUBSET (h \cup {b1, b2, b3})
    BY <1>9
  <2>2. QED
    BY <2>1, <1>6, FS_Subset DEF Heap
<1>11. got = 3 => Full(at)
  BY <1>1, <1>3, <1>5, <1>7 DEF Full
<1>12. QED
  BY <1>1, <1>3, <1>5, <1>8, <1>9, <1>10, <1>11 DEF at

LEMMA FullBlocks ==
    ASSUME NEW at, Full(at)
    PROVE  Cardinality(BlocksOf(at)) = 3
<1>1. BlocksOf(at) = ({at.active} \cup {at.numbers}) \cup {at.names}
  BY DEF Full, Addresses, BlocksOf
<1>2. IsFiniteSet({at.active}) /\ Cardinality({at.active}) = 1
  BY FS_Singleton
<1>3. /\ IsFiniteSet({at.active} \cup {at.numbers})
      /\ Cardinality({at.active} \cup {at.numbers}) = 2
  BY <1>2, FS_AddElement DEF Full
<1>4. Cardinality(({at.active} \cup {at.numbers}) \cup {at.names}) = 3
  <2> DEFINE two == {at.active} \cup {at.numbers}
  <2>1. at.names \notin two
    BY DEF Full
  <2>2. IsFiniteSet(two) /\ Cardinality(two) = 2
    BY <1>3
  <2> HIDE DEF two
  <2>3. Cardinality(two \cup {at.names}) = 3
    BY <2>1, <2>2, FS_AddElement
  <2>4. QED
    BY <2>3 DEF two
<1>5. QED
  BY <1>1, <1>4

(***************************************************************************)
(* The start, and the start after a crash.                                 *)
(***************************************************************************)
LEMMA Nothing == Table(NoTable) /\ Blocks(NoTable) = {}
  BY DEF Table, NoTable, NoArrays, NoBlock, Blocks, BlocksOf

LEMMA Emptied ==
    /\ Table(EmptyTable) /\ Full(EmptyTable.at) /\ Heap(Blocks(EmptyTable))
    /\ Len(EmptyTable.numbers) = EmptyTable.last + 1 /\ EmptyTable.last <= MAXCONF
<1> DEFINE at == Allocated({}, 3)
<1>1. Heap({})
  BY FS_EmptySet DEF Heap
<1>2. at \in [active : Nat, numbers : Nat, names : Nat] /\ Full(at) /\ Heap({} \cup BlocksOf(at))
  <2>1. 3 \in 0..3 /\ 3 = 3
    OBVIOUS
  <2>2. QED
    BY <1>1, <2>1, AllocatedFresh
<1>3. EmptyTable = [last |-> 0, numbers |-> <<0>>, at |-> at]
  BY DEF EmptyTable
<1>4. {} \cup BlocksOf(at) = BlocksOf(at)
  OBVIOUS
<1> HIDE DEF at
<1>5. EmptyTable.at = at /\ EmptyTable.numbers = <<0>> /\ EmptyTable.last = 0
  BY <1>3
<1>6. Table(EmptyTable)
  BY <1>2, <1>3 DEF Table
<1>7. QED
  BY <1>2, <1>4, <1>5, <1>6, ControlAssumption DEF Blocks

LEMMA InitTableInv == ASSUME Init PROVE TableInv
<1>1. pc = "idle" /\ tbl = EmptyTable /\ heap = Blocks(EmptyTable) /\ tmp = NoTable
  BY DEF Init, ControlInit
<1>2. QED
  BY <1>1, Emptied, Nothing DEF TableInv, TypeInv, HeapInv, SizeInv, Reading, Blocks

(***************************************************************************)
(* Reading a control.dat, step by step.                                    *)
(***************************************************************************)
LEMMA ReadCountKeeps == ASSUME TableInv, ReadCount PROVE TableInv'
<1>1. pc = "count" /\ ctl \in Controls /\ Blocks(tmp) = {}
  BY DEF ReadCount, TableInv, TypeInv, HeapInv, Reading
<1>2. ctl.n \in Int
  BY <1>1, ControlAssumption
<1>3. tmp' = [tmp EXCEPT !.last = ctl.n + 2] /\ UNCHANGED <<ctl, tbl, heap>>
  BY DEF ReadCount
<1>4. Table(tmp') /\ tmp'.at = tmp.at /\ tmp'.last = ctl.n + 2
  <2> DEFINE n == ctl.n + 2
  <2>1. n \in Int /\ tmp' = [tmp EXCEPT !.last = n]
    BY <1>2, <1>3
  <2> HIDE DEF n
  <2>2. Table(tmp') /\ tmp'.at = tmp.at /\ tmp'.last = n
    BY <2>1 DEF TableInv, TypeInv, Table
  <2>3. QED
    BY <2>2 DEF n
<1>5. Blocks(tmp') = {}
  BY <1>1, <1>4 DEF Blocks
<1>6. pc' \in {"malloc", "refused"} /\ (pc' = "malloc" => ctl.n + 2 <= MAXCONF)
  BY <1>2, ControlAssumption DEF ReadCount
<1>7. TypeInv'
  BY <1>1, <1>3, <1>4 DEF TableInv, TypeInv
<1>8. HeapInv'
  BY <1>1, <1>3, <1>5, <1>6 DEF TableInv, HeapInv, Blocks
<1>9. SizeInv'
  BY <1>3, <1>4, <1>6 DEF TableInv, SizeInv
<1>10. QED
  BY <1>7, <1>8, <1>9 DEF TableInv

LEMMA DoMallocKeeps == ASSUME TableInv, DoMalloc PROVE TableInv'
<1>1. PICK got \in 0..3 :
        /\ tmp' = [tmp EXCEPT !.at = Allocated(heap, got)]
        /\ heap' = heap \cup BlocksOf(Allocated(heap, got))
        /\ pc' = IF got = 3 THEN "names" ELSE "nomalloc"
  BY DEF DoMalloc
<1> DEFINE at == Allocated(heap, got)
<1>2. pc = "malloc" /\ Blocks(tmp) = {} /\ ctl \in Controls /\ UNCHANGED <<ctl, tbl>>
  BY DEF DoMalloc, TableInv, TypeInv, HeapInv, Reading
<1>3. /\ at \in [active : Nat, numbers : Nat, names : Nat]
      /\ BlocksOf(at) \cap heap = {}
      /\ Heap(heap \cup BlocksOf(at))
      /\ got = 3 => Full(at)
  BY AllocatedFresh DEF TableInv, TypeInv
<1> HIDE DEF at
<1>4. tmp' = [tmp EXCEPT !.at = at] /\ heap' = heap \cup BlocksOf(at)
  BY <1>1 DEF at
<1>5. Table(tmp') /\ tmp'.at = at /\ tmp'.last = tmp.last
  BY <1>3, <1>4 DEF TableInv, TypeInv, Table
<1>6. TypeInv'
  BY <1>2, <1>3, <1>4, <1>5 DEF TableInv, TypeInv
<1>7. HeapInv'
  <2>1. heap = Blocks(tbl) /\ Full(tbl.at) /\ Blocks(tmp') = BlocksOf(at) /\ Blocks(tbl') = Blocks(tbl)
    BY <1>2, <1>5 DEF TableInv, HeapInv, Blocks
  <2>2. Full(tmp.at)' <=> Full(at)
    BY <1>5 DEF Full
  <2>3. QED
    BY <2>1, <2>2, <1>1, <1>2, <1>3, <1>4 DEF HeapInv
<1>8. SizeInv'
  BY <1>1, <1>2, <1>5 DEF TableInv, SizeInv
<1>9. QED
  BY <1>6, <1>7, <1>8 DEF TableInv

\* The arrays of the new table are freed: those of the old one are left.
LEMMA FreeTempKeeps ==
    ASSUME TableInv, FreeTemp, pc' = "refused", UNCHANGED <<ctl, tbl>>
    PROVE  TableInv'
<1>1. heap' = Blocks(tbl) /\ tmp' = NoTable /\ heap' \in SUBSET heap
  BY DEF FreeTemp, TableInv, HeapInv
<1>2. Heap(heap')
  BY <1>1, FS_Subset DEF TableInv, TypeInv, Heap
<1>3. QED
  BY <1>1, <1>2, Nothing DEF TableInv, TypeInv, HeapInv, SizeInv, Reading, Blocks

LEMMA GetConfNamesKeeps == ASSUME TableInv, GetConfNames PROVE TableInv'
<1> DEFINE count == ctl.n + 1
           given == SubSeq(ctl.confs, 1, count)
<1>1. /\ pc = "names" /\ ctl \in Controls /\ tmp.last = ctl.n + 2 /\ tmp.last <= MAXCONF
      /\ UNCHANGED <<ctl, tbl>>
  BY DEF GetConfNames, TableInv, TypeInv, SizeInv, Reading
<1>2. ctl.n \in Int /\ ctl.n >= -1 /\ ctl.confs \in Seq(Int)
  BY <1>1, ControlAssumption
<1>3. CASE FreeTemp /\ pc' = "refused"
  BY <1>1, <1>3, FreeTempKeeps
<1>4. CASE /\ count <= Len(ctl.confs)
           /\ tmp' = [tmp EXCEPT !.numbers = WithOwn(given)]
           /\ pc' = "switch" /\ UNCHANGED heap
  <2>1. given \in Seq(Int) /\ Len(given) = count
    BY <1>2, <1>4
  <2> HIDE DEF given
  <2>2. WithOwn(given) \in Seq(Int) /\ Len(WithOwn(given)) = count + 2
    BY <2>1, <1>2 DEF WithOwn, REPL_CONF, PERS_CONF
  <2>3. Table(tmp') /\ tmp'.at = tmp.at /\ tmp'.last = tmp.last /\ tmp'.numbers = WithOwn(given)
    BY <2>2, <1>4 DEF TableInv, TypeInv, Table
  <2>4. TypeInv'
    BY <2>3, <1>1, <1>4 DEF TableInv, TypeInv
  <2>5. HeapInv'
    BY <2>3, <1>1, <1>4 DEF TableInv, HeapInv, Blocks, Full
  <2>6. SizeInv'
    BY <2>2, <2>3, <1>1, <1>2, <1>4 DEF TableInv, SizeInv
  <2>7. QED
    BY <2>4, <2>5, <2>6 DEF TableInv
<1>5. QED
  BY <1>3, <1>4 DEF GetConfNames

LEMMA SwitchKeeps == ASSUME TableInv, SwitchToNewBbs PROVE TableInv'
<1>1. /\ pc = "switch" /\ pc' = "open" /\ heap' = Blocks(tmp) /\ heap' \in SUBSET heap
      /\ tbl' = tmp /\ tmp' = NoTable /\ ctl' = ctl
  BY DEF SwitchToNewBbs, TableInv, HeapInv
<1>2. Heap(heap')
  BY <1>1, FS_Subset DEF TableInv, TypeInv, Heap
<1>3. Full(tmp.at) /\ Table(tmp) /\ Len(tmp.numbers) = tmp.last + 1 /\ tmp.last <= MAXCONF
  BY <1>1 DEF TableInv, HeapInv, TypeInv, SizeInv
<1>4. QED
  BY <1>1, <1>2, <1>3, Nothing DEF TableInv, TypeInv, HeapInv, SizeInv, Reading, Blocks

(***************************************************************************)
(* The rest of the load.                                                   *)
(***************************************************************************)
\* Where neither table is touched.
LEMMA Elsewhere ==
    ASSUME TableInv, UNCHANGED cvars, pc \notin Reading, pc' \notin Reading
    PROVE  TableInv'
  BY DEF TableInv, TypeInv, HeapInv, SizeInv, Reading, cvars, Blocks

LEMMA LoadKeeps == ASSUME TableInv, NEW f \in Controls, NEW p, Load(f, p) PROVE TableInv'
<1>1. /\ pc = "idle" /\ pc' \in {"count", "refused"} /\ ctl' = f
      /\ UNCHANGED <<tbl, tmp, heap>>
  BY DEF Load, ReadHead
<1>2. QED
  BY <1>1 DEF TableInv, TypeInv, HeapInv, SizeInv, Reading, Blocks

LEMMA RestartKeeps == ASSUME TableInv, Restart PROVE TableInv'
<1>1. /\ pc' = "idle" /\ tbl' = EmptyTable /\ heap' = Blocks(EmptyTable) /\ tmp' = NoTable
  BY DEF Restart
<1>2. QED
  BY <1>1, Emptied, Nothing DEF TableInv, TypeInv, HeapInv, SizeInv, Reading, Blocks

LEMMA TossKeeps == ASSUME TableInv, TossStep \/ Fault PROVE TableInv'
<1>1. UNCHANGED cvars /\ pc \notin Reading /\ pc' \notin Reading
  <2>1. ASSUME Refused \/ ReadOnly \/ Open \/ OpenFails \/ ReOpenFails \/ Close \/ EndOfPacket
        PROVE  <1>1
    BY <2>1 DEF Refused, ReadOnly, Open, OpenFails, ReOpenFails, Close, EndOfPacket, Reading
  <2>2. ASSUME Header \/ Index \/ PersIndex PROVE <1>1
    BY <2>2 DEF Header, Index, PersIndex, Reading
  <2>3. ASSUME Text \/ PersText \/ More PROVE <1>1
    BY <2>3 DEF Text, PersText, More, Reading
  <2>4. ASSUME Fails \/ Crash PROVE <1>1
    BY <2>4 DEF Fails, Crash, Reading
  <2>5. QED
    BY <2>1, <2>2, <2>3, <2>4 DEF TossStep, Fault
<1>2. QED
  BY <1>1, Elsewhere

LEMMA TableInvInductive == ASSUME TableInv, [Next]_vars PROVE TableInv'
<1>1. ASSUME ControlStep PROVE TableInv'
  <2>1. ASSUME FailedMalloc PROVE TableInv'
    BY <2>1, FreeTempKeeps DEF FailedMalloc
  <2>2. QED
    BY <1>1, <2>1, ReadCountKeeps, DoMallocKeeps, GetConfNamesKeeps, SwitchKeeps DEF ControlStep
<1>2. ASSUME UNCHANGED vars PROVE TableInv'
  BY <1>2 DEF vars, cvars, TableInv, TypeInv, HeapInv, SizeInv, Blocks
<1>3. QED
  BY <1>1, <1>2, TossKeeps, LoadKeeps, RestartKeeps DEF Next, Step

(* Whatever control.dat arrives, whichever malloc() fails and wherever the *)
(* process dies: RdCn_* (qlib.c) leave a whole table in use, lose no array *)
(* and keep none that was freed.                                           *)
THEOREM TableIsWhole == Spec => []TableWhole
<1>1. TableInv => TableWhole
  BY FullBlocks DEF TableInv, HeapInv, SizeInv, TableWhole, Blocks
<1>2. QED
  BY <1>1, InitTableInv, TableInvInductive, PTL DEF Spec

(***************************************************************************)
(* Files that only grow.                                                   *)
(***************************************************************************)
IsSeq(s) == \E S : s \in Seq(S)
Grows(s, t) == Len(s) <= Len(t) /\ \A i \in 1..Len(s) : t[i] = s[i]

IsFile(f) ==
    /\ f = [there |-> f.there, cnf |-> f.cnf, idx |-> f.idx]
    /\ IsSeq(f.cnf) /\ IsSeq(f.idx)
Keeps(old, f) == Grows(old.cnf, f.cnf) /\ Grows(old.idx, f.idx)

LEMMA SeqLength == ASSUME NEW s, IsSeq(s) PROVE Len(s) \in Nat /\ DOMAIN s = 1..Len(s)
  BY LenProperties DEF IsSeq

LEMMA Appended ==
    ASSUME NEW s, NEW t, NEW e, IsSeq(s), IsSeq(t), Grows(s, t)
    PROVE  IsSeq(Append(t, e)) /\ Grows(s, Append(t, e))
<1>1. PICK T : t \in Seq(T)
  BY DEF IsSeq
<1>2. t \in Seq(T \cup {e})
  BY <1>1
<1>3. /\ Append(t, e) \in Seq(T \cup {e})
      /\ Len(Append(t, e)) = Len(t) + 1
      /\ \A i \in 1..Len(t) : Append(t, e)[i] = t[i]
  BY <1>2, AppendProperties
<1>4. Len(s) \in Nat /\ Len(t) \in Nat
  BY SeqLength
<1>5. QED
  BY <1>3, <1>4 DEF IsSeq, Grows

LEMMA Shortened ==
    ASSUME NEW s, NEW t, NEW n \in 0..(Len(t) - Len(s)), IsSeq(s), IsSeq(t), Grows(s, t)
    PROVE  IsSeq(SubSeq(t, 1, Len(s) + n)) /\ Grows(s, SubSeq(t, 1, Len(s) + n))
<1> DEFINE m == Len(s) + n
<1>1. Len(s) \in Nat /\ Len(t) \in Nat
  BY SeqLength
<1>2. m \in Nat /\ Len(s) <= m /\ m <= Len(t)
  BY <1>1
<1>3. PICK T : t \in Seq(T)
  BY DEF IsSeq
<1> HIDE DEF m
<1>4. \A i \in 1..m : t[i] \in T
  BY <1>1, <1>2, <1>3
<1>5. /\ SubSeq(t, 1, m) \in Seq(T)
      /\ Len(SubSeq(t, 1, m)) = IF 1 <= m THEN m - 1 + 1 ELSE 0
      /\ \A i \in 1..(m - 1 + 1) : SubSeq(t, 1, m)[i] = t[1 + i - 1]
  BY <1>2, <1>4, SubSeqProperties
<1>6. Len(SubSeq(t, 1, m)) = m /\ \A i \in 1..m : SubSeq(t, 1, m)[i] = t[i]
  BY <1>2, <1>5
<1>7. IsSeq(SubSeq(t, 1, m)) /\ Grows(s, SubSeq(t, 1, m))
  <2>1. IsSeq(SubSeq(t, 1, m))
    BY <1>5 DEF IsSeq
  <2>2. \A i \in 1..Len(s) : i \in 1..m /\ t[i] = s[i]
    BY <1>1, <1>2 DEF Grows
  <2>3. Grows(s, SubSeq(t, 1, m))
    BY <1>2, <1>6, <2>2 DEF Grows
  <2>4. QED
    BY <2>1, <2>3
<1>8. QED
  BY <1>7 DEF m

LEMMA GrownIsPrefix ==
    ASSUME NEW s, NEW t, IsSeq(s), IsSeq(t), Grows(s, t)
    PROVE  IsPrefix(s, t)
<1> DEFINE n == Len(s)
<1>1. n \in Nat /\ Len(t) \in Nat /\ n <= Len(t)
  BY SeqLength DEF Grows
<1>2. PICK S : s \in Seq(S)
  BY DEF IsSeq
<1>3. \A i \in 1..n : s[i] \in S /\ t[i] = s[i]
  BY <1>2 DEF Grows
<1> HIDE DEF n
<1>4. /\ SubSeq(s, 1, n) \in Seq(S) /\ SubSeq(t, 1, n) \in Seq(S)
      /\ Len(SubSeq(s, 1, n)) = IF 1 <= n THEN n - 1 + 1 ELSE 0
      /\ Len(SubSeq(t, 1, n)) = IF 1 <= n THEN n - 1 + 1 ELSE 0
      /\ \A i \in 1..(n - 1 + 1) : SubSeq(s, 1, n)[i] = s[1 + i - 1]
      /\ \A i \in 1..(n - 1 + 1) : SubSeq(t, 1, n)[i] = t[1 + i - 1]
  BY <1>1, <1>3, SubSeqProperties
<1>5. /\ Len(SubSeq(s, 1, n)) = n /\ Len(SubSeq(t, 1, n)) = n
      /\ \A i \in 1..n : SubSeq(s, 1, n)[i] = SubSeq(t, 1, n)[i]
  BY <1>1, <1>3, <1>4
<1>6. SubSeq(s, 1, n) = SubSeq(t, 1, n)
  BY <1>4, <1>5, SeqEqual
<1>7. QED
  BY <1>1, <1>6 DEF n, IsPrefix

LEMMA Itself == ASSUME NEW f, IsFile(f) PROVE Keeps(f, f)
  BY SeqLength DEF IsFile, Keeps, Grows

\* What is done to one file of a load.
LEMMA WritesKeep ==
    ASSUME NEW f, NEW old, IsFile(f), IsFile(old), Keeps(old, f), NEW size, NEW offset
    PROVE  /\ IsFile(WriteIndex(f, size, offset)) /\ Keeps(old, WriteIndex(f, size, offset))
           /\ IsFile(WriteText(f, size)) /\ Keeps(old, WriteText(f, size))
<1> DEFINE r == [off |-> offset, size |-> size, num |-> Len(f.idx),
                 last |-> IF f.idx = <<>> THEN CS!VIRGINDX ELSE 0]
<1>1. /\ IsSeq(Append(f.idx, r)) /\ Grows(old.idx, Append(f.idx, r))
      /\ IsSeq(Append(f.cnf, size)) /\ Grows(old.cnf, Append(f.cnf, size))
  BY Appended DEF IsFile, Keeps
<1>2. WriteIndex(f, size, offset) = [there |-> f.there, cnf |-> f.cnf, idx |-> Append(f.idx, r)]
  <2>1. WriteIndex(f, size, offset) = [f EXCEPT !.idx = Append(@, r)]
    BY Zenon DEF WriteIndex
  <2> HIDE DEF r
  <2>2. QED
    BY <2>1 DEF IsFile
<1>3. WriteText(f, size) = [there |-> f.there, cnf |-> Append(f.cnf, size), idx |-> f.idx]
  BY DEF WriteText, IsFile
<1> HIDE DEF r
<1>4. QED
  BY <1>1, <1>2, <1>3 DEF IsFile, Keeps

LEMMA CutKeeps ==
    ASSUME NEW f, NEW old, IsFile(f), IsFile(old), Keeps(old, f), NEW a \in New(f, old)
    PROVE  IsFile(Cut(f, old, a[1], a[2])) /\ Keeps(old, Cut(f, old, a[1], a[2]))
<1>1. a[1] \in 0..(Len(f.cnf) - Len(old.cnf)) /\ a[2] \in 0..(Len(f.idx) - Len(old.idx))
  BY DEF New
<1>2. /\ IsSeq(SubSeq(f.cnf, 1, Len(old.cnf) + a[1]))
      /\ Grows(old.cnf, SubSeq(f.cnf, 1, Len(old.cnf) + a[1]))
      /\ IsSeq(SubSeq(f.idx, 1, Len(old.idx) + a[2]))
      /\ Grows(old.idx, SubSeq(f.idx, 1, Len(old.idx) + a[2]))
  BY <1>1, Shortened DEF IsFile, Keeps
<1>3. QED
  BY <1>2 DEF Cut, IsFile, Keeps

(***************************************************************************)
(* The conferences of a load.                                              *)
(***************************************************************************)
(* OldMailKept says nothing of a conference without mail: MkInClose() may  *)
(* remove the personal one.  It is then at rest, and the next load starts  *)
(* from what is there.                                                     *)
Files ==
    /\ files = [c \in Confs |-> files[c]] /\ before = [c \in Confs |-> before[c]]
    /\ \A c \in Confs : IsFile(files[c]) /\ IsFile(before[c])
AllKept == \A c \in Confs : Keeps(before[c], files[c])
MailInv ==
    /\ Files
    /\ \A c \in Confs : Keeps(before[c], files[c]) \/ (pc = "idle" /\ Len(files[c].cnf) = 0)

\* What a step may not do.
Safe == \A c \in Confs : Len(files[c].cnf) > 0 => Keeps(before[c], files[c])'

\* A step within a load that leaves every file as it was.
LEMMA NoFileTouched ==
    ASSUME MailInv, pc # "idle", UNCHANGED <<files, before>>
    PROVE  MailInv' /\ Safe
  BY DEF MailInv, Files, Safe

\* A step within a load that changes one file.
LEMMA OneFileTouched ==
    ASSUME MailInv, pc # "idle", UNCHANGED before, NEW c, NEW f, files' = [files EXCEPT ![c] = f],
           c \in Confs => IsFile(f) /\ Keeps(before[c], f)
    PROVE  MailInv' /\ Safe
<1>1. Files /\ AllKept
  BY DEF MailInv, AllKept
<1>2. \A d \in Confs : files'[d] = IF d = c THEN f ELSE files[d]
  BY <1>1 DEF Files
<1>3. \A d \in Confs : IsFile(files'[d]) /\ Keeps(before'[d], files'[d])
  BY <1>1, <1>2 DEF Files, AllKept
<1>4. files' = [d \in Confs |-> files'[d]]
  BY <1>1 DEF Files
<1>5. QED
  BY <1>1, <1>3, <1>4 DEF MailInv, Files, Safe

LEMMA OpenedTouches ==
    ASSUME MailInv, pc # "idle", UNCHANGED before, NEW c, files' = Opened(files, c)
    PROVE  MailInv' /\ Safe
<1> DEFINE f == [there |-> TRUE, cnf |-> files[c].cnf, idx |-> files[c].idx]
<1>1. files' = [files EXCEPT ![c] = f]
  BY DEF Opened
<1>2. c \in Confs => IsFile(files[c]) /\ Keeps(before[c], files[c])
  BY DEF MailInv, Files
<1>3. f.cnf = files[c].cnf /\ f.idx = files[c].idx
  OBVIOUS
<1>4. f = [there |-> f.there, cnf |-> f.cnf, idx |-> f.idx]
  OBVIOUS
<1> HIDE DEF f
<1>5. c \in Confs => IsFile(f) /\ Keeps(before[c], f)
  BY <1>2, <1>3, <1>4 DEF IsFile, Keeps
<1>6. QED
  BY <1>1, <1>5, OneFileTouched

LEMMA WriteTouches ==
    ASSUME MailInv, pc # "idle", UNCHANGED before, NEW c, NEW size,
           \/ \E offset : files' = [files EXCEPT ![c] = WriteIndex(@, size, offset)]
           \/ files' = [files EXCEPT ![c] = WriteText(@, size)]
    PROVE  MailInv' /\ Safe
<1>1. c \in Confs => IsFile(files[c]) /\ IsFile(before[c]) /\ Keeps(before[c], files[c])
  BY DEF MailInv, Files
<1>2. ASSUME NEW offset, files' = [files EXCEPT ![c] = WriteIndex(@, size, offset)]
      PROVE  MailInv' /\ Safe
  <2> DEFINE f == WriteIndex(files[c], size, offset)
  <2>1. files' = [files EXCEPT ![c] = f]
    BY <1>2
  <2>2. c \in Confs => IsFile(f) /\ Keeps(before[c], f)
    BY <1>1, WritesKeep
  <2> HIDE DEF f
  <2>3. QED
    BY <2>1, <2>2, OneFileTouched
<1>3. ASSUME files' = [files EXCEPT ![c] = WriteText(@, size)] PROVE MailInv' /\ Safe
  <2> DEFINE f == WriteText(files[c], size)
  <2>1. files' = [files EXCEPT ![c] = f]
    BY <1>3
  <2>2. c \in Confs => IsFile(f) /\ Keeps(before[c], f)
    BY <1>1, WritesKeep
  <2> HIDE DEF f
  <2>3. QED
    BY <2>1, <2>2, OneFileTouched
<1>4. QED
  BY <1>2, <1>3

(***************************************************************************)
(* The steps of a load.                                                    *)
(***************************************************************************)
LEMMA InitMail == Init => MailInv
<1>1. SUFFICES ASSUME Init PROVE MailInv
  OBVIOUS
<1>2. IsFile(NoFile)
  <2>1. <<>> \in Seq({})
    OBVIOUS
  <2>2. QED
    BY <2>1 DEF IsFile, IsSeq, NoFile
<1>3. files = [c \in Confs |-> NoFile] /\ before = files
  BY <1>1 DEF Init
<1>4. Keeps(NoFile, NoFile)
  BY <1>2, Itself
<1>5. QED
  BY <1>2, <1>3, <1>4 DEF MailInv, Files

LEMMA LoadMail ==
    ASSUME MailInv, NEW f \in Controls, NEW p \in Packets, Load(f, p) PROVE MailInv' /\ Safe
<1>1. before' = files /\ files' = files
  BY DEF Load
<1>2. \A c \in Confs : Keeps(files[c], files[c])
  BY Itself DEF MailInv, Files
<1>3. QED
  BY <1>1, <1>2 DEF MailInv, Files, Safe

LEMMA ControlMail == ASSUME MailInv, ControlStep, UNCHANGED tvars PROVE MailInv' /\ Safe
<1>1. pc # "idle"
  BY DEF ControlStep, ReadCount, DoMalloc, FailedMalloc, GetConfNames, SwitchToNewBbs
<1>2. UNCHANGED <<files, before>>
  BY DEF tvars
<1>3. QED
  BY <1>1, <1>2, NoFileTouched

\* An empty personal conference is removed; nothing else happens to mail.
LEMMA CloseMail == ASSUME MailInv, Close PROVE MailInv' /\ Safe
<1>1. pc = "close" /\ pc' = "idle" /\ before' = before
  BY DEF Close
<1>2. CASE files' = files
  BY <1>1, <1>2, NoFileTouched
<1>3. CASE files' # files
  <2>1. files[PERS_CONF].cnf = <<>> /\ files' = [files EXCEPT ![PERS_CONF] = NoFile]
    BY <1>3 DEF Close
  <2>2. IsFile(NoFile) /\ Len(NoFile.cnf) = 0
    <3>1. <<>> \in Seq({})
      OBVIOUS
    <3>2. QED
      BY <3>1 DEF IsFile, IsSeq, NoFile
  <2>3. Files /\ \A c \in Confs : Keeps(before[c], files[c])
    BY <1>1 DEF MailInv
  <2>4. \A c \in Confs : files'[c] = IF c = PERS_CONF THEN NoFile ELSE files[c]
    BY <2>1, <2>3 DEF Files
  <2>5. files' = [c \in Confs |-> files'[c]]
    BY <2>1, <2>3 DEF Files
  <2>6. Files'
    BY <1>1, <2>2, <2>3, <2>4, <2>5 DEF Files
  <2>7. \A c \in Confs : c # PERS_CONF => Keeps(before'[c], files'[c])
    BY <1>1, <2>3, <2>4
  <2>8. Len(files[PERS_CONF].cnf) = 0
    BY <2>1
  <2>9. MailInv'
    BY <1>1, <2>2, <2>4, <2>6, <2>7 DEF MailInv
  <2>10. Safe
    BY <2>7, <2>8 DEF Safe
  <2>11. QED
    BY <2>9, <2>10
<1>4. QED
  BY <1>2, <1>3

LEMMA TossMail == ASSUME MailInv, TossStep PROVE MailInv' /\ Safe
<1>1. ASSUME Refused \/ ReadOnly \/ More \/ EndOfPacket PROVE MailInv' /\ Safe
  <2>1. pc # "idle" /\ UNCHANGED <<files, before>>
    BY <1>1 DEF Refused, ReadOnly, More, EndOfPacket, tvars
  <2>2. QED
    BY <2>1, NoFileTouched
<1>2. ASSUME Open PROVE MailInv' /\ Safe
  BY <1>2, OpenedTouches DEF Open
<1>3. ASSUME Header PROVE MailInv' /\ Safe
  <2>1. pc # "idle" /\ before' = before /\ files' = Opened(files, conf')
    BY <1>3 DEF Header
  <2>2. QED
    BY <2>1, OpenedTouches
<1>4. ASSUME Index \/ PersIndex \/ Text \/ PersText PROVE MailInv' /\ Safe
  BY <1>4, WriteTouches DEF Index, PersIndex, Text, PersText
<1>5. QED
  BY <1>1, <1>2, <1>3, <1>4, CloseMail DEF TossStep

\* Each file is cut behind what it had when the load began.
LEMMA CrashMail == ASSUME MailInv, Crash PROVE MailInv' /\ Safe
<1>1. pc # "idle" /\ before' = before
  BY DEF Crash
<1>2. Files /\ \A c \in Confs : Keeps(before[c], files[c])
  BY <1>1 DEF MailInv
<1> DEFINE c == IF conf < 0 THEN PERS_CONF ELSE conf
<1>3. PICK a \in New(files[c], before[c]), p \in New(files[PERS_CONF], before[PERS_CONF]) :
        files' = [d \in Confs |->
                    LET f == files[d]
                    IN  IF d = PERS_CONF THEN Cut(f, before[d], p[1], p[2])
                        ELSE IF d = c THEN Cut(f, before[d], a[1], a[2]) ELSE f]
  BY DEF Crash
<1> HIDE DEF c
<1>4. ASSUME NEW d \in Confs PROVE IsFile(files'[d]) /\ Keeps(before[d], files'[d])
  <2>1. IsFile(files[d]) /\ IsFile(before[d]) /\ Keeps(before[d], files[d])
    BY <1>2 DEF Files
  <2>2. CASE d = PERS_CONF
    BY <1>3, <2>1, <2>2, CutKeeps
  <2>3. CASE d # PERS_CONF /\ d = c
    BY <1>3, <2>1, <2>3, CutKeeps
  <2>4. CASE d # PERS_CONF /\ d # c
    BY <1>3, <2>1, <2>4
  <2>5. QED
    BY <2>2, <2>3, <2>4
<1>5. files' = [d \in Confs |-> files'[d]]
  BY <1>3
<1>6. QED
  BY <1>1, <1>2, <1>4, <1>5 DEF MailInv, Files, Safe

LEMMA FaultMail == ASSUME MailInv, Fault \/ Restart PROVE MailInv' /\ Safe
<1>1. ASSUME OpenFails PROVE MailInv' /\ Safe
  <2>1. pc # "idle" /\ before' = before /\ (files' = files \/ files' = Opened(files, PERS_CONF))
    BY <1>1 DEF OpenFails
  <2>2. QED
    BY <2>1, NoFileTouched, OpenedTouches
<1>2. ASSUME ReOpenFails \/ Fails \/ Restart PROVE MailInv' /\ Safe
  <2>1. pc # "idle" /\ UNCHANGED <<files, before>>
    BY <1>2 DEF ReOpenFails, Fails, Restart, tvars
  <2>2. QED
    BY <2>1, NoFileTouched
<1>3. QED
  BY <1>1, <1>2, CrashMail DEF Fault

LEMMA MailInvInductive == ASSUME MailInv, [Next]_vars PROVE MailInv' /\ [Safe]_vars
<1>1. ASSUME Next PROVE MailInv' /\ Safe
  BY <1>1, LoadMail, ControlMail, TossMail, FaultMail DEF Next, Step
<1>2. ASSUME UNCHANGED vars PROVE MailInv'
  <2>1. UNCHANGED <<pc, files, before>>
    BY <1>2 DEF vars, tvars
  <2>2. QED
    BY <2>1 DEF MailInv, Files
<1>3. QED
  BY <1>1, <1>2

\* What OldMailKept says of a step.
Kept == \A c \in Confs : Len(files[c].cnf) > 0 =>
            IsPrefix(before'[c].cnf, files'[c].cnf) /\ IsPrefix(before'[c].idx, files'[c].idx)

LEMMA SafeKeeps == ASSUME MailInv', Safe PROVE Kept
<1>1. ASSUME NEW c \in Confs, Len(files[c].cnf) > 0
      PROVE  /\ IsPrefix(before'[c].cnf, files'[c].cnf)
             /\ IsPrefix(before'[c].idx, files'[c].idx)
  <2>1. IsFile(files'[c]) /\ IsFile(before'[c]) /\ Keeps(before'[c], files'[c])
    BY <1>1 DEF MailInv, Files, Safe
  <2>2. QED
    BY <2>1, GrownIsPrefix DEF IsFile, Keeps
<1>2. QED
  BY <1>1 DEF Kept

(* Whatever packet is tossed, whatever fails in it and wherever the        *)
(* process dies: every conference with mail begins, during and after the   *)
(* load, with the messages and the index records it had before.            *)
THEOREM MailIsKept == Spec => OldMailKept
<1>1. ASSUME MailInv, [Next]_vars PROVE MailInv' /\ [Kept]_vars
  BY <1>1, MailInvInductive, SafeKeeps
<1>2. QED
  BY InitMail, <1>1, PTL DEF Spec, OldMailKept, Kept

(***************************************************************************)
(* Where the messages of a packet land.                                    *)
(***************************************************************************)
\* The conferences of a table, which the first of them is for unknown numbers.
Listed(s) == s \in Seq(Int) /\ s # <<>> /\ s[1] # PERS_CONF

Tossing == {"index", "pindex", "text", "ptext", "more"}

(* Only mail to the user is written to the personal conference, so that    *)
(* what MkInLoopRd() does to the two open conferences does not meet.       *)
LandInv ==
    /\ Listed(tbl.numbers)
    /\ pc = "switch" => Listed(tmp.numbers)
    /\ packet \in Packets \cup {<<>>} /\ next \in Nat \ {0}
    /\ pc \in Reading \cup {"open"} => next = 1 /\ before = files
    /\ pc \in Tossing \cup {"header"} => conf = -1 \/ conf \in Numbers(tbl)
    /\ pc \in Tossing => next <= Len(packet) /\ conf = Landing(Message.conf)
    /\ pc \in {"pindex", "ptext"} => Message.mine

LEMMA MessageIs ==
    ASSUME LandInv, next <= Len(packet)
    PROVE  /\ Message \in [conf : Nat \ {PERS_CONF}, size : Nat, mine : BOOLEAN]
           /\ next \in DOMAIN packet
<1> DEFINE M == [conf : Nat \ {PERS_CONF}, size : Nat, mine : BOOLEAN]
<1>1. packet \in Packets
  <2>1. packet # <<>>
    BY DEF LandInv
  <2>2. QED
    BY <2>1 DEF LandInv
<1>2. packet \in Seq(M)
  BY <1>1, TossAssumption
<1> HIDE DEF M
<1>3. next \in 1..Len(packet) /\ DOMAIN packet = 1..Len(packet) /\ packet[next] \in M
  BY <1>2 DEF LandInv
<1>4. Message \in M
  BY <1>3 DEF Message
<1>5. QED
  BY <1>3, <1>4 DEF M

LEMMA LandsElsewhere ==
    ASSUME Listed(tbl.numbers), NEW c \in Nat \ {PERS_CONF}
    PROVE  /\ Landing(c) \in Numbers(tbl) /\ Landing(c) # PERS_CONF
           /\ c \in Numbers(tbl) => Landing(c) = c
<1>1. c % 256 \in 0..255
  OBVIOUS
<1>2. c % 256 # PERS_CONF
  BY <1>1 DEF PERS_CONF
<1>3. 1 \in DOMAIN tbl.numbers
  BY DEF Listed
<1>4. tbl.numbers[1] \in Numbers(tbl) /\ tbl.numbers[1] # PERS_CONF
  BY <1>3 DEF Listed, Numbers
<1> DEFINE low == c % 256
           first == tbl.numbers[1]
<1>5. Landing(c) = IF c \in Numbers(tbl) THEN c ELSE IF low \in Numbers(tbl) THEN low ELSE first
  BY DEF Landing
<1>6. low # PERS_CONF /\ first \in Numbers(tbl) /\ first # PERS_CONF
  BY <1>2, <1>4
<1> HIDE DEF low, first
<1>7. QED
  BY <1>5, <1>6

LEMMA LandsThere ==
    ASSUME LandInv, pc \in Tossing
    PROVE  conf # PERS_CONF /\ Message.mine \in BOOLEAN /\ conf \in Numbers(tbl)
<1>1. next <= Len(packet) /\ conf = Landing(Message.conf) /\ Listed(tbl.numbers)
  BY DEF LandInv
<1>2. Message.conf \in Nat \ {PERS_CONF} /\ Message.mine \in BOOLEAN
  BY <1>1, MessageIs
<1>3. QED
  BY <1>1, <1>2, LandsElsewhere

LEMMA InitLand == Init => LandInv
<1>1. SUFFICES ASSUME Init PROVE LandInv
  OBVIOUS
<1>2. tbl.numbers = <<0>>
  BY <1>1 DEF Init, ControlInit, EmptyTable
<1>3. Listed(<<0>>)
  BY DEF Listed, PERS_CONF
<1>4. pc = "idle" /\ packet = <<>> /\ next = 1
  BY <1>1 DEF Init
<1>5. QED
  BY <1>2, <1>3, <1>4 DEF LandInv, Tossing, Reading

LEMMA ControlLand ==
    ASSUME LandInv, TableInv, ControlStep, UNCHANGED tvars PROVE LandInv'
<1>0. UNCHANGED <<packet, next, before, files, conf>>
  BY DEF tvars
<1>1. ASSUME ReadCount PROVE LandInv'
  BY <1>0, <1>1 DEF ReadCount, LandInv, Tossing, Reading
<1>2. ASSUME DoMalloc PROVE LandInv'
  <2>1. pc = "malloc" /\ tbl' = tbl /\ pc' \in {"names", "nomalloc"}
    BY <1>2 DEF DoMalloc
  <2>2. QED
    BY <1>0, <2>1 DEF LandInv, Tossing, Reading
<1>3. ASSUME FailedMalloc PROVE LandInv'
  BY <1>0, <1>3 DEF FailedMalloc, LandInv, Tossing, Reading
<1>4. ASSUME GetConfNames PROVE LandInv'
  <2>1. pc = "names" /\ tbl' = tbl /\ ctl \in Controls
    BY <1>4 DEF GetConfNames, TableInv, TypeInv, Reading
  <2>2. CASE pc' = "refused"
    BY <1>0, <2>1, <2>2 DEF LandInv, Tossing, Reading
  <2>3. CASE pc' # "refused"
    <3> DEFINE count == ctl.n + 1
               given == SubSeq(ctl.confs, 1, count)
    <3>1. ctl.n \in Int /\ ctl.n >= -1 /\ ctl.confs \in Seq(Int)
          /\ \A i \in DOMAIN ctl.confs : ctl.confs[i] # PERS_CONF
      BY <2>1, ControlAssumption, TossAssumption
    <3>2. count \in Nat /\ count <= Len(ctl.confs) /\ pc' = "switch"
          /\ tmp' = [tmp EXCEPT !.numbers = WithOwn(given)]
      BY <1>4, <2>3, <3>1 DEF GetConfNames
    <3> HIDE DEF count
    <3>3. given \in Seq(Int) /\ Len(given) = count /\ \A i \in 1..count : given[i] = ctl.confs[i]
      BY <3>1, <3>2
    <3> HIDE DEF given
    <3>4. \A i \in 1..count : given[i] # PERS_CONF
      <4>1. \A i \in 1..count : i \in DOMAIN ctl.confs
        BY <3>1, <3>2
      <4>2. QED
        BY <3>1, <3>3, <4>1
    <3>5. Listed(WithOwn(given))
      <4> DEFINE s == given \o <<9001, 9000>>
      <4>1. s \in Seq(Int) /\ Len(s) = count + 2
        BY <3>2, <3>3
      <4>2. s[1] = IF count = 0 THEN 9001 ELSE given[1]
        BY <3>2, <3>3
      <4>3. s[1] # 9000
        BY <3>2, <3>4, <4>2 DEF PERS_CONF
      <4>4. s # <<>>
        BY <3>2, <4>1
      <4> HIDE DEF s
      <4>5. Listed(s)
        BY <4>1, <4>3, <4>4 DEF Listed, PERS_CONF
      <4>6. QED
        BY <4>5 DEF s, WithOwn, REPL_CONF, PERS_CONF
    <3>6. tmp'.numbers = WithOwn(given)
      BY <3>2 DEF TableInv, TypeInv, Table
    <3>7. QED
      BY <1>0, <2>1, <3>2, <3>5, <3>6 DEF LandInv, Tossing, Reading
  <2>4. QED
    BY <2>2, <2>3
<1>5. ASSUME SwitchToNewBbs PROVE LandInv'
  BY <1>0, <1>5 DEF SwitchToNewBbs, LandInv, Tossing, Reading
<1>6. QED
  BY <1>1, <1>2, <1>3, <1>4, <1>5 DEF ControlStep

\* Steps after which control is not in the middle of a load.
LEMMA RestLand ==
    ASSUME LandInv, UNCHANGED <<tbl, packet, next>>,
           pc' \notin Tossing \cup Reading \cup {"open", "header"}
    PROVE  LandInv'
  BY DEF LandInv, Reading, Tossing

LEMMA HeaderLand == ASSUME LandInv, Header PROVE LandInv'
<1>1. /\ pc = "header" /\ next <= Len(packet) /\ pc' = "index"
      /\ conf' = IF Message.conf = conf THEN conf ELSE Landing(Message.conf)
      /\ UNCHANGED <<tbl, packet, next>>
  BY DEF Header, cvars
<1>2. Listed(tbl.numbers) /\ (conf = -1 \/ conf \in Numbers(tbl))
  BY <1>1 DEF LandInv
<1>3. Message.conf \in Nat \ {PERS_CONF}
  BY <1>1, MessageIs
<1>4. conf' = Landing(Message.conf)
  <2>1. Message.conf = conf => conf \in Numbers(tbl)
    BY <1>2, <1>3
  <2>2. QED
    BY <1>1, <1>2, <1>3, <2>1, LandsElsewhere
<1>5. conf' \in Numbers(tbl)
  BY <1>2, <1>3, <1>4, LandsElsewhere
<1>6. Landing(Message.conf)' = Landing(Message.conf) /\ Numbers(tbl)' = Numbers(tbl)
  BY <1>1 DEF Landing, Message, Numbers
<1>7. conf' = Landing(Message.conf)'
  BY <1>4, <1>6
<1>8. QED
  BY <1>1, <1>5, <1>6, <1>7 DEF LandInv, Tossing, Reading

\* The steps that write a piece.
LEMMA PieceLand ==
    ASSUME LandInv, Index \/ PersIndex \/ Text \/ PersText \/ More PROVE LandInv'
<1>1. pc \in Tossing /\ pc' \in Tossing \cup {"header"} /\ UNCHANGED <<tbl, packet, conf>>
  BY DEF Index, PersIndex, Text, PersText, More, cvars, Tossing
<1>2. next' \in {next, next + 1} /\ (pc' \in Tossing => next' = next)
  BY DEF Index, PersIndex, Text, PersText, More, Tossing
<1>3. pc' \in {"pindex", "ptext"} => Message.mine
  BY DEF Index, PersIndex, Text, PersText, More
<1>4. pc' \in Tossing => Message' = Message /\ Landing(Message.conf)' = Landing(Message.conf)
  BY <1>1, <1>2 DEF Landing, Message, Numbers
<1>5. Numbers(tbl)' = Numbers(tbl)
  BY <1>1 DEF Numbers
<1>6. pc' \in {"pindex", "ptext"} => pc' \in Tossing
  BY DEF Tossing
<1>7. pc' \notin Reading \cup {"open"} /\ pc' # "switch"
  BY <1>1 DEF Tossing, Reading
<1>8. /\ Listed(tbl.numbers) /\ packet \in Packets \cup {<<>>} /\ next \in Nat \ {0}
      /\ conf = -1 \/ conf \in Numbers(tbl)
      /\ next <= Len(packet) /\ conf = Landing(Message.conf)
  BY <1>1 DEF LandInv
<1>9. next' \in Nat \ {0}
  BY <1>2, <1>8
<1>10. (pc' \in Tossing) => (next' <= Len(packet') /\ conf' = (Landing(Message.conf))')
  BY <1>1, <1>2, <1>4, <1>8
<1>11. conf' = -1 \/ conf' \in (Numbers(tbl))'
  BY <1>1, <1>5, <1>8
<1>12. (pc' \in {"pindex", "ptext"}) => Message'.mine
  BY <1>3, <1>4, <1>6
<1>13. QED
  BY <1>1, <1>7, <1>8, <1>9, <1>10, <1>11, <1>12 DEF LandInv

LEMMA LandInvInductive == ASSUME LandInv, TableInv, [Next]_vars PROVE LandInv'
<1>1. ASSUME NEW f \in Controls, NEW p \in Packets, Load(f, p) PROVE LandInv'
  <2>1. /\ packet' = p /\ next' = 1 /\ before' = files /\ files' = files /\ tbl' = tbl
        /\ pc' \in {"count", "refused"}
    BY <1>1 DEF Load, ReadHead
  <2>2. QED
    BY <2>1 DEF LandInv, Tossing, Reading
<1>2. ASSUME Refused \/ ReadOnly \/ EndOfPacket \/ Close \/ OpenFails \/ ReOpenFails \/ Fails \/ Crash
      PROVE  LandInv'
  <2>1. UNCHANGED <<tbl, packet, next>> /\ pc' \in {"idle", "close", "crashed"}
    BY <1>2 DEF Refused, ReadOnly, EndOfPacket, Close, OpenFails, ReOpenFails, Fails, Crash,
                cvars, tvars
  <2>2. QED
    BY <2>1, RestLand DEF Tossing, Reading
<1>3. ASSUME Open PROVE LandInv'
  <2>1. pc = "open" /\ pc' = "header" /\ conf' = -1 /\ UNCHANGED <<tbl, packet, next>>
    BY <1>3 DEF Open, cvars
  <2>2. QED
    BY <2>1 DEF LandInv, Tossing, Reading
<1>4. ASSUME Restart PROVE LandInv'
  <2>1. tbl'.numbers = <<0>> /\ pc' = "idle" /\ UNCHANGED <<packet, next>>
    BY <1>4 DEF Restart, EmptyTable
  <2>2. Listed(<<0>>)
    BY DEF Listed, PERS_CONF
  <2>3. QED
    BY <2>1, <2>2 DEF LandInv, Tossing, Reading
<1>5. ASSUME UNCHANGED vars PROVE LandInv'
  <2>1. UNCHANGED <<pc, tbl, tmp, packet, next, before, files, conf>>
    BY <1>5 DEF vars, cvars, tvars
  <2>2. QED
    BY <2>1 DEF LandInv, Landing, Message, Numbers
<1>6. QED
  BY <1>1, <1>2, <1>3, <1>4, <1>5, ControlLand, HeaderLand, PieceLand
     DEF Next, Step, TossStep, Fault

(***************************************************************************)
(* Records that describe the messages.                                     *)
(***************************************************************************)
LEMMA LongerStarts ==
    ASSUME NEW s, IsSeq(s), NEW e
    PROVE  /\ IsSeq(Append(s, e)) /\ Len(Append(s, e)) = Len(s) + 1
           /\ Append(s, e)[Len(s) + 1] = e
           /\ \A k \in 1..Len(s) : Append(s, e)[k] = s[k]
           /\ SubSeq(s, 1, Len(s)) = s
           /\ \A k \in 0..Len(s) : SubSeq(Append(s, e), 1, k) = SubSeq(s, 1, k)
<1>1. PICK S : s \in Seq(S)
  BY DEF IsSeq
<1> DEFINE T == S \cup {e}
           t == Append(s, e)
           n == Len(s)
<1>2. s \in Seq(T) /\ e \in T
  BY <1>1
<1> HIDE DEF T
<1>3. t \in Seq(T) /\ Len(t) = n + 1 /\ t[n + 1] = e /\ n \in Nat /\ \A k \in 1..n : t[k] = s[k]
  BY <1>2
<1>4. SubSeq(s, 1, n) = s
  BY <1>2
<1> HIDE DEF t, n
<1>5. ASSUME NEW k \in 0..n PROVE SubSeq(t, 1, k) = SubSeq(s, 1, k)
  <2> DEFINE a == SubSeq(t, 1, k)
             b == SubSeq(s, 1, k)
  <2>1. a \in Seq(T) /\ Len(a) = k /\ \A i \in 1..k : a[i] = t[i]
    BY <1>3
  <2>2. b \in Seq(T) /\ Len(b) = k /\ \A i \in 1..k : b[i] = s[i]
    BY <1>2, <1>3 DEF n
  <2>3. \A i \in 1..k : t[i] = s[i]
    BY <1>3
  <2> HIDE DEF a, b
  <2>4. a = b
    BY <2>1, <2>2, <2>3, SeqEqual
  <2>5. QED
    BY <2>4 DEF a, b
<1>6. QED
  BY <1>3, <1>4, <1>5 DEF t, n, IsSeq

\* FileSize() as Describes has it.
LEMMA EndIs ==
    ASSUME NEW s
    PROVE  FileSize(s) = FoldLeft(LAMBDA sum, size : sum + size + 1, 0, s)
  BY Zenon DEF FileSize

LEMMA DescribesIs ==
    ASSUME NEW r, NEW s, NEW j
    PROVE  Describes(r, s, j) <=> r.size = s[j] /\ r.off = FileSize(SubSeq(s, 1, j - 1))
  BY Zenon DEF Describes, FileSize

LEMMA DescribesOld ==
    ASSUME NEW s, IsSeq(s), NEW e, NEW r, NEW j \in 1..Len(s)
    PROVE  Describes(r, Append(s, e), j) <=> Describes(r, s, j)
<1>1. Len(s) \in Nat
  BY SeqLength
<1>2. j - 1 \in 0..Len(s)
  BY <1>1
<1>3. Append(s, e)[j] = s[j] /\ SubSeq(Append(s, e), 1, j - 1) = SubSeq(s, 1, j - 1)
  BY <1>2, LongerStarts
<1>4. QED
  BY <1>3, DescribesIs, Zenon

LEMMA DescribesNew ==
    ASSUME NEW s, IsSeq(s), NEW e, NEW r, r.off = FileSize(s), r.size = e
    PROVE  Describes(r, Append(s, e), Len(s) + 1)
<1> DEFINE n == Len(s)
           t == Append(s, e)
<1>1. n \in Nat /\ (n + 1) - 1 = n /\ n \in 0..n
  BY SeqLength
<1>2. t[n + 1] = e /\ SubSeq(t, 1, n) = SubSeq(s, 1, n) /\ SubSeq(s, 1, n) = s
  BY <1>1, LongerStarts
<1> HIDE DEF n, t
<1>3. Describes(r, t, n + 1)
  BY <1>1, <1>2, DescribesIs
<1>4. QED
  BY <1>3 DEF n, t

(***************************************************************************)
(* Every message has a record.  Between the record and the text of a piece *)
(* the last record describes what is still to come.                        *)
(***************************************************************************)
\* The last record of f is that of a text of this size, to be written next.
Awaits(f, size) ==
    /\ Len(f.idx) >= Len(f.cnf) + 1
    /\ f.idx[Len(f.idx)].off = FileSize(f.cnf) /\ f.idx[Len(f.idx)].size = size

\* Every message of f has a record, and at most n records have none.
Covered(f, n) ==
    /\ \A j \in 1..Len(f.cnf) : \E k \in 1..Len(f.idx) : Describes(f.idx[k], f.cnf, j)
    /\ \A k \in 1..Len(f.idx) : f.idx[k].num = k - 1
    /\ Len(f.idx) - Len(f.cnf) \in 0..n

LEMMA RecordWritten ==
    ASSUME NEW f, IsFile(f), NEW n \in Nat, Covered(f, n), NEW size
    PROVE  LET g == WriteIndex(f, size, FileSize(f.cnf))
           IN  IsFile(g) /\ Covered(g, n + 1) /\ Awaits(g, size)
<1> DEFINE r == [off |-> FileSize(f.cnf), size |-> size, num |-> Len(f.idx),
                 last |-> IF f.idx = <<>> THEN CS!VIRGINDX ELSE 0]
           x == Append(f.idx, r)
           g == [there |-> f.there, cnf |-> f.cnf, idx |-> x]
<1>1. WriteIndex(f, size, FileSize(f.cnf)) = g
  <2> DEFINE at == FileSize(f.cnf)
  <2>1. WriteIndex(f, size, at) = [f EXCEPT !.idx = x]
    BY Zenon DEF WriteIndex
  <2> HIDE DEF r, at
  <2>2. QED
    BY <2>1 DEF IsFile, at
<1>2. r.off = FileSize(f.cnf) /\ r.size = size /\ r.num = Len(f.idx)
  OBVIOUS
<1> HIDE DEF r
<1>3. /\ IsSeq(x) /\ Len(x) = Len(f.idx) + 1 /\ x[Len(f.idx) + 1] = r
      /\ \A k \in 1..Len(f.idx) : x[k] = f.idx[k]
  BY LongerStarts DEF IsFile
<1>4. Len(f.idx) \in Nat /\ Len(f.cnf) \in Nat
  BY SeqLength DEF IsFile
<1>5. g.there = f.there /\ g.cnf = f.cnf /\ g.idx = x
  OBVIOUS
<1>6. g = [there |-> g.there, cnf |-> g.cnf, idx |-> g.idx]
  OBVIOUS
<1> HIDE DEF g, x
<1>7. IsFile(g)
  BY <1>3, <1>5, <1>6 DEF IsFile
<1>8. Covered(g, n + 1)
  <2>1. ASSUME NEW j \in 1..Len(g.cnf) PROVE \E k \in 1..Len(g.idx) : Describes(g.idx[k], g.cnf, j)
    <3>1. PICK k \in 1..Len(f.idx) : Describes(f.idx[k], f.cnf, j)
      BY <1>5 DEF Covered
    <3>2. k \in 1..Len(x) /\ x[k] = f.idx[k]
      BY <1>3, <1>4
    <3>3. QED
      BY <1>5, <3>1, <3>2
  <2>2. ASSUME NEW k \in 1..Len(g.idx) PROVE g.idx[k].num = k - 1
    <3>1. CASE k = Len(f.idx) + 1
      BY <1>2, <1>3, <1>4, <1>5, <3>1
    <3>2. CASE k # Len(f.idx) + 1
      <4>1. k \in 1..Len(f.idx)
        BY <1>3, <1>4, <1>5, <3>2
      <4>2. QED
        BY <1>3, <1>5, <4>1 DEF Covered
    <3>3. QED
      BY <3>1, <3>2
  <2>3. Len(g.idx) - Len(g.cnf) \in 0..(n + 1)
    BY <1>3, <1>4, <1>5 DEF Covered
  <2>4. QED
    BY <2>1, <2>2, <2>3 DEF Covered
<1>9. Awaits(g, size)
  BY <1>2, <1>3, <1>4, <1>5 DEF Awaits, Covered
<1>10. QED
  BY <1>1, <1>7, <1>8, <1>9

LEMMA TextWritten ==
    ASSUME NEW f, IsFile(f), NEW n \in Nat, NEW size, Covered(f, n + 1), Awaits(f, size)
    PROVE  IsFile(WriteText(f, size)) /\ Covered(WriteText(f, size), n)
<1> DEFINE m == Append(f.cnf, size)
           g == [there |-> f.there, cnf |-> m, idx |-> f.idx]
<1>1. WriteText(f, size) = g
  BY DEF WriteText, IsFile
<1>2. /\ IsSeq(m) /\ Len(m) = Len(f.cnf) + 1
  BY LongerStarts DEF IsFile
<1>3. Len(f.idx) \in Nat /\ Len(f.cnf) \in Nat
  BY SeqLength DEF IsFile
<1>4. g.there = f.there /\ g.cnf = m /\ g.idx = f.idx /\ g = [there |-> g.there, cnf |-> g.cnf, idx |-> g.idx]
  OBVIOUS
<1> HIDE DEF g
<1>5. IsFile(g)
  BY <1>2, <1>4 DEF IsFile
<1>6. ASSUME NEW j \in 1..Len(m) PROVE \E k \in 1..Len(f.idx) : Describes(f.idx[k], m, j)
  <2>1. CASE j = Len(f.cnf) + 1
    <3>1. Len(f.idx) \in 1..Len(f.idx)
      BY <1>3 DEF Awaits
    <3>2. Describes(f.idx[Len(f.idx)], m, j)
      BY <2>1, DescribesNew DEF Awaits, IsFile
    <3>3. QED
      BY <3>1, <3>2
  <2>2. CASE j # Len(f.cnf) + 1
    <3>1. j \in 1..Len(f.cnf)
      BY <1>2, <1>3, <2>2
    <3>2. PICK k \in 1..Len(f.idx) : Describes(f.idx[k], f.cnf, j)
      BY <3>1 DEF Covered
    <3>3. Describes(f.idx[k], m, j)
      BY <3>1, <3>2, DescribesOld DEF IsFile
    <3>4. QED
      BY <3>3
  <2>3. QED
    BY <2>1, <2>2
<1>7. Len(f.idx) - Len(m) \in 0..n
  <2> DEFINE a == Len(f.idx)
             b == Len(f.cnf)
  <2>1. a - b \in 0..(n + 1) /\ a >= b + 1
    BY DEF Covered, Awaits
  <2>2. a \in Nat /\ b \in Nat /\ Len(m) = b + 1
    BY <1>2, <1>3
  <2> HIDE DEF a, b
  <2>3. a - (b + 1) \in 0..n
    BY <2>1, <2>2
  <2>4. QED
    BY <2>2, <2>3 DEF a
<1> HIDE DEF m
<1>8. Covered(g, n)
  BY <1>4, <1>6, <1>7 DEF Covered
<1>9. QED
  BY <1>1, <1>5, <1>8

LEMMA CoveredMore ==
    ASSUME NEW f, NEW n \in Nat, Covered(f, n) PROVE Covered(f, n + 1)
<1> DEFINE d == Len(f.idx) - Len(f.cnf)
<1>1. d \in 0..n
  BY DEF Covered
<1> HIDE DEF d
<1>2. d \in 0..(n + 1)
  BY <1>1
<1>3. QED
  BY <1>2 DEF Covered, d

LEMMA NothingCovered == ASSUME NEW n \in Nat PROVE Covered(NoFile, n) /\ IsFile(NoFile)
<1>1. <<>> \in Seq({}) /\ Len(<<>>) = 0 /\ 1..0 = {}
  OBVIOUS
<1>2. QED
  BY <1>1 DEF Covered, NoFile, IsFile, IsSeq

\* The conferences that have the record of the piece and not yet its text.
Waits(c) ==
    \/ pc \in {"pindex", "text"} /\ c = conf
    \/ pc \in {"text", "ptext"} /\ Message.mine /\ c = PERS_CONF

(* IndexCovers speaks of the prompt.  On the way there a record is ahead   *)
(* of its text; a toss that fails leaves it so, in the one conference or   *)
(* in both.                                                                *)
CoverInv ==
    /\ failures \in Nat
    /\ ~torn => \A c \in Confs :
          IF Waits(c) THEN Covered(files[c], failures + 1) /\ Awaits(files[c], piece)
          ELSE Covered(files[c], failures)

\* Where no record is ahead of its text.
Still == {"idle", "refused", "open", "header", "index", "more", "close", "crashed"} \cup Reading

LEMMA NobodyWaits ==
    /\ pc \in Still => \A c : ~Waits(c)
    /\ pc' \in Still => \A c : ~Waits(c)'
  BY DEF Waits, Still, Reading

\* Steps that touch neither the messages nor the records.
LEMMA StillCovered ==
    ASSUME CoverInv, pc \in Still, pc' \in Still, UNCHANGED <<torn, failures>>,
           \A c \in Confs : files'[c].cnf = files[c].cnf /\ files'[c].idx = files[c].idx
    PROVE  CoverInv'
<1>1. ASSUME NEW c \in Confs, ~torn PROVE Covered(files[c], failures)'
  <2>1. Covered(files[c], failures)
    BY <1>1, NobodyWaits DEF CoverInv
  <2>2. QED
    BY <2>1 DEF Covered
<1>2. QED
  BY <1>1, NobodyWaits DEF CoverInv

LEMMA OpenedCovered ==
    ASSUME Files, CoverInv, pc \in Still, pc' \in Still, UNCHANGED <<torn, failures>>,
           NEW d, files' = Opened(files, d)
    PROVE  CoverInv'
<1>1. \A c \in Confs : files'[c].cnf = files[c].cnf /\ files'[c].idx = files[c].idx
  <2> DEFINE f == [there |-> TRUE, cnf |-> files[d].cnf, idx |-> files[d].idx]
  <2>1. files' = [files EXCEPT ![d] = f]
    BY DEF Opened
  <2>2. f.cnf = files[d].cnf /\ f.idx = files[d].idx
    OBVIOUS
  <2> HIDE DEF f
  <2>3. \A c \in Confs : files'[c] = IF c = d THEN f ELSE files[c]
    BY <2>1 DEF Files
  <2>4. QED
    BY <2>2, <2>3
<1>2. QED
  BY <1>1, StillCovered

\* A step that writes one conference.
LEMMA OneCovered ==
    ASSUME Files, CoverInv, UNCHANGED <<torn, failures>>, NEW c, NEW f,
           files' = [files EXCEPT ![c] = f],
           ~torn /\ c \in Confs =>
               IF Waits(c)' THEN Covered(f, failures + 1) /\ Awaits(f, piece')
               ELSE Covered(f, failures),
           \A d : d # c => (Waits(d)' <=> Waits(d)) /\ (Waits(d) => piece' = piece)
    PROVE  CoverInv'
<1>1. \A d \in Confs : files'[d] = IF d = c THEN f ELSE files[d]
  BY DEF Files
<1>2. ASSUME NEW d \in Confs, ~torn
      PROVE  IF Waits(d)' THEN Covered(files'[d], failures + 1) /\ Awaits(files'[d], piece')
             ELSE Covered(files'[d], failures)
  <2>1. CASE d = c
    BY <1>1, <1>2, <2>1
  <2>2. CASE d # c
    <3>1. files'[d] = files[d] /\ (Waits(d)' <=> Waits(d)) /\ (Waits(d) => piece' = piece)
      BY <1>1, <2>2
    <3>2. IF Waits(d) THEN Covered(files[d], failures + 1) /\ Awaits(files[d], piece)
          ELSE Covered(files[d], failures)
      BY <1>2 DEF CoverInv
    <3>3. QED
      BY <3>1, <3>2
  <2>3. QED
    BY <2>1, <2>2
<1>3. QED
  BY <1>2 DEF CoverInv, Covered, Awaits

LEMMA IndexCovered == ASSUME Files, LandInv, CoverInv, Index PROVE CoverInv'
<1> DEFINE p == Piece
           f == WriteIndex(files[conf], p, FileSize(files[conf].cnf))
<1>1. /\ pc = "index" /\ pc' = (IF Message.mine THEN "pindex" ELSE "text") /\ piece' = p
      /\ files' = [files EXCEPT ![conf] = f]
      /\ UNCHANGED <<packet, next, conf, torn, failures>>
  BY DEF Index
<1>2. conf # PERS_CONF /\ Message' = Message /\ failures \in Nat
  BY <1>1, LandsThere DEF Tossing, Message, CoverInv
<1>3. \A d : ~Waits(d)
  BY <1>1, NobodyWaits DEF Still
<1>4. \A d : Waits(d)' <=> d = conf
  BY <1>1, <1>2 DEF Waits
<1>5. ASSUME ~torn, conf \in Confs PROVE Covered(f, failures + 1) /\ Awaits(f, p)
  <2>1. IsFile(files[conf]) /\ Covered(files[conf], failures)
    BY <1>3, <1>5 DEF Files, CoverInv
  <2> HIDE DEF p
  <2>2. QED
    BY <1>2, <2>1, RecordWritten
<1> HIDE DEF p, f
<1>6. QED
  BY <1>1, <1>3, <1>4, <1>5, OneCovered

LEMMA PersIndexCovered == ASSUME Files, LandInv, CoverInv, PersIndex PROVE CoverInv'
<1> DEFINE f == WriteIndex(files[PERS_CONF], piece, FileSize(files[PERS_CONF].cnf))
<1>1. /\ pc = "pindex" /\ pc' = "text" /\ piece' = piece
      /\ files' = [files EXCEPT ![PERS_CONF] = f]
      /\ UNCHANGED <<packet, next, conf, torn, failures>>
  BY DEF PersIndex
<1>2. conf # PERS_CONF /\ Message' = Message /\ failures \in Nat /\ Message.mine
  BY <1>1, LandsThere DEF Tossing, Message, CoverInv, LandInv
<1>3. \A d : Waits(d) <=> d = conf
  BY <1>1, <1>2 DEF Waits
<1>4. \A d : Waits(d)' <=> d = conf \/ d = PERS_CONF
  BY <1>1, <1>2 DEF Waits
<1>5. ASSUME ~torn, PERS_CONF \in Confs PROVE Covered(f, failures + 1) /\ Awaits(f, piece)
  <2>1. IsFile(files[PERS_CONF]) /\ Covered(files[PERS_CONF], failures)
    BY <1>2, <1>3, <1>5 DEF Files, CoverInv
  <2>2. QED
    BY <1>2, <2>1, RecordWritten
<1> HIDE DEF f
<1>6. QED
  BY <1>1, <1>2, <1>3, <1>4, <1>5, OneCovered

LEMMA TextCovered == ASSUME Files, LandInv, CoverInv, Text PROVE CoverInv'
<1> DEFINE f == WriteText(files[conf], piece)
<1>1. /\ pc = "text" /\ pc' = (IF Message.mine THEN "ptext" ELSE "more") /\ piece' = piece
      /\ files' = [files EXCEPT ![conf] = f]
      /\ UNCHANGED <<packet, next, conf, torn, failures>>
  BY DEF Text
<1>2. conf # PERS_CONF /\ Message' = Message /\ failures \in Nat
  BY <1>1, LandsThere DEF Tossing, Message, CoverInv
<1>3. \A d : Waits(d) <=> d = conf \/ (Message.mine /\ d = PERS_CONF)
  BY <1>1 DEF Waits
<1>4. \A d : Waits(d)' <=> Message.mine /\ d = PERS_CONF
  BY <1>1, <1>2 DEF Waits
<1>5. ASSUME ~torn, conf \in Confs PROVE Covered(f, failures)
  <2>1. IsFile(files[conf]) /\ Covered(files[conf], failures + 1) /\ Awaits(files[conf], piece)
    BY <1>3, <1>5 DEF Files, CoverInv
  <2>2. QED
    BY <1>2, <2>1, TextWritten
<1> HIDE DEF f
<1>6. QED
  BY <1>1, <1>2, <1>3, <1>4, <1>5, OneCovered

LEMMA PersTextCovered == ASSUME Files, LandInv, CoverInv, PersText PROVE CoverInv'
<1> DEFINE f == WriteText(files[PERS_CONF], piece)
<1>1. /\ pc = "ptext" /\ pc' = "more" /\ piece' = piece
      /\ files' = [files EXCEPT ![PERS_CONF] = f]
      /\ UNCHANGED <<packet, next, conf, torn, failures>>
  BY DEF PersText
<1>2. Message.mine /\ failures \in Nat
  BY <1>1 DEF CoverInv, LandInv
<1>3. \A d : Waits(d) <=> d = PERS_CONF
  BY <1>1, <1>2 DEF Waits
<1>4. \A d : ~Waits(d)'
  BY <1>1, NobodyWaits DEF Still
<1>5. ASSUME ~torn, PERS_CONF \in Confs PROVE Covered(f, failures)
  <2>1. /\ IsFile(files[PERS_CONF]) /\ Covered(files[PERS_CONF], failures + 1)
        /\ Awaits(files[PERS_CONF], piece)
    BY <1>3, <1>5 DEF Files, CoverInv
  <2>2. QED
    BY <1>2, <2>1, TextWritten
<1> HIDE DEF f
<1>6. QED
  BY <1>1, <1>3, <1>4, <1>5, OneCovered

\* A toss that fails leaves one record more without a text, in each of them.
LEMMA FailsCovered == ASSUME CoverInv, Fails PROVE CoverInv'
<1>1. pc' = "close" /\ failures' = failures + 1 /\ UNCHANGED <<files, torn>>
  BY DEF Fails
<1>2. failures \in Nat
  BY DEF CoverInv
<1>3. \A c : ~Waits(c)'
  BY <1>1, NobodyWaits DEF Still
<1>4. ASSUME NEW c \in Confs, ~torn PROVE Covered(files[c], failures + 1)
  BY <1>2, <1>4, CoveredMore DEF CoverInv
<1>5. ASSUME NEW c \in Confs, ~torn PROVE Covered(files[c], failures)'
  BY <1>1, <1>4, <1>5 DEF Covered
<1>6. QED
  BY <1>1, <1>2, <1>3, <1>5 DEF CoverInv

LEMMA CloseCovered == ASSUME Files, CoverInv, Close PROVE CoverInv'
<1>1. pc = "close" /\ pc' = "idle" /\ pc \in Still /\ pc' \in Still /\ UNCHANGED <<torn, failures, piece>>
  BY DEF Close, Still
<1>2. CASE files' = files
  BY <1>1, <1>2, StillCovered
<1>3. CASE files' # files
  <2>1. files' = [files EXCEPT ![PERS_CONF] = NoFile]
    BY <1>3 DEF Close
  <2>2. failures \in Nat /\ Covered(NoFile, failures)
    BY NothingCovered DEF CoverInv
  <2>3. QED
    BY <1>1, <2>1, <2>2, NobodyWaits, OneCovered
<1>4. QED
  BY <1>2, <1>3

LEMMA InitCovered == Init => CoverInv
<1>1. SUFFICES ASSUME Init PROVE CoverInv
  OBVIOUS
<1>2. pc = "idle" /\ failures = 0 /\ files = [c \in Confs |-> NoFile]
  BY <1>1 DEF Init
<1>3. Covered(NoFile, 0)
  BY NothingCovered
<1>4. \A c : ~Waits(c)
  BY <1>2, NobodyWaits DEF Still
<1>5. QED
  BY <1>2, <1>3, <1>4 DEF CoverInv

LEMMA CoverInvInductive ==
    ASSUME MailInv, LandInv, CoverInv, [Next]_vars PROVE CoverInv'
<1>0. Files
  BY DEF MailInv
<1>1. ASSUME NEW f \in Controls, NEW p \in Packets, Load(f, p) PROVE CoverInv'
  <2>1. pc \in Still /\ pc' \in Still /\ UNCHANGED <<torn, failures, files>>
    BY <1>1 DEF Load, ReadHead, Still, Reading
  <2>2. QED
    BY <2>1, StillCovered
<1>2. ASSUME ControlStep, UNCHANGED tvars PROVE CoverInv'
  <2>1. UNCHANGED <<torn, failures, files>>
    BY <1>2 DEF tvars
  <2>2. pc \in Still /\ pc' \in Still
    BY <1>2 DEF ControlStep, ReadCount, DoMalloc, FailedMalloc, GetConfNames, SwitchToNewBbs,
                Still, Reading
  <2>3. QED
    BY <2>1, <2>2, StillCovered
<1>3. ASSUME Refused \/ ReadOnly \/ EndOfPacket \/ ReOpenFails \/ More \/ Restart PROVE CoverInv'
  <2>1. UNCHANGED <<torn, failures, files>>
    BY <1>3 DEF Refused, ReadOnly, EndOfPacket, ReOpenFails, More, Restart, tvars
  <2>2. pc \in Still /\ pc' \in Still
    BY <1>3 DEF Refused, ReadOnly, EndOfPacket, ReOpenFails, More, Restart, Still
  <2>3. QED
    BY <2>1, <2>2, StillCovered
<1>4. ASSUME Open \/ Header PROVE CoverInv'
  <2>1. UNCHANGED <<torn, failures>> /\ pc \in Still /\ pc' \in Still
    BY <1>4 DEF Open, Header, Still
  <2>2. \E c : files' = Opened(files, c)
    BY <1>4 DEF Open, Header
  <2>3. QED
    BY <1>0, <2>1, <2>2, OpenedCovered
<1>5. ASSUME OpenFails PROVE CoverInv'
  <2>1. UNCHANGED <<torn, failures>> /\ pc \in Still /\ pc' \in Still
    BY <1>5 DEF OpenFails, Still
  <2>2. files' = files \/ files' = Opened(files, PERS_CONF)
    BY <1>5 DEF OpenFails
  <2>3. QED
    BY <1>0, <2>1, <2>2, OpenedCovered, StillCovered
<1>6. ASSUME Crash PROVE CoverInv'
  BY <1>6 DEF Crash, CoverInv
<1>7. ASSUME UNCHANGED vars PROVE CoverInv'
  <2>1. UNCHANGED <<pc, packet, next, files, conf, piece, failures, torn>>
    BY <1>7 DEF vars, tvars
  <2>2. QED
    BY <2>1 DEF CoverInv, Waits, Message, Covered, Awaits
<1>8. QED
  BY <1>0, <1>1, <1>2, <1>3, <1>4, <1>5, <1>6, <1>7, IndexCovered, PersIndexCovered,
     TextCovered, PersTextCovered, FailsCovered, CloseCovered
     DEF Next, Step, TossStep, Fault

(* Whatever packets are tossed, and tossed again after whatever failure:   *)
(* the index that MkInLoopRd() (mkindex.c) writes ahead of the texts has a *)
(* record for every message, numbers them, and has no more records without *)
(* a message than there were failures.                                     *)
THEOREM IndexAlwaysCovers == Spec => []IndexCovers
<1>1. ASSUME MailInv, CoverInv PROVE IndexCovers
  <2> SUFFICES ASSUME pc = "idle", ~torn, NEW c \in Confs
        PROVE  LET f == files[c]
               IN  /\ \A j \in DOMAIN f.cnf : \E r \in ToSet(f.idx) : Describes(r, f.cnf, j)
                   /\ \A k \in DOMAIN f.idx : f.idx[k].num = k - 1
                   /\ Len(f.idx) - Len(f.cnf) \in 0..failures
    BY Zenon DEF IndexCovers
  <2> DEFINE f == files[c]
  <2>1. Covered(f, failures)
    BY <1>1, NobodyWaits DEF CoverInv, Still
  <2>2. DOMAIN f.cnf = 1..Len(f.cnf) /\ DOMAIN f.idx = 1..Len(f.idx)
    BY <1>1, SeqLength DEF MailInv, Files, IsFile
  <2> HIDE DEF f
  <2>3. \A k \in 1..Len(f.idx) : f.idx[k] \in ToSet(f.idx)
    BY <2>2 DEF ToSet
  <2>4. QED
    BY <2>1, <2>2, <2>3 DEF Covered, f
<1>2. ASSUME MailInv /\ TableInv /\ LandInv /\ CoverInv, [Next]_vars
      PROVE  (MailInv /\ TableInv /\ LandInv /\ CoverInv)'
  BY <1>2, MailInvInductive, TableInvInductive, LandInvInductive, CoverInvInductive
<1>3. Init => MailInv /\ TableInv /\ LandInv /\ CoverInv
  BY InitMail, InitTableInv, InitLand, InitCovered
<1>4. QED
  BY <1>1, <1>2, <1>3, PTL DEF Spec

(***************************************************************************)
(* What a load brings to one conference: the texts behind the old ones,    *)
(* and the records behind the old records.                                 *)
(***************************************************************************)
Added(old, f) == SubSeq(f.cnf, Len(old.cnf) + 1, Len(f.cnf))

\* The last record of f is that of a text of this size, to be written next.
Announced(f, size) == f.idx[Len(f.idx)].off = FileSize(f.cnf) /\ f.idx[Len(f.idx)].size = size

\* The new texts have records that describe them, in their order, and w more.
Recorded(old, f, w) ==
    /\ Len(f.idx) = Len(old.idx) + (Len(f.cnf) - Len(old.cnf)) + w
    /\ \A k \in 1..(Len(f.cnf) - Len(old.cnf)) :
          Describes(f.idx[Len(old.idx) + k], f.cnf, Len(old.cnf) + k)
    /\ old.idx = <<>> /\ f.idx # <<>> => f.idx[1].last = CS!VIRGINDX

\* The new texts add up to sum blocks, are n or more, and not more if exact.
Tally(old, f, sum, n, exact) ==
    /\ TextBlocks(Added(old, f)) = sum
    /\ Len(Added(old, f)) >= n
    /\ exact => Len(Added(old, f)) = n

\* A file of this load, and what it was before.
Pair(old, f) == IsFile(old) /\ IsFile(f) /\ Keeps(old, f)

\* The sums are folds.
Plus(sum, size) == sum + size
Sums == INSTANCE LeftFold WITH Op <- Plus

LEMMA TextBlocksIs == ASSUME NEW s PROVE TextBlocks(s) = Sums!Fold(0, s)
  BY Zenon DEF TextBlocks, Plus, Sums!Fold, FoldLeft, MapThenFoldSet, Max,
               Sums!FoldLeft, Sums!MapThenFoldSet, Sums!Max

LEMMA NoBlocks == TextBlocks(<<>>) = 0
  BY TextBlocksIs, Sums!FoldEmpty, Zenon

LEMMA MoreBlocks ==
    ASSUME NEW s, IsSeq(s), NEW e PROVE TextBlocks(Append(s, e)) = TextBlocks(s) + e
<1>1. PICK S : s \in Seq(S)
  BY DEF IsSeq
<1>2. Sums!Fold(0, Append(s, e)) = Plus(Sums!Fold(0, s), e)
  BY <1>1, Sums!FoldAppend, Zenon
<1>3. QED
  BY <1>2, TextBlocksIs DEF Plus

LEMMA BlocksNat == ASSUME NEW s \in Seq(Nat) PROVE TextBlocks(s) \in Nat
<1>1. \A d \in Nat : \A c \in Nat : Plus(d, c) \in Nat
  BY DEF Plus
<1>2. 0 \in Nat
  OBVIOUS
<1>3. Sums!Fold(0, s) \in Nat
  BY <1>1, <1>2, Sums!FoldStays, Zenon
<1>4. QED
  BY <1>3, TextBlocksIs

LEMMA SliceIs ==
    ASSUME NEW s, IsSeq(s), NEW n \in 0..Len(s)
    PROVE  /\ IsSeq(SubSeq(s, n + 1, Len(s))) /\ Len(SubSeq(s, n + 1, Len(s))) = Len(s) - n
           /\ \A e : SubSeq(Append(s, e), n + 1, Len(s) + 1) = Append(SubSeq(s, n + 1, Len(s)), e)
<1>1. PICK S : s \in Seq(S)
  BY DEF IsSeq
<1>2. SubSeq(s, n + 1, Len(s)) \in Seq(S) /\ Len(SubSeq(s, n + 1, Len(s))) = Len(s) - n
  BY <1>1
<1>3. ASSUME NEW e
      PROVE  SubSeq(Append(s, e), n + 1, Len(s) + 1) = Append(SubSeq(s, n + 1, Len(s)), e)
  <2> DEFINE T == S \cup {e}
             L == Len(s)
             t == Append(s, e)
  <2>1. s \in Seq(T) /\ e \in T /\ L \in Nat /\ n \in 0..L
    BY <1>1
  <2> HIDE DEF T
  <2>2. t \in Seq(T) /\ Len(t) = L + 1 /\ t[L + 1] = e /\ \A i \in 1..L : t[i] = s[i]
    BY <2>1
  <2> DEFINE a == SubSeq(t, n + 1, L + 1)
             b == SubSeq(s, n + 1, L)
             m == L - n
  <2>3. m \in Nat
    BY <2>1
  <2> HIDE DEF t
  <2>4. a \in Seq(T) /\ Len(a) = m + 1 /\ \A i \in 1..(m + 1) : a[i] = t[n + i]
    BY <2>1, <2>2
  <2>5. b \in Seq(T) /\ Len(b) = m /\ \A i \in 1..m : b[i] = s[n + i]
    BY <2>1
  <2>6. \A i \in 1..m : n + i \in 1..L /\ t[n + i] = s[n + i]
    BY <2>1, <2>2
  <2>7. n + (m + 1) = L + 1
    BY <2>1
  <2> HIDE DEF a, b, m, L
  <2> DEFINE d == Append(b, e)
  <2>8. d \in Seq(T) /\ Len(d) = m + 1 /\ d[m + 1] = e /\ \A i \in 1..m : d[i] = b[i]
    BY <2>1, <2>3, <2>5
  <2> HIDE DEF d
  <2>9. ASSUME NEW i \in 1..(m + 1) PROVE a[i] = d[i]
    <3>1. CASE i = m + 1
      BY <2>2, <2>3, <2>4, <2>7, <2>8, <3>1
    <3>2. CASE i # m + 1
      <4>1. i \in 1..m
        BY <2>3, <3>2
      <4>2. QED
        BY <2>4, <2>5, <2>6, <2>8, <4>1
    <3>3. QED
      BY <3>1, <3>2
  <2>10. a = d
    BY <2>4, <2>8, <2>9, SeqEqual
  <2>11. QED
    BY <2>10 DEF a, b, d, t, L
<1>4. QED
  BY <1>2, <1>3 DEF IsSeq

LEMMA PairSizes ==
    ASSUME NEW old, NEW f, Pair(old, f)
    PROVE  /\ Len(f.cnf) \in Nat /\ Len(old.cnf) \in 0..Len(f.cnf)
           /\ Len(f.idx) \in Nat /\ Len(old.idx) \in 0..Len(f.idx)
           /\ Len(Added(old, f)) = Len(f.cnf) - Len(old.cnf) /\ IsSeq(Added(old, f))
<1>1. Len(f.cnf) \in Nat /\ Len(old.cnf) \in 0..Len(f.cnf)
  BY SeqLength DEF Pair, IsFile, Keeps, Grows
<1>2. Len(f.idx) \in Nat /\ Len(old.idx) \in 0..Len(f.idx)
  BY SeqLength DEF Pair, IsFile, Keeps, Grows
<1>3. IsSeq(f.cnf)
  BY DEF Pair, IsFile
<1>4. QED
  BY <1>1, <1>2, <1>3, SliceIs DEF Added

\* Nothing is new at the start.
LEMMA NothingAdded ==
    ASSUME NEW old, NEW f, IsFile(old), f.cnf = old.cnf, f.idx = old.idx
    PROVE  Recorded(old, f, 0) /\ \A exact : Tally(old, f, 0, 0, exact)
<1>1. Len(old.cnf) \in Nat /\ Len(old.idx) \in Nat
  BY SeqLength DEF IsFile
<1> DEFINE n == Len(old.cnf)
<1>2. PICK S : old.cnf \in Seq(S)
  BY DEF IsFile, IsSeq
<1>3. SubSeq(old.cnf, n + 1, n) = <<>>
  BY <1>2
<1>4. Added(old, f) = <<>>
  BY <1>3 DEF Added
<1>5. \A exact : Tally(old, f, 0, 0, exact)
  BY <1>4, NoBlocks DEF Tally
<1>6. Recorded(old, f, 0)
  BY <1>1 DEF Recorded
<1>7. QED
  BY <1>5, <1>6

LEMMA RecordBrings ==
    ASSUME NEW old, NEW f, Pair(old, f), Recorded(old, f, 0), NEW size
    PROVE  LET g == WriteIndex(f, size, FileSize(f.cnf))
           IN  /\ Recorded(old, g, 1) /\ Announced(g, size) /\ g.cnf = f.cnf
               /\ g.there = f.there
<1> DEFINE r == [off |-> FileSize(f.cnf), size |-> size, num |-> Len(f.idx),
                 last |-> IF f.idx = <<>> THEN CS!VIRGINDX ELSE 0]
           x == Append(f.idx, r)
           g == [there |-> f.there, cnf |-> f.cnf, idx |-> x]
<1>0. IsFile(f) /\ IsFile(old) /\ Keeps(old, f)
  BY DEF Pair
<1>1. WriteIndex(f, size, FileSize(f.cnf)) = g
  <2> DEFINE at == FileSize(f.cnf)
  <2>1. WriteIndex(f, size, at) = [f EXCEPT !.idx = x]
    BY Zenon DEF WriteIndex
  <2> HIDE DEF r, at
  <2>2. QED
    BY <1>0, <2>1 DEF IsFile, at
<1>2. r.off = FileSize(f.cnf) /\ r.size = size /\ (f.idx = <<>> => r.last = CS!VIRGINDX)
  OBVIOUS
<1> HIDE DEF r
<1>3. /\ IsSeq(x) /\ Len(x) = Len(f.idx) + 1 /\ x[Len(f.idx) + 1] = r
      /\ \A k \in 1..Len(f.idx) : x[k] = f.idx[k]
  BY <1>0, LongerStarts DEF IsFile
<1>4. g.there = f.there /\ g.cnf = f.cnf /\ g.idx = x
  OBVIOUS
<1> HIDE DEF g, x
<1> DEFINE a == Len(old.idx)
           b == Len(f.idx)
           m == Len(f.cnf) - Len(old.cnf)
<1>5. /\ a \in Nat /\ b \in Nat /\ m \in Nat /\ b = a + m + 0
      /\ \A k \in 1..m : Describes(f.idx[a + k], f.cnf, Len(old.cnf) + k)
  <2>1. a \in Nat /\ b \in Nat /\ m \in Nat
    BY PairSizes
  <2>2. b = a + m + 0 /\ \A k \in 1..m : Describes(f.idx[a + k], f.cnf, Len(old.cnf) + k)
    BY Zenon DEF Recorded
  <2>3. QED
    BY <2>1, <2>2
<1>7. old.idx = <<>> /\ f.idx # <<>> => f.idx[1].last = CS!VIRGINDX
  BY DEF Recorded
<1>8. (f.idx = <<>> => b = 0) /\ (f.idx # <<>> => b > 0)
  <2>1. PICK S : f.idx \in Seq(S)
    BY <1>0 DEF IsFile, IsSeq
  <2>2. QED
    BY <2>1
<1> HIDE DEF a, b, m
<1>6. \A k \in 1..m : a + k \in 1..b
  BY <1>5
<1>9. \A k \in 1..m : Describes(g.idx[a + k], g.cnf, Len(old.cnf) + k)
  BY <1>3, <1>4, <1>5, <1>6 DEF b
<1>10. Len(g.idx) = a + m + 1
  BY <1>3, <1>4, <1>5 DEF b
<1>11. old.idx = <<>> => g.idx[1].last = CS!VIRGINDX
  <2>1. CASE f.idx = <<>>
    <3>1. g.idx[1] = r
      BY <1>3, <1>4, <1>8, <2>1 DEF b
    <3>2. QED
      BY <1>2, <2>1, <3>1
  <2>2. CASE f.idx # <<>>
    <3>1. 1 \in 1..b
      BY <1>5, <1>8, <2>2
    <3>2. g.idx[1] = f.idx[1]
      BY <1>3, <1>4, <3>1 DEF b
    <3>3. QED
      BY <1>7, <2>2, <3>2
  <2>3. QED
    BY <2>1, <2>2
<1>12. Recorded(old, g, 1)
  BY <1>4, <1>9, <1>10, <1>11 DEF Recorded, a, m
<1>13. Announced(g, size)
  BY <1>2, <1>3, <1>4 DEF Announced
<1>14. QED
  BY <1>1, <1>4, <1>12, <1>13

LEMMA TextBrings ==
    ASSUME NEW old, NEW f, Pair(old, f), Recorded(old, f, 1), NEW size, Announced(f, size),
           NEW sum, NEW n \in Int, NEW exact, Tally(old, f, sum, n, exact)
    PROVE  LET g == WriteText(f, size)
           IN  /\ Recorded(old, g, 0) /\ g.idx = f.idx /\ g.there = f.there
               /\ Tally(old, g, sum + size, n + 1, exact)
<1> DEFINE c == Append(f.cnf, size)
           g == [there |-> f.there, cnf |-> c, idx |-> f.idx]
<1>0. IsFile(f) /\ IsFile(old) /\ Keeps(old, f)
  BY DEF Pair
<1>1. WriteText(f, size) = g
  BY <1>0 DEF WriteText, IsFile
<1>2. /\ IsSeq(c) /\ Len(c) = Len(f.cnf) + 1 /\ IsSeq(f.cnf)
  BY <1>0, LongerStarts DEF IsFile
<1>3. g.there = f.there /\ g.cnf = c /\ g.idx = f.idx
  OBVIOUS
<1> HIDE DEF g
<1> DEFINE a == Len(old.idx)
           o == Len(old.cnf)
           l == Len(f.cnf)
           m == l - o
<1>4. /\ a \in Nat /\ l \in Nat /\ o \in 0..l /\ Len(Added(old, f)) = m /\ IsSeq(Added(old, f))
      /\ Len(f.idx) = a + m + 1
      /\ \A k \in 1..m : Describes(f.idx[a + k], f.cnf, o + k)
      /\ old.idx = <<>> /\ f.idx # <<>> => f.idx[1].last = CS!VIRGINDX
  <2>1. a \in Nat /\ l \in Nat /\ o \in 0..l /\ Len(Added(old, f)) = m /\ IsSeq(Added(old, f))
    BY PairSizes
  <2>2. /\ Len(f.idx) = a + m + 1
        /\ \A k \in 1..m : Describes(f.idx[a + k], f.cnf, o + k)
        /\ old.idx = <<>> /\ f.idx # <<>> => f.idx[1].last = CS!VIRGINDX
    BY Zenon DEF Recorded
  <2>3. QED
    BY <2>1, <2>2, Zenon
<1>5. /\ Describes(f.idx[Len(f.idx)], c, l + 1)
      /\ \A j \in 1..l : \A r : Describes(r, c, j) <=> Describes(r, f.cnf, j)
  BY <1>2, DescribesNew, DescribesOld DEF Announced
<1>6. Added(old, g) = Append(Added(old, f), size)
  BY <1>2, <1>3, <1>4, SliceIs DEF Added
<1>7. c = Append(f.cnf, size) /\ Len(c) = l + 1 /\ m = l - o
  BY <1>2
<1> HIDE DEF a, o, l, m, c
<1>13. m \in Nat
  BY <1>4, <1>7
<1>14. ASSUME NEW k \in 1..(m + 1) PROVE Describes(f.idx[a + k], c, o + k)
  <2>1. CASE k = m + 1
    <3>1. a + k = Len(f.idx) /\ o + k = l + 1
      BY <1>4, <1>7, <1>13, <2>1
    <3>2. QED
      BY <1>5, <3>1
  <2>2. CASE k # m + 1
    <3>1. k \in 1..m /\ o + k \in 1..l
      BY <1>4, <1>7, <1>13, <2>2
    <3>2. QED
      BY <1>4, <1>5, <3>1
  <2>3. QED
    BY <2>1, <2>2
<1>15. Len(c) - o = m + 1 /\ Len(f.idx) = a + (Len(c) - o) + 0
  <2> DEFINE n1 == Len(c)
             n2 == Len(f.idx)
  <2>1. a \in Int /\ l \in Int /\ o \in Int /\ n1 = l + 1 /\ m = l - o /\ n2 = a + m + 1
    BY <1>4, <1>7
  <2> HIDE DEF n1, n2
  <2>2. n1 - o = m + 1 /\ n2 = a + (n1 - o) + 0
    BY <2>1
  <2>3. QED
    BY <2>2 DEF n1, n2
<1>8. Recorded(old, g, 0)
  <2>1. \A k \in 1..(Len(c) - o) : Describes(f.idx[a + k], c, o + k)
    BY <1>14, <1>15
  <2>2. QED
    BY <1>3, <1>4, <1>15, <2>1 DEF Recorded, a, o
<1>9. TextBlocks(Added(old, g)) = sum + size
  BY <1>4, <1>6, MoreBlocks DEF Tally
<1>10. Len(Added(old, g)) = m + 1
  BY <1>4, <1>6, LongerStarts
<1>11. Tally(old, g, sum + size, n + 1, exact)
  BY <1>4, <1>9, <1>10, <1>13 DEF Tally
<1>12. QED
  BY <1>1, <1>3, <1>8, <1>11

(***************************************************************************)
(* The messages tossed so far.                                             *)
(***************************************************************************)
\* The open conferences that have got the text of the current piece.
Written(c) ==
    \/ pc \in {"ptext", "more"} /\ c = conf
    \/ pc = "more" /\ Message.mine /\ c = PERS_CONF

\* What the earlier pieces of the current message and this one have brought to c.
SoFar(c) ==
    IF pc \in Tossing /\ next \in Mail(c)
    THEN Message.size - rest + (IF Written(c) THEN piece ELSE 0) ELSE 0

UpTo(a, n) == TextBlocks(SubSeq(a, 1, n))
MailTo(c, n) == {i \in Mail(c) : i <= n}
Unsplit(c) == \A i \in Mail(c) : packet[i].size < RECS

Expected(c) == UpTo(Arrived(c), next - 1) + SoFar(c)
Pieces(c) == Cardinality(MailTo(c, next - 1)) + (IF Written(c) THEN 1 ELSE 0)

(* TossedRight speaks of the end.  Until then the messages before the      *)
(* current one have arrived, and of that as much as rest says is missing,  *)
(* in each of the two conferences as far as it has come; a message that    *)
(* fits the buffer is in its first piece.                                  *)
Ready(c) ==
    /\ Recorded(before[c], files[c], IF Waits(c) THEN 1 ELSE 0)
    /\ Waits(c) => Announced(files[c], piece)
    /\ Tally(before[c], files[c], Expected(c), Pieces(c), Unsplit(c))
    /\ c = PERS_CONF \/ MailTo(c, next - 1) # {} \/ (pc \in Tossing /\ c = conf) => files[c].there

Moving == Tossing \cup {"header"}
RightInv ==
    /\ recs \in Nat /\ recs >= RECS
    /\ pc \in Tossing =>
          /\ rest \in Int /\ piece \in Int
          /\ Message.size < RECS => rest = Message.size /\ piece = Message.size
    /\ pc \in Moving \/ (pc = "close" /\ next > Len(packet)) =>
          /\ next <= Len(packet) + 1
          /\ \A c \in Confs : Ready(c)

(***************************************************************************)
(* The packet and the mail in it.                                          *)
(***************************************************************************)
LEMMA PacketIs ==
    ASSUME LandInv
    PROVE  /\ packet \in Seq([conf : Nat \ {PERS_CONF}, size : Nat, mine : BOOLEAN])
           /\ Len(packet) \in Nat /\ DOMAIN packet = 1..Len(packet)
           /\ \A i \in DOMAIN packet : packet[i].size \in Nat
<1> DEFINE M == [conf : Nat \ {PERS_CONF}, size : Nat, mine : BOOLEAN]
<1>1. \A m \in M : m.size \in Nat
  OBVIOUS
<1>2. Packets \subseteq Seq(M)
  BY TossAssumption
<1> HIDE DEF M
<1>3. packet \in Seq(M)
  <2>1. packet \in Packets \cup {<<>>}
    BY DEF LandInv
  <2>2. <<>> \in Seq(M)
    OBVIOUS
  <2>3. QED
    BY <1>2, <2>1, <2>2
<1>4. Len(packet) \in Nat /\ DOMAIN packet = 1..Len(packet) /\ \A i \in DOMAIN packet : packet[i] \in M
  BY <1>3
<1>5. QED
  BY <1>1, <1>3, <1>4 DEF M

LEMMA ArrivedIs ==
    ASSUME LandInv, NEW c
    PROVE  /\ Arrived(c) \in Seq(Nat) /\ Len(Arrived(c)) = Len(packet)
           /\ \A i \in 1..Len(packet) : Arrived(c)[i] = IF i \in Mail(c) THEN packet[i].size ELSE 0
<1> DEFINE n == Len(packet)
           g == [i \in 1..n |-> IF i \in Mail(c) THEN packet[i].size ELSE 0]
<1>1. n \in Nat /\ DOMAIN packet = 1..n /\ \A i \in 1..n : packet[i].size \in Nat
  BY PacketIs
<1>2. Arrived(c) = g
  BY <1>1 DEF Arrived
<1> HIDE DEF n
<1>3. g \in [1..n -> Nat]
  BY <1>1
<1>4. \A i \in 1..n : g[i] = IF i \in Mail(c) THEN packet[i].size ELSE 0
  OBVIOUS
<1> HIDE DEF g
<1>5. g \in Seq(Nat) /\ Len(g) = n
  BY <1>1, <1>3
<1>6. QED
  BY <1>2, <1>4, <1>5 DEF n

LEMMA UpToNext ==
    ASSUME NEW a \in Seq(Nat), NEW n \in 1..Len(a)
    PROVE  UpTo(a, n) = UpTo(a, n - 1) + a[n]
<1>1. n - 1 \in Nat /\ n \in Nat
  OBVIOUS
<1> DEFINE m == n - 1
           s == SubSeq(a, 1, m)
           t == SubSeq(a, 1, n)
           u == Append(s, a[n])
<1>2. n = m + 1 /\ m \in Nat
  BY <1>1
<1>3. s \in Seq(Nat) /\ Len(s) = m /\ \A i \in 1..m : s[i] = a[i]
  BY <1>2
<1>4. t \in Seq(Nat) /\ Len(t) = n /\ \A i \in 1..n : t[i] = a[i]
  BY <1>1
<1>5. a[n] \in Nat
  OBVIOUS
<1> HIDE DEF m, s, t
<1>6. u \in Seq(Nat) /\ Len(u) = m + 1 /\ u[m + 1] = a[n] /\ \A i \in 1..m : u[i] = s[i]
  BY <1>2, <1>3, <1>5
<1> HIDE DEF u
<1>7. \A i \in 1..n : t[i] = u[i]
  <2>1. \A i \in 1..n : i \in 1..m \/ i = m + 1
    BY <1>2
  <2>2. QED
    BY <2>1, <1>2, <1>3, <1>4, <1>6
<1>8. t = u
  BY <1>2, <1>4, <1>6, <1>7, SeqEqual
<1>9. TextBlocks(u) = TextBlocks(s) + a[n]
  BY <1>3, MoreBlocks DEF u, IsSeq
<1>10. QED
  BY <1>8, <1>9 DEF UpTo, m, s, t

LEMMA UpToNat ==
    ASSUME NEW a \in Seq(Nat), NEW n \in 0..Len(a)
    PROVE  UpTo(a, n) \in Nat /\ UpTo(a, 0) = 0 /\ UpTo(a, Len(a)) = TextBlocks(a)
<1>1. SubSeq(a, 1, n) \in Seq(Nat) /\ SubSeq(a, 1, 0) = <<>> /\ SubSeq(a, 1, Len(a)) = a
  OBVIOUS
<1>2. QED
  BY <1>1, BlocksNat, NoBlocks DEF UpTo

LEMMA MailIs ==
    ASSUME LandInv, NEW c, NEW n \in Nat
    PROVE  /\ Mail(c) \subseteq 1..Len(packet)
           /\ IsFiniteSet(MailTo(c, n)) /\ Cardinality(MailTo(c, n)) \in Nat
<1>1. Mail(c) \subseteq 1..Len(packet) /\ Len(packet) \in Nat
  BY PacketIs DEF Mail
<1>2. MailTo(c, n) \in SUBSET (1..Len(packet)) /\ IsFiniteSet(1..Len(packet))
  BY <1>1, FS_Interval DEF MailTo
<1>3. IsFiniteSet(MailTo(c, n))
  BY <1>2, FS_Subset
<1>4. QED
  BY <1>1, <1>3, FS_CardinalityType

LEMMA MailNext ==
    ASSUME LandInv, NEW c, NEW n \in Nat \ {0}
    PROVE  /\ n \in Mail(c) =>
                /\ Cardinality(MailTo(c, n)) = Cardinality(MailTo(c, n - 1)) + 1
                /\ MailTo(c, n) = MailTo(c, n - 1) \cup {n}
           /\ n \notin Mail(c) => MailTo(c, n) = MailTo(c, n - 1)
<1>1. n - 1 \in Nat /\ Mail(c) \subseteq Int /\ IsFiniteSet(MailTo(c, n - 1))
  BY MailIs
<1>2. \A i \in Int : i <= n <=> (i <= n - 1 \/ i = n)
  OBVIOUS
<1>3. n \notin Mail(c) => MailTo(c, n) = MailTo(c, n - 1)
  BY <1>1, <1>2 DEF MailTo
<1>4. n \in Mail(c) => MailTo(c, n) = MailTo(c, n - 1) \cup {n}
  BY <1>1, <1>2 DEF MailTo
<1>5. n \notin MailTo(c, n - 1)
  BY DEF MailTo
<1>6. Cardinality(MailTo(c, n - 1) \cup {n}) = Cardinality(MailTo(c, n - 1)) + 1
  BY <1>1, <1>5, FS_AddElement
<1>7. QED
  BY <1>3, <1>4, <1>6

\* A message is tossed to the conference it belongs in.
LEMMA GetsIs ==
    ASSUME LandInv, pc \in Tossing, NEW c
    PROVE  next \in Mail(c) <=> c = conf \/ (Message.mine /\ c = PERS_CONF)
<1>1. next <= Len(packet) /\ conf = Landing(Message.conf)
  BY DEF LandInv
<1>2. next \in DOMAIN packet /\ conf # PERS_CONF
  BY <1>1, MessageIs, LandsThere
<1>3. QED
  BY <1>1, <1>2 DEF Mail, Message

\* Within a load neither the packet nor the table changes.
LEMMA SameMail ==
    ASSUME UNCHANGED <<packet, tbl>>, NEW c
    PROVE  /\ Mail(c)' = Mail(c) /\ Arrived(c)' = Arrived(c) /\ (Unsplit(c)' <=> Unsplit(c))
           /\ \A n : MailTo(c, n)' = MailTo(c, n)
<1>1. Mail(c)' = Mail(c)
  BY DEF Mail, Landing, Numbers
<1>2. Arrived(c)' = Arrived(c)
  BY <1>1 DEF Arrived
<1>3. Unsplit(c)' <=> Unsplit(c)
  BY <1>1 DEF Unsplit
<1>4. \A n : MailTo(c, n)' = MailTo(c, n)
  BY <1>1 DEF MailTo
<1>5. QED
  BY <1>1, <1>2, <1>3, <1>4

(***************************************************************************)
(* One conference, from step to step.                                      *)
(***************************************************************************)
LEMMA ReadyPair ==
    ASSUME MailInv, pc # "idle", NEW c \in Confs PROVE Pair(before[c], files[c])
  BY DEF MailInv, Files, Pair

LEMMA ExpectedInt ==
    ASSUME LandInv, RightInv, pc \in Tossing, NEW c
    PROVE  /\ UpTo(Arrived(c), next - 1) \in Nat /\ rest \in Int /\ piece \in Int
           /\ Message.size \in Nat /\ Expected(c) \in Int /\ Pieces(c) \in Int
<1>1. next \in Nat \ {0} /\ next <= Len(packet)
  BY DEF LandInv
<1>2. Message.size \in Nat /\ rest \in Int /\ piece \in Int
  BY <1>1, MessageIs DEF RightInv
<1>3. next - 1 \in 0..Len(packet) /\ Len(Arrived(c)) = Len(packet) /\ Arrived(c) \in Seq(Nat)
  BY <1>1, PacketIs, ArrivedIs
<1>4. UpTo(Arrived(c), next - 1) \in Nat
  BY <1>3, UpToNat
<1>5. Cardinality(MailTo(c, next - 1)) \in Nat
  BY <1>3, MailIs, PacketIs
<1>6. SoFar(c) \in Int
  BY <1>2 DEF SoFar
<1>7. QED
  BY <1>2, <1>4, <1>5, <1>6 DEF Expected, Pieces

\* A conference whose files a step leaves as they were.
LEMMA ReadyStays ==
    ASSUME NEW c, Ready(c), Pair(before[c], files[c]), UNCHANGED before,
           files'[c].cnf = files[c].cnf, files'[c].idx = files[c].idx,
           Waits(c)' <=> Waits(c), Waits(c) => piece' = piece,
           Expected(c)' = Expected(c), Pieces(c) \in Int, Pieces(c)' \in Int,
           Pieces(c)' <= Pieces(c), Unsplit(c)' <=> Unsplit(c),
           Unsplit(c) => Pieces(c)' = Pieces(c),
           (c = PERS_CONF \/ MailTo(c, next - 1)' # {} \/ (pc' \in Tossing /\ c = conf'))
              => files'[c].there
    PROVE  Ready(c)'
<1>1. Recorded(before[c], files[c], IF Waits(c) THEN 1 ELSE 0)'
  BY DEF Ready, Recorded
<1>2. Waits(c)' => Announced(files[c], piece)'
  BY DEF Ready, Announced
<1>3. Added(before[c], files[c])' = Added(before[c], files[c])
  BY DEF Added
<1> DEFINE a == Added(before[c], files[c])
           n == Len(a)
<1>4. TextBlocks(a) = Expected(c) /\ n >= Pieces(c) /\ (Unsplit(c) => n = Pieces(c))
  BY DEF Ready, Tally
<1>5. n \in Int
  BY PairSizes
<1>6. TextBlocks(a) = Expected(c)' /\ n >= Pieces(c)' /\ (Unsplit(c)' => n = Pieces(c)')
  <2> HIDE DEF n, a
  <2>1. QED
    BY <1>4, <1>5
<1>7. Tally(before[c], files[c], Expected(c), Pieces(c), Unsplit(c))'
  BY <1>3, <1>6 DEF Tally
<1>8. QED
  BY <1>1, <1>2, <1>7 DEF Ready

\* A conference that is open and waits for a text that then is written.
LEMMA ReadyText ==
    ASSUME NEW c, Ready(c), Pair(before[c], files[c]), UNCHANGED before,
           files'[c] = WriteText(files[c], piece), files[c].there,
           Waits(c), ~Waits(c)', Expected(c)' = Expected(c) + piece,
           Pieces(c) \in Int, Pieces(c)' = Pieces(c) + 1, Unsplit(c)' <=> Unsplit(c)
    PROVE  Ready(c)'
<1> DEFINE g == WriteText(files[c], piece)
           sum == Expected(c)
           n == Pieces(c)
           exact == Unsplit(c)
<1>1. Recorded(before[c], files[c], 1) /\ Announced(files[c], piece)
      /\ Tally(before[c], files[c], sum, n, exact)
  BY DEF Ready
<1>2. n \in Int
  OBVIOUS
<1> HIDE DEF sum, n, exact
<1>3. Recorded(before[c], g, 0) /\ g.there = files[c].there
      /\ Tally(before[c], g, sum + piece, n + 1, exact)
  BY <1>1, <1>2, TextBrings
<1> HIDE DEF g
<1>4. before'[c] = before[c] /\ files'[c] = g
  BY DEF g
<1>5. Recorded(before[c], files[c], IF Waits(c) THEN 1 ELSE 0)'
  BY <1>3, <1>4 DEF Recorded
<1>6. Tally(before[c], files[c], Expected(c), Pieces(c), Unsplit(c))'
  BY <1>3, <1>4 DEF Tally, Added, sum, n, exact
<1>7. files'[c].there
  BY <1>3, <1>4
<1>8. QED
  BY <1>5, <1>6, <1>7 DEF Ready

\* A conference that gets the record of a piece.
LEMMA ReadyRecord ==
    ASSUME NEW c, Ready(c), Pair(before[c], files[c]), UNCHANGED before,
           files'[c] = WriteIndex(files[c], piece', FileSize(files[c].cnf)), files[c].there,
           ~Waits(c), Waits(c)', Expected(c)' = Expected(c),
           Pieces(c)' = Pieces(c), Unsplit(c)' <=> Unsplit(c)
    PROVE  Ready(c)'
<1> DEFINE p == piece'
           g == WriteIndex(files[c], p, FileSize(files[c].cnf))
<1>1. Recorded(before[c], files[c], 0)
  BY DEF Ready
<1>2. /\ Recorded(before[c], g, 1) /\ Announced(g, p) /\ g.cnf = files[c].cnf
      /\ g.there = files[c].there
  <2> HIDE DEF p
  <2>1. QED
    BY <1>1, RecordBrings
<1> HIDE DEF g
<1>3. before'[c] = before[c] /\ files'[c] = g
  BY DEF g
<1>4. Recorded(before[c], files[c], IF Waits(c) THEN 1 ELSE 0)'
  BY <1>2, <1>3 DEF Recorded
<1>5. Announced(files[c], piece)'
  BY <1>2, <1>3 DEF Announced
<1>6. Added(before[c], files[c])' = Added(before[c], files[c])
  BY <1>2, <1>3 DEF Added
<1>7. Tally(before[c], files[c], Expected(c), Pieces(c), Unsplit(c))
  BY DEF Ready
<1>8. Tally(before[c], files[c], Expected(c), Pieces(c), Unsplit(c))'
  BY <1>6, <1>7 DEF Tally
<1>9. files'[c].there
  BY <1>2, <1>3
<1>10. QED
  BY <1>4, <1>5, <1>8, <1>9 DEF Ready

(***************************************************************************)
(* The steps of a load.                                                    *)
(***************************************************************************)
\* Which conferences have the record, or the text, of the current piece.
LEMMA WrittenIs ==
    ASSUME NEW c
    PROVE  /\ pc \notin {"ptext", "more"} => ~Written(c)
           /\ pc = "ptext" => (Written(c) <=> c = conf)
           /\ pc = "more" => (Written(c) <=> c = conf \/ (Message.mine /\ c = PERS_CONF))
           /\ pc \notin {"pindex", "text", "ptext"} => ~Waits(c)
           /\ pc = "pindex" => (Waits(c) <=> c = conf)
           /\ pc = "text" => (Waits(c) <=> c = conf \/ (Message.mine /\ c = PERS_CONF))
           /\ pc = "ptext" => (Waits(c) <=> Message.mine /\ c = PERS_CONF)
  BY DEF Written, Waits

LEMMA OpenRight == ASSUME MailInv, LandInv, RightInv, Open PROVE RightInv'
<1>1. /\ pc = "open" /\ pc' = "header" /\ files' = Opened(files, PERS_CONF)
      /\ UNCHANGED <<packet, tbl, next, before, recs>>
  BY DEF Open, cvars
<1>2. next = 1 /\ before = files
  BY <1>1 DEF LandInv
<1>3. Len(packet) \in Nat
  BY PacketIs
<1>4. ASSUME NEW c \in Confs PROVE Ready(c)'
  <2>1. IsFile(before[c]) /\ files = [d \in Confs |-> files[d]]
    BY DEF MailInv, Files
  <2>2. /\ files'[c].cnf = files[c].cnf /\ files'[c].idx = files[c].idx
        /\ c = PERS_CONF => files'[c].there
    BY <1>1, <2>1 DEF Opened
  <2>3. /\ Recorded(before[c], files'[c], 0)
        /\ \A exact : Tally(before[c], files'[c], 0, 0, exact)
    BY <1>2, <2>1, <2>2, NothingAdded
  <2>4. ~Waits(c)' /\ ~Written(c)' /\ SoFar(c)' = 0
    BY <1>1 DEF Waits, Written, SoFar, Tossing
  <2>5. MailTo(c, next - 1)' = {}
    <3>1. MailTo(c, 0)' = MailTo(c, 0)
      BY <1>1, SameMail
    <3>2. \A i \in Mail(c) : i \in Nat \ {0}
      BY <1>3, MailIs
    <3>3. MailTo(c, 0) = {}
      BY <3>2 DEF MailTo
    <3>4. QED
      BY <1>1, <1>2, <3>1, <3>3
  <2>6. Pieces(c)' = 0
    BY <2>4, <2>5, FS_EmptySet DEF Pieces
  <2>7. Expected(c)' = 0
    <3>1. Arrived(c)' = Arrived(c) /\ Arrived(c) \in Seq(Nat) /\ Len(Arrived(c)) \in Nat
      BY <1>1, <1>3, SameMail, ArrivedIs
    <3>2. UpTo(Arrived(c), 0) = 0
      BY <3>1, UpToNat
    <3>3. UpTo(Arrived(c), next - 1)' = 0
      BY <1>1, <1>2, <3>1, <3>2 DEF UpTo
    <3>4. QED
      BY <2>4, <3>3 DEF Expected
  <2>8. Recorded(before[c], files[c], IF Waits(c) THEN 1 ELSE 0)'
    BY <1>1, <2>3, <2>4 DEF Recorded
  <2>9. Tally(before[c], files[c], Expected(c), Pieces(c), Unsplit(c))'
    BY <1>1, <2>3, <2>6, <2>7 DEF Tally, Added
  <2>10. QED
    BY <1>1, <2>2, <2>4, <2>5, <2>8, <2>9 DEF Ready, Tossing
<1>5. QED
  BY <1>1, <1>2, <1>3, <1>4 DEF RightInv, Tossing

\* What does not change between two messages.
LEMMA BetweenMessages ==
    ASSUME LandInv, UNCHANGED <<packet, tbl, next>>, next <= Len(packet) + 1, NEW c,
           SoFar(c) = 0, SoFar(c)' = 0, ~Written(c), ~Written(c)'
    PROVE  /\ Expected(c)' = Expected(c) /\ Pieces(c)' = Pieces(c) /\ Pieces(c) \in Int
           /\ (Unsplit(c)' <=> Unsplit(c)) /\ MailTo(c, next - 1)' = MailTo(c, next - 1)
<1>1. Arrived(c)' = Arrived(c) /\ \A n : MailTo(c, n)' = MailTo(c, n)
  BY SameMail
<1>2. MailTo(c, next - 1)' = MailTo(c, next - 1)
  BY <1>1
<1>3. next - 1 \in Nat
  BY DEF LandInv
<1>4. Cardinality(MailTo(c, next - 1)) \in Nat
  BY <1>3, MailIs
<1>5. Expected(c)' = Expected(c)
  BY <1>1 DEF Expected, UpTo
<1>6. QED
  BY <1>2, <1>4, <1>5, SameMail DEF Pieces

LEMMA HeaderRight == ASSUME MailInv, LandInv, RightInv, Header PROVE RightInv'
<1>1. /\ pc = "header" /\ next <= Len(packet) /\ pc' = "index" /\ UNCHANGED <<packet, tbl, next, before>>
      /\ files' = Opened(files, conf') /\ rest' = Message.size
      /\ piece' = (IF Message.size + 1 > recs THEN recs' - 1 ELSE Message.size)
      /\ recs' = recs \/ (Reup(Message.size) /\ recs' = Message.size + 1)
  BY DEF Header, cvars
<1>2. /\ Message.size \in Nat /\ Message' = Message /\ recs \in Nat /\ recs >= RECS /\ RECS \in Nat
      /\ next \in Nat /\ Len(packet) \in Nat
  BY <1>1, MessageIs, PacketIs, TossAssumption DEF Message, RightInv, LandInv
<1>3. recs' \in Nat /\ recs' >= RECS
  <2>1. Reup(Message.size) => Message.size + 1 > recs
    BY DEF Reup
  <2> DEFINE size == Message.size
  <2> HIDE DEF size
  <2>2. QED
    BY <1>1, <1>2, <2>1 DEF size
<1>4. /\ rest' \in Int /\ piece' \in Int
      /\ Message.size < RECS => rest' = Message.size /\ piece' = Message.size
  <2> DEFINE size == Message.size
  <2>1. size \in Nat /\ rest' = size /\ piece' = (IF size + 1 > recs THEN recs' - 1 ELSE size)
    BY <1>1, <1>2
  <2> HIDE DEF size
  <2>2. QED
    BY <1>2, <1>3, <2>1 DEF size
<1>5. ASSUME NEW c \in Confs PROVE Ready(c)'
  <2>1. Ready(c) /\ Pair(before[c], files[c])
    BY <1>1, ReadyPair DEF RightInv, Moving
  <2>2. files = [d \in Confs |-> files[d]]
    BY DEF MailInv, Files
  <2>3. /\ files'[c].cnf = files[c].cnf /\ files'[c].idx = files[c].idx
        /\ files[c].there \/ c = conf' => files'[c].there
    BY <1>1, <2>2 DEF Opened
  <2>4. ~Waits(c) /\ ~Waits(c)' /\ ~Written(c) /\ ~Written(c)' /\ SoFar(c) = 0
    BY <1>1 DEF Waits, Written, SoFar, Tossing
  <2>5. SoFar(c)' = 0
    BY <1>1, <1>2, <2>4 DEF SoFar
  <2>6. /\ Expected(c)' = Expected(c) /\ Pieces(c)' = Pieces(c) /\ Pieces(c) \in Int
        /\ (Unsplit(c)' <=> Unsplit(c)) /\ MailTo(c, next - 1)' = MailTo(c, next - 1)
    BY <1>1, <1>2, <2>4, <2>5, BetweenMessages
  <2>7. c = PERS_CONF \/ MailTo(c, next - 1)' # {} => files[c].there
    BY <2>1, <2>6 DEF Ready
  <2>8. Pieces(c)' <= Pieces(c)
    BY <2>6
  <2>9. QED
    BY <1>1, <2>1, <2>3, <2>4, <2>6, <2>7, <2>8, ReadyStays
<1>6. next' <= Len(packet') + 1
  BY <1>1, <1>2
<1>7. QED
  BY <1>1, <1>2, <1>3, <1>4, <1>5, <1>6 DEF RightInv

LEMMA EndOfPacketRight == ASSUME MailInv, LandInv, RightInv, EndOfPacket PROVE RightInv'
<1>1. pc = "header" /\ pc' = "close" /\ UNCHANGED <<tbl, tvars>>
  BY DEF EndOfPacket, cvars
<1>2. UNCHANGED <<packet, next, before, files, piece, recs>>
  BY <1>1 DEF tvars
<1>3. next <= Len(packet) + 1
  BY <1>1 DEF RightInv, Moving
<1>4. ASSUME NEW c \in Confs PROVE Ready(c)'
  <2>1. Ready(c) /\ Pair(before[c], files[c])
    BY <1>1, ReadyPair DEF RightInv, Moving
  <2>2. /\ ~Waits(c) /\ ~Waits(c)' /\ ~Written(c) /\ ~Written(c)' /\ SoFar(c) = 0 /\ SoFar(c)' = 0
        /\ ~(pc' \in Tossing)
    BY <1>1 DEF Waits, Written, SoFar, Tossing
  <2>3. /\ Expected(c)' = Expected(c) /\ Pieces(c)' = Pieces(c) /\ Pieces(c) \in Int
        /\ (Unsplit(c)' <=> Unsplit(c)) /\ MailTo(c, next - 1)' = MailTo(c, next - 1)
    BY <1>1, <1>2, <1>3, <2>2, BetweenMessages
  <2>4. c = PERS_CONF \/ MailTo(c, next - 1)' # {} => files'[c].there
    BY <1>2, <2>1, <2>3 DEF Ready
  <2>5. Pieces(c)' <= Pieces(c)
    BY <2>3
  <2>6. QED
    BY <1>2, <2>1, <2>2, <2>3, <2>4, <2>5, ReadyStays
<1>5. QED
  BY <1>1, <1>2, <1>3, <1>4 DEF RightInv, Tossing, Moving

\* What changes within a message: the text of a piece that is written.
LEMMA WithinMessage ==
    ASSUME LandInv, RightInv, pc \in Tossing, pc' \in Tossing,
           UNCHANGED <<packet, tbl, next, rest>>, NEW c
    PROVE  /\ (Unsplit(c)' <=> Unsplit(c)) /\ MailTo(c, next - 1)' = MailTo(c, next - 1)
           /\ Pieces(c) \in Int
           /\ (Written(c)' <=> Written(c)) => Pieces(c)' = Pieces(c)
           /\ ~Written(c) /\ Written(c)' => Pieces(c)' = Pieces(c) + 1
           /\ ((Written(c)' <=> Written(c)) /\ (Written(c) => piece' = piece)) => Expected(c)' = Expected(c)
           /\ ~Written(c) /\ Written(c)' /\ next \in Mail(c) /\ piece' \in Int
                => Expected(c)' = Expected(c) + piece'
<1>1. /\ Arrived(c)' = Arrived(c) /\ Mail(c)' = Mail(c) /\ \A n : MailTo(c, n)' = MailTo(c, n)
      /\ Message' = Message /\ (Unsplit(c)' <=> Unsplit(c))
  BY SameMail DEF Message
<1>2. MailTo(c, next - 1)' = MailTo(c, next - 1)
  BY <1>1
<1>3. /\ UpTo(Arrived(c), next - 1) \in Nat /\ rest \in Int
      /\ Message.size \in Nat /\ Pieces(c) \in Int
  BY ExpectedInt
<1>4. UpTo(Arrived(c), next - 1)' = UpTo(Arrived(c), next - 1)
  BY <1>1 DEF UpTo
<1>5. Cardinality(MailTo(c, next - 1)) \in Nat
  <2>1. next - 1 \in Nat
    BY DEF LandInv
  <2>2. QED
    BY <2>1, MailIs
<1>6. /\ (Written(c)' <=> Written(c)) => Pieces(c)' = Pieces(c)
      /\ ~Written(c) /\ Written(c)' => Pieces(c)' = Pieces(c) + 1
  BY <1>2, <1>5 DEF Pieces
<1>7. ASSUME Written(c)' <=> Written(c), Written(c) => piece' = piece
      PROVE  Expected(c)' = Expected(c)
  BY <1>1, <1>4, <1>7 DEF Expected, SoFar
<1>8. ASSUME ~Written(c), Written(c)', next \in Mail(c)
      PROVE  Expected(c)' = UpTo(Arrived(c), next - 1) + (Message.size - rest + piece')
             /\ Expected(c) = UpTo(Arrived(c), next - 1) + (Message.size - rest + 0)
  BY <1>1, <1>4, <1>8 DEF Expected, SoFar
<1>9. ASSUME ~Written(c), Written(c)', next \in Mail(c), piece' \in Int
      PROVE  Expected(c)' = Expected(c) + piece'
  <2> DEFINE u == UpTo(Arrived(c), next - 1)
             s == Message.size
             x == Expected(c)
             y == Expected(c)'
             p == piece'
  <2>1. u \in Nat /\ s \in Nat /\ p \in Int /\ y = u + (s - rest + p) /\ x = u + (s - rest + 0)
    BY <1>3, <1>8, <1>9
  <2> HIDE DEF u, s, x, y, p
  <2>2. y = x + p
    BY <1>3, <2>1
  <2>3. QED
    BY <2>2 DEF x, y, p
<1>10. QED
  BY <1>1, <1>2, <1>3, <1>6, <1>7, <1>9

\* The next piece of a message, which is then one that does not fit.
LEMMA PieceRight == ASSUME MailInv, LandInv, RightInv, More, rest' # 0 PROVE RightInv'
<1>1. /\ pc = "more" /\ pc' = "index" /\ rest' = rest - piece
      /\ UNCHANGED <<packet, tbl, next, files, before, conf, piece, recs>>
  BY DEF More, cvars
<1>2. /\ Message' = Message /\ rest \in Int /\ piece \in Int /\ next <= Len(packet) + 1
      /\ Message.size < RECS => rest = Message.size /\ piece = Message.size
  BY <1>1 DEF Message, RightInv, Tossing, Moving
<1>3. rest' \in Int /\ ~(Message.size < RECS)
  <2> DEFINE size == Message.size
  <2>1. size < RECS => rest = size /\ piece = size
    BY <1>2
  <2> HIDE DEF size
  <2>2. QED
    BY <1>1, <1>2, <2>1 DEF size
<1>4. ASSUME NEW c \in Confs PROVE Ready(c)'
  <2>1. Ready(c) /\ Pair(before[c], files[c])
    BY <1>1, ReadyPair DEF RightInv, Moving, Tossing
  <2>2. next \in Mail(c) <=> Written(c)
    BY <1>1, GetsIs, WrittenIs DEF Tossing
  <2>3. ~Waits(c) /\ ~Waits(c)' /\ ~Written(c)'
    BY <1>1 DEF Waits, Written
  <2>4. /\ Mail(c)' = Mail(c) /\ Arrived(c)' = Arrived(c) /\ (Unsplit(c)' <=> Unsplit(c))
        /\ MailTo(c, next - 1)' = MailTo(c, next - 1)
    BY <1>1, SameMail
  <2>5. /\ UpTo(Arrived(c), next - 1) \in Nat /\ Message.size \in Nat /\ Pieces(c) \in Int
    BY <1>1, ExpectedInt DEF Tossing
  <2>6. Expected(c)' = Expected(c)
    <3> DEFINE u == UpTo(Arrived(c), next - 1)
               s == Message.size
    <3>1. /\ Expected(c) = u + (IF Written(c) THEN s - rest + piece ELSE 0)
          /\ Expected(c)' = u + (IF Written(c) THEN s - rest' + 0 ELSE 0)
      BY <1>1, <1>2, <2>2, <2>3, <2>4 DEF Expected, SoFar, UpTo, Tossing
    <3>2. u \in Nat /\ s \in Nat
      BY <2>5
    <3> HIDE DEF u, s
    <3>3. s - rest' + 0 = s - rest + piece
      BY <1>1, <1>2, <3>2
    <3>4. QED
      BY <3>1, <3>3
  <2>7. Pieces(c)' \in Int /\ Pieces(c)' <= Pieces(c) /\ (~Written(c) => Pieces(c)' = Pieces(c))
    <3> DEFINE n == Cardinality(MailTo(c, next - 1))
    <3>1. Pieces(c) = n + (IF Written(c) THEN 1 ELSE 0) /\ Pieces(c)' = n + 0
      BY <2>3, <2>4 DEF Pieces
    <3>2. next - 1 \in Nat
      BY DEF LandInv, Tossing
    <3>3. n \in Nat
      BY <3>2, MailIs
    <3> HIDE DEF n
    <3>4. QED
      BY <3>1, <3>3
  <2>8. Unsplit(c) => ~Written(c)
    BY <1>3, <2>2 DEF Unsplit, Message
  <2>9. c = PERS_CONF \/ MailTo(c, next - 1)' # {} \/ (pc' \in Tossing /\ c = conf')
          => files'[c].there
    BY <1>1, <2>1, <2>4 DEF Ready, Tossing
  <2>10. QED
    BY <1>1, <2>1, <2>3, <2>4, <2>5, <2>6, <2>7, <2>8, <2>9, ReadyStays
<1>5. QED
  BY <1>1, <1>2, <1>3, <1>4 DEF RightInv

\* The end of a message.
LEMMA MessageRight == ASSUME MailInv, LandInv, RightInv, More, rest' = 0 PROVE RightInv'
<1>1. /\ pc = "more" /\ pc' = "header" /\ rest - piece = 0 /\ next' = next + 1
      /\ UNCHANGED <<packet, tbl, files, before, conf, piece, recs>>
  BY DEF More, cvars
<1>2. /\ rest \in Int /\ piece \in Int /\ next \in Nat \ {0} /\ next <= Len(packet)
      /\ Len(packet) \in Nat
  BY <1>1, PacketIs DEF RightInv, Tossing, LandInv
<1>3. rest = piece /\ next' - 1 = next /\ next' <= Len(packet') + 1
  BY <1>1, <1>2
<1>4. ASSUME NEW c \in Confs PROVE Ready(c)'
  <2>1. Ready(c) /\ Pair(before[c], files[c])
    BY <1>1, ReadyPair DEF RightInv, Moving, Tossing
  <2>2. next \in Mail(c) <=> Written(c)
    BY <1>1, GetsIs, WrittenIs DEF Tossing
  <2>3. ~Waits(c) /\ ~Waits(c)' /\ ~Written(c)' /\ SoFar(c)' = 0
    BY <1>1 DEF Waits, Written, SoFar, Tossing
  <2>4. /\ Arrived(c)' = Arrived(c) /\ (Unsplit(c)' <=> Unsplit(c))
        /\ MailTo(c, next - 1)' = MailTo(c, next)
    <3>1. MailTo(c, next - 1)' = MailTo(c, next' - 1)
      BY <1>1, SameMail DEF MailTo, Mail
    <3>2. QED
      BY <1>1, <1>3, <3>1, SameMail
  <2>5. /\ UpTo(Arrived(c), next - 1) \in Nat /\ Message.size \in Nat /\ Pieces(c) \in Int
    BY <1>1, ExpectedInt DEF Tossing
  <2>6. Expected(c)' = Expected(c)
    <3> DEFINE u == UpTo(Arrived(c), next - 1)
               s == Message.size
    <3>1. /\ Expected(c) = u + (IF Written(c) THEN s - rest + piece ELSE 0)
          /\ Expected(c)' = UpTo(Arrived(c), next) + 0
      BY <1>1, <1>3, <2>2, <2>3, <2>4 DEF Expected, SoFar, UpTo, Tossing
    <3>2. u \in Nat /\ s \in Nat
      BY <2>5
    <3>3. Arrived(c) \in Seq(Nat) /\ next \in 1..Len(Arrived(c))
          /\ Arrived(c)[next] = IF Written(c) THEN s ELSE 0
      BY <1>2, <2>2, ArrivedIs DEF Message
    <3>4. UpTo(Arrived(c), next) = u + (IF Written(c) THEN s ELSE 0)
      BY <3>3, UpToNext
    <3> HIDE DEF u, s
    <3>5. s - rest + piece = s /\ u + 0 = u /\ u + s + 0 = u + s
      BY <1>2, <1>3, <3>2
    <3>6. QED
      BY <3>1, <3>2, <3>4, <3>5
  <2>7. Pieces(c)' = Pieces(c)
    <3> DEFINE n == Cardinality(MailTo(c, next - 1))
    <3>1. Pieces(c) = n + (IF Written(c) THEN 1 ELSE 0)
          /\ Pieces(c)' = Cardinality(MailTo(c, next)) + 0
      BY <2>3, <2>4 DEF Pieces
    <3>2. next - 1 \in Nat
      BY <1>2
    <3>3. n \in Nat
      BY <3>2, MailIs
    <3>4. Cardinality(MailTo(c, next)) = IF Written(c) THEN n + 1 ELSE n
      BY <1>2, <2>2, MailNext
    <3> HIDE DEF n
    <3>5. QED
      BY <3>1, <3>3, <3>4
  <2>8. Pieces(c)' <= Pieces(c)
    BY <2>5, <2>7
  <2>9. c = PERS_CONF \/ MailTo(c, next - 1)' # {} \/ (pc' \in Tossing /\ c = conf')
          => files'[c].there
    <3>1. MailTo(c, next) = MailTo(c, next - 1) \/ c = conf \/ c = PERS_CONF
      BY <1>1, <1>2, <2>2, MailNext, WrittenIs
    <3>2. c = PERS_CONF \/ MailTo(c, next - 1) # {} \/ c = conf => files[c].there
      BY <1>1, <2>1 DEF Ready, Tossing
    <3>3. QED
      BY <1>1, <2>4, <3>1, <3>2 DEF Tossing
  <2>10. QED
    BY <1>1, <2>1, <2>3, <2>4, <2>5, <2>6, <2>7, <2>8, <2>9, ReadyStays
<1>5. QED
  BY <1>1, <1>3, <1>4 DEF RightInv, Tossing

\* A conference that a step within a message leaves alone.
LEMMA LeftAlone ==
    ASSUME LandInv, RightInv, pc \in Tossing, pc' \in Tossing,
           UNCHANGED <<packet, tbl, next, rest, before, conf>>, NEW c \in Confs,
           Pair(before[c], files[c]), files'[c] = files[c], Waits(c)' <=> Waits(c),
           Written(c)' <=> Written(c), Waits(c) \/ Written(c) => piece' = piece
    PROVE  Ready(c)'
<1>1. Ready(c)
  BY DEF RightInv, Moving
<1>2. /\ (Unsplit(c)' <=> Unsplit(c)) /\ MailTo(c, next - 1)' = MailTo(c, next - 1)
      /\ Pieces(c) \in Int /\ Pieces(c)' = Pieces(c) /\ Expected(c)' = Expected(c)
  BY WithinMessage
<1>3. Pieces(c)' <= Pieces(c)
  BY <1>2
<1>4. c = PERS_CONF \/ MailTo(c, next - 1)' # {} \/ (pc' \in Tossing /\ c = conf')
        => files'[c].there
  BY <1>1, <1>2 DEF Ready
<1>5. QED
  BY <1>1, <1>2, <1>3, <1>4, ReadyStays

\* The rest of the invariant, within a message.
LEMMA WithinRight ==
    ASSUME RightInv, pc \in Tossing, pc' \in Tossing, UNCHANGED <<packet, next, rest, recs>>,
           piece' = piece \/ piece' = Piece, \A c \in Confs : Ready(c)'
    PROVE  RightInv'
<1>1. /\ rest \in Int /\ piece \in Int /\ next <= Len(packet) + 1
      /\ Message.size < RECS => rest = Message.size /\ piece = Message.size
  BY DEF RightInv, Moving
<1>2. Message' = Message
  BY DEF Message
<1>3. piece' \in Int /\ (Message.size < RECS => piece' = Message.size)
  BY <1>1 DEF Piece
<1>4. QED
  BY <1>1, <1>2, <1>3 DEF RightInv

LEMMA IndexRight == ASSUME MailInv, LandInv, RightInv, Index PROVE RightInv'
<1>1. /\ pc = "index" /\ piece' = Piece /\ pc' = (IF Message.mine THEN "pindex" ELSE "text")
      /\ files' = [files EXCEPT ![conf] = WriteIndex(@, piece', FileSize(@.cnf))]
      /\ UNCHANGED <<packet, tbl, next, before, conf, rest, recs>>
  BY DEF Index, cvars
<1>2. pc \in Tossing /\ pc' \in Tossing /\ Message' = Message
  BY <1>1 DEF Tossing, Message
<1>3. ASSUME NEW c \in Confs PROVE Ready(c)'
  <2>1. Ready(c) /\ Pair(before[c], files[c])
    BY <1>1, ReadyPair DEF RightInv, Moving, Tossing
  <2>2. files'[c] = IF c = conf THEN WriteIndex(files[c], piece', FileSize(files[c].cnf))
                    ELSE files[c]
    BY <1>1 DEF MailInv, Files
  <2>3. ~Waits(c) /\ (Waits(c)' <=> c = conf) /\ ~Written(c) /\ ~Written(c)'
    BY <1>1, <1>2 DEF Waits, Written
  <2>4. CASE c = conf
    <3>1. /\ (Unsplit(c)' <=> Unsplit(c))
          /\ Pieces(c)' = Pieces(c) /\ Expected(c)' = Expected(c)
      BY <1>1, <1>2, <2>3, WithinMessage
    <3>2. files[c].there
      BY <1>2, <2>1, <2>4 DEF Ready
    <3>3. QED
      BY <1>1, <2>1, <2>2, <2>3, <2>4, <3>1, <3>2, ReadyRecord
  <2>5. CASE c # conf
    BY <1>1, <1>2, <2>1, <2>2, <2>3, <2>5, LeftAlone
  <2>6. QED
    BY <2>4, <2>5
<1>4. QED
  BY <1>1, <1>2, <1>3, WithinRight

LEMMA PersIndexRight == ASSUME MailInv, LandInv, RightInv, PersIndex PROVE RightInv'
<1>1. /\ pc = "pindex" /\ pc' = "text"
      /\ files' = [files EXCEPT ![PERS_CONF] = WriteIndex(@, piece', FileSize(@.cnf))]
      /\ UNCHANGED <<packet, tbl, next, before, conf, rest, piece, recs>>
  BY DEF PersIndex, cvars
<1>2. pc \in Tossing /\ pc' \in Tossing /\ Message' = Message /\ Message.mine /\ conf # PERS_CONF
  BY <1>1, LandsThere DEF Tossing, Message, LandInv
<1>3. ASSUME NEW c \in Confs PROVE Ready(c)'
  <2>1. Ready(c) /\ Pair(before[c], files[c])
    BY <1>1, ReadyPair DEF RightInv, Moving, Tossing
  <2>2. files'[c] = IF c = PERS_CONF THEN WriteIndex(files[c], piece', FileSize(files[c].cnf))
                    ELSE files[c]
    BY <1>1 DEF MailInv, Files
  <2>3. /\ (Waits(c) <=> c = conf) /\ (Waits(c)' <=> c = conf \/ c = PERS_CONF)
        /\ ~Written(c) /\ ~Written(c)'
    BY <1>1, <1>2 DEF Waits, Written
  <2>4. CASE c = PERS_CONF
    <3>1. /\ (Unsplit(c)' <=> Unsplit(c))
          /\ Pieces(c)' = Pieces(c) /\ Expected(c)' = Expected(c)
      BY <1>1, <1>2, <2>3, WithinMessage
    <3>2. files[c].there
      BY <2>1, <2>4 DEF Ready
    <3>3. QED
      BY <1>1, <1>2, <2>1, <2>2, <2>3, <2>4, <3>1, <3>2, ReadyRecord
  <2>5. CASE c # PERS_CONF
    BY <1>1, <1>2, <2>1, <2>2, <2>3, <2>5, LeftAlone
  <2>6. QED
    BY <2>4, <2>5
<1>4. QED
  BY <1>1, <1>2, <1>3, WithinRight

LEMMA TextRight == ASSUME MailInv, LandInv, RightInv, Text PROVE RightInv'
<1>1. /\ pc = "text" /\ pc' = (IF Message.mine THEN "ptext" ELSE "more")
      /\ files' = [files EXCEPT ![conf] = WriteText(@, piece)]
      /\ UNCHANGED <<packet, tbl, next, before, conf, rest, piece, recs>>
  BY DEF Text, cvars
<1>2. pc \in Tossing /\ pc' \in Tossing /\ Message' = Message /\ conf # PERS_CONF
  BY <1>1, LandsThere DEF Tossing, Message
<1>3. ASSUME NEW c \in Confs PROVE Ready(c)'
  <2>1. Ready(c) /\ Pair(before[c], files[c])
    BY <1>1, ReadyPair DEF RightInv, Moving, Tossing
  <2>2. files'[c] = IF c = conf THEN WriteText(files[c], piece) ELSE files[c]
    BY <1>1 DEF MailInv, Files
  <2>3. /\ (Waits(c) <=> c = conf \/ (Message.mine /\ c = PERS_CONF))
        /\ (Waits(c)' <=> Message.mine /\ c = PERS_CONF)
        /\ ~Written(c) /\ (Written(c)' <=> c = conf)
    BY <1>1, <1>2 DEF Waits, Written
  <2>4. CASE c = conf
    <3>1. next \in Mail(c) /\ piece \in Int
      BY <1>2, <2>4, GetsIs DEF RightInv
    <3>2. /\ (Unsplit(c)' <=> Unsplit(c)) /\ Pieces(c) \in Int
          /\ Pieces(c)' = Pieces(c) + 1 /\ Expected(c)' = Expected(c) + piece
      BY <1>1, <1>2, <2>3, <2>4, <3>1, WithinMessage
    <3>3. files[c].there
      BY <1>2, <2>1, <2>4 DEF Ready
    <3>4. QED
      BY <1>1, <1>2, <2>1, <2>2, <2>3, <2>4, <3>2, <3>3, ReadyText
  <2>5. CASE c # conf
    BY <1>1, <1>2, <2>1, <2>2, <2>3, <2>5, LeftAlone
  <2>6. QED
    BY <2>4, <2>5
<1>4. QED
  BY <1>1, <1>2, <1>3, WithinRight

LEMMA PersTextRight == ASSUME MailInv, LandInv, RightInv, PersText PROVE RightInv'
<1>1. /\ pc = "ptext" /\ pc' = "more"
      /\ files' = [files EXCEPT ![PERS_CONF] = WriteText(@, piece)]
      /\ UNCHANGED <<packet, tbl, next, before, conf, rest, piece, recs>>
  BY DEF PersText, cvars
<1>2. pc \in Tossing /\ pc' \in Tossing /\ Message' = Message /\ Message.mine /\ conf # PERS_CONF
  BY <1>1, LandsThere DEF Tossing, Message, LandInv
<1>3. ASSUME NEW c \in Confs PROVE Ready(c)'
  <2>1. Ready(c) /\ Pair(before[c], files[c])
    BY <1>1, ReadyPair DEF RightInv, Moving, Tossing
  <2>2. files'[c] = IF c = PERS_CONF THEN WriteText(files[c], piece) ELSE files[c]
    BY <1>1 DEF MailInv, Files
  <2>3. /\ (Waits(c) <=> c = PERS_CONF) /\ ~Waits(c)'
        /\ (Written(c) <=> c = conf) /\ (Written(c)' <=> c = conf \/ c = PERS_CONF)
    BY <1>1, <1>2 DEF Waits, Written
  <2>4. CASE c = PERS_CONF
    <3>1. next \in Mail(c) /\ piece \in Int
      BY <1>2, <2>4, GetsIs DEF RightInv
    <3>2. /\ (Unsplit(c)' <=> Unsplit(c)) /\ Pieces(c) \in Int
          /\ Pieces(c)' = Pieces(c) + 1 /\ Expected(c)' = Expected(c) + piece
      BY <1>1, <1>2, <2>3, <2>4, <3>1, WithinMessage
    <3>3. files[c].there
      BY <2>1, <2>4 DEF Ready
    <3>4. QED
      BY <1>1, <2>1, <2>2, <2>3, <2>4, <3>2, <3>3, ReadyText
  <2>5. CASE c # PERS_CONF
    BY <1>1, <1>2, <2>1, <2>2, <2>3, <2>5, LeftAlone
  <2>6. QED
    BY <2>4, <2>5
<1>4. QED
  BY <1>1, <1>2, <1>3, WithinRight

\* Steps after which no message is being tossed.
LEMMA AwayRight ==
    ASSUME RightInv, recs' = recs \/ recs' = RECS, pc' \notin Moving,
           pc' = "close" => ~(next' > Len(packet'))
    PROVE  RightInv'
<1>1. RECS \in Nat /\ recs \in Nat /\ recs >= RECS
  BY TossAssumption DEF RightInv
<1>2. recs' \in Nat /\ recs' >= RECS
  BY <1>1
<1>3. QED
  BY <1>2 DEF RightInv, Moving

LEMMA StutterRight == ASSUME MailInv, LandInv, RightInv, UNCHANGED vars PROVE RightInv'
<1>1. UNCHANGED <<pc, tbl, packet, next, files, before, conf, rest, piece, recs>>
  BY DEF vars, cvars, tvars
<1>2. Message' = Message
  BY <1>1 DEF Message
<1>3. CASE pc \in Tossing
  <2>1. ASSUME NEW c \in Confs PROVE Ready(c)'
    <3>1. Pair(before[c], files[c])
      BY <1>3, ReadyPair DEF Tossing
    <3>2. (Waits(c)' <=> Waits(c)) /\ (Written(c)' <=> Written(c))
      BY <1>1, <1>2 DEF Waits, Written
    <3>3. QED
      BY <1>1, <1>3, <3>1, <3>2, LeftAlone
  <2>2. QED
    BY <1>1, <1>3, <2>1, WithinRight
<1>4. CASE pc = "header" \/ (pc = "close" /\ next > Len(packet))
  <2>1. next <= Len(packet) + 1
    BY <1>4 DEF RightInv, Moving
  <2>2. ASSUME NEW c \in Confs PROVE Ready(c)'
    <3>1. Ready(c) /\ Pair(before[c], files[c])
      BY <1>4, ReadyPair DEF RightInv, Moving
    <3>2. /\ ~Waits(c) /\ ~Waits(c)' /\ ~Written(c) /\ ~Written(c)' /\ SoFar(c) = 0 /\ SoFar(c)' = 0
          /\ ~(pc' \in Tossing)
      BY <1>1, <1>4 DEF Waits, Written, SoFar, Tossing
    <3>3. /\ Expected(c)' = Expected(c) /\ Pieces(c)' = Pieces(c) /\ Pieces(c) \in Int
          /\ (Unsplit(c)' <=> Unsplit(c)) /\ MailTo(c, next - 1)' = MailTo(c, next - 1)
      BY <1>1, <2>1, <3>2, BetweenMessages
    <3>4. c = PERS_CONF \/ MailTo(c, next - 1)' # {} => files'[c].there
      BY <1>1, <3>1, <3>3 DEF Ready
    <3>5. Pieces(c)' <= Pieces(c)
      BY <3>3
    <3>6. QED
      BY <1>1, <3>1, <3>2, <3>3, <3>4, <3>5, ReadyStays
  <2>3. pc' \notin Tossing
    BY <1>1, <1>4 DEF Tossing
  <2>4. QED
    BY <1>1, <2>1, <2>2, <2>3 DEF RightInv
<1>5. CASE pc \notin Moving /\ ~(pc = "close" /\ next > Len(packet))
  BY <1>1, <1>5, AwayRight
<1>6. QED
  BY <1>3, <1>4, <1>5 DEF Moving

LEMMA InitRight == Init => RightInv
<1>1. SUFFICES ASSUME Init PROVE RightInv
  OBVIOUS
<1>2. pc = "idle" /\ recs = RECS
  BY <1>1 DEF Init
<1>3. QED
  BY <1>2, TossAssumption DEF RightInv, Moving, Tossing

LEMMA RightInvInductive ==
    ASSUME MailInv, LandInv, RightInv, [Next]_vars PROVE RightInv'
<1>1. ASSUME NEW f \in Controls, NEW p \in Packets, Load(f, p) PROVE RightInv'
  <2>1. pc' \in {"count", "refused"} /\ UNCHANGED recs
    BY <1>1 DEF Load, ReadHead
  <2>2. QED
    BY <2>1, AwayRight DEF Moving, Tossing
<1>2. ASSUME ControlStep, UNCHANGED tvars PROVE RightInv'
  <2>1. UNCHANGED recs
    BY <1>2 DEF tvars
  <2>2. pc' \in {"malloc", "nomalloc", "names", "switch", "open", "refused", "count", "idle"}
    BY <1>2 DEF ControlStep, ReadCount, DoMalloc, FailedMalloc, GetConfNames, SwitchToNewBbs
  <2>3. QED
    BY <2>1, <2>2, AwayRight DEF Moving, Tossing
<1>3. ASSUME Refused \/ ReadOnly \/ Close \/ OpenFails \/ ReOpenFails \/ Crash \/ Restart
      PROVE  RightInv'
  <2>1. recs' = recs \/ recs' = RECS
    BY <1>3 DEF Refused, ReadOnly, Close, OpenFails, ReOpenFails, Crash, Restart, tvars
  <2>2. pc' \in {"idle", "crashed"}
    BY <1>3 DEF Refused, ReadOnly, Close, OpenFails, ReOpenFails, Crash, Restart
  <2>3. QED
    BY <2>1, <2>2, AwayRight DEF Moving, Tossing
<1>4. ASSUME Fails PROVE RightInv'
  <2>1. pc' = "close" /\ UNCHANGED <<recs, packet, next>> /\ pc \in Tossing
    BY <1>4 DEF Fails, Tossing
  <2>2. next <= Len(packet) /\ next \in Nat /\ Len(packet) \in Nat
    BY <2>1, PacketIs DEF LandInv
  <2>3. ~(next' > Len(packet'))
    BY <2>1, <2>2
  <2>4. QED
    BY <2>1, <2>3, AwayRight DEF Moving, Tossing
<1>5. QED
  BY <1>1, <1>2, <1>3, <1>4, OpenRight, HeaderRight, EndOfPacketRight, PieceRight, MessageRight,
     IndexRight, PersIndexRight, TextRight, PersTextRight, StutterRight
     DEF Next, Step, TossStep, Fault

\* A conference at the end, as ConfStore sees it.
LEMMA StoreExtended ==
    ASSUME NEW old, NEW f, Pair(old, f), Recorded(old, f, 0), f.there = TRUE
    PROVE  Store(f) = CS!Extended(Store(old), Len(Added(old, f)))
<1> DEFINE m == Len(old.idx)
           n == Len(Added(old, f))
<1>1. Len(f.idx) = m + n /\ m \in Nat /\ n \in Nat
  <2>1. /\ Len(f.cnf) \in Nat /\ Len(old.cnf) \in 0..Len(f.cnf) /\ Len(f.idx) \in Nat
        /\ m \in 0..Len(f.idx) /\ n = Len(f.cnf) - Len(old.cnf)
    BY PairSizes
  <2>2. Len(f.idx) = m + (Len(f.cnf) - Len(old.cnf)) + 0
    BY DEF Recorded
  <2> HIDE DEF m, n
  <2>3. QED
    BY <2>1, <2>2
<1>2. (m = 0 <=> old.idx = <<>>) /\ (Len(f.idx) = 0 <=> f.idx = <<>>)
  <2>1. PICK S : old.idx \in Seq(S)
    BY DEF Pair, IsFile, IsSeq
  <2>2. PICK T : f.idx \in Seq(T)
    BY DEF Pair, IsFile, IsSeq
  <2>3. QED
    BY <2>1, <2>2, EmptySeq
<1>3. m # 0 => f.idx[1] = old.idx[1]
  BY <1>1 DEF Pair, Keeps, Grows
<1>4. m # 0 => Len(f.idx) # 0
  <2> HIDE DEF n
  <2>1. QED
    BY <1>1
<1>5. m = 0 /\ f.idx # <<>> => f.idx[1].last = CS!VIRGINDX
  BY <1>2 DEF Recorded
<1> HIDE DEF m, n
<1>6. (IF f.idx = <<>> THEN CS!VIRGINDX ELSE f.idx[1].last)
      = IF m = 0 THEN CS!VIRGINDX ELSE IF old.idx = <<>> THEN CS!VIRGINDX ELSE old.idx[1].last
  BY <1>2, <1>3, <1>4, <1>5
<1>7. QED
  BY <1>1, <1>6 DEF Store, CS!Extended, m, n

LEMMA RightIsRight == ASSUME MailInv, LandInv, RightInv PROVE TossedRight
<1> SUFFICES ASSUME pc = "close", next > Len(packet), NEW c \in Confs
    PROVE  LET f    == files[c]
               old  == before[c]
               new  == SubSeq(f.cnf, Len(old.cnf) + 1, Len(f.cnf))
               mail == Mail(c)
           IN  /\ TextBlocks(new) = TextBlocks(Arrived(c))
               /\ Len(new) >= Cardinality(mail)
               /\ (\A i \in mail : packet[i].size < RECS) => Len(new) = Cardinality(mail)
               /\ \A k \in DOMAIN new : Describes(f.idx[Len(old.idx) + k], f.cnf, Len(old.cnf) + k)
               /\ mail # {} => Store(f) = CS!Extended(Store(old), Len(new))
  BY Zenon DEF TossedRight
<1> DEFINE f   == files[c]
           old == before[c]
           new == Added(old, f)
<1>1. Ready(c) /\ Pair(old, f) /\ next <= Len(packet) + 1
  BY ReadyPair DEF RightInv
<1>2. next - 1 = Len(packet) /\ Len(packet) \in Nat
  <2>1. Len(packet) \in Nat /\ next \in Nat
    BY PacketIs DEF LandInv
  <2>2. QED
    BY <1>1, <2>1
<1>3. ~Waits(c) /\ ~Written(c) /\ SoFar(c) = 0
  BY DEF Waits, Written, SoFar, Tossing
<1>4. MailTo(c, next - 1) = Mail(c) /\ Cardinality(Mail(c)) \in Nat
  <2>1. Mail(c) \subseteq 1..Len(packet) /\ Cardinality(MailTo(c, Len(packet))) \in Nat
    BY <1>2, MailIs
  <2>2. MailTo(c, Len(packet)) = Mail(c)
    BY <1>2, <2>1 DEF MailTo
  <2>3. QED
    BY <1>2, <2>1, <2>2
<1>5. Pieces(c) = Cardinality(Mail(c))
  BY <1>3, <1>4 DEF Pieces
<1>6. Expected(c) = TextBlocks(Arrived(c))
  <2>1. Arrived(c) \in Seq(Nat) /\ Len(Arrived(c)) = Len(packet)
    BY ArrivedIs
  <2>2. UpTo(Arrived(c), Len(packet)) = TextBlocks(Arrived(c))
        /\ TextBlocks(Arrived(c)) \in Nat
    BY <1>2, <2>1, UpToNat, BlocksNat
  <2>3. Expected(c) = TextBlocks(Arrived(c)) + 0
    BY <1>2, <1>3, <2>2 DEF Expected
  <2>4. QED
    BY <2>2, <2>3
<1>7. /\ Recorded(old, f, 0)
      /\ Tally(old, f, TextBlocks(Arrived(c)), Cardinality(Mail(c)), Unsplit(c))
  BY <1>1, <1>3, <1>5, <1>6 DEF Ready
<1>8. \A k \in DOMAIN new : Describes(f.idx[Len(old.idx) + k], f.cnf, Len(old.cnf) + k)
  <2>1. DOMAIN new = 1..Len(new) /\ Len(new) = Len(f.cnf) - Len(old.cnf)
    BY <1>1, PairSizes, SeqLength
  <2>2. QED
    BY <1>7, <2>1 DEF Recorded
<1>9. Mail(c) # {} => Store(f) = CS!Extended(Store(old), Len(new))
  <2>1. Mail(c) # {} => f.there = TRUE
    BY <1>1, <1>4 DEF Ready
  <2>2. QED
    BY <1>1, <1>7, <2>1, StoreExtended
<1>10. new = SubSeq(f.cnf, Len(old.cnf) + 1, Len(f.cnf))
  BY DEF Added
<1>11. QED
  BY <1>7, <1>8, <1>9, <1>10 DEF Tally, Unsplit

(* MkIndex() (mkindex.c), whatever the packet, the table and the buffer,   *)
(* and however often loads have failed before: at the end of the packet    *)
(* each conference has got the texts that are for it, split or not, and    *)
(* the records that say where they are, and is what ConfStore says of a    *)
(* conference that is extended.                                            *)
THEOREM TossIsRight == Spec => []TossedRight
<1>1. ASSUME MailInv /\ TableInv /\ LandInv /\ RightInv, [Next]_vars
      PROVE  (MailInv /\ TableInv /\ LandInv /\ RightInv)'
  BY <1>1, MailInvInductive, TableInvInductive, LandInvInductive, RightInvInductive
<1>2. Init => MailInv /\ TableInv /\ LandInv /\ RightInv
  BY InitMail, InitTableInv, InitLand, InitRight
<1>3. MailInv /\ TableInv /\ LandInv /\ RightInv => TossedRight
  BY RightIsRight
<1>4. QED
  BY <1>1, <1>2, <1>3, PTL DEF Spec
=============================================================================
