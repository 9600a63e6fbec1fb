------------------------------- MODULE Control -------------------------------
(***************************************************************************)
(* Reading control.dat (RdCn_* of qlib.c): the table of conferences is     *)
(* built in arrays of its own (t_ConfActive, t_ConfNumbers, t_ConfNames)   *)
(* and takes the place of the old table only when it is complete.          *)
(*                                                                         *)
(* A control.dat is [head, n, confs]: whether its first lines and the      *)
(* user's name are there, the number on its conference line, and the       *)
(* conference numbers that follow, fewer than promised when it is cut      *)
(* short.  Blocks of memory are natural numbers; free() makes one          *)
(* available to malloc() again.                                            *)
(***************************************************************************)
EXTENDS Integers, Sequences, FiniteSets

CONSTANTS
    MAXCONF,     \* the largest index a table may have
    Controls,    \* the control.dat files that may arrive
    Faults       \* what may go wrong in a run: sets of "memory" (malloc()
                 \* fails), "open", "read", "write", "crash"

ASSUME ControlAssumption ==
    /\ MAXCONF \in Nat
    /\ \A f \in Controls : f.n \in Int /\ f.n >= -1 /\ f.confs \in Seq(Int)
    /\ Faults \subseteq SUBSET {"memory", "open", "read", "write", "crash"}

PERS_CONF == 9000
REPL_CONF == 9001
NoBlock   == 0
NoArrays  == [active |-> NoBlock, numbers |-> NoBlock, names |-> NoBlock]

VARIABLES
    pc,      \* the function that runs next; "idle" and "crashed" are at rest
    ctl,     \* the control.dat being read
    tbl,     \* LastConf, ConfNumbers and the blocks of the arrays
    tmp,     \* the same of the table being built
    heap,    \* the blocks allocated
    faults   \* what goes wrong in this run

cvars == <<ctl, tbl, tmp, heap, faults>>

NoTable == [last |-> -1, numbers |-> <<>>, at |-> NoArrays]
BlocksOf(at) == {at.active, at.numbers, at.names} \ {NoBlock}
Blocks(t) == BlocksOf(t.at)

\* Conference numbers of a table, with the two that every table ends with.
Numbers(t) == {t.numbers[i] : i \in DOMAIN t.numbers}
WithOwn(confs) == confs \o <<REPL_CONF, PERS_CONF>>

\* malloc() returns a block that is not in use.
Block(h) == CHOOSE b \in 1..(Cardinality(h) + 1) : b \notin h

\* The arrays after malloc() was called for them in order, got times with success.
Allocated(h, got) ==
    LET b1 == Block(h)  b2 == Block(h \cup {b1})  b3 == Block(h \cup {b1, b2})
    IN  [active  |-> IF got >= 1 THEN b1 ELSE NoBlock,
         numbers |-> IF got >= 2 THEN b2 ELSE NoBlock,
         names   |-> IF got >= 3 THEN b3 ELSE NoBlock]

\* RdCn_main_init(): the empty table, of one conference.
EmptyTable == [last |-> 0, numbers |-> <<0>>, at |-> Allocated({}, 3)]

ControlInit ==
    /\ ctl = CHOOSE f \in Controls : TRUE   \* none has been read yet
    /\ tbl = EmptyTable
    /\ heap = Blocks(tbl)
    /\ tmp = NoTable
    /\ faults \in Faults

\* RdCn_ReadControl(): the lines before the number of conferences.
ReadHead(f) ==
    /\ ctl' = f
    /\ pc' = IF f.head THEN "count" ELSE "refused"
    /\ UNCHANGED <<tbl, tmp, heap, faults>>

\* RdCn_Fin(): too large a number is refused with t_LastConf set to it.
ReadCount ==
    /\ pc = "count"
    /\ tmp' = [tmp EXCEPT !.last = ctl.n + 2]
    /\ pc' = IF ctl.n + 2 \in 0..MAXCONF THEN "malloc" ELSE "refused"
    /\ UNCHANGED <<ctl, tbl, heap, faults>>

\* Mutant of FreeTemp: RdCn_test_failed_malloc() only forgets the arrays.
FreeTempForget == heap' = heap /\ tmp' = NoTable

\* The arrays of the new table are freed and forgotten.
FreeTemp == heap' = heap \ Blocks(tmp) /\ tmp' = NoTable

\* RdCn_do_malloc(): the first of three allocations to fail ends it.
DoMalloc ==
    /\ pc = "malloc"
    /\ \E got \in IF "memory" \in faults THEN 0..3 ELSE {3} :
          LET at == Allocated(heap, got)
          IN  /\ tmp' = [tmp EXCEPT !.at = at]
              /\ heap' = heap \cup BlocksOf(at)
              /\ pc' = IF got = 3 THEN "names" ELSE "nomalloc"
    /\ UNCHANGED <<ctl, tbl, faults>>

\* Mutant of FailedMalloc: it is tried again, without memory, for ever.
FailedMallocRetry == pc = "nomalloc" /\ pc' = "malloc" /\ FreeTemp /\ UNCHANGED <<ctl, tbl, faults>>

\* RdCn_test_failed_malloc(): the file is refused.
FailedMalloc == pc = "nomalloc" /\ pc' = "refused" /\ FreeTemp /\ UNCHANGED <<ctl, tbl, faults>>

\* RdCn_get_conf_names(): a line short or a negative number refuses the file.
GetConfNames ==
    LET count == ctl.n + 1
    IN  /\ pc = "names"
        /\ IF count <= Len(ctl.confs) /\ \A i \in 1..count : ctl.confs[i] >= 0
           THEN /\ tmp' = [tmp EXCEPT !.numbers = WithOwn(SubSeq(ctl.confs, 1, count))]
                /\ pc' = "switch" /\ UNCHANGED heap
           ELSE FreeTemp /\ pc' = "refused"
        /\ UNCHANGED <<ctl, tbl, faults>>

\* RdCn_switch_to_new_bbs(): the old arrays go, the new ones take their place.
SwitchToNewBbs ==
    /\ pc = "switch"
    /\ heap' = heap \ Blocks(tbl)
    /\ tbl' = tmp
    /\ tmp' = NoTable
    /\ pc' = "open"
    /\ UNCHANGED <<ctl, faults>>

ControlStep == ReadCount \/ DoMalloc \/ FailedMalloc \/ GetConfNames \/ SwitchToNewBbs

(***************************************************************************)
(* The table in use is whole at every moment, and memory is in order:      *)
(* each block belongs to one array of one of the two tables, none is       *)
(* lost, and none is used after it was freed, whichever of the             *)
(* allocations or lines fails.                                             *)
(***************************************************************************)
TableWhole ==
    /\ Blocks(tbl) \cup Blocks(tmp) = heap
    /\ Blocks(tbl) \cap Blocks(tmp) = {}
    /\ Cardinality(Blocks(tbl)) = 3
    /\ Len(tbl.numbers) = tbl.last + 1
    /\ tbl.last <= MAXCONF
=============================================================================
