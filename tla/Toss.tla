-------------------------------- MODULE Toss --------------------------------
(***************************************************************************)
(* Loading a packet (mkindex.c, after Control): messages.dat is read       *)
(* message by message and written to the conferences of the table, with a  *)
(* record in the index first, the text after it, and the same again in the *)
(* personal conference for mail to the user.  A message that does not fit  *)
(* the buffer is split into several.                                       *)
(*                                                                         *)
(* A message of a packet is [conf, size, mine]: the conference number it   *)
(* names, its text in blocks, whether it is for the user.  A conference is *)
(* [there, cnf, idx]: cnf has the size of the text of each message, idx    *)
(* one record per message.  Offsets are in blocks, a header is one block.  *)
(***************************************************************************)
EXTENDS Control, SequencesExt

CONSTANTS
    Packets,     \* the messages.dat files that may arrive
    RECS,        \* blocks of the message buffer at the start
    MAXRECS,     \* blocks it may grow to (maxbuf)
    MaxLoads     \* bound on the number of loads, for TLC

\* No board numbers a conference like the personal one.
ASSUME TossAssumption ==
    /\ RECS \in Nat /\ RECS > 1 /\ MAXRECS \in Nat
    /\ Packets \subseteq Seq([conf : Nat \ {PERS_CONF}, size : Nat, mine : BOOLEAN])
    /\ \A f \in Controls : \A i \in DOMAIN f.confs : f.confs[i] # PERS_CONF

VARIABLES
    packet,      \* the messages.dat of this load
    next,        \* the message of it that is being tossed
    files,       \* the conferences on disk, as stdio has written them
    before,      \* the conferences when this load began
    conf,        \* the open conference, -1 before the first
    rest, piece, \* TotBlocs, NbBlocs: blocks left, and in the current piece
    recs,        \* blocks of the message buffer
    loads, failures,
    torn         \* a crash has cut off a load

tvars == <<packet, next, files, before, conf, rest, piece, recs, loads, failures, torn>>
vars  == <<pc, cvars, tvars>>

CS == INSTANCE ConfStore

Confs    == UNION {{f.confs[i] : i \in DOMAIN f.confs} : f \in Controls}
            \cup {0, PERS_CONF, REPL_CONF}
NoFile   == [there |-> FALSE, cnf |-> <<>>, idx |-> <<>>]
Message  == packet[next]

\* Mutant of FileSize: the header of a message is not counted.
TextSize(cnf) == FoldLeft(LAMBDA sum, size : sum + size, 0, cnf)

\* The end of the messages of a conference: ftell() after SEEK_END.
FileSize(cnf) == FoldLeft(LAMBDA sum, size : sum + size + 1, 0, cnf)

\* Mutant of WriteIndex: the record of a new conference is not virgin.
WriteIndexRead(f, size, offset) ==
    [f EXCEPT !.idx = Append(@, [off |-> offset, size |-> size, num |-> Len(@), last |-> 0])]

\* WriteIndex(): record 0 says that nothing has been read.
WriteIndex(f, size, offset) ==
    [f EXCEPT !.idx = Append(@, [off |-> offset, size |-> size, num |-> Len(@),
                                 last |-> IF @ = <<>> THEN CS!VIRGINDX ELSE 0])]
WriteText(f, size) == [f EXCEPT !.cnf = Append(@, size)]

\* MkInReOpen(): a number that is not in the table loses its high byte, and if
\* that does not help the message goes to the first conference.
Landing(c) ==
    LET low == c % 256
    IN  IF c \in Numbers(tbl) THEN c
        ELSE IF low \in Numbers(tbl) THEN low ELSE tbl.numbers[1]

\* Mutant of Opened: a conference is created anew.
OpenedAnew(fs, c) == [fs EXCEPT ![c] = [there |-> TRUE, cnf |-> <<>>, idx |-> <<>>]]

\* OpenCon(): both files are there, with what they had.
Opened(fs, c) == [fs EXCEPT ![c] = [there |-> TRUE, cnf |-> @.cnf, idx |-> @.idx]]

(***************************************************************************)
(* The start of a load, and MkInOpen() after control.dat was read.         *)
(***************************************************************************)
Load(f, p) ==
    /\ pc = "idle" /\ loads < MaxLoads
    /\ ReadHead(f)
    /\ packet' = p
    /\ next' = 1
    /\ before' = files
    /\ loads' = loads + 1
    /\ UNCHANGED <<files, conf, rest, piece, recs, failures, torn>>

\* control.dat is refused: MkIndex() does nothing, and reports success.
Refused ==
    /\ pc = "refused" /\ pc' = "idle"
    /\ UNCHANGED <<cvars, tvars>>

\* rev reads the control.dat of a board and tosses nothing.
ReadOnly ==
    /\ pc = "open" /\ pc' = "idle"
    /\ UNCHANGED <<cvars, tvars>>

Open ==
    /\ pc = "open"
    /\ files' = Opened(files, PERS_CONF)
    /\ conf' = -1
    /\ pc' = "header"
    /\ UNCHANGED <<cvars, packet, next, before, rest, piece, recs, loads, failures, torn>>

\* The same when messages.dat or a personal file cannot be opened.
OpenFails ==
    /\ pc = "open" /\ "open" \in faults
    /\ pc' = "idle"
    /\ files' \in {files, Opened(files, PERS_CONF)}
    /\ UNCHANGED <<cvars, packet, next, before, conf, rest, piece, recs, loads, failures, torn>>

(***************************************************************************)
(* MkIndex(): one message.                                                 *)
(***************************************************************************)
\* reup() grows the buffer to hold the message, up to its limit.
Reup(size) == size + 1 > recs /\ size + 1 <= MAXRECS

\* The header is read, its conference opened, the buffer enlarged.
Header ==
    /\ pc = "header" /\ next <= Len(packet)
    /\ LET c     == IF Message.conf = conf THEN conf ELSE Landing(Message.conf)
           size  == Message.size
           grown == IF Reup(size) THEN {size + 1} \cup (IF "memory" \in faults THEN {recs} ELSE {})
                    ELSE {recs}
       IN  /\ conf' = c
           /\ files' = Opened(files, c)
           /\ recs' \in grown
           /\ rest' = size
           /\ piece' = IF size + 1 > recs THEN recs' - 1 ELSE size
    /\ pc' = "index"
    /\ UNCHANGED <<cvars, packet, next, before, loads, failures, torn>>

\* OpenCon() fails for a conference: messages.dat and the personal files are
\* closed on the spot, and once more in MkInClose(), which ends the process.
ReOpenFails ==
    /\ pc = "header" /\ "open" \in faults
    /\ next <= Len(packet) /\ Message.conf # conf
    /\ pc' = "crashed"
    /\ UNCHANGED <<cvars, tvars>>

\* MkIn_calc_block_count(): the size of the next piece.
Piece == IF rest < piece THEN rest ELSE piece

\* MkInLoopRd(): the record of the piece, and of its personal copy.
Index ==
    /\ pc = "index"
    /\ piece' = Piece
    /\ files' = [files EXCEPT ![conf] = WriteIndex(@, Piece, FileSize(@.cnf))]
    /\ pc' = IF Message.mine THEN "pindex" ELSE "text"
    /\ UNCHANGED <<cvars, packet, next, before, conf, rest, recs, loads, failures, torn>>

PersIndex ==
    /\ pc = "pindex"
    /\ files' = [files EXCEPT ![PERS_CONF] = WriteIndex(@, piece, FileSize(@.cnf))]
    /\ pc' = "text"
    /\ UNCHANGED <<cvars, packet, next, before, conf, rest, piece, recs, loads, failures, torn>>

\* The text is read and written, and written to the personal conference.
Text ==
    /\ pc = "text"
    /\ files' = [files EXCEPT ![conf] = WriteText(@, piece)]
    /\ pc' = IF Message.mine THEN "ptext" ELSE "more"
    /\ UNCHANGED <<cvars, packet, next, before, conf, rest, piece, recs, loads, failures, torn>>

PersText ==
    /\ pc = "ptext"
    /\ files' = [files EXCEPT ![PERS_CONF] = WriteText(@, piece)]
    /\ pc' = "more"
    /\ UNCHANGED <<cvars, packet, next, before, conf, rest, piece, recs, loads, failures, torn>>

\* What is left of the message is the next piece.
More ==
    /\ pc = "more"
    /\ rest' = rest - piece
    /\ IF rest' = 0 THEN next' = next + 1 /\ pc' = "header" ELSE next' = next /\ pc' = "index"
    /\ UNCHANGED <<cvars, packet, files, before, conf, piece, recs, loads, failures, torn>>

\* A text that is missing in messages.dat, or a write that fails.
Fails ==
    /\ \/ "read" \in faults /\ pc = "text" /\ piece > 0
       \/ "write" \in faults /\ pc \in {"index", "pindex", "text", "ptext"}
    /\ failures' = failures + 1
    /\ pc' = "close"
    /\ UNCHANGED <<cvars, packet, next, files, before, conf, rest, piece, recs, loads, torn>>

EndOfPacket ==
    /\ pc = "header" /\ next > Len(packet)
    /\ pc' = "close"
    /\ UNCHANGED <<cvars, tvars>>

\* MkInClose(): a personal conference without a message is removed.
Close ==
    /\ pc = "close" /\ pc' = "idle"
    /\ files' = IF files[PERS_CONF].cnf = <<>> THEN [files EXCEPT ![PERS_CONF] = NoFile]
                ELSE files
    /\ UNCHANGED <<cvars, packet, next, before, conf, rest, piece, recs, loads, failures, torn>>

(***************************************************************************)
(* The process dies.  Of the files it has open, what stdio had not written *)
(* is lost, each file at its own point; the next start has an empty table. *)
(***************************************************************************)
Cut(f, old, n, m) ==
    [there |-> f.there, cnf |-> SubSeq(f.cnf, 1, Len(old.cnf) + n),
     idx |-> SubSeq(f.idx, 1, Len(old.idx) + m)]
New(f, old) == (0..(Len(f.cnf) - Len(old.cnf))) \X (0..(Len(f.idx) - Len(old.idx)))

Crash ==
    /\ "crash" \in faults /\ pc \in {"header", "index", "pindex", "text", "ptext", "more", "close"}
    /\ pc' = "crashed"
    /\ torn' = TRUE
    /\ \E c \in {IF conf < 0 THEN PERS_CONF ELSE conf} :
       \E a \in New(files[c], before[c]), p \in New(files[PERS_CONF], before[PERS_CONF]) :
          files' = [d \in Confs |->
                       LET f == files[d]
                       IN  IF d = PERS_CONF THEN Cut(f, before[d], p[1], p[2])
                           ELSE IF d = c THEN Cut(f, before[d], a[1], a[2]) ELSE f]
    /\ UNCHANGED <<cvars, packet, next, before, conf, rest, piece, recs, loads, failures>>

Restart ==
    /\ pc = "crashed" /\ pc' = "idle"
    /\ tbl' = EmptyTable /\ heap' = Blocks(tbl') /\ tmp' = NoTable
    /\ recs' = RECS
    /\ UNCHANGED <<ctl, faults, packet, next, files, before, conf, rest, piece, loads, failures, torn>>

Init ==
    /\ ControlInit
    /\ pc = "idle"
    /\ packet = <<>> /\ next = 1
    /\ files = [c \in Confs |-> NoFile] /\ before = files
    /\ conf = -1 /\ rest = 0 /\ piece = 0 /\ recs = RECS
    /\ loads = 0 /\ failures = 0 /\ torn = FALSE

TossStep == Refused \/ ReadOnly \/ Open \/ Header \/ Index \/ PersIndex \/ Text \/ PersText
            \/ More \/ EndOfPacket \/ Close
Step == (ControlStep /\ UNCHANGED tvars) \/ TossStep
Fault == OpenFails \/ ReOpenFails \/ Fails \/ Crash
Next == Step \/ Fault \/ Restart \/ \E f \in Controls, p \in Packets : Load(f, p)
Spec == Init /\ [][Next]_vars
FairSpec == Spec /\ WF_vars(Step)

(***************************************************************************)
(* Properties.                                                             *)
(***************************************************************************)
\* A conference as ConfStore sees it.
Store(f) == [there |-> f.there, n |-> Len(f.idx), killed |-> {},
             last |-> IF f.idx = <<>> THEN CS!VIRGINDX ELSE f.idx[1].last]

\* The messages of the packet that belong in c.
Mail(c) == {i \in DOMAIN packet : IF c = PERS_CONF THEN packet[i].mine
                                  ELSE Landing(packet[i].conf) = c}
\* Index record r is that of message j, behind the texts and headers before it.
Describes(r, cnf, j) ==
    /\ r.size = cnf[j]
    /\ r.off = FoldLeft(LAMBDA sum, size : sum + size + 1, 0, SubSeq(cnf, 1, j - 1))
TextBlocks(cnf) == FoldLeft(LAMBDA sum, size : sum + size, 0, cnf)
\* What the messages of the packet bring to c, one by one.
Arrived(c) == [i \in DOMAIN packet |-> IF i \in Mail(c) THEN packet[i].size ELSE 0]

(* A toss that comes to its end has put every message of the packet into   *)
(* its conference (a number that is not in the table included) and into    *)
(* the personal one if it is for the user: split messages add up to what   *)
(* arrived, nothing is split that need not be, the new records say where   *)
(* the new texts are, also behind what a failure or a crash has left, and  *)
(* each conference is ConfStore!Extended by them, the pointer of a new one *)
(* virgin.                                                                 *)
TossedRight ==
    pc = "close" /\ next > Len(packet) =>
        \A c \in Confs :
            LET f    == files[c]
                old  == before[c]
                new  == SubSeq(f.cnf, Len(old.cnf) + 1, Len(f.cnf))
                mail == Mail(c)
            IN  /\ TextBlocks(new) = TextBlocks(Arrived(c))
                /\ Len(new) >= Cardinality(mail)
                /\ (\A i \in mail : packet[i].size < RECS) => Len(new) = Cardinality(mail)
                /\ \A k \in DOMAIN new : Describes(f.idx[Len(old.idx) + k], f.cnf, Len(old.cnf) + k)
                /\ mail # {} => Store(f) = CS!Extended(Store(old), Len(new))

(* Whatever fails, and however often the packet is tossed again after it,  *)
(* no message becomes unreachable: each has a record with its offset and   *)
(* size, records are numbered by their position, and an index is longer    *)
(* than its conference by at most one record for each toss that failed.    *)
IndexCovers ==
    pc = "idle" /\ ~torn =>
        \A c \in Confs :
            LET f == files[c]
            IN  /\ \A j \in DOMAIN f.cnf : \E r \in ToSet(f.idx) : Describes(r, f.cnf, j)
                /\ \A k \in DOMAIN f.idx : f.idx[k].num = k - 1
                /\ Len(f.idx) - Len(f.cnf) \in 0..failures

(* Mail of earlier loads outlives a load, also one that fails or crashes.  *)
OldMailKept ==
    [][\A c \in Confs : Len(files[c].cnf) > 0 =>
          IsPrefix(before'[c].cnf, files'[c].cnf) /\ IsPrefix(before'[c].idx, files'[c].idx)]_vars

(* Every load ends, in the command shell or with the process: the split of *)
(* a message that no buffer holds comes to its last piece, and a failed    *)
(* allocation or a torn file does not start over.                          *)
LoadEnds == pc # "idle" ~> pc \in {"idle", "crashed"}
=============================================================================
