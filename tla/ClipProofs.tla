----------------------------- MODULE ClipProofs -----------------------------
(***************************************************************************)
(* What holds of clip() for conferences of any length: its variables stay  *)
(* in their types, and, when no read and no close goes wrong unnoticed, no *)
(* message that was to be kept is ever off the disk.                       *)
(***************************************************************************)
EXTENDS Clip, Induct, TLAPS

\* What a conference handed to clip() is made of.
LEMMA OldType ==
  ASSUME NEW c \in Olds
  PROVE  /\ c.n \in Nat /\ c.n \in 0 .. MaxMsgs
         /\ \A k \in 1 .. c.n : c.size[k] \in Nat
         /\ c.killed \subseteq 1 .. c.n /\ c.last \in Int
  <1>1. PICK n \in 0 .. MaxMsgs :
          c \in [n : {n}, size : [1 .. n -> Sizes], killed : SUBSET (1 .. n),
                 last : -1 .. (IF n = 0 THEN -1 ELSE n)]
    BY DEF Olds
  <1>2. c.n = n /\ c.size \in [1 .. n -> Sizes] /\ c.killed \subseteq 1 .. n
    BY <1>1
  <1>3. c.last \in Int
    BY <1>1, ClipAssumption
  <1>4. c.n \in Nat /\ c.n \in 0 .. MaxMsgs
    BY <1>1, <1>2, ClipAssumption
  <1>5. \A k \in 1 .. c.n : c.size[k] \in Nat
    BY <1>2, ClipAssumption
  <1> QED
    BY <1>2, <1>3, <1>4, <1>5

\* The first message to keep is message Start + 1.
LEMMA StartType ==
  ASSUME old \in Olds, cmd \in {"C", "T"}, trunc \in 0 .. MaxMsgs
  PROVE  Start \in Int /\ (cmd = "C" \/ trunc < old.n => Start \in 0 .. old.n)
  BY OldType, ClipAssumption DEF Start

\* A step preserves the types.
LEMMA TypeStep == TypeOK /\ [Next]_vars => TypeOK'
  <1> SUFFICES ASSUME TypeOK, [Next]_vars PROVE TypeOK'
    OBVIOUS
  <1>1. /\ old \in Olds /\ cmd \in {"C", "T"} /\ trunc \in 0 .. MaxMsgs
        /\ old.n \in Nat /\ \A k \in 1 .. old.n : old.size[k] \in Nat
        /\ old.killed \subseteq 1 .. old.n /\ old.last \in Int
        /\ Start \in Int
    BY OldType, StartType, ClipAssumption DEF TypeOK
  <1>2. input' = input
    BY DEF Next, Step, OpenFails, OpenForNothing, Open, SkipKilled, Copy,
           CopyFails, EndLoop, Abort, Close, UnlinkCnf, RenameCnf, UnlinkIdx,
           RenameIdx, Die, vars, input
  <1>3. old' = old /\ cmd' = cmd /\ trunc' = trunc /\ Start' = Start
    BY <1>2 DEF input, Start
  <1>4. CASE Open
    <2>1. Start \in 0 .. old.n /\ old.n > 0 /\ (cmd = "T" => Start < old.n)
      BY <1>1, <1>4 DEF Open, Start, TypeOK
    <2>2. last' \in Nat /\ at' \in Nat /\ at' \in 1 .. old.n + 1
      BY <1>1, <1>4, <2>1 DEF Open
    <2> QED
      BY <1>3, <1>4, <2>2 DEF Open, TypeOK, Labels
  <1>5. CASE SkipKilled
    BY <1>1, <1>3, <1>5 DEF SkipKilled, TypeOK, files
  <1>6. CASE Copy
    <2>1. at \in 1 .. old.n /\ at \in Nat /\ old.size[at] \in Nat
      <3>1. at \in Nat /\ at >= 1 /\ at <= old.n
        BY <1>1, <1>6 DEF Copy, TypeOK
      <3> QED
        BY <1>1, <3>1
    <2>2. out' \in Seq([msg : Nat, size : Nat])
      BY <1>6, <2>1 DEF Copy, TypeOK, Garbage
    <2>3. recs' \in Seq([off : Nat, size : Nat]) /\ off' \in Nat
      BY <1>6, <2>1 DEF Copy, TypeOK
    <2> QED
      BY <1>1, <1>3, <1>6, <2>2, <2>3 DEF Copy, TypeOK, files
  <1>7. CASE \/ OpenFails \/ OpenForNothing \/ CopyFails \/ EndLoop \/ Abort \/ Close
             \/ UnlinkCnf \/ RenameCnf \/ UnlinkIdx \/ RenameIdx \/ Die \/ UNCHANGED vars
    <2>1. work' = work /\ pc' \in Labels /\ (pc' = "loop" => pc = "loop")
      BY <1>7 DEF OpenFails, OpenForNothing, CopyFails, EndLoop, Abort, Close,
                  UnlinkCnf, RenameCnf, UnlinkIdx, RenameIdx, Die, vars, work,
                  TypeOK, Labels
    <2> QED
      BY <1>3, <2>1 DEF TypeOK, work
  <1> QED
    BY <1>4, <1>5, <1>6, <1>7 DEF Next, Step

\* Every variable of clip() stays in its type.
THEOREM TypeCorrect == Spec => []TypeOK
  <1>1. Init => TypeOK
    BY ClipAssumption DEF Init, TypeOK, Labels
  <1> QED
    BY <1>1, TypeStep, PTL DEF Spec

----------------------------------------------------------------------------
(* KeptOnDisk needs to know where the survivors are at each step: in the    *)
(* old .cnf until it is unlinked, in out up to the record read next, and    *)
(* then all of them in the file that out becomes.                           *)

Written(k) == \E j \in 1 .. Len(out) : out[j].msg = k

AllWritten == {"close", "unlink cnf", "rename cnf", "unlink idx", "rename idx", "done"}
CnfMoved   == {"unlink idx", "rename idx", "done"}

Where ==
  /\ pc \notin {"rename cnf", "crashed"} \cup CnfMoved => cnf = OldCnf(old)
  /\ pc = "loop" => \A k \in Kept : k < at => Written(k)
  /\ pc \in AllWritten => \A k \in Kept : Written(k)
  /\ pc \in {"unlink cnf", "rename cnf"} => tmc = out
  /\ pc \in CnfMoved /\ out # <<>> => cnf = out
  /\ pc = "crashed" => KeptOnDisk

IInv == TypeOK /\ Where

\* A table over 1 .. n is a sequence of length n.
LEMMA TableIsSeq ==
  ASSUME NEW S, NEW n \in Nat, NEW f \in [1 .. n -> S]
  PROVE  f \in Seq(S) /\ Len(f) = n
  OBVIOUS

\* The old .cnf holds every message that is to be kept.
LEMMA OldHolds ==
  ASSUME old \in Olds
  PROVE  \A k \in Kept : Holds(OldCnf(old), k)
  <1>1. old.n \in Nat /\ \A k \in 1 .. old.n : old.size[k] \in Nat
    BY OldType
  <1>2. /\ OldCnf(old) \in Seq([msg : Nat, size : Nat])
        /\ Len(OldCnf(old)) = old.n
        /\ \A k \in 1 .. old.n : OldCnf(old)[k].msg = k
    <2> DEFINE text(k) == [msg |-> k, size |-> old.size[k]]
    <2>1. \A k \in 1 .. old.n : text(k) \in [msg : Nat, size : Nat]
      BY <1>1
    <2>2. OldCnf(old) = [k \in 1 .. old.n |-> text(k)]
      BY DEF OldCnf
    <2>3. \A k \in 1 .. old.n : text(k).msg = k
      OBVIOUS
    <2> HIDE DEF text
    <2>4. OldCnf(old) \in [1 .. old.n -> [msg : Nat, size : Nat]]
      BY <2>1, <2>2
    <2>5. OldCnf(old) \in Seq([msg : Nat, size : Nat]) /\ Len(OldCnf(old)) = old.n
      BY <1>1, <2>4, TableIsSeq
    <2> QED
      BY <2>2, <2>3, <2>5
  <1>3. OldCnf(old) # NoFile
    BY <1>2, ClipAssumption
  <1> QED
    BY <1>2, <1>3 DEF Holds, Kept

\* The invariant says what KeptOnDisk asks.
LEMMA WhereKeeps == IInv => KeptOnDisk
  <1> SUFFICES ASSUME IInv, pc # "crashed", NEW k \in Kept
               PROVE  Holds(cnf, k) \/ Holds(tmc, k)
    BY DEF IInv, Where, KeptOnDisk
  <1>1. CASE pc \notin {"rename cnf"} \cup CnfMoved
    BY <1>1, OldHolds DEF IInv, TypeOK, Where
  <1>2. CASE pc \in {"rename cnf"} \cup CnfMoved
    <2>1. Written(k) /\ out # NoFile
      BY <1>2, ClipAssumption DEF IInv, TypeOK, Where, AllWritten, CnfMoved
    <2>2. out # <<>>
      BY <2>1 DEF Written
    <2> QED
      BY <1>2, <2>1, <2>2 DEF IInv, Where, Holds, Written
  <1> QED
    BY <1>1, <1>2

\* Without unnoticed read and close errors a step preserves the invariant.
LEMMA WhereStep ==
  ASSUME {"read", "close"} \cap Faults = {}
  PROVE  IInv /\ [Next]_vars => IInv'
  <1> SUFFICES ASSUME IInv, [Next]_vars PROVE Where'
    BY TypeStep DEF IInv
  <1>1. TypeOK /\ Where /\ KeptOnDisk
    BY WhereKeeps DEF IInv
  <1>2. old' = old /\ cmd' = cmd /\ trunc' = trunc /\ Kept' = Kept
    BY DEF Next, Step, OpenFails, OpenForNothing, Open, SkipKilled, Copy,
           CopyFails, EndLoop, Abort, Close, UnlinkCnf, RenameCnf, UnlinkIdx,
           RenameIdx, Die, vars, input, Kept, Start
  <1>3. Kept \subseteq 1 .. old.n /\ Kept \cap old.killed = {} /\ old.n \in Nat
    BY <1>1, OldType, ClipAssumption DEF Kept, TypeOK
  <1> USE DEF AllWritten, CnfMoved
  <1>4. CASE OpenFails \/ OpenForNothing \/ CopyFails \/ Abort
    BY <1>1, <1>2, <1>4 DEF OpenFails, OpenForNothing, CopyFails, Abort, Where,
                            work, files
  <1>5. CASE Open
    <2>1. \A k \in Kept : ~(k < at')
      BY <1>3, <1>5, ClipAssumption, OldType, StartType DEF Open, Kept, Start, TypeOK, IInv
    <2> QED
      BY <1>1, <1>2, <1>5, <2>1 DEF Open, Where
  <1>6. CASE SkipKilled
    <2>1. ASSUME NEW k \in Kept, k < at' PROVE k < at
      <3>1. at' = at + 1 /\ at \in Nat /\ k # at /\ k \in Int
        BY <1>1, <1>3, <1>6 DEF SkipKilled, TypeOK
      <3> QED
        BY <2>1, <3>1
    <2> QED
      BY <1>1, <1>2, <1>6, <2>1 DEF SkipKilled, Where, Written, files
  <1>7. CASE Copy
    <2>1. PICK m : m = at /\ out' = Append(out, [msg |-> m, size |-> old.size[at]])
      BY <1>7 DEF Copy
    <2>2. /\ Len(out') = Len(out) + 1 /\ Len(out) \in Nat
          /\ out'[Len(out) + 1].msg = at
          /\ \A j \in 1 .. Len(out) : out'[j] = out[j]
      BY <1>1, <2>1 DEF TypeOK
    <2>3. ASSUME NEW k \in Kept, k < at' PROVE Written(k)'
      <3>1. CASE k = at
        BY <2>2, <3>1 DEF Written
      <3>2. CASE k < at
        BY <1>1, <1>7, <2>2, <3>2 DEF Written, Where, Copy
      <3> QED
        BY <1>1, <1>3, <1>7, <2>3, <3>1, <3>2 DEF Copy, TypeOK
    <2> QED
      BY <1>1, <1>2, <1>7, <2>3 DEF Copy, Where, files
  <1>8. CASE EndLoop
    <2>1. \A k \in Kept : k < at
      BY <1>1, <1>3, <1>8 DEF EndLoop, TypeOK
    <2> QED
      BY <1>1, <1>2, <1>8, <2>1 DEF EndLoop, Where, Written, files, work
  <1>9. CASE Close
    BY <1>1, <1>2, <1>9 DEF Close, Flushed, Where, Written, work
  <1>10. CASE UnlinkCnf \/ RenameCnf \/ UnlinkIdx \/ RenameIdx
    BY <1>1, <1>2, <1>10 DEF UnlinkCnf, RenameCnf, UnlinkIdx, RenameIdx, Where,
                             Written, work
  <1>11. CASE Die
    <2>1. KeptOnDisk'
      BY <1>1, <1>2, <1>11 DEF Die, KeptOnDisk, Holds, files
    <2> QED
      BY <1>2, <1>11, <2>1 DEF Die, Where
  <1>12. CASE UNCHANGED vars
    BY <1>1, <1>2, <1>12 DEF vars, Where, Written, KeptOnDisk, Holds
  <1> QED
    BY <1>4, <1>5, <1>6, <1>7, <1>8, <1>9, <1>10, <1>11, <1>12 DEF Next, Step

\* Unless a read or a close goes wrong unnoticed, a message that is to be kept is
\* on the disk at every step, in the conference or in the temporary file.
THEOREM MessagesKept ==
  ASSUME {"read", "close"} \cap Faults = {}
  PROVE  Spec => []KeptOnDisk
  <1>1. Init => IInv
    <2>1. Init => TypeOK
      BY ClipAssumption DEF Init, TypeOK, Labels
    <2> QED
      BY <2>1 DEF Init, IInv, Where, AllWritten, CnfMoved
  <1> QED
    BY <1>1, WhereStep, WhereKeeps, PTL DEF Spec

----------------------------------------------------------------------------
(* Where the messages of a .cnf lie: Places is defined by recursion along   *)
(* the file.                                                                *)

CnfType == Seq([msg : Nat, size : Nat])

\* The first m offsets.
PlacesUpTo(c, m, f) ==
  /\ f \in [1 .. m -> Nat]
  /\ \A j \in 1 .. m : f[j] = IF j = 1 THEN 0 ELSE f[j - 1] + 1 + c[j - 1].size

\* The elements of a sequence.
LEMMA ElementType ==
  ASSUME NEW S, NEW s \in Seq(S)
  PROVE  Len(s) \in Nat /\ \A k \in 1 .. Len(s) : s[k] \in S
  OBVIOUS

\* The messages of a .cnf.
LEMMA CnfElement ==
  ASSUME NEW c \in CnfType
  PROVE  Len(c) \in Nat /\ \A k \in 1 .. Len(c) : c[k].msg \in Nat /\ c[k].size \in Nat
  <1>1. \A k \in 1 .. Len(c) : c[k] \in [msg : Nat, size : Nat]
    BY ElementType DEF CnfType
  <1> QED
    BY <1>1 DEF CnfType

\* Offsets that follow the rule exist for a .cnf of any length.
LEMMA PlacesExist ==
  ASSUME NEW c \in CnfType
  PROVE  \E f : PlacesUpTo(c, Len(c), f)
  <1> DEFINE S == {m \in Nat : m <= Len(c) => \E f : PlacesUpTo(c, m, f)}
  <1>1. 0 \in S
    <2>1. PlacesUpTo(c, 0, [j \in 1 .. 0 |-> 0])
      BY DEF PlacesUpTo
    <2> QED
      BY <2>1
  <1>2. ASSUME NEW m \in S, m + 1 <= Len(c)
        PROVE  \E g : PlacesUpTo(c, m + 1, g)
    <2>1. m \in Nat /\ Len(c) \in Nat /\ m <= Len(c)
      BY <1>2 DEF CnfType
    <2>2. PICK f : PlacesUpTo(c, m, f)
      BY <1>2, <2>1
    <2> DEFINE v == IF m = 0 THEN 0 ELSE f[m] + 1 + c[m].size
               g == [j \in 1 .. m + 1 |-> IF j <= m THEN f[j] ELSE v]
    <2>3. m # 0 => m \in 1 .. m /\ m \in 1 .. Len(c) /\ c[m].size \in Nat
      <3>1. m # 0 => m \in 1 .. m /\ m \in 1 .. Len(c)
        BY <2>1
      <3>2. \A k \in 1 .. Len(c) : c[k].size \in Nat
        BY CnfElement
      <3> QED
        BY <3>1, <3>2
    <2>4. v \in Nat
      BY <2>2, <2>3 DEF PlacesUpTo
    <2>5. \A j \in 1 .. m + 1 : g[j] = (IF j <= m THEN f[j] ELSE v) /\ g[j] \in Nat
      BY <2>1, <2>2, <2>4 DEF PlacesUpTo
    <2>6. g \in [1 .. m + 1 -> Nat]
      BY <2>5
    <2>7. ASSUME NEW j \in 1 .. m + 1
          PROVE  g[j] = IF j = 1 THEN 0 ELSE g[j - 1] + 1 + c[j - 1].size
      <3>1. CASE j <= m
        <4>1. j \in 1 .. m /\ (j # 1 => j - 1 \in 1 .. m + 1 /\ j - 1 <= m)
          BY <2>1, <3>1
        <4> QED
          BY <2>2, <2>5, <3>1, <4>1 DEF PlacesUpTo
      <3>2. CASE ~ (j <= m)
        <4>1. j = m + 1 /\ (j # 1 => m # 0 /\ m \in 1 .. m + 1 /\ m <= m /\ j - 1 = m)
          BY <2>1, <3>2
        <4>2. g[j] = v
          BY <2>1, <2>5, <3>2
        <4>3. CASE j = 1
          BY <2>1, <4>1, <4>2, <4>3
        <4>4. CASE j # 1
          <5>1. g[m] = f[m]
            BY <2>5, <4>1, <4>4
          <5> QED
            BY <4>1, <4>2, <4>4, <5>1
        <4> QED
          BY <4>3, <4>4
      <3> QED
        BY <3>1, <3>2
    <2> QED
      BY <2>6, <2>7 DEF PlacesUpTo
  <1>3. \A m \in Nat : m \in S => m + 1 \in S
    BY <1>2
  <1> HIDE DEF S
  <1>4. \A m \in Nat : m \in S
    BY <1>1, <1>3, Induction
  <1> QED
    BY <1>4 DEF S, CnfType

\* Places follows the rule, and nothing else does.
LEMMA PlacesRule ==
  ASSUME NEW c \in CnfType
  PROVE  /\ PlacesUpTo(c, Len(c), Places(c))
         /\ \A f : PlacesUpTo(c, Len(c), f) => f = Places(c)
  <1> DEFINE Rule(h) == h = [j \in 1 .. Len(c) |->
                              IF j = 1 THEN 0 ELSE h[j - 1] + 1 + c[j - 1].size]
  <1>1. Places(c) = CHOOSE h : Rule(h)
    BY DEF Places
  <1>2. \A f : PlacesUpTo(c, Len(c), f) => Rule(f)
    BY DEF PlacesUpTo
  <1>3. PICK f : PlacesUpTo(c, Len(c), f)
    BY PlacesExist
  <1>4. Rule(Places(c))
    <2> HIDE DEF Rule
    <2> QED
      BY <1>1, <1>2, <1>3
  <1>5. ASSUME NEW g, PlacesUpTo(c, Len(c), g)
        PROVE  g = Places(c)
    <2> DEFINE p == Places(c)
               bad == {j \in 1 .. Len(c) : p[j] # g[j]}
    <2>1. Len(c) \in Nat
      BY DEF CnfType
    <2>2. /\ p = [j \in 1 .. Len(c) |-> p[j]]
          /\ \A j \in 1 .. Len(c) : p[j] = IF j = 1 THEN 0 ELSE p[j - 1] + 1 + c[j - 1].size
      BY <1>4
    <2>3. /\ g = [j \in 1 .. Len(c) |-> g[j]]
          /\ \A j \in 1 .. Len(c) : g[j] = IF j = 1 THEN 0 ELSE g[j - 1] + 1 + c[j - 1].size
      BY <1>5 DEF PlacesUpTo
    <2> HIDE DEF p
    <2>4. bad = {}
      <3> SUFFICES ASSUME bad # {} PROVE FALSE
        OBVIOUS
      <3>1. bad \in SUBSET Nat
        BY <2>1
      <3>2. PICK x \in bad : \A y \in bad : x <= y
        BY <3>1, Least
      <3>3. x # 1 /\ x \in 1 .. Len(c) /\ p[x] # g[x]
        BY <2>2, <2>3, <3>2
      <3>4. x - 1 \in 1 .. Len(c) /\ ~ (x <= x - 1)
        BY <2>1, <3>3
      <3>5. p[x - 1] = g[x - 1]
        BY <3>2, <3>4
      <3>6. p[x] = p[x - 1] + 1 + c[x - 1].size /\ g[x] = g[x - 1] + 1 + c[x - 1].size
        BY <2>2, <2>3, <3>3
      <3> QED
        BY <3>3, <3>5, <3>6
    <2> QED
      BY <2>2, <2>3, <2>4 DEF p
  <1> QED
    BY <1>3, <1>5

----------------------------------------------------------------------------
(* The promise of ClipAbs.  What has been written so far is an index that    *)
(* follows its messages, and the pointer is what ConfStore's closed form     *)
(* says of the records read so far; from there on the files are moved.       *)

Before == ConfOf(OldCnf(old), OldIdx(old))

\* The pointer when the loop starts.
Base ==
  LET l == IF old.last >= old.n THEN old.n - 1 ELSE old.last
  IN  IF l > Start THEN l - Start ELSE 0

\* The survivors, and the killed messages that count for the pointer, among the
\* records before record a.
KeptTo(a) == {k \in Kept : k < a}
HitTo(a) == {k \in old.killed : k > Start /\ k < a /\ k - 1 - Start <= Base}

Lowered(h) == IF h >= Base THEN 0 ELSE Base - h

\* old_offset runs along with the records.
Follows ==
  /\ Len(recs) = Len(out)
  /\ \A j \in 1 .. Len(out) :
       /\ recs[j].size = out[j].size /\ out[j].msg \in Kept
       /\ recs[j].off = IF j = 1 THEN 0 ELSE recs[j - 1].off + 1 + recs[j - 1].size
  /\ off = IF Len(out) = 0 THEN 0 ELSE recs[Len(out)].off + 1 + recs[Len(out)].size

Clipping == {"loop"} \cup AllWritten

Counted ==
  /\ pc \in Clipping => trunc > 0 /\ old.n > 0 /\ (cmd = "T" => trunc < old.n)
  /\ pc = "open" => out = <<>> /\ recs = <<>> /\ off = 0
  /\ pc = "loop" =>
       LET seen == at - 1 - Start
           hits == Cardinality(HitTo(at))
       IN  /\ at > Start
           /\ Len(out) = Cardinality(KeptTo(at))
           /\ last = Lowered(hits)
           /\ seen <= Base => hits = seen - Len(out)
           /\ seen > Base => Len(out) > Base - hits
  /\ pc \in AllWritten =>
       /\ Len(out) = Cardinality(Kept)
       /\ last = Lowered(Cardinality(HitTo(old.n + 1)))

NewIdx == [last |-> last, recs |-> recs]

Moved ==
  /\ pc \in {"open", "loop", "abort", "close", "unlink cnf", "unchanged"} =>
       cnf = OldCnf(old) /\ idx = OldIdx(old)
  /\ pc \in {"open", "unchanged"} => tmc = NoFile /\ tmi = NoFile
  /\ pc \in {"unlink cnf", "rename cnf"} => tmc = out
  /\ pc \in {"unlink cnf", "rename cnf", "unlink idx", "rename idx"} => tmi = NewIdx
  /\ pc = "rename cnf" => cnf = NoFile
  /\ pc \in {"rename cnf", "unlink idx"} => idx = OldIdx(old)
  /\ pc \in CnfMoved => tmc = NoFile /\ cnf = IF out # <<>> THEN out ELSE NoFile
  /\ pc = "rename idx" => idx = NoFile
  /\ pc = "done" => tmi = NoFile /\ idx = IF out # <<>> THEN NewIdx ELSE NoFile
  /\ pc = "crashed" => ConfOf(cnf, idx) \in {Before, Torn, Abs!After}

PInv == TypeOK /\ Follows /\ Counted /\ Moved

\* What the refinement asks of the files at each step.
Promised ==
  /\ ConfOf(cnf, idx) \in {Before, Torn, Abs!After}
  /\ pc \in {"done", "unchanged"} => ConfOf(cnf, idx) # Torn

\* The old .cnf and its index are files, and the .cnf holds the messages in order.
LEMMA OldFiles ==
  ASSUME old \in Olds
  PROVE  /\ OldCnf(old) \in CnfType /\ Len(OldCnf(old)) = old.n
         /\ \A k \in 1 .. old.n : OldCnf(old)[k].msg = k /\ OldCnf(old)[k].size = old.size[k]
         /\ OldIdx(old) \in [last : Int, recs : Seq([off : Nat, size : Nat])]
         /\ Len(OldIdx(old).recs) = old.n
         /\ PairAgrees(OldCnf(old), OldIdx(old))
  <1>1. old.n \in Nat /\ old.last \in Int /\ \A k \in 1 .. old.n : old.size[k] \in Nat
    BY OldType
  <1> DEFINE text(k) == [msg |-> k, size |-> old.size[k]]
             rec(k) == [off |-> Places(OldCnf(old))[k], size |-> old.size[k]]
  <1>2. \A k \in 1 .. old.n : /\ text(k) \in [msg : Nat, size : Nat]
                              /\ text(k).msg = k /\ text(k).size = old.size[k]
    BY <1>1
  <1>3. OldCnf(old) = [k \in 1 .. old.n |-> text(k)]
    BY DEF OldCnf
  <1> HIDE DEF text
  <1>4. OldCnf(old) \in [1 .. old.n -> [msg : Nat, size : Nat]]
    BY <1>2, <1>3
  <1>5. /\ OldCnf(old) \in CnfType /\ Len(OldCnf(old)) = old.n
        /\ \A k \in 1 .. old.n : OldCnf(old)[k] = text(k)
    BY <1>1, <1>3, <1>4, TableIsSeq DEF CnfType
  <1>6. \A k \in 1 .. old.n : Places(OldCnf(old))[k] \in Nat
    BY <1>5, PlacesRule DEF PlacesUpTo
  <1>7. \A k \in 1 .. old.n : rec(k) \in [off : Nat, size : Nat]
    BY <1>1, <1>6
  <1>8. OldIdx(old) = [last |-> old.last, recs |-> [k \in 1 .. old.n |-> rec(k)]]
    BY DEF OldIdx
  <1>9. /\ OldIdx(old).recs = [k \in 1 .. old.n |-> rec(k)] /\ OldIdx(old).last = old.last
        /\ OldIdx(old) = [last |-> old.last, recs |-> OldIdx(old).recs]
    BY <1>8
  <1> HIDE DEF rec
  <1>10. OldIdx(old).recs \in [1 .. old.n -> [off : Nat, size : Nat]]
    BY <1>7, <1>9
  <1>11. OldIdx(old).recs \in Seq([off : Nat, size : Nat]) /\ Len(OldIdx(old).recs) = old.n
    BY <1>1, <1>10, TableIsSeq
  <1>12. \A k \in 1 .. old.n : OldIdx(old).recs[k] =
                [off |-> Places(OldCnf(old))[k], size |-> OldCnf(old)[k].size]
    BY <1>2, <1>5, <1>9 DEF rec
  <1>13. PairAgrees(OldCnf(old), OldIdx(old))
    BY <1>5, <1>11, <1>12 DEF PairAgrees
  <1>14. OldIdx(old) \in [last : Int, recs : Seq([off : Nat, size : Nat])]
    BY <1>1, <1>9, <1>11
  <1> QED
    BY <1>2, <1>5, <1>11, <1>13, <1>14

\* The conference that clip() finds, position by position.
LEMMA BeforeIs ==
  ASSUME old \in Olds
  PROVE  Before = [there |-> TRUE, n |-> old.n, last |-> old.last,
                   killed |-> {k - 1 : k \in old.killed}]
  <1>1. old.n \in Nat /\ old.killed \subseteq 1 .. old.n
    BY OldType
  <1>2. OldCnf(old) # NoFile /\ OldIdx(old) # NoFile
    BY OldFiles, ClipAssumption DEF CnfType
  <1>3. OldIdx(old).last = old.last
    BY DEF OldIdx
  <1>4. {k \in 1 .. Len(OldCnf(old)) : OldCnf(old)[k].msg \in old.killed} = old.killed
    BY <1>1, OldFiles
  <1> QED
    BY <1>2, <1>3, <1>4, OldFiles DEF Before, ConfOf

\* Sets of messages are finite.
LEMMA FiniteMsgs ==
  ASSUME old \in Olds, NEW T \in SUBSET (1 .. old.n)
  PROVE  IsFiniteSet(T) /\ Cardinality(T) \in Nat
  <1>1. old.n \in Nat
    BY OldType
  <1>2. IsFiniteSet(1 .. old.n)
    BY <1>1, FS_Interval
  <1>3. IsFiniteSet(T)
    BY <1>2, FS_Subset
  <1> QED
    BY <1>3, FS_CardinalityType

\* ClipAbs counts as this module does.
LEMMA SameCount == \A T : Abs!Cardinality(T) = Cardinality(T)
  BY Zenon DEF Abs!Cardinality, Cardinality

\* What ClipAbs makes of the conference, in the terms of the loop.
LEMMA AfterIs ==
  ASSUME old \in Olds, cmd \in {"C", "T"}, trunc \in 0 .. MaxMsgs,
         trunc > 0, old.n > 0, cmd = "T" => trunc < old.n
  PROVE  Abs!After = IF Kept = {} THEN [there |-> FALSE, n |-> 0, last |-> -1, killed |-> {}]
                     ELSE [there |-> TRUE, n |-> Cardinality(Kept),
                           last |-> Lowered(Cardinality(HitTo(old.n + 1))), killed |-> {}]
  <1> DEFINE lives == {p \in Abs!Live(Before) : p >= Start}
             hits == {p \in Before.killed : p >= Start /\ p - Start <= Base}
  <1>1. /\ old.n \in Nat /\ old.killed \subseteq 1 .. old.n /\ trunc \in Nat
        /\ Start \in 0 .. old.n
    BY OldType, StartType, ClipAssumption
  <1>2. /\ Before.there = TRUE /\ Before.n = old.n /\ Before.last = old.last
        /\ Before.killed = {k - 1 : k \in old.killed}
    BY BeforeIs
  <1>3. lives = {k - 1 : k \in Kept}
    <2>1. ASSUME NEW p \in lives PROVE p \in {k - 1 : k \in Kept}
      <3>1. p \in 0 .. old.n - 1 /\ p >= Start /\ p \notin {k - 1 : k \in old.killed}
        BY <1>2 DEF Abs!Live, Abs!Positions
      <3>2. p + 1 \in 1 .. old.n /\ p + 1 > Start /\ p = (p + 1) - 1
        BY <1>1, <3>1
      <3>3. p + 1 \notin old.killed
        BY <3>1, <3>2
      <3> QED
        BY <3>2, <3>3 DEF Kept
    <2>2. ASSUME NEW k \in Kept PROVE k - 1 \in lives
      <3>1. k \in 1 .. old.n /\ k > Start /\ k \notin old.killed
        BY DEF Kept
      <3>2. k - 1 \in 0 .. old.n - 1 /\ k - 1 >= Start
        BY <1>1, <3>1
      <3>3. \A m \in old.killed : k - 1 # m - 1
        BY <1>1, <3>1
      <3> QED
        BY <1>2, <3>2, <3>3 DEF Abs!Live, Abs!Positions
    <2> QED
      BY <2>1, <2>2
  <1>4. hits = {k - 1 : k \in HitTo(old.n + 1)}
    <2>1. \A k \in old.killed : k \in Int /\ k < old.n + 1 /\ (k > Start <=> k - 1 >= Start)
      BY <1>1
    <2> QED
      BY <1>2, <2>1 DEF HitTo
  <1>5. /\ Cardinality(lives) = Cardinality(Kept)
        /\ Cardinality(hits) = Cardinality(HitTo(old.n + 1))
        /\ lives = {} <=> Kept = {}
    <2>1. Kept \in SUBSET (1 .. old.n) /\ HitTo(old.n + 1) \in SUBSET (1 .. old.n)
      BY <1>1 DEF Kept, HitTo
    <2>2. Kept \in SUBSET Int /\ HitTo(old.n + 1) \in SUBSET Int
      BY <1>1, <2>1
    <2>3. IsFiniteSet(Kept) /\ IsFiniteSet(HitTo(old.n + 1))
      BY <2>1, FiniteMsgs
    <2>4. lives = {} <=> Kept = {}
      <3> HIDE DEF lives
      <3> QED
        BY <1>3
    <2>5. Cardinality({k - 1 : k \in Kept}) = Cardinality(Kept)
      BY <2>2, <2>3, Shifted
    <2>6. Cardinality({k - 1 : k \in HitTo(old.n + 1)}) = Cardinality(HitTo(old.n + 1))
      BY <2>2, <2>3, Shifted
    <2> HIDE DEF lives, hits
    <2> QED
      BY <1>3, <1>4, <2>4, <2>5, <2>6
  <1>6. Abs!ClipBase(Before, Start) = Base
    BY <1>2 DEF Abs!ClipBase, Base
  <1>7. Abs!ClipLast(Before, Start) = Lowered(Cardinality(HitTo(old.n + 1)))
    <2>1. Abs!ClipLast(Before, Start) =
            IF Abs!Cardinality(hits) >= Base THEN 0 ELSE Base - Abs!Cardinality(hits)
      BY <1>6 DEF Abs!ClipLast
    <2> HIDE DEF hits
    <2>2. Abs!Cardinality(hits) = Cardinality(HitTo(old.n + 1))
      BY <1>5, SameCount
    <2> QED
      BY <2>1, <2>2 DEF Lowered
  <1>8. Abs!Clips(Before, cmd, trunc) /\ Start = IF cmd = "C" THEN 0 ELSE Before.n - trunc
    BY <1>2 DEF Abs!Clips, Start
  <1>9. Abs!After = Abs!Clipped(Before, Start)
    BY <1>8 DEF Abs!After, Abs!Clip, Before
  <1>10. Abs!Clipped(Before, Start) =
           IF lives = {} THEN Abs!Absent
           ELSE [there |-> TRUE, n |-> Abs!Cardinality(lives),
                 last |-> Abs!ClipLast(Before, Start), killed |-> {}]
    BY DEF Abs!Clipped
  <1>11. Abs!Cardinality(lives) = Cardinality(Kept)
    <2> HIDE DEF lives
    <2> QED
      BY <1>5, SameCount
  <1> HIDE DEF lives, hits
  <1> QED
    BY <1>5, <1>7, <1>9, <1>10, <1>11 DEF Abs!Absent, Abs!VIRGINDX

\* A file of survivors has no killed message in it.
LEMMA OnlySurvivors ==
  ASSUME TypeOK, Follows
  PROVE  /\ out \in CnfType /\ out # NoFile
         /\ {k \in 1 .. Len(out) : out[k].msg \in old.killed} = {}
  BY ClipAssumption DEF TypeOK, Follows, CnfType, Kept

\* The temporary pair describes itself.
LEMMA NewPair ==
  ASSUME TypeOK, Follows
  PROVE  /\ NewIdx # NoFile /\ PairAgrees(out, NewIdx)
         /\ ConfOf(out, NewIdx) = [there |-> TRUE, n |-> Len(out), last |-> last, killed |-> {}]
  <1> DEFINE f == [j \in 1 .. Len(out) |-> recs[j].off]
  <1>1. out \in CnfType /\ Len(out) \in Nat
    BY CnfElement, OnlySurvivors
  <1>2. Len(recs) = Len(out) /\ \A j \in 1 .. Len(out) : recs[j] \in [off : Nat, size : Nat]
    BY ElementType DEF TypeOK, Follows
  <1>3. \A j \in 1 .. Len(out) : recs[j].off \in Nat
    BY <1>2
  <1>4. f \in [1 .. Len(out) -> Nat] /\ \A j \in 1 .. Len(out) : f[j] = recs[j].off
    BY <1>3
  <1>5. ASSUME NEW j \in 1 .. Len(out)
        PROVE  f[j] = IF j = 1 THEN 0 ELSE f[j - 1] + 1 + out[j - 1].size
    <2>1. CASE j = 1
      BY <1>4, <2>1 DEF Follows
    <2>2. CASE j # 1
      <3>1. j - 1 \in 1 .. Len(out)
        BY <1>1, <2>2
      <3> QED
        BY <1>4, <2>2, <3>1 DEF Follows
    <2> QED
      BY <2>1, <2>2
  <1>6. PlacesUpTo(out, Len(out), f)
    BY <1>4, <1>5 DEF PlacesUpTo
  <1>7. Places(out) = f
    BY <1>1, <1>6, PlacesRule
  <1> HIDE DEF f
  <1>8. \A j \in 1 .. Len(out) : recs[j] = [off |-> Places(out)[j], size |-> out[j].size]
    BY <1>2, <1>4, <1>7 DEF Follows
  <1>9. PairAgrees(out, NewIdx)
    BY <1>2, <1>8 DEF PairAgrees, NewIdx
  <1>10. NewIdx # NoFile
    <2>1. NewIdx \in [last : Int, recs : Seq([off : Nat, size : Nat])]
      BY DEF TypeOK, NewIdx
    <2> QED
      BY <2>1, ClipAssumption
  <1> QED
    BY <1>9, <1>10, OnlySurvivors DEF ConfOf, NewIdx

\* The new messages beside the old index are a torn pair, unless nothing was
\* dropped.
LEMMA MixedPair ==
  ASSUME TypeOK, Follows, Len(out) = Cardinality(Kept)
  PROVE  ConfOf(out, OldIdx(old)) \in {Before, Torn}
  <1> SUFFICES ASSUME PairAgrees(out, OldIdx(old))
               PROVE  ConfOf(out, OldIdx(old)) = Before
    BY OnlySurvivors DEF ConfOf
  <1>1. old \in Olds /\ old.n \in Nat /\ old.killed \subseteq 1 .. old.n
    BY OldType DEF TypeOK
  <1>2. Len(out) = old.n
    BY <1>1, OldFiles DEF PairAgrees
  <1>3. Kept = 1 .. old.n
    <2>1. IsFiniteSet(1 .. old.n) /\ Cardinality(1 .. old.n) = old.n
      <3>1. 1 \in Int /\ old.n \in Int
        BY <1>1
      <3>2. /\ IsFiniteSet(1 .. old.n)
            /\ Cardinality(1 .. old.n) = IF 1 > old.n THEN 0 ELSE old.n - 1 + 1
        BY <3>1, FS_Interval, Zenon
      <3> QED
        BY <1>1, <3>2
    <2>2. Kept \in SUBSET (1 .. old.n)
      BY DEF Kept
    <2> QED
      BY <1>2, <2>1, <2>2, FS_Subset
  <1>4. old.killed = {}
    BY <1>1, <1>3 DEF Kept
  <1>5. OldIdx(old) # NoFile /\ OldIdx(old).last = old.last
    BY <1>1, OldFiles, ClipAssumption DEF OldIdx
  <1>6. ConfOf(out, OldIdx(old)) =
          [there |-> TRUE, n |-> old.n, last |-> old.last, killed |-> {}]
    BY <1>2, <1>5, OnlySurvivors DEF ConfOf
  <1>7. Before = [there |-> TRUE, n |-> old.n, last |-> old.last, killed |-> {}]
    BY <1>1, <1>4, BeforeIs
  <1> QED
    BY <1>6, <1>7

\* No conference is a torn pair.
LEMMA ConfIsNotTorn ==
  ASSUME NEW there \in BOOLEAN, NEW n \in Nat, NEW l \in Int, NEW K \in SUBSET Int
  PROVE  [there |-> there, n |-> n, last |-> l, killed |-> K] # Torn
  <1>1. [there |-> there, n |-> n, last |-> l, killed |-> K]
          \in [there : BOOLEAN, n : Nat, last : Int, killed : SUBSET Int]
    OBVIOUS
  <1> QED
    BY <1>1, ClipAssumption

\* The invariant says what the refinement asks.
LEMMA InvPromises == PInv => Promised
  <1> SUFFICES ASSUME PInv PROVE Promised
    OBVIOUS
  <1>1. /\ TypeOK /\ Follows /\ old \in Olds /\ cmd \in {"C", "T"} /\ trunc \in 0 .. MaxMsgs
        /\ old.n \in Nat /\ old.last \in Int /\ old.killed \subseteq 1 .. old.n /\ last \in Nat
    BY OldType DEF PInv, TypeOK
  <1>2. Before # Torn
    <2>1. {k - 1 : k \in old.killed} \in SUBSET Int
      BY <1>1
    <2> QED
      BY <1>1, <2>1, BeforeIs, ConfIsNotTorn
  <1>3. OldCnf(old) # NoFile /\ OldIdx(old) # NoFile
    BY <1>1, OldFiles, ClipAssumption DEF CnfType
  <1>4. Len(out) \in Nat /\ (out = <<>> <=> Len(out) = 0)
    BY <1>1 DEF TypeOK
  <1>5. Kept \in SUBSET (1 .. old.n)
    BY DEF Kept
  <1>6. (Cardinality(Kept) = 0) <=> (Kept = {})
    BY <1>1, <1>5, FiniteMsgs, FS_EmptySet
  <1>7. ASSUME pc \in AllWritten
        PROVE  /\ Len(out) = Cardinality(Kept) /\ (out = <<>> <=> Kept = {})
               /\ Abs!After = IF out = <<>>
                              THEN [there |-> FALSE, n |-> 0, last |-> -1, killed |-> {}]
                              ELSE [there |-> TRUE, n |-> Len(out), last |-> last, killed |-> {}]
    <2>1. /\ trunc > 0 /\ old.n > 0 /\ (cmd = "T" => trunc < old.n)
          /\ Len(out) = Cardinality(Kept) /\ last = Lowered(Cardinality(HitTo(old.n + 1)))
      BY <1>7 DEF PInv, Counted, Clipping
    <2> QED
      BY <1>1, <1>4, <1>6, <2>1, AfterIs
  <1>8. CASE pc \in {"open", "loop", "abort", "close", "unlink cnf", "unchanged"}
    BY <1>2, <1>8 DEF PInv, Moved, Promised, Before
  <1>9. CASE pc = "rename cnf"
    BY <1>3, <1>9 DEF PInv, Moved, Promised, ConfOf
  <1>10. CASE pc = "unlink idx"
    <2>1. cnf = (IF out # <<>> THEN out ELSE NoFile) /\ idx = OldIdx(old)
      BY <1>10 DEF PInv, Moved, CnfMoved
    <2>2. CASE out = <<>>
      BY <1>3, <1>10, <2>1, <2>2 DEF Promised, ConfOf
    <2>3. CASE out # <<>>
      BY <1>1, <1>7, <1>10, <2>1, <2>3, MixedPair DEF Promised, AllWritten
    <2> QED
      BY <2>2, <2>3
  <1>11. CASE pc = "rename idx"
    <2>1. cnf = (IF out # <<>> THEN out ELSE NoFile) /\ idx = NoFile
      BY <1>11 DEF PInv, Moved, CnfMoved
    <2>2. CASE out = <<>>
      BY <1>7, <1>11, <2>1, <2>2 DEF Promised, ConfOf, AllWritten
    <2>3. CASE out # <<>>
      BY <1>1, <1>11, <2>1, <2>3, OnlySurvivors DEF Promised, ConfOf
    <2> QED
      BY <2>2, <2>3
  <1>12. CASE pc = "done"
    <2>1. /\ cnf = (IF out # <<>> THEN out ELSE NoFile)
          /\ idx = (IF out # <<>> THEN NewIdx ELSE NoFile)
      BY <1>12 DEF PInv, Moved, CnfMoved
    <2>2. ConfOf(cnf, idx) = Abs!After
      <3>1. CASE out = <<>>
        BY <1>7, <1>12, <2>1, <3>1 DEF ConfOf, AllWritten
      <3>2. CASE out # <<>>
        BY <1>1, <1>7, <1>12, <2>1, <3>2, NewPair DEF AllWritten
      <3> QED
        BY <3>1, <3>2
    <2>3. Abs!After # Torn
      <3>1. Abs!After = [there |-> FALSE, n |-> 0, last |-> -1, killed |-> {}]
              \/ Abs!After = [there |-> TRUE, n |-> Len(out), last |-> last, killed |-> {}]
        BY <1>7, <1>12 DEF AllWritten
      <3>2. -1 \in Int /\ 0 \in Nat /\ {} \in SUBSET Int /\ last \in Int /\ Len(out) \in Nat
        BY <1>1, <1>4
      <3>3. [there |-> FALSE, n |-> 0, last |-> -1, killed |-> {}] # Torn
        BY <3>2, ConfIsNotTorn
      <3>4. [there |-> TRUE, n |-> Len(out), last |-> last, killed |-> {}] # Torn
        BY <3>2, ConfIsNotTorn
      <3> QED
        BY <3>1, <3>3, <3>4
    <2> QED
      BY <2>2, <2>3 DEF Promised
  <1>13. CASE pc = "crashed"
    BY <1>13 DEF PInv, Moved, Promised
  <1> QED
    BY <1>1, <1>8, <1>9, <1>10, <1>11, <1>12, <1>13 DEF TypeOK, Labels

\* One record further, the survivors and the hits grow by at most that record.
LEMMA OneFurther ==
  ASSUME old \in Olds, NEW a \in 1 .. old.n, a > Start, Start \in Nat
  PROVE  /\ Base \in Nat
         /\ KeptTo(a) \in SUBSET (1 .. old.n) /\ HitTo(a) \in SUBSET (1 .. old.n)
         /\ Cardinality(KeptTo(a + 1)) =
              IF a \in old.killed THEN Cardinality(KeptTo(a)) ELSE Cardinality(KeptTo(a)) + 1
         /\ Cardinality(HitTo(a + 1)) =
              IF a \in old.killed /\ a - 1 - Start <= Base
              THEN Cardinality(HitTo(a)) + 1 ELSE Cardinality(HitTo(a))
  <1>1. old.n \in Nat /\ old.killed \subseteq 1 .. old.n /\ old.last \in Int
    BY OldType
  <1>2. Base \in Nat
    BY <1>1 DEF Base
  <1>3. KeptTo(a) \in SUBSET (1 .. old.n) /\ HitTo(a) \in SUBSET (1 .. old.n)
    BY <1>1 DEF KeptTo, HitTo, Kept
  <1>4. IsFiniteSet(KeptTo(a)) /\ IsFiniteSet(HitTo(a)) /\ a \notin KeptTo(a) /\ a \notin HitTo(a)
    BY <1>3, FiniteMsgs DEF KeptTo, HitTo
  <1>5. KeptTo(a + 1) = IF a \in old.killed THEN KeptTo(a) ELSE KeptTo(a) \cup {a}
    <2>1. \A k \in 1 .. old.n : k < a + 1 <=> k < a \/ k = a
      BY <1>1
    <2> QED
      BY <2>1 DEF KeptTo, Kept
  <1>6. HitTo(a + 1) = IF a \in old.killed /\ a - 1 - Start <= Base
                       THEN HitTo(a) \cup {a} ELSE HitTo(a)
    <2>1. \A k \in old.killed : k < a + 1 <=> k < a \/ k = a
      BY <1>1
    <2> QED
      BY <2>1 DEF HitTo
  <1> QED
    BY <1>2, <1>3, <1>4, <1>5, <1>6, FS_AddElement

\* Before the first record nothing is counted.
LEMMA NoneYet ==
  ASSUME old \in Olds, Start \in Nat
  PROVE  KeptTo(Start + 1) = {} /\ HitTo(Start + 1) = {} /\ Base \in Nat
  <1>1. old.n \in Nat /\ old.killed \subseteq 1 .. old.n /\ old.last \in Int
    BY OldType
  <1> QED
    BY <1>1 DEF KeptTo, HitTo, Kept, Base

\* After the last record all survivors are.
LEMMA AllSeen ==
  ASSUME old \in Olds, NEW a \in Nat, a = old.n + 1
  PROVE  KeptTo(a) = Kept
  <1>1. old.n \in Nat
    BY OldType
  <1> QED
    BY <1>1 DEF KeptTo, Kept

\* The pointer of SkipKilled, as a function of what has been counted.
LEMMA PointerStep ==
  ASSUME NEW seen \in Nat, NEW base \in Nat, NEW n \in Nat, NEW h \in Nat, NEW l,
         l = IF h >= base THEN 0 ELSE base - h,
         seen <= base => h = seen - n,
         seen > base => n > base - h
  PROVE  (IF n <= l /\ l # 0 THEN l - 1 ELSE l) =
           LET g == IF seen <= base THEN h + 1 ELSE h
           IN  IF g >= base THEN 0 ELSE base - g
  OBVIOUS

\* Copy lets the index follow the messages.
LEMMA CopyFollows ==
  ASSUME TypeOK, Follows, Copy, "read" \notin Faults, at > Start
  PROVE  /\ Follows' /\ Len(out') = Len(out) + 1 /\ at \notin old.killed
         /\ old' = old /\ cmd' = cmd /\ trunc' = trunc /\ last' = last /\ pc' = pc
         /\ at' = at + 1 /\ cnf' = cnf /\ idx' = idx /\ tmc' = tmc /\ tmi' = tmi
  <1>1. /\ old' = old /\ cmd' = cmd /\ trunc' = trunc /\ last' = last /\ pc' = pc
        /\ at' = at + 1 /\ cnf' = cnf /\ idx' = idx /\ tmc' = tmc /\ tmi' = tmi
        /\ at \notin old.killed
        /\ out' = Append(out, [msg |-> at, size |-> old.size[at]])
        /\ recs' = Append(recs, [off |-> off, size |-> old.size[at]])
        /\ off' = off + 1 + old.size[at]
    BY DEF Copy, input, files
  <1>2. old \in Olds /\ old.n \in Nat /\ at \in 1 .. old.n /\ Kept' = Kept /\ at \in Kept
    <2>1. at \in 1 .. old.n /\ old.n \in Nat
      BY OldType DEF Copy, TypeOK
    <2> QED
      BY <1>1, <2>1 DEF Kept, Start, TypeOK
  <1>3. /\ Len(out) \in Nat /\ Len(recs) = Len(out)
        /\ Len(out') = Len(out) + 1 /\ Len(recs') = Len(out) + 1
        /\ out'[Len(out) + 1] = [msg |-> at, size |-> old.size[at]]
        /\ recs'[Len(out) + 1] = [off |-> off, size |-> old.size[at]]
        /\ \A j \in 1 .. Len(out) : out'[j] = out[j] /\ recs'[j] = recs[j]
    BY <1>1 DEF TypeOK, Follows
  <1> DEFINE n == Len(out)
  <1>4. ASSUME NEW j \in 1 .. n + 1
        PROVE  /\ recs'[j].size = out'[j].size /\ out'[j].msg \in Kept
               /\ recs'[j].off = IF j = 1 THEN 0 ELSE recs'[j - 1].off + 1 + recs'[j - 1].size
    <2>1. CASE j \in 1 .. n
      <3>1. j # 1 => j - 1 \in 1 .. n
        BY <1>3, <2>1
      <3> QED
        BY <1>3, <2>1, <3>1 DEF Follows
    <2>2. CASE j = n + 1
      <3>1. recs'[j].size = out'[j].size /\ out'[j].msg \in Kept /\ recs'[j].off = off
        BY <1>2, <1>3, <2>2
      <3>2. j # 1 => n # 0 /\ j - 1 = n /\ n \in 1 .. n /\ recs'[n] = recs[n]
        BY <1>3, <2>2
      <3>3. j = 1 => n = 0
        BY <1>3, <2>2
      <3> QED
        BY <3>1, <3>2, <3>3 DEF Follows
    <2> QED
      BY <1>3, <2>1, <2>2
  <1>5. off' = recs'[n + 1].off + 1 + recs'[n + 1].size /\ n + 1 # 0
    BY <1>1, <1>3
  <1>6. Follows'
    BY <1>2, <1>3, <1>4, <1>5 DEF Follows
  <1> QED
    BY <1>1, <1>3, <1>6

\* Without unnoticed read and close errors a step preserves what the refinement
\* needs.
LEMMA PStep ==
  ASSUME {"read", "close"} \cap Faults = {}
  PROVE  PInv /\ [Next]_vars => PInv'
  <1> SUFFICES ASSUME PInv, [Next]_vars PROVE Follows' /\ Counted' /\ Moved'
    BY TypeStep DEF PInv
  <1>1. TypeOK /\ Follows /\ Counted /\ Moved /\ Promised
    BY InvPromises DEF PInv
  <1>2. old' = old /\ cmd' = cmd /\ trunc' = trunc /\ Kept' = Kept /\ Start' = Start
    BY DEF Next, Step, OpenFails, OpenForNothing, Open, SkipKilled, Copy,
           CopyFails, EndLoop, Abort, Close, UnlinkCnf, RenameCnf, UnlinkIdx,
           RenameIdx, Die, vars, input, Kept, Start
  <1>3. /\ old \in Olds /\ cmd \in {"C", "T"} /\ trunc \in 0 .. MaxMsgs /\ trunc \in Nat
        /\ old.n \in Nat /\ old.killed \subseteq 1 .. old.n /\ old.last \in Int
        /\ (cmd = "C" \/ trunc < old.n => Start \in 0 .. old.n)
    BY <1>1, OldType, StartType, ClipAssumption DEF TypeOK
  <1>4. /\ OldCnf(old)' = OldCnf(old) /\ OldIdx(old)' = OldIdx(old) /\ Before' = Before
        /\ Base' = Base /\ Abs!After' = Abs!After
        /\ \A a : KeptTo(a)' = KeptTo(a) /\ HitTo(a)' = HitTo(a)
        /\ \A h : Lowered(h)' = Lowered(h)
    BY <1>2 DEF Before, Base, Abs!After, Abs!Clip, ConfOf, OldCnf, OldIdx, PairAgrees,
                KeptTo, HitTo, Kept, Lowered
  <1>5. (out' = out /\ recs' = recs /\ off' = off) => Follows'
    BY <1>1, <1>2 DEF Follows
  <1>6. (last' = last /\ recs' = recs) => NewIdx' = NewIdx
    BY DEF NewIdx
  <1>7. (cnf' = cnf /\ idx' = idx) => (Promised => ConfOf(cnf, idx)' \in {Before, Torn, Abs!After}')
    BY <1>2, <1>4 DEF Promised, ConfOf, PairAgrees
  <1>8. CASE OpenFails \/ OpenForNothing \/ CopyFails \/ Abort
    <2>1. Follows' /\ Counted'
      BY <1>5, <1>8 DEF OpenFails, OpenForNothing, CopyFails, Abort, Counted, work,
                        Clipping, AllWritten
    <2>2. Moved'
      BY <1>1, <1>4, <1>8 DEF OpenFails, OpenForNothing, CopyFails, Abort, Moved, files, CnfMoved
    <2> QED
      BY <2>1, <2>2
  <1>9. CASE Open
    <2>1. /\ out' = out /\ recs' = recs /\ off' = off /\ out = <<>> /\ pc' = "loop"
          /\ last' = Base /\ at' = Start + 1 /\ cnf' = cnf /\ idx' = idx
          /\ trunc > 0 /\ old.n > 0 /\ (cmd = "C" \/ trunc < old.n)
      BY <1>1, <1>9 DEF Open, Counted, Base
    <2>2. Start \in Nat /\ KeptTo(Start + 1) = {} /\ HitTo(Start + 1) = {} /\ Base \in Nat
      BY <1>3, <2>1, NoneYet
    <2>3. Cardinality(KeptTo(at')) = 0 /\ Cardinality(HitTo(at')) = 0
      BY <2>1, <2>2, FS_EmptySet
    <2>4. Lowered(0) = Base /\ Len(out) = 0
      BY <2>1, <2>2 DEF Lowered
    <2>5. Counted'
      <3>1. trunc' > 0 /\ old'.n > 0 /\ (cmd' = "T" => trunc' < old'.n)
        BY <1>2, <2>1
      <3>2. /\ at' > Start' /\ at' - 1 - Start' = 0
            /\ Len(out') = Cardinality(KeptTo(at)') /\ last' = Lowered(Cardinality(HitTo(at)))'
            /\ Cardinality(HitTo(at)') = 0 - Len(out') /\ ~ (0 > Base')
        <4>1. KeptTo(at)' = KeptTo(at') /\ HitTo(at)' = HitTo(at')
          BY <1>2, <1>4 DEF KeptTo, HitTo
        <4>2. Lowered(Cardinality(HitTo(at)))' = Lowered(0)
          BY <1>4, <2>3, <4>1 DEF Lowered
        <4> QED
          BY <1>2, <1>4, <2>1, <2>2, <2>3, <2>4, <4>1, <4>2
      <3> QED
        BY <2>1, <3>1, <3>2 DEF Counted, AllWritten
    <2>6. Moved'
      BY <1>1, <1>4, <1>9 DEF Open, Moved, CnfMoved
    <2> QED
      BY <1>5, <2>1, <2>5, <2>6
  <1> DEFINE kept == Cardinality(KeptTo(at))
             hits == Cardinality(HitTo(at))
             seen == at - 1 - Start
  <1>10. ASSUME pc = "loop", at <= old.n
         PROVE  /\ trunc > 0 /\ old.n > 0 /\ (cmd = "T" => trunc < old.n)
                /\ at \in 1 .. old.n /\ at > Start /\ Start \in Nat /\ Base \in Nat
                /\ seen \in Nat /\ hits \in Nat /\ Len(out) \in Nat /\ Len(recs) = Len(out)
                /\ Len(out) = kept /\ last = (IF hits >= Base THEN 0 ELSE Base - hits)
                /\ (seen <= Base => hits = seen - Len(out))
                /\ (seen > Base => Len(out) > Base - hits)
                /\ Cardinality(KeptTo(at + 1)) =
                     IF at \in old.killed THEN kept ELSE kept + 1
                /\ Cardinality(HitTo(at + 1)) =
                     IF at \in old.killed /\ seen <= Base THEN hits + 1 ELSE hits
    <2>1. /\ trunc > 0 /\ old.n > 0 /\ (cmd = "T" => trunc < old.n)
          /\ at \in 1 .. old.n /\ at > Start /\ Len(out) = kept /\ last = Lowered(hits)
          /\ (seen <= Base => hits = seen - Len(out))
          /\ (seen > Base => Len(out) > Base - hits)
      BY <1>1, <1>3, <1>10 DEF Counted, Clipping, TypeOK
    <2>2. Start \in Nat
      BY <1>3, <2>1
    <2>3. /\ Base \in Nat
          /\ KeptTo(at) \in SUBSET (1 .. old.n) /\ HitTo(at) \in SUBSET (1 .. old.n)
          /\ Cardinality(KeptTo(at + 1)) = IF at \in old.killed THEN kept ELSE kept + 1
          /\ Cardinality(HitTo(at + 1)) =
               IF at \in old.killed /\ at - 1 - Start <= Base THEN hits + 1 ELSE hits
      BY <1>3, <2>1, <2>2, OneFurther
    <2>4. hits \in Nat
      BY <1>3, <2>3, FiniteMsgs
    <2>5. Len(out) \in Nat /\ Len(recs) = Len(out) /\ seen \in Nat
      BY <1>1, <2>1, <2>2 DEF TypeOK, Follows
    <2> QED
      BY <2>1, <2>2, <2>3, <2>4, <2>5 DEF Lowered
  <1>11. KeptTo(at)' = KeptTo(at') /\ HitTo(at)' = HitTo(at')
    BY <1>2, <1>4 DEF KeptTo, HitTo
  <1> HIDE DEF kept, hits, seen
  <1>12. CASE SkipKilled
    <2>1. /\ out' = out /\ recs' = recs /\ off' = off /\ pc = "loop" /\ pc' = "loop"
          /\ cnf' = cnf /\ idx' = idx /\ at' = at + 1 /\ at <= old.n /\ at \in old.killed
          /\ last' = IF Len(recs) <= last /\ last # 0 THEN last - 1 ELSE last
      BY <1>12 DEF SkipKilled, files
    <2> DEFINE g == IF seen <= Base THEN hits + 1 ELSE hits
    <2>2. Cardinality(KeptTo(at')) = kept /\ Cardinality(HitTo(at')) = g
      BY <1>10, <2>1
    <2>3. last' = IF g >= Base THEN 0 ELSE Base - g
      BY <1>10, <2>1, PointerStep
    <2>4. last' = Lowered(Cardinality(HitTo(at)))'
      <3>1. Lowered(Cardinality(HitTo(at)))' =
              IF Cardinality(HitTo(at)') >= Base' THEN 0 ELSE Base' - Cardinality(HitTo(at)')
        BY DEF Lowered
      <3> HIDE DEF g
      <3> QED
        BY <1>4, <1>11, <2>2, <2>3, <3>1
    <2>5. at' - 1 - Start' = seen + 1 /\ at' > Start'
      BY <1>2, <1>10, <2>1 DEF seen
    <2>6. /\ seen + 1 <= Base => g = seen + 1 - Len(out)
          /\ seen + 1 > Base => Len(out) > Base - g
      BY <1>10, <2>1
    <2> HIDE DEF g
    <2>7. Counted'
      <3>1. trunc' > 0 /\ old'.n > 0 /\ (cmd' = "T" => trunc' < old'.n)
        BY <1>2, <1>10, <2>1
      <3>2. /\ at' > Start' /\ Len(out') = Cardinality(KeptTo(at)')
            /\ at' - 1 - Start' <= Base' =>
                 Cardinality(HitTo(at)') = at' - 1 - Start' - Len(out')
            /\ at' - 1 - Start' > Base' => Len(out') > Base' - Cardinality(HitTo(at)')
        BY <1>4, <1>10, <1>11, <2>1, <2>2, <2>5, <2>6
      <3> QED
        BY <2>1, <2>4, <3>1, <3>2 DEF Counted, AllWritten
    <2>8. Moved'
      BY <1>1, <1>4, <2>1 DEF Moved, CnfMoved
    <2> QED
      BY <1>5, <2>1, <2>7, <2>8
  <1>13. CASE Copy
    <2>1. pc = "loop" /\ at <= old.n
      BY <1>13 DEF Copy
    <2>2. /\ Follows' /\ Len(out') = Len(out) + 1 /\ at \notin old.killed
          /\ last' = last /\ pc' = pc /\ at' = at + 1 /\ cnf' = cnf /\ idx' = idx
      BY <1>1, <1>13, <1>10, <2>1, CopyFollows
    <2>3. Cardinality(KeptTo(at')) = kept + 1 /\ Cardinality(HitTo(at')) = hits
      BY <1>10, <2>1, <2>2
    <2>4. last' = Lowered(Cardinality(HitTo(at)))'
      <3>1. Lowered(Cardinality(HitTo(at)))' =
              IF Cardinality(HitTo(at)') >= Base' THEN 0 ELSE Base' - Cardinality(HitTo(at)')
        BY DEF Lowered
      <3> QED
        BY <1>4, <1>10, <1>11, <2>1, <2>2, <2>3, <3>1
    <2>5. at' - 1 - Start' = seen + 1 /\ at' > Start'
      BY <1>2, <1>10, <2>1, <2>2 DEF seen
    <2>6. /\ seen + 1 <= Base => hits = seen + 1 - (Len(out) + 1)
          /\ seen + 1 > Base => Len(out) + 1 > Base - hits
      BY <1>10, <2>1
    <2>7. Counted'
      <3>1. trunc' > 0 /\ old'.n > 0 /\ (cmd' = "T" => trunc' < old'.n)
        BY <1>2, <1>10, <2>1
      <3>2. /\ at' > Start' /\ Len(out') = Cardinality(KeptTo(at)')
            /\ at' - 1 - Start' <= Base' =>
                 Cardinality(HitTo(at)') = at' - 1 - Start' - Len(out')
            /\ at' - 1 - Start' > Base' => Len(out') > Base' - Cardinality(HitTo(at)')
        BY <1>4, <1>10, <1>11, <2>1, <2>2, <2>3, <2>5, <2>6
      <3> QED
        BY <2>1, <2>2, <2>4, <3>1, <3>2 DEF Counted, AllWritten
    <2>8. Moved'
      BY <1>1, <1>4, <2>1, <2>2 DEF Moved, CnfMoved
    <2> QED
      BY <2>2, <2>7, <2>8
  <1>14. CASE EndLoop
    <2>1. /\ out' = out /\ recs' = recs /\ off' = off /\ last' = last /\ pc = "loop" /\ pc' = "close"
          /\ cnf' = cnf /\ idx' = idx /\ at = old.n + 1 /\ at \in Nat
      BY <1>1, <1>3, <1>14 DEF EndLoop, TypeOK, work, files
    <2>2. Len(out) = Cardinality(Kept) /\ last = Lowered(Cardinality(HitTo(old.n + 1)))
      BY <1>1, <1>3, <2>1, AllSeen DEF Counted
    <2>3. Counted'
      BY <1>1, <1>2, <1>4, <2>1, <2>2 DEF Counted, Clipping, AllWritten
    <2>4. Moved'
      BY <1>1, <1>4, <2>1 DEF Moved, CnfMoved
    <2> QED
      BY <1>5, <2>1, <2>3, <2>4
  <1>15. CASE Close
    <2>1. /\ out' = out /\ recs' = recs /\ off' = off /\ last' = last
          /\ pc = "close" /\ pc' = "unlink cnf" /\ cnf' = cnf /\ idx' = idx
          /\ tmc' = out /\ tmi' = NewIdx
      BY <1>15 DEF Close, Flushed, work, NewIdx
    <2>2. Counted'
      BY <1>1, <1>2, <1>4, <2>1 DEF Counted, Clipping, AllWritten
    <2>3. Moved'
      BY <1>1, <1>4, <1>6, <2>1 DEF Moved, CnfMoved
    <2> QED
      BY <1>5, <2>1, <2>2, <2>3
  <1>16. CASE UnlinkCnf \/ RenameCnf \/ UnlinkIdx \/ RenameIdx
    <2>1. out' = out /\ recs' = recs /\ off' = off /\ last' = last
      BY <1>16 DEF UnlinkCnf, RenameCnf, UnlinkIdx, RenameIdx, work
    <2>2. Counted'
      BY <1>1, <1>2, <1>4, <1>16, <2>1 DEF UnlinkCnf, RenameCnf, UnlinkIdx, RenameIdx,
                                           Counted, Clipping, AllWritten
    <2>3. Moved'
      BY <1>1, <1>4, <1>6, <1>16, <2>1 DEF UnlinkCnf, RenameCnf, UnlinkIdx, RenameIdx,
                                           Moved, CnfMoved
    <2> QED
      BY <1>5, <2>1, <2>2, <2>3
  <1>17. CASE Die
    <2>1. /\ out' = out /\ recs' = recs /\ off' = off /\ last' = last
          /\ cnf' = cnf /\ idx' = idx /\ pc' = "crashed"
      BY <1>17 DEF Die, work, files
    <2>2. Counted' /\ Moved'
      BY <1>1, <1>7, <2>1 DEF Counted, Clipping, AllWritten, Moved, CnfMoved
    <2> QED
      BY <1>5, <2>1, <2>2
  <1>18. CASE UNCHANGED vars
    <2>1. Counted'
      BY <1>1, <1>2, <1>4, <1>18 DEF vars, Counted
    <2>2. Moved'
      BY <1>1, <1>4, <1>6, <1>7, <1>18 DEF vars, Moved
    <2> QED
      BY <1>5, <1>18, <2>1, <2>2 DEF vars
  <1> QED
    BY <1>8, <1>9, <1>12, <1>13, <1>14, <1>15, <1>16, <1>17, <1>18 DEF Next, Step

LEMMA PInit == Init => PInv
  <1>1. Init => TypeOK
    BY ClipAssumption DEF Init, TypeOK, Labels
  <1>2. Init => Follows /\ Counted /\ Moved
    BY DEF Init, Follows, Counted, Moved, Clipping, AllWritten, CnfMoved
  <1> QED
    BY <1>1, <1>2 DEF PInv

\* Unless a read or a close goes wrong unnoticed, clip() ends with the conference
\* as it was or with a new pair whose index describes its messages, and leaves no
\* temporary file.
THEOREM EndsCleanly ==
  ASSUME {"read", "close"} \cap Faults = {}
  PROVE  Spec => []EndsClean
  <1>1. ASSUME PInv PROVE EndsClean
    <2>1. CASE pc = "unchanged"
      <3>1. cnf = OldCnf(old) /\ idx = OldIdx(old) /\ tmc = NoFile /\ tmi = NoFile
        BY <1>1, <2>1 DEF PInv, Moved
      <3>2. cnf # NoFile /\ idx # NoFile /\ PairAgrees(cnf, idx)
        BY <1>1, <3>1, OldFiles, ClipAssumption DEF PInv, TypeOK, CnfType
      <3> QED
        BY <3>1, <3>2 DEF EndsClean
    <2>2. CASE pc = "done"
      <3>1. /\ tmc = NoFile /\ tmi = NoFile
            /\ cnf = (IF out # <<>> THEN out ELSE NoFile)
            /\ idx = (IF out # <<>> THEN NewIdx ELSE NoFile)
        BY <1>1, <2>2 DEF PInv, Moved, CnfMoved
      <3>2. out # NoFile /\ NewIdx # NoFile /\ PairAgrees(out, NewIdx)
        BY <1>1, OnlySurvivors, NewPair DEF PInv
      <3> QED
        BY <2>2, <3>1, <3>2 DEF EndsClean
    <2> QED
      BY <2>1, <2>2 DEF EndsClean
  <1> QED
    BY <1>1, PInit, PStep, PTL DEF Spec

\* Seen through its files, clip() does what ClipAbs promises: the pair is the old
\* one, the purged one that ConfStore's Clip computes, or torn; and it does not
\* end torn.
THEOREM Refines ==
  ASSUME {"read", "close"} \cap Faults = {}
  PROVE  Spec => AbsSpec
  <1>1. Init => Abs!AbsInit
    <2> SUFFICES ASSUME Init PROVE Abs!AbsInit
      OBVIOUS
    <2>1. old \in Olds /\ old.n \in 0 .. MaxMsgs /\ old.n \in Nat /\ old.killed \subseteq 1 .. old.n
      BY OldType DEF Init
    <2>2. /\ Before.there = TRUE /\ Before.n = old.n
          /\ Before.killed = {k - 1 : k \in old.killed}
      BY <2>1, BeforeIs
    <2>3. Before.killed \subseteq 0 .. Before.n - 1
      BY <2>1, <2>2
    <2>4. ConfOf(cnf, idx) = Before
      BY DEF Init, Before
    <2> QED
      BY <2>1, <2>2, <2>3, <2>4, ClipAssumption DEF Init, Abs!AbsInit, Abs!Positions, Before
  <1>2. Promised /\ Promised' /\ [Next]_vars => [Abs!AbsNext]_(Abs!absVars)
    <2> SUFFICES ASSUME Promised, Promised', [Next]_vars PROVE [Abs!AbsNext]_(Abs!absVars)
      OBVIOUS
    <2>2. old' = old /\ cmd' = cmd /\ trunc' = trunc
      BY DEF Next, Step, OpenFails, OpenForNothing, Open, SkipKilled, Copy,
             CopyFails, EndLoop, Abort, Close, UnlinkCnf, RenameCnf, UnlinkIdx,
             RenameIdx, Die, vars, input
    <2>3. Before' = Before /\ Abs!After' = Abs!After
      BY <2>2 DEF Before, Abs!After, Abs!Clip, ConfOf, OldCnf, OldIdx, PairAgrees
    <2>4. CASE pc \in {"done", "unchanged"}
      <3>1. UNCHANGED vars
        BY <2>4 DEF Next, Step, OpenFails, OpenForNothing, Open, SkipKilled, Copy,
                    CopyFails, EndLoop, Abort, Close, UnlinkCnf, RenameCnf, UnlinkIdx,
                    RenameIdx, Die, Final
      <3> QED
        BY <3>1 DEF vars, Abs!absVars, ConfOf, PairAgrees
    <2>5. CASE pc \notin {"done", "unchanged"}
      BY <2>2, <2>3, <2>5 DEF Promised, Abs!AbsNext, Before, Abs!After
    <2> QED
      BY <2>4, <2>5
  <1> QED
    BY <1>1, <1>2, PInit, PStep, InvPromises, PTL DEF Spec, AbsSpec, Abs!AbsSpec
=============================================================================
