--------------------------- MODULE EditLineProofs ---------------------------
(***************************************************************************)
(* What holds of the line editor for lines of any length, any history and  *)
(* any keys: it stays inside its buffer and its history, what it kills can *)
(* be yanked back, and the history is a queue.                             *)
(***************************************************************************)
EXTENDS EditLine, Induct, SequenceTheorems, TLAPS

(***************************************************************************)
(* Least and greatest elements, and pieces of a line.                      *)
(***************************************************************************)
LEMMA MinIn ==
  ASSUME NEW T \in SUBSET Nat, T # {}
  PROVE  Min(T) \in T /\ \A y \in T : Min(T) <= y
  BY Least DEF Min

LEMMA MaxIn ==
  ASSUME NEW n \in Nat, NEW T \in SUBSET (0..n), T # {}
  PROVE  Max(T) \in T /\ \A y \in T : y <= Max(T)
  <1> DEFINE U == {n - x : x \in T}
  <1>1. U \in SUBSET Nat /\ U # {}
    <2>1. \A x \in T : x \in 0..n /\ n - x \in Nat
      OBVIOUS
    <2> QED
      BY <2>1
  <1>2. PICK u \in U : \A y \in U : u <= y
    BY <1>1, Least
  <1>3. PICK x \in T : u = n - x
    BY <1>2
  <1>4. ASSUME NEW y \in T PROVE x >= y
    <2>1. n - y \in U /\ y \in Nat /\ x \in Nat
      OBVIOUS
    <2> HIDE DEF U
    <2>2. n - x <= n - y
      BY <1>2, <1>3, <2>1
    <2> QED
      BY <2>1, <2>2
  <1>5. Max(T) \in T /\ \A y \in T : Max(T) >= y
    BY <1>4 DEF Max
  <1> QED
    BY <1>5

LEMMA MinPair ==
  ASSUME NEW a \in Nat, NEW b \in Nat
  PROVE  /\ Min({a, b}) = IF a <= b THEN a ELSE b
         /\ Max({a, b}) = IF a <= b THEN b ELSE a
  <1>1. Min({a, b}) \in {a, b} /\ Min({a, b}) <= a /\ Min({a, b}) <= b
    BY MinIn
  <1>2. \E x \in {a, b} : \A y \in {a, b} : x >= y
    OBVIOUS
  <1>3. Max({a, b}) \in {a, b} /\ Max({a, b}) >= a /\ Max({a, b}) >= b
    BY <1>2 DEF Max
  <1> QED
    BY <1>1, <1>3

LEMMA RegionIs ==
  ASSUME NEW l \in Seq(Chars), NEW a \in Nat, NEW b \in Nat, a <= b, b <= Len(l)
  PROVE  Region(l, a, b) \in Seq(Chars) /\ Len(Region(l, a, b)) = b - a
  BY DEF Region

\* Any piece of a line is a line.
LEMMA PieceType ==
  ASSUME NEW S, NEW l \in Seq(S), NEW a \in Int, NEW b \in Int, a >= 1, b <= Len(l)
  PROVE  SubSeq(l, a, b) \in Seq(S)
  OBVIOUS

LEMMA JoinType ==
  ASSUME NEW S, NEW s \in Seq(S), NEW t \in Seq(S)
  PROVE  s \o t \in Seq(S) /\ Len(s \o t) = Len(s) + Len(t)
  OBVIOUS

\* All but the last element.
LEMMA FrontIs ==
  ASSUME NEW S, NEW s \in Seq(S), Len(s) > 0
  PROVE  Front(s) \in Seq(S) /\ Len(Front(s)) = Len(s) - 1
  <1> DEFINE m == Len(s) - 1
  <1>1. Front(s) = SubSeq(s, 1, m) /\ m \in Nat /\ m <= Len(s)
    BY DEF Front
  <1> HIDE DEF m
  <1>2. SubSeq(s, 1, m) \in Seq(S) /\ Len(SubSeq(s, 1, m)) = m
    BY <1>1
  <1> QED
    BY <1>1, <1>2 DEF m

(***************************************************************************)
(* The buffer of the line.                                                 *)
(***************************************************************************)
Editor == [line : Seq(Chars), point : Nat, mark : Nat, yanked : Seq(Chars), length : Nat]

\* Point is on the line, and the line and its terminator fit the buffer.
Good(e) ==
  /\ e \in Editor
  /\ e.point <= Len(e.line)
  /\ Len(e.line) < e.length /\ MEM_INC <= e.length

LEMMA PointGood ==
  ASSUME NEW e, Good(e), NEW p \in 0..Len(e.line)
  PROVE  /\ Good([e EXCEPT !.point = p])
         /\ [e EXCEPT !.point = p].line = e.line /\ [e EXCEPT !.point = p].point = p
  BY DEF Good, Editor

LEMMA EditedGood ==
  ASSUME NEW e, Good(e), NEW l \in Seq(Chars), Len(l) <= Len(e.line), NEW p \in 0..Len(l)
  PROVE  Good([e EXCEPT !.line = l, !.point = p])
  <1> DEFINE r == [e EXCEPT !.line = l, !.point = p]
  <1>1. /\ e \in Editor /\ Len(e.line) \in Nat /\ e.length \in Nat /\ Len(l) \in Nat /\ p \in Nat
        /\ Len(e.line) < e.length /\ MEM_INC <= e.length
    BY DEF Good, Editor
  <1>2. r \in Editor /\ r.line = l /\ r.point = p /\ r.length = e.length
    BY <1>1 DEF Editor
  <1> HIDE DEF r
  <1>3. Good(r)
    BY <1>1, <1>2 DEF Good
  <1> QED
    BY <1>3 DEF r

LEMMA MarkedGood ==
  ASSUME NEW e, Good(e), NEW m \in Nat, NEW p \in 0..Len(e.line)
  PROVE  Good([e EXCEPT !.mark = m, !.point = p])
  <1> DEFINE r == [e EXCEPT !.mark = m, !.point = p]
  <1>1. /\ e \in Editor /\ Len(e.line) \in Nat /\ p \in Nat /\ p <= Len(e.line)
        /\ Len(e.line) < e.length /\ MEM_INC <= e.length
    BY DEF Good, Editor
  <1>2. r \in Editor /\ r.line = e.line /\ r.point = p /\ r.length = e.length
    BY <1>1 DEF Editor
  <1> HIDE DEF r
  <1>3. Good(r)
    BY <1>1, <1>2 DEF Good
  <1> QED
    BY <1>3 DEF r

LEMMA InsertedLine ==
  ASSUME NEW l \in Seq(Chars), NEW p \in 0..Len(l), NEW s \in Seq(Chars)
  PROVE  LET t == Region(l, 0, p) \o s \o Region(l, p, Len(l))
         IN  t \in Seq(Chars) /\ Len(t) = Len(l) + Len(s)
  <1> DEFINE a == Region(l, 0, p)
             b == Region(l, p, Len(l))
  <1>1. Len(l) \in Nat /\ p \in Nat /\ p <= Len(l) /\ Len(s) \in Nat /\ Len(l) <= Len(l)
    OBVIOUS
  <1>2. a \in Seq(Chars) /\ Len(a) = p
    BY <1>1, RegionIs
  <1>3. b \in Seq(Chars) /\ Len(b) = Len(l) - p
    <2>1. \A m \in Nat : p <= m /\ m <= Len(l) =>
            Region(l, p, m) \in Seq(Chars) /\ Len(Region(l, p, m)) = m - p
      BY <1>1, RegionIs
    <2> QED
      BY <1>1, <2>1, Zenon
  <1>4. a \o s \o b \in Seq(Chars) /\ Len(a \o s \o b) = Len(l) + Len(s)
    <2> HIDE DEF a, b
    <2>1. a \o s \in Seq(Chars) /\ Len(a \o s) = p + Len(s)
      BY <1>2, JoinType
    <2>2. a \o s \o b \in Seq(Chars) /\ Len(a \o s \o b) = Len(a \o s) + Len(b)
      BY <1>3, <2>1, JoinType
    <2> QED
      BY <1>1, <1>3, <2>1, <2>2
  <1> QED
    BY <1>4, Zenon

LEMMA InsertGood ==
  ASSUME NEW e, Good(e), NEW s \in Seq(Chars)
  PROVE  Good(InsertString(e, s))
  <1> DEFINE line == Region(e.line, 0, e.point) \o s \o Region(e.line, e.point, Len(e.line))
             r == [e EXCEPT !.line = line, !.point = e.point + Len(s),
                            !.length = Grown(e, Len(s))]
  <1>1. /\ e \in Editor /\ e.line \in Seq(Chars) /\ e.point \in Nat /\ Len(e.line) \in Nat
        /\ e.length \in Nat /\ Len(s) \in Nat /\ e.point <= Len(e.line)
        /\ Len(e.line) < e.length /\ MEM_INC <= e.length /\ MEM_INC \in Nat
    BY EditAssumption DEF Good, Editor
  <1>2. line \in Seq(Chars) /\ Len(line) = Len(e.line) + Len(s)
    <2>1. e.point \in 0..Len(e.line)
      BY <1>1
    <2> QED
      BY <1>1, <2>1, InsertedLine, Zenon
  <1>3. InsertString(e, s) = r
    BY DEF InsertString, End
  <1> HIDE DEF line
  <1>4. Grown(e, Len(s)) \in Nat /\ Len(line) < Grown(e, Len(s)) /\ MEM_INC <= Grown(e, Len(s))
    BY <1>1, <1>2, EditAssumption DEF Grown, End
  <1> DEFINE p == e.point + Len(s)
             g == Grown(e, Len(s))
  <1>5. p \in Nat /\ g \in Nat
    BY <1>1, <1>4
  <1> HIDE DEF p, g
  <1>6. r \in Editor /\ r.line = line /\ r.point = p /\ r.length = g
    BY <1>1, <1>2, <1>5 DEF Editor, p, g
  <1> HIDE DEF r
  <1> QED
    BY <1>1, <1>2, <1>3, <1>4, <1>6 DEF Good, p, g

LEMMA CutLine ==
  ASSUME NEW l \in Seq(Chars), NEW p \in Nat, NEW n \in Nat, p + n <= Len(l)
  PROVE  LET t == SubSeq(l, 1, p) \o SubSeq(l, p + n + 1, Len(l))
         IN  /\ t \in Seq(Chars) /\ Len(t) = Len(l) - n
             /\ SubSeq(l, p + 1, p + n) \in Seq(Chars)
  <1> DEFINE a == SubSeq(l, 1, p)
             b == SubSeq(l, p + n + 1, Len(l))
  <1>1. a \in Seq(Chars) /\ Len(a) = p
    OBVIOUS
  <1>2. b \in Seq(Chars) /\ Len(b) = Len(l) - (p + n)
    OBVIOUS
  <1>3. SubSeq(l, p + 1, p + n) \in Seq(Chars) /\ Len(l) \in Nat
    OBVIOUS
  <1>4. a \o b \in Seq(Chars) /\ Len(a \o b) = Len(l) - n
    <2> HIDE DEF a, b
    <2>1. a \o b \in Seq(Chars) /\ Len(a \o b) = Len(a) + Len(b)
      BY <1>1, <1>2, JoinType
    <2> QED
      BY <1>1, <1>2, <1>3, <2>1
  <1> QED
    BY <1>3, <1>4, Zenon

\* What delete_string() takes, and what it keeps for yank().
LEMMA DeleteIs ==
  ASSUME NEW e, Good(e), NEW count \in Int
  PROVE  LET n == IF e.point + count > Len(e.line) THEN Len(e.line) - e.point ELSE count
             d == DeleteString(e, count)
         IN  /\ Good(d)
             /\ \/ d.line = e.line
                \/ /\ n \in 1..(Len(e.line) - e.point)
                   /\ d.line = SubSeq(e.line, 1, e.point)
                                 \o SubSeq(e.line, e.point + n + 1, Len(e.line))
                   /\ Len(d.line) = Len(e.line) - n
                   /\ n > 1 => d.yanked = SubSeq(e.line, e.point + 1, e.point + n)
  <1> DEFINE n == IF e.point + count > Len(e.line) THEN Len(e.line) - e.point ELSE count
             line == SubSeq(e.line, 1, e.point) \o SubSeq(e.line, e.point + n + 1, Len(e.line))
             y == IF n > 1 THEN SubSeq(e.line, e.point + 1, e.point + n) ELSE e.yanked
             d == DeleteString(e, count)
  <1>1. /\ e \in Editor /\ e.line \in Seq(Chars) /\ e.point \in Nat /\ Len(e.line) \in Nat
        /\ e.length \in Nat /\ e.point <= Len(e.line) /\ e.yanked \in Seq(Chars)
        /\ Len(e.line) < e.length /\ MEM_INC <= e.length
    BY DEF Good, Editor
  <1>2. CASE count <= 0 \/ n <= 0
    <2>1. d = e
      BY <1>2 DEF DeleteString, End
    <2> QED
      BY <2>1
  <1>3. CASE ~ (count <= 0 \/ n <= 0)
    <2>1. n \in Nat /\ n \in 1..(Len(e.line) - e.point) /\ e.point + n <= Len(e.line)
      BY <1>1, <1>3
    <2>2. d = [e EXCEPT !.line = line, !.yanked = y]
      BY <1>3 DEF DeleteString, End, Region
    <2> HIDE DEF n
    <2>3. line \in Seq(Chars) /\ Len(line) = Len(e.line) - n
      BY <1>1, <2>1, CutLine
    <2>4. y \in Seq(Chars)
      BY <1>1, <2>1, CutLine
    <2> HIDE DEF line, d
    <2>5. n > 1 => y = SubSeq(e.line, e.point + 1, e.point + n)
      OBVIOUS
    <2> HIDE DEF y
    <2>6. d.line = line /\ d.yanked = y /\ d.point = e.point /\ d.length = e.length
          /\ d \in Editor
      BY <1>1, <2>2, <2>3, <2>4 DEF Editor
    <2>7. Good(d)
      BY <1>1, <2>1, <2>3, <2>6 DEF Good
    <2> QED
      BY <2>1, <2>3, <2>5, <2>6, <2>7 DEF d, n, line
  <1> QED
    BY <1>2, <1>3

(***************************************************************************)
(* Words.                                                                  *)
(***************************************************************************)
LEMMA SkipIs ==
  ASSUME NEW l \in Seq(Chars), NEW p \in 0..Len(l), NEW b \in BOOLEAN
  PROVE  Skip(l, p, b) \in p..Len(l)
  <1> DEFINE T == {i \in p..Len(l) : i = Len(l) \/ ((l[i + 1] \in Alnum) # b)}
  <1>1. Len(l) \in T /\ T \in SUBSET Nat
    OBVIOUS
  <1>2. Min(T) \in T
    BY <1>1, MinIn
  <1> QED
    BY <1>2 DEF Skip

LEMMA SkipBackIs ==
  ASSUME NEW l, NEW p \in Nat, NEW b \in BOOLEAN
  PROVE  SkipBack(l, p, b) \in 0..p
  <1> DEFINE T == {i \in 0..p : i = 0 \/ ((l[i] \in Alnum) # b)}
  <1>1. 0 \in T /\ T \in SUBSET (0..p)
    OBVIOUS
  <1>2. Max(T) \in T
    <2> HIDE DEF T
    <2> QED
      BY <1>1, MaxIn
  <1> QED
    BY <1>2 DEF SkipBack

LEMMA WordOn ==
  ASSUME NEW l \in Seq(Chars), NEW a \in Nat, NEW p \in a..Len(l)
  PROVE  Skip(l, Skip(l, p, FALSE), TRUE) \in a..Len(l)
  <1>1. p \in 0..Len(l) /\ Len(l) \in Nat
    OBVIOUS
  <1>2. PICK q \in p..Len(l) : q = Skip(l, p, FALSE)
    BY <1>1, SkipIs
  <1>3. q \in 0..Len(l)
    BY <1>1
  <1>4. PICK r \in q..Len(l) : r = Skip(l, q, TRUE)
    BY <1>3, SkipIs
  <1>5. r \in a..Len(l)
    OBVIOUS
  <1> QED
    BY <1>2, <1>4, <1>5, Zenon

LEMMA WordBack ==
  ASSUME NEW l, NEW a \in Nat, NEW p \in 0..a
  PROVE  SkipBack(l, SkipBack(l, p, FALSE), TRUE) \in 0..a
  <1>1. p \in Nat
    OBVIOUS
  <1>2. PICK q \in 0..p : q = SkipBack(l, p, FALSE)
    BY <1>1, SkipBackIs
  <1>3. q \in Nat
    OBVIOUS
  <1>4. PICK r \in 0..q : r = SkipBack(l, q, TRUE)
    BY <1>3, SkipBackIs
  <1>5. r \in 0..a
    OBVIOUS
  <1> QED
    BY <1>2, <1>4, <1>5, Zenon

\* do_forward() stays on the line, and does not go back.
LEMMA ForwardIs ==
  ASSUME NEW e, Good(e), Turns \in Nat
  PROVE  Forward(e) \in e.point..Len(e.line)
  <1> DEFINE D == e.point..Len(e.line)
             Word(p) == Skip(e.line, Skip(e.line, p, FALSE), TRUE)
             Rule(h) == h = [n \in 0..Turns |-> IF n = 0 THEN e.point ELSE Word(h[n - 1])]
             G == [p \in D |-> Word(p)]
             F == CHOOSE h : Rule(h)
  <1>1. e.line \in Seq(Chars) /\ e.point \in Nat /\ Len(e.line) \in Nat /\ e.point \in D
    BY DEF Good, Editor
  <1>2. ASSUME NEW p \in D PROVE Word(p) \in D
    BY <1>1, <1>2, WordOn
  <1>3. Forward(e) = F[Turns]
    BY DEF Forward
  <1> HIDE DEF D, Word
  <1>4. G \in [D -> D] /\ \A p \in D : G[p] = Word(p)
    BY <1>2
  <1> HIDE DEF G
  <1>5. PICK h : Iterates(D, G, e.point, Turns, h)
    BY <1>1, <1>4, Iterated
  <1>6. h \in [0..Turns -> D] /\ \A n \in 0..Turns : h[n] = IF n = 0 THEN e.point ELSE G[h[n - 1]]
    BY <1>5 DEF Iterates
  <1>7. Rule(h)
    <2>1. ASSUME NEW n \in 0..Turns PROVE h[n] = IF n = 0 THEN e.point ELSE Word(h[n - 1])
      <3>1. n # 0 => n - 1 \in 0..Turns /\ h[n - 1] \in D
        BY <1>6
      <3> QED
        BY <1>4, <1>6, <3>1
    <2> QED
      BY <1>6, <2>1
  <1>8. Rule(F)
    <2> HIDE DEF Rule
    <2> QED
      BY <1>7
  <1> HIDE DEF F
  <1>9. \A n \in 0..Turns : F[n] = IF n = 0 THEN e.point ELSE Word(F[n - 1])
    BY <1>8
  <1> DEFINE S == {n \in Nat : n <= Turns => F[n] \in D}
  <1>10. 0 \in S
    BY <1>1, <1>9
  <1>11. ASSUME NEW n \in Nat, n \in S PROVE n + 1 \in S
    <2>1. n + 1 <= Turns => n <= Turns /\ n + 1 \in 0..Turns /\ n + 1 # 0 /\ (n + 1) - 1 = n
      OBVIOUS
    <2> QED
      BY <1>2, <1>9, <1>11, <2>1
  <1> HIDE DEF S
  <1>12. Turns \in S
    BY <1>10, <1>11, Induction
  <1> QED
    BY <1>3, <1>12 DEF S, D

\* bk_word() stays on the line, and does not go on.
LEMMA BackwardIs ==
  ASSUME NEW e, Good(e), Turns \in Nat
  PROVE  Backward(e) \in 0..e.point
  <1> DEFINE D == 0..e.point
             Word(p) == SkipBack(e.line, SkipBack(e.line, p, FALSE), TRUE)
             Rule(h) == h = [n \in 0..Turns |-> IF n = 0 THEN e.point ELSE Word(h[n - 1])]
             G == [p \in D |-> Word(p)]
             F == CHOOSE h : Rule(h)
  <1>1. e.point \in Nat /\ e.point \in D
    BY DEF Good, Editor
  <1>2. ASSUME NEW p \in D PROVE Word(p) \in D
    BY <1>1, <1>2, WordBack
  <1>3. Backward(e) = F[Turns]
    BY DEF Backward
  <1> HIDE DEF D, Word
  <1>4. G \in [D -> D] /\ \A p \in D : G[p] = Word(p)
    BY <1>2
  <1> HIDE DEF G
  <1>5. PICK h : Iterates(D, G, e.point, Turns, h)
    BY <1>1, <1>4, Iterated
  <1>6. h \in [0..Turns -> D] /\ \A n \in 0..Turns : h[n] = IF n = 0 THEN e.point ELSE G[h[n - 1]]
    BY <1>5 DEF Iterates
  <1>7. Rule(h)
    <2>1. ASSUME NEW n \in 0..Turns PROVE h[n] = IF n = 0 THEN e.point ELSE Word(h[n - 1])
      <3>1. n # 0 => n - 1 \in 0..Turns /\ h[n - 1] \in D
        BY <1>6
      <3> QED
        BY <1>4, <1>6, <3>1
    <2> QED
      BY <1>6, <2>1
  <1>8. Rule(F)
    <2> HIDE DEF Rule
    <2> QED
      BY <1>7
  <1> HIDE DEF F
  <1>9. \A n \in 0..Turns : F[n] = IF n = 0 THEN e.point ELSE Word(F[n - 1])
    BY <1>8
  <1> DEFINE S == {n \in Nat : n <= Turns => F[n] \in D}
  <1>10. 0 \in S
    BY <1>1, <1>9
  <1>11. ASSUME NEW n \in Nat, n \in S PROVE n + 1 \in S
    <2>1. n + 1 <= Turns => n <= Turns /\ n + 1 \in 0..Turns /\ n + 1 # 0 /\ (n + 1) - 1 = n
      OBVIOUS
    <2> QED
      BY <1>2, <1>9, <1>11, <2>1
  <1> HIDE DEF S
  <1>12. Turns \in S
    BY <1>10, <1>11, Induction
  <1> QED
    BY <1>3, <1>12 DEF S, D

(***************************************************************************)
(* Operations of one key.                                                  *)
(***************************************************************************)
LEMMA CaseGood ==
  ASSUME NEW e, Good(e), Turns \in Nat, NEW fold \in [Chars -> Chars]
  PROVE  Good(DoCase(e, fold))
  <1> DEFINE to == Forward(e)
             line == [i \in DOMAIN e.line |-> IF i > e.point /\ i <= to THEN fold[e.line[i]]
                                              ELSE e.line[i]]
             r == [e EXCEPT !.line = line, !.point = to]
  <1>1. /\ e \in Editor /\ e.line \in Seq(Chars) /\ e.point \in Nat /\ Len(e.line) \in Nat
        /\ Len(e.line) < e.length /\ MEM_INC <= e.length
    BY DEF Good, Editor
  <1>2. to \in e.point..Len(e.line)
    BY ForwardIs
  <1>3. DoCase(e, fold) = r
    BY DEF DoCase
  <1> HIDE DEF to
  <1>4. line \in Seq(Chars) /\ Len(line) = Len(e.line)
    <2>1. DOMAIN e.line = 1..Len(e.line) /\ \A i \in 1..Len(e.line) : e.line[i] \in Chars
      BY <1>1
    <2>2. line \in [1..Len(e.line) -> Chars]
      BY <2>1
    <2> QED
      BY <1>1, <2>2
  <1> HIDE DEF line
  <1>5. to \in Nat /\ to <= Len(e.line)
    BY <1>1, <1>2
  <1>6. r \in Editor /\ r.line = line /\ r.point = to /\ r.length = e.length
    BY <1>1, <1>4, <1>5 DEF Editor
  <1> HIDE DEF r
  <1> QED
    BY <1>1, <1>3, <1>4, <1>5, <1>6 DEF Good

\* What ^K and ^U take, and keep.
LEMMA KillIs ==
  ASSUME NEW e, Good(e)
  PROVE  LET d == KillRest(e)
         IN  /\ Good(d)
             /\ d.line = SubSeq(e.line, 1, e.point) /\ Len(d.line) = e.point
             /\ d.yanked = SubSeq(e.line, e.point + 1, Len(e.line))
  <1> DEFINE line == SubSeq(e.line, 1, e.point)
             y == SubSeq(e.line, e.point + 1, Len(e.line))
             d == KillRest(e)
  <1>1. /\ e \in Editor /\ e.line \in Seq(Chars) /\ e.point \in Nat /\ Len(e.line) \in Nat
        /\ e.point <= Len(e.line) /\ Len(e.line) < e.length /\ MEM_INC <= e.length
        /\ e.length \in Nat /\ MEM_INC \in Nat
    BY EditAssumption DEF Good, Editor
  <1>2. line \in Seq(Chars) /\ Len(line) = e.point /\ y \in Seq(Chars)
    BY <1>1
  <1>3. d = [e EXCEPT !.yanked = y, !.line = line]
    BY DEF KillRest, Region, End
  <1> HIDE DEF line, y, d
  <1>4. d.line = line /\ d.yanked = y /\ d.point = e.point /\ d.length = e.length /\ d \in Editor
    BY <1>1, <1>2, <1>3 DEF Editor
  <1>5. Good(d)
    BY <1>1, <1>2, <1>4 DEF Good
  <1> QED
    BY <1>2, <1>4, <1>5 DEF line, y, d

\* The least and greatest of Turns and a position.
LEMMA TurnsBack ==
  ASSUME Turns \in Nat, NEW p \in Nat
  PROVE  Min({Turns, p}) \in 0..p
  BY MinPair

LEMMA BkDelIs ==
  ASSUME NEW e, Good(e), Turns \in Nat
  PROVE  LET n == Min({Turns, e.point})
         IN  /\ Good([e EXCEPT !.point = e.point - n])
             /\ [e EXCEPT !.point = e.point - n].line = e.line
             /\ n \in Int
             /\ BkDelChar(e) = DeleteString([e EXCEPT !.point = e.point - n], n)
  <1> DEFINE n == Min({Turns, e.point})
  <1>1. e.point \in Nat /\ Len(e.line) \in Nat /\ e.point <= Len(e.line)
    BY DEF Good, Editor
  <1>2. n \in 0..e.point
    BY <1>1, TurnsBack
  <1>3. BkDelChar(e) = DeleteString([e EXCEPT !.point = e.point - n], n)
    BY DEF BkDelChar
  <1> HIDE DEF n
  <1>4. e.point - n \in 0..Len(e.line) /\ n \in Int
    BY <1>1, <1>2
  <1>5. Good([e EXCEPT !.point = e.point - n]) /\ [e EXCEPT !.point = e.point - n].line = e.line
    BY <1>4, PointGood
  <1> QED
    BY <1>3, <1>4, <1>5 DEF n

LEMMA FindWordIs ==
  ASSUME NEW e, Good(e)
  PROVE  FindWord(e) \in Seq(Chars)
  <1> DEFINE T == {i \in 0..e.point : i = 0 \/ e.line[i] = Blank}
  <1>1. e.point \in Nat /\ e.line \in Seq(Chars) /\ Len(e.line) \in Nat /\ e.point <= Len(e.line)
    BY DEF Good, Editor
  <1>2. 0 \in T /\ T \in SUBSET (0..e.point)
    BY <1>1
  <1>3. Max(T) \in T
    <2> HIDE DEF T
    <2> QED
      BY <1>1, <1>2, MaxIn
  <1>4. Max(T) \in Nat /\ Max(T) <= e.point
    BY <1>1, <1>3
  <1>5. FindWord(e) = Region(e.line, Max(T), e.point)
    BY DEF FindWord
  <1> HIDE DEF T
  <1> QED
    BY <1>1, <1>4, <1>5, RegionIs

\* The longest common prefix of some file names is a text.
LEMMA CommonIs ==
  ASSUME NEW M \in SUBSET Seq(Chars), M # {}
  PROVE  LongestCommonPrefix(M) \in Seq(Chars)
  <1> DEFINE C == CommonPrefixes(M)
  <1>1. PICK t \in M : t \in Seq(Chars)
    OBVIOUS
  <1>2. \A c \in C : c \in Seq(Chars) /\ Len(c) \in 0..Len(t)
    <2>1. ASSUME NEW c \in C PROVE c \in Seq(Chars) /\ Len(c) \in 0..Len(t)
      <3>1. PICK s \in M : c \in Prefixes(s)
        BY DEF CommonPrefixes
      <3>2. s \in Seq(Chars)
        OBVIOUS
      <3>3. PICK l \in 0..Len(s) : c = SubSeq(s, 1, l)
        BY <3>1 DEF Prefixes
      <3>4. c \in Seq(Chars)
        BY <3>2, <3>3, PieceType
      <3>5. Len(c) <= Len(t)
        BY DEF CommonPrefixes, IsPrefix
      <3> QED
        BY <1>1, <3>4, <3>5
    <2> QED
      BY <2>1
  <1>3. <<>> \in C
    <2>1. \A s \in M : <<>> \in Prefixes(s) /\ IsPrefix(<<>>, s)
      BY DEF Prefixes, IsPrefix
    <2> QED
      BY <1>1, <2>1 DEF CommonPrefixes
  <1> HIDE DEF C
  <1> DEFINE T == {Len(c) : c \in C}
  <1>4. Len(t) \in Nat /\ T \in SUBSET (0..Len(t)) /\ T # {}
    <2>1. T \in SUBSET (0..Len(t))
      BY <1>2
    <2>2. Len(<<>>) \in T
      BY <1>3
    <2> QED
      BY <1>1, <2>1, <2>2
  <1>5. Max(T) \in T /\ \A y \in T : y <= Max(T)
    <2> HIDE DEF T
    <2> QED
      BY <1>4, MaxIn
  <1>6. \E longest \in C : \A other \in C : Len(other) <= Len(longest)
    BY <1>5
  <1>7. LongestCommonPrefix(M) \in C
    BY <1>6 DEF LongestCommonPrefix, C
  <1> QED
    BY <1>2, <1>7

\* What rl_complete() adds to a word.
LEMMA CompletionIs ==
  ASSUME NEW w \in Seq(Chars)
  PROVE  Completion(w) \in Seq(Chars)
  <1> DEFINE M == Matches(w)
             f == CHOOSE f \in M : TRUE
             p == LongestCommonPrefix(M)
  <1>1. M \in SUBSET Seq(Chars) /\ Blank \in Chars /\ NilStr \in Seq(Chars) /\ Len(w) \in Nat
    BY EditAssumption DEF Matches, NilStr
  <1>2. CASE M = {}
    BY <1>1, <1>2 DEF Completion
  <1>3. CASE M # {}
    <2>1. f \in Seq(Chars)
      BY <1>1, <1>3
    <2>2. p \in Seq(Chars)
      BY <1>1, <1>3, CommonIs
    <2>3. Completion(w) \in {NilStr, Append(SubSeq(f, Len(w) + 1, Len(f)), Blank),
                             SubSeq(p, Len(w) + 1, Len(p))}
      BY DEF Completion
    <2> HIDE DEF f, p
    <2>4. SubSeq(f, Len(w) + 1, Len(f)) \in Seq(Chars) /\ SubSeq(p, Len(w) + 1, Len(p)) \in Seq(Chars)
      BY <1>1, <2>1, <2>2
    <2>5. Append(SubSeq(f, Len(w) + 1, Len(f)), Blank) \in Seq(Chars)
      BY <1>1, <2>4
    <2> QED
      BY <1>1, <2>3, <2>4, <2>5
  <1> QED
    BY <1>2, <1>3

\* The arguments of a line.
LEMMA ArgIs ==
  ASSUME NEW l \in Seq(Chars)
  PROVE  Text(l) \in Seq(Chars) /\ \A i \in ArgStarts(Text(l)) : Arg(Text(l), i) \in Seq(Chars)
  <1> DEFINE T == {i \in DOMAIN l : l[i] # Blank}
  <1>1. DOMAIN l = 1..Len(l) /\ Len(l) \in Nat /\ NilStr \in Seq(Chars)
    BY DEF NilStr
  <1>2. Text(l) \in Seq(Chars)
    <2>1. CASE T = {}
      BY <1>1, <2>1 DEF Text
    <2>2. CASE T # {}
      <3>1. T \in SUBSET Nat
        BY <1>1
      <3>2. Min(T) \in T
        <4> HIDE DEF T
        <4> QED
          BY <2>2, <3>1, MinIn
      <3>3. Min(T) \in 1..Len(l)
        BY <1>1, <3>2
      <3>4. SubSeq(l, Min(T), Len(l)) \in Seq(Chars)
        <4> HIDE DEF T
        <4> QED
          BY <1>1, <3>3
      <3> QED
        BY <2>2, <3>4, Zenon DEF Text
    <2> QED
      BY <2>1, <2>2
  <1>3. ASSUME NEW t \in Seq(Chars), NEW i \in ArgStarts(t) PROVE Arg(t, i) \in Seq(Chars)
    <2> DEFINE U == {j \in i..(Len(t) + 1) : j > Len(t) \/ t[j] = Blank}
    <2>1. i \in 1..Len(t) /\ Len(t) \in Nat
      BY <1>3 DEF ArgStarts
    <2>2. Len(t) + 1 \in U /\ U \in SUBSET Nat
      BY <2>1
    <2>3. Min(U) \in U /\ Min(U) <= Len(t) + 1
      <3> HIDE DEF U
      <3> QED
        BY <2>2, MinIn
    <2>4. Min(U) - 1 \in Int /\ Min(U) - 1 <= Len(t) /\ i >= 1 /\ i \in Int
      BY <2>1, <2>3
    <2>5. Arg(t, i) = SubSeq(t, i, Min(U) - 1)
      BY DEF Arg
    <2> HIDE DEF U
    <2> DEFINE b == Min(U) - 1
    <2>6. b \in Int /\ b <= Len(t)
      BY <2>4
    <2> HIDE DEF b
    <2>7. SubSeq(t, i, b) \in Seq(Chars)
      BY <2>4, <2>6, PieceType
    <2> QED
      BY <2>5, <2>7 DEF b
  <1> QED
    BY <1>2, <1>3

(***************************************************************************)
(* The inductive invariant.  Between prompts Pos may be one past the last  *)
(* slot; while a line is edited, the last slot is that line's own.         *)
(***************************************************************************)
History == [lines : Seq(Seq(Chars)), pos : Nat]

HistGood == /\ hist \in History
            /\ Len(hist.lines) <= HIST_SIZE
            /\ mode = "idle" => hist.pos <= Len(hist.lines)
            /\ mode # "idle" => hist.pos < Len(hist.lines)

EInv == /\ mode \in {"idle", "edit", "wild"}
        /\ Good(ed)
        /\ repeat \in Counts \cup {NO_ARG}
        /\ HistGood
        /\ luxptr \in Preloads \cup {NilStr}
        /\ got \in Seq(Chars)

LEMMA Types == EInv => TypeOK
  <1> SUFFICES ASSUME EInv PROVE TypeOK
    OBVIOUS
  <1>1. /\ ed.line \in Seq(Chars) /\ ed.point \in 0..End(ed) /\ ed.mark \in Nat
        /\ ed.yanked \in Seq(Chars) /\ End(ed) < ed.length
    BY DEF EInv, Good, Editor, End
  <1>2. hist.pos \in Nat /\ Len(hist.lines) \in Nat
    BY DEF EInv, HistGood, History
  <1>3. hist.pos \in 0..(IF mode = "idle" THEN Len(hist.lines) ELSE Len(hist.lines) - 1)
    BY <1>2 DEF EInv, HistGood
  <1> QED
    BY <1>1, <1>3 DEF TypeOK, EInv, HistGood

\* The count of a key, in a state of the editor.
LEMMA TurnsIs ==
  ASSUME EInv
  PROVE  Turns \in Nat /\ repeat \in Int
  BY EditAssumption DEF EInv, Turns, NO_ARG

LEMMA InitInv == Init => EInv
  <1> SUFFICES ASSUME Init PROVE EInv
    OBVIOUS
  <1>1. Good(ed)
    <2>1. NilStr \in Seq(Chars) /\ Len(NilStr) = 0 /\ MEM_INC \in Nat \ {0}
      BY EditAssumption DEF NilStr
    <2> QED
      BY <2>1 DEF Init, Good, Editor
  <1>2. HistGood
    BY EditAssumption DEF Init, HistGood, History
  <1> QED
    BY <1>1, <1>2 DEF Init, EInv, NilStr

(***************************************************************************)
(* Steps, by what they leave alone.                                        *)
(***************************************************************************)
\* What the proofs ask of a step: the invariant holds after it, and the
\* lines in the history are kept.
Keeps == EInv' /\ Saved' = Saved

LEMMA StutterKeeps ==
  ASSUME EInv, UNCHANGED vars
  PROVE  Keeps
  BY DEF vars, Keeps, Saved, EInv, HistGood

LEMMA EmacsKeeps ==
  ASSUME EInv, NEW key, NEW e, Good(e), Emacs(key, e)
  PROVE  Keeps
  <1>1. /\ mode' = mode /\ ed' = e /\ repeat' = NO_ARG /\ hist' = hist
        /\ luxptr' = luxptr /\ got' = got
    BY DEF Emacs, Unsearched
  <1>2. HistGood' /\ Saved' = Saved
    BY <1>1 DEF EInv, HistGood, Saved
  <1>3. EInv'
    BY <1>1, <1>2 DEF EInv
  <1> QED
    BY <1>2, <1>3 DEF Keeps

LEMMA SpecialKeeps ==
  ASSUME EInv, NEW key, NEW e, Good(e), NEW n \in Counts \cup {NO_ARG}, Special(key, e, n)
  PROVE  Keeps
  <1>1. /\ mode' = mode /\ ed' = e /\ repeat' = n /\ hist' = hist
        /\ luxptr' = luxptr /\ got' = got
    BY DEF Special, Unsearched
  <1>2. HistGood' /\ Saved' = Saved
    BY <1>1 DEF EInv, HistGood, Saved
  <1>3. EInv'
    BY <1>1, <1>2 DEF EInv
  <1> QED
    BY <1>2, <1>3 DEF Keeps

LEMMA WildKeeps ==
  ASSUME EInv, NEW key, Wild(key)
  PROVE  Keeps
  <1>1. /\ mode = "edit" /\ mode' = "wild" /\ ed' = ed /\ repeat' = repeat /\ hist' = hist
        /\ luxptr' = luxptr /\ got' = got
    BY DEF Wild
  <1>2. HistGood' /\ Saved' = Saved
    BY <1>1 DEF EInv, HistGood, Saved
  <1>3. EInv'
    BY <1>1, <1>2 DEF EInv
  <1> QED
    BY <1>2, <1>3 DEF Keeps

\* Pos moves to a slot in use.
LEMMA RecalledGood ==
  ASSUME NEW e, Good(e), EInv, NEW p \in 0..(Len(hist.lines) - 1)
  PROVE  Good(Recalled(e, p))
  <1> DEFINE c == [e EXCEPT !.line = NilStr, !.point = 0]
  <1>1. Good(c)
    <2>1. NilStr \in Seq(Chars) /\ Len(NilStr) = 0 /\ MEM_INC \in Nat \ {0}
      BY EditAssumption DEF NilStr
    <2>2. e \in Editor /\ MEM_INC <= e.length /\ e.length \in Nat
      BY DEF Good, Editor
    <2>3. c \in Editor /\ c.line = NilStr /\ c.point = 0 /\ c.length = e.length
      BY <2>1, <2>2 DEF Editor
    <2> HIDE DEF c
    <2> QED
      BY <2>1, <2>2, <2>3 DEF Good
  <1>2. hist.lines[p + 1] \in Seq(Chars)
    <2>1. hist.lines \in Seq(Seq(Chars))
      BY DEF EInv, HistGood, History
    <2>2. p + 1 \in 1..Len(hist.lines)
      BY <2>1
    <2> QED
      BY <2>1, <2>2
  <1>3. Recalled(e, p) = InsertString(c, hist.lines[p + 1])
    BY DEF Recalled
  <1> HIDE DEF c
  <1> QED
    BY <1>1, <1>2, <1>3, InsertGood

LEMMA RecallKeeps ==
  ASSUME EInv, NEW key, NEW p \in 0..(Len(hist.lines) - 1), NEW reached, Recall(key, p, reached)
  PROVE  Keeps
  <1>1. /\ mode = "edit" /\ mode' = mode /\ repeat' = NO_ARG /\ hist' = [hist EXCEPT !.pos = p]
        /\ luxptr' = luxptr /\ got' = got
        /\ ed' = IF reached THEN Recalled(ed, p) ELSE ed
    BY DEF Recall, Unsearched
  <1>2. Good(ed)
    BY DEF EInv
  <1>3. Good(ed')
    BY <1>1, <1>2, RecalledGood
  <1>4. hist \in History /\ Len(hist.lines) \in Nat
    BY DEF EInv, HistGood, History
  <1>5. hist' \in History /\ hist'.lines = hist.lines /\ hist'.pos = p
    <2>1. p \in Nat
      BY <1>4
    <2> QED
      BY <1>1, <1>4, <2>1 DEF History
  <1>6. HistGood' /\ Saved' = Saved
    BY <1>1, <1>4, <1>5 DEF EInv, HistGood, Saved
  <1>7. EInv'
    BY <1>1, <1>3, <1>6 DEF EInv
  <1> QED
    BY <1>6, <1>7 DEF Keeps

(***************************************************************************)
(* The history.                                                            *)
(***************************************************************************)
\* A text is put behind the others; a full history gives up its oldest one.
LEMMA HistAddIs ==
  ASSUME NEW h \in History, Len(h.lines) <= HIST_SIZE, NEW p \in Seq(Chars)
  PROVE  LET all == IF Len(h.lines) = HIST_SIZE THEN Tail(h.lines) ELSE h.lines
             r   == HistAdd(h, p)
         IN  /\ r \in History /\ r.lines = Append(all, p)
             /\ Len(r.lines) <= HIST_SIZE /\ r.pos < Len(r.lines)
             /\ Front(r.lines) = all /\ Last(r.lines) = p /\ r.lines # NilStr
  <1> DEFINE L == h.lines
             all == IF Len(L) = HIST_SIZE THEN Tail(L) ELSE L
             r == HistAdd(h, p)
  <1>1. L \in Seq(Seq(Chars)) /\ Len(L) \in Nat /\ HIST_SIZE \in Nat /\ HIST_SIZE > 1
    BY EditAssumption DEF History
  <1>2. r = [lines |-> Append(all, p), pos |-> Len(all)]
    <2>1. all = IF Len(L) < HIST_SIZE THEN L ELSE Tail(L)
      BY <1>1
    <2> QED
      BY <2>1, Zenon DEF HistAdd
  <1> HIDE DEF r
  <1>3. all \in Seq(Seq(Chars)) /\ Len(all) \in Nat /\ Len(all) + 1 <= HIST_SIZE
    <2> HIDE DEF L
    <2>1. CASE Len(L) = HIST_SIZE
      <3>1. L # << >>
        BY <1>1, <2>1
      <3>2. Tail(L) \in Seq(Seq(Chars)) /\ Len(Tail(L)) = Len(L) - 1
        BY <1>1, <3>1
      <3> QED
        BY <1>1, <2>1, <3>2
    <2>2. CASE Len(L) # HIST_SIZE
      BY <1>1, <2>2 DEF L
    <2> QED
      BY <2>1, <2>2
  <1> HIDE DEF all
  <1> DEFINE q == Append(all, p)
  <1>4. q \in Seq(Seq(Chars)) /\ Len(q) = Len(all) + 1 /\ q[Len(all) + 1] = p
    BY <1>3
  <1>5. Front(q) = all
    <2>1. Front(q) = SubSeq(q, 1, Len(all))
      BY <1>3, <1>4 DEF Front
    <2>2. SubSeq(q, 1, Len(all)) = all
      BY <1>3
    <2> QED
      BY <2>1, <2>2
  <1>6. Last(q) = p /\ q # << >>
    BY <1>3, <1>4 DEF Last
  <1> HIDE DEF q
  <1>7. r.lines = q /\ r.pos = Len(all) /\ r \in History
    BY <1>2, <1>3, <1>4 DEF History, q
  <1> QED
    BY <1>3, <1>4, <1>5, <1>6, <1>7 DEF r, all, L, q, NilStr

\* What a step may do to the lines in the history (HistoryIsQueue).
Queued == LET rest == IF Len(Saved) = HIST_SIZE THEN Tail(Saved) ELSE Saved
          IN  \/ Saved' \in {Saved, rest}
              \/ Saved' # NilStr /\ Front(Saved') = rest /\ Last(Saved') # NilStr

LEMMA PreloadIs ==
  ASSUME NEW pre \in Preloads \cup {NilStr}
  PROVE  pre \in Seq(Chars) /\ Len(pre) < MEM_INC
  <1>1. CASE pre = NilStr
    BY <1>1, EditAssumption DEF NilStr
  <1>2. CASE pre \in Preloads
    BY <1>2, EditAssumption
  <1> QED
    BY <1>1, <1>2

LEMMA FreshGood ==
  ASSUME NEW e, Good(e), NEW pre \in Preloads \cup {NilStr}
  PROVE  Good(Fresh(e, pre))
  <1>1. pre \in Seq(Chars) /\ Len(pre) < MEM_INC /\ Len(pre) \in Nat
    BY PreloadIs
  <1>2. e \in Editor /\ MEM_INC <= e.length /\ e.length \in Nat /\ MEM_INC \in Nat
    BY EditAssumption DEF Good, Editor
  <1> DEFINE r == Fresh(e, pre)
  <1>3. r \in Editor /\ r.line = pre /\ r.point = 0 /\ r.length = e.length
    BY <1>1, <1>2 DEF Fresh, Editor
  <1> HIDE DEF r
  <1>4. Good(r)
    BY <1>1, <1>2, <1>3 DEF Good
  <1> QED
    BY <1>4 DEF r

LEMMA ReadlineStep ==
  ASSUME EInv, NEW pre \in Preloads, Readline(pre)
  PROVE  EInv' /\ Queued
  <1>1. /\ mode = "idle" /\ mode' = "edit" /\ ed' = Fresh(ed, pre) /\ repeat' = NO_ARG
        /\ hist' = HistAdd(hist, NilStr) /\ got' = NilStr /\ luxptr' = pre
    BY DEF Readline
  <1>2. Good(ed')
    BY <1>1, FreshGood DEF EInv
  <1>3. hist \in History /\ Len(hist.lines) <= HIST_SIZE /\ NilStr \in Seq(Chars)
    BY DEF EInv, HistGood, NilStr
  <1> DEFINE all == IF Len(hist.lines) = HIST_SIZE THEN Tail(hist.lines) ELSE hist.lines
  <1>4. /\ hist' \in History /\ Len(hist'.lines) <= HIST_SIZE
        /\ hist'.pos < Len(hist'.lines) /\ Front(hist'.lines) = all
    BY <1>1, <1>3, HistAddIs, Zenon
  <1>5. HistGood'
    BY <1>1, <1>4 DEF HistGood
  <1>6. EInv'
    BY <1>1, <1>2, <1>3, <1>5 DEF EInv
  <1>7. Saved = hist.lines /\ Saved' = all
    BY <1>1, <1>4 DEF Saved
  <1> QED
    BY <1>6, <1>7 DEF Queued

LEMMA AddHistoryStep ==
  ASSUME EInv, NEW p \in {got} \cup Preloads, AddHistory(p)
  PROVE  EInv' /\ Queued
  <1>1. /\ mode = "idle" /\ mode' = mode /\ ed' = ed /\ repeat' = repeat
        /\ hist' = AddTo(hist, p) /\ got' = got /\ luxptr' = luxptr
    BY DEF AddHistory
  <1>2. p \in Seq(Chars)
    BY PreloadIs DEF EInv
  <1>3. hist \in History /\ Len(hist.lines) <= HIST_SIZE
    BY DEF EInv, HistGood
  <1> DEFINE all == IF Len(hist.lines) = HIST_SIZE THEN Tail(hist.lines) ELSE hist.lines
  <1>4. CASE hist' = hist
    <2>1. HistGood' /\ Saved' = Saved
      BY <1>1, <1>4 DEF EInv, HistGood, Saved
    <2>2. EInv'
      BY <1>1, <2>1 DEF EInv
    <2> QED
      BY <2>1, <2>2 DEF Queued
  <1>5. CASE hist' # hist
    <2>1. hist' = HistAdd(hist, p) /\ p # NilStr
      BY <1>1, <1>5 DEF AddTo
    <2>2. /\ hist' \in History /\ Len(hist'.lines) <= HIST_SIZE
          /\ hist'.pos < Len(hist'.lines) /\ Front(hist'.lines) = all
          /\ Last(hist'.lines) = p /\ hist'.lines # NilStr
      BY <1>2, <1>3, <2>1, HistAddIs, Zenon
    <2>3. hist'.pos \in Nat /\ Len(hist'.lines) \in Nat
      BY <2>2 DEF History
    <2>4. HistGood'
      BY <1>1, <2>2, <2>3 DEF HistGood
    <2>5. EInv'
      BY <1>1, <2>4 DEF EInv
    <2>6. Saved = hist.lines /\ Saved' = hist'.lines
      BY <1>1 DEF Saved
    <2> QED
      BY <2>1, <2>2, <2>5, <2>6 DEF Queued
  <1> QED
    BY <1>4, <1>5

\* search_hist() finds slots in use.
LEMMA FoundIs ==
  ASSUME EInv, NEW pat, NEW dir, Found(pat, dir) # {}
  PROVE  /\ Max(Found(pat, dir)) \in 0..(Len(hist.lines) - 1)
         /\ Min(Found(pat, dir)) \in 0..(Len(hist.lines) - 1)
  <1> DEFINE F == Found(pat, dir)
             n == Len(hist.lines) - 1
  <1>1. F \in SUBSET (0..n)
    BY DEF Found
  <1>2. Len(hist.lines) \in Nat
    BY DEF EInv, HistGood, History
  <1> HIDE DEF F
  <1>3. n \in Nat
    BY <1>1, <1>2 DEF F
  <1>4. F # {}
    BY DEF F
  <1> HIDE DEF n
  <1>5. F \in SUBSET Nat
    BY <1>1, <1>3
  <1>6. Max(F) \in F /\ Min(F) \in F
    BY <1>1, <1>3, <1>4, <1>5, MaxIn, MinIn
  <1> QED
    BY <1>1, <1>6 DEF F, n

LEMMA KeepsQueued ==
  ASSUME Keeps
  PROVE  EInv' /\ Queued
  BY DEF Keeps, Queued

LEMMA ReturnsKeep ==
  ASSUME EInv, NEW text \in Seq(Chars), mode = "edit", Returns(text)
  PROVE  Keeps
  <1>1. hist \in History /\ Len(hist.lines) \in Nat /\ HistGood /\ Good(ed)
    BY DEF EInv, HistGood, History
  <1>2. CASE searching = "no"
    <2>1. /\ mode' = "idle" /\ got' = text /\ hist' = Popped(hist) /\ repeat' = NO_ARG
          /\ ed' = ed /\ luxptr' = luxptr
      BY <1>2 DEF Returns, Unsearched
    <2> DEFINE L == hist.lines
               f == Front(L)
    <2>2. L \in Seq(Seq(Chars)) /\ Len(L) \in Nat /\ hist.pos \in Nat /\ hist.pos < Len(L)
          /\ Len(L) <= HIST_SIZE
      BY <1>1 DEF HistGood, History
    <2>3. f \in Seq(Seq(Chars)) /\ Len(f) = Len(L) - 1
      <3> HIDE DEF L
      <3> QED
        BY <2>2, FrontIs
    <2>4. hist' = [hist EXCEPT !.lines = f]
      BY <2>1 DEF Popped
    <2> HIDE DEF f
    <2>5. hist' \in History /\ hist'.lines = f /\ hist'.pos = hist.pos
      BY <1>1, <2>3, <2>4 DEF History
    <2> HIDE DEF L
    <2>6. HistGood'
      <3>1. HIST_SIZE \in Nat
        BY EditAssumption
      <3> QED
        BY <2>1, <2>2, <2>3, <2>5, <3>1 DEF HistGood
    <2>7. Saved' = Saved
      BY <2>1, <2>5 DEF Saved, f, L
    <2>8. EInv'
      BY <1>1, <2>1, <2>6 DEF EInv
    <2> QED
      BY <2>7, <2>8 DEF Keeps
  <1>3. CASE searching # "no"
    <2> DEFINE pat == IF text # NilStr THEN text ELSE oldSearch
               hit == IF pat = NilStr THEN {} ELSE Found(pat, searching)
               pos == IF searching = "back" THEN Max(hit) ELSE Min(hit)
               c == [ed EXCEPT !.line = NilStr, !.point = 0]
    <2>1. /\ mode' = mode /\ got' = got /\ repeat' = NO_ARG /\ luxptr' = luxptr
          /\ IF hit = {} THEN hist' = hist /\ ed' = c
             ELSE hist' = [hist EXCEPT !.pos = pos] /\ ed' = Recalled(c, pos)
      BY <1>3, Zenon DEF Returns
    <2>2. Good(c)
      <3>1. NilStr \in Seq(Chars) /\ Len(NilStr) = 0 /\ MEM_INC \in Nat \ {0}
        BY EditAssumption DEF NilStr
      <3>2. ed \in Editor /\ MEM_INC <= ed.length /\ ed.length \in Nat
        BY <1>1 DEF Good, Editor
      <3>3. c \in Editor /\ c.line = NilStr /\ c.point = 0 /\ c.length = ed.length
        BY <3>1, <3>2 DEF Editor
      <3> HIDE DEF c
      <3> QED
        BY <3>1, <3>2, <3>3 DEF Good
    <2> HIDE DEF c
    <2>3. CASE hit = {}
      <3>1. hist' = hist /\ ed' = c
        BY <2>1, <2>3
      <3>2. HistGood' /\ Saved' = Saved
        BY <1>1, <2>1, <3>1 DEF HistGood, Saved
      <3>3. EInv'
        BY <2>1, <2>2, <3>1, <3>2 DEF EInv
      <3> QED
        BY <3>2, <3>3 DEF Keeps
    <2>4. CASE hit # {}
      <3>1. hit = Found(pat, searching)
        BY <2>4
      <3> HIDE DEF pat, hit
      <3>2. pos \in 0..(Len(hist.lines) - 1)
        BY <2>4, <3>1, FoundIs
      <3> HIDE DEF pos
      <3>3. hist' = [hist EXCEPT !.pos = pos] /\ ed' = Recalled(c, pos)
        BY <2>1, <2>4
      <3>4. Good(ed')
        BY <2>2, <3>2, <3>3, RecalledGood
      <3>5. pos \in Nat
        BY <1>1, <3>2
      <3>6. hist' \in History /\ hist'.lines = hist.lines /\ hist'.pos = pos
        BY <1>1, <3>3, <3>5 DEF History
      <3>7. HistGood' /\ Saved' = Saved
        BY <1>1, <2>1, <3>2, <3>6 DEF HistGood, Saved
      <3>8. EInv'
        BY <2>1, <3>4, <3>7 DEF EInv
      <3> QED
        BY <3>7, <3>8 DEF Keeps
    <2> QED
      BY <2>3, <2>4
  <1> QED
    BY <1>2, <1>3

LEMMA HSearchKeeps ==
  ASSUME EInv, HSearch
  PROVE  Keeps
  <1>1. /\ mode' = mode /\ ed' = Fresh(ed, luxptr) /\ repeat' = NO_ARG /\ hist' = hist
        /\ luxptr' = luxptr /\ got' = got
    BY DEF HSearch
  <1>2. Good(ed')
    BY <1>1, FreshGood DEF EInv
  <1>3. HistGood' /\ Saved' = Saved
    BY <1>1 DEF EInv, HistGood, Saved
  <1>4. EInv'
    BY <1>1, <1>2, <1>3 DEF EInv
  <1> QED
    BY <1>3, <1>4 DEF Keeps

(***************************************************************************)
(* The keys that take text from the line.                                  *)
(***************************************************************************)
\* What a key may do to the text it takes from a line (KillsAreYanked).
Yanked(l, d) ==
  LET lost == Len(l) - Len(d.line)
  IN  lost >= 2 =>
      \E i \in 0..Len(d.line) :
        /\ d.line = SubSeq(l, 1, i) \o SubSeq(l, i + lost + 1, Len(l))
        /\ d.yanked = SubSeq(l, i + 1, i + lost)

LEMMA DeleteYanks ==
  ASSUME NEW e, Good(e), NEW count \in Int
  PROVE  Good(DeleteString(e, count)) /\ Yanked(e.line, DeleteString(e, count))
  <1> DEFINE n == IF e.point + count > Len(e.line) THEN Len(e.line) - e.point ELSE count
             d == DeleteString(e, count)
  <1>1. e.line \in Seq(Chars) /\ Len(e.line) \in Nat /\ e.point \in Nat /\ e.point <= Len(e.line)
    BY DEF Good, Editor
  <1>2. /\ Good(d)
        /\ \/ d.line = e.line
           \/ /\ n \in 1..(Len(e.line) - e.point)
              /\ d.line = SubSeq(e.line, 1, e.point) \o SubSeq(e.line, e.point + n + 1, Len(e.line))
              /\ Len(d.line) = Len(e.line) - n
              /\ n > 1 => d.yanked = SubSeq(e.line, e.point + 1, e.point + n)
    BY DeleteIs, Zenon
  <1> HIDE DEF d, n
  <1>3. CASE d.line = e.line
    BY <1>1, <1>2, <1>3 DEF Yanked, d
  <1>4. CASE d.line # e.line
    <2> DEFINE a == Len(e.line)
               b == Len(d.line)
    <2>1. n \in 1..(a - e.point) /\ b = a - n /\ a \in Nat
      BY <1>1, <1>2, <1>4, Zenon
    <2> HIDE DEF a, b
    <2>2. n = a - b /\ e.point \in 0..b /\ n \in Int
      BY <1>1, <2>1
    <2> USE DEF a, b
    <2> DEFINE lost == Len(e.line) - Len(d.line)
    <2>3. n = lost /\ (lost >= 2 => lost > 1)
      BY <2>1, <2>2
    <2>4. /\ d.line = SubSeq(e.line, 1, e.point) \o SubSeq(e.line, e.point + lost + 1, Len(e.line))
          /\ lost > 1 => d.yanked = SubSeq(e.line, e.point + 1, e.point + lost)
      BY <1>2, <1>4, <2>3, Zenon
    <2>5. Yanked(e.line, d)
      BY <2>2, <2>3, <2>4, Zenon DEF Yanked
    <2> QED
      BY <1>2, <2>5 DEF d
  <1> QED
    BY <1>3, <1>4

LEMMA KillYanks ==
  ASSUME NEW e, Good(e)
  PROVE  Good(KillRest(e)) /\ Yanked(e.line, KillRest(e))
  <1> DEFINE d == KillRest(e)
             n == Len(e.line)
             p == e.point
  <1>1. e.line \in Seq(Chars) /\ n \in Nat /\ p \in Nat /\ p <= n
    BY DEF Good, Editor
  <1>2. /\ Good(d) /\ d.line = SubSeq(e.line, 1, p) /\ Len(d.line) = p
        /\ d.yanked = SubSeq(e.line, p + 1, n)
    BY KillIs, Zenon
  <1> DEFINE lost == n - Len(d.line)
  <1>3. p + lost = n /\ p \in 0..Len(d.line) /\ p + lost + 1 = n + 1
    BY <1>1, <1>2
  <1>4. SubSeq(e.line, 1, p) \o SubSeq(e.line, n + 1, n) = SubSeq(e.line, 1, p)
    BY <1>1
  <1> HIDE DEF d
  <1>5. /\ d.line = SubSeq(e.line, 1, p) \o SubSeq(e.line, p + lost + 1, n)
        /\ d.yanked = SubSeq(e.line, p + 1, p + lost)
    BY <1>2, <1>3, <1>4
  <1>6. Yanked(e.line, d)
    BY <1>3, <1>5, Zenon DEF Yanked
  <1> QED
    BY <1>2, <1>6 DEF d

\* The position a key moves Point to, before it takes text.
LEMMA MoveThenDelete ==
  ASSUME NEW e, Good(e), NEW p \in 0..Len(e.line), NEW count \in Int
  PROVE  LET d == DeleteString([e EXCEPT !.point = p], count)
         IN  Good(d) /\ Yanked(e.line, d)
  <1> DEFINE m == [e EXCEPT !.point = p]
  <1>1. Good(m) /\ m.line = e.line
    BY PointGood
  <1> HIDE DEF m
  <1>2. Good(DeleteString(m, count)) /\ Yanked(m.line, DeleteString(m, count))
    BY <1>1, DeleteYanks
  <1> QED
    BY <1>1, <1>2 DEF m

LEMMA LineFacts ==
  ASSUME EInv
  PROVE  /\ Good(ed) /\ ed.line \in Seq(Chars) /\ Len(ed.line) \in Nat
         /\ ed.point \in Nat /\ ed.point <= Len(ed.line) /\ ed.mark \in Nat
         /\ ed.yanked \in Seq(Chars) /\ ed \in Editor
  BY DEF EInv, Good, Editor

LEMMA BkDelYanks ==
  ASSUME EInv
  PROVE  Good(BkDelChar(ed)) /\ Yanked(ed.line, BkDelChar(ed))
  <1> DEFINE n == Min({Turns, ed.point})
             p == ed.point - n
  <1>1. Turns \in Nat
    BY TurnsIs
  <1>2. n \in 0..ed.point
    BY <1>1, LineFacts, TurnsBack
  <1>3. BkDelChar(ed) = DeleteString([ed EXCEPT !.point = p], n)
    BY DEF BkDelChar
  <1> HIDE DEF n
  <1>4. p \in 0..Len(ed.line) /\ n \in Int
    BY <1>2, LineFacts
  <1> HIDE DEF p
  <1> QED
    BY <1>3, <1>4, LineFacts, MoveThenDelete, Zenon

LEMMA EraseStep ==
  ASSUME EInv, Erase
  PROVE  Keeps /\ Yanked(ed.line, ed')
  <1>1. Special("erase", BkDelChar(ed), repeat) /\ ed' = BkDelChar(ed)
    BY DEF Erase, Special
  <1>2. repeat \in Counts \cup {NO_ARG}
    BY DEF EInv
  <1> QED
    BY <1>1, <1>2, BkDelYanks, SpecialKeeps

LEMMA KillAllStep ==
  ASSUME EInv, KillAll
  PROVE  Keeps /\ Yanked(ed.line, ed')
  <1> DEFINE m == [ed EXCEPT !.point = 0]
             d == KillRest(m)
  <1>1. Special("killall", d, NO_ARG) /\ ed' = d
    BY DEF KillAll, Special
  <1>2. Good(m) /\ m.line = ed.line
    <2>1. 0 \in 0..Len(ed.line)
      BY LineFacts
    <2> QED
      BY <2>1, LineFacts, PointGood
  <1> HIDE DEF m
  <1>3. Good(d) /\ Yanked(ed.line, d)
    BY <1>2, KillYanks
  <1> HIDE DEF d
  <1>4. NO_ARG \in Counts \cup {NO_ARG}
    OBVIOUS
  <1> QED
    BY <1>1, <1>3, <1>4, SpecialKeeps

LEMMA DelCharStep ==
  ASSUME EInv, DelChar
  PROVE  Keeps /\ Yanked(ed.line, ed')
  <1> DEFINE n == IF repeat = NO_ARG THEN 1 ELSE repeat
             d == DeleteString(ed, n)
  <1>1. Emacs("delchar", d) /\ ed' = d
    BY DEF DelChar, Emacs
  <1>2. n \in Int
    BY TurnsIs
  <1> HIDE DEF n
  <1>3. Good(d) /\ Yanked(ed.line, d)
    BY <1>2, LineFacts, DeleteYanks
  <1> HIDE DEF d
  <1> QED
    BY <1>1, <1>3, EmacsKeeps

LEMMA BackspaceStep ==
  ASSUME EInv, Backspace
  PROVE  Keeps /\ Yanked(ed.line, ed')
  <1>1. Emacs("backspace", BkDelChar(ed)) /\ ed' = BkDelChar(ed)
    BY DEF Backspace, Emacs
  <1> QED
    BY <1>1, BkDelYanks, EmacsKeeps

\* A step that leaves the line takes nothing.
LEMMA SameYanks ==
  ASSUME NEW l \in Seq(Chars), NEW d, d.line = l
  PROVE  Yanked(l, d)
  <1>1. Len(l) - Len(d.line) = 0
    OBVIOUS
  <1> QED
    BY <1>1 DEF Yanked

LEMMA KillLineStep ==
  ASSUME EInv, KillLine
  PROVE  Keeps /\ Yanked(ed.line, ed')
  <1>1. repeat \in Int
    BY TurnsIs
  <1>2. CASE repeat = NO_ARG /\ Emacs("killline", KillRest(ed))
    <2>1. ed' = KillRest(ed)
      BY <1>2 DEF Emacs
    <2> QED
      BY <1>2, <2>1, LineFacts, KillYanks, EmacsKeeps
  <1>3. CASE repeat \in 0..ed.point /\
             Emacs("killline", DeleteString([ed EXCEPT !.point = repeat], ed.point - repeat))
    <2> DEFINE n == ed.point - repeat
               d == DeleteString([ed EXCEPT !.point = repeat], n)
    <2>1. repeat \in 0..Len(ed.line) /\ n \in Int
      BY <1>3, LineFacts
    <2>2. Emacs("killline", d) /\ ed' = d
      BY <1>3 DEF Emacs
    <2> HIDE DEF n
    <2>3. Good(d) /\ Yanked(ed.line, d)
      BY <2>1, LineFacts, MoveThenDelete, Zenon
    <2> HIDE DEF d
    <2> QED
      BY <2>2, <2>3, EmacsKeeps
  <1>4. CASE repeat > ed.point /\ ed.point < End(ed) /\
             Emacs("killline", DeleteString([ed EXCEPT !.point = @ + 1], repeat - ed.point - 2))
    <2> DEFINE n == repeat - ed.point - 2
               p == ed.point + 1
               d == DeleteString([ed EXCEPT !.point = p], n)
    <2>1. p \in 0..Len(ed.line) /\ n \in Int
      BY <1>1, <1>4, LineFacts DEF End
    <2>2. Emacs("killline", d) /\ ed' = d
      BY <1>4 DEF Emacs
    <2> HIDE DEF n, p
    <2>3. Good(d) /\ Yanked(ed.line, d)
      BY <2>1, LineFacts, MoveThenDelete, Zenon
    <2> HIDE DEF d
    <2> QED
      BY <2>2, <2>3, EmacsKeeps
  <1>5. CASE Wild("killline")
    <2>1. ed' = ed
      BY <1>5 DEF Wild
    <2> QED
      BY <1>5, <2>1, LineFacts, SameYanks, WildKeeps
  <1> QED
    BY <1>2, <1>3, <1>4, <1>5 DEF KillLine

LEMMA WipeStep ==
  ASSUME EInv, Wipe
  PROVE  Keeps /\ Yanked(ed.line, ed')
  <1> DEFINE from == Min({ed.point, ed.mark})
             to == Max({ed.point, ed.mark})
  <1>1. CASE ed.mark > End(ed) /\ Emacs("wipe", ed)
    <2>1. ed' = ed
      BY <1>1 DEF Emacs
    <2> QED
      BY <1>1, <2>1, LineFacts, SameYanks, EmacsKeeps
  <1>2. CASE ed.mark <= End(ed) /\
             Emacs("wipe", DeleteString([ed EXCEPT !.point = from, !.mark = to], to - from))
    <2> DEFINE m == [ed EXCEPT !.point = from, !.mark = to]
               d == DeleteString(m, to - from)
    <2>1. Emacs("wipe", d) /\ ed' = d
      BY <1>2 DEF Emacs
    <2>2. from \in Nat /\ to \in Nat /\ from <= Len(ed.line) /\ to - from \in Int
      BY <1>2, LineFacts, MinPair DEF End
    <2> HIDE DEF from, to
    <2>3. Good(m) /\ m.line = ed.line
      BY <2>2, LineFacts DEF Good, Editor
    <2> HIDE DEF m
    <2>4. Good(d) /\ Yanked(ed.line, d)
      BY <2>2, <2>3, DeleteYanks
    <2> HIDE DEF d
    <2> QED
      BY <2>1, <2>4, EmacsKeeps
  <1> QED
    BY <1>1, <1>2, Zenon DEF Wipe

LEMMA FdKillWordStep ==
  ASSUME EInv, FdKillWord
  PROVE  Keeps /\ Yanked(ed.line, ed')
  <1> DEFINE n == Forward(ed) - ed.point
             d == DeleteString(ed, n)
  <1>1. Emacs("fdkillword", d) /\ ed' = d
    BY DEF FdKillWord, Emacs
  <1>2. n \in Int
    BY TurnsIs, LineFacts, ForwardIs
  <1> HIDE DEF n
  <1>3. Good(d) /\ Yanked(ed.line, d)
    BY <1>2, LineFacts, DeleteYanks
  <1> HIDE DEF d
  <1> QED
    BY <1>1, <1>3, EmacsKeeps

LEMMA BkKillWordStep ==
  ASSUME EInv, BkKillWord
  PROVE  Keeps /\ Yanked(ed.line, ed')
  <1> DEFINE p == Backward(ed)
             n == ed.point - p
             d == DeleteString([ed EXCEPT !.point = p], n)
  <1>1. Emacs("bkkillword", d) /\ ed' = d
    BY DEF BkKillWord, Emacs
  <1>2. p \in 0..ed.point
    BY TurnsIs, LineFacts, BackwardIs
  <1> HIDE DEF p
  <1>3. p \in 0..Len(ed.line) /\ n \in Int
    BY <1>2, LineFacts
  <1> HIDE DEF n
  <1>4. Good(d) /\ Yanked(ed.line, d)
    BY <1>3, LineFacts, MoveThenDelete, Zenon
  <1> HIDE DEF d
  <1> QED
    BY <1>1, <1>4, EmacsKeeps

LEMMA KillStep ==
  ASSUME EInv, Kills
  PROVE  Keeps /\ Yanked(ed.line, ed')
  BY EraseStep, KillAllStep, DelCharStep, BackspaceStep, KillLineStep, WipeStep,
     FdKillWordStep, BkKillWordStep DEF Kills

(***************************************************************************)
(* The keys that move Point.                                               *)
(***************************************************************************)
LEMMA MoveKeeps ==
  ASSUME EInv, NEW key, NEW p \in 0..Len(ed.line), Emacs(key, [ed EXCEPT !.point = p])
  PROVE  Keeps
  <1>1. Good([ed EXCEPT !.point = p])
    BY LineFacts, PointGood
  <1> QED
    BY <1>1, EmacsKeeps

LEMMA BegLineStep ==
  ASSUME EInv, BegLine
  PROVE  Keeps
  <1>1. 0 \in 0..Len(ed.line)
    BY LineFacts
  <1> QED
    BY <1>1, MoveKeeps DEF BegLine

LEMMA EndLineStep ==
  ASSUME EInv, EndLine
  PROVE  Keeps
  <1>1. End(ed) \in 0..Len(ed.line)
    BY LineFacts DEF End
  <1> QED
    BY <1>1, MoveKeeps DEF EndLine

LEMMA BkCharStep ==
  ASSUME EInv, BkChar
  PROVE  Keeps
  <1> DEFINE p == ed.point - Min({Turns, ed.point})
  <1>1. Min({Turns, ed.point}) \in 0..ed.point
    BY TurnsIs, LineFacts, TurnsBack
  <1>2. p \in 0..Len(ed.line)
    BY <1>1, LineFacts
  <1>3. Emacs("bkchar", [ed EXCEPT !.point = p])
    BY DEF BkChar
  <1> HIDE DEF p
  <1> QED
    BY <1>2, <1>3, MoveKeeps

LEMMA FdCharStep ==
  ASSUME EInv, FdChar
  PROVE  Keeps
  <1> DEFINE p == IF ed.point >= End(ed) THEN ed.point ELSE Min({ed.point + Turns, End(ed)})
  <1>1. ed.point + Turns \in Nat /\ End(ed) \in Nat
    BY TurnsIs, LineFacts DEF End
  <1>2. Min({ed.point + Turns, End(ed)}) \in 0..Len(ed.line)
    BY <1>1, MinPair DEF End
  <1>3. p \in 0..Len(ed.line)
    BY <1>2, LineFacts
  <1>4. Emacs("fdchar", [ed EXCEPT !.point = p])
    BY DEF FdChar
  <1> HIDE DEF p
  <1> QED
    BY <1>3, <1>4, MoveKeeps

LEMMA FdWordStep ==
  ASSUME EInv, FdWord
  PROVE  Keeps
  <1>1. Forward(ed) \in ed.point..Len(ed.line)
    BY TurnsIs, LineFacts, ForwardIs
  <1>2. Forward(ed) \in 0..Len(ed.line)
    BY <1>1, LineFacts
  <1> QED
    BY <1>2, MoveKeeps DEF FdWord

LEMMA BkWordStep ==
  ASSUME EInv, BkWord
  PROVE  Keeps
  <1>1. Backward(ed) \in 0..ed.point
    BY TurnsIs, LineFacts, BackwardIs
  <1>2. Backward(ed) \in 0..Len(ed.line)
    BY <1>1, LineFacts
  <1> QED
    BY <1>2, MoveKeeps DEF BkWord

LEMMA MoveToCharStep ==
  ASSUME EInv, NEW c, MoveToChar(c)
  PROVE  Keeps
  <1> DEFINE hits == {i \in (ed.point + 1)..(End(ed) - 1) : ed.line[i + 1] = c}
  <1>1. Emacs("movetochar", IF hits = {} THEN ed ELSE [ed EXCEPT !.point = Min(hits)])
    BY DEF MoveToChar
  <1>2. CASE hits = {}
    BY <1>1, <1>2, LineFacts, EmacsKeeps
  <1>3. CASE hits # {}
    <2>1. hits \in SUBSET Nat /\ \A i \in hits : i \in 0..Len(ed.line)
      BY LineFacts DEF End
    <2> HIDE DEF hits
    <2>2. Min(hits) \in hits
      BY <1>3, <2>1, MinIn
    <2>3. Min(hits) \in 0..Len(ed.line)
      BY <2>1, <2>2
    <2> QED
      BY <1>1, <1>3, <2>3, MoveKeeps
  <1> QED
    BY <1>2, <1>3

LEMMA ExchangeStep ==
  ASSUME EInv, Exchange
  PROVE  Keeps
  <1> DEFINE m == [ed EXCEPT !.mark = ed.point, !.point = ed.mark]
  <1>1. Emacs("exchange", IF ed.mark > End(ed) THEN ed ELSE m)
    BY DEF Exchange
  <1>2. CASE ed.mark > End(ed)
    BY <1>1, <1>2, LineFacts, EmacsKeeps
  <1>3. CASE ~ (ed.mark > End(ed))
    <2>1. ed.mark \in 0..Len(ed.line)
      BY <1>3, LineFacts DEF End
    <2>2. Good(m)
      BY <2>1, LineFacts, MarkedGood
    <2> HIDE DEF m
    <2> QED
      BY <1>1, <1>3, <2>2, EmacsKeeps
  <1> QED
    BY <1>2, <1>3

LEMMA MkSetStep ==
  ASSUME EInv, MkSet
  PROVE  Keeps
  <1> DEFINE m == [ed EXCEPT !.mark = ed.point]
  <1>1. Good(m)
    BY LineFacts DEF Good, Editor
  <1>2. Emacs("mkset", m)
    BY DEF MkSet
  <1> HIDE DEF m
  <1> QED
    BY <1>1, <1>2, EmacsKeeps

(***************************************************************************)
(* The keys that put text on the line, or change it.                       *)
(***************************************************************************)
LEMMA InsertKeeps ==
  ASSUME EInv, NEW key, NEW s \in Seq(Chars), Emacs(key, InsertString(ed, s))
  PROVE  Keeps
  BY LineFacts, InsertGood, EmacsKeeps

LEMMA SelfInsertStep ==
  ASSUME EInv, NEW c \in Chars, SelfInsert(c)
  PROVE  Keeps
  <1> DEFINE s == [i \in 1..Turns |-> c]
  <1>1. s \in Seq(Chars)
    BY TurnsIs
  <1>2. Emacs(c, InsertString(ed, s))
    BY DEF SelfInsert, InsertChar
  <1> HIDE DEF s
  <1> QED
    BY <1>1, <1>2, InsertKeeps

LEMMA CompleteStep ==
  ASSUME EInv, Complete
  PROVE  Keeps
  <1>1. Completion(FindWord(ed)) \in Seq(Chars)
    BY LineFacts, FindWordIs, CompletionIs
  <1> QED
    BY <1>1, InsertKeeps DEF Complete

LEMMA YankStep ==
  ASSUME EInv, Yank
  PROVE  Keeps
  BY LineFacts, InsertKeeps DEF Yank

LEMMA LastArgumentStep ==
  ASSUME EInv, LastArgument
  PROVE  Keeps
  <1> DEFINE L == hist.lines
             t == IF Len(L) = 1 THEN NilStr ELSE Text(L[Len(L) - 1])
  <1>1. t \in Seq(Chars) /\ \A i \in ArgStarts(t) : Arg(t, i) \in Seq(Chars)
    <2>1. L \in Seq(Seq(Chars)) /\ Len(L) \in Nat /\ Len(L) > 0
      BY DEF EInv, HistGood, History, LastArgument
    <2>2. CASE Len(L) = 1
      <3>1. ArgStarts(NilStr) = {} /\ NilStr \in Seq(Chars)
        BY DEF ArgStarts, NilStr
      <3> QED
        BY <2>2, <3>1
    <2>3. CASE Len(L) # 1
      <3> DEFINE n == Len(L)
      <3>1. n \in Nat /\ n > 0 /\ n # 1
        BY <2>1, <2>3
      <3> HIDE DEF n
      <3>2. n - 1 \in 1..n
        BY <3>1
      <3>3. L[n - 1] \in Seq(Chars)
        BY <2>1, <3>2 DEF n
      <3> QED
        BY <2>3, <3>3, ArgIs DEF n
    <2> QED
      BY <2>2, <2>3
  <1>2. \/ Emacs("lastarg", ed)
        \/ \E i \in ArgStarts(t) : Emacs("lastarg", InsertString(ed, Arg(t, i)))
    BY Zenon DEF LastArgument
  <1> HIDE DEF t
  <1> QED
    BY <1>1, <1>2, LineFacts, EmacsKeeps, InsertKeeps

LEMMA CaseStep ==
  ASSUME EInv, CaseUpWord \/ CaseDownWord
  PROVE  Keeps
  <1>1. Upper \in [Chars -> Chars] /\ Lower \in [Chars -> Chars]
    BY EditAssumption DEF Upper, Lower, Alnum
  <1>2. Good(DoCase(ed, Upper)) /\ Good(DoCase(ed, Lower))
    BY <1>1, TurnsIs, LineFacts, CaseGood
  <1> QED
    BY <1>2, EmacsKeeps DEF CaseUpWord, CaseDownWord

LEMMA TransposeStep ==
  ASSUME EInv, Transpose
  PROVE  Keeps
  <1> DEFINE l == ed.line
             p == IF ed.point = End(ed) THEN ed.point - 1 ELSE ed.point
             s == [l EXCEPT ![p] = l[p + 1], ![p + 1] = l[p]]
             e == [ed EXCEPT !.line = s, !.point = p + 1]
  <1>1. CASE Emacs("transpose", ed)
    BY <1>1, LineFacts, EmacsKeeps
  <1>2. CASE p \in 1..(End(ed) - 1) /\ Emacs("transpose", e)
    <2>1. p \in Nat /\ p + 1 \in 1..Len(l) /\ p \in 1..Len(l)
      BY <1>2, LineFacts DEF End
    <2> HIDE DEF p
    <2>2. s \in Seq(Chars) /\ Len(s) = Len(l)
      <3>1. l \in [1..Len(l) -> Chars] /\ Len(l) \in Nat
        BY LineFacts
      <3>2. l[p] \in Chars /\ l[p + 1] \in Chars
        BY <2>1, <3>1
      <3> HIDE DEF l
      <3>3. s \in [1..Len(l) -> Chars]
        BY <3>1, <3>2
      <3> HIDE DEF s
      <3> QED
        BY <3>1, <3>3
    <2> HIDE DEF s
    <2> DEFINE q == p + 1
    <2>3. q \in 0..Len(s)
      BY <2>1, <2>2, LineFacts
    <2> HIDE DEF q
    <2>4. Len(s) <= Len(ed.line)
      BY <2>2, LineFacts
    <2>5. Good(e)
      BY <2>2, <2>3, <2>4, LineFacts, EditedGood DEF q
    <2> HIDE DEF e
    <2> QED
      BY <1>2, <2>5, EmacsKeeps
  <1>3. CASE Wild("transpose")
    BY <1>3, WildKeeps
  <1> QED
    BY <1>1, <1>2, <1>3, Zenon DEF Transpose

LEMMA CopyRegionStep ==
  ASSUME EInv, CopyRegion
  PROVE  Keeps
  <1> DEFINE a == Min({ed.mark, ed.point})
             b == Max({ed.mark, ed.point})
             y == Region(ed.line, a, b)
             m == [ed EXCEPT !.yanked = y]
  <1>1. Emacs("copy", IF ed.mark > End(ed) THEN ed ELSE m)
    BY DEF CopyRegion
  <1>2. CASE ed.mark > End(ed)
    BY <1>1, <1>2, LineFacts, EmacsKeeps
  <1>3. CASE ~ (ed.mark > End(ed))
    <2>1. a \in Nat /\ b \in Nat /\ a <= b /\ b <= Len(ed.line)
      <3>1. ed.mark \in Nat /\ ed.point \in Nat /\ Len(ed.line) \in Nat
            /\ ed.mark <= Len(ed.line) /\ ed.point <= Len(ed.line)
        BY <1>3, LineFacts DEF End
      <3>2. /\ a = IF ed.mark <= ed.point THEN ed.mark ELSE ed.point
            /\ b = IF ed.mark <= ed.point THEN ed.point ELSE ed.mark
        BY <3>1, MinPair
      <3> QED
        BY <3>1, <3>2
    <2> HIDE DEF a, b
    <2>2. y \in Seq(Chars)
      BY <2>1, LineFacts, RegionIs
    <2> HIDE DEF y
    <2>3. Good(m)
      BY <2>2, LineFacts DEF Good, Editor
    <2> HIDE DEF m
    <2> QED
      BY <1>1, <1>3, <2>3, EmacsKeeps
  <1> QED
    BY <1>2, <1>3

LEMMA InterruptStep ==
  ASSUME EInv, Interrupt
  PROVE  Keeps
  <1> DEFINE m == [ed EXCEPT !.line = NilStr, !.point = 0]
  <1>1. NilStr \in Seq(Chars) /\ Len(NilStr) = 0
    BY DEF NilStr
  <1>2. Good(m)
    <2>1. 0 \in 0..Len(NilStr) /\ Len(NilStr) <= Len(ed.line)
      BY <1>1, LineFacts
    <2> QED
      BY <1>1, <2>1, LineFacts, EditedGood
  <1>3. Special("interrupt", m, repeat)
    BY DEF Interrupt
  <1> HIDE DEF m
  <1> QED
    BY <1>2, <1>3, SpecialKeeps DEF EInv

(***************************************************************************)
(* The history keys.                                                       *)
(***************************************************************************)
LEMMA HistFacts ==
  ASSUME EInv, mode = "edit"
  PROVE  Len(hist.lines) \in Nat /\ hist.pos \in Nat /\ hist.pos < Len(hist.lines)
  BY DEF EInv, HistGood, History

LEMMA RecallStep ==
  ASSUME EInv, HPrev \/ HNext \/ HFirst \/ HLast
  PROVE  Keeps
  <1>1. mode = "edit"
    BY DEF HPrev, HNext, HFirst, HLast, Recall
  <1> DEFINE D == 0..(Len(hist.lines) - 1)
  <1>2. Back(Turns) \in D /\ Onward(Turns) \in D /\ 0 \in D /\ Len(hist.lines) - 1 \in D
    BY <1>1, HistFacts, TurnsIs DEF Back, Onward
  <1> HIDE DEF D
  <1>3. \E key, reached : \E p \in D : Recall(key, p, reached)
    BY <1>2 DEF HPrev, HNext, HFirst, HLast
  <1> QED
    BY <1>3, RecallKeeps DEF D

LEMMA DoneStep ==
  ASSUME EInv, Done
  PROVE  Keeps
  <1>1. mode = "edit" /\ \E text \in Seq(Chars) : Returns(text)
    <2>1. NilStr \in Seq(Chars) /\ \A c \in Commands : c \in Seq(Chars)
      BY EditAssumption DEF NilStr
    <2> QED
      BY <2>1, LineFacts DEF Done, AcceptLine, EndOfFile, FunctionKey
  <1> QED
    BY <1>1, ReturnsKeep

(***************************************************************************)
(* Every step.                                                             *)
(***************************************************************************)
LEMMA EditStep ==
  ASSUME EInv, TTYspecial \/ Key \/ Meta \/ Done \/ UNCHANGED vars
  PROVE  Keeps
  <1>1. CASE TTYspecial
    BY <1>1, EraseStep, KillAllStep, InterruptStep DEF TTYspecial
  <1>2. CASE Key
    <2>1. CASE NoEffect
      BY <2>1, LineFacts, EmacsKeeps DEF NoEffect
    <2>2. CASE BegLine \/ EndLine \/ BkChar \/ FdChar
      BY <2>2, BegLineStep, EndLineStep, BkCharStep, FdCharStep
    <2>3. CASE DelChar \/ Backspace \/ KillLine \/ Wipe
      BY <2>3, DelCharStep, BackspaceStep, KillLineStep, WipeStep
    <2>4. CASE Complete \/ Yank \/ Transpose \/ Exchange
      BY <2>4, CompleteStep, YankStep, TransposeStep, ExchangeStep
    <2>5. CASE HPrev \/ HNext \/ HFirst \/ HLast
      BY <2>5, RecallStep
    <2>6. CASE HSearch
      BY <2>6, HSearchKeeps
    <2>7. CASE \E c \in Chars : SelfInsert(c) \/ MoveToChar(c)
      BY <2>7, SelfInsertStep, MoveToCharStep
    <2> QED
      BY <1>2, <2>1, <2>2, <2>3, <2>4, <2>5, <2>6, <2>7 DEF Key
  <1>3. CASE Meta
    <2>1. CASE \E n \in Counts : RepeatCount(n)
      BY <2>1, LineFacts, SpecialKeeps DEF RepeatCount
    <2>2. CASE MkSet \/ CopyRegion \/ FdWord \/ BkWord
      BY <2>2, MkSetStep, CopyRegionStep, FdWordStep, BkWordStep
    <2>3. CASE FdKillWord \/ BkKillWord
      BY <2>3, FdKillWordStep, BkKillWordStep
    <2>4. CASE CaseUpWord \/ CaseDownWord
      BY <2>4, CaseStep
    <2>5. CASE LastArgument
      BY <2>5, LastArgumentStep
    <2> QED
      BY <1>3, <2>1, <2>2, <2>3, <2>4, <2>5 DEF Meta
  <1>4. CASE Done
    BY <1>4, DoneStep
  <1>5. CASE UNCHANGED vars
    BY <1>5, StutterKeeps
  <1> QED
    BY <1>1, <1>2, <1>3, <1>4, <1>5

LEMMA Step ==
  EInv /\ [Next]_vars => EInv' /\ Queued
  <1> SUFFICES ASSUME EInv, [Next]_vars PROVE EInv' /\ Queued
    OBVIOUS
  <1>1. CASE Idle
    BY <1>1, ReadlineStep, AddHistoryStep DEF Idle
  <1>2. CASE TTYspecial \/ Key \/ Meta \/ Done \/ UNCHANGED vars
    BY <1>2, EditStep, KeepsQueued
  <1> QED
    BY <1>1, <1>2 DEF Next

LEMMA Invariant == Spec => []EInv
  <1>1. EInv /\ [Next]_vars => EInv'
    BY Step
  <1> QED
    BY <1>1, InitInv, PTL DEF Spec

\* Whatever keys are typed, Point stays on the line, the line and its
\* terminator fit the buffer that insert_string() grows, and H.Pos is a slot of
\* the history: the code indexes with these positions without a check.
THEOREM LineInBounds == Spec => []TypeOK
  BY Invariant, Types, PTL

\* Text that a kill takes from the line, two characters of it or more, is in
\* Yanked afterwards as it stood on the line (delete_string, kill_line, wipe).
THEOREM KilledIsYanked == Spec => KillsAreYanked
  <1>1. EInv /\ Kills => Yanked(ed.line, ed')
    BY KillStep
  <1>2. ASSUME EInv, [Next]_vars
        PROVE  [Kills => Yanked(ed.line, ed')]_vars
    BY <1>1, <1>2
  <1> QED
    BY <1>2, Invariant, PTL DEF Spec, KillsAreYanked, Yanked

\* Over prompts, searches and browsing the history only loses its oldest line,
\* when hist_add() needs the slot, and gains lines behind the others.
THEOREM HistoryQueues == Spec => HistoryIsQueue
  <1>1. EInv /\ [Next]_vars => [Queued]_vars
    BY Step
  <1> QED
    BY <1>1, Invariant, PTL DEF Spec, HistoryIsQueue, Queued
=============================================================================
