------------------------------ MODULE LeftFold ------------------------------
(***************************************************************************)
(* What FoldLeft computes, for any operator: instances of this module say  *)
(* so of the loops that the model writes as folds over a sequence.         *)
(***************************************************************************)
EXTENDS SequencesExt, Induct, SequenceTheorems

CONSTANT Op(_, _)

Fold(x, s) == FoldLeft(Op, x, s)

\* The function that the community modules define a fold by.
Folder(x, s, iter) ==
  iter = [T \in SUBSET (DOMAIN s) |->
            IF T = {} THEN x ELSE Op(iter[T \ {Max(T)}], s[Max(T)])]

\* The results of the fold, after every element of the sequence.
Runs(x, s, h) ==
  \A n \in 0 .. Len(s) : h[n] = IF n = 0 THEN x ELSE Op(h[n - 1], s[n])

LEMMA FoldIs ==
  ASSUME NEW x, NEW s
  PROVE  Fold(x, s) = (CHOOSE iter : Folder(x, s, iter))[DOMAIN s]
  BY Zenon DEF Fold, FoldLeft, MapThenFoldSet, Folder

LEMMA MaxUpTo ==
  ASSUME NEW m \in Nat, NEW T \in SUBSET (1 .. m + 1)
  PROVE  /\ m + 1 \in T => Max(T) = m + 1 /\ T \ {Max(T)} \in SUBSET (1 .. m)
         /\ m + 1 \notin T => T \in SUBSET (1 .. m) /\ T \ {Max(T)} \in SUBSET (1 .. m)
  <1>1. ASSUME m + 1 \in T PROVE Max(T) = m + 1
    <2>1. \A y \in T : m + 1 >= y /\ y \in Int
      OBVIOUS
    <2>2. \A x \in T : (\A y \in T : x >= y) => x = m + 1
      BY <1>1, <2>1
    <2> QED
      BY <1>1, <2>1, <2>2 DEF Max
  <1>2. \A y \in 1 .. m + 1 : y # m + 1 => y \in 1 .. m
    OBVIOUS
  <1> QED
    BY <1>1, <1>2

LEMMA FolderExists ==
  ASSUME NEW x, NEW s, NEW N \in Nat, DOMAIN s = 1 .. N
  PROVE  \E iter : Folder(x, s, iter)
  <1> DEFINE Part(m, h) ==
               h = [T \in SUBSET (1 .. m) |->
                      IF T = {} THEN x ELSE Op(h[T \ {Max(T)}], s[Max(T)])]
             S == {m \in Nat : \E h : Part(m, h)}
  <1>1. 0 \in S
    <2>1. \A T \in SUBSET (1 .. 0) : T = {}
      OBVIOUS
    <2>2. Part(0, [T \in SUBSET (1 .. 0) |-> x])
      BY <2>1
    <2> QED
      BY <2>2
  <1>2. ASSUME NEW m \in Nat, NEW h, Part(m, h)
        PROVE  \E g : Part(m + 1, g)
    <2> DEFINE g == [T \in SUBSET (1 .. m + 1) |->
                       IF m + 1 \in T THEN Op(h[T \ {m + 1}], s[m + 1]) ELSE h[T]]
    <2>1. ASSUME NEW T \in SUBSET (1 .. m + 1)
          PROVE  g[T] = IF T = {} THEN x ELSE Op(g[T \ {Max(T)}], s[Max(T)])
      <3>1. CASE m + 1 \in T
        <4>1. Max(T) = m + 1 /\ T \ {m + 1} \in SUBSET (1 .. m)
          BY <3>1, MaxUpTo
        <4>2. g[T \ {m + 1}] = h[T \ {m + 1}]
          BY <4>1
        <4> QED
          BY <3>1, <4>1, <4>2
      <3>2. CASE m + 1 \notin T
        <4>1. T \in SUBSET (1 .. m) /\ T \ {Max(T)} \in SUBSET (1 .. m)
          BY <3>2, MaxUpTo
        <4>2. h[T] = IF T = {} THEN x ELSE Op(h[T \ {Max(T)}], s[Max(T)])
          BY <1>2, <4>1
        <4>3. T \ {Max(T)} \in SUBSET (1 .. m + 1) /\ m + 1 \notin T \ {Max(T)}
          BY <3>2
        <4>4. g[T] = h[T] /\ g[T \ {Max(T)}] = h[T \ {Max(T)}]
          BY <3>2, <4>3
        <4> QED
          BY <4>2, <4>4
      <3> QED
        BY <3>1, <3>2
    <2>2. Part(m + 1, g)
      BY <2>1
    <2> QED
      BY <2>2
  <1> HIDE DEF Part
  <1>3. \A m \in Nat : m \in S => m + 1 \in S
    BY <1>2
  <1> HIDE DEF S
  <1>4. N \in S
    BY <1>1, <1>3, Induction
  <1> QED
    BY <1>4 DEF S, Part, Folder

\* A fold goes through the sequence from its first element to its last.
LEMMA FoldRuns ==
  ASSUME NEW x, NEW S, NEW s \in Seq(S)
  PROVE  \E h : Runs(x, s, h) /\ Fold(x, s) = h[Len(s)]
  <1> DEFINE N == Len(s)
             iter == CHOOSE iter : Folder(x, s, iter)
             h == [n \in 0 .. N |-> iter[1 .. n]]
  <1>1. N \in Nat /\ DOMAIN s = 1 .. N
    OBVIOUS
  <1>2. Folder(x, s, iter)
    BY <1>1, FolderExists
  <1>3. Fold(x, s) = iter[1 .. N]
    BY <1>1, FoldIs
  <1> HIDE DEF iter, N
  <1>4. \A T \in SUBSET (1 .. N) : iter[T] = IF T = {} THEN x ELSE Op(iter[T \ {Max(T)}], s[Max(T)])
    BY <1>1, <1>2 DEF Folder
  <1>5. ASSUME NEW n \in 0 .. N
        PROVE  h[n] = IF n = 0 THEN x ELSE Op(h[n - 1], s[n])
    <2>1. CASE n = 0
      <3>1. 1 .. n = {} /\ 1 .. n \in SUBSET (1 .. N)
        BY <2>1
      <3> QED
        BY <1>4, <2>1, <3>1
    <2>2. CASE n # 0
      <3> DEFINE m == n - 1
      <3>1. m \in Nat /\ n = m + 1 /\ 1 .. n \in SUBSET (1 .. N) /\ m \in 0 .. N /\ N \in Nat
        BY <1>1, <2>2
      <3> HIDE DEF m
      <3>2. 1 .. n = 1 .. m + 1 /\ m + 1 \in 1 .. m + 1 /\ (1 .. m + 1) \ {m + 1} = 1 .. m
        BY <3>1
      <3>3. Max(1 .. n) = n
        BY <3>1, <3>2, MaxUpTo
      <3>4. iter[1 .. n] = Op(iter[1 .. m], s[n])
        BY <1>4, <3>1, <3>2, <3>3
      <3> QED
        BY <2>2, <3>1, <3>4 DEF m
    <2> QED
      BY <2>1, <2>2
  <1>6. h[N] = iter[1 .. N]
    BY <1>1
  <1> QED
    BY <1>3, <1>5, <1>6 DEF Runs, N

\* Two folds agree as long as the elements of their sequences do the same.
LEMMA SameRuns ==
  ASSUME NEW x, NEW s, NEW t, NEW h, NEW g, Runs(x, s, h), Runs(x, t, g),
         NEW N \in Nat, Len(s) \in Nat, Len(t) \in Nat, N <= Len(s), N <= Len(t),
         \A i \in 1 .. N : \A d : Op(d, s[i]) = Op(d, t[i])
  PROVE  h[N] = g[N]
  <1> DEFINE S == {n \in Nat : n <= N => h[n] = g[n]}
  <1>1. 0 \in S
    BY DEF Runs
  <1>2. ASSUME NEW n \in Nat, n \in S PROVE n + 1 \in S
    <2>1. n + 1 <= N => /\ n <= N /\ n + 1 # 0 /\ (n + 1) - 1 = n /\ n + 1 \in 1 .. N
                        /\ n + 1 \in 0 .. Len(s) /\ n + 1 \in 0 .. Len(t)
      OBVIOUS
    <2>2. ASSUME n + 1 <= N PROVE h[n + 1] = g[n + 1]
      <3>1. h[n] = g[n] /\ Op(h[n], s[n + 1]) = Op(h[n], t[n + 1])
        BY <1>2, <2>1, <2>2
      <3>2. h[n + 1] = Op(h[n], s[n + 1]) /\ g[n + 1] = Op(g[n], t[n + 1])
        BY <2>1, <2>2 DEF Runs
      <3> QED
        BY <3>1, <3>2
    <2> QED
      BY <2>2
  <1> HIDE DEF S
  <1>3. N \in S
    BY <1>1, <1>2, Induction
  <1> QED
    BY <1>3 DEF S

\* A fold over no elements, and over one more.
LEMMA FoldEmpty ==
  ASSUME NEW x
  PROVE  Fold(x, <<>>) = x
  <1>1. <<>> \in Seq({}) /\ Len(<<>>) = 0
    OBVIOUS
  <1>2. PICK h : Runs(x, <<>>, h) /\ Fold(x, <<>>) = h[Len(<<>>)]
    BY <1>1, FoldRuns
  <1> QED
    BY <1>1, <1>2 DEF Runs

LEMMA FoldAppend ==
  ASSUME NEW x, NEW S, NEW s \in Seq(S), NEW c
  PROVE  Fold(x, Append(s, c)) = Op(Fold(x, s), c)
  <1> DEFINE t == Append(s, c)
             N == Len(s)
  <1>1. t \in Seq(S \cup {c}) /\ Len(t) = N + 1 /\ N \in Nat /\ t[N + 1] = c
        /\ \A i \in 1 .. N : t[i] = s[i]
    <2>1. s \in Seq(S \cup {c})
      OBVIOUS
    <2> QED
      BY <2>1
  <1> HIDE DEF t
  <1>2. PICK h : Runs(x, s, h) /\ Fold(x, s) = h[N]
    BY FoldRuns
  <1>3. PICK g : Runs(x, t, g) /\ Fold(x, t) = g[N + 1]
    BY <1>1, FoldRuns
  <1>4. h[N] = g[N]
    BY <1>1, <1>2, <1>3, SameRuns
  <1>5. g[N + 1] = Op(g[N], c)
    BY <1>1, <1>3 DEF Runs
  <1> QED
    BY <1>2, <1>3, <1>4, <1>5 DEF t

\* What every step keeps, the fold keeps.
LEMMA FoldStays ==
  ASSUME NEW D, NEW S, NEW x \in D, NEW s \in Seq(S),
         \A d \in D : \A c \in S : Op(d, c) \in D
  PROVE  Fold(x, s) \in D
  <1>1. PICK h : Runs(x, s, h) /\ Fold(x, s) = h[Len(s)]
    BY FoldRuns
  <1> DEFINE Z == {n \in Nat : n <= Len(s) => h[n] \in D}
  <1>2. Len(s) \in Nat /\ 0 \in Z
    BY <1>1 DEF Runs
  <1>3. ASSUME NEW n \in Nat, n \in Z PROVE n + 1 \in Z
    <2>1. n + 1 <= Len(s) => /\ n <= Len(s) /\ n + 1 # 0 /\ (n + 1) - 1 = n
                             /\ n + 1 \in 1 .. Len(s) /\ n + 1 \in 0 .. Len(s)
      BY <1>2
    <2>2. n + 1 <= Len(s) => s[n + 1] \in S
      BY <2>1
    <2> QED
      BY <1>1, <1>3, <2>1, <2>2 DEF Runs
  <1> HIDE DEF Z
  <1>4. Len(s) \in Z
    BY <1>2, <1>3, Induction
  <1> QED
    BY <1>1, <1>2, <1>4 DEF Z

LEMMA FoldSame ==
  ASSUME NEW x, NEW S, NEW s \in Seq(S), NEW T, NEW t \in Seq(T), Len(s) = Len(t),
         \A i \in 1 .. Len(s) : \A d : Op(d, s[i]) = Op(d, t[i])
  PROVE  Fold(x, s) = Fold(x, t)
  <1>1. PICK h : Runs(x, s, h) /\ Fold(x, s) = h[Len(s)]
    BY FoldRuns
  <1>2. PICK g : Runs(x, t, g) /\ Fold(x, t) = g[Len(t)]
    BY FoldRuns
  <1>3. Len(s) \in Nat /\ Len(t) \in Nat /\ Len(s) <= Len(s) /\ Len(s) <= Len(t)
    OBVIOUS
  <1> DEFINE N == Len(s)
  <1>4. N \in Nat /\ N <= Len(s) /\ N <= Len(t) /\ \A i \in 1 .. N : \A d : Op(d, s[i]) = Op(d, t[i])
    BY <1>3
  <1> HIDE DEF N
  <1>5. h[N] = g[N]
    BY <1>1, <1>2, <1>3, <1>4, SameRuns
  <1> QED
    BY <1>1, <1>2, <1>5 DEF N
=============================================================================
