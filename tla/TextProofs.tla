----------------------------- MODULE TextProofs -----------------------------
(***************************************************************************)
(* What Keep does to texts of every length, what sequences put together    *)
(* have, and the induction that these facts rest on.                       *)
(*  The library's induction theorems take an operator, which *)
(* no installed prover can instantiate; its theorem on well-founded sets   *)
(* takes a set, and from it induction is stated here for sets of naturals. *)
(***************************************************************************)
EXTENDS Texts, Integers, SequencesExt, WellFoundedInduction, TLAPS

\* A set of naturals has a least element, if any.
LEMMA Least ==
  ASSUME NEW T \in SUBSET Nat, T # {}
  PROVE  \E n \in T : \A m \in T : n <= m
<1> DEFINE R == {ss \in Nat \X Nat : ss[1] < ss[2]}
<1>1. IsWellFoundedOn(R, Nat)
  <2>1. OpToRel(<, Nat) = R
    BY Zenon DEF OpToRel
  <2> QED BY <2>1, NatLessThanWellFounded, Zenon
<1>2. PICK n \in T : \A m \in T : ~(<<m, n>> \in R)
  <2> HIDE DEF R
  <2> QED BY <1>1, WFMin
<1>3. ASSUME NEW m \in T, m < n
      PROVE  FALSE
  <2>1. <<m, n>> \in R
    BY <1>3
  <2> QED BY <1>2, <2>1
<1> QED BY <1>3

\* A set of naturals that has 0 and each successor has them all.
LEMMA Induction ==
  ASSUME NEW T \in SUBSET Nat, 0 \in T, \A n \in T : n + 1 \in T
  PROVE  T = Nat
<1> SUFFICES ASSUME Nat \ T # {}
             PROVE  FALSE
  OBVIOUS
<1>1. PICK n \in Nat \ T : \A m \in Nat \ T : n <= m
  BY Least
<1>2. n # 0 /\ n - 1 \in Nat /\ n - 1 \notin T
  BY <1>1
<1> QED BY <1>1, <1>2

\* The greatest element of a set of naturals that has a bound.
LEMMA Greatest ==
  ASSUME NEW T \in SUBSET Nat, T # {}, NEW b \in Nat, \A n \in T : n <= b
  PROVE  \E n \in T : \A m \in T : m <= n
<1> DEFINE U == {b - n : n \in T}
<1>1. U \in SUBSET Nat /\ U # {}
  <2>1. \A n \in T : b - n \in Nat
    OBVIOUS
  <2> QED BY <2>1
<1>2. PICK u \in U : \A w \in U : u <= w
  BY <1>1, Least
<1>3. PICK n \in T : u = b - n
  BY <1>2
<1>4. ASSUME NEW m \in T
      PROVE  m <= n
  <2>1. b - m \in U
    OBVIOUS
  <2> QED BY <1>2, <1>3, <2>1
<1> QED BY <1>4

-----------------------------------------------------------------------------
(* Keep is well defined. *)

KeepStep(s, S, n, t) ==
    IF n = 0 THEN <<>> ELSE IF s[n] \in S THEN Append(t, s[n]) ELSE t

Unfolds(f, s, S, k) == f = [n \in 0..k |-> KeepStep(s, S, n, f[n - 1])]

LEMMA KeptExists ==
  ASSUME NEW s, NEW S, NEW k \in Nat
  PROVE  \E f : Unfolds(f, s, S, k)
<1> DEFINE T == {n \in Nat : \E f : Unfolds(f, s, S, n)}
<1>1. 0 \in T
  <2> DEFINE f == [n \in 0..0 |-> <<>>]
  <2>1. f = [n \in 0..0 |-> KeepStep(s, S, n, f[n - 1])]
    BY DEF KeepStep
  <2> QED BY <2>1 DEF Unfolds
<1>2. ASSUME NEW n \in T
      PROVE  n + 1 \in T
  <2>1. PICK f : f = [m \in 0..n |-> KeepStep(s, S, m, f[m - 1])]
    BY DEF Unfolds
  <2> DEFINE g == [m \in 0..n + 1 |->
                     IF m <= n THEN f[m] ELSE KeepStep(s, S, m, f[n])]
  <2>2. ASSUME NEW m \in 0..n + 1
        PROVE  g[m] = KeepStep(s, S, m, g[m - 1])
    <3>1. CASE m = 0
      BY <2>1, <3>1 DEF KeepStep
    <3>2. CASE m \in 1..n
      <4>1. g[m] = f[m] /\ g[m - 1] = f[m - 1] /\ m \in 0..n
        BY <3>2
      <4> QED BY <2>1, <4>1
    <3>3. CASE m = n + 1
      BY <3>3
    <3> QED BY <3>1, <3>2, <3>3
  <2>3. DOMAIN g = 0..n + 1 /\ g = [m \in 0..n + 1 |-> g[m]]
    OBVIOUS
  <2> HIDE DEF g
  <2>4. g = [m \in 0..n + 1 |-> KeepStep(s, S, m, g[m - 1])]
    BY <2>2, <2>3
  <2>5. \E h : Unfolds(h, s, S, n + 1)
    BY <2>4, Zenon DEF Unfolds
  <2> QED BY <2>5
<1> HIDE DEF T
<1>3. T = Nat
  BY <1>1, <1>2, Induction DEF T
<1> QED BY <1>3 DEF T

LEMMA KeptUnfolds ==
  ASSUME NEW T, NEW s \in Seq(T), NEW S
  PROVE  /\ KeptUpTo(s, S)[0] = <<>>
         /\ \A n \in 1..Len(s) :
               KeptUpTo(s, S)[n] = IF s[n] \in S
                                   THEN Append(KeptUpTo(s, S)[n - 1], s[n])
                                   ELSE KeptUpTo(s, S)[n - 1]
<1>1. Len(s) \in Nat
  OBVIOUS
<1>2. KeptUpTo(s, S) = CHOOSE f : Unfolds(f, s, S, Len(s))
  BY DEF KeptUpTo, KeepStep, Unfolds
<1>3. Unfolds(KeptUpTo(s, S), s, S, Len(s))
  BY <1>1, <1>2, KeptExists, Zenon
<1>4. \A n \in 0..Len(s) : KeptUpTo(s, S)[n] = KeepStep(s, S, n, KeptUpTo(s, S)[n - 1])
  BY <1>3, Zenon DEF Unfolds
<1> QED BY <1>1, <1>4 DEF KeepStep

-----------------------------------------------------------------------------
(* What is kept. *)

\* Prefixes that are the same leave the same.
LEMMA KeptPrefix ==
  ASSUME NEW T, NEW s \in Seq(T), NEW t \in Seq(T), NEW S, NEW n \in Nat,
         n <= Len(s), n <= Len(t), \A i \in 1..n : s[i] = t[i]
  PROVE  KeptUpTo(s, S)[n] = KeptUpTo(t, S)[n]
<1> DEFINE P(k) == k <= n => KeptUpTo(s, S)[k] = KeptUpTo(t, S)[k]
           N == {k \in Nat : P(k)}
<1>1. 0 \in N
  BY KeptUnfolds
<1>2. ASSUME NEW k \in N
      PROVE  k + 1 \in N
  <2> SUFFICES ASSUME k + 1 <= n
               PROVE  P(k + 1)
    OBVIOUS
  <2>1. /\ k + 1 \in 1..Len(s) /\ k + 1 \in 1..Len(t) /\ k + 1 \in 1..n
        /\ (k + 1) - 1 = k /\ k <= n /\ P(k)
    OBVIOUS
  <2> QED BY <2>1, KeptUnfolds
<1> HIDE DEF P
<1>3. N = Nat
  BY <1>1, <1>2, Induction DEF N
<1> QED BY <1>3 DEF P

\* No more is kept than there was, all of it from S; and if it is as much, it
\* is all there was.
LEMMA KeptBounds ==
  ASSUME NEW T, NEW s \in Seq(T), NEW S, NEW n \in 0..Len(s)
  PROVE  /\ KeptUpTo(s, S)[n] \in Seq(T \cap S)
         /\ Len(KeptUpTo(s, S)[n]) <= n
         /\ Len(KeptUpTo(s, S)[n]) = n =>
               \A i \in 1..n : KeptUpTo(s, S)[n][i] = s[i] /\ s[i] \in S
<1> DEFINE F == KeptUpTo(s, S)
           P(k) == k <= Len(s) =>
                     /\ F[k] \in Seq(T \cap S)
                     /\ Len(F[k]) <= k
                     /\ Len(F[k]) = k => \A i \in 1..k : F[k][i] = s[i] /\ s[i] \in S
           N == {k \in Nat : P(k)}
<1>1. /\ F[0] = <<>>
      /\ \A k \in 1..Len(s) :
            F[k] = IF s[k] \in S THEN Append(F[k - 1], s[k]) ELSE F[k - 1]
  BY KeptUnfolds
<1> HIDE DEF F
<1>2. 0 \in N
  <2>1. F[0] = <<>>
    BY <1>1
  <2>2. <<>> \in Seq(T \cap S) /\ Len(<<>>) = 0
    OBVIOUS
  <2>3. F[0] \in Seq(T \cap S) /\ Len(F[0]) <= 0
    BY <2>1, <2>2
  <2>4. \A i \in 1..0 : F[0][i] = s[i] /\ s[i] \in S
    OBVIOUS
  <2>5. P(0)
    BY <2>3, <2>4, Zenon
  <2> QED BY <2>5
<1>3. ASSUME NEW k \in N
      PROVE  k + 1 \in N
  <2> SUFFICES ASSUME k + 1 <= Len(s)
               PROVE  P(k + 1)
    OBVIOUS
  <2>1. /\ s[k + 1] \in T /\ P(k) /\ k <= Len(s)
        /\ F[k + 1] = IF s[k + 1] \in S THEN Append(F[k], s[k + 1]) ELSE F[k]
    BY <1>1
  <2>2. CASE s[k + 1] \in S
    BY <2>1, <2>2
  <2>3. CASE s[k + 1] \notin S
    BY <2>1, <2>3
  <2> QED BY <2>2, <2>3
<1> HIDE DEF P
<1>4. N = Nat
  BY <1>2, <1>3, Induction DEF N
<1>5. P(n)
  BY <1>4
<1> QED BY <1>5 DEF P, F

LEMMA KeepType ==
  ASSUME NEW T, NEW s \in Seq(T), NEW S
  PROVE  /\ Keep(s, S) \in Seq(T \cap S)
         /\ Keep(s, S) \in Seq(T)
         /\ Len(Keep(s, S)) <= Len(s)
         /\ \A i \in 1..Len(Keep(s, S)) : Keep(s, S)[i] \in S
<1>1. Len(s) \in 0..Len(s)
  OBVIOUS
<1>2. Keep(s, S) \in Seq(T \cap S) /\ Len(Keep(s, S)) <= Len(s)
  BY <1>1, KeptBounds DEF Keep
<1> QED BY <1>2

\* Nothing was dropped if the length is the same.
LEMMA KeepWhole ==
  ASSUME NEW T, NEW s \in Seq(T), NEW S, Len(Keep(s, S)) = Len(s)
  PROVE  Keep(s, S) = s
<1> DEFINE m == Len(s)
<1>1. m \in 0..Len(s)
  OBVIOUS
<1> HIDE DEF m
<1>2. Len(KeptUpTo(s, S)[m]) = m =>
         \A i \in 1..m : KeptUpTo(s, S)[m][i] = s[i] /\ s[i] \in S
  BY <1>1, KeptBounds
<1>3. Keep(s, S) \in Seq(T)
  BY KeepType
<1> QED BY <1>2, <1>3 DEF Keep, m

LEMMA KeepAppend ==
  ASSUME NEW T, NEW s \in Seq(T), NEW c \in T, NEW S
  PROVE  Keep(Append(s, c), S) = IF c \in S THEN Append(Keep(s, S), c) ELSE Keep(s, S)
<1> DEFINE t == Append(s, c)
<1>1. /\ t \in Seq(T) /\ Len(t) = Len(s) + 1 /\ t[Len(s) + 1] = c /\ Len(s) \in Nat
      /\ \A i \in 1..Len(s) : s[i] = t[i]
  OBVIOUS
<1> HIDE DEF t
<1>2. KeptUpTo(s, S)[Len(s)] = KeptUpTo(t, S)[Len(s)]
  BY <1>1, KeptPrefix
<1>3. KeptUpTo(t, S)[Len(s) + 1] = IF c \in S
                                   THEN Append(KeptUpTo(t, S)[Len(s)], c)
                                   ELSE KeptUpTo(t, S)[Len(s)]
  BY <1>1, KeptUnfolds
<1> QED BY <1>1, <1>2, <1>3 DEF Keep, t

LEMMA KeepEmpty ==
  ASSUME NEW S
  PROVE  Keep(<<>>, S) = <<>>
<1>1. <<>> \in Seq({}) /\ Len(<<>>) = 0
  OBVIOUS
<1> QED BY <1>1, KeptUnfolds, ZenonT(40) DEF Keep

\* A text of nothing else is left as it is.
LEMMA KeepAll ==
  ASSUME NEW T, NEW s \in Seq(T), NEW S, \A i \in 1..Len(s) : s[i] \in S
  PROVE  Keep(s, S) = s
<1> DEFINE P(k) == k <= Len(s) => Keep(SubSeq(s, 1, k), S) = SubSeq(s, 1, k)
           N == {k \in Nat : P(k)}
<1>1. 0 \in N
  <2>1. SubSeq(s, 1, 0) = <<>>
    OBVIOUS
  <2> QED BY <2>1, KeepEmpty
<1>2. ASSUME NEW k \in N
      PROVE  k + 1 \in N
  <2> SUFFICES ASSUME k + 1 <= Len(s)
               PROVE  P(k + 1)
    OBVIOUS
  <2> DEFINE u == SubSeq(s, 1, k)
             c == s[k + 1]
  <2>1. /\ u \in Seq(T) /\ c \in T /\ c \in S
        /\ SubSeq(s, 1, k + 1) = Append(u, c)
    OBVIOUS
  <2>2. Keep(u, S) = u
    OBVIOUS
  <2> HIDE DEF u, c
  <2>3. Keep(Append(u, c), S) = Append(u, c)
    BY <2>1, <2>2, KeepAppend
  <2> QED BY <2>1, <2>3
<1> HIDE DEF P
<1>3. N = Nat
  BY <1>1, <1>2, Induction DEF N
<1>4. SubSeq(s, 1, Len(s)) = s /\ Len(s) \in Nat /\ Len(s) <= Len(s)
  OBVIOUS
<1>5. P(Len(s))
  BY <1>3, <1>4
<1> QED BY <1>4, <1>5 DEF P

\* What is kept of two texts one after the other.
LEMMA KeepConcat ==
  ASSUME NEW T, NEW s \in Seq(T), NEW t \in Seq(T), NEW S
  PROVE  Keep(s \o t, S) = Keep(s, S) \o Keep(t, S)
<1> DEFINE P(k) == k <= Len(t) =>
                     Keep(s \o SubSeq(t, 1, k), S)
                        = Keep(s, S) \o Keep(SubSeq(t, 1, k), S)
           N == {k \in Nat : P(k)}
<1>1. 0 \in N
  <2>1. SubSeq(t, 1, 0) = <<>> /\ s \o <<>> = s
    OBVIOUS
  <2>2. Keep(s, S) \o <<>> = Keep(s, S)
    BY KeepType
  <2> QED BY <2>1, <2>2, KeepEmpty
<1>2. ASSUME NEW k \in N
      PROVE  k + 1 \in N
  <2> SUFFICES ASSUME k + 1 <= Len(t)
               PROVE  P(k + 1)
    OBVIOUS
  <2> DEFINE u == SubSeq(t, 1, k)
             c == t[k + 1]
  <2>1. /\ u \in Seq(T) /\ c \in T /\ s \o u \in Seq(T)
        /\ SubSeq(t, 1, k + 1) = Append(u, c)
        /\ s \o Append(u, c) = Append(s \o u, c)
    OBVIOUS
  <2>2. Keep(s \o u, S) = Keep(s, S) \o Keep(u, S)
    OBVIOUS
  <2> HIDE DEF u, c
  <2>3. Keep(Append(u, c), S)
           = IF c \in S THEN Append(Keep(u, S), c) ELSE Keep(u, S)
    BY <2>1, KeepAppend
  <2>4. Keep(s, S) \in Seq(T) /\ Keep(u, S) \in Seq(T)
    BY <2>1, KeepType
  <2>5. Keep(s, S) \o Append(Keep(u, S), c) = Append(Keep(s, S) \o Keep(u, S), c)
    BY <2>1, <2>4, SMTT(30)
  <2>6. Keep(Append(s \o u, c), S)
           = IF c \in S THEN Append(Keep(s \o u, S), c) ELSE Keep(s \o u, S)
    <3> DEFINE w == s \o u
    <3>1. w \in Seq(T)
      BY <2>1
    <3> HIDE DEF w
    <3>2. Keep(Append(w, c), S)
             = IF c \in S THEN Append(Keep(w, S), c) ELSE Keep(w, S)
      BY <2>1, <3>1, KeepAppend
    <3> QED BY <3>2 DEF w
  <2> QED BY <2>1, <2>2, <2>3, <2>5, <2>6
<1> HIDE DEF P
<1>3. N = Nat
  BY <1>1, <1>2, Induction DEF N
<1>4. SubSeq(t, 1, Len(t)) = t /\ Len(t) \in Nat /\ Len(t) <= Len(t)
  OBVIOUS
<1>5. P(Len(t))
  BY <1>3, <1>4
<1> QED BY <1>4, <1>5 DEF P

LEMMA KeepOne ==
  ASSUME NEW c, NEW S
  PROVE  Keep(<<c>>, S) = IF c \in S THEN <<c>> ELSE <<>>
<1> DEFINE T == {c}
           e == <<>>
<1>1. e \in Seq(T) /\ c \in T /\ Append(e, c) = <<c>> /\ Keep(e, S) = e
  BY KeepEmpty
<1> HIDE DEF T, e
<1>2. Keep(Append(e, c), S) = IF c \in S THEN Append(Keep(e, S), c) ELSE Keep(e, S)
  BY <1>1, KeepAppend
<1> QED BY <1>1, <1>2 DEF e

\* A text that is not empty has a last character.
Grown(s, C, n) == \E u \in Seq(C), c \in C : Len(u) = n /\ s = Append(u, c)

LEMMA LastOff ==
  ASSUME NEW C, NEW n \in Nat, NEW s \in Seq(C), Len(s) = n + 1
  PROVE  Grown(s, C, n)
<1>1. PICK c \in C : c = s[n + 1]
  OBVIOUS
<1> DEFINE u == SubSeq(s, 1, n)
<1>2. u \in Seq(C) /\ Len(u) = n /\ \A i \in 1..n : u[i] = s[i]
  OBVIOUS
<1> HIDE DEF u
<1> DEFINE v == Append(u, c)
<1>3. v \in Seq(C) /\ Len(v) = n + 1 /\ v[n + 1] = c /\ \A i \in 1..n : v[i] = u[i]
  BY <1>2
<1> HIDE DEF v
<1>4. \A i \in 1..n + 1 : v[i] = s[i]
  BY <1>1, <1>2, <1>3
<1>5. s = v
  BY <1>3, <1>4
<1> QED BY <1>2, <1>5 DEF v, Grown

\* Texts grow from their end.
LEMMA TextInduction ==
  ASSUME NEW C, NEW T \in SUBSET Seq(C), <<>> \in T,
         \A s \in T : \A c \in C : Append(s, c) \in T
  PROVE  T = Seq(C)
<1> DEFINE N == {n \in Nat : \A s \in Seq(C) : Len(s) = n => s \in T}
<1>1. 0 \in N
  <2>1. \A s \in Seq(C) : Len(s) = 0 => s = <<>>
    OBVIOUS
  <2> QED BY <2>1
<1>2. ASSUME NEW n \in N
      PROVE  n + 1 \in N
  <2>1. ASSUME NEW s \in Seq(C), Len(s) = n + 1
        PROVE  s \in T
    <3>1. n \in Nat
      OBVIOUS
    <3>2. \A u \in Seq(C) : Len(u) = n => u \in T
      OBVIOUS
    <3> HIDE DEF N
    <3>3. Grown(s, C, n)
      BY <2>1, <3>1, LastOff
    <3> QED BY <3>2, <3>3 DEF Grown
  <2> QED BY <2>1
<1> HIDE DEF N
<1>3. N = Nat
  BY <1>1, <1>2, Induction DEF N
<1>4. \A s \in Seq(C) : Len(s) \in N
  BY <1>3
<1> QED BY <1>4 DEF N

\* Only what the kept set says of the text's own characters counts.
LEMMA KeepAgree ==
  ASSUME NEW C, NEW s \in Seq(C), NEW S, NEW U, \A c \in C : c \in S <=> c \in U
  PROVE  Keep(s, S) = Keep(s, U)
<1> DEFINE T == {t \in Seq(C) : Keep(t, S) = Keep(t, U)}
<1>1. <<>> \in T
  <2>1. <<>> \in Seq(C)
    OBVIOUS
  <2> QED BY <2>1, KeepEmpty
<1>2. ASSUME NEW t \in T, NEW c \in C
      PROVE  Append(t, c) \in T
  <2>1. Keep(Append(t, c), S) = IF c \in S THEN Append(Keep(t, S), c) ELSE Keep(t, S)
    BY KeepAppend
  <2>2. Keep(Append(t, c), U) = IF c \in U THEN Append(Keep(t, U), c) ELSE Keep(t, U)
    BY KeepAppend
  <2>3. Append(t, c) \in Seq(C)
    OBVIOUS
  <2> QED BY <2>1, <2>2, <2>3, SMTT(30)
<1> HIDE DEF T
<1>3. T = Seq(C)
  BY <1>1, <1>2, TextInduction DEF T
<1> QED BY <1>3 DEF T

-----------------------------------------------------------------------------
(* Texts taken character by character. *)

FoldStep(f, e, s, n, v) == IF n = 0 THEN e ELSE f[v][s[n]]

FoldUnfolds(g, f, e, s, k) == g = [n \in 0..k |-> FoldStep(f, e, s, n, g[n - 1])]

LEMMA FoldedExists ==
  ASSUME NEW f, NEW e, NEW s, NEW k \in Nat
  PROVE  \E g : FoldUnfolds(g, f, e, s, k)
<1> DEFINE T == {n \in Nat : \E g : FoldUnfolds(g, f, e, s, n)}
<1>1. 0 \in T
  <2> DEFINE g == [n \in 0..0 |-> e]
  <2>1. g = [n \in 0..0 |-> FoldStep(f, e, s, n, g[n - 1])]
    BY DEF FoldStep
  <2> QED BY <2>1 DEF FoldUnfolds
<1>2. ASSUME NEW n \in T
      PROVE  n + 1 \in T
  <2>1. PICK g : g = [m \in 0..n |-> FoldStep(f, e, s, m, g[m - 1])]
    BY DEF FoldUnfolds
  <2> DEFINE h == [m \in 0..n + 1 |-> IF m <= n THEN g[m]
                                      ELSE FoldStep(f, e, s, m, g[n])]
  <2>2. ASSUME NEW m \in 0..n + 1
        PROVE  h[m] = FoldStep(f, e, s, m, h[m - 1])
    <3>1. CASE m = 0
      BY <2>1, <3>1 DEF FoldStep
    <3>2. CASE m \in 1..n
      <4>1. h[m] = g[m] /\ h[m - 1] = g[m - 1] /\ m \in 0..n
        BY <3>2
      <4> QED BY <2>1, <4>1
    <3>3. CASE m = n + 1
      BY <3>3
    <3> QED BY <3>1, <3>2, <3>3
  <2>3. DOMAIN h = 0..n + 1 /\ h = [m \in 0..n + 1 |-> h[m]]
    OBVIOUS
  <2> HIDE DEF h
  <2>4. h = [m \in 0..n + 1 |-> FoldStep(f, e, s, m, h[m - 1])]
    BY <2>2, <2>3
  <2>5. \E x : FoldUnfolds(x, f, e, s, n + 1)
    BY <2>4, Zenon DEF FoldUnfolds
  <2> QED BY <2>5
<1> HIDE DEF T
<1>3. T = Nat
  BY <1>1, <1>2, Induction DEF T
<1> QED BY <1>3 DEF T

LEMMA FoldedUnfolds ==
  ASSUME NEW T, NEW s \in Seq(T), NEW f, NEW e
  PROVE  \A n \in 0..Len(s) :
            FoldedUpTo(f, e, s)[n] = FoldStep(f, e, s, n, FoldedUpTo(f, e, s)[n - 1])
<1>1. Len(s) \in Nat
  OBVIOUS
<1>2. FoldedUpTo(f, e, s) = CHOOSE g : FoldUnfolds(g, f, e, s, Len(s))
  BY DEF FoldedUpTo, FoldStep, FoldUnfolds
<1>3. FoldUnfolds(FoldedUpTo(f, e, s), f, e, s, Len(s))
  BY <1>1, <1>2, FoldedExists, Zenon
<1> QED BY <1>3, Zenon DEF FoldUnfolds

LEMMA FoldedPrefix ==
  ASSUME NEW T, NEW s \in Seq(T), NEW t \in Seq(T), NEW f, NEW e, NEW n \in Nat,
         n <= Len(s), n <= Len(t), \A i \in 1..n : s[i] = t[i]
  PROVE  FoldedUpTo(f, e, s)[n] = FoldedUpTo(f, e, t)[n]
<1> DEFINE F == FoldedUpTo(f, e, s)
           G == FoldedUpTo(f, e, t)
           P(k) == k <= n => F[k] = G[k]
           N == {k \in Nat : P(k)}
<1>1. /\ \A k \in 0..Len(s) : F[k] = FoldStep(f, e, s, k, F[k - 1])
      /\ \A k \in 0..Len(t) : G[k] = FoldStep(f, e, t, k, G[k - 1])
  BY FoldedUnfolds, Zenon
<1> HIDE DEF F, G
<1>2. 0 \in N
  <2>1. 0 \in 0..Len(s) /\ 0 \in 0..Len(t)
    OBVIOUS
  <2>2. F[0] = e /\ G[0] = e
    BY <1>1, <2>1, Zenon DEF FoldStep
  <2> QED BY <2>2
<1>3. ASSUME NEW k \in N
      PROVE  k + 1 \in N
  <2> SUFFICES ASSUME k + 1 <= n
               PROVE  P(k + 1)
    OBVIOUS
  <2> DEFINE j == k + 1
  <2>1. /\ j \in 0..Len(s) /\ j \in 0..Len(t) /\ j \in 1..n
        /\ j - 1 = k /\ F[k] = G[k]
    OBVIOUS
  <2> HIDE DEF j
  <2>2. F[j] = FoldStep(f, e, s, j, F[j - 1]) /\ G[j] = FoldStep(f, e, t, j, G[j - 1])
    BY <1>1, <2>1, Zenon
  <2>3. F[j] = G[j]
    BY <2>1, <2>2 DEF FoldStep
  <2> QED BY <2>3 DEF j
<1> HIDE DEF P
<1>4. N = Nat
  BY <1>2, <1>3, Induction DEF N
<1> QED BY <1>4 DEF P, F, G

LEMMA FoldAppend ==
  ASSUME NEW T, NEW s \in Seq(T), NEW d \in T, NEW f, NEW e
  PROVE  FoldText(f, e, Append(s, d)) = f[FoldText(f, e, s)][d]
<1> DEFINE t == Append(s, d)
           n == Len(s) + 1
<1>1. /\ t \in Seq(T) /\ Len(t) = n /\ t[n] = d /\ Len(s) \in Nat
      /\ n \in 0..Len(t) /\ n # 0 /\ n - 1 = Len(s) /\ Len(s) <= Len(t)
      /\ \A i \in 1..Len(s) : s[i] = t[i]
  OBVIOUS
<1> HIDE DEF t, n
<1>2. FoldedUpTo(f, e, s)[Len(s)] = FoldedUpTo(f, e, t)[Len(s)]
  BY <1>1, FoldedPrefix
<1>3. FoldedUpTo(f, e, t)[n] = FoldStep(f, e, t, n, FoldedUpTo(f, e, t)[n - 1])
  BY <1>1, FoldedUnfolds, Zenon
<1> QED BY <1>1, <1>2, <1>3 DEF FoldText, t, FoldStep

LEMMA FoldEmpty ==
  ASSUME NEW f, NEW e
  PROVE  FoldText(f, e, <<>>) = e
<1> DEFINE s == <<>>
<1>1. s \in Seq({}) /\ Len(s) = 0 /\ 0 \in 0..Len(s)
  OBVIOUS
<1> HIDE DEF s
<1>2. FoldedUpTo(f, e, s)[0] = FoldStep(f, e, s, 0, FoldedUpTo(f, e, s)[0 - 1])
  BY <1>1, FoldedUnfolds, Zenon
<1> QED BY <1>1, <1>2 DEF FoldText, FoldStep, s

-----------------------------------------------------------------------------
(* Sequences put together. *)

\* Sequences put one after the other.
FlatStep(s, f, n) == IF n = 1 THEN s[n] ELSE f[n - 1] \o s[n]
Flattens(f, s, k) == f = [n \in 1..k |-> FlatStep(s, f, n)]
Flat(s) == CHOOSE f : Flattens(f, s, Len(s))

LEMMA FlatNext ==
  ASSUME NEW s, NEW f, NEW n, n # 1
  PROVE  FlatStep(s, f, n) = f[n - 1] \o s[n]
BY DEF FlatStep

\* FlattenSeq is a recursive function of the prefixes: there is one.
LEMMA FlatExists ==
  ASSUME NEW s, NEW k \in Nat
  PROVE  \E f : Flattens(f, s, k)
<1> DEFINE T == {n \in Nat : \E f : Flattens(f, s, n)}
<1>1. 0 \in T
  <2> DEFINE f == [n \in 1..0 |-> <<>>]
  <2>1. f = [n \in 1..0 |-> FlatStep(s, f, n)]
    OBVIOUS
  <2> QED BY <2>1 DEF Flattens
<1>2. ASSUME NEW n \in T
      PROVE  n + 1 \in T
  <2>1. PICK f : Flattens(f, s, n)
    OBVIOUS
  <2>2. n \in Nat /\ \A m \in 1..n : f[m] = FlatStep(s, f, m)
    BY <2>1 DEF Flattens
  <2> DEFINE g == [m \in 1..n + 1 |-> IF m = n + 1 THEN FlatStep(s, f, m) ELSE f[m]]
  <2>3. ASSUME NEW m \in 1..n + 1
        PROVE  g[m] = FlatStep(s, g, m)
    <3>1. CASE m = n + 1
      BY <2>2, <3>1 DEF FlatStep
    <3>2. CASE m # n + 1
      <4>1. m \in 1..n /\ (m # 1 => m - 1 \in 1..n)
        BY <2>2, <3>2
      <4> QED BY <2>2, <4>1 DEF FlatStep
    <3> QED BY <3>1, <3>2
  <2>4. Flattens(g, s, n + 1)
    BY <2>3 DEF Flattens
  <2> QED BY <2>2, <2>4
<1>3. T = Nat
  <2> HIDE DEF T
  <2> QED BY <1>1, <1>2, Induction DEF T
<1> QED BY <1>3

\* FlattenSeq, one sequence at a time.
LEMMA FlattenUnfolds ==
  ASSUME NEW S, NEW s \in Seq(S)
  PROVE  /\ Len(s) = 0 => FlattenSeq(s) = s
         /\ Len(s) # 0 => FlattenSeq(s) = Flat(s)[Len(s)]
         /\ \A n \in 1..Len(s) : Flat(s)[n] = FlatStep(s, Flat(s), n)
<1>1. Len(s) \in Nat
  OBVIOUS
<1>2. Flattens(Flat(s), s, Len(s))
  BY <1>1, FlatExists, Zenon DEF Flat
<1>3. Flat(s) = CHOOSE f : Flattens(f, s, Len(s))
  BY DEF Flat
<1>4. Len(s) # 0 => FlattenSeq(s) = Flat(s)[Len(s)]
  BY <1>3 DEF FlattenSeq, Flattens, FlatStep
<1>5. \A n \in 1..Len(s) : Flat(s)[n] = FlatStep(s, Flat(s), n)
  BY <1>2, Zenon DEF Flattens
<1> QED BY <1>4, <1>5 DEF FlattenSeq

\* What is put together of sequences over C is one, of their elements.
Elements(s, n, t) ==
    /\ \A i \in 1..Len(t) : \E k \in 1..n : \E j \in 1..Len(s[k]) : t[i] = s[k][j]
    /\ \A k \in 1..n : \A j \in 1..Len(s[k]) : \E i \in 1..Len(t) : t[i] = s[k][j]

\* The elements of the parts are those of the whole, in both senses.
LEMMA FlattenElements ==
  ASSUME NEW C, NEW s \in Seq(Seq(C))
  PROVE  /\ FlattenSeq(s) \in Seq(C)
         /\ Elements(s, Len(s), FlattenSeq(s))
<1> DEFINE P(n) == n \in 1..Len(s) => Flat(s)[n] \in Seq(C) /\ Elements(s, n, Flat(s)[n])
           T == {n \in Nat : P(n)}
<1>1. /\ Len(s) \in Nat
      /\ \A n \in 1..Len(s) : s[n] \in Seq(C) /\ Flat(s)[n] = FlatStep(s, Flat(s), n)
  BY FlattenUnfolds
<1>2. 0 \in T
  OBVIOUS
<1>3. ASSUME NEW n \in T
      PROVE  n + 1 \in T
  <2>1. SUFFICES ASSUME n + 1 \in 1..Len(s)
                 PROVE  Flat(s)[n + 1] \in Seq(C) /\ Elements(s, n + 1, Flat(s)[n + 1])
    OBVIOUS
  <2>2. n \in Nat /\ s[n + 1] \in Seq(C) /\ Flat(s)[n + 1] = FlatStep(s, Flat(s), n + 1)
    BY <1>1, <2>1
  <2>3. CASE n = 0
    BY <2>2, <2>3 DEF FlatStep, Elements
  <2>4. CASE n # 0
    <3> DEFINE a == Flat(s)[n]
               b == s[n + 1]
               t == a \o b
    <3>1. n \in 1..Len(s) /\ Flat(s)[n + 1] = t
      <4> DEFINE m == n + 1
      <4>1. n \in 1..Len(s) /\ m - 1 = n /\ m # 1
        BY <1>1, <2>1, <2>2, <2>4
      <4>2. Flat(s)[m] = FlatStep(s, Flat(s), m)
        BY <2>2
      <4> HIDE DEF m
      <4>3. Flat(s)[m] = Flat(s)[n] \o s[m]
        BY <4>1, <4>2, FlatNext
      <4> QED BY <4>1, <4>3 DEF m
    <3>2. a \in Seq(C) /\ b \in Seq(C) /\ Elements(s, n, a)
      BY <2>2, <3>1
    <3>3. t \in Seq(C) /\ Len(t) = Len(a) + Len(b)
          /\ (\A i \in 1..Len(a) : t[i] = a[i])
          /\ (\A i \in 1..Len(b) : t[Len(a) + i] = b[i])
      <4> HIDE DEF a, b
      <4> QED BY <3>2
    <3>4. Len(a) \in Nat /\ Len(b) \in Nat
      <4> HIDE DEF a, b
      <4> QED BY <3>2
    <3> HIDE DEF a, t
    <3>5. ASSUME NEW i \in 1..Len(t)
          PROVE  \E k \in 1..n + 1 : \E j \in 1..Len(s[k]) : t[i] = s[k][j]
      <4>1. CASE i <= Len(a)
        <5>1. i \in 1..Len(a) /\ t[i] = a[i]
          BY <3>3, <3>4, <4>1
        <5>2. PICK k \in 1..n : \E j \in 1..Len(s[k]) : a[i] = s[k][j]
          BY <3>2, <5>1 DEF Elements
        <5> QED BY <2>2, <5>1, <5>2
      <4>2. CASE i > Len(a)
        <5>1. i - Len(a) \in 1..Len(b) /\ t[i] = b[i - Len(a)]
          <6>1. i - Len(a) \in 1..Len(b) /\ Len(a) + (i - Len(a)) = i
            BY <3>3, <3>4, <4>2
          <6> HIDE DEF b
          <6> QED BY <3>3, <6>1
        <5>2. n + 1 \in 1..n + 1
          BY <2>2
        <5> QED BY <5>1, <5>2
      <4> QED BY <3>4, <4>1, <4>2
    <3>6. ASSUME NEW k \in 1..n + 1, NEW j \in 1..Len(s[k])
          PROVE  \E i \in 1..Len(t) : t[i] = s[k][j]
      <4>1. CASE k \in 1..n
        <5>1. PICK i \in 1..Len(a) : a[i] = s[k][j]
          BY <3>2, <4>1 DEF Elements
        <5>2. i \in 1..Len(t) /\ t[i] = a[i]
          <6> HIDE DEF b
          <6> QED BY <3>3, <3>4, <5>1
        <5> QED BY <5>1, <5>2
      <4>2. CASE k = n + 1
        <5>1. j \in 1..Len(b) /\ s[k][j] = b[j]
          BY <4>2
        <5>2. Len(a) + j \in 1..Len(t) /\ t[Len(a) + j] = b[j]
          <6> HIDE DEF b
          <6> QED BY <3>3, <3>4, <5>1
        <5> QED BY <5>1, <5>2
      <4> QED BY <2>2, <4>1, <4>2
    <3>7. Elements(s, n + 1, t)
      BY <3>5, <3>6 DEF Elements
    <3> QED BY <3>1, <3>3, <3>7
  <2> QED BY <2>3, <2>4
<1>4. T = Nat
  <2> HIDE DEF T
  <2> QED BY <1>2, <1>3, Induction DEF T
<1>5. CASE Len(s) = 0
  <2>1. s = <<>> /\ <<>> \in Seq(C) /\ Len(<<>>) = 0
    BY <1>5
  <2>2. FlattenSeq(s) = <<>>
    BY <1>5, <2>1, FlattenUnfolds, Zenon
  <2>3. Elements(s, Len(s), <<>>)
    BY <1>5 DEF Elements
  <2> QED BY <2>1, <2>2, <2>3, Zenon
<1>6. CASE Len(s) # 0
  <2>1. Len(s) \in 1..Len(s) /\ FlattenSeq(s) = Flat(s)[Len(s)]
    BY <1>1, <1>6, FlattenUnfolds
  <2> QED BY <1>4, <2>1
<1> QED BY <1>5, <1>6
=============================================================================
