-------------------------- MODULE CentsLedgerProofs --------------------------
(***************************************************************************)
(* The arithmetic of amounts of any width: what its overflow checks catch, *)
(* and what divisions and percentages keep.                                *)
(***************************************************************************)
EXTENDS CentsLedger, TLAPS

Positive == Nat \ {0}
LEMMA ModBounds ==
  ASSUME NEW x \in Int, NEW d \in Positive
  PROVE  /\ x \div d \in Int
         /\ x % d \in 0..(d - 1)
         /\ x = d * (x \div d) + (x % d)
BY DEF Positive
LEMMA Wrapped ==
  ASSUME NEW x \in Int
  PROVE  /\ wrap(x) \in Cents
         /\ \E k \in Int : x = wrap(x) + (2 * (MaxInt + 1)) * k
<1> DEFINE W == 2 * (MaxInt + 1)
<1>1. W \in Positive /\ MinInt \in Int /\ x - MinInt \in Int /\ MaxInt = MinInt + W - 1
  BY WidthAssumption DEF Positive, MinInt
<1>2. /\ (x - MinInt) \div W \in Int
      /\ (x - MinInt) % W \in 0..(W - 1)
      /\ x - MinInt = W * ((x - MinInt) \div W) + ((x - MinInt) % W)
  BY <1>1, ModBounds
<1>3. wrap(x) = ((x - MinInt) % W) + MinInt
  BY DEF wrap
<1> DEFINE k == (x - MinInt) \div W
           m == (x - MinInt) % W
<1>4. W * k \in Int
  BY <1>1, <1>2 DEF Positive
<1> HIDE DEF k, m, W
<1>5. x = wrap(x) + W * k
  BY <1>1, <1>2, <1>3, <1>4 DEF k, m
<1>6. wrap(x) \in Cents
  BY <1>1, <1>2, <1>3 DEF Cents, Positive
<1> QED BY <1>2, <1>5, <1>6 DEF k, W

\* What fits is kept.
LEMMA Kept ==
  ASSUME NEW x \in Cents
  PROVE  wrap(x) = x
<1> DEFINE W == 2 * (MaxInt + 1)
<1>a. x \in Int
  BY WidthAssumption DEF Cents, MinInt
<1>1. PICK k \in Int : x = wrap(x) + W * k
  BY <1>a, Wrapped
<1>2. /\ W \in Positive /\ MinInt \in Int /\ MaxInt = MinInt + W - 1
      /\ x \in Int /\ wrap(x) \in Cents /\ wrap(x) \in Int
  BY Wrapped, WidthAssumption DEF Cents, MinInt, Positive
<1> HIDE DEF W
<1>3. W * k \in Int /\ W * k < W /\ W * k > -W
  BY <1>1, <1>2 DEF Cents, Positive
<1>4. k = 0
  BY <1>2, <1>3 DEF Positive
<1> QED BY <1>1, <1>2, <1>4 DEF Positive

LEMMA DivBounds ==
  ASSUME NEW n \in Nat, NEW d \in Positive
  PROVE  /\ n \div d \in Nat
         /\ d * (n \div d) <= n
         /\ n < d * (n \div d) + d
BY DEF Positive

LEMMA Signs ==
  ASSUME NEW a \in Int, NEW b \in Int
  PROVE  /\ a * b \in Int
         /\ (-a) * b = -(a * b)
         /\ a * (-b) = -(a * b)
         /\ (-a) * (-b) = a * b
OBVIOUS

\* A factor that is not zero does not make a product smaller.
LEMMA AtLeast ==
  ASSUME NEW n \in Int, NEW d \in Int, d # 0
  PROVE  n * d \in Int /\ magnitude(n) <= magnitude(n * d)
<1>1. ASSUME NEW x \in Nat, NEW y \in Positive PROVE x * y \in Nat /\ x <= x * y
  <2>1. x * (y - 1) \in Nat /\ x * y = x * (y - 1) + x
    BY DEF Positive
  <2> QED BY <2>1 DEF Positive
<1>2. CASE n >= 0 /\ d > 0
  BY <1>1, <1>2 DEF magnitude, Positive
<1>3. CASE n < 0 /\ d > 0
  BY <1>1, <1>3, Signs DEF magnitude, Positive
<1>4. CASE n >= 0 /\ d < 0
  BY <1>1, <1>4, Signs DEF magnitude, Positive
<1>5. CASE n < 0 /\ d < 0
  BY <1>1, <1>5, Signs DEF magnitude, Positive
<1> QED BY <1>2, <1>3, <1>4, <1>5

\* Go's division: what is left over is less than the divisor and has the sign of
\* the dividend.
LEMMA Truncated ==
  ASSUME NEW a \in Int, NEW b \in Int \ {0}
  PROVE  /\ trunc(a, b) \in Int
         /\ b * trunc(a, b) \in Int
         /\ magnitude(a - b * trunc(a, b)) < magnitude(b)
         /\ a - b * trunc(a, b) # 0 => (a - b * trunc(a, b) < 0) = (a < 0)
         /\ magnitude(b * trunc(a, b)) <= magnitude(a)
         /\ magnitude(trunc(a, b)) <= magnitude(a)
<1> DEFINE A == magnitude(a)
           B == magnitude(b)
           q == A \div B
<1>1. A \in Nat /\ B \in Positive
  BY DEF magnitude, Positive
<1>2. q \in Nat /\ B * q <= A /\ A < B * q + B
  BY <1>1, DivBounds
<1>3. trunc(a, b) = IF (a < 0) = (b < 0) THEN q ELSE -q
  BY DEF trunc
<1> HIDE DEF q
<1>4. b * trunc(a, b) = IF a < 0 THEN -(B * q) ELSE B * q
  <2>1. b = IF b < 0 THEN -B ELSE B
    BY DEF magnitude
  <2>2. /\ (-B) * q = -(B * q) /\ B * (-q) = -(B * q) /\ (-B) * (-q) = B * q
    BY <1>1, <1>2, Signs DEF Positive
  <2> HIDE DEF B
  <2>3. CASE a < 0 /\ b < 0
    BY <1>3, <2>1, <2>2, <2>3
  <2>4. CASE a < 0 /\ ~(b < 0)
    BY <1>3, <2>1, <2>2, <2>4
  <2>5. CASE ~(a < 0) /\ b < 0
    BY <1>3, <2>1, <2>2, <2>5
  <2>6. CASE ~(a < 0) /\ ~(b < 0)
    BY <1>3, <2>1, <2>2, <2>6
  <2> QED BY <2>3, <2>4, <2>5, <2>6
<1>5. B * q \in Nat /\ q <= B * q
  BY <1>1, <1>2, AtLeast DEF magnitude, Positive
<1>6. trunc(a, b) \in Int /\ magnitude(trunc(a, b)) = q
  BY <1>2, <1>3 DEF magnitude
<1> QED BY <1>1, <1>2, <1>4, <1>5, <1>6 DEF magnitude, Positive

LEMMA TruncatedExact ==
  ASSUME NEW c \in Int, NEW n \in Int \ {0}
  PROVE  c * n \in Int /\ trunc(c * n, n) = c
<1> DEFINE t == trunc(c * n, n)
<1>1. c * n \in Int
  BY Signs
<1>2. t \in Int /\ n * t \in Int /\ magnitude(c * n - n * t) < magnitude(n)
  BY <1>1, Truncated
<1> HIDE DEF t
<1>3. c * n - n * t = n * (c - t)
  BY <1>2
<1>4. c - t = 0
  BY <1>2, <1>3, AtLeast DEF magnitude
<1> QED BY <1>1, <1>2, <1>4 DEF t

-----------------------------------------------------------------------------
(* The operations. *)

LEMMA Width ==
  /\ MaxInt \in Positive /\ MinInt \in Int /\ MinInt = -MaxInt - 1
  /\ Full \in Positive /\ Full <= MaxInt
  /\ 0 \in Cents
  /\ \A c \in Cents : c \in Int /\ MinInt <= c /\ c <= MaxInt
BY WidthAssumption DEF Positive, MinInt, Cents

\* A quotient fits, but for MinInt / -1.
LEMMA QuotientFits ==
  ASSUME NEW c \in Cents, NEW n \in Int \ {0}, ~(c = MinInt /\ n = -1)
  PROVE  trunc(c, n) \in Cents /\ quo(c, n) = trunc(c, n)
<1>1. /\ c \in Int /\ trunc(c, n) \in Int /\ n * trunc(c, n) \in Int
      /\ magnitude(n * trunc(c, n)) <= magnitude(c)
      /\ magnitude(trunc(c, n)) <= magnitude(c)
  BY Width, Truncated
<1>2. trunc(c, n) <= MaxInt
  <2>1. ASSUME trunc(c, n) = MaxInt + 1
        PROVE  FALSE
    <3>1. c = MinInt
      BY <1>1, <2>1, Width DEF magnitude, Positive
    <3>2. n * trunc(c, n) = n * (MaxInt + 1) /\ n = 1
      <4>1. n \in Int /\ n # 0 /\ n # -1
        BY <3>1
      <4>2. CASE n = 1
        BY <2>1, <4>2
      <4>3. CASE n >= 2
        <5>1. n * (MaxInt + 1) = (n - 2) * (MaxInt + 1) + 2 * (MaxInt + 1)
              /\ (n - 2) * (MaxInt + 1) >= 0
          BY <4>1, <4>3, Width DEF Positive
        <5> QED BY <1>1, <2>1, <3>1, <5>1, Width DEF magnitude, Positive
      <4>4. CASE n <= -2
        <5>1. n * (MaxInt + 1) = -((-n - 2) * (MaxInt + 1)) - 2 * (MaxInt + 1)
              /\ (-n - 2) * (MaxInt + 1) >= 0
          BY <4>1, <4>4, Width DEF Positive
        <5> QED BY <1>1, <2>1, <3>1, <5>1, Width DEF magnitude, Positive
      <4> QED BY <4>1, <4>2, <4>3, <4>4
    <3>3. magnitude(c - n * trunc(c, n)) < magnitude(n)
      BY <1>1, Truncated
    <3> QED BY <2>1, <3>1, <3>2, <3>3, Width DEF magnitude, Positive
  <2> QED BY <1>1, <2>1, Width DEF magnitude, Positive
<1>3. trunc(c, n) \in Cents
  BY <1>1, <1>2, Width DEF magnitude, Positive, Cents
<1> QED BY <1>3, Kept DEF quo

\* A product that dividing back gives the other factor did not overflow.
LEMMA ProductExact ==
  ASSUME NEW c \in Cents, NEW n \in Int \ {0},
         magnitude(n) <= MaxInt + 1,
         ~(c = MinInt /\ n = -1), quo(wrap(c * n), n) = c
  PROVE  wrap(c * n) = c * n
<1> DEFINE p == wrap(c * n)
           W == 2 * (MaxInt + 1)
<1>1. c \in Int /\ c * n \in Int /\ W \in Positive
  BY Width, Signs DEF Positive
<1>2. PICK k \in Int : c * n = p + W * k
  BY <1>1, Wrapped
<1>3. p \in Cents /\ p \in Int
  BY <1>1, Wrapped, Width
<1> HIDE DEF p, W
<1>4. ~(p = MinInt /\ n = -1)
  <2>1. SUFFICES ASSUME p = MinInt, n = -1 PROVE FALSE
    OBVIOUS
  <2>2. trunc(p, n) = MaxInt + 1
    <3>1. trunc(MinInt, -1) = trunc((MaxInt + 1) * (-1), -1)
      BY Width DEF Positive
    <3>2. trunc((MaxInt + 1) * (-1), -1) = MaxInt + 1
      BY TruncatedExact, Width DEF Positive
    <3> QED BY <2>1, <3>1, <3>2
  <2>3. wrap(MaxInt + 1) = MinInt
    <3>1. ((MaxInt + 1) - MinInt) = W
      BY Width DEF W, Positive
    <3>2. W % W = 0
      <4>1. W % W \in 0..(W - 1) /\ W = W * (W \div W) + (W % W) /\ W \div W \in Int
        BY <1>1, ModBounds DEF Positive
      <4>2. W * (1 - (W \div W)) = W % W
        BY <1>1, <4>1 DEF Positive
      <4>3. 1 - (W \div W) = 0
        BY <1>1, <4>1, <4>2, AtLeast DEF magnitude, Positive
      <4> QED BY <1>1, <4>2, <4>3 DEF Positive
    <3> QED BY <3>1, <3>2, Width DEF wrap, W
  <2>4. quo(p, n) = MinInt
    BY <2>2, <2>3 DEF quo
  <2> QED BY <2>1, <2>4 DEF p
<1>5. trunc(p, n) = c
  BY <1>3, <1>4, QuotientFits DEF p
<1>6. magnitude(p - n * c) < magnitude(n)
  BY <1>3, <1>5, Truncated
<1>7. n * c = c * n
  BY <1>1
<1>8. magnitude(W * k) < W
  BY <1>1, <1>2, <1>3, <1>6, <1>7, Signs, Width DEF W, magnitude, Positive
<1>9. k = 0
  BY <1>1, <1>8, AtLeast DEF magnitude, Positive
<1> QED BY <1>1, <1>2, <1>3, <1>9 DEF p, Positive

\* A product that fits is found to.
LEMMA ProductFits ==
  ASSUME NEW c \in Cents, NEW n \in Int \ {0}, c * n \in Cents
  PROVE  quo(wrap(c * n), n) = c
<1>1. wrap(c * n) = c * n
  BY Kept
<1>2. trunc(c * n, n) = c
  BY TruncatedExact, Width
<1> QED BY <1>1, <1>2, Kept DEF quo

\* A sum or a difference goes round the width once at most.
LEMMA WrapsOnce ==
  ASSUME NEW x \in Int, 2 * MinInt <= x, x <= 2 * MaxInt + 1
  PROVE  /\ x \in Cents => wrap(x) = x
         /\ x > MaxInt => wrap(x) = x - 2 * (MaxInt + 1)
         /\ x < MinInt => wrap(x) = x + 2 * (MaxInt + 1)
         /\ wrap(x) \in Cents
<1> DEFINE W == 2 * (MaxInt + 1)
<1>1. W \in Positive /\ MaxInt = MinInt + W - 1 /\ MinInt \in Int
  BY Width DEF Positive
<1>2. PICK k \in Int : x = wrap(x) + W * k
  BY Wrapped
<1>3. wrap(x) \in Cents /\ wrap(x) \in Int
  BY Wrapped, Width
<1>4. W = 2 * (MaxInt + 1)
  OBVIOUS
<1> HIDE DEF W
<1>5. W * k \in Int /\ -2 * W < W * k /\ W * k < 2 * W
  BY <1>1, <1>2, <1>3, <1>4, Signs, Width DEF Positive
<1>6. k \in {-1, 0, 1}
  <2>1. CASE k >= 2
    <3>1. W * k = W * (k - 2) + 2 * W /\ W * (k - 2) >= 0
      BY <1>1, <2>1 DEF Positive
    <3> QED BY <1>1, <1>5, <3>1 DEF Positive
  <2>2. CASE k <= -2
    <3>1. W * k = -(W * (-k - 2)) - 2 * W /\ W * (-k - 2) >= 0
      BY <1>1, <2>2 DEF Positive
    <3> QED BY <1>1, <1>5, <3>1 DEF Positive
  <2> QED BY <2>1, <2>2
<1>7. W * 0 = 0 /\ W * 1 = W /\ W * (-1) = -W
  BY <1>1 DEF Positive
<1> QED BY <1>1, <1>2, <1>3, <1>4, <1>6, <1>7, Width DEF Cents, Positive

Result == [panic : BOOLEAN, cents : Cents]

LEMMA Results ==
  ASSUME NEW x \in Cents
  PROVE  /\ Returned(x) \in Result /\ Panicked \in Result
         /\ ~Returned(x).panic /\ Returned(x).cents = x
         /\ Panicked.panic
BY Width DEF Returned, Panicked, Result

LEMMA AddSound ==
  ASSUME NEW c \in Cents, NEW n \in Cents
  PROVE  /\ Add(c, n) \in Result
         /\ ~Add(c, n).panic /\ MinInt \notin {c, n} => Add(c, n).cents = c + n
         /\ Add(c, n).panic => c + n \notin Cents
<1> DEFINE r == wrap(c + n)
<1>1. c + n \in Int /\ 2 * MinInt <= c + n /\ c + n <= 2 * MaxInt + 1
  BY Width DEF Positive
<1>2. /\ c + n \in Cents => r = c + n
      /\ c + n > MaxInt => r = (c + n) - 2 * (MaxInt + 1)
      /\ c + n < MinInt => r = (c + n) + 2 * (MaxInt + 1)
      /\ r \in Cents
  BY <1>1, WrapsOnce
<1> DEFINE over == \/ c > 0 /\ n > 0 /\ r < 0
                   \/ c < 0 /\ n < 0 /\ r > 0
<1>3. Add(c, n) = IF over THEN Panicked ELSE Returned(r)
  BY DEF Add
<1> HIDE DEF r
<1>4. over => c + n \notin Cents
  BY <1>2, Width DEF Positive
<1>5. ~over /\ MinInt \notin {c, n} => r = c + n
  BY <1>1, <1>2, Width DEF Cents, Positive
<1> HIDE DEF over
<1> QED BY <1>2, <1>3, <1>4, <1>5, Results

LEMMA SubSound ==
  ASSUME NEW c \in Cents, NEW n \in Cents
  PROVE  /\ Sub(c, n) \in Result
         /\ ~Sub(c, n).panic /\ MinInt \notin {c, n} => Sub(c, n).cents = c - n
         /\ Sub(c, n).panic => c - n \notin Cents
<1> DEFINE r == wrap(c - n)
<1>1. c - n \in Int /\ 2 * MinInt <= c - n /\ c - n <= 2 * MaxInt + 1
  BY Width DEF Positive
<1>2. /\ c - n \in Cents => r = c - n
      /\ c - n > MaxInt => r = (c - n) - 2 * (MaxInt + 1)
      /\ c - n < MinInt => r = (c - n) + 2 * (MaxInt + 1)
      /\ r \in Cents
  BY <1>1, WrapsOnce
<1> DEFINE over == \/ c > 0 /\ n < 0 /\ r < 0
                   \/ c < 0 /\ n > 0 /\ r > 0
<1>3. Sub(c, n) = IF over THEN Panicked ELSE Returned(r)
  BY DEF Sub
<1> HIDE DEF r
<1>4. over => c - n \notin Cents
  BY <1>2, Width DEF Positive
<1>5. ~over /\ MinInt \notin {c, n} => r = c - n
  BY <1>1, <1>2, Width DEF Cents, Positive
<1> HIDE DEF over
<1> QED BY <1>2, <1>3, <1>4, <1>5, Results

LEMMA MulIntSound ==
  ASSUME NEW c \in Cents, NEW n \in Cents
  PROVE  /\ MulInt(c, n) \in Result
         /\ ~MulInt(c, n).panic /\ MinInt \notin {c, n} => MulInt(c, n).cents = c * n
         /\ MulInt(c, n).panic => c * n \notin Cents
<1> DEFINE r == wrap(c * n)
           back == quo(r, n)
<1>1. c \in Int /\ n \in Int /\ c * n \in Int /\ r \in Cents
  BY Width, Signs, Wrapped
<1>2. CASE c = 0 \/ n = 0
  <2>1. MulInt(c, n) = Returned(0) /\ c * n = 0
    BY <1>1, <1>2 DEF MulInt
  <2> QED BY <2>1, Results, Width
<1>3. CASE ~(c = 0 \/ n = 0)
  <2>1. MulInt(c, n) = IF back # c THEN Panicked ELSE Returned(r)
    BY <1>3 DEF MulInt
  <2>2. back # c => c * n \notin Cents
    BY <1>1, <1>3, ProductFits
  <2>3. back = c /\ MinInt \notin {c, n} => r = c * n
    BY <1>1, <1>3, ProductExact, Width DEF magnitude, Positive
  <2> HIDE DEF back, r
  <2> QED BY <1>1, <2>1, <2>2, <2>3, Results
<1> QED BY <1>2, <1>3

LEMMA DivIntSound ==
  ASSUME NEW c \in Cents, NEW n \in Cents
  PROVE  /\ DivInt(c, n) \in Result
         /\ ~DivInt(c, n).panic /\ MinInt \notin {c, n}
            => DivInt(c, n).cents = trunc(c, n)
         /\ DivInt(c, n).panic => n = 0
<1>1. CASE n = 0
  BY <1>1, Results DEF DivInt
<1>2. CASE n # 0
  <2>1. c \in Int /\ n \in Int \ {0} /\ trunc(c, n) \in Int
    BY <1>2, Width, Truncated
  <2>2. quo(c, n) \in Cents
    BY <2>1, Wrapped DEF quo
  <2>3. MinInt \notin {c, n} => quo(c, n) = trunc(c, n)
    BY <2>1, QuotientFits
  <2>4. DivInt(c, n) = Returned(quo(c, n))
    BY <1>2 DEF DivInt, Quotient
  <2> QED BY <2>2, <2>3, <2>4, Results
<1> QED BY <1>1, <1>2

\* A percentage is the truncated hundredth part of an exact product.
LEMMA PercentExact ==
  ASSUME NEW c \in Cents, NEW n \in Int, magnitude(n) <= MaxInt + 1
  PROVE  /\ MulPercent(c, n) \in Result
         /\ ~MulPercent(c, n).panic /\ ~(c = MinInt /\ n = -1)
            => MulPercent(c, n).cents = trunc(c * n, Full)
         /\ MulPercent(c, n).panic => c * n \notin Cents
<1> DEFINE r == wrap(c * n)
           back == quo(r, n)
<1>1. c \in Int /\ c * n \in Int /\ r \in Cents /\ Full \in Int \ {0}
  BY Width, Signs, Wrapped DEF Positive
<1>2. CASE c = 0 \/ n = 0
  <2>1. MulPercent(c, n) = Returned(0) /\ c * n = 0
    BY <1>1, <1>2 DEF MulPercent
  <2>2. trunc(0 * Full, Full) = 0
    BY <1>1, TruncatedExact
  <2>3. trunc(0, Full) = 0
    BY <1>1, <2>2
  <2> QED BY <2>1, <2>3, Results, Width
<1>3. CASE ~(c = 0 \/ n = 0)
  <2>1. MulPercent(c, n) = IF back # c THEN Panicked ELSE Returned(quo(r, Full))
    BY <1>3 DEF MulPercent
  <2>2. back # c => c * n \notin Cents
    BY <1>1, <1>3, ProductFits
  <2>3. back = c /\ ~(c = MinInt /\ n = -1) => r = c * n
    BY <1>1, <1>3, ProductExact
  <2>4. Full # -1
    BY Width DEF Positive
  <2> HIDE DEF back, r
  <2>5. quo(r, Full) = trunc(r, Full) /\ quo(r, Full) \in Cents
    BY <1>1, <2>4, QuotientFits
  <2> QED BY <1>1, <2>1, <2>2, <2>3, <2>5, Results
<1> QED BY <1>2, <1>3

LEMMA AbsNegateSound ==
  ASSUME NEW c \in Cents
  PROVE  /\ Abs(c) \in Result /\ Negate(c) \in Result
         /\ ~Abs(c).panic /\ ~Negate(c).panic
         /\ c # MinInt => Abs(c).cents = magnitude(c) /\ Negate(c).cents = -c
<1>1. CASE c = MinInt
  <2>1. MaxInt \in Cents
    BY Width DEF Positive, Cents
  <2> QED BY <1>1, <2>1, Results DEF Abs, Negate
<1>2. CASE c # MinInt
  <2>1. -c \in Cents
    BY <1>2, Width DEF Positive, Cents
  <2>2. /\ Abs(c) = Returned(magnitude(c)) /\ Negate(c) = Returned(-c)
        /\ magnitude(c) \in Cents
    BY <1>2, <2>1 DEF Abs, Negate, magnitude
  <2> QED BY <2>1, <2>2, Results
<1> QED BY <1>1, <1>2

-----------------------------------------------------------------------------
(* The account. *)

LEMMA InitSound == Init => TypeOK /\ ExactAwayFromMin /\ PanicMeansOverflow
<1> SUFFICES ASSUME Init
             PROVE  TypeOK /\ ExactAwayFromMin /\ PanicMeansOverflow
  OBVIOUS
<1>1. balance \in Cents /\ ~panicked /\ panicked \in BOOLEAN
  BY ArgumentsAssumption DEF Init
<1>2. /\ call \in [op : Op \cup {"none"}, c : Cents, arg : Cents]
      /\ call.op = "none" /\ call.c = balance
  BY <1>1, Width DEF Init
<1>3. Ideal = balance
  BY <1>2 DEF Ideal
<1> QED BY <1>1, <1>2, <1>3 DEF TypeOK, ExactAwayFromMin, PanicMeansOverflow

\* The state after a call, from what its operation promises.
LEMMA Performed ==
  ASSUME TypeOK, NEW op \in Op, NEW arg \in Cents, NEW result \in Result,
         Perform(op, arg, result)
  PROVE  /\ TypeOK'
         /\ call'.op = op /\ call'.c = balance /\ call'.arg = arg
         /\ panicked' = result.panic
         /\ ~result.panic => balance' = result.cents
BY DEF Perform, TypeOK, Result

LEMMA NextSound ==
  ASSUME TypeOK, Next
  PROVE  TypeOK' /\ ExactAwayFromMin' /\ PanicMeansOverflow'
<1> USE DEF ExactAwayFromMin, PanicMeansOverflow, Ideal
<1>0. balance \in Cents
  BY DEF TypeOK
<1>1. ASSUME NEW x \in Arguments, Deposit(x)
      PROVE  TypeOK' /\ ExactAwayFromMin' /\ PanicMeansOverflow'
  BY <1>0, <1>1, ArgumentsAssumption, AddSound, Performed DEF Deposit, Op
<1>2. ASSUME NEW x \in Arguments, Withdraw(x)
      PROVE  TypeOK' /\ ExactAwayFromMin' /\ PanicMeansOverflow'
  BY <1>0, <1>2, ArgumentsAssumption, SubSound, Performed DEF Withdraw, Op
<1>3. ASSUME NEW x \in Arguments, Installments(x)
      PROVE  TypeOK' /\ ExactAwayFromMin' /\ PanicMeansOverflow'
  BY <1>0, <1>3, ArgumentsAssumption, MulIntSound, Performed DEF Installments, Op
<1>4. ASSUME NEW x \in Arguments, Share(x)
      PROVE  TypeOK' /\ ExactAwayFromMin' /\ PanicMeansOverflow'
  BY <1>0, <1>4, ArgumentsAssumption, DivIntSound, Performed DEF Share, Op
<1>5. ASSUME NEW x \in Arguments, Fee(x)
      PROVE  TypeOK' /\ ExactAwayFromMin' /\ PanicMeansOverflow'
  <2>1. x \in Cents /\ x \in Int /\ magnitude(x) <= MaxInt + 1
    BY ArgumentsAssumption, Width DEF magnitude, Positive
  <2> QED BY <1>0, <1>5, <2>1, PercentExact, Performed DEF Fee, Op
<1>6. ASSUME Size
      PROVE  TypeOK' /\ ExactAwayFromMin' /\ PanicMeansOverflow'
  BY <1>0, <1>6, Width, AbsNegateSound, Performed DEF Size, Op
<1>7. ASSUME Reverse
      PROVE  TypeOK' /\ ExactAwayFromMin' /\ PanicMeansOverflow'
  BY <1>0, <1>7, Width, AbsNegateSound, Performed DEF Reverse, Op
<1> QED BY <1>1, <1>2, <1>3, <1>4, <1>5, <1>6, <1>7 DEF Next

-----------------------------------------------------------------------------
(* Shares and percentages. *)

LEMMA ShareSound ==
  ASSUME TypeOK
  PROVE  ShareConserves
<1> SUFFICES ASSUME NEW n \in 1..Parties
             PROVE  /\ Quotient(balance, n) * n + Remainder(balance, n) = balance
                    /\ magnitude(Remainder(balance, n)) < n
                    /\ Remainder(balance, n) # 0
                       => (Remainder(balance, n) < 0) = (balance < 0)
  BY DEF ShareConserves
<1> DEFINE t == trunc(balance, n)
<1>1. /\ balance \in Cents /\ balance \in Int
      /\ n \in Int \ {0} /\ n > 0 /\ n # -1
  BY ArgumentsAssumption, Width DEF TypeOK
<1>2. Quotient(balance, n) = t /\ Remainder(balance, n) = balance - n * t
  BY <1>1, QuotientFits DEF Quotient, Remainder, rem
<1>3. /\ t \in Int /\ n * t \in Int
      /\ magnitude(balance - n * t) < n
      /\ balance - n * t # 0 => (balance - n * t < 0) = (balance < 0)
  <2>1. magnitude(n) = n
    BY <1>1 DEF magnitude
  <2> QED BY <1>1, <2>1, Truncated
<1> HIDE DEF t
<1>4. t * n = n * t
  BY <1>1, <1>3
<1> QED BY <1>1, <1>2, <1>3, <1>4

\* Two floored quotients lose one at most.
LEMMA TwoFloors ==
  ASSUME NEW x \in Nat, NEW y \in Nat, NEW n \in Nat, x + y = n * Full
  PROVE  /\ x \div Full \in Nat /\ y \div Full \in Nat
         /\ n - (x \div Full + y \div Full) \in {0, 1}
<1> DEFINE p == x \div Full
           q == y \div Full
<1>1. /\ p \in Nat /\ Full * p <= x /\ x < Full * p + Full
      /\ q \in Nat /\ Full * q <= y /\ y < Full * q + Full
  BY Width, DivBounds
<1> HIDE DEF p, q
<1> DEFINE d == n - (p + q)
<1>2. d \in Int /\ Full * d = n * Full - (Full * p + Full * q)
      /\ Full * p \in Nat /\ Full * q \in Nat /\ n * Full \in Nat
  BY <1>1, Width DEF Positive
<1> HIDE DEF d
<1>3. 0 <= Full * d /\ Full * d < 2 * Full
  BY <1>1, <1>2, Width DEF Positive
<1>4. ASSUME d < 0
      PROVE  FALSE
  BY <1>2, <1>3, <1>4, Width DEF Positive
<1>5. ASSUME d >= 2
      PROVE  FALSE
  <2>1. Full * d = Full * (d - 2) + 2 * Full /\ Full * (d - 2) >= 0
    BY <1>2, <1>5, Width DEF Positive
  <2> QED BY <1>2, <1>3, <2>1, Width DEF Positive
<1>6. d \in {0, 1}
  BY <1>2, <1>4, <1>5
<1> QED BY <1>1, <1>6 DEF p, q, d

\* Percentages keep the sign.
LEMMA TruncatedParts ==
  ASSUME NEW x \in Int
  PROVE  trunc(x, Full) = IF x < 0 THEN -((-x) \div Full) ELSE x \div Full
BY Width DEF trunc, magnitude, Positive

LEMMA PercentSound ==
  ASSUME TypeOK
  PROVE  PercentSplit
<1> SUFFICES ASSUME NEW bps \in 0..Full,
                    ~MulPercent(balance, bps).panic,
                    ~MulPercent(balance, Full - bps).panic
             PROVE  magnitude(balance)
                    - magnitude(MulPercent(balance, bps).cents
                                + MulPercent(balance, Full - bps).cents) \in {0, 1}
  BY DEF PercentSplit
<1> DEFINE x == balance * bps
           y == balance * (Full - bps)
<1>1. balance \in Cents /\ balance \in Int /\ Full \in Positive /\ Full <= MaxInt
  BY Width DEF TypeOK
<1>2. /\ bps \in Nat /\ magnitude(bps) <= MaxInt + 1
      /\ Full - bps \in Nat /\ magnitude(Full - bps) <= MaxInt + 1
      /\ bps # -1 /\ Full - bps # -1
  BY <1>1, Width DEF magnitude, Positive
<1>3. /\ MulPercent(balance, bps).cents = trunc(x, Full)
      /\ MulPercent(balance, Full - bps).cents = trunc(y, Full)
  BY <1>1, <1>2, PercentExact
<1>4. x \in Int /\ y \in Int /\ x + y = balance * Full
  BY <1>1, <1>2 DEF Positive
<1>5. CASE balance >= 0
  <2>1. x \in Nat /\ y \in Nat
    BY <1>1, <1>2, <1>5
  <2>2. /\ trunc(x, Full) = x \div Full /\ trunc(y, Full) = y \div Full
    BY <2>1, TruncatedParts
  <2> HIDE DEF x, y
  <2>3. /\ x \div Full \in Nat /\ y \div Full \in Nat
        /\ balance - (x \div Full + y \div Full) \in {0, 1}
    BY <1>1, <1>4, <1>5, <2>1, TwoFloors
  <2> QED BY <1>1, <1>3, <1>5, <2>2, <2>3 DEF magnitude
<1>6. CASE balance < 0
  <2>1. /\ -balance \in Nat /\ -x = (-balance) * bps /\ -y = (-balance) * (Full - bps)
        /\ (-balance) * Full = -(balance * Full)
    BY <1>1, <1>2, <1>6 DEF Positive
  <2>2. -x \in Nat /\ -y \in Nat
    BY <1>1, <1>2, <2>1
  <2> HIDE DEF x, y
  <2>3. /\ trunc(x, Full) = -((-x) \div Full) /\ trunc(y, Full) = -((-y) \div Full)
    <3>1. 0 \div Full = 0
      BY <1>1 DEF Positive
    <3> QED BY <1>4, <2>2, <3>1, TruncatedParts
  <2>4. /\ (-x) \div Full \in Nat /\ (-y) \div Full \in Nat
        /\ -balance - ((-x) \div Full + (-y) \div Full) \in {0, 1}
    BY <1>1, <1>4, <2>1, <2>2, TwoFloors
  <2> QED BY <1>1, <1>3, <1>6, <2>3, <2>4 DEF magnitude
<1> QED BY <1>1, <1>5, <1>6

-----------------------------------------------------------------------------
LEMMA Sound ==
  Spec => [](TypeOK /\ ExactAwayFromMin /\ PanicMeansOverflow
             /\ ShareConserves /\ PercentSplit)
<1> DEFINE Inv == TypeOK /\ ExactAwayFromMin /\ PanicMeansOverflow
<1>1. Init => Inv
  BY InitSound
<1>2. Inv /\ [Next]_vars => Inv'
  <2>1. ASSUME Inv, UNCHANGED vars
        PROVE  Inv'
    BY <2>1 DEF vars, TypeOK, ExactAwayFromMin, PanicMeansOverflow, Ideal
  <2> QED BY <2>1, NextSound
<1>3. Inv => ShareConserves /\ PercentSplit
  BY ShareSound, PercentSound
<1> QED BY <1>1, <1>2, <1>3, PTL DEF Spec

\* At every width, an operation that returns, with operands other than the
\* smallest integer, returns the exact result.
THEOREM ExactResults == Spec => []ExactAwayFromMin
BY Sound, PTL

\* At every width, a panic is never a false alarm.
THEOREM NoFalseAlarm == Spec => []PanicMeansOverflow
BY Sound, PTL

\* At every width and among any number of parties, a division loses no cent.
THEOREM NothingLostInShares == Spec => []ShareConserves
BY Sound, PTL

\* At every width, two complementary percentages lose one cent at most.
THEOREM OneCentLost == Spec => []PercentSplit
BY Sound, PTL
=============================================================================
