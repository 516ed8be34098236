--------------------------- MODULE StockEntryProofs ---------------------------
(***************************************************************************)
(* A stock entry and its three parts.  Vehicle documents, for every text   *)
(* an extractor returns: what the check digits catch, what a correction    *)
(* leads to, and what is sent in the end.  The ledger of the calls that    *)
(* read them: what is charged covers what they were estimated at, for      *)
(* every table of prices, every exchange rate, and photos of every size.   *)
(* And certificates, for files of any height and any number of children:   *)
(* what rewriting keeps, whom an error blames, and whose number is shown.  *)
(***************************************************************************)
EXTENDS StockEntry, TextProofs

-----------------------------------------------------------------------------
(* One misread character. *)

\* Two texts of n characters that differ at position i alone.
OneMisread(v, w, n, i) ==
    /\ i \in 1..n
    /\ v[i] # w[i]
    /\ \A j \in 1..n : j # i => v[j] = w[j]

\* d times one of the weights.
Weighted(x, d) ==
    \/ x = 2 * d \/ x = 3 * d \/ x = 4 * d \/ x = 5 * d \/ x = 6 * d
    \/ x = 7 * d \/ x = 8 * d \/ x = 9 * d \/ x = 10 * d

-----------------------------------------------------------------------------
(* Eleven divides no weight: a difference it does not divide shows. *)

LEMMA Shows ==
  ASSUME NEW x \in Int, NEW y \in Int, NEW d \in Int,
         d % 11 # 0, Weighted(x - y, d)
  PROVE  x % 11 # y % 11 /\ (x * 10) % 11 # (y * 10) % 11
BY DEF Weighted

LEMMA DigitsDiffer ==
  ASSUME NEW a \in Digits, NEW b \in Digits, a # b
  PROVE  a - b \in Int /\ (a - b) % 11 # 0
BY DEF Digits

\* The sums of a RENAVAM and of the first check digit of a CPF.
LEMMA ElevenStep ==
  ASSUME NEW v \in [1..11 -> Int], NEW w \in [1..11 -> Int],
         NEW i \in 1..10, OneMisread(v, w, 11, i)
  PROVE  /\ SomaRenavam(v) \in Int /\ SomaRenavam(w) \in Int
         /\ SomaCPF1(v) \in Int /\ SomaCPF1(w) \in Int
         /\ Weighted(SomaRenavam(v) - SomaRenavam(w), v[i] - w[i])
         /\ i <= 9 => Weighted(SomaCPF1(v) - SomaCPF1(w), v[i] - w[i])
<1>1. /\ v[1] \in Int /\ v[2] \in Int /\ v[3] \in Int /\ v[4] \in Int
      /\ v[5] \in Int /\ v[6] \in Int /\ v[7] \in Int /\ v[8] \in Int
      /\ v[9] \in Int /\ v[10] \in Int
  <2>1. \A j \in 1..10 : v[j] \in Int
    OBVIOUS
  <2> QED BY <2>1
<1>2. /\ w[1] \in Int /\ w[2] \in Int /\ w[3] \in Int /\ w[4] \in Int
      /\ w[5] \in Int /\ w[6] \in Int /\ w[7] \in Int /\ w[8] \in Int
      /\ w[9] \in Int /\ w[10] \in Int
  <2>1. \A j \in 1..10 : w[j] \in Int
    OBVIOUS
  <2> QED BY <2>1
<1>3. /\ i # 1 => v[1] = w[1]
      /\ i # 2 => v[2] = w[2]
      /\ i # 3 => v[3] = w[3]
      /\ i # 4 => v[4] = w[4]
      /\ i # 5 => v[5] = w[5]
      /\ i # 6 => v[6] = w[6]
      /\ i # 7 => v[7] = w[7]
      /\ i # 8 => v[8] = w[8]
      /\ i # 9 => v[9] = w[9]
      /\ i # 10 => v[10] = w[10]
  BY DEF OneMisread
<1>4. /\ SomaRenavam(v) \in Int /\ SomaRenavam(w) \in Int
      /\ SomaCPF1(v) \in Int /\ SomaCPF1(w) \in Int
  BY <1>1, <1>2 DEF SomaRenavam, SomaCPF1
<1>5. CASE i = 1
  BY <1>1, <1>2, <1>3, <1>5 DEF SomaRenavam, SomaCPF1, Weighted
<1>6. CASE i = 2
  BY <1>1, <1>2, <1>3, <1>6 DEF SomaRenavam, SomaCPF1, Weighted
<1>7. CASE i = 3
  BY <1>1, <1>2, <1>3, <1>7 DEF SomaRenavam, SomaCPF1, Weighted
<1>8. CASE i = 4
  BY <1>1, <1>2, <1>3, <1>8 DEF SomaRenavam, SomaCPF1, Weighted
<1>9. CASE i = 5
  BY <1>1, <1>2, <1>3, <1>9 DEF SomaRenavam, SomaCPF1, Weighted
<1>10. CASE i = 6
  BY <1>1, <1>2, <1>3, <1>10 DEF SomaRenavam, SomaCPF1, Weighted
<1>11. CASE i = 7
  BY <1>1, <1>2, <1>3, <1>11 DEF SomaRenavam, SomaCPF1, Weighted
<1>12. CASE i = 8
  BY <1>1, <1>2, <1>3, <1>12 DEF SomaRenavam, SomaCPF1, Weighted
<1>13. CASE i = 9
  BY <1>1, <1>2, <1>3, <1>13 DEF SomaRenavam, SomaCPF1, Weighted
<1>14. CASE i = 10
  BY <1>1, <1>2, <1>3, <1>14 DEF SomaRenavam, SomaCPF1, Weighted
<1> QED BY <1>4, <1>5, <1>6, <1>7, <1>8, <1>9, <1>10, <1>11, <1>12, <1>13, <1>14

\* The parts of the sums of a CNPJ: root and order.
Raiz1(x) == 5 * x[1] + 4 * x[2] + 3 * x[3] + 2 * x[4]
            + 9 * x[5] + 8 * x[6] + 7 * x[7] + 6 * x[8]
Raiz2(x) == 6 * x[1] + 5 * x[2] + 4 * x[3] + 3 * x[4]
            + 2 * x[5] + 9 * x[6] + 8 * x[7] + 7 * x[8]
Ordem1(x) == 5 * x[9] + 4 * x[10] + 3 * x[11] + 2 * x[12]
Ordem2(x) == 6 * x[9] + 5 * x[10] + 4 * x[11] + 3 * x[12] + 2 * x[13]

LEMMA Parts ==
  ASSUME NEW x \in [1..14 -> Int]
  PROVE  /\ Raiz1(x) \in Int /\ Raiz2(x) \in Int
         /\ Ordem1(x) \in Int /\ Ordem2(x) \in Int
         /\ SomaCNPJ1(x) = Raiz1(x) + Ordem1(x)
         /\ SomaCNPJ2(x) = Raiz2(x) + Ordem2(x)
<1>1. \A j \in 1..13 : x[j] \in Int
  OBVIOUS
<1>2. /\ x[1] \in Int /\ x[2] \in Int /\ x[3] \in Int /\ x[4] \in Int
      /\ x[5] \in Int /\ x[6] \in Int /\ x[7] \in Int /\ x[8] \in Int
      /\ x[9] \in Int /\ x[10] \in Int /\ x[11] \in Int /\ x[12] \in Int
      /\ x[13] \in Int
  BY <1>1
<1>3. Raiz1(x) \in Int /\ Raiz2(x) \in Int
  BY <1>2 DEF Raiz1, Raiz2
<1>4. Ordem1(x) \in Int /\ Ordem2(x) \in Int
  BY <1>2 DEF Ordem1, Ordem2
<1>5. SomaCNPJ1(x) = Raiz1(x) + Ordem1(x) /\ SomaCNPJ2(x) = Raiz2(x) + Ordem2(x)
  BY DEF SomaCNPJ1, SomaCNPJ2, Raiz1, Raiz2, Ordem1, Ordem2
<1> QED BY <1>3, <1>4, <1>5

\* A character of the root is misread ...
LEMMA RootStep ==
  ASSUME NEW v \in [1..14 -> Int], NEW w \in [1..14 -> Int],
         NEW i \in 1..8, OneMisread(v, w, 14, i)
  PROVE  /\ Weighted(Raiz1(v) - Raiz1(w), v[i] - w[i])
         /\ Weighted(Raiz2(v) - Raiz2(w), v[i] - w[i])
         /\ Ordem1(v) = Ordem1(w)
         /\ Ordem2(v) = Ordem2(w)
<1>1. /\ v[1] \in Int /\ v[2] \in Int /\ v[3] \in Int /\ v[4] \in Int
      /\ v[5] \in Int /\ v[6] \in Int /\ v[7] \in Int /\ v[8] \in Int
  <2>1. \A j \in 1..8 : v[j] \in Int
    OBVIOUS
  <2> QED BY <2>1
<1>2. /\ w[1] \in Int /\ w[2] \in Int /\ w[3] \in Int /\ w[4] \in Int
      /\ w[5] \in Int /\ w[6] \in Int /\ w[7] \in Int /\ w[8] \in Int
  <2>1. \A j \in 1..8 : w[j] \in Int
    OBVIOUS
  <2> QED BY <2>1
<1>3. /\ i # 1 => v[1] = w[1]
      /\ i # 2 => v[2] = w[2]
      /\ i # 3 => v[3] = w[3]
      /\ i # 4 => v[4] = w[4]
      /\ i # 5 => v[5] = w[5]
      /\ i # 6 => v[6] = w[6]
      /\ i # 7 => v[7] = w[7]
      /\ i # 8 => v[8] = w[8]
  BY DEF OneMisread
<1>4. Ordem1(v) = Ordem1(w) /\ Ordem2(v) = Ordem2(w)
  <2>1. \A j \in 9..13 : v[j] = w[j]
    BY DEF OneMisread
  <2> QED BY <2>1 DEF Ordem1, Ordem2
<1>5. CASE i = 1
  BY <1>1, <1>2, <1>3, <1>4, <1>5 DEF Raiz1, Raiz2, Weighted
<1>6. CASE i = 2
  BY <1>1, <1>2, <1>3, <1>4, <1>6 DEF Raiz1, Raiz2, Weighted
<1>7. CASE i = 3
  BY <1>1, <1>2, <1>3, <1>4, <1>7 DEF Raiz1, Raiz2, Weighted
<1>8. CASE i = 4
  BY <1>1, <1>2, <1>3, <1>4, <1>8 DEF Raiz1, Raiz2, Weighted
<1>9. CASE i = 5
  BY <1>1, <1>2, <1>3, <1>4, <1>9 DEF Raiz1, Raiz2, Weighted
<1>10. CASE i = 6
  BY <1>1, <1>2, <1>3, <1>4, <1>10 DEF Raiz1, Raiz2, Weighted
<1>11. CASE i = 7
  BY <1>1, <1>2, <1>3, <1>4, <1>11 DEF Raiz1, Raiz2, Weighted
<1>12. CASE i = 8
  BY <1>1, <1>2, <1>3, <1>4, <1>12 DEF Raiz1, Raiz2, Weighted
<1> QED BY <1>5, <1>6, <1>7, <1>8, <1>9, <1>10, <1>11, <1>12

\* ... or one of the order.
LEMMA OrderStep ==
  ASSUME NEW v \in [1..14 -> Int], NEW w \in [1..14 -> Int],
         NEW i \in 9..12, OneMisread(v, w, 14, i)
  PROVE  /\ Weighted(Ordem1(v) - Ordem1(w), v[i] - w[i])
         /\ Weighted(Ordem2(v) - Ordem2(w), v[i] - w[i])
         /\ Raiz1(v) = Raiz1(w)
         /\ Raiz2(v) = Raiz2(w)
<1>1. /\ v[9] \in Int /\ v[10] \in Int /\ v[11] \in Int /\ v[12] \in Int
      /\ v[13] \in Int
  <2>1. \A j \in 9..13 : v[j] \in Int
    OBVIOUS
  <2> QED BY <2>1
<1>2. /\ w[9] \in Int /\ w[10] \in Int /\ w[11] \in Int /\ w[12] \in Int
      /\ w[13] \in Int
  <2>1. \A j \in 9..13 : w[j] \in Int
    OBVIOUS
  <2> QED BY <2>1
<1>3. /\ i # 9 => v[9] = w[9]
      /\ i # 10 => v[10] = w[10]
      /\ i # 11 => v[11] = w[11]
      /\ i # 12 => v[12] = w[12]
      /\ i # 13 => v[13] = w[13]
  BY DEF OneMisread
<1>4. Raiz1(v) = Raiz1(w) /\ Raiz2(v) = Raiz2(w)
  <2>1. \A j \in 1..8 : v[j] = w[j]
    BY DEF OneMisread
  <2> QED BY <2>1 DEF Raiz1, Raiz2
<1>5. CASE i = 9
  BY <1>1, <1>2, <1>3, <1>4, <1>5 DEF Ordem1, Ordem2, Weighted
<1>6. CASE i = 10
  BY <1>1, <1>2, <1>3, <1>4, <1>6 DEF Ordem1, Ordem2, Weighted
<1>7. CASE i = 11
  BY <1>1, <1>2, <1>3, <1>4, <1>7 DEF Ordem1, Ordem2, Weighted
<1>8. CASE i = 12
  BY <1>1, <1>2, <1>3, <1>4, <1>8 DEF Ordem1, Ordem2, Weighted
<1> QED BY <1>5, <1>6, <1>7, <1>8

LEMMA FourteenStep ==
  ASSUME NEW v \in [1..14 -> Int], NEW w \in [1..14 -> Int],
         NEW i \in 1..12, OneMisread(v, w, 14, i)
  PROVE  /\ SomaCNPJ1(v) \in Int /\ SomaCNPJ1(w) \in Int
         /\ SomaCNPJ2(v) \in Int /\ SomaCNPJ2(w) \in Int
         /\ Weighted(SomaCNPJ1(v) - SomaCNPJ1(w), v[i] - w[i])
         /\ Weighted(SomaCNPJ2(v) - SomaCNPJ2(w), v[i] - w[i])
<1>1. CASE i <= 8
  <2>1. /\ SomaCNPJ1(v) - SomaCNPJ1(w) = Raiz1(v) - Raiz1(w)
        /\ SomaCNPJ2(v) - SomaCNPJ2(w) = Raiz2(v) - Raiz2(w)
    BY <1>1, RootStep, Parts
  <2>2. i \in 1..8
    BY <1>1
  <2> QED BY <2>1, <2>2, RootStep, Parts
<1>2. CASE i > 8
  <2>1. i \in 9..12
    BY <1>2
  <2>2. /\ SomaCNPJ1(v) - SomaCNPJ1(w) = Ordem1(v) - Ordem1(w)
        /\ SomaCNPJ2(v) - SomaCNPJ2(w) = Ordem2(v) - Ordem2(w)
    BY <2>1, OrderStep, Parts
  <2> QED BY <2>1, <2>2, OrderStep, Parts
<1> QED BY <1>1, <1>2

-----------------------------------------------------------------------------
\* A RENAVAM of which one digit was misread is refused, unless its check digit
\* is 0, which stands for two remainders.
THEOREM RenavamCatches ==
  ASSUME NEW v \in [1..11 -> Digits], NEW w \in [1..11 -> Digits],
         NEW i \in 1..11, OneMisread(v, w, 11, i),
         v[11] = dvRenavam(v), w[11] = dvRenavam(w)
  PROVE  v[11] = 0
<1>1. v \in [1..11 -> Int] /\ w \in [1..11 -> Int]
  BY DEF Digits
<1>2. CASE i = 11
  <2>1. \A j \in 1..10 : v[j] = w[j]
    BY <1>2 DEF OneMisread
  <2>2. dvRenavam(v) = dvRenavam(w)
    BY <2>1 DEF dvRenavam, SomaRenavam
  <2> QED BY <1>2, <2>2 DEF OneMisread
<1>3. CASE i # 11
  <2>1. i \in 1..10 /\ v[11] = w[11]
    BY <1>3 DEF OneMisread
  <2>2. v[i] - w[i] \in Int /\ (v[i] - w[i]) % 11 # 0
    BY <2>1, DigitsDiffer DEF OneMisread
  <2>3. (SomaRenavam(v) * 10) % 11 # (SomaRenavam(w) * 10) % 11
    BY <1>1, <2>1, <2>2, ElevenStep, Shows
  <2> QED BY <2>1, <2>3 DEF dvRenavam
<1> QED BY <1>2, <1>3

\* A CPF of which one digit was misread is refused, unless its first check digit
\* is 0.
THEOREM CPFCatches ==
  ASSUME NEW v \in [1..11 -> Digits], NEW w \in [1..11 -> Digits],
         NEW i \in 1..11, OneMisread(v, w, 11, i), dvCPF(v), dvCPF(w)
  PROVE  v[10] = 0
<1>1. v \in [1..11 -> Int] /\ w \in [1..11 -> Int]
  BY DEF Digits
<1>2. CASE i >= 10
  <2>1. /\ \A j \in 1..9 : v[j] = w[j]
        /\ i = 10 \/ (i = 11 /\ v[10] = w[10])
    BY <1>2 DEF OneMisread
  <2>2. SomaCPF1(v) = SomaCPF1(w) /\ (i = 11 => SomaCPF2(v) = SomaCPF2(w))
    BY <2>1 DEF SomaCPF1, SomaCPF2
  <2> QED BY <2>1, <2>2 DEF OneMisread, dvCPF
<1>3. CASE i < 10
  <2>1. i \in 1..10 /\ i <= 9 /\ v[10] = w[10]
    BY <1>3 DEF OneMisread
  <2>2. v[i] - w[i] \in Int /\ (v[i] - w[i]) % 11 # 0
    BY <2>1, DigitsDiffer DEF OneMisread
  <2>3. /\ SomaCPF1(v) % 11 # SomaCPF1(w) % 11
        /\ SomaCPF1(v) \in Int /\ SomaCPF1(w) \in Int
    BY <1>1, <2>1, <2>2, ElevenStep, Shows
  <2> QED BY <2>1, <2>3 DEF dvCPF, complement
<1> QED BY <1>2, <1>3

\* A CNPJ, of digits or with letters, of which one character was misread is
\* refused, unless both check digits are 0 or the two characters are 11 or a
\* multiple of it apart.
THEOREM CNPJCatches ==
  ASSUME NEW v \in [1..14 -> Int], NEW w \in [1..14 -> Int],
         NEW i \in 1..14, OneMisread(v, w, 14, i), dvCNPJ(v), dvCNPJ(w),
         (v[i] - w[i]) % 11 # 0
  PROVE  v[13] = 0 /\ v[14] = 0
<1>1. CASE i >= 13
  <2>1. /\ \A j \in 1..12 : v[j] = w[j]
        /\ i = 13 \/ (i = 14 /\ v[13] = w[13])
    BY <1>1 DEF OneMisread
  <2>2. SomaCNPJ1(v) = SomaCNPJ1(w) /\ (i = 14 => SomaCNPJ2(v) = SomaCNPJ2(w))
    BY <2>1 DEF SomaCNPJ1, SomaCNPJ2
  <2> QED BY <2>1, <2>2 DEF OneMisread, dvCNPJ
<1>2. CASE i < 13
  <2>1. i \in 1..12 /\ v[13] = w[13] /\ v[14] = w[14] /\ v[i] - w[i] \in Int
    BY <1>2 DEF OneMisread
  <2>2. /\ SomaCNPJ1(v) % 11 # SomaCNPJ1(w) % 11
        /\ SomaCNPJ2(v) % 11 # SomaCNPJ2(w) % 11
        /\ SomaCNPJ1(v) \in Int /\ SomaCNPJ1(w) \in Int
        /\ SomaCNPJ2(v) \in Int /\ SomaCNPJ2(w) \in Int
    BY <2>1, FourteenStep, Shows
  <2> QED BY <2>1, <2>2 DEF dvCNPJ, complement
<1> QED BY <1>1, <1>2
-----------------------------------------------------------------------------
(* Cleaning a text. *)

\* The characters that count, and texts of any others.
Chars == Digits \cup Upper
Text == Seq(Int)

LEMMA CharShape ==
  /\ Upper = 17..42 /\ Lower = 49..74 /\ Chars \subseteq Int
  /\ \A c \in Chars : ToUpper(c) = c
  /\ \A c \in Int : ToUpper(c) \in Int
  /\ \A c \in Chars : letra(c) <=> c \notin Digits
  /\ \A c \in Upper : c \notin Digits
  /\ -3 \notin Chars /\ ToUpper(-3) = -3
BY DEF Upper, Lower, Chars, Digits, ToUpper, letra, LA, LZ

LEMMA AsFunction ==
  ASSUME NEW S, NEW n \in Nat
  PROVE  \A v : v \in Seq(S) /\ Len(v) = n <=> v \in [1..n -> S]
OBVIOUS

\* The texts of n characters; the provers do better when they see no function.
Of(n, S) == [1..n -> S]

InTurn(w, S, a, k, b, n) ==
    /\ w \in Of(k + n, S)
    /\ \A i \in 1..k : w[i] = a[i]
    /\ \A i \in 1..n : w[i + k] = b[i]

LEMMA Joined ==
  ASSUME NEW S, NEW k \in Nat, NEW n \in Nat, NEW a \in Of(k, S), NEW b \in Of(n, S)
  PROVE  InTurn(a \o b, S, a, k, b, n)
<1> DEFINE w == a \o b
<1>1. a \in Seq(S) /\ Len(a) = k /\ b \in Seq(S) /\ Len(b) = n
  BY AsFunction, Zenon DEF Of
<1>2. ASSUME NEW x \in Seq(S), NEW y \in Seq(S)
      PROVE  /\ x \o y \in Seq(S) /\ Len(x \o y) = Len(x) + Len(y)
             /\ \A i \in 1..Len(x) : (x \o y)[i] = x[i]
             /\ \A i \in 1..Len(y) : (x \o y)[i + Len(x)] = y[i]
  OBVIOUS
<1>3. /\ w \in Seq(S) /\ Len(w) = Len(a) + Len(b)
      /\ \A i \in 1..Len(a) : w[i] = a[i]
      /\ \A i \in 1..Len(b) : w[i + Len(a)] = b[i]
  BY <1>1, <1>2, Zenon
<1> HIDE DEF w
<1>4. /\ Len(w) = k + n /\ k + n \in Nat
      /\ \A i \in 1..k : w[i] = a[i]
      /\ \A i \in 1..n : w[i + k] = b[i]
  BY <1>1, <1>3, SMT
<1>5. w \in Of(k + n, S)
  BY <1>3, <1>4, AsFunction, Zenon DEF Of
<1> QED BY <1>4, <1>5 DEF w, InTurn

LEMMA CharsAreText ==
  ASSUME NEW s \in Seq(Chars)
  PROVE  s \in Text
<1>1. \A i \in 1..Len(s) : s[i] \in Int
  <2>1. \A i \in 1..Len(s) : s[i] \in Chars
    OBVIOUS
  <2>2. Chars \subseteq Int
    BY CharShape
  <2> QED BY <2>1, <2>2
<1>2. s = [i \in 1..Len(s) |-> s[i]] /\ Len(s) \in Nat
  OBVIOUS
<1> QED BY <1>1, <1>2 DEF Text

LEMMA CleanType ==
  ASSUME NEW s \in Text
  PROVE  /\ limpar(s) \in Seq(Chars) /\ Len(limpar(s)) <= Len(s)
         /\ Len(limpar(s)) = Len(s) =>
               \A i \in 1..Len(s) : limpar(s)[i] = ToUpper(s[i])
         /\ (\A i \in 1..Len(s) : ToUpper(s[i]) \in Chars) => Len(limpar(s)) = Len(s)
<1> DEFINE u == [i \in DOMAIN s |-> ToUpper(s[i])]
<1>1. u \in Seq(Int) /\ Len(u) = Len(s) /\ \A i \in 1..Len(s) : u[i] = ToUpper(s[i])
  <2>1. \A i \in 1..Len(s) : s[i] \in Int /\ ToUpper(s[i]) \in Int
    <3>1. \A i \in 1..Len(s) : s[i] \in Int
      BY DEF Text
    <3> QED BY <3>1, CharShape
  <2>2. DOMAIN s = 1..Len(s) /\ Len(s) \in Nat
    BY DEF Text
  <2> QED BY <2>1, <2>2
<1>2. limpar(s) = Keep(u, Chars)
  BY DEF limpar, Chars
<1> HIDE DEF u
<1>3. /\ Keep(u, Chars) \in Seq(Int \cap Chars)
      /\ Len(Keep(u, Chars)) <= Len(u)
  BY <1>1, KeepType
<1>4. Int \cap Chars = Chars
  BY CharShape
<1>5. Len(Keep(u, Chars)) = Len(u) => Keep(u, Chars) = u
  BY <1>1, KeepWhole
<1>6. (\A i \in 1..Len(u) : u[i] \in Chars) => Keep(u, Chars) = u
  BY <1>1, KeepAll
<1> QED BY <1>1, <1>2, <1>3, <1>4, <1>5, <1>6

LEMMA CleanWhole ==
  ASSUME NEW s \in Seq(Chars)
  PROVE  limpar(s) = s
<1>1. \A i \in 1..Len(s) : s[i] \in Chars
  OBVIOUS
<1>2. [i \in DOMAIN s |-> ToUpper(s[i])] = s
  BY <1>1, CharShape, SMTT(30)
<1>3. Keep(s, Chars) = s
  BY <1>1, KeepAll
<1> QED BY <1>2, <1>3 DEF limpar, Chars

LEMMA DigitsType ==
  ASSUME NEW s \in Text
  PROVE  /\ somenteDigitos(s) \in Seq(Digits)
         /\ Len(somenteDigitos(s)) = Len(s) => somenteDigitos(s) = s
         /\ Len(somenteDigitos(s)) <= Len(s)
         /\ s \in Seq(Digits) => somenteDigitos(s) = s
<1>1. /\ Keep(s, Digits) \in Seq(Int \cap Digits)
      /\ Len(Keep(s, Digits)) <= Len(s)
  BY KeepType DEF Text
<1>2. Int \cap Digits = Digits
  BY DEF Digits
<1>3. Len(Keep(s, Digits)) = Len(s) => Keep(s, Digits) = s
  BY KeepWhole DEF Text
<1>4. ASSUME s \in Seq(Digits)
      PROVE  Keep(s, Digits) = s
  <2>1. \A i \in 1..Len(s) : s[i] \in Digits
    BY <1>4
  <2> QED BY <2>1, KeepAll DEF Text
<1> QED BY <1>1, <1>2, <1>3, <1>4 DEF somenteDigitos

\* Punctuation is dropped.
LEMMA PunctuationDropped ==
  ASSUME NEW S \in SUBSET Chars, NEW s \in Seq(S), Len(s) >= 3
  PROVE  Keep(Pontuado(s), S) = s /\ Pontuado(s) \in Seq(Chars \cup {-3})
<1> DEFINE n == Len(s)
           a == SubSeq(s, 1, 3)
           b == SubSeq(s, 4, n)
           o == <<-3>>
           C == Chars \cup {-3}
<1>1. n \in Nat /\ n >= 3 /\ Len(s) = n
  OBVIOUS
<1> HIDE DEF n
<1>2. a \in Seq(S) /\ b \in Seq(S) /\ a \o b = s
  <2>1. a \in Seq(S) /\ Len(a) = 3 /\ \A i \in 1..3 : a[i] = s[i]
    BY <1>1
  <2>2. b \in Seq(S)
    BY <1>1
  <2>3. Len(b) = n - 3
    BY <1>1
  <2>4. \A i \in 1..n - 3 : b[i] = s[i + 3]
    BY <1>1
  <2> DEFINE y == a \o b
             m == n - 3
  <2> HIDE DEF a, b
  <2>5. y \in Seq(S)
    BY <2>1, <2>2
  <2>6. Len(y) = 3 + m /\ (\A i \in 1..3 : y[i] = a[i]) /\ \A i \in 1..m : y[i + 3] = b[i]
    <3>1. /\ Len(y) = Len(a) + Len(b)
          /\ \A i \in 1..Len(a) : y[i] = a[i]
          /\ \A i \in 1..Len(b) : y[i + Len(a)] = b[i]
      <4>1. ASSUME NEW x \in Seq(S), NEW z \in Seq(S)
            PROVE  /\ Len(x \o z) = Len(x) + Len(z)
                   /\ \A i \in 1..Len(x) : (x \o z)[i] = x[i]
                   /\ \A i \in 1..Len(z) : (x \o z)[i + Len(x)] = z[i]
        OBVIOUS
      <4> QED BY <2>1, <2>2, <4>1, Zenon
    <3> HIDE DEF y
    <3> QED BY <1>1, <2>1, <2>3, <3>1
  <2> HIDE DEF y
  <2>7. ASSUME NEW i \in 1..n
        PROVE  y[i] = s[i]
    <3>1. CASE i \in 1..3
      BY <2>1, <2>6, <3>1
    <3>2. CASE i \notin 1..3
      <4>1. i - 3 \in 1..m /\ (i - 3) + 3 = i
        BY <1>1, <3>2
      <4> QED BY <2>4, <2>6, <4>1
    <3> QED BY <3>1, <3>2
  <2>8. y = s
    <3>1. Len(y) = n
      BY <1>1, <2>6
    <3> QED BY <1>1, <2>5, <2>7, <3>1
  <2> QED BY <2>1, <2>2, <2>8 DEF y
<1>3. a \in Seq(C) /\ b \in Seq(C) /\ o \in Seq(C)
  <2>1. S \subseteq C
    BY CharShape
  <2> HIDE DEF a, b, C
  <2>2. a \in Seq(C) /\ b \in Seq(C)
    BY <1>2, <2>1
  <2>3. -3 \in C
    BY DEF C
  <2> QED BY <2>2, <2>3
<1>4. Keep(a, S) = a /\ Keep(b, S) = b
  <2>1. ASSUME NEW x \in Seq(S)
        PROVE  Keep(x, S) = x
    <3>1. \A i \in 1..Len(x) : x[i] \in S
      OBVIOUS
    <3> QED BY <3>1, KeepAll
  <2> HIDE DEF a, b
  <2> QED BY <1>2, <2>1
<1>5. Keep(o, S) = <<>>
  <2>1. -3 \notin S
    BY CharShape
  <2> QED BY <2>1, KeepOne
<1>6. Pontuado(s) = (a \o o) \o b
  BY DEF Pontuado, n
<1> HIDE DEF a, b, o, C
<1>7. a \o o \in Seq(C) /\ (a \o o) \o b \in Seq(C)
  BY <1>3
<1>8. Keep((a \o o) \o b, S) = (Keep(a, S) \o Keep(o, S)) \o Keep(b, S)
  <2>1. ASSUME NEW x \in Seq(C), NEW y \in Seq(C)
        PROVE  Keep(x \o y, S) = Keep(x, S) \o Keep(y, S)
    BY KeepConcat
  <2>2. Keep(a \o o, S) = Keep(a, S) \o Keep(o, S)
    BY <1>3, <2>1
  <2>3. Keep((a \o o) \o b, S) = Keep(a \o o, S) \o Keep(b, S)
    BY <1>3, <1>7, <2>1
  <2> QED BY <2>2, <2>3
<1>9. a \o <<>> = a
  BY <1>3
<1> QED BY <1>2, <1>4, <1>5, <1>6, <1>7, <1>8, <1>9 DEF C

LEMMA PunctuatedField ==
  ASSUME NEW s \in Seq(Chars), Len(s) >= 3
  PROVE  /\ limpar(Pontuado(s)) = s
         /\ s \in Seq(Digits) => somenteDigitos(Pontuado(s)) = s
<1> DEFINE p == Pontuado(s)
           C == Chars \cup {-3}
<1>1. p \in Seq(C) /\ Keep(p, Chars) = s
  BY PunctuationDropped
<1>2. \A c \in C : ToUpper(c) = c
  BY CharShape
<1> HIDE DEF p, C
<1>3. [i \in DOMAIN p |-> ToUpper(p[i])] = p
  BY <1>1, <1>2
<1>4. limpar(p) = s
  BY <1>1, <1>3 DEF limpar, Chars
<1>5. s \in Seq(Digits) => somenteDigitos(Pontuado(s)) = s
  BY PunctuationDropped DEF somenteDigitos, Chars
<1> QED BY <1>4, <1>5 DEF p

-----------------------------------------------------------------------------
(* Correcting a text. *)

LEMMA Tables ==
  /\ \A c \in DOMAIN paraDigito : paraDigito[c] \in Digits /\ c \in Upper
  /\ \A c \in DOMAIN paraLetra : paraLetra[c] \in Upper /\ c \in Digits
  /\ \A c \in DOMAIN paraVIN : paraVIN[c] \in Digits /\ c \in Upper
<1>1. ASSUME NEW c \in DOMAIN paraDigito
      PROVE  paraDigito[c] \in {0, 1, 2, 4, 5, 6, 7, 8}
  BY Zenon DEF paraDigito
<1>2. ASSUME NEW c \in DOMAIN paraDigito
      PROVE  c \in Upper
  BY DEF paraDigito, Upper, LA, LB, LD, LG, LI, LL, LO, LQ, LS, LT, LZ
<1>3. ASSUME NEW c \in DOMAIN paraLetra
      PROVE  paraLetra[c] \in {LO, LI, LZ, LA, LS, LG, LT, LB}
  BY Zenon DEF paraLetra
<1>4. ASSUME NEW c \in DOMAIN paraLetra
      PROVE  c \in Digits
  BY DEF paraLetra, Digits
<1>5. {LO, LI, LZ, LA, LS, LG, LT, LB} \subseteq Upper
  BY DEF Upper, LA, LB, LD, LG, LI, LL, LO, LQ, LS, LT, LZ
<1>6. {0, 1, 2, 4, 5, 6, 7, 8} \subseteq Digits
  BY DEF Digits
<1>7. ASSUME NEW c \in DOMAIN paraVIN
      PROVE  paraVIN[c] \in Digits /\ c \in Upper
  BY DEF paraVIN, Digits, Upper, LA, LI, LO, LQ, LZ
<1> QED BY <1>1, <1>2, <1>3, <1>4, <1>5, <1>6, <1>7

\* The corrections of a text of n characters that start after d others.
Corrections(s, t, n, d) ==
    {[posicao |-> d + i, de |-> s[i], para |-> t[i]] : i \in {j \in 1..n : s[j] # t[j]}}

\* What a table makes of a text s when the characters `certos` are required.
Required(r, s, n, d, certos) ==
    /\ r.ok \in BOOLEAN
    /\ r.texto = [i \in 1..n |-> r.texto[i]]
    /\ r.ok => /\ \A i \in 1..n : r.texto[i] \in certos
               /\ r.corr = Corrections(s, r.texto, n, d)
    /\ \A i \in 1..n : s[i] \in certos => r.texto[i] = s[i]
    /\ (\A i \in 1..n : s[i] \in certos) => r.ok /\ r.corr = {}

LEMMA Applied ==
  ASSUME NEW s \in Seq(Chars), NEW n \in Nat, Len(s) = n, NEW d \in Int,
         NEW certos, NEW tabela, \A c \in DOMAIN tabela : tabela[c] \in certos
  PROVE  Required(Aplicar(s, tabela, Trocados(s, certos), d), s, n, d, certos)
<1> DEFINE T == Trocados(s, certos)
           texto == [i \in 1..n |-> IF i \in T /\ s[i] \in DOMAIN tabela THEN tabela[s[i]]
                                    ELSE s[i]]
           ok == \A i \in T : s[i] \in DOMAIN tabela
           corr == {[posicao |-> d + i, de |-> s[i], para |-> tabela[s[i]]] :
                      i \in {j \in T : s[j] \in DOMAIN tabela}}
           r == Aplicar(s, tabela, Trocados(s, certos), d)
<1>1. DOMAIN s = 1..n
  OBVIOUS
<1>2. r.ok = ok /\ r.texto = texto /\ r.corr = corr
  BY <1>1 DEF Aplicar
<1>3. T = {i \in 1..n : s[i] \notin certos}
  BY <1>1 DEF Trocados
<1>4. ASSUME ok, NEW i \in 1..n
      PROVE  texto[i] \in certos
  BY <1>3, <1>4
<1>5. ASSUME ok
      PROVE  corr = Corrections(s, texto, n, d)
  <2>1. {j \in T : s[j] \in DOMAIN tabela} = {j \in 1..n : s[j] # texto[j]}
    BY <1>3, <1>5
  <2>2. \A i \in {j \in T : s[j] \in DOMAIN tabela} : tabela[s[i]] = texto[i]
    BY <1>3
  <2> HIDE DEF T, texto
  <2> QED BY <2>1, <2>2 DEF Corrections
<1>6. \A i \in 1..n : s[i] \in certos => texto[i] = s[i]
  BY <1>3
<1>7. ASSUME \A i \in 1..n : s[i] \in certos
      PROVE  ok /\ corr = {}
  BY <1>3, <1>7
<1>8. texto = [i \in 1..n |-> texto[i]]
  OBVIOUS
<1> HIDE DEF texto, corr, T
<1> QED BY <1>2, <1>4, <1>5, <1>6, <1>7, <1>8 DEF Required

LEMMA DigitsRequired ==
  ASSUME NEW s \in Seq(Chars), NEW n \in Nat, Len(s) = n, NEW d \in Int
  PROVE  Required(exigirDigitos(s, d), s, n, d, Digits)
BY Applied, Tables DEF exigirDigitos

LEMMA DigitsAsTheyAre ==
  ASSUME NEW n \in Nat, NEW v \in [1..n -> Digits], NEW d \in Int
  PROVE  /\ exigirDigitos(v, d).ok /\ exigirDigitos(v, d).corr = {}
         /\ exigirDigitos(v, d).texto = v
<1> DEFINE r == exigirDigitos(v, d)
<1>1. v \in Seq(Chars) /\ Len(v) = n
  BY DEF Chars
<1>2. /\ r.texto = [i \in 1..n |-> r.texto[i]]
      /\ \A i \in 1..n : v[i] \in Digits => r.texto[i] = v[i]
      /\ (\A i \in 1..n : v[i] \in Digits) => r.ok /\ r.corr = {}
  BY <1>1, DigitsRequired DEF Required
<1> HIDE DEF r
<1>3. \A i \in 1..n : v[i] \in Digits
  OBVIOUS
<1>4. r.texto = v
  BY <1>2, <1>3
<1> QED BY <1>2, <1>3, <1>4 DEF r

LEMMA LettersRequired ==
  ASSUME NEW s \in Seq(Chars), NEW n \in Nat, Len(s) = n, NEW d \in Int
  PROVE  Required(exigirLetras(s, d), s, n, d, Upper)
BY Applied, Tables DEF exigirLetras

LEMMA LettersAsTheyAre ==
  ASSUME NEW n \in Nat, NEW v \in [1..n -> Upper], NEW d \in Int
  PROVE  /\ exigirLetras(v, d).ok /\ exigirLetras(v, d).corr = {}
         /\ exigirLetras(v, d).texto = v
<1> DEFINE r == exigirLetras(v, d)
<1>1. v \in Seq(Chars) /\ Len(v) = n
  BY DEF Chars
<1>2. /\ r.texto = [i \in 1..n |-> r.texto[i]]
      /\ \A i \in 1..n : v[i] \in Upper => r.texto[i] = v[i]
      /\ (\A i \in 1..n : v[i] \in Upper) => r.ok /\ r.corr = {}
  BY <1>1, LettersRequired DEF Required
<1> HIDE DEF r
<1>3. \A i \in 1..n : v[i] \in Upper
  OBVIOUS
<1>4. r.texto = v
  BY <1>2, <1>3
<1> QED BY <1>2, <1>3, <1>4 DEF r

LEMMA Results ==
  /\ \A v, c : /\ Valido(montar(v, c))
               /\ montar(v, c).valor = v /\ montar(v, c).correcoes = c
               /\ montar(v, c).status = "valido" <=> c = {}
               /\ montar(v, {}) = Resultado(v, "valido", {})
  /\ \A v : /\ Valido(Resultado(v, "valido", {}))
            /\ Resultado(v, "valido", {}).valor = v
            /\ Resultado(v, "valido", {}).correcoes = {}
            /\ Resultado(v, "valido", {}).status = "valido"
  /\ \A e \in {"nenhum", "vazio", "tamanho_invalido", "caractere_invalido", "dv_invalido"} :
        ~Valido(falha(e))
BY DEF montar, Resultado, Valido, falha

\* The corrections are all that is between what was read and the value, which
\* has some zeros in front, and a value needs no correction.
Explains(l, v, zeros, corr) ==
    /\ {[posicao |-> i, de |-> l[i], para |-> v[i + zeros]] :
          i \in {j \in DOMAIN l : l[j] # v[j + zeros]}} = corr
    /\ \A i \in 1..zeros : v[i] = 0

LEMMA NothingInFront ==
  ASSUME NEW n \in Nat, NEW l \in Seq(Chars), Len(l) = n, NEW v
  PROVE  Explains(l, v, 0, Corrections(l, v, n, 0))
<1>1. DOMAIN l = 1..n
  OBVIOUS
<1>2. \A i \in 1..n : i + 0 = i /\ 0 + i = i
  OBVIOUS
<1>3. {j \in DOMAIN l : l[j] # v[j + 0]} = {j \in 1..n : l[j] # v[j]}
  BY <1>1, <1>2
<1>4. 1..0 = {}
  OBVIOUS
<1> DEFINE J == {j \in 1..n : l[j] # v[j]}
<1>5. \A i \in J : /\ i + 0 = i /\ 0 + i = i
  BY <1>2
<1>6. J = {j \in DOMAIN l : l[j] # v[j + 0]} /\ J = {j \in 1..n : l[j] # v[j]}
  BY <1>3
<1> HIDE DEF J
<1>7. {[posicao |-> i, de |-> l[i], para |-> v[i + 0]] : i \in J}
        = {[posicao |-> 0 + i, de |-> l[i], para |-> v[i]] : i \in J}
  BY <1>5
<1> QED BY <1>4, <1>6, <1>7 DEF Explains, Corrections

\* A text of n digits.
LEMMA FixedDigits ==
  ASSUME NEW s \in Text, NEW n \in Nat \ {0}, Valido(digitosFixos(s, n))
  PROVE  LET r == digitosFixos(s, n)
         IN  /\ r.valor \in [1..n -> Digits]
             /\ Len(limpar(s)) = n
             /\ Explains(limpar(s), r.valor, 0, r.correcoes)
             /\ digitosFixos(r.valor, n) = Resultado(r.valor, "valido", {})
             /\ r.status = "valido" => r.correcoes = {}
<1> DEFINE l == limpar(s)
           c == exigirDigitos(l, 0)
           v == c.texto
<1>1. l \in Seq(Chars)
  BY CleanType
<1> HIDE DEF l
<1>2. Len(l) = n /\ c.ok /\ digitosFixos(s, n) = montar(c.texto, c.corr)
  BY Results, Zenon DEF digitosFixos, l
<1>3. /\ v = [i \in 1..n |-> v[i]]
      /\ \A i \in 1..n : v[i] \in Digits
      /\ c.corr = Corrections(l, v, n, 0)
  <2>1. Len(l) = n /\ n \in Nat /\ 0 \in Int
    BY <1>2
  <2>2. Required(c, l, n, 0, Digits)
    BY <1>1, <2>1, DigitsRequired
  <2>3. c.ok
    BY <1>2
  <2> HIDE DEF c
  <2> QED BY <2>2, <2>3 DEF Required
<1> HIDE DEF c
<1>4. v \in [1..n -> Digits]
  <2>1. v = [i \in 1..n |-> v[i]] /\ \A i \in 1..n : v[i] \in Digits
    BY <1>3
  <2> HIDE DEF v
  <2> QED BY <2>1
<1> HIDE DEF v
<1>5. v \in Seq(Chars) /\ Len(v) = n
  BY <1>4 DEF Chars
<1>6. /\ exigirDigitos(v, 0).ok /\ exigirDigitos(v, 0).corr = {}
      /\ exigirDigitos(v, 0).texto = v
  BY <1>4, <1>5, DigitsAsTheyAre
<1>7. limpar(v) = v /\ v # <<>>
  BY <1>5, CleanWhole
<1>8. digitosFixos(v, n) = Resultado(v, "valido", {})
  BY <1>5, <1>6, <1>7, Results, ZenonT(60) DEF digitosFixos
<1>9. Explains(l, v, 0, c.corr)
  BY <1>1, <1>2, <1>3, NothingInFront
<1> QED BY <1>2, <1>4, <1>8, <1>9, Results DEF l, v

LEMMA AcceptedCPF ==
  ASSUME NEW s \in Text, Valido(CPF(s))
  PROVE  LET v == CPF(s).valor
         IN  /\ v = somenteDigitos(s) /\ v \in [1..11 -> Digits] /\ dvCPF(v)
             /\ Len(somenteDigitos(s)) = 11
             /\ CPF(v) = Resultado(v, "valido", {})
             /\ CPF(s).correcoes = {}
<1> DEFINE v == somenteDigitos(s)
<1>1. v \in Seq(Digits)
  BY DigitsType
<1> HIDE DEF v
<1>2. /\ v # <<>> /\ Len(v) = 11 /\ ~todosIguais(v) /\ dvCPF(v) /\ CPF(s) = montar(v, {})
  BY Results, Zenon DEF CPF, v
<1>3. v \in [1..11 -> Digits]
  BY <1>1, <1>2, AsFunction, 11 \in Nat, Zenon
<1>4. v \in Text
  <2>1. v \in [1..11 -> Int]
    BY <1>3 DEF Digits
  <2> QED BY <2>1, AsFunction, 11 \in Nat, Zenon DEF Text
<1>5. somenteDigitos(v) = v
  BY <1>1, <1>4, DigitsType
<1>6. CPF(v) = Resultado(v, "valido", {})
  BY <1>2, <1>5, Results, Zenon DEF CPF
<1> QED BY <1>2, <1>3, <1>6, Results DEF v

LEMMA AcceptedCNPJ ==
  ASSUME NEW s \in Text, Valido(CNPJ(s))
  PROVE  LET v == CNPJ(s).valor
         IN  /\ v = limpar(s) /\ v \in [1..14 -> Chars] /\ dvCNPJ(v)
             /\ Len(limpar(s)) = 14
             /\ Explains(limpar(s), v, 0, CNPJ(s).correcoes)
             /\ CNPJ(v) = Resultado(v, "valido", {})
             /\ CNPJ(s).correcoes = {}
<1> DEFINE v == limpar(s)
<1>1. v \in Seq(Chars)
  BY CleanType
<1> HIDE DEF v
<1>2. /\ v # <<>> /\ Len(v) = 14 /\ digito(v[13]) /\ digito(v[14])
      /\ ~todosIguais(v) /\ dvCNPJ(v) /\ CNPJ(s) = montar(v, {})
  BY Results, Zenon DEF CNPJ, v
<1>3. v \in [1..14 -> Chars]
  BY <1>1, <1>2, AsFunction, 14 \in Nat, Zenon
<1>4. limpar(v) = v
  BY <1>1, CleanWhole
<1>5. CNPJ(v) = Resultado(v, "valido", {})
  BY <1>2, <1>4, Results, Zenon DEF CNPJ
<1>6. Explains(v, v, 0, {})
  <2>1. Corrections(v, v, 14, 0) = {}
    BY DEF Corrections
  <2> QED BY <1>1, <1>2, <2>1, NothingInFront
<1> QED BY <1>2, <1>3, <1>5, <1>6, Results DEF v

\* The letters that no chassis has.
LEMMA AcceptedChassi ==
  ASSUME NEW s \in Text, Valido(Chassi(s))
  PROVE  LET r == Chassi(s)
         IN  /\ \E n \in 17..21 : r.valor \in [1..n -> Chars]
             /\ Explains(limpar(s), r.valor, 0, r.correcoes)
             /\ Chassi(r.valor) = Resultado(r.valor, "valido", {})
             /\ r.status = "valido" => r.correcoes = {}
<1> DEFINE l == limpar(s)
           n == Len(l)
           ISO == Chars \ DOMAIN paraVIN
           Fix(x) == Aplicar(x, paraVIN, {i \in DOMAIN x : x[i] \in DOMAIN paraVIN}, 0)
           c == Fix(l)
           v == c.texto
<1>1. l \in Seq(Chars)
  BY CleanType
<1>2. \A k \in DOMAIN paraVIN : paraVIN[k] \in ISO
  <2>1. \A k \in DOMAIN paraVIN : paraVIN[k] \in Digits /\ k \in Upper
    BY Tables
  <2>2. \A k \in Upper : k \notin Digits
    BY CharShape
  <2> QED BY <2>1, <2>2 DEF Chars
<1>3. ASSUME NEW x \in Seq(Chars)
      PROVE  Fix(x) = Aplicar(x, paraVIN, Trocados(x, ISO), 0)
  <2>1. \A i \in DOMAIN x : x[i] \in Chars
    OBVIOUS
  <2>2. {i \in DOMAIN x : x[i] \in DOMAIN paraVIN} = Trocados(x, ISO)
    BY <2>1 DEF Trocados
  <2> QED BY <2>2
<1> HIDE DEF l, ISO
<1>4. /\ l # <<>> /\ ~(n < 17 \/ n > 21) /\ Chassi(s) = montar(c.texto, c.corr)
  BY Results, Zenon DEF Chassi, l
<1>5. n \in 17..21 /\ n \in Nat
  <2>1. n \in Nat
    BY <1>1
  <2> HIDE DEF n
  <2> QED BY <1>4, <2>1
<1>6. c.ok
  BY DEF Aplicar
<1> HIDE DEF Fix
<1>7. ASSUME NEW x \in Seq(Chars), NEW m \in Nat, Len(x) = m
      PROVE  Required(Fix(x), x, m, 0, ISO)
  <2>1. Required(Aplicar(x, paraVIN, Trocados(x, ISO), 0), x, m, 0, ISO)
    BY <1>2, <1>7, Applied
  <2> QED BY <1>3, <2>1
<1>8. /\ v = [i \in 1..n |-> v[i]]
      /\ \A i \in 1..n : v[i] \in ISO
      /\ c.corr = Corrections(l, v, n, 0)
  BY <1>1, <1>5, <1>6, <1>7 DEF Required
<1> HIDE DEF n
<1>9. Explains(l, v, 0, c.corr)
  BY <1>1, <1>5, <1>8, NothingInFront DEF n
<1> HIDE DEF c, v
<1>10. v \in [1..n -> Chars] /\ v \in Seq(Chars) /\ Len(v) = n /\ v # <<>>
  <2>1. \A i \in 1..n : v[i] \in Chars
    BY <1>8 DEF ISO
  <2>2. v \in [1..n -> Chars]
    BY <1>8, <2>1
  <2> QED BY <1>5, <2>2
<1>11. Fix(v).texto = v /\ Fix(v).corr = {}
  <2> DEFINE w == Fix(v).texto
  <2>1. /\ w = [i \in 1..n |-> w[i]] /\ \A i \in 1..n : v[i] \in ISO => w[i] = v[i]
        /\ Fix(v).corr = {}
    BY <1>5, <1>7, <1>8, <1>10 DEF Required
  <2> HIDE DEF w
  <2>2. w = v
    BY <1>8, <2>1
  <2> QED BY <2>1, <2>2 DEF w
<1>12. limpar(v) = v
  BY <1>10, CleanWhole
<1>13. Chassi(v) = Resultado(v, "valido", {})
  <2>1. ~(Len(v) < 17 \/ Len(v) > 21)
    BY <1>5, <1>10
  <2> QED BY <1>10, <1>11, <1>12, <2>1, Results, Zenon DEF Chassi, Fix
<1>14. Chassi(s) = montar(v, c.corr)
  BY <1>4 DEF v
<1>15. /\ Chassi(s).valor = v /\ Chassi(s).correcoes = c.corr
       /\ Chassi(s).status = "valido" => c.corr = {}
  BY <1>14, Results
<1> QED BY <1>5, <1>9, <1>10, <1>13, <1>15 DEF l

LEMMA ZerosInFront ==
  ASSUME NEW k \in Nat, NEW n \in Nat, NEW t \in [1..n -> Digits]
  PROVE  LET w == [i \in 1..k |-> 0] \o t
         IN  /\ w \in [1..k + n -> Digits]
             /\ \A i \in 1..k : w[i] = 0
             /\ \A i \in 1..n : w[i + k] = t[i]
<1> DEFINE z == [i \in 1..k |-> 0]
<1>1. z \in Of(k, Digits) /\ t \in Of(n, Digits) /\ \A i \in 1..k : z[i] = 0
  BY DEF Digits, Of
<1> HIDE DEF z
<1>2. InTurn(z \o t, Digits, z, k, t, n)
  BY <1>1, Joined, Zenon
<1> QED BY <1>1, <1>2 DEF z, Of, InTurn

\* Up to eleven digits, completed on the left.
LEMMA AcceptedRenavam ==
  ASSUME NEW s \in Text, Valido(Renavam(s))
  PROVE  LET r == Renavam(s)
         IN  /\ r.valor \in [1..11 -> Digits] /\ r.valor[11] = dvRenavam(r.valor)
             /\ Len(limpar(s)) \in 1..11
             /\ Explains(limpar(s), r.valor, 11 - Len(limpar(s)), r.correcoes)
             /\ Renavam(r.valor) = Resultado(r.valor, "valido", {})
             /\ r.status = "valido" => r.correcoes = {}
<1> DEFINE l == limpar(s)
           n == Len(l)
           c == exigirDigitos(l, 0)
           t == c.texto
           k == 11 - n
           v == [i \in 1..k |-> 0] \o t
<1>1. l \in Seq(Chars)
  BY CleanType
<1> HIDE DEF l
<1>2. /\ l # <<>> /\ ~(n > 11) /\ c.ok /\ v[11] = dvRenavam(v)
      /\ Renavam(s) = montar(v, c.corr)
  BY Results, Zenon DEF Renavam, l
<1>3. n \in 1..11 /\ n \in Nat /\ k \in Nat /\ k + n = 11
  <2>1. n \in Nat /\ n # 0
    BY <1>1, <1>2
  <2> HIDE DEF n
  <2> QED BY <1>2, <2>1
<1>4. /\ t = [i \in 1..n |-> t[i]] /\ \A i \in 1..n : t[i] \in Digits
      /\ c.corr = Corrections(l, t, n, 0)
  BY <1>1, <1>2, <1>3, DigitsRequired DEF Required
<1>5. Len(l) = n /\ DOMAIN l = 1..n
  BY <1>1
<1> HIDE DEF n, c, t
<1>6. t \in [1..n -> Digits]
  BY <1>4
<1> HIDE DEF k
<1>7. /\ v \in [1..11 -> Digits]
      /\ \A i \in 1..k : v[i] = 0
      /\ \A i \in 1..n : v[i + k] = t[i]
  BY <1>3, <1>6, ZerosInFront
<1> HIDE DEF v
<1>8. Explains(l, v, k, c.corr)
  <2> DEFINE J == {j \in 1..n : l[j] # t[j]}
  <2>1. {j \in DOMAIN l : l[j] # v[j + k]} = J
    BY <1>5, <1>7
  <2>2. \A i \in J : v[i + k] = t[i] /\ 0 + i = i
    BY <1>7
  <2>3. c.corr = {[posicao |-> 0 + i, de |-> l[i], para |-> t[i]] : i \in J}
    BY <1>4 DEF Corrections
  <2> HIDE DEF J
  <2>4. c.corr = {[posicao |-> i, de |-> l[i], para |-> v[i + k]] : i \in J}
    BY <2>2, <2>3
  <2> QED BY <1>7, <2>1, <2>4 DEF Explains
<1>9. v \in Seq(Chars) /\ Len(v) = 11 /\ v # <<>>
  <2>1. v \in [1..11 -> Chars]
    BY <1>7 DEF Chars
  <2>2. v \in Seq(Chars) /\ Len(v) = 11
    BY <2>1, AsFunction, 11 \in Nat, Zenon
  <2>3. Len(<<>>) = 0 /\ 11 # 0
    OBVIOUS
  <2>4. v # <<>>
    BY <2>2, <2>3, Zenon
  <2> QED BY <2>2, <2>4
<1>10. limpar(v) = v
  BY <1>9, CleanWhole
<1>11. /\ exigirDigitos(v, 0).ok /\ exigirDigitos(v, 0).corr = {}
       /\ exigirDigitos(v, 0).texto = v
  BY <1>7, DigitsAsTheyAre, 0 \in Int, 11 \in Nat, Zenon
<1>12. [i \in 1..(11 - Len(v)) |-> 0] \o v = v
  <2>1. 1..(11 - Len(v)) = {}
    BY <1>9
  <2>2. [i \in 1..(11 - Len(v)) |-> 0] = <<>>
    <3>1. [i \in {} |-> 0] = <<>>
      OBVIOUS
    <3> QED BY <2>1, <3>1, Zenon
  <2>3. <<>> \o v = v
    BY <1>9
  <2> QED BY <2>2, <2>3
<1>13. ~(Len(v) > 11)
  BY <1>9
<1>14. Renavam(v) = Resultado(v, "valido", {})
  <2>1. Renavam(v) = montar(v, {})
    BY <1>2, <1>9, <1>10, <1>11, <1>12, <1>13 DEF Renavam
  <2> QED BY <2>1, Results
<1>15. /\ Renavam(s).valor = v /\ Renavam(s).correcoes = c.corr
       /\ Renavam(s).status = "valido" => c.corr = {}
  BY <1>2, Results
<1> QED BY <1>2, <1>3, <1>5, <1>7, <1>8, <1>14, <1>15 DEF l, k

\* The corrections of a part that starts after d others are the changes at its
\* positions in the whole.
Changes(l, v, J) ==
    {[posicao |-> j, de |-> l[j], para |-> v[j]] : j \in {i \in J : l[i] # v[i]}}

PartOf(a, w, l, v, m, d) == \A i \in 1..m : a[i] = l[d + i] /\ w[i] = v[d + i]

OfTheWhole(a, w, l, v, m, d) == Corrections(a, w, m, d) = Changes(l, v, d + 1..d + m)

LEMMA ChangesOfPart ==
  ASSUME NEW l, NEW v, NEW a, NEW w, NEW m \in Nat, NEW d \in Nat,
         PartOf(a, w, l, v, m, d)
  PROVE  OfTheWhole(a, w, l, v, m, d)
<1> USE DEF PartOf
<1>1. ASSUME NEW x \in Corrections(a, w, m, d)
      PROVE  x \in Changes(l, v, d + 1..d + m)
  <2>1. PICK i \in 1..m : a[i] # w[i] /\ x = [posicao |-> d + i, de |-> a[i], para |-> w[i]]
    BY <1>1 DEF Corrections
  <2> DEFINE j == d + i
  <2>2. j \in d + 1..d + m /\ a[i] = l[j] /\ w[i] = v[j]
    BY <2>1
  <2> HIDE DEF j
  <2>3. x = [posicao |-> j, de |-> l[j], para |-> v[j]] /\ l[j] # v[j]
    BY <2>1, <2>2 DEF j
  <2> QED BY <2>2, <2>3 DEF Changes
<1>2. ASSUME NEW x \in Changes(l, v, d + 1..d + m)
      PROVE  x \in Corrections(a, w, m, d)
  <2>1. PICK j \in d + 1..d + m :
             l[j] # v[j] /\ x = [posicao |-> j, de |-> l[j], para |-> v[j]]
    BY <1>2 DEF Changes
  <2> DEFINE i == j - d
  <2>2. i \in 1..m /\ d + i = j
    BY <2>1
  <2> HIDE DEF i
  <2>3. a[i] = l[j] /\ w[i] = v[j]
    BY <2>2
  <2> QED BY <2>1, <2>2, <2>3 DEF Corrections
<1> QED BY <1>1, <1>2 DEF OfTheWhole

\* Four texts of 3, 1, 1 and 2 characters make seven.
Seven(w, S, a, b, x, e) ==
    /\ w \in [1..7 -> S]
    /\ w[1] = a[1] /\ w[2] = a[2] /\ w[3] = a[3] /\ w[4] = b[1]
    /\ w[5] = x /\ w[6] = e[1] /\ w[7] = e[2]

LEMMA SevenCharacters ==
  ASSUME NEW S, NEW a \in [1..3 -> S], NEW b \in [1..1 -> S], NEW x \in S,
         NEW e \in [1..2 -> S]
  PROVE  Seven(a \o b \o <<x>> \o e, S, a, b, x, e)
<1> DEFINE o == <<x>>
           u == a \o b
           y == u \o o
           w == y \o e
<1>1. /\ o \in Of(1, S) /\ o[1] = x
      /\ a \in Of(3, S) /\ b \in Of(1, S) /\ e \in Of(2, S)
  BY DEF Of
<1> HIDE DEF o
<1>2. InTurn(u, S, a, 3, b, 1)
  BY <1>1, Joined, 3 \in Nat, 1 \in Nat, Zenon
<1> HIDE DEF u
<1>3. u \in Of(4, S) /\ u[1] = a[1] /\ u[2] = a[2] /\ u[3] = a[3] /\ u[4] = b[1]
  BY <1>2 DEF InTurn
<1>4. InTurn(y, S, u, 4, o, 1)
  BY <1>1, <1>3, Joined, 4 \in Nat, 1 \in Nat, Zenon
<1> HIDE DEF y
<1>5. /\ y \in Of(5, S) /\ y[1] = a[1] /\ y[2] = a[2] /\ y[3] = a[3] /\ y[4] = b[1]
      /\ y[5] = x
  BY <1>1, <1>3, <1>4 DEF InTurn
<1>6. InTurn(w, S, y, 5, e, 2)
  BY <1>1, <1>5, Joined, 5 \in Nat, 2 \in Nat, Zenon
<1> HIDE DEF w
<1>7. /\ w \in Of(7, S)
      /\ w[1] = a[1] /\ w[2] = a[2] /\ w[3] = a[3] /\ w[4] = b[1]
      /\ w[5] = x /\ w[6] = e[1] /\ w[7] = e[2]
  BY <1>5, <1>6 DEF InTurn
<1> QED BY <1>7 DEF Seven, Of, w, y, u, o

LEMMA PlateParts ==
  ASSUME NEW S, NEW l \in [1..7 -> S]
  PROVE  /\ SubSeq(l, 1, 3) \in [1..3 -> S] /\ SubSeq(l, 4, 4) \in [1..1 -> S]
         /\ SubSeq(l, 6, 7) \in [1..2 -> S]
         /\ \A i \in 1..3 : SubSeq(l, 1, 3)[i] = l[0 + i]
         /\ \A i \in 1..1 : SubSeq(l, 4, 4)[i] = l[3 + i]
         /\ \A i \in 1..2 : SubSeq(l, 6, 7)[i] = l[5 + i]
<1>1. l \in Seq(S) /\ Len(l) = 7
  BY AsFunction, 7 \in Nat, Zenon
<1>2. /\ SubSeq(l, 1, 3) \in Seq(S) /\ Len(SubSeq(l, 1, 3)) = 3
      /\ SubSeq(l, 4, 4) \in Seq(S) /\ Len(SubSeq(l, 4, 4)) = 1
      /\ SubSeq(l, 6, 7) \in Seq(S) /\ Len(SubSeq(l, 6, 7)) = 2
  BY <1>1
<1>3. /\ \A i \in 1..3 : SubSeq(l, 1, 3)[i] = l[0 + i]
      /\ \A i \in 1..1 : SubSeq(l, 4, 4)[i] = l[3 + i]
      /\ \A i \in 1..2 : SubSeq(l, 6, 7)[i] = l[5 + i]
  BY <1>1
<1>4. /\ SubSeq(l, 1, 3) \in [1..3 -> S] /\ SubSeq(l, 4, 4) \in [1..1 -> S]
      /\ SubSeq(l, 6, 7) \in [1..2 -> S]
  BY <1>2, AsFunction, 1 \in Nat, 2 \in Nat, 3 \in Nat, ZenonT(60)
<1> QED BY <1>3, <1>4

\* Letters first, a digit, anything, digits: both formats.
IsPlate(v) ==
    /\ v \in [1..7 -> Chars]
    /\ v[1] \in Upper /\ v[2] \in Upper /\ v[3] \in Upper
    /\ v[4] \in Digits /\ v[6] \in Digits /\ v[7] \in Digits

LEMMA PlateAsItIs ==
  ASSUME NEW v, IsPlate(v)
  PROVE  Placa(v) = Resultado(v, "valido", {})
<1> DEFINE a == SubSeq(v, 1, 3)
           b == SubSeq(v, 4, 4)
           e == SubSeq(v, 6, 7)
           w == a \o b \o <<v[5]>> \o e
<1>1. v \in [1..7 -> Chars] /\ v[5] \in Chars
  BY DEF IsPlate
<1>2. v \in Seq(Chars) /\ Len(v) = 7
  BY <1>1, AsFunction, 7 \in Nat, Zenon
<1>3. v # <<>> /\ ~(Len(v) # 7)
  BY <1>2
<1>4. limpar(v) = v
  BY <1>2, CleanWhole
<1>5. /\ a \in [1..3 -> Chars] /\ b \in [1..1 -> Chars] /\ e \in [1..2 -> Chars]
      /\ \A i \in 1..3 : a[i] = v[0 + i]
      /\ \A i \in 1..1 : b[i] = v[3 + i]
      /\ \A i \in 1..2 : e[i] = v[5 + i]
  BY <1>1, PlateParts
<1> HIDE DEF a, b, e
<1>6. /\ a[1] = v[1] /\ a[2] = v[2] /\ a[3] = v[3] /\ b[1] = v[4]
      /\ e[1] = v[6] /\ e[2] = v[7]
  BY <1>5
<1>7. a \in [1..3 -> Upper] /\ b \in [1..1 -> Digits] /\ e \in [1..2 -> Digits]
  <2>1. a = [i \in 1..3 |-> a[i]] /\ b = [i \in 1..1 |-> b[i]] /\ e = [i \in 1..2 |-> e[i]]
    BY <1>5
  <2>2. \A i \in 1..3 : a[i] \in Upper
    BY <1>6 DEF IsPlate
  <2>3. (\A i \in 1..1 : b[i] \in Digits) /\ (\A i \in 1..2 : e[i] \in Digits)
    BY <1>6 DEF IsPlate
  <2> QED BY <2>1, <2>2, <2>3
<1>8. /\ exigirLetras(a, 0).ok /\ exigirLetras(a, 0).corr = {} /\ exigirLetras(a, 0).texto = a
      /\ exigirDigitos(b, 3).ok /\ exigirDigitos(b, 3).corr = {} /\ exigirDigitos(b, 3).texto = b
      /\ exigirDigitos(e, 5).ok /\ exigirDigitos(e, 5).corr = {} /\ exigirDigitos(e, 5).texto = e
  BY <1>7, LettersAsTheyAre, DigitsAsTheyAre, 0 \in Int, 3 \in Int, 5 \in Int,
     1 \in Nat, 2 \in Nat, 3 \in Nat, Zenon
<1>9. /\ w \in [1..7 -> Chars]
      /\ w[1] = a[1] /\ w[2] = a[2] /\ w[3] = a[3] /\ w[4] = b[1]
      /\ w[5] = v[5] /\ w[6] = e[1] /\ w[7] = e[2]
  <2>1. Seven(w, Chars, a, b, v[5], e)
    BY <1>1, <1>5, SevenCharacters, Zenon
  <2> QED BY <2>1, Zenon DEF Seven
<1>10. w = v
  <2> HIDE DEF w
  <2>1. \A i \in 1..7 : w[i] = v[i]
    <3>1. \A i \in 1..7 : i = 1 \/ i = 2 \/ i = 3 \/ i = 4 \/ i = 5 \/ i = 6 \/ i = 7
      OBVIOUS
    <3> QED BY <1>6, <1>9, <3>1, Zenon
  <2> QED BY <1>1, <1>9, <2>1
<1>11. Placa(v) = montar(v, {})
  <2>1. {} \cup {} \cup {} = {}
    OBVIOUS
  <2> QED BY <1>3, <1>4, <1>8, <1>10, <2>1 DEF Placa, a, b, e
<1> QED BY <1>11, Results

LEMMA AcceptedPlaca ==
  ASSUME NEW s \in Text, Valido(Placa(s))
  PROVE  LET r == Placa(s)
         IN  /\ IsPlate(r.valor) /\ r.valor[5] = limpar(s)[5]
             /\ Len(limpar(s)) = 7
             /\ Explains(limpar(s), r.valor, 0, r.correcoes)
             /\ Placa(r.valor) = Resultado(r.valor, "valido", {})
             /\ r.status = "valido" => r.correcoes = {}
<1> DEFINE l == limpar(s)
           a == SubSeq(l, 1, 3)
           b == SubSeq(l, 4, 4)
           e == SubSeq(l, 6, 7)
           A == exigirLetras(a, 0)
           B == exigirDigitos(b, 3)
           E == exigirDigitos(e, 5)
           v == A.texto \o B.texto \o <<l[5]>> \o E.texto
           c == A.corr \cup B.corr \cup E.corr
<1>1. l \in Seq(Chars)
  BY CleanType
<1> HIDE DEF l
<1>2. Len(l) = 7 /\ A.ok /\ B.ok /\ E.ok /\ Placa(s) = montar(v, c)
  BY Results, Zenon DEF Placa, l
<1>3. l \in [1..7 -> Chars] /\ l[5] \in Chars
  <2>1. l \in [1..7 -> Chars]
    BY <1>1, <1>2, AsFunction, 7 \in Nat, Zenon
  <2> QED BY <2>1
<1>4. /\ a \in [1..3 -> Chars] /\ b \in [1..1 -> Chars] /\ e \in [1..2 -> Chars]
      /\ \A i \in 1..3 : a[i] = l[0 + i]
      /\ \A i \in 1..1 : b[i] = l[3 + i]
      /\ \A i \in 1..2 : e[i] = l[5 + i]
  BY <1>3, PlateParts
<1> HIDE DEF a, b, e
<1>5. /\ a \in Seq(Chars) /\ Len(a) = 3 /\ b \in Seq(Chars) /\ Len(b) = 1
      /\ e \in Seq(Chars) /\ Len(e) = 2
  <2>0. a \in [1..3 -> Chars] /\ b \in [1..1 -> Chars] /\ e \in [1..2 -> Chars]
    BY <1>4
  <2>1. a \in Seq(Chars) /\ Len(a) = 3
    BY <2>0, AsFunction, 3 \in Nat, Zenon
  <2>2. b \in Seq(Chars) /\ Len(b) = 1
    BY <2>0, AsFunction, 1 \in Nat, Zenon
  <2>3. e \in Seq(Chars) /\ Len(e) = 2
    BY <2>0, AsFunction, 2 \in Nat, Zenon
  <2> QED BY <2>1, <2>2, <2>3
<1>6. /\ A.texto \in [1..3 -> Upper] /\ A.corr = Corrections(a, A.texto, 3, 0)
  <2>1. /\ A.texto = [i \in 1..3 |-> A.texto[i]]
        /\ \A i \in 1..3 : A.texto[i] \in Upper
        /\ A.corr = Corrections(a, A.texto, 3, 0)
    <3>1. Required(A, a, 3, 0, Upper)
      BY <1>5, LettersRequired, 3 \in Nat, 0 \in Int, Zenon
    <3> HIDE DEF A
    <3> QED BY <1>2, <3>1 DEF Required
  <2> HIDE DEF A
  <2> QED BY <2>1
<1>7. /\ B.texto \in [1..1 -> Digits] /\ B.corr = Corrections(b, B.texto, 1, 3)
  <2>1. /\ B.texto = [i \in 1..1 |-> B.texto[i]]
        /\ \A i \in 1..1 : B.texto[i] \in Digits
        /\ B.corr = Corrections(b, B.texto, 1, 3)
    <3>1. Required(B, b, 1, 3, Digits)
      BY <1>5, DigitsRequired, 1 \in Nat, 3 \in Int, Zenon
    <3> HIDE DEF B
    <3> QED BY <1>2, <3>1 DEF Required
  <2> HIDE DEF B
  <2> QED BY <2>1
<1>8. /\ E.texto \in [1..2 -> Digits] /\ E.corr = Corrections(e, E.texto, 2, 5)
  <2>1. /\ E.texto = [i \in 1..2 |-> E.texto[i]]
        /\ \A i \in 1..2 : E.texto[i] \in Digits
        /\ E.corr = Corrections(e, E.texto, 2, 5)
    <3>1. Required(E, e, 2, 5, Digits)
      BY <1>5, DigitsRequired, 2 \in Nat, 5 \in Int, Zenon
    <3> HIDE DEF E
    <3> QED BY <1>2, <3>1 DEF Required
  <2> HIDE DEF E
  <2> QED BY <2>1
<1> HIDE DEF A, B, E
<1>9. /\ v \in [1..7 -> Chars]
      /\ v[1] = A.texto[1] /\ v[2] = A.texto[2] /\ v[3] = A.texto[3] /\ v[4] = B.texto[1]
      /\ v[5] = l[5] /\ v[6] = E.texto[1] /\ v[7] = E.texto[2]
  <2>1. A.texto \in [1..3 -> Chars] /\ B.texto \in [1..1 -> Chars] /\ E.texto \in [1..2 -> Chars]
    BY <1>6, <1>7, <1>8 DEF Chars
  <2>2. Seven(v, Chars, A.texto, B.texto, l[5], E.texto)
    BY <1>3, <2>1, SevenCharacters, Zenon
  <2> HIDE DEF v
  <2> QED BY <2>2, Zenon DEF Seven
<1> HIDE DEF v
<1>10. IsPlate(v)
  BY <1>6, <1>7, <1>8, <1>9 DEF IsPlate
<1>11. c = Corrections(l, v, 7, 0)
  <2>1. /\ PartOf(a, A.texto, l, v, 3, 0)
        /\ PartOf(b, B.texto, l, v, 1, 3)
        /\ PartOf(e, E.texto, l, v, 2, 5)
    BY <1>4, <1>9 DEF PartOf
  <2>2. /\ Corrections(a, A.texto, 3, 0) = Changes(l, v, 0 + 1..0 + 3)
        /\ Corrections(b, B.texto, 1, 3) = Changes(l, v, 3 + 1..3 + 1)
        /\ Corrections(e, E.texto, 2, 5) = Changes(l, v, 5 + 1..5 + 2)
    <3>1. /\ OfTheWhole(a, A.texto, l, v, 3, 0)
          /\ OfTheWhole(b, B.texto, l, v, 1, 3)
          /\ OfTheWhole(e, E.texto, l, v, 2, 5)
      BY <2>1, ChangesOfPart, 0 \in Nat, 1 \in Nat, 2 \in Nat, 3 \in Nat, 5 \in Nat, Zenon
    <3> QED BY <3>1, Zenon DEF OfTheWhole
  <2>3. Corrections(l, v, 7, 0) = Changes(l, v, 0 + 1..0 + 7)
    <3>1. PartOf(l, v, l, v, 7, 0)
      BY DEF PartOf
    <3>2. OfTheWhole(l, v, l, v, 7, 0)
      BY <3>1, ChangesOfPart, 0 \in Nat, 7 \in Nat, Zenon
    <3> QED BY <3>2, Zenon DEF OfTheWhole
  <2>4. {i \in 0 + 1..0 + 7 : l[i] # v[i]}
           = {i \in 0 + 1..0 + 3 : l[i] # v[i]} \cup {i \in 3 + 1..3 + 1 : l[i] # v[i]}
             \cup {i \in 5 + 1..5 + 2 : l[i] # v[i]}
    BY <1>9
  <2>5. Changes(l, v, 0 + 1..0 + 7)
           = Changes(l, v, 0 + 1..0 + 3) \cup Changes(l, v, 3 + 1..3 + 1)
             \cup Changes(l, v, 5 + 1..5 + 2)
    BY <2>4, Zenon DEF Changes
  <2> QED BY <1>6, <1>7, <1>8, <2>2, <2>3, <2>5 DEF c
<1> HIDE DEF c
<1>12. Explains(l, v, 0, c)
  BY <1>1, <1>2, <1>11, NothingInFront
<1>13. Placa(v) = Resultado(v, "valido", {})
  BY <1>10, PlateAsItIs
<1>14. /\ Placa(s).valor = v /\ Placa(s).correcoes = c
       /\ Placa(s).status = "valido" => c = {}
  BY <1>2, Results
<1> QED BY <1>2, <1>9, <1>10, <1>12, <1>13, <1>14 DEF l

-----------------------------------------------------------------------------
(* Whatever the field. *)

LEMMA Functions ==
  ASSUME NEW s
  PROVE  /\ Conferir("chassi", s) = Chassi(s)
         /\ Conferir("placa", s) = Placa(s)
         /\ Conferir("renavam", s) = Renavam(s)
         /\ Conferir("numeroCRV", s) = digitosFixos(s, 12)
         /\ Conferir("codigoCRV", s) = digitosFixos(s, 11)
         /\ Conferir("cpf", s) = CPF(s)
         /\ Conferir("cnpj", s) = CNPJ(s)
BY Zenon DEF Conferir, NumeroCRV, CodigoSegurancaCRV

\* The lengths of the values.
Lengths(c) ==
    CASE c = "chassi" -> 17..21
      [] c = "placa" -> {7}
      [] c \in {"renavam", "codigoCRV", "cpf"} -> {11}
      [] c = "numeroCRV" -> {12}
      [] c = "cnpj" -> {14}

LEMMA LengthOf ==
  /\ Lengths("chassi") = 17..21 /\ Lengths("placa") = {7} /\ Lengths("renavam") = {11}
  /\ Lengths("numeroCRV") = {12} /\ Lengths("codigoCRV") = {11} /\ Lengths("cpf") = {11}
  /\ Lengths("cnpj") = {14}
BY Zenon DEF Lengths

\* What is true of a text that is accepted.
Accepted(c, s) ==
    LET r == Conferir(c, s)
        v == r.valor
        l == limpar(s)
    IN  /\ v \in Seq(Chars) /\ Len(v) \in Lengths(c)
        /\ c # "cpf" =>
              Explains(l, v, IF c = "renavam" THEN 11 - Len(l) ELSE 0, r.correcoes)
        /\ Conferir(c, v) = Resultado(v, "valido", {})
        /\ c = "placa" => IsPlate(v) /\ v[5] = l[5] /\ Len(l) = 7
        /\ r.status = "valido" => r.correcoes = {}

LEMMA AcceptedOfAny ==
  ASSUME NEW c \in Campos, NEW s \in Text, Valido(Conferir(c, s))
  PROVE  Accepted(c, s)
<1>1. ASSUME NEW n \in Nat, NEW v
      PROVE  /\ v \in [1..n -> Chars] => v \in Seq(Chars) /\ Len(v) = n
             /\ v \in [1..n -> Digits] => v \in Seq(Chars) /\ Len(v) = n
  <2>1. v \in [1..n -> Digits] => v \in [1..n -> Chars]
    BY DEF Chars
  <2> QED BY <2>1, AsFunction, Zenon
<1>2. CASE c = "chassi"
  <2>1. Valido(Chassi(s)) /\ Conferir(c, s) = Chassi(s)
    BY <1>2, Functions
  <2>2. PICK n \in 17..21 : Chassi(s).valor \in [1..n -> Chars]
    BY <2>1, AcceptedChassi, Zenon
  <2>3. Chassi(s).valor \in Seq(Chars) /\ Len(Chassi(s).valor) \in Lengths(c)
    <3>1. n \in Nat
      BY <2>2
    <3> QED BY <1>1, <1>2, <2>2, <3>1, LengthOf, Zenon
  <2>4. c # "cpf" /\ c # "renavam" /\ c # "placa"
    BY <1>2
  <2> QED BY <1>2, <2>1, <2>3, <2>4, AcceptedChassi, Functions, Zenon DEF Accepted
<1>3. CASE c = "placa"
  <2>1. Valido(Placa(s)) /\ Conferir(c, s) = Placa(s)
    BY <1>3, Functions
  <2>2. Placa(s).valor \in [1..7 -> Chars]
    BY <2>1, AcceptedPlaca, Zenon DEF IsPlate
  <2>3. Placa(s).valor \in Seq(Chars) /\ Len(Placa(s).valor) \in Lengths(c)
    BY <1>1, <1>3, <2>2, LengthOf, 7 \in Nat, 7 \in {7}, Zenon
  <2>4. c # "cpf" /\ c # "renavam"
    BY <1>3
  <2> QED BY <1>3, <2>1, <2>3, <2>4, AcceptedPlaca, Functions, Zenon DEF Accepted
<1>4. CASE c = "renavam"
  <2>1. Valido(Renavam(s)) /\ Conferir(c, s) = Renavam(s)
    BY <1>4, Functions
  <2>2. Renavam(s).valor \in [1..11 -> Digits]
    BY <2>1, AcceptedRenavam, Zenon
  <2>3. Renavam(s).valor \in Seq(Chars) /\ Len(Renavam(s).valor) \in Lengths(c)
    BY <1>1, <1>4, <2>2, LengthOf, 11 \in Nat, 11 \in {11}, Zenon
  <2>4. c # "placa"
    BY <1>4
  <2> QED BY <1>4, <2>1, <2>3, <2>4, AcceptedRenavam, Functions, Zenon DEF Accepted
<1>5. CASE c = "numeroCRV" \/ c = "codigoCRV"
  <2>1. PICK n \in {11, 12} : /\ Conferir(c, s) = digitosFixos(s, n)
                             /\ \A v : Conferir(c, v) = digitosFixos(v, n)
                             /\ Lengths(c) = {n}
    BY <1>5, Functions, LengthOf
  <2>2. n \in Nat \ {0} /\ Valido(digitosFixos(s, n))
    BY <2>1
  <2>3. digitosFixos(s, n).valor \in [1..n -> Digits]
    BY <2>2, FixedDigits, Zenon
  <2>4. digitosFixos(s, n).valor \in Seq(Chars) /\ Len(digitosFixos(s, n).valor) \in Lengths(c)
    <3>1. n \in Nat /\ n \in {n}
      BY <2>2
    <3> QED BY <1>1, <2>1, <2>3, <3>1, Zenon
  <2>5. c # "cpf" /\ c # "renavam" /\ c # "placa"
    BY <1>5
  <2> QED BY <2>1, <2>2, <2>4, <2>5, FixedDigits, Zenon DEF Accepted
<1>6. CASE c = "cpf"
  <2>1. Valido(CPF(s)) /\ Conferir(c, s) = CPF(s)
    BY <1>6, Functions
  <2>2. CPF(s).valor \in [1..11 -> Digits]
    BY <2>1, AcceptedCPF, Zenon
  <2>3. CPF(s).valor \in Seq(Chars) /\ Len(CPF(s).valor) \in Lengths(c)
    BY <1>1, <1>6, <2>2, LengthOf, 11 \in Nat, 11 \in {11}, Zenon
  <2>4. c # "placa"
    BY <1>6
  <2> QED BY <1>6, <2>1, <2>3, <2>4, AcceptedCPF, Functions, Zenon DEF Accepted
<1>7. CASE c = "cnpj"
  <2>1. Valido(CNPJ(s)) /\ Conferir(c, s) = CNPJ(s)
    BY <1>7, Functions
  <2>2. CNPJ(s).valor \in [1..14 -> Chars]
    BY <2>1, AcceptedCNPJ, Zenon
  <2>3. CNPJ(s).valor \in Seq(Chars) /\ Len(CNPJ(s).valor) \in Lengths(c)
    BY <1>1, <1>7, <2>2, LengthOf, 14 \in Nat, 14 \in {14}, Zenon
  <2>4. c # "placa" /\ c # "cpf" /\ c # "renavam"
    BY <1>7
  <2> QED BY <1>7, <2>1, <2>3, <2>4, AcceptedCNPJ, Functions, Zenon DEF Accepted
<1> QED BY <1>2, <1>3, <1>4, <1>5, <1>6, <1>7 DEF Campos

-----------------------------------------------------------------------------
(* What an extractor can make of a printed field. *)

\* A text of n characters that is p, or p but for one character.
Misread(w, p, n) == w = p \/ \E i \in 1..n : OneMisread(w, p, n, i)

\* What is left of a reading l of p, when it is as long as p, is p or a misread of it.
ReadsAs(l, p, n) ==
    /\ l \in Text
    /\ Len(limpar(l)) = n => Misread(limpar(l), p, n)
    /\ p \in Seq(Digits) /\ Len(somenteDigitos(l)) = n =>
          Misread(somenteDigitos(l), p, n)

LEMMA SwapShape ==
  ASSUME NEW s \in Text, NEW l \in UmaTroca(s), Trocas \subseteq Int
  PROVE  /\ l \in Text /\ Len(l) = Len(s)
         /\ \E i \in 1..Len(s) : \A j \in 1..Len(s) : j # i => l[j] = s[j]
<1>1. PICK i \in DOMAIN s, r \in Trocas : l = [s EXCEPT ![i] = r]
  BY DEF UmaTroca, Trocar
<1>2. DOMAIN s = 1..Len(s) /\ r \in Int
  BY DEF Text
<1>3. l \in Text /\ Len(l) = Len(s)
  BY <1>1, <1>2 DEF Text
<1>4. \A j \in 1..Len(s) : j # i => l[j] = s[j]
  BY <1>1, <1>2 DEF Text
<1> QED BY <1>2, <1>3, <1>4

LEMMA LowerCase ==
  ASSUME NEW s \in Seq(Chars)
  PROVE  /\ Minusculas(s) \in Text /\ limpar(Minusculas(s)) = s
         /\ s \in Seq(Digits) => Minusculas(s) = s
<1> DEFINE m == Minusculas(s)
<1>1. \A i \in 1..Len(s) : s[i] \in Chars
  OBVIOUS
<1>2. DOMAIN s = 1..Len(s) /\ Len(s) \in Nat
  OBVIOUS
<1>3. m = [i \in 1..Len(s) |-> IF letra(s[i]) THEN s[i] + 32 ELSE s[i]]
  BY <1>2 DEF Minusculas
<1>4. \A c \in Chars : /\ c \in Int /\ c + 32 \in Int /\ ToUpper(c) = c
                       /\ letra(c) => ToUpper(c + 32) = c
  BY DEF Chars, Upper, Lower, Digits, letra, ToUpper, LA, LZ
<1>5. \A i \in 1..Len(s) : m[i] \in Int /\ ToUpper(m[i]) = s[i]
  BY <1>1, <1>3, <1>4
<1>6. m \in Text /\ DOMAIN m = 1..Len(s)
  <2>1. m = [i \in 1..Len(s) |-> m[i]]
    BY <1>3
  <2> HIDE DEF m
  <2> QED BY <1>2, <1>5, <2>1 DEF Text
<1>7. limpar(m) = s
  <2> HIDE DEF m
  <2>1. [i \in DOMAIN m |-> ToUpper(m[i])] = s
    BY <1>2, <1>5, <1>6
  <2>2. Keep(s, Chars) = s
    BY <1>1, KeepAll
  <2> QED BY <2>1, <2>2 DEF limpar, Chars
<1>8. ASSUME s \in Seq(Digits)
      PROVE  m = s
  <2>1. \A i \in 1..Len(s) : s[i] \in Digits /\ s[i] \in Chars
    BY <1>8 DEF Chars
  <2>2. \A i \in 1..Len(s) : ~letra(s[i])
    BY <2>1, CharShape
  <2> QED BY <1>2, <1>3, <2>2
<1> QED BY <1>6, <1>7, <1>8

\* A character lost at either end.
LEMMA Lost ==
  ASSUME NEW s \in Text, Len(s) >= 1
  PROVE  /\ Tail(s) \in Text /\ Len(Tail(s)) = Len(s) - 1
         /\ Front(s) \in Text /\ Len(Front(s)) = Len(s) - 1
<1>1. Tail(s) \in Text /\ Len(Tail(s)) = Len(s) - 1
  BY DEF Text
<1>2. Front(s) = SubSeq(s, 1, Len(s) - 1)
  BY DEF Front
<1>3. ASSUME NEW n \in Nat, n <= Len(s)
      PROVE  SubSeq(s, 1, n) \in Text /\ Len(SubSeq(s, 1, n)) = n
  BY <1>3 DEF Text
<1>4. Len(s) - 1 \in Nat /\ Len(s) - 1 <= Len(s)
  BY DEF Text
<1> QED BY <1>1, <1>2, <1>3, <1>4

LEMMA TooShort ==
  ASSUME NEW l \in Text, NEW p, NEW n \in Nat, Len(l) < n
  PROVE  ReadsAs(l, p, n)
<1>1. Len(limpar(l)) \in Nat /\ Len(limpar(l)) <= Len(l)
  BY CleanType
<1>2. Len(somenteDigitos(l)) \in Nat /\ Len(somenteDigitos(l)) <= Len(l)
  BY DigitsType
<1>3. Len(l) \in Nat
  BY DEF Text
<1>4. Len(limpar(l)) # n /\ Len(somenteDigitos(l)) # n
  BY <1>1, <1>2, <1>3
<1> QED BY <1>4 DEF ReadsAs

LEMMA OneSwap ==
  ASSUME NEW p \in Seq(Chars), NEW l \in UmaTroca(p), Trocas \subseteq Int
  PROVE  ReadsAs(l, p, Len(p))
<1> DEFINE n == Len(p)
<1>1. p \in Text /\ n \in Nat
  BY CharsAreText
<1>2. l \in Text /\ Len(l) = n /\ \E i \in 1..n : \A j \in 1..n : j # i => l[j] = p[j]
  BY <1>1, SwapShape
<1>3. \A j \in 1..n : p[j] \in Chars
  OBVIOUS
<1> HIDE DEF n
<1>4. PICK i \in 1..n : \A j \in 1..n : j # i => l[j] = p[j]
  BY <1>2
<1>5. ASSUME NEW w, DOMAIN w = 1..n, Len(w) = n, w \in Seq(Int),
             \A j \in 1..n : j # i => w[j] = p[j]
      PROVE  Misread(w, p, n)
  <2>1. CASE w[i] = p[i]
    <3>1. \A j \in 1..n : w[j] = p[j]
      BY <1>5, <2>1
    <3>2. p \in Seq(Int) /\ Len(p) = n
      BY <1>1 DEF Text, n
    <3>3. w = p
      BY <1>5, <3>1, <3>2
    <3> QED BY <3>3 DEF Misread
  <2>2. CASE w[i] # p[i]
    BY <1>5, <2>2 DEF Misread, OneMisread
  <2> QED BY <2>1, <2>2
<1>6. ASSUME Len(limpar(l)) = n
      PROVE  Misread(limpar(l), p, n)
  <2>1. /\ limpar(l) \in Seq(Chars)
        /\ \A j \in 1..n : limpar(l)[j] = ToUpper(l[j])
    BY <1>2, <1>6, CleanType
  <2>2. limpar(l) \in Text /\ DOMAIN limpar(l) = 1..n
    BY <1>6, <2>1, CharsAreText
  <2>3. \A j \in 1..n : j # i => limpar(l)[j] = p[j]
    BY <1>3, <1>4, <2>1, CharShape
  <2> QED BY <1>5, <1>6, <2>2, <2>3 DEF Text
<1>7. ASSUME Len(somenteDigitos(l)) = n
      PROVE  Misread(somenteDigitos(l), p, n)
  <2>1. somenteDigitos(l) = l /\ DOMAIN l = 1..n
    BY <1>2, <1>7, DigitsType DEF Text
  <2> QED BY <1>2, <1>4, <1>5, <2>1 DEF Text
<1> QED BY <1>2, <1>6, <1>7 DEF ReadsAs, n

LEMMA TheSame ==
  ASSUME NEW p \in Seq(Chars), NEW l \in Text, limpar(l) = p,
         p \in Seq(Digits) => somenteDigitos(l) = p
  PROVE  ReadsAs(l, p, Len(p))
BY DEF ReadsAs, Misread

LEMMA Readings ==
  ASSUME NEW c \in Campos, NEW p \in Seq(Chars), Len(p) >= 3, Trocas \subseteq Int,
         NEW l \in Leituras(c, p)
  PROVE  l \in Text /\ (c # "placa" => ReadsAs(l, p, Len(p)))
<1>1. p \in Text /\ Len(p) \in Nat
  BY CharsAreText
<1>2. CASE l = p
  <2>1. limpar(l) = p
    BY <1>2, CleanWhole
  <2>2. p \in Seq(Digits) => somenteDigitos(l) = p
    BY <1>1, <1>2, DigitsType
  <2> QED BY <1>1, <1>2, <2>1, <2>2, TheSame
<1>3. CASE l = Minusculas(p)
  <2>1. l \in Text /\ limpar(l) = p
    BY <1>3, LowerCase
  <2>2. p \in Seq(Digits) => somenteDigitos(l) = p
    BY <1>1, <1>3, LowerCase, DigitsType
  <2> QED BY <2>1, <2>2, TheSame
<1>4. CASE l = Pontuado(p)
  <2>1. limpar(l) = p /\ (p \in Seq(Digits) => somenteDigitos(l) = p)
    BY <1>4, PunctuatedField
  <2>2. l \in Seq(Chars \cup {-3})
    BY <1>4, PunctuationDropped, Chars \in SUBSET Chars
  <2>3. Chars \cup {-3} \subseteq Int
    BY CharShape
  <2>4. l \in Text
    <3>1. \A i \in 1..Len(l) : l[i] \in Chars \cup {-3}
      BY <2>2
    <3>2. \A i \in 1..Len(l) : l[i] \in Int
      BY <2>3, <3>1
    <3>3. l = [i \in 1..Len(l) |-> l[i]] /\ Len(l) \in Nat
      BY <2>2
    <3> QED BY <3>2, <3>3 DEF Text
  <2> QED BY <2>1, <2>4, TheSame
<1>5. CASE l = Tail(p) \/ l = Front(p)
  <2>1. l \in Text /\ Len(l) = Len(p) - 1
    <3>1. /\ Tail(p) \in Text /\ Len(Tail(p)) = Len(p) - 1
          /\ Front(p) \in Text /\ Len(Front(p)) = Len(p) - 1
      <4>1. Len(p) >= 1
        BY <1>1
      <4> QED BY <1>1, <4>1, Lost, Zenon
    <3> QED BY <1>5, <3>1, Zenon
  <2>2. Len(l) < Len(p)
    BY <1>1, <2>1
  <2> QED BY <1>1, <2>1, <2>2, TooShort
<1>6. CASE l = <<>>
  <2>1. l \in Text /\ Len(l) < Len(p)
    BY <1>1, <1>6 DEF Text
  <2> QED BY <1>1, <2>1, TooShort
<1>7. CASE l \in UmaTroca(p)
  BY <1>7, OneSwap, Zenon DEF ReadsAs
<1>8. CASE c = "placa" /\ \E q \in UmaTroca(p) : l \in UmaTroca(q)
  <2>1. PICK q \in UmaTroca(p) : l \in UmaTroca(q)
    BY <1>8
  <2>2. q \in Text
    BY <1>1, SwapShape
  <2> QED BY <1>8, <2>1, <2>2, SwapShape
<1> QED BY <1>2, <1>3, <1>4, <1>5, <1>6, <1>7, <1>8 DEF Leituras

-----------------------------------------------------------------------------
(* What no rule can see. *)

LEMMA OnPaper ==
  ASSUME NEW c \in Campos, NEW p \in Papeis[c]
  PROVE  /\ p \in Seq(Chars) /\ p \in Text /\ Len(p) \in Lengths(c) /\ Len(p) >= 3
         /\ Valido(Conferir(c, p)) /\ Conferir(c, p).valor = p
         /\ Accepted(c, p)
         /\ \A l \in Leituras(c, p) :
               l \in Text /\ (c # "placa" => ReadsAs(l, p, Len(p)))
<1>1. p \in Seq(Chars) /\ Conferir(c, p) = Resultado(p, "valido", {}) /\ Trocas \subseteq Int
  BY ReadingAssumption DEF Chars
<1>2. p \in Text
  BY <1>1, CharsAreText
<1>3. Valido(Conferir(c, p)) /\ Conferir(c, p).valor = p
  BY <1>1, Results
<1>4. Accepted(c, p)
  BY <1>2, <1>3, AcceptedOfAny
<1>5. Len(p) \in Lengths(c)
  BY <1>3, <1>4, Zenon DEF Accepted
<1>6. Len(p) >= 3
  <2>1. \A n \in 17..21 : n >= 3
    OBVIOUS
  <2>2. \A n \in Lengths(c) : n >= 3
    BY <2>1, LengthOf DEF Campos
  <2> QED BY <1>5, <2>2
<1>7. \A l \in Leituras(c, p) : l \in Text /\ (c # "placa" => ReadsAs(l, p, Len(p)))
  BY <1>1, <1>6, Readings, Zenon
<1> QED BY <1>1, <1>2, <1>3, <1>4, <1>5, <1>6, <1>7

LEMMA SilentPlate ==
  ASSUME NEW p, NEW v, IsPlate(p), IsPlate(v)
  PROVE  Silencioso("placa", p, v)
<1>1. DOMAIN p = 1..7 /\ \A i \in 1..7 : i = 1 \/ i = 2 \/ i = 3 \/ i = 4 \/ i = 5 \/ i = 6 \/ i = 7
  BY DEF IsPlate
<1>2. \A a \in Upper : letra(a)
  BY DEF letra
<1>3. \A a \in Digits : ~letra(a)
  BY CharShape DEF letra, Digits
<1>4. ASSUME NEW a, NEW b, letra(a), letra(b)
      PROVE  letra(a) = letra(b)
  BY <1>4 DEF letra
<1>5. ASSUME NEW a, NEW b, ~letra(a), ~letra(b)
      PROVE  letra(a) = letra(b)
  BY <1>5 DEF letra
<1>6. /\ letra(p[1]) = letra(v[1]) /\ letra(p[2]) = letra(v[2]) /\ letra(p[3]) = letra(v[3])
  BY <1>2, <1>4, Zenon DEF IsPlate
<1>7. /\ letra(p[4]) = letra(v[4]) /\ letra(p[6]) = letra(v[6]) /\ letra(p[7]) = letra(v[7])
  BY <1>3, <1>5, Zenon DEF IsPlate
<1>8. \A i \in Difere(p, v) : i = 5 \/ letra(p[i]) = letra(v[i])
  BY <1>1, <1>6, <1>7, Zenon DEF Difere
<1> QED BY <1>8, Zenon DEF Silencioso

LEMMA SilentRenavam ==
  ASSUME NEW p \in Papeis["renavam"], lido \in Leituras("renavam", p),
         Valido(Renavam(lido)), Renavam(lido).status = "valido", Renavam(lido).valor # p
  PROVE  Silencioso("renavam", p, Renavam(lido).valor)
<1> DEFINE v == Renavam(lido).valor
           l == limpar(lido)
<1>0. "renavam" \in Campos /\ "renavam" # "placa"
  BY DEF Campos
<1>1. /\ p \in Text /\ Valido(Renavam(p)) /\ Renavam(p).valor = p
      /\ lido \in Text /\ ReadsAs(lido, p, Len(p))
  BY <1>0, OnPaper, Functions
<1>2. p \in [1..11 -> Digits] /\ p[11] = dvRenavam(p)
  BY <1>1, AcceptedRenavam
<1>3. /\ v \in [1..11 -> Digits] /\ v[11] = dvRenavam(v)
      /\ Len(l) \in 1..11
      /\ Explains(l, v, 11 - Len(l), {})
  BY <1>1, AcceptedRenavam
<1>4. l \in Seq(Chars) /\ ReadsAs(lido, p, 11)
  <2>1. Len(p) = 11
    BY <1>2
  <2> QED BY <1>1, <2>1, CleanType
<1> HIDE DEF v
<1>5. ASSUME Len(l) = 11
      PROVE  p[11] = 0
  <2>1. Misread(l, p, 11)
    BY <1>4, <1>5 DEF ReadsAs
  <2> HIDE DEF l
  <2>2. DOMAIN l = 1..11
    BY <1>4, <1>5
  <2>3. \A j \in 1..11 : l[j] = v[j]
    <3>1. 11 - Len(l) = 0
      BY <1>5
    <3>2. {i \in DOMAIN l : l[i] # v[i + 0]} = {}
      BY <1>3, <3>1, ZenonT(60) DEF Explains
    <3>3. \A i \in 1..11 : i + 0 = i
      OBVIOUS
    <3> QED BY <2>2, <3>2, <3>3, Zenon
  <2>4. v = l
    <3>1. l = [i \in 1..11 |-> l[i]]
      BY <1>4, <2>2
    <3> QED BY <1>3, <2>3, <3>1
  <2>5. PICK i \in 1..11 : OneMisread(v, p, 11, i)
    BY <2>1, <2>4 DEF Misread, v
  <2>6. OneMisread(p, v, 11, i)
    BY <2>5 DEF OneMisread
  <2> QED BY <1>2, <1>3, <2>6, RenavamCatches
<1>6. p[11] = 0 \/ Len(l) < 11
  <2> DEFINE n == Len(l)
  <2>1. n \in 1..11 /\ (n = 11 => p[11] = 0)
    BY <1>3, <1>5
  <2> HIDE DEF n
  <2>2. p[11] = 0 \/ n < 11
    BY <2>1
  <2> QED BY <2>2 DEF n
<1> QED BY <1>6, Zenon DEF Silencioso, l

LEMMA SilentCPF ==
  ASSUME NEW p \in Papeis["cpf"], NEW q \in Leituras("cpf", p),
         Valido(CPF(q)), CPF(q).valor # p
  PROVE  Silencioso("cpf", p, CPF(q).valor)
<1> DEFINE v == CPF(q).valor
<1>0. "cpf" \in Campos /\ "cpf" # "placa"
  BY DEF Campos
<1>1. /\ p \in Text /\ Valido(CPF(p)) /\ CPF(p).valor = p
      /\ q \in Text /\ ReadsAs(q, p, Len(p))
  BY <1>0, OnPaper, Functions
<1>2. p \in [1..11 -> Digits] /\ dvCPF(p)
  BY <1>1, AcceptedCPF
<1>3. v \in [1..11 -> Digits] /\ dvCPF(v) /\ v = somenteDigitos(q)
      /\ Len(somenteDigitos(q)) = 11
  BY <1>1, AcceptedCPF
<1>4. p \in Seq(Digits) /\ Len(p) = 11
  BY <1>2, AsFunction, 11 \in Nat, Zenon
<1>5. Misread(v, p, 11)
  BY <1>1, <1>3, <1>4 DEF ReadsAs
<1>6. PICK i \in 1..11 : OneMisread(v, p, 11, i)
  BY <1>5, Zenon DEF Misread
<1>7. OneMisread(p, v, 11, i)
  BY <1>6 DEF OneMisread
<1>8. p[10] = 0
  BY <1>2, <1>3, <1>7, CPFCatches
<1> QED BY <1>8, Zenon DEF Silencioso

LEMMA SilentCNPJ ==
  ASSUME NEW p \in Papeis["cnpj"], NEW q \in Leituras("cnpj", p),
         Valido(CNPJ(q)), CNPJ(q).valor # p
  PROVE  Silencioso("cnpj", p, CNPJ(q).valor)
<1> DEFINE v == CNPJ(q).valor
<1>0. "cnpj" \in Campos /\ "cnpj" # "placa"
  BY DEF Campos
<1>1. /\ p \in Text /\ Valido(CNPJ(p)) /\ CNPJ(p).valor = p
      /\ q \in Text /\ ReadsAs(q, p, Len(p))
  BY <1>0, OnPaper, Functions
<1>2. p \in [1..14 -> Chars] /\ dvCNPJ(p)
  BY <1>1, AcceptedCNPJ
<1>3. v \in [1..14 -> Chars] /\ dvCNPJ(v) /\ v = limpar(q) /\ Len(limpar(q)) = 14
  BY <1>1, AcceptedCNPJ
<1>4. /\ p \in [1..14 -> Int] /\ v \in [1..14 -> Int] /\ Len(p) = 14
  <2>1. Chars \subseteq Int
    BY CharShape
  <2>2. p \in [1..14 -> Int] /\ v \in [1..14 -> Int]
    <3> HIDE DEF v
    <3> QED BY <1>2, <1>3, <2>1
  <2>3. Len(p) = 14
    BY <2>2, AsFunction, 14 \in Nat, ZenonT(60)
  <2> QED BY <2>2, <2>3
<1>5. Misread(v, p, 14)
  BY <1>1, <1>3, <1>4 DEF ReadsAs
<1>6. PICK i \in 1..14 : OneMisread(v, p, 14, i)
  BY <1>5, Zenon DEF Misread
<1>7. OneMisread(p, v, 14, i)
  BY <1>6 DEF OneMisread
<1>8. CASE (p[i] - v[i]) % 11 = 0
  <2>1. Difere(p, v) \subseteq {i}
    BY <1>4, <1>7 DEF Difere, OneMisread
  <2>2. \A j \in Difere(p, v) : (p[j] - v[j]) % 11 = 0
    BY <1>8, <2>1, Zenon
  <2> QED BY <2>2, Zenon DEF Silencioso
<1>9. CASE (p[i] - v[i]) % 11 # 0
  <2>1. p[13] = 0 /\ p[14] = 0
    BY <1>2, <1>3, <1>4, <1>7, <1>9, CNPJCatches
  <2> QED BY <2>1, Zenon DEF Silencioso
<1> QED BY <1>8, <1>9

LEMMA Silence ==
  ASSUME NEW c \in Campos \ SemDV, NEW p \in Papeis[c], lido \in Leituras(c, p),
         Valido(Conferir(c, lido)), Conferir(c, lido).status = "valido",
         Conferir(c, lido).valor # p
  PROVE  Silencioso(c, p, Conferir(c, lido).valor)
<1>1. c \in {"chassi", "placa", "renavam", "cpf", "cnpj"}
  BY DEF Campos, SemDV
<1>2. CASE c = "chassi"
  BY <1>2, Zenon DEF Silencioso
<1>3. CASE c = "placa"
  <2>1. Accepted(c, p) /\ Conferir(c, p).valor = p /\ lido \in Text
    BY OnPaper
  <2>2. Accepted(c, lido)
    BY <2>1, AcceptedOfAny
  <2>3. IsPlate(p) /\ IsPlate(Conferir(c, lido).valor)
    BY <1>3, <2>1, <2>2, Zenon DEF Accepted
  <2> QED BY <1>3, <2>3, SilentPlate, Zenon
<1>4. CASE c = "renavam"
  BY <1>4, Functions, SilentRenavam, Zenon
<1>5. CASE c = "cpf"
  BY <1>5, Functions, SilentCPF, Zenon
<1>6. CASE c = "cnpj"
  BY <1>6, Functions, SilentCNPJ, Zenon
<1> QED BY <1>1, <1>2, <1>3, <1>4, <1>5, <1>6

-----------------------------------------------------------------------------
(* The invariant. *)

Recusas == {falha(e) : e \in {"nenhum", "vazio", "tamanho_invalido",
                              "caractere_invalido", "dv_invalido"}}

\* The result is that of the reading at hand.
Conferido ==
    /\ campo \in Campos
    /\ lido \in Leituras(campo, impresso)
    /\ resultado = Conferir(campo, lido)

ReadInv ==
    /\ campo \in Campos \cup {SemCampo}
    /\ etapa \in {"foto", "lido", "conferencia", "pronto", "enviado"}
    /\ fotos \in 0..MaxFotos
    /\ campo = SemCampo => etapa = "foto" /\ resultado = SemResultado
    /\ campo # SemCampo => impresso \in Papeis[campo]
    /\ etapa # "foto" => campo \in Campos /\ lido \in Leituras(campo, impresso)
    /\ resultado \in Recusas \/ (Valido(resultado) /\ Conferido)
    /\ etapa \in {"conferencia", "pronto", "enviado"} => Valido(resultado)
    /\ etapa \in {"pronto", "enviado"} =>
          \/ resultado.valor = impresso
          \/ resultado.status = "valido" /\ campo \notin SemDV

LEMMA Refused ==
  /\ \A r \in Recusas : ~Valido(r) /\ r.valor = <<>>
  /\ SemResultado \in Recusas
  /\ \A c \in Campos : \A s : ~Valido(Conferir(c, s)) => Conferir(c, s) \in Recusas
<1>1. /\ \A r \in Recusas : ~Valido(r) /\ r.valor = <<>>
      /\ SemResultado \in Recusas
  BY DEF Recusas, SemResultado, falha, Resultado, Valido
<1>2. /\ falha("vazio") \in Recusas /\ falha("tamanho_invalido") \in Recusas
      /\ falha("caractere_invalido") \in Recusas /\ falha("dv_invalido") \in Recusas
  BY DEF Recusas
<1>3. ASSUME NEW s
      PROVE  /\ ~Valido(Chassi(s)) => Chassi(s) \in Recusas
             /\ ~Valido(Placa(s)) => Placa(s) \in Recusas
             /\ ~Valido(Renavam(s)) => Renavam(s) \in Recusas
             /\ \A n : ~Valido(digitosFixos(s, n)) => digitosFixos(s, n) \in Recusas
             /\ ~Valido(CPF(s)) => CPF(s) \in Recusas
             /\ ~Valido(CNPJ(s)) => CNPJ(s) \in Recusas
  <2>1. ~Valido(Chassi(s)) => Chassi(s) \in Recusas
    BY <1>2, Results, Zenon DEF Chassi
  <2>2. ~Valido(Placa(s)) => Placa(s) \in Recusas
    BY <1>2, Results, Zenon DEF Placa
  <2>3. ~Valido(Renavam(s)) => Renavam(s) \in Recusas
    BY <1>2, Results, Zenon DEF Renavam
  <2>4. \A n : ~Valido(digitosFixos(s, n)) => digitosFixos(s, n) \in Recusas
    BY <1>2, Results, Zenon DEF digitosFixos
  <2>5. ~Valido(CPF(s)) => CPF(s) \in Recusas
    BY <1>2, Results, Zenon DEF CPF
  <2>6. ~Valido(CNPJ(s)) => CNPJ(s) \in Recusas
    BY <1>2, Results, Zenon DEF CNPJ
  <2> QED BY <2>1, <2>2, <2>3, <2>4, <2>5, <2>6
<1>4. ASSUME NEW c \in Campos, NEW s, ~Valido(Conferir(c, s))
      PROVE  Conferir(c, s) \in Recusas
  BY <1>3, <1>4, Functions DEF Campos
<1> QED BY <1>1, <1>4

LEMMA ReadInitially == ReadInit => ReadInv
BY Refused, ReadingAssumption DEF ReadInit, ReadInv

LEMMA ReadStep == ReadInv /\ [ReadNext]_readVars => ReadInv'
<1> SUFFICES ASSUME ReadInv, [ReadNext]_readVars
             PROVE  ReadInv'
  OBVIOUS
<1> USE ReadingAssumption
<1>1. ASSUME NEW c \in Campos, NEW s \in Papeis[c], Fotografar(c, s)
      PROVE  ReadInv'
  BY <1>1, Refused DEF ReadInv, Fotografar, Conferido
<1>2. CASE Validar
  <2>1. /\ campo \in Campos /\ campo # SemCampo /\ lido \in Leituras(campo, impresso)
        /\ impresso \in Papeis[campo]
    BY <1>2 DEF ReadInv, Validar
  <2>2. /\ resultado' = Conferir(campo, lido)
        /\ UNCHANGED <<campo, impresso, fotos>>
    BY <1>2 DEF Validar
  <2>3. CASE ~Valido(resultado')
    <3>1. etapa' = "foto" /\ resultado' \in Recusas
      BY <1>2, <2>1, <2>2, <2>3, Refused DEF Validar
    <3> QED BY <2>1, <2>2, <3>1 DEF ReadInv
  <2>4. CASE Valido(resultado')
    <3>1. /\ lido' = lido
          /\ etapa' = IF resultado'.status = "corrigido" \/ campo \in SemDV
                      THEN "conferencia" ELSE "pronto"
      BY <1>2, <2>4 DEF Validar, PrecisaConferencia
    <3>2. etapa' = "pronto" => resultado'.status = "valido" /\ campo \notin SemDV
      BY <2>4, <3>1 DEF Valido
    <3>3. Conferido'
      BY <2>1, <2>2, <3>1 DEF Conferido
    <3> QED BY <2>1, <2>2, <2>4, <3>1, <3>2, <3>3 DEF ReadInv
  <2> QED BY <2>3, <2>4
<1>3. CASE Confirmar
  <2>1. CASE etapa' = "pronto"
    BY <1>3, <2>1 DEF ReadInv, Confirmar, Conferido
  <2>2. CASE etapa' = "foto"
    BY <1>3, <2>2, Refused DEF ReadInv, Confirmar
  <2> QED BY <1>3, <2>1, <2>2 DEF Confirmar
<1>4. CASE NovaFoto
  BY <1>4, Refused DEF ReadInv, NovaFoto
<1>5. CASE Enviar
  BY <1>5 DEF ReadInv, Enviar, Conferido
<1>6. CASE Proximo
  BY <1>6, Refused DEF ReadInv, Proximo
<1>7. CASE UNCHANGED readVars
  BY <1>7 DEF ReadInv, readVars, Conferido
<1> QED BY <1>1, <1>2, <1>3, <1>4, <1>5, <1>6, <1>7 DEF ReadNext

LEMMA ReadInvariant == ReadSpec => []ReadInv
BY ReadInitially, ReadStep, PTL DEF ReadSpec

-----------------------------------------------------------------------------
\* The result of a check is one of the package's: a status it declares, a value
\* of digits and capital letters, as long as the field if it is accepted.
THEOREM ReadTyped == ReadSpec => []ReadTypeOK
<1>1. ReadInv => ReadTypeOK
  <2> SUFFICES ASSUME ReadInv
               PROVE  ReadTypeOK
    OBVIOUS
  <2>1. CASE resultado \in Recusas
    <3>1. resultado.status \in {"nenhum", "vazio", "tamanho_invalido",
                                "caractere_invalido", "dv_invalido"}
      BY <2>1 DEF Recusas, falha, Resultado
    <3>2. resultado.valor = <<>> /\ ~Valido(resultado)
      BY <2>1, Refused
    <3>3. \A i \in DOMAIN resultado.valor : resultado.valor[i] \in Digits \cup Upper
      <4>1. DOMAIN <<>> = {}
        OBVIOUS
      <4> QED BY <3>2, <4>1
    <3> QED BY <3>1, <3>2, <3>3 DEF ReadInv, ReadTypeOK
  <2>2. CASE Valido(resultado) /\ Conferido
    <3>1. /\ campo \in Campos /\ campo # SemCampo /\ resultado = Conferir(campo, lido)
          /\ lido \in Text
      <4>1. campo \in Campos /\ campo # SemCampo /\ impresso \in Papeis[campo]
        BY <2>2, ReadingAssumption DEF ReadInv, Conferido
      <4> QED BY <2>2, <4>1, OnPaper DEF Conferido
    <3>2. resultado.valor \in Seq(Chars) /\ Len(resultado.valor) \in Lengths(campo)
      BY <2>2, <3>1, AcceptedOfAny, Zenon DEF Accepted
    <3>3. \A i \in DOMAIN resultado.valor : resultado.valor[i] \in Digits \cup Upper
      BY <3>2 DEF Chars
    <3>4. resultado.status \in {"valido", "corrigido"}
      BY <2>2 DEF Valido
    <3>5. Len(resultado.valor) \in
             CASE campo = "chassi" -> 17..21
               [] campo = "placa" -> {7}
               [] campo \in {"renavam", "codigoCRV", "cpf"} -> {11}
               [] campo = "numeroCRV" -> {12}
               [] campo = "cnpj" -> {14}
      BY <3>2, Zenon DEF Lengths
    <3> QED BY <3>3, <3>4, <3>5, Zenon DEF ReadInv, ReadTypeOK
  <2> QED BY <2>1, <2>2 DEF ReadInv
<1> QED BY <1>1, ReadInvariant, PTL

\* Whatever the extractor makes of one character (two, on a plate), of the case,
\* the punctuation or the ends of a field, what goes to SERPRO is what the paper
\* says, unless no rule of the package can tell them apart; nothing that the
\* package corrected on its own, and no field without check digit, goes wrong.
THEOREM SentAsPrinted == ReadSpec => []WrongOnlyInSilence
<1>1. ReadInv => WrongOnlyInSilence
  <2> SUFFICES ASSUME ReadInv, etapa = "enviado", resultado.valor # impresso
               PROVE  resultado.correcoes = {} /\ Silencioso(campo, impresso, resultado.valor)
    BY DEF WrongOnlyInSilence
  <2>1. /\ Valido(resultado) /\ resultado.status = "valido"
        /\ campo \in Campos \ SemDV /\ impresso \in Papeis[campo]
        /\ lido \in Leituras(campo, impresso)
    BY ReadingAssumption DEF ReadInv
  <2>2. resultado = Conferir(campo, lido)
    BY <2>1, Refused DEF ReadInv, Conferido
  <2>3. lido \in Text
    BY <2>1, OnPaper
  <2>4. resultado.correcoes = {}
    BY <2>1, <2>2, <2>3, AcceptedOfAny, Zenon DEF Accepted
  <2>5. Silencioso(campo, impresso, resultado.valor)
    BY <2>1, <2>2, Silence, Zenon
  <2> QED BY <2>4, <2>5
<1> QED BY <1>1, ReadInvariant, PTL

\* The corrections of an accepted field account for the whole difference between
\* what was read and what is used, which needs no other; and a plate has the
\* format of the paper unless its fifth character was misread.
THEOREM CorrectionsAccount == ReadSpec => []CorrectionsHonest
<1>1. ReadInv => CorrectionsHonest
  <2> SUFFICES ASSUME ReadInv, Valido(resultado)
               PROVE  CorrectionsHonest
    BY DEF CorrectionsHonest
  <2> DEFINE v == resultado.valor
             l == limpar(lido)
             falta == IF campo = "renavam" THEN 11 - Len(l) ELSE 0
  <2>1. Conferido
    BY Refused DEF ReadInv
  <2>2. campo \in Campos /\ impresso \in Papeis[campo] /\ lido \in Text
    <3>1. campo \in Campos /\ impresso \in Papeis[campo]
      BY <2>1, ReadingAssumption DEF ReadInv, Conferido
    <3> QED BY <2>1, <3>1, OnPaper DEF Conferido
  <2>3. Accepted(campo, lido) /\ resultado = Conferir(campo, lido)
    BY <2>1, <2>2, AcceptedOfAny DEF Conferido
  <2>4. campo # "cpf" => Explains(l, v, falta, resultado.correcoes)
    BY <2>3, Zenon DEF Accepted
  <2>5. Conferir(campo, v) = Resultado(v, "valido", {})
    BY <2>3, Zenon DEF Accepted
  <2>6. ASSUME campo = "placa", l[5] = impresso[5]
        PROVE  FormatoDaPlaca(v) = FormatoDaPlaca(impresso)
    <3>1. IsPlate(v) /\ v[5] = l[5]
      BY <2>3, <2>6, Zenon DEF Accepted
    <3>2. IsPlate(impresso)
      <4>1. Accepted(campo, impresso) /\ Conferir(campo, impresso).valor = impresso
        BY <2>2, OnPaper
      <4> QED BY <2>6, <4>1, Zenon DEF Accepted
    <3>3. ASSUME NEW p, IsPlate(p)
          PROVE  Len(p) = 7
      <4>1. p \in [1..7 -> Chars]
        BY <3>3 DEF IsPlate
      <4> QED BY <4>1, AsFunction, 7 \in Nat, ZenonT(60)
    <3>4. Len(v) = 7 /\ Len(impresso) = 7
      BY <3>1, <3>2, <3>3
    <3> QED BY <2>6, <3>1, <3>4, Zenon DEF FormatoDaPlaca
  <2> QED BY <2>4, <2>5, <2>6, Zenon DEF CorrectionsHonest, Explains
<1> QED BY <1>1, ReadInvariant, PTL

-----------------------------------------------------------------------------
(* What the calls cost. *)

Positive == Nat \ {0}
Size == Positive \X Positive

-----------------------------------------------------------------------------
(* Arithmetic. *)

LEMMA DivBounds ==
  ASSUME NEW n \in Nat, NEW d \in Positive
  PROVE  /\ n \div d \in Nat
         /\ d * (n \div d) <= n
         /\ n < d * (n \div d) + d
BY DEF Positive

LEMMA ProductNat ==
  ASSUME NEW a \in Nat, NEW b \in Nat
  PROVE  a * b \in Nat
OBVIOUS

LEMMA Monotone ==
  ASSUME NEW a \in Nat, NEW b \in Nat, NEW c \in Nat, a <= b
  PROVE  a * c <= b * c
OBVIOUS

LEMMA Distribute ==
  ASSUME NEW a \in Nat, NEW b \in Nat, NEW c \in Int
  PROVE  (a + b) * c = a * c + b * c
OBVIOUS

-----------------------------------------------------------------------------
(* Money. *)

\* A charge is the first whole cent from the cost up.
LEMMA RoundedUp ==
  ASSUME NEW m \in Nat, NEW taxa \in Positive
  PROVE  /\ EmCentavosBRL(m, taxa) \in Nat
         /\ m * taxa <= EmCentavosBRL(m, taxa) * Micro
         /\ EmCentavosBRL(m, taxa) * Micro <= m * taxa + (Micro - 1)
<1> DEFINE num == m * taxa
           q == num \div Micro
<1>1. num \in Nat /\ Micro \in Positive
  BY ProductNat, PricesAssumption DEF Positive
<1>2. q \in Nat /\ Micro * q <= num /\ num < Micro * q + Micro
  BY <1>1, DivBounds
<1>3. EmCentavosBRL(m, taxa) = q + (IF num # q * Micro THEN 1 ELSE 0)
  BY <1>1 DEF EmCentavosBRL, quociente, Positive
<1>4. /\ q * Micro \in Nat /\ q * Micro = Micro * q
      /\ (q + 1) * Micro = q * Micro + Micro
  BY <1>1, <1>2, ProductNat, Distribute DEF Positive
<1> HIDE DEF num, q
<1>5. CASE num # q * Micro
  BY <1>1, <1>2, <1>3, <1>4, <1>5 DEF Positive, num
<1>6. CASE num = q * Micro
  BY <1>1, <1>2, <1>3, <1>4, <1>6 DEF Positive, num
<1> QED BY <1>5, <1>6

\* What is charged after a call costs what was estimated before it, whatever
\* part of the prompt went through the cache.
LEMMA MeasuredIsEstimated ==
  ASSUME NEW m \in DOMAIN Tabela, NEW k \in Nat, NEW texto \in Nat,
         NEW saida \in Nat, NEW cache \in Caches(texto)
  PROVE  /\ CustoEstimado(Tabela[m], k, texto, saida) \in Nat
         /\ Custo(Tabela[m], Uso(k + texto - cache[1] - cache[2], saida,
                                 cache[1], cache[2]))
            = CustoEstimado(Tabela[m], k, texto, saida)
<1>1. Tabela[m].entrada \in Nat /\ Tabela[m].saida \in Nat
  BY PricesAssumption DEF Preco
<1>2. cache[1] \in Nat /\ cache[2] \in Nat
  BY DEF Caches
<1>3. k + texto - cache[1] - cache[2] + cache[1] + cache[2] = k + texto + 0 + 0
  BY <1>2
<1>4. (k + texto) * Tabela[m].entrada \in Nat /\ saida * Tabela[m].saida \in Nat
  BY <1>1, ProductNat
<1> QED BY <1>1, <1>2, <1>3, <1>4 DEF Custo, CustoEstimado, Uso

-----------------------------------------------------------------------------
(* Photos. *)

LEMMA Limits ==
  ASSUME NEW t \in Tiers
  PROVE  LadoMaior[t] \in Positive /\ TetoTokens[t] \in Positive
BY PricesAssumption DEF Positive

\* A side at a scale of at most one is a side, of at most what it was.
LEMMA Scaled ==
  ASSUME NEW v \in Positive, NEW p \in Nat, NEW q \in Positive,
         NEW n \in Positive, v * p <= n * q
  PROVE  \A e \in escalado(v, p, q) : e \in Positive /\ e <= n
<1> DEFINE x == (v * p) \div q
<1>1. v * p \in Nat /\ n * q \in Nat
  BY ProductNat DEF Positive
<1>2. x \in Nat /\ q * x <= v * p
  BY <1>1, DivBounds
<1>3. q * x <= q * n
  BY <1>1, <1>2 DEF Positive
<1>4. x <= n
  BY <1>2, <1>3 DEF Positive
<1> HIDE DEF x
<1>5. escalado(v, p, q) \subseteq {maxInt(1, x), maxInt(1, x - 1)}
  BY DEF escalado, x
<1> QED BY <1>2, <1>4, <1>5 DEF maxInt, Positive

\* Shrinking by the longest side gives a size that has none longer.
LEMMA BySide ==
  ASSUME NEW d \in Size, NEW t \in Tiers
  PROVE  \A e \in PeloLado(d, t) :
            e \in Size /\ e[1] <= LadoMaior[t] /\ e[2] <= LadoMaior[t]
<1> DEFINE L == LadoMaior[t]
           M == maxInt(d[1], d[2])
<1>1. L \in Positive /\ M \in Positive /\ d[1] <= M /\ d[2] <= M
  BY Limits DEF maxInt, Size, Positive
<1>2. CASE M > L
  <2>1. d[1] * L <= L * M /\ d[2] * L <= L * M
    BY <1>1, Monotone DEF Size, Positive
  <2>2. /\ \A e \in escalado(d[1], L, M) : e \in Positive /\ e <= L
        /\ \A e \in escalado(d[2], L, M) : e \in Positive /\ e <= L
    BY <1>1, <2>1, Scaled DEF Size, Positive
  <2> QED BY <1>2, <2>2 DEF PeloLado, Escalados, Size
<1>3. CASE ~(M > L)
  BY <1>1, <1>3 DEF PeloLado, Size, Positive
<1> QED BY <1>2, <1>3

\* Every size a photo may be reduced to has both sides and fits the tier.
LEMMA ReducedFits ==
  ASSUME NEW d \in Size, NEW t \in Tiers
  PROVE  \A e \in reduzirParaOTier(d, t) :
            /\ e \in Size /\ e[1] <= LadoMaior[t] /\ e[2] <= LadoMaior[t]
            /\ blocos(e) <= TetoTokens[t]
<1>1. SUFFICES ASSUME NEW c \in PeloLado(d, t), NEW e \in Bisseccao(c, t)
               PROVE  /\ e \in Size /\ e[1] <= LadoMaior[t] /\ e[2] <= LadoMaior[t]
                      /\ blocos(e) <= TetoTokens[t]
  BY BySide DEF reduzirParaOTier
<1>2. c \in Size /\ c[1] <= LadoMaior[t] /\ c[2] <= LadoMaior[t]
  BY BySide
<1>3. PICK s \in Entradas(c) : e \in Abaixo(c, t, s)
  BY DEF Bisseccao, Primeiros, Estouros
<1>4. s[1] \in Nat /\ s[2] \in Positive /\ s[1] <= s[2]
  BY <1>2 DEF Entradas, Size, Positive, maxInt
<1>5. c[1] * s[1] <= c[1] * s[2] /\ c[2] * s[1] <= c[2] * s[2]
  BY <1>2, <1>4, Monotone DEF Size, Positive
<1>6. /\ \A x \in escalado(c[1], s[1], s[2]) : x \in Positive /\ x <= c[1]
      /\ \A x \in escalado(c[2], s[1], s[2]) : x \in Positive /\ x <= c[2]
  BY <1>2, <1>4, <1>5, Scaled DEF Size
<1>7. /\ e \in escalado(c[1], s[1], s[2]) \X escalado(c[2], s[1], s[2])
      /\ blocos(e) <= TetoTokens[t]
  BY <1>3 DEF Abaixo, Escalados
<1> QED BY <1>2, <1>6, <1>7, Limits DEF Size, Positive

\* A photo of any size is priced at one that meets both limits of the tier.
THEOREM EveryPhotoFits ==
  \A f \in Size, t \in Tiers : PhotoFits(f, t)
BY ReducedFits DEF PhotoFits, maxInt, Size, Positive

LEMMA TokensNat ==
  ASSUME NEW d \in Int \X Int, NEW t \in Tiers
  PROVE  TokensDeImagem(d, t) \subseteq Nat
<1>1. \A e \in Size : teto(e[1]) \in Nat /\ teto(e[2]) \in Nat
  BY PricesAssumption, DivBounds DEF Size, Positive, teto
<1>2. \A e \in Size : blocos(e) \in Nat
  BY <1>1, ProductNat DEF blocos
<1>3. d[1] > 0 /\ d[2] > 0 => d \in Size
  BY DEF Size, Positive
<1> QED BY <1>2, <1>3, ReducedFits DEF TokensDeImagem

-----------------------------------------------------------------------------
(* Products and proportions. *)

\* A product whose factor can be crossed out.
LEMMA Cancel ==
  ASSUME NEW a \in Int, NEW b \in Int, NEW c \in Positive, a * c <= b * c
  PROVE  a <= b
BY DEF Positive

\* A strict comparison, divided by a positive factor.
LEMMA CancelLess ==
  ASSUME NEW a \in Int, NEW b \in Int, NEW c \in Positive, a * c < b * c
  PROVE  a < b
BY DEF Positive

\* A comparison, multiplied by a natural factor.
LEMMA Grow ==
  ASSUME NEW a \in Int, NEW b \in Int, NEW c \in Nat, a <= b
  PROVE  a * c <= b * c /\ c * a <= c * b
OBVIOUS

\* The quotient, by its bounds.
LEMMA DivIs ==
  ASSUME NEW n \in Nat, NEW d \in Positive, NEW k \in Nat,
         d * k <= n, n < d * k + d
  PROVE  n \div d = k
<1> DEFINE m == n \div d
<1>1. m \in Nat /\ d * m <= n /\ n < d * m + d
  BY DivBounds
<1> HIDE DEF m
<1>2. d * k < d * (m + 1) /\ d * m < d * (k + 1)
  BY <1>1 DEF Positive
<1>3. k < m + 1 /\ m < k + 1
  BY <1>1, <1>2, CancelLess DEF Positive
<1> QED BY <1>1, <1>3 DEF m

\* The short side of the half, gs, cannot be a block past a corner <<xs, xl>> of
\* the photo <<ds, dl>> that its long side, gl, is short of: the proportions of
\* both photos differ by the pixels that were cut off, never by a block.
LEMMA ShortGrows ==
  ASSUME NEW xs \in Nat, NEW xl \in Nat, NEW gs \in Nat, NEW gl \in Nat,
         NEW s \in Nat, NEW l \in Nat, NEW ds \in Nat, NEW dl \in Positive,
         NEW L \in Nat,
         (xs + 28) * gl <= gs * xl,
         gs * (l - 1) <= s * (gl + 1),
         s * dl <= l * (ds + 1),
         ds * xl = dl * xs, xl <= dl,
         xs <= L, L < l, 27 <= l, L + 1 < 25 * gl
  PROVE  FALSE
<1>1. ((xs + 28) * gl) * (l - 1) <= (xl * (gl + 1)) * s
  <2>1. ((xs + 28) * gl) * (l - 1) <= (gs * xl) * (l - 1)
    <3>1. l - 1 \in Nat /\ (xs + 28) * gl \in Int /\ gs * xl \in Int
      OBVIOUS
    <3> QED BY <3>1, Grow
  <2>2. (gs * xl) * (l - 1) = (gs * (l - 1)) * xl
    OBVIOUS
  <2>3. (gs * (l - 1)) * xl <= (s * (gl + 1)) * xl
    <3>1. gs * (l - 1) \in Int /\ s * (gl + 1) \in Int
      OBVIOUS
    <3> QED BY <3>1, Grow
  <2>4. (s * (gl + 1)) * xl = (xl * (gl + 1)) * s
    OBVIOUS
  <2> QED BY <2>1, <2>2, <2>3, <2>4
<1> DEFINE c == xl * (gl + 1)
           e == l * (gl + 1)
           U == ((xs + 28) * gl) * (l - 1)
           V == e * (xs + 1)
<1>2. c * (s * dl) <= e * (dl * (xs + 1))
  <2>1. c \in Nat /\ e \in Nat /\ s * dl \in Nat /\ l * (ds + 1) \in Nat
    BY ProductNat DEF Positive
  <2>2. c * (s * dl) <= c * (l * (ds + 1))
    <3> HIDE DEF c
    <3> QED BY <2>1, Grow
  <2>3. xl * (ds + 1) <= dl * (xs + 1)
    <3>1. xl * (ds + 1) = ds * xl + xl /\ dl * (xs + 1) = dl * xs + dl
      BY DEF Positive
    <3>2. ds * xl \in Nat
      BY ProductNat
    <3> QED BY <3>1, <3>2 DEF Positive
  <2>4. c * (l * (ds + 1)) = e * (xl * (ds + 1))
    OBVIOUS
  <2>5. e * (xl * (ds + 1)) <= e * (dl * (xs + 1))
    <3>1. xl * (ds + 1) \in Nat /\ dl * (xs + 1) \in Nat
      BY ProductNat DEF Positive
    <3> HIDE DEF e
    <3> QED BY <2>1, <2>3, <3>1, Grow
  <2> DEFINE t1 == c * (s * dl)
             t2 == c * (l * (ds + 1))
             t3 == e * (xl * (ds + 1))
             t4 == e * (dl * (xs + 1))
  <2>6. t1 \in Int /\ t2 \in Int /\ t3 \in Int /\ t4 \in Int
    BY DEF Positive
  <2>7. t1 <= t2 /\ t2 = t3 /\ t3 <= t4
    BY <2>2, <2>4, <2>5
  <2> HIDE DEF t1, t2, t3, t4
  <2>8. t1 <= t4
    BY <2>6, <2>7
  <2> QED BY <2>8 DEF t1, t4
<1>3. U * dl <= V * dl
  <2>1. U * dl <= (c * s) * dl
    <3>1. U \in Int /\ c * s \in Int /\ U <= c * s
      BY <1>1
    <3> HIDE DEF U, c
    <3> QED BY <3>1, Grow DEF Positive
  <2>2. (c * s) * dl = c * (s * dl) /\ e * (dl * (xs + 1)) = V * dl
    BY DEF Positive
  <2> DEFINE t1 == U * dl
             t2 == (c * s) * dl
             t3 == c * (s * dl)
             t4 == e * (dl * (xs + 1))
             t5 == V * dl
  <2>6. t1 \in Int /\ t2 \in Int /\ t3 \in Int /\ t4 \in Int /\ t5 \in Int
    BY DEF Positive
  <2>7. t1 <= t2 /\ t2 = t3 /\ t3 <= t4 /\ t4 = t5
    BY <1>2, <2>1, <2>2
  <2> HIDE DEF t1, t2, t3, t4, t5
  <2>8. t1 <= t5
    BY <2>6, <2>7
  <2> QED BY <2>8 DEF t1, t5
<1>4. U \in Int /\ V \in Int
  OBVIOUS
<1>5. U <= V
  <2> HIDE DEF U, V
  <2> QED BY <1>3, <1>4, Cancel
<1> DEFINE A == xs + 1
           P == A * gl
           R == P * l
           M == gl * l
           W == A * l
<1>6. /\ U = R - P + 27 * M - 27 * gl
      /\ V = R + W
  OBVIOUS
<1>7. P <= M /\ 27 * gl <= M /\ W <= (L + 1) * l
  BY Grow
<1>8. 25 * M <= (L + 1) * l
  <2> HIDE DEF U, V, P, R, M, W
  <2>1. P \in Int /\ R \in Int /\ M \in Int /\ W \in Int
    BY DEF P, R, M, W
  <2> QED BY <1>5, <1>6, <1>7, <2>1
<1>9. (25 * gl) * l <= (L + 1) * l
  BY <1>8
<1>10. 25 * gl <= L + 1
  BY <1>9, Cancel DEF Positive
<1> QED BY <1>10

\* Nor can its long side be a block past a corner that its short side is short of.
LEMMA LongGrows ==
  ASSUME NEW xs \in Nat, NEW xl \in Nat, NEW gs \in Nat, NEW gl \in Nat,
         NEW s \in Positive, NEW l \in Nat, NEW ds \in Nat, NEW dl \in Positive,
         NEW L \in Nat,
         (xl + 28) * gs <= gl * xs,
         gl * (s - 1) <= l * (gs + 1),
         ds * l <= s * (dl + 1),
         ds * xl = dl * xs, xl <= dl,
         xl <= L, L + 1 < 9 * gs, L + 1 < 9 * s, 3 < s
  PROVE  FALSE
<1> DEFINE y == xl + 1
           c == gs + 1
           U == ((xl + 28) * gs) * (s - 1)
           V == (s * y) * c
<1>1. U * dl <= V * dl
  <2> DEFINE t1 == U * dl
             t2 == ((gl * xs) * (s - 1)) * dl
             t3 == (gl * (s - 1)) * (xs * dl)
             t4 == (l * c) * (xs * dl)
             t5 == (ds * l) * (xl * c)
             t6 == (s * (dl + 1)) * (xl * c)
             t7 == (s * c) * ((dl + 1) * xl)
             t8 == (s * c) * (dl * y)
             t9 == V * dl
  <2>1. t1 <= t2
    <3>1. (xl + 28) * gs \in Nat /\ gl * xs \in Nat /\ (s - 1) * dl \in Nat
      BY ProductNat DEF Positive
    <3>2. t1 = ((xl + 28) * gs) * ((s - 1) * dl) /\ t2 = (gl * xs) * ((s - 1) * dl)
      BY DEF Positive
    <3> HIDE DEF t1, t2
    <3> QED BY <3>1, <3>2, Grow
  <2>2. t2 = t3
    BY DEF Positive
  <2>3. t3 <= t4
    <3>1. gl * (s - 1) \in Nat /\ l * c \in Nat /\ xs * dl \in Nat
      BY ProductNat DEF Positive
    <3>2. gl * (s - 1) <= l * c
      OBVIOUS
    <3> HIDE DEF c
    <3> QED BY <3>1, <3>2, Grow
  <2>4. t4 = t5
    <3>1. xs * dl = ds * xl
      BY DEF Positive
    <3>2. (l * c) * (ds * xl) = (ds * l) * (xl * c)
      OBVIOUS
    <3> QED BY <3>1, <3>2
  <2>5. t5 <= t6
    <3>1. ds * l \in Nat /\ s * (dl + 1) \in Nat /\ xl * c \in Nat
      BY ProductNat DEF Positive
    <3> HIDE DEF c
    <3> QED BY <3>1, Grow
  <2>6. t6 = t7
    BY DEF Positive
  <2>7. t7 <= t8
    <3>1. s * c \in Nat /\ (dl + 1) * xl \in Nat /\ dl * y \in Nat
      BY ProductNat DEF Positive
    <3>2. (dl + 1) * xl = dl * xl + xl /\ dl * y = dl * xl + dl /\ dl * xl \in Nat
      BY ProductNat DEF Positive
    <3>3. (dl + 1) * xl <= dl * y
      <4> HIDE DEF y
      <4> QED BY <3>2 DEF Positive
    <3> HIDE DEF c, y
    <3> QED BY <3>1, <3>3, Grow
  <2>8. t8 = t9
    BY DEF Positive
  <2>9. /\ t1 \in Int /\ t2 \in Int /\ t3 \in Int /\ t4 \in Int /\ t5 \in Int
        /\ t6 \in Int /\ t7 \in Int /\ t8 \in Int /\ t9 \in Int
    BY DEF Positive
  <2> HIDE DEF t1, t2, t3, t4, t5, t6, t7, t8, t9
  <2>10. t1 <= t9
    BY <2>1, <2>2, <2>3, <2>4, <2>5, <2>6, <2>7, <2>8, <2>9
  <2> QED BY <2>10 DEF t1, t9
<1>2. U \in Int /\ V \in Int
  BY DEF Positive
<1>3. U <= V
  <2> HIDE DEF U, V
  <2> QED BY <1>1, <1>2, Cancel
<1> DEFINE P == y * gs
           R == P * s
           M == gs * s
           W == s * y
<1>4. /\ U = R - P + 27 * M - 27 * gs
      /\ V = R + W
  BY DEF Positive
\* 27 M <= W + P + 27 gs, and each of the three is less than 9 M.
<1>5. W <= (L + 1) * s /\ P <= (L + 1) * gs
  BY Grow DEF Positive
<1>6. (L + 1) * s <= (9 * gs) * s - s /\ (L + 1) * gs <= (9 * s) * gs - gs
  <2>1. (L + 1) * s <= (9 * gs - 1) * s /\ (L + 1) * gs <= (9 * s - 1) * gs
    BY Grow DEF Positive
  <2>2. (9 * gs - 1) * s = (9 * gs) * s - s /\ (9 * s - 1) * gs = (9 * s) * gs - gs
    BY DEF Positive
  <2> QED BY <2>1, <2>2
<1>7. (9 * gs) * s = 9 * M /\ (9 * s) * gs = 9 * M
  BY DEF Positive
<1>8. 4 * gs <= M /\ gs >= 1
  BY Grow DEF Positive
<1>9. M \in Int /\ W \in Int /\ P \in Int /\ R \in Int /\ (L + 1) * s \in Int /\ (L + 1) * gs \in Int
  BY DEF Positive
<1> DEFINE q1 == (L + 1) * s
           q2 == (L + 1) * gs
<1>10. /\ R - P + 27 * M - 27 * gs <= R + W
       /\ W <= q1 /\ P <= q2 /\ q1 <= 9 * M - s /\ q2 <= 9 * M - gs
       /\ 4 * gs <= M /\ gs >= 1 /\ q1 \in Int /\ q2 \in Int
  BY <1>3, <1>4, <1>5, <1>6, <1>7, <1>8, <1>9
<1> HIDE DEF U, V, P, R, M, W, q1, q2
<1> QED BY <1>9, <1>10 DEF Positive

-----------------------------------------------------------------------------
(* Photos, reduced by their proportions. *)

\* The limits that claudeia knows: Tier.limites and the side of a block.
PublishedLimits ==
    /\ Bloco = 28
    /\ LadoMaior["alta"] = 2576 /\ LadoMaior["padrao"] = 1568
    /\ TetoTokens["alta"] = 4784 /\ TetoTokens["padrao"] = 1568

\* The blocks of the longest side of a tier.
Rows(t) == IF t = "alta" THEN 92 ELSE 56

\* The bounds of a side by its blocks.
LEMMA Blocks ==
  ASSUME PublishedLimits, NEW v \in Positive
  PROVE  /\ teto(v) \in Positive
         /\ 28 * teto(v) <= v + 27
         /\ v <= 28 * teto(v)
BY DEF PublishedLimits, Positive, teto

\* A scaled side, by its exact value.
LEMMA ScaledBounds ==
  ASSUME NEW v \in Positive, NEW p \in Nat, NEW q \in Positive,
         NEW e \in escalado(v, p, q)
  PROVE  /\ e \in Positive
         /\ v * p <= (e + 1) * q
         /\ e > 1 => e * q <= v * p
<1> DEFINE r == v * p
           x == r \div q
<1>1. r \in Nat
  BY ProductNat DEF Positive
<1>2. x \in Nat /\ q * x <= r /\ r < q * x + q
  BY <1>1, DivBounds
<1>3. \/ e = maxInt(1, x)
      \/ r % q = 0 /\ e = maxInt(1, x - 1)
  BY DEF escalado
<1>4. r % q = 0 => r = q * x
  BY <1>1 DEF Positive
<1>5. q * x = x * q /\ (x + 1) * q = x * q + q /\ (x - 1) * q = x * q - q /\ q \in Int
  BY <1>2 DEF Positive
<1> HIDE DEF x, r
<1>6. e \in Positive /\ e >= x - 1 /\ (r % q = 0 \/ e >= x) /\ (e > 1 => e <= x)
  BY <1>2, <1>3 DEF maxInt, Positive
<1>7. r <= (e + 1) * q
  <2>1. CASE r % q = 0
    <3>1. x * q <= (e + 1) * q
      BY <1>2, <1>6, Grow DEF Positive
    <3> QED BY <1>4, <1>5, <2>1, <3>1
  <2>2. CASE e >= x
    <3>1. (x + 1) * q <= (e + 1) * q
      BY <1>2, <1>6, <2>2, Grow DEF Positive
    <3> QED BY <1>1, <1>2, <1>5, <1>6, <3>1 DEF Positive
  <2> QED BY <1>6, <2>1, <2>2
<1>8. ASSUME e > 1 PROVE e * q <= r
  <2>1. e * q <= x * q
    BY <1>2, <1>6, <1>8, Grow DEF Positive
  <2> QED BY <1>1, <1>2, <1>5, <1>6, <2>1 DEF Positive
<1> QED BY <1>6, <1>7, <1>8 DEF r

\* e is d scaled, but for less than a pixel.
Along(e, d) ==
    /\ e[1] > 1 => e[1] * d[2] <= d[1] * (e[2] + 1)
    /\ e[2] > 1 => e[2] * d[1] <= d[2] * (e[1] + 1)

\* Two sides scaled by one factor, each against the other.
LEMMA CrossScaled ==
  ASSUME NEW a \in Positive, NEW b \in Positive, NEW p \in Positive, NEW q \in Positive,
         NEW x \in escalado(a, p, q), NEW y \in escalado(b, p, q), x > 1
  PROVE  x * b <= a * (y + 1)
<1>1. x \in Positive /\ y \in Positive /\ x * q <= a * p /\ b * p <= (y + 1) * q
  BY ScaledBounds DEF Positive
<1> DEFINE u1 == x * q
           u2 == a * p
           v1 == b * p
           v2 == (y + 1) * q
<1>2. u1 \in Nat /\ u2 \in Nat /\ v1 \in Nat /\ v2 \in Nat
  BY <1>1, ProductNat DEF Positive
<1>3. u1 * v1 <= u2 * v2
  <2> HIDE DEF u1, u2, v1, v2
  <2>1. u1 <= u2 /\ v1 <= v2
    BY <1>1 DEF u1, u2, v1, v2
  <2>2. u1 * v1 <= u2 * v1 /\ u2 * v1 <= u2 * v2
    BY <1>2, <2>1, Grow
  <2>3. u1 * v1 \in Int /\ u2 * v1 \in Int /\ u2 * v2 \in Int
    BY <1>2
  <2> QED BY <2>2, <2>3
<1>4. u1 * v1 = (x * b) * (p * q) /\ u2 * v2 = (a * (y + 1)) * (p * q)
  BY <1>1 DEF Positive
<1>5. p * q \in Positive /\ x * b \in Int /\ a * (y + 1) \in Int
  BY <1>1 DEF Positive
<1>6. (x * b) * (p * q) <= (a * (y + 1)) * (p * q)
  BY <1>3, <1>4
<1> QED BY <1>5, <1>6, Cancel

\* A photo scaled by one factor goes along the photo.
LEMMA AlongScaled ==
  ASSUME NEW d \in Size, NEW p \in Positive, NEW q \in Positive,
         NEW e \in Escalados(d, p, q)
  PROVE  Along(e, d)
<1>1. d[1] \in Positive /\ d[2] \in Positive /\ e[1] \in escalado(d[1], p, q)
      /\ e[2] \in escalado(d[2], p, q)
  BY DEF Size, Escalados
<1> QED BY <1>1, CrossScaled DEF Along

\* A photo goes along itself.
LEMMA AlongItself ==
  ASSUME NEW d \in Size
  PROVE  Along(d, d)
<1>1. d[1] \in Positive /\ d[2] \in Positive
  BY DEF Size
<1>2. d[1] * d[2] <= d[1] * (d[2] + 1) /\ d[2] * d[1] <= d[2] * (d[1] + 1)
  BY <1>1 DEF Positive
<1> QED BY <1>2 DEF Along

\* Shrinking by the longest side.
Longest(d) == maxInt(d[1], d[2])

\* What PeloLado returns: the photo itself, or the photo scaled to its longest side.
LEMMA AlongSide ==
  ASSUME NEW d \in Size, NEW t \in Tiers, NEW c \in PeloLado(d, t)
  PROVE  /\ c \in Size /\ c[1] <= LadoMaior[t] /\ c[2] <= LadoMaior[t]
         /\ Along(c, d)
         /\ Longest(d) <= LadoMaior[t] => c = d
         /\ Longest(d) > LadoMaior[t] => c \in Escalados(d, LadoMaior[t], Longest(d))
<1>1. Longest(d) \in Positive /\ LadoMaior[t] \in Positive
  BY Limits DEF Longest, maxInt, Size, Positive
<1>2. /\ Longest(d) <= LadoMaior[t] => c = d
      /\ Longest(d) > LadoMaior[t] => c \in Escalados(d, LadoMaior[t], Longest(d))
  BY <1>1 DEF PeloLado, Longest, Positive
<1>3. Along(c, d)
  BY <1>1, <1>2, AlongScaled, AlongItself DEF Positive
<1> QED BY <1>2, <1>3, BySide

\* The two ways of reducing.
LEMMA ReducedHow ==
  ASSUME NEW d \in Size, NEW t \in Tiers, NEW e \in reduzirParaOTier(d, t)
  PROVE  \E c \in PeloLado(d, t) :
            \/ e = c /\ blocos(c) <= TetoTokens[t]
            \/ e \in Bisseccao(c, t)
BY DEF reduzirParaOTier

\* A bisected photo goes along the photo, which had a scale that does not fit.
LEMMA BisectedAlong ==
  ASSUME NEW c \in Size, NEW t \in Tiers, NEW e \in Bisseccao(c, t)
  PROVE  /\ e \in Size /\ e[1] <= c[1] /\ e[2] <= c[2]
         /\ Along(e, c)
         /\ \E s \in Estouros(c, t) :
               /\ s[1] \in Positive /\ s[2] \in Positive /\ s[1] <= s[2]
               /\ e \in Escalados(c, s[1], s[2])
               /\ blocos(EmEscala(c, s[1], s[2])) > TetoTokens[t]
<1>3. PICK s \in Estouros(c, t) : e \in Abaixo(c, t, s)
  BY DEF Bisseccao, Primeiros
<1>4. s[1] \in Positive /\ s[2] \in Positive /\ s[1] <= s[2]
  BY DEF Entradas, Estouros, Size, Positive, maxInt
<1>5. c[1] * s[1] <= c[1] * s[2] /\ c[2] * s[1] <= c[2] * s[2]
  BY <1>4, Grow DEF Size, Positive
<1>6. /\ \A x \in escalado(c[1], s[1], s[2]) : x \in Positive /\ x <= c[1]
      /\ \A x \in escalado(c[2], s[1], s[2]) : x \in Positive /\ x <= c[2]
  BY <1>4, <1>5, Scaled DEF Size, Positive
<1>7. e \in Escalados(c, s[1], s[2])
  BY <1>3 DEF Abaixo
<1>8. blocos(EmEscala(c, s[1], s[2])) > TetoTokens[t]
  BY DEF Estouros
<1> QED BY <1>4, <1>6, <1>7, <1>8, AlongScaled DEF Size, Escalados

\* At one scale of c both sides are a pixel into a block, after a and b blocks:
\* there the bisection can lose a row and a column at once.
Corner(c, t, a, b) ==
    LET x == 28 * a + 1
        y == 28 * b + 1
    IN  /\ x <= c[1] /\ y <= c[2]
        /\ c[1] * y = c[2] * x
        /\ (a + 1) * (b + 1) > TetoTokens[t]

\* The limits of a tier, in rows of blocks.
LEMMA Tiered ==
  ASSUME PublishedLimits, NEW t \in Tiers
  PROVE  /\ LadoMaior[t] = 28 * Rows(t)
         /\ Rows(t) \in {56, 92}
         /\ TetoTokens[t] \in Positive
         /\ t = "alta" => Rows(t) = 92 /\ TetoTokens[t] = 4784
         /\ t = "padrao" => Rows(t) = 56 /\ TetoTokens[t] = 1568
BY DEF PublishedLimits, Rows, Tiers, Positive

\* A side loses one block at most by the last bit of a factor.
LEMMA LostBlock ==
  ASSUME PublishedLimits, NEW v \in Positive, NEW p \in Positive, NEW q \in Positive,
         p <= q, NEW e \in escalado(v, p, q)
  PROVE  LET x == maxInt(1, (v * p) \div q)
         IN  /\ x \in Positive /\ x <= v /\ e \in Positive
             /\ \/ teto(e) = teto(x)
                \/ /\ teto(e) \in Positive
                   /\ teto(x) = teto(e) + 1
                   /\ x = 28 * teto(e) + 1
                   /\ x * q = v * p
<1> DEFINE r == v * p
           z == r \div q
           x == maxInt(1, z)
<1>1. r \in Nat /\ v * p <= v * q
  BY ProductNat, Grow DEF Positive
<1>2. z \in Nat /\ q * z <= r /\ r < q * z + q
  BY <1>1, DivBounds
<1>3. r % q = 0 => r = q * z
  BY <1>1 DEF Positive
<1>4. e = x \/ (r % q = 0 /\ e = maxInt(1, z - 1))
  BY DEF escalado
<1>5. x \in Positive /\ x <= v
  <2>1. x \in escalado(v, p, q)
    BY DEF escalado
  <2> HIDE DEF x
  <2> QED BY <1>1, <2>1, Scaled DEF Positive
<1> HIDE DEF z, r
<1>6. CASE e = x
  BY <1>5, <1>6 DEF z, r
<1>7. CASE r % q = 0 /\ e = maxInt(1, z - 1) /\ e # x
  <2>1. z >= 2 /\ x = z /\ e = z - 1
    BY <1>2, <1>7 DEF maxInt
  <2>2. e \in Positive /\ x = e + 1
    BY <1>2, <2>1 DEF Positive
  <2>3. /\ teto(e) \in Positive /\ 28 * teto(e) <= e + 27 /\ e <= 28 * teto(e)
        /\ teto(x) \in Positive /\ 28 * teto(x) <= x + 27 /\ x <= 28 * teto(x)
    <3> HIDE DEF x
    <3> QED BY <1>5, <2>2, Blocks
  <2>4. x * q = r
    BY <1>2, <1>3, <1>7, <2>1 DEF Positive
  <2> HIDE DEF x
  <2>5. \/ teto(e) = teto(x)
        \/ teto(x) = teto(e) + 1 /\ x = 28 * teto(e) + 1
    BY <2>2, <2>3 DEF Positive
  <2> QED BY <1>5, <2>2, <2>3, <2>4, <2>5 DEF x, z, r
<1> QED BY <1>4, <1>6, <1>7

\* The tokens of a bisected photo.
LEMMA BisectedTokens ==
  ASSUME PublishedLimits, NEW c \in Size, NEW t \in Tiers,
         c[1] <= LadoMaior[t], c[2] <= LadoMaior[t], NEW e \in Bisseccao(c, t)
  PROVE  \/ TetoTokens[t] < blocos(e) + Rows(t)
         \/ \E a \in 1..Rows(t) - 1, b \in 1..Rows(t) - 1 :
               Corner(c, t, a, b) /\ blocos(e) = a * b
<1> DEFINE T == Rows(t)
           C == TetoTokens[t]
<1>1. T \in {56, 92} /\ C \in Positive /\ LadoMaior[t] = 28 * T
  BY Tiered
<1>2. PICK s \in Estouros(c, t) :
         /\ s[1] \in Positive /\ s[2] \in Positive /\ s[1] <= s[2]
         /\ e \in Escalados(c, s[1], s[2])
         /\ blocos(EmEscala(c, s[1], s[2])) > C
  BY BisectedAlong
<1> DEFINE p == s[1]
           q == s[2]
           x == maxInt(1, (c[1] * p) \div q)
           y == maxInt(1, (c[2] * p) \div q)
<1>3. c[1] \in Positive /\ c[2] \in Positive /\ p \in Positive /\ q \in Positive /\ p <= q
      /\ e[1] \in escalado(c[1], p, q) /\ e[2] \in escalado(c[2], p, q)
  BY <1>2 DEF Size, Escalados
<1>4. /\ x \in Positive /\ x <= c[1] /\ e[1] \in Positive
      /\ \/ teto(e[1]) = teto(x)
         \/ /\ teto(e[1]) \in Positive /\ teto(x) = teto(e[1]) + 1
            /\ x = 28 * teto(e[1]) + 1 /\ x * q = c[1] * p
  BY <1>3, LostBlock
<1>5. /\ y \in Positive /\ y <= c[2] /\ e[2] \in Positive
      /\ \/ teto(e[2]) = teto(y)
         \/ /\ teto(e[2]) \in Positive /\ teto(y) = teto(e[2]) + 1
            /\ y = 28 * teto(e[2]) + 1 /\ y * q = c[2] * p
  BY <1>3, LostBlock
<1>6. teto(x) * teto(y) > C /\ blocos(e) = teto(e[1]) * teto(e[2])
  BY <1>2 DEF blocos, EmEscala
<1> HIDE DEF x, y, p, q, T, C
<1> DEFINE m == teto(x)
           n == teto(y)
<1>7. m \in 1..T /\ n \in 1..T
  <2>1. x <= 28 * T /\ y <= 28 * T
    BY <1>1, <1>3, <1>4, <1>5 DEF Positive
  <2>2. m \in Positive /\ n \in Positive /\ 28 * m <= x + 27 /\ 28 * n <= y + 27
    BY <1>4, <1>5, Blocks
  <2> HIDE DEF m, n
  <2> QED BY <1>1, <1>4, <1>5, <2>1, <2>2 DEF Positive
<1>8. CASE teto(e[1]) = m /\ teto(e[2]) = n
  BY <1>1, <1>6, <1>7, <1>8 DEF T, C, Positive
<1>9. CASE teto(e[1]) = m /\ teto(e[2]) # n
  <2>1. teto(e[2]) = n - 1
    BY <1>5, <1>7, <1>9 DEF Positive
  <2>2. m * (n - 1) = m * n - m
    BY <1>7
  <2>3. blocos(e) = m * n - m /\ m * n > C /\ m * n \in Int
    BY <1>6, <1>7, <1>9, <2>1, <2>2
  <2> HIDE DEF m, n
  <2>4. C < blocos(e) + T
    BY <1>1, <1>7, <2>3 DEF Positive
  <2> QED BY <2>4 DEF T, C
<1>10. CASE teto(e[1]) # m /\ teto(e[2]) = n
  <2>1. teto(e[1]) = m - 1
    BY <1>4, <1>7, <1>10 DEF Positive
  <2>2. (m - 1) * n = m * n - n
    BY <1>7
  <2>3. blocos(e) = m * n - n /\ m * n > C /\ m * n \in Int
    BY <1>6, <1>7, <1>10, <2>1, <2>2
  <2> HIDE DEF m, n
  <2>4. C < blocos(e) + T
    BY <1>1, <1>7, <2>3 DEF Positive
  <2> QED BY <2>4 DEF T, C
<1>11. CASE teto(e[1]) # m /\ teto(e[2]) # n
  <2> DEFINE a == teto(e[1])
             b == teto(e[2])
  <2>1. /\ a \in Positive /\ m = a + 1 /\ x = 28 * a + 1 /\ x * q = c[1] * p
        /\ b \in Positive /\ n = b + 1 /\ y = 28 * b + 1 /\ y * q = c[2] * p
    BY <1>4, <1>5, <1>11
  <2> HIDE DEF a, b
  <2>2. a \in 1..T - 1 /\ b \in 1..T - 1
    BY <1>1, <1>7, <2>1 DEF Positive
  <2>3. c[1] * y = c[2] * x
    <3>1. (c[1] * y) * (p * q) = (c[1] * p) * (y * q)
      BY <1>3, <1>5 DEF Positive
    <3>2. (c[2] * x) * (p * q) = (c[2] * p) * (x * q)
      BY <1>3, <1>4 DEF Positive
    <3>3. (c[1] * p) * (y * q) = (c[2] * p) * (x * q)
      <4> DEFINE f == c[1] * p
                 g == c[2] * p
      <4>1. f \in Nat /\ g \in Nat /\ x * q = f /\ y * q = g
        BY <1>3, <2>1, ProductNat DEF Positive
      <4> HIDE DEF f, g
      <4>2. f * g = g * f
        BY <4>1
      <4> QED BY <4>1, <4>2 DEF f, g
    <3>4. p * q \in Positive /\ c[1] * y \in Int /\ c[2] * x \in Int
      BY <1>3, <1>4, <1>5 DEF Positive
    <3>5. (c[1] * y) * (p * q) = (c[2] * x) * (p * q)
      BY <3>1, <3>2, <3>3
    <3> DEFINE f == c[1] * y
               g == c[2] * x
               h == p * q
    <3>6. f \in Int /\ g \in Int /\ h \in Positive /\ f * h = g * h
      BY <3>4, <3>5
    <3> HIDE DEF f, g, h
    <3>7. f * h \in Int /\ g * h \in Int /\ f * h <= g * h /\ g * h <= f * h
      BY <3>6 DEF Positive
    <3>8. f <= g /\ g <= f
      BY <3>6, <3>7, Cancel
    <3>9. f = g
      BY <3>6, <3>8
    <3> QED BY <3>9 DEF f, g
  <2>4. (a + 1) * (b + 1) > C
    BY <1>6, <2>1
  <2>5. Corner(c, t, a, b)
    BY <1>4, <1>5, <2>1, <2>3, <2>4 DEF Corner, C
  <2>6. blocos(e) = a * b
    BY <1>6 DEF a, b
  <2> QED BY <2>2, <2>5, <2>6 DEF T
<1> QED BY <1>8, <1>9, <1>10, <1>11

-----------------------------------------------------------------------------
(* The standard tier against the high one. *)

\* A photo that is larger in both sides has no fewer blocks.
LEMMA LargerSize ==
  ASSUME PublishedLimits, NEW d \in Size, NEW e \in Size, e[1] <= d[1], e[2] <= d[2]
  PROVE  /\ teto(e[1]) <= teto(d[1]) /\ teto(e[2]) <= teto(d[2])
         /\ blocos(e) <= blocos(d)
         /\ blocos(e) \in Positive
<1>1. e[1] \in Positive /\ e[2] \in Positive /\ d[1] \in Positive /\ d[2] \in Positive
  BY DEF Size
<1>2. \A v \in Positive : teto(v) \in Positive /\ 28 * teto(v) <= v + 27 /\ v <= 28 * teto(v)
  BY Blocks
<1> DEFINE a == teto(e[1])
           b == teto(e[2])
           m == teto(d[1])
           n == teto(d[2])
<1>3. a \in Positive /\ b \in Positive /\ m \in Positive /\ n \in Positive
      /\ a <= m /\ b <= n
  BY <1>1, <1>2 DEF Positive
<1>4. blocos(e) = a * b /\ blocos(d) = m * n
  BY DEF blocos
<1> HIDE DEF a, b, m, n
<1>5. a * b <= m * b /\ m * b <= m * n
  BY <1>3, Grow DEF Positive
<1>6. a * b \in Positive /\ m * b \in Int /\ m * n \in Int
  BY <1>3 DEF Positive
<1>7. a * b <= m * n
  BY <1>5, <1>6 DEF Positive
<1>8. blocos(e) <= blocos(d) /\ blocos(e) \in Positive
  BY <1>4, <1>6, <1>7
<1> QED BY <1>3, <1>8 DEF a, b, m, n

\* A bisection stops close to the limit.
LEMMA NearTheLimit ==
  ASSUME PublishedLimits, NEW c \in Size, NEW t \in Tiers,
         c[1] <= LadoMaior[t], c[2] <= LadoMaior[t], NEW e \in Bisseccao(c, t)
  PROVE  TetoTokens[t] < blocos(e) + 2 * Rows(t)
<1>1. Rows(t) \in {56, 92} /\ TetoTokens[t] \in Positive
  BY Tiered
<1>2. e \in Size
  BY BisectedAlong
<1>3. blocos(e) \in Positive
  BY <1>2, LargerSize DEF Size, Positive
<1>4. CASE TetoTokens[t] < blocos(e) + Rows(t)
  BY <1>1, <1>3, <1>4 DEF Positive
<1>5. ASSUME NEW a \in 1..Rows(t) - 1, NEW b \in 1..Rows(t) - 1,
             Corner(c, t, a, b), blocos(e) = a * b
      PROVE  TetoTokens[t] < blocos(e) + 2 * Rows(t)
  <2>1. (a + 1) * (b + 1) > TetoTokens[t]
    BY <1>5 DEF Corner
  <2>2. (a + 1) * (b + 1) = a * b + a + b + 1 /\ a * b \in Int
    BY <1>1
  <2> QED BY <1>1, <1>5, <2>1, <2>2 DEF Positive
<1> QED BY <1>4, <1>5, BisectedTokens

\* A side at a smaller scale, by more than the last bit.
LEMMA SmallerScale ==
  ASSUME NEW v \in Positive, NEW q \in Positive, NEW p \in Nat, NEW r \in Nat, p < r,
         NEW x \in escalado(v, p, q), NEW y \in escalado(v, r, q)
  PROVE  x <= y
<1>1. /\ x \in Positive /\ (x > 1 => x * q <= v * p)
      /\ y \in Positive /\ v * r <= (y + 1) * q
  BY ScaledBounds
<1>2. CASE x = 1
  BY <1>1, <1>2 DEF Positive
<1>3. CASE x > y /\ x > 1
  <2>1. (y + 1) * q <= x * q
    BY <1>1, <1>3, Grow DEF Positive
  <2>2. v * p < v * r
    BY DEF Positive
  <2>3. (y + 1) * q \in Int /\ x * q \in Int /\ v * p \in Int /\ v * r \in Int
    BY <1>1 DEF Positive
  <2> QED BY <1>1, <1>3, <2>1, <2>2, <2>3
<1> QED BY <1>1, <1>2, <1>3 DEF Positive

\* The tokens of a photo are those of a size it is reduced to.
LEMMA TokensOf ==
  ASSUME NEW d \in Size, NEW t \in Tiers, NEW k \in TokensDeImagem(d, t)
  PROVE  \E e \in reduzirParaOTier(d, t) : k = blocos(e)
BY DEF TokensDeImagem, Size, Positive

\* What a reduced photo is.
LEMMA Reduced ==
  ASSUME NEW d \in Size, NEW t \in Tiers, NEW e \in reduzirParaOTier(d, t)
  PROVE  \E c \in PeloLado(d, t) :
            /\ c \in Size /\ e \in Size /\ c[1] <= LadoMaior[t] /\ c[2] <= LadoMaior[t]
            /\ e[1] <= c[1] /\ e[2] <= c[2]
            /\ Along(e, c) /\ Along(c, d)
            /\ blocos(e) <= TetoTokens[t]
            /\ e = c \/ e \in Bisseccao(c, t)
<1>1. PICK c \in PeloLado(d, t) :
         (e = c /\ blocos(c) <= TetoTokens[t]) \/ e \in Bisseccao(c, t)
  BY ReducedHow
<1>2. /\ c \in Size /\ c[1] <= LadoMaior[t] /\ c[2] <= LadoMaior[t] /\ Along(c, d)
  BY AlongSide
<1>3. blocos(e) <= TetoTokens[t]
  BY ReducedFits
<1>4. CASE e = c
  BY <1>2, <1>3, <1>4, AlongItself DEF Size, Positive
<1>5. CASE e \in Bisseccao(c, t)
  BY <1>2, <1>3, <1>5, BisectedAlong
<1> QED BY <1>1, <1>4, <1>5

\* No photo takes more tokens in the standard tier than in the high one.
LEMMA StandardCheaper ==
  ASSUME PublishedLimits, NEW f \in Size
  PROVE  StandardSaves(f)
<1>1. SUFFICES ASSUME NEW k \in TokensDeImagem(f, "padrao"), NEW n \in TokensDeImagem(f, "alta")
               PROVE  k <= n
  BY DEF StandardSaves
<1>2. "padrao" \in Tiers /\ "alta" \in Tiers
  BY DEF Tiers
<1>3. PICK e \in reduzirParaOTier(f, "padrao") : k = blocos(e)
  BY <1>2, TokensOf
<1>4. PICK h \in reduzirParaOTier(f, "alta") : n = blocos(h)
  BY <1>2, TokensOf
<1>5. PICK c \in PeloLado(f, "padrao") :
         /\ c \in Size /\ e \in Size /\ e[1] <= c[1] /\ e[2] <= c[2]
         /\ blocos(e) <= TetoTokens["padrao"]
  BY <1>2, Reduced
<1>6. PICK g \in PeloLado(f, "alta") :
         /\ g \in Size /\ h \in Size /\ g[1] <= LadoMaior["alta"] /\ g[2] <= LadoMaior["alta"]
         /\ h = g \/ h \in Bisseccao(g, "alta")
  BY <1>2, Reduced
<1>7. k \in Positive /\ n \in Positive
  BY <1>3, <1>4, <1>5, <1>6, LargerSize DEF Size, Positive
<1>8. CASE h \in Bisseccao(g, "alta")
  <2>1. TetoTokens["alta"] < n + 2 * Rows("alta")
    BY <1>2, <1>4, <1>6, <1>8, NearTheLimit
  <2> QED BY <1>3, <1>5, <1>7, <2>1 DEF PublishedLimits, Rows, Positive
<1>9. CASE h = g
  <2>1. c[1] <= g[1] /\ c[2] <= g[2]
    <3>1. f[1] \in Positive /\ f[2] \in Positive /\ Longest(f) \in Positive
          /\ f[1] <= Longest(f) /\ f[2] <= Longest(f)
      BY DEF Size, Longest, maxInt, Positive
    <3>2. /\ Longest(f) <= 1568 => c = f
          /\ Longest(f) > 1568 => c \in Escalados(f, 1568, Longest(f))
          /\ Longest(f) <= 2576 => g = f
          /\ Longest(f) > 2576 => g \in Escalados(f, 2576, Longest(f))
      BY <1>2, AlongSide DEF PublishedLimits
    <3>3. CASE Longest(f) <= 1568
      BY <3>1, <3>2, <3>3 DEF Positive
    <3>4. CASE Longest(f) > 1568 /\ Longest(f) <= 2576
      <4>1. f[1] * 1568 <= f[1] * Longest(f) /\ f[2] * 1568 <= f[2] * Longest(f)
        BY <3>1, <3>4, Grow DEF Positive
      <4>2. c[1] \in escalado(f[1], 1568, Longest(f)) /\ c[2] \in escalado(f[2], 1568, Longest(f))
        BY <3>2, <3>4 DEF Escalados
      <4>3. c[1] <= f[1] /\ c[2] <= f[2]
        BY <3>1, <4>1, <4>2, Scaled DEF Positive
      <4> QED BY <3>1, <3>2, <3>4, <4>3 DEF Positive
    <3>5. CASE Longest(f) > 2576
      <4>1. /\ c[1] \in escalado(f[1], 1568, Longest(f)) /\ c[2] \in escalado(f[2], 1568, Longest(f))
            /\ g[1] \in escalado(f[1], 2576, Longest(f)) /\ g[2] \in escalado(f[2], 2576, Longest(f))
        BY <3>1, <3>2, <3>5 DEF Escalados, Positive
      <4> QED BY <3>1, <4>1, SmallerScale
    <3> QED BY <3>1, <3>3, <3>4, <3>5 DEF Positive
  <2>2. e[1] <= g[1] /\ e[2] <= g[2]
    BY <1>5, <1>6, <2>1 DEF Size, Positive
  <2> QED BY <1>3, <1>4, <1>5, <1>6, <1>9, <2>2, LargerSize
<1> QED BY <1>6, <1>8, <1>9

-----------------------------------------------------------------------------
(* Half a photo against the photo. *)

\* Half of each side, as a caller who shrinks a photo sends it.
Half(f) == <<f[1] \div 2, f[2] \div 2>>

\* The roles of the sides: f's i-th is at most its j-th.
Roles(f, i, j) == i \in {1, 2} /\ j \in {1, 2} /\ i # j /\ f[i] <= f[j]

\* What it is to go along, by the roles of the sides.
LEMMA AlongRoles ==
  ASSUME NEW d, NEW e, Along(e, d), NEW i \in {1, 2}, NEW j \in {1, 2}, i # j
  PROVE  e[i] > 1 => e[i] * d[j] <= d[i] * (e[j] + 1)
BY DEF Along

\* The blocks of a photo, whichever side comes first.
LEMMA BlocosRoles ==
  ASSUME PublishedLimits, NEW d \in Size, NEW i \in {1, 2}, NEW j \in {1, 2}, i # j
  PROVE  /\ blocos(d) = teto(d[i]) * teto(d[j])
         /\ teto(d[i]) \in Positive /\ teto(d[j]) \in Positive
<1>1. d[1] \in Positive /\ d[2] \in Positive
  BY DEF Size
<1>2. teto(d[1]) \in Positive /\ teto(d[2]) \in Positive
  BY <1>1, Blocks
<1>3. teto(d[1]) * teto(d[2]) = teto(d[2]) * teto(d[1])
  BY <1>2 DEF Positive
<1> QED BY <1>2, <1>3 DEF blocos

\* The longest side of a photo shrunk by it.
LEMMA LongSide ==
  ASSUME PublishedLimits, NEW d \in Size, NEW t \in Tiers, NEW c \in PeloLado(d, t),
         NEW i, NEW j, Roles(d, i, j), d[j] > LadoMaior[t]
  PROVE  /\ LadoMaior[t] - 1 <= c[j] /\ c[j] <= LadoMaior[t]
         /\ teto(c[j]) = Rows(t)
         /\ c \in Escalados(d, LadoMaior[t], d[j])
         /\ c[i] \in escalado(d[i], LadoMaior[t], d[j])
<1> DEFINE L == LadoMaior[t]
<1>1. L \in Positive /\ L = 28 * Rows(t) /\ Rows(t) \in {56, 92} /\ Bloco = 28
  BY Tiered DEF PublishedLimits, Positive
<1>2. d[1] \in Positive /\ d[2] \in Positive /\ Longest(d) = d[j]
  BY DEF Size, Longest, maxInt, Positive, Roles
<1>3. c \in Escalados(d, L, d[j])
  BY <1>1, <1>2, AlongSide
<1>4. c[j] \in escalado(d[j], L, d[j]) /\ c[i] \in escalado(d[i], L, d[j])
  BY <1>3 DEF Roles, Escalados
<1>5. (d[j] * L) \div d[j] = L
  <2>1. d[j] * L \in Nat /\ d[j] \in Positive
    BY <1>1, <1>2, ProductNat DEF Positive, Roles
  <2>2. d[j] * L <= d[j] * L /\ d[j] * L < d[j] * L + d[j]
    BY <2>1 DEF Positive
  <2> HIDE DEF L
  <2> QED BY <1>1, <2>1, <2>2, DivIs DEF Positive
<1>6. c[j] \in {L, L - 1}
  BY <1>1, <1>4, <1>5 DEF escalado, maxInt, Positive
<1>7. teto(c[j]) = Rows(t)
  BY <1>1, <1>6 DEF teto
<1> QED BY <1>1, <1>3, <1>4, <1>6, <1>7 DEF Positive

\* The sides of the half.
LEMMA Halves ==
  ASSUME NEW v \in Positive
  PROVE  v \div 2 \in Nat /\ 2 * (v \div 2) <= v /\ v - 1 <= 2 * (v \div 2)
BY DEF Positive

\* A product, the other way round.
LEMMA Swap ==
  ASSUME NEW a \in Int, NEW b \in Int
  PROVE  a * b = b * a
OBVIOUS

\* A photo that is not bisected: its half takes one more column of blocks at most.
LEMMA HalfOfWhole ==
  ASSUME PublishedLimits, NEW f \in Size, NEW t \in Tiers, NEW c \in PeloLado(f, t),
         Half(f) \in Size, NEW g \in PeloLado(Half(f), t), NEW i, NEW j, Roles(f, i, j)
  PROVE  blocos(g) <= blocos(c) + Rows(t)
<1> DEFINE L == LadoMaior[t]
           T == Rows(t)
           w == f[i]
           l == f[j]
           h == Half(f)
<1>1. /\ w \in Positive /\ l \in Positive /\ w <= l /\ i \in {1, 2} /\ j \in {1, 2} /\ i # j
      /\ L = 28 * T /\ T \in {56, 92}
      /\ Longest(f) = l
  BY Tiered DEF Size, Roles, Longest, maxInt, Positive
<1>2. /\ h[i] = w \div 2 /\ h[j] = l \div 2
  BY <1>1 DEF Half
<1>3. h[i] \in Nat /\ 2 * h[i] <= w /\ w - 1 <= 2 * h[i]
      /\ h[j] \in Nat /\ 2 * h[j] <= l /\ l - 1 <= 2 * h[j]
  BY <1>1, <1>2, Halves
<1>4. h[i] \in Positive /\ h[j] \in Positive /\ h[i] <= h[j]
  BY <1>1, <1>2 DEF Size, Positive
<1>5. Roles(h, i, j) /\ Longest(h) = h[j]
  BY <1>1, <1>4 DEF Roles, Longest, maxInt, Positive
<1>6. /\ c \in Size /\ g \in Size /\ c[i] \in Positive /\ g[i] \in Positive
      /\ c[j] \in Positive /\ g[j] \in Positive
      /\ c[i] <= L /\ c[j] <= L /\ g[i] <= L /\ g[j] <= L
  BY <1>1, AlongSide DEF Size
<1>7. blocos(c) \in Positive
  BY <1>6, LargerSize DEF Size, Positive
<1> HIDE DEF h, L, T
<1>8. CASE l <= L
  <2>1. c = f /\ g = h
    BY <1>1, <1>3, <1>4, <1>5, <1>8, AlongSide DEF L, Positive, h
  <2>2. g[1] <= c[1] /\ g[2] <= c[2]
    BY <1>1, <1>3, <2>1 DEF Positive
  <2>3. blocos(g) <= blocos(c) /\ blocos(g) \in Positive
    BY <1>6, <2>2, LargerSize
  <2> QED BY <1>1, <1>7, <2>3 DEF T, Positive
<1>9. CASE l > L
  <2>1. /\ L - 1 <= c[j] /\ c[j] <= L /\ teto(c[j]) = T
        /\ c[i] \in escalado(w, L, l)
    BY <1>9, LongSide DEF L, T
  <2>2. w * L <= (c[i] + 1) * l
    BY <1>1, <2>1, ScaledBounds DEF Positive
  <2>3. g[i] <= c[i] + 1
    <3>1. CASE h[j] <= L
      <4>1. g = h
        BY <1>1, <1>4, <1>5, <3>1, AlongSide DEF L, h
      <4> DEFINE a == c[i]
                 x == g[i]
      <4>2. a \in Positive /\ x \in Positive /\ 2 * x <= w /\ l <= 2 * L + 1 /\ a <= L
        BY <1>1, <1>3, <1>6, <3>1, <4>1 DEF Positive
      <4> HIDE DEF a, x
      <4>3. CASE x >= a + 2
        <5>1. (2 * a + 4) * L <= w * L /\ (a + 1) * l <= (a + 1) * (2 * L + 1)
          BY <1>1, <4>2, <4>3, Grow DEF Positive
        <5>2. (2 * a + 4) * L = 2 * (a * L) + 4 * L
              /\ (a + 1) * (2 * L + 1) = 2 * (a * L) + a + 2 * L + 1
          BY <1>1, <4>2 DEF Positive
        <5>3. w * L \in Int /\ (a + 1) * l \in Int /\ a * L \in Int
          BY <1>1, <4>2 DEF Positive
        <5>4. w * L <= (a + 1) * l
          BY <2>2 DEF a
        <5> QED BY <1>1, <4>2, <5>1, <5>2, <5>3, <5>4 DEF Positive
      <4> QED BY <4>2, <4>3 DEF Positive, a, x
    <3>2. CASE h[j] > L
      <4>1. g[i] \in escalado(h[i], L, h[j])
        BY <1>5, <3>2, LongSide DEF L, h
      <4> DEFINE a == c[i]
                 x == g[i]
                 m == h[i]
                 n == h[j]
      <4>2. a \in Positive /\ x \in Positive /\ m \in Positive /\ n \in Positive /\ a <= L
            /\ 2 * m <= w /\ l <= 2 * n + 1 /\ n > L
        BY <1>1, <1>3, <1>4, <1>6, <3>2 DEF Positive
      <4>3. x > 1 => x * n <= m * L
        <5>1. L \in Nat
          BY <1>1
        <5> HIDE DEF x, m, n
        <5>2. x \in escalado(m, L, n)
          BY <4>1 DEF x, m, n
        <5> QED BY <4>2, <5>1, <5>2, ScaledBounds
      <4>a. w * L <= (a + 1) * l
        BY <2>2
      <4> HIDE DEF a, x, m, n
      <4>4. CASE x >= a + 2
        <5>1. x > 1 /\ (a + 2) * n <= x * n
          BY <4>2, <4>4, Grow DEF Positive
        <5>2. (2 * m) * L <= w * L /\ (a + 1) * l <= (a + 1) * (2 * n + 1)
          BY <1>1, <4>2, Grow DEF Positive
        <5>3. /\ (2 * m) * L = 2 * (m * L) /\ (a + 2) * n = a * n + 2 * n
              /\ (a + 1) * (2 * n + 1) = 2 * (a * n) + a + 2 * n + 1
          BY <1>1, <4>2 DEF Positive
        <5>4. w * L \in Int /\ (a + 1) * l \in Int /\ m * L \in Int /\ a * n \in Int /\ x * n \in Int
          BY <1>1, <4>2 DEF Positive
        <5>5. 2 * (a * n + 2 * n) <= 2 * (a * n) + a + 2 * n + 1
          <6> DEFINE an == a * n
                     xn == x * n
                     mL == m * L
                     wL == w * L
                     al == (a + 1) * l
          <6>1. /\ an \in Int /\ xn \in Int /\ mL \in Int /\ wL \in Int /\ al \in Int
                /\ an + 2 * n <= xn /\ xn <= mL /\ 2 * mL <= wL /\ wL <= al
                /\ al <= 2 * an + a + 2 * n + 1
            BY <4>3, <4>a, <5>1, <5>2, <5>3, <5>4
          <6> HIDE DEF an, xn, mL, wL, al
          <6>2. 2 * (an + 2 * n) <= 2 * an + a + 2 * n + 1
            BY <4>2, <6>1 DEF Positive
          <6> QED BY <6>2 DEF an
        <5> QED BY <1>1, <4>2, <5>4, <5>5 DEF Positive
      <4> QED BY <4>2, <4>4 DEF Positive, a, x
    <3> QED BY <1>1, <1>4, <3>1, <3>2 DEF Positive
  <2> DEFINE a == teto(c[i])
             m == teto(g[i])
             n == teto(g[j])
  <2>4. /\ a \in Positive /\ 28 * a <= c[i] + 27 /\ c[i] <= 28 * a
        /\ m \in Positive /\ 28 * m <= g[i] + 27 /\ g[i] <= 28 * m
        /\ n \in Positive /\ 28 * n <= g[j] + 27 /\ g[j] <= 28 * n
    BY <1>6, Blocks
  <2>5. blocos(c) = a * T /\ blocos(g) = m * n
    BY <1>1, <1>6, <2>1, BlocosRoles
  <2> HIDE DEF a, m, n
  <2>6. m <= a + 1 /\ n <= T
    BY <1>1, <1>6, <2>3, <2>4 DEF Positive
  <2>7. m * n <= m * T /\ m * T <= (a + 1) * T
    BY <1>1, <2>4, <2>6, Grow DEF Positive
  <2>8. (a + 1) * T = a * T + T /\ m * n \in Int /\ m * T \in Int /\ a * T \in Int /\ T \in Int
    BY <1>1, <2>4 DEF Positive
  <2>9. m * n <= a * T + T
    BY <2>7, <2>8
  <2> QED BY <2>5, <2>9 DEF T
<1> QED BY <1>1, <1>8, <1>9 DEF Positive

\* A corner, by the roles of the sides.
LEMMA CornerRoles ==
  ASSUME NEW c, NEW t, NEW a, NEW b, a \in Nat, b \in Nat, Corner(c, t, a, b),
         NEW i \in {1, 2}, NEW j \in {1, 2}, i # j
  PROVE  LET u == IF i = 1 THEN a ELSE b
             v == IF i = 1 THEN b ELSE a
         IN  /\ 28 * u + 1 <= c[i] /\ 28 * v + 1 <= c[j]
             /\ c[i] * (28 * v + 1) = c[j] * (28 * u + 1)
             /\ (u + 1) * (v + 1) > TetoTokens[t]
             /\ a * b = u * v
<1>1. (a + 1) * (b + 1) = (b + 1) * (a + 1) /\ a * b = b * a
  OBVIOUS
<1> QED BY <1>1 DEF Corner

\* Past a corner one side loses a block, and the other gains two.
LEMMA PastCorner ==
  ASSUME NEW u \in Nat, NEW v \in Nat, NEW m \in Nat, NEW n \in Nat, NEW T \in Nat,
         NEW C \in Nat, u <= T, v <= T,
         m * n > u * v + T, m * n <= C, C < (u + 1) * (v + 1)
  PROVE  \/ m <= u /\ n >= v + 2
         \/ n <= v /\ m >= u + 2
<1>1. m * n \in Int /\ u * v \in Int /\ (u + 1) * (v + 1) \in Int
  OBVIOUS
<1>2. CASE m >= u + 1 /\ n >= v + 1
  <2>1. (u + 1) * (v + 1) <= m * (v + 1) /\ m * (v + 1) <= m * n
    BY <1>2, Grow
  <2>2. m * (v + 1) \in Int
    OBVIOUS
  <2> QED BY <1>1, <2>1, <2>2
<1>3. CASE m <= u /\ n <= v + 1
  <2>1. m * n <= u * n /\ u * n <= u * (v + 1)
    BY <1>3, Grow
  <2>2. u * (v + 1) = u * v + u /\ u * n \in Int
    OBVIOUS
  <2> QED BY <1>1, <2>1, <2>2
<1>4. CASE n <= v /\ m <= u + 1
  <2>1. m * n <= (u + 1) * n /\ (u + 1) * n <= (u + 1) * v
    BY <1>4, Grow
  <2>2. (u + 1) * v = u * v + v /\ (u + 1) * n \in Int
    OBVIOUS
  <2> QED BY <1>1, <2>1, <2>2
<1> QED BY <1>2, <1>3, <1>4

\* The half of a photo, along the photo.
LEMMA HalfAlong ==
  ASSUME NEW w \in Positive, NEW l \in Positive, NEW p \in Nat, NEW q \in Nat,
         2 * p <= w, l - 1 <= 2 * q,
         NEW x \in Nat, NEW y \in Nat, x * q <= p * (y + 1)
  PROVE  x * (l - 1) <= w * (y + 1)
<1>1. x * (l - 1) <= x * (2 * q) /\ (2 * p) * (y + 1) <= w * (y + 1)
  BY Grow DEF Positive
<1>2. x * (2 * q) = 2 * (x * q) /\ (2 * p) * (y + 1) = 2 * (p * (y + 1))
  OBVIOUS
<1>3. x * q \in Int /\ p * (y + 1) \in Int /\ x * (l - 1) \in Int /\ w * (y + 1) \in Int
  BY DEF Positive
<1> DEFINE a == x * (l - 1)
           b == x * q
           c == p * (y + 1)
           d == w * (y + 1)
<1>4. a <= 2 * b /\ b <= c /\ 2 * c <= d /\ a \in Int /\ b \in Int /\ c \in Int /\ d \in Int
  BY <1>1, <1>2, <1>3
<1> HIDE DEF a, b, c, d
<1>5. a <= d
  BY <1>4
<1> QED BY <1>5 DEF a, d

\* The short side of the half, when the photo and its half are both shrunk by the long one.
LEMMA ShortSide ==
  ASSUME NEW L \in Nat, NEW T \in {56, 92}, L = 28 * T, NEW u \in Nat,
         T = 56 => u >= 28, T = 92 => u >= 52,
         NEW s \in Positive, NEW l \in Positive, L < l, NEW gs \in Nat, NEW gl \in Nat,
         L - 1 <= gl, gl * (s - 1) <= l * (gs + 1), (28 * u + 1) * l <= s * (L + 1)
  PROVE  L + 1 < 9 * gs
<1>1. ((28 * u) * (L - 1)) * l <= ((gs + 1) * (L + 1)) * l
  <2> DEFINE t1 == ((28 * u) * (L - 1)) * l
             t2 == ((28 * u + 1) * l - l) * (L - 1)
             t3 == (s * (L + 1) - (L + 1)) * (L - 1)
             t4 == ((L - 1) * (s - 1)) * (L + 1)
             t5 == (gl * (s - 1)) * (L + 1)
             t6 == (l * (gs + 1)) * (L + 1)
             t7 == ((gs + 1) * (L + 1)) * l
  <2>1. t1 = t2
    BY DEF Positive
  <2>2. t2 <= t3
    <3>1. (28 * u + 1) * l - l <= s * (L + 1) - (L + 1)
      <4>1. (28 * u + 1) * l \in Int /\ s * (L + 1) \in Int
        BY DEF Positive
      <4> QED BY <4>1 DEF Positive
    <3>2. (28 * u + 1) * l - l \in Int /\ s * (L + 1) - (L + 1) \in Int /\ L - 1 \in Nat
      BY DEF Positive
    <3> QED BY <3>1, <3>2, Grow
  <2>3. t3 = t4
    BY DEF Positive
  <2>4. t4 <= t5
    <3>1. (L - 1) * (s - 1) <= gl * (s - 1)
      BY Grow DEF Positive
    <3>2. (L - 1) * (s - 1) \in Int /\ gl * (s - 1) \in Int /\ L + 1 \in Nat
      BY DEF Positive
    <3> QED BY <3>1, <3>2, Grow
  <2>5. t5 <= t6
    <3>1. l * (gs + 1) \in Int /\ gl * (s - 1) \in Int /\ L + 1 \in Nat
      BY DEF Positive
    <3> QED BY <3>1, Grow
  <2>6. t6 = t7
    BY DEF Positive
  <2>7. t1 \in Int /\ t2 \in Int /\ t3 \in Int /\ t4 \in Int /\ t5 \in Int /\ t6 \in Int /\ t7 \in Int
    BY DEF Positive
  <2> HIDE DEF t1, t2, t3, t4, t5, t6, t7
  <2>8. t1 <= t7
    BY <2>1, <2>2, <2>3, <2>4, <2>5, <2>6, <2>7
  <2> QED BY <2>8 DEF t1, t7
<1>2. (28 * u) * (L - 1) <= (gs + 1) * (L + 1)
  <2>1. (28 * u) * (L - 1) \in Int /\ (gs + 1) * (L + 1) \in Int
    OBVIOUS
  <2> QED BY <1>1, <2>1, Cancel
<1>3. CASE T = 56
  BY <1>2, <1>3
<1>4. CASE T = 92
  BY <1>2, <1>4
<1> QED BY <1>3, <1>4

\* The half of a photo that is bisected at a corner.
LEMMA HalfOfCorner ==
  ASSUME PublishedLimits, NEW f \in Size, NEW t \in Tiers, NEW c \in PeloLado(f, t),
         Half(f) \in Size, NEW g \in PeloLado(Half(f), t), NEW e \in Size,
         e[1] <= g[1], e[2] <= g[2], Along(e, g), blocos(e) <= TetoTokens[t],
         NEW a \in 1..Rows(t) - 1, NEW b \in 1..Rows(t) - 1, Corner(c, t, a, b),
         NEW i, NEW j, Roles(f, i, j)
  PROVE  blocos(e) <= a * b + Rows(t)
<1> DEFINE L == LadoMaior[t]
           T == Rows(t)
           C == TetoTokens[t]
           s == f[i]
           l == f[j]
           h == Half(f)
           u == IF i = 1 THEN a ELSE b
           v == IF i = 1 THEN b ELSE a
           xs == 28 * u + 1
           xl == 28 * v + 1
           m == teto(e[i])
           n == teto(e[j])
<1>1. /\ s \in Positive /\ l \in Positive /\ s <= l /\ i \in {1, 2} /\ j \in {1, 2} /\ i # j
      /\ L = 28 * T /\ T \in {56, 92} /\ C \in Positive
      /\ T = 56 => C = 1568
      /\ T = 92 => C = 4784
      /\ Longest(f) = l
  BY Tiered DEF Size, Roles, Longest, maxInt, Positive, Tiers
<1>2. /\ h[i] = s \div 2 /\ h[j] = l \div 2
  BY <1>1 DEF Half
<1>3. h[i] \in Nat /\ 2 * h[i] <= s /\ s - 1 <= 2 * h[i]
      /\ h[j] \in Nat /\ 2 * h[j] <= l /\ l - 1 <= 2 * h[j]
  BY <1>1, <1>2, Halves
<1>4. h[i] \in Positive /\ h[j] \in Positive /\ h[i] <= h[j]
  BY <1>1, <1>2 DEF Size, Positive
<1>5. Roles(h, i, j) /\ Longest(h) = h[j]
  BY <1>1, <1>4 DEF Roles, Longest, maxInt, Positive
<1>6. /\ c \in Size /\ g \in Size /\ c[i] \in Positive /\ g[i] \in Positive
      /\ c[j] \in Positive /\ g[j] \in Positive /\ e[i] \in Positive /\ e[j] \in Positive
      /\ c[i] <= L /\ c[j] <= L /\ g[i] <= L /\ g[j] <= L
      /\ e[i] <= g[i] /\ e[j] <= g[j]
      /\ Along(c, f) /\ Along(g, h)
  BY <1>1, AlongSide DEF Size
<1>7. /\ u \in 1..T - 1 /\ v \in 1..T - 1
      /\ xs <= c[i] /\ xl <= c[j] /\ c[i] * xl = c[j] * xs
      /\ (u + 1) * (v + 1) > C /\ a * b = u * v
  BY <1>1, CornerRoles
<1>8. /\ blocos(e) = m * n /\ m \in Positive /\ n \in Positive
      /\ 28 * m <= e[i] + 27 /\ e[i] <= 28 * m /\ 28 * n <= e[j] + 27 /\ e[j] <= 28 * n
  BY <1>1, <1>6, BlocosRoles, Blocks
<1>9. (u + 1) * (v + 1) = u * v + u + v + 1 /\ u * v \in Int /\ m * n \in Int
  BY <1>1, <1>7, <1>8 DEF Positive
<1> HIDE DEF L, T, C, s, l, h, u, v, m, n
<1>10. CASE l <= L
  <2>1. g = h
    BY <1>1, <1>3, <1>4, <1>5, <1>10, AlongSide DEF L, Positive, h
  <2>2. 2 * e[i] <= L /\ 2 * e[j] <= L
    BY <1>1, <1>3, <1>6, <1>10, <2>1 DEF Positive
  <2>3. CASE T = 56
    <3>1. m <= 28 /\ n <= 28
      BY <1>1, <1>6, <1>8, <2>2, <2>3 DEF Positive
    <3>2. m * n <= 28 * n /\ 28 * n <= 28 * 28
      BY <1>8, <3>1, Grow DEF Positive
    <3>3. m * n <= u * v + T
      <4> DEFINE mn == m * n
                 qn == 28 * n
                 uv == u * v
                 uu == (u + 1) * (v + 1)
      <4>1. /\ mn \in Int /\ uv \in Int /\ qn \in Int /\ uu = uv + u + v + 1
            /\ mn <= qn /\ qn <= 28 * 28 /\ uu > C
            /\ u \in 1..T - 1 /\ v \in 1..T - 1
        BY <1>7, <1>8, <1>9, <3>2 DEF Positive
      <4> HIDE DEF mn, qn, uv, uu
      <4>2. mn <= uv + T
        BY <1>1, <2>3, <4>1
      <4> QED BY <4>2 DEF mn, uv
    <3> QED BY <1>7, <1>8, <3>3 DEF T
  <2>4. CASE T = 92
    <3>1. m <= 46 /\ n <= 46
      BY <1>1, <1>6, <1>8, <2>2, <2>4 DEF Positive
    <3>2. m * n <= 46 * n /\ 46 * n <= 46 * 46
      BY <1>8, <3>1, Grow DEF Positive
    <3>3. m * n <= u * v + T
      <4> DEFINE mn == m * n
                 qn == 46 * n
                 uv == u * v
                 uu == (u + 1) * (v + 1)
      <4>1. /\ mn \in Int /\ uv \in Int /\ qn \in Int /\ uu = uv + u + v + 1
            /\ mn <= qn /\ qn <= 46 * 46 /\ uu > C
            /\ u \in 1..T - 1 /\ v \in 1..T - 1
        BY <1>7, <1>8, <1>9, <3>2 DEF Positive
      <4> HIDE DEF mn, qn, uv, uu
      <4>2. mn <= uv + T
        BY <1>1, <2>4, <4>1
      <4> QED BY <4>2 DEF mn, uv
    <3> QED BY <1>7, <1>8, <3>3 DEF T
  <2> QED BY <1>1, <2>3, <2>4
<1>11. CASE l > L
  <2> SUFFICES ASSUME m * n > u * v + T
               PROVE  FALSE
    BY <1>1, <1>7, <1>8, <1>9 DEF T
  <2> DEFINE ds == c[i]
             dl == c[j]
             gs == g[i]
             gl == g[j]
             es == e[i]
             el == e[j]
  <2>1. /\ ds > 1 => ds * l <= s * (dl + 1)
        /\ dl > 1 => dl * s <= l * (ds + 1)
        /\ gs > 1 => gs * h[j] <= h[i] * (gl + 1)
        /\ gl > 1 => gl * h[i] <= h[j] * (gs + 1)
        /\ es > 1 => es * gl <= gs * (el + 1)
        /\ el > 1 => el * gs <= gl * (es + 1)
    <3>1. j # i
      BY <1>1
    <3>2. /\ c[i] > 1 => c[i] * f[j] <= f[i] * (c[j] + 1)
          /\ c[j] > 1 => c[j] * f[i] <= f[j] * (c[i] + 1)
      BY <1>1, <1>6, <3>1, AlongRoles
    <3>3. /\ g[i] > 1 => g[i] * h[j] <= h[i] * (g[j] + 1)
          /\ g[j] > 1 => g[j] * h[i] <= h[j] * (g[i] + 1)
      BY <1>1, <1>6, <3>1, AlongRoles
    <3>4. /\ e[i] > 1 => e[i] * g[j] <= g[i] * (e[j] + 1)
          /\ e[j] > 1 => e[j] * g[i] <= g[j] * (e[i] + 1)
      BY <1>1, <1>6, <3>1, AlongRoles
    <3> QED BY <3>2, <3>3, <3>4 DEF s, l
  <2>2. L - 1 <= gl \/ (gl = h[j] /\ gs = h[i])
    <3>1. CASE h[j] <= L
      BY <1>1, <1>4, <1>5, <3>1, AlongSide DEF L, h
    <3>2. CASE h[j] > L
      BY <1>5, <3>2, LongSide DEF L, h
    <3> QED BY <1>1, <1>4, <3>1, <3>2 DEF Positive
  <2>3. /\ ds \in Positive /\ dl \in Positive /\ gs \in Positive /\ gl \in Positive
        /\ es \in Positive /\ el \in Positive /\ ds <= L /\ dl <= L
        /\ es <= gs /\ el <= gl
        /\ xs <= ds /\ xl <= dl /\ ds * xl = dl * xs /\ xs \in Nat /\ xl \in Nat
    BY <1>6, <1>7
  <2> HIDE DEF ds, dl, gs, gl, es, el
  <2>4. /\ u \in Nat /\ v \in Nat /\ m \in Nat /\ n \in Nat /\ T \in Nat /\ C \in Nat
        /\ u <= T /\ v <= T /\ m * n <= C /\ C < (u + 1) * (v + 1)
    BY <1>1, <1>7, <1>8 DEF Positive, C
  <2>5. \/ m <= u /\ n >= v + 2
        \/ n <= v /\ m >= u + 2
    BY <2>4, PastCorner
  <2>6. L \in Nat
    BY <1>1
  <2>7. CASE m <= u /\ n >= v + 2
    <3>1. es + 1 <= xs /\ xl + 28 <= el /\ el > 1 /\ gl > 1 /\ ds > 1
      BY <1>7, <1>8, <2>3, <2>4, <2>7 DEF Positive, es, el
    <3>2. (xl + 28) * gs <= gl * xs
      <4>1. (xl + 28) * gs <= el * gs /\ gl * (es + 1) <= gl * xs
        BY <2>3, <3>1, Grow DEF Positive
      <4>2. (xl + 28) * gs \in Int /\ el * gs \in Int /\ gl * (es + 1) \in Int /\ gl * xs \in Int
        BY <2>3 DEF Positive
      <4>3. el * gs <= gl * (es + 1)
        BY <2>1, <3>1
      <4> QED BY <4>1, <4>2, <4>3
    <3>3. gl * (s - 1) <= l * (gs + 1)
      <4>1. gl * h[i] <= h[j] * (gs + 1) /\ gs \in Nat /\ gl \in Nat
        BY <2>1, <2>3, <3>1 DEF Positive
      <4> QED BY <1>1, <1>3, <4>1, HalfAlong
    <3>4. ds * l <= s * (dl + 1)
      BY <2>1, <3>1
    <3>5. T = 56 => u >= 28
      BY <1>1, <1>7, <1>9
    <3>6. T = 92 => u >= 52
      BY <1>1, <1>7, <1>9
    <3>7. L + 1 < 9 * gs
      <4>1. CASE L - 1 <= gl
        <5>1. (28 * u + 1) * l <= s * (L + 1)
          <6>1. xs * l <= ds * l /\ s * (dl + 1) <= s * (L + 1)
            BY <1>1, <2>3, <2>6, Grow DEF Positive
          <6>2. xs * l \in Int /\ ds * l \in Int /\ s * (dl + 1) \in Int /\ s * (L + 1) \in Int
            BY <1>1, <2>3, <2>6 DEF Positive
          <6> QED BY <3>4, <6>1, <6>2
        <5>2. gs \in Nat /\ gl \in Nat
          BY <2>3 DEF Positive
        <5> QED BY <1>1, <1>11, <2>4, <2>6, <3>3, <3>5, <3>6, <4>1, <5>1, <5>2, ShortSide
      <4>2. CASE gl = h[j] /\ gs = h[i]
        <5>1. 28 * u <= 2 * gs
          <6>1. ds <= s
            <7>1. ds * l <= s * (L + 1)
              <8>1. s * (dl + 1) <= s * (L + 1) /\ s * (dl + 1) \in Int /\ s * (L + 1) \in Int /\ ds * l \in Int
                BY <1>1, <2>3, <2>6, Grow DEF Positive
              <8> QED BY <3>4, <8>1
            <7>2. s * (L + 1) <= s * l /\ s * l \in Int /\ s * (L + 1) \in Int /\ ds * l \in Int
              BY <1>1, <1>11, <2>3, <2>6, Grow DEF Positive
            <7>3. ds * l <= s * l /\ ds \in Int /\ s \in Int
              BY <1>1, <2>3, <7>1, <7>2 DEF Positive
            <7> HIDE DEF xs
            <7>4. l \in Positive
              BY <1>1
            <7> QED BY <7>3, <7>4, Cancel
          <6> QED BY <1>1, <1>3, <2>3, <2>4, <4>2, <6>1 DEF Positive
        <5> QED BY <1>1, <2>3, <2>4, <3>5, <3>6, <5>1 DEF Positive
      <4> QED BY <2>2, <4>1, <4>2
    <3>8. L + 1 < 9 * s /\ 3 < s
      <4>1. xs * l <= s * (L + 1)
        <5>1. xs * l <= ds * l /\ s * (dl + 1) <= s * (L + 1)
          BY <1>1, <2>3, <2>6, Grow DEF Positive
        <5>2. xs * l \in Int /\ ds * l \in Int /\ s * (dl + 1) \in Int /\ s * (L + 1) \in Int
          BY <1>1, <2>3, <2>6 DEF Positive
        <5> QED BY <3>4, <5>1, <5>2
      <4>2. s * (L + 1) <= s * l /\ s * l \in Int /\ s * (L + 1) \in Int /\ xs * l \in Int
        BY <1>1, <1>11, <2>3, <2>6, Grow DEF Positive
      <4>3. xs * l <= s * l /\ xs \in Int /\ s \in Int
        BY <1>1, <2>3, <4>1, <4>2 DEF Positive
      <4>4. xs <= s
        <5> HIDE DEF xs
        <5>1. l \in Positive
          BY <1>1
        <5> QED BY <4>3, <5>1, Cancel
      <4> QED BY <1>1, <2>4, <3>5, <3>6, <4>4 DEF Positive
    <3>9. xl <= dl /\ xl <= L /\ ds \in Nat /\ gs \in Nat /\ gl \in Nat /\ l \in Nat
      BY <1>1, <2>3, <2>6 DEF Positive
    <3> HIDE DEF xs, xl
    <3> QED BY <1>1, <2>3, <2>6, <3>2, <3>3, <3>4, <3>7, <3>8, <3>9, LongGrows
  <2>8. CASE n <= v /\ m >= u + 2
    <3>1. el + 1 <= xl /\ xs + 28 <= es /\ es > 1 /\ gs > 1 /\ dl > 1
      BY <1>7, <1>8, <2>3, <2>4, <2>8 DEF Positive, es, el
    <3>2. (xs + 28) * gl <= gs * xl
      <4>1. (xs + 28) * gl <= es * gl /\ gs * (el + 1) <= gs * xl
        BY <2>3, <3>1, Grow DEF Positive
      <4>2. (xs + 28) * gl \in Int /\ es * gl \in Int /\ gs * (el + 1) \in Int /\ gs * xl \in Int
        BY <2>3 DEF Positive
      <4>3. es * gl <= gs * (el + 1)
        BY <2>1, <3>1
      <4> QED BY <4>1, <4>2, <4>3
    <3>3. gs * (l - 1) <= s * (gl + 1)
      <4>1. gs * h[j] <= h[i] * (gl + 1) /\ gs \in Nat /\ gl \in Nat
        BY <2>1, <2>3, <3>1 DEF Positive
      <4>2. 2 * h[i] <= s /\ l - 1 <= 2 * h[j] /\ h[i] \in Nat /\ h[j] \in Nat
            /\ s \in Positive /\ l \in Positive
        BY <1>1, <1>3
      <4> HIDE DEF xs, xl
      <4> QED BY <4>1, <4>2, HalfAlong
    <3>4. s * dl <= l * (ds + 1)
      BY <1>1, <2>1, <2>3, <3>1, Swap DEF Positive
    <3>5. L + 1 < 25 * gl /\ 27 <= l
      BY <1>1, <1>3, <1>11, <2>2, <2>3 DEF Positive
    <3>6. xl <= dl /\ xs <= L /\ ds \in Nat /\ gs \in Nat /\ gl \in Nat /\ l \in Nat /\ s \in Nat
      BY <1>1, <2>3, <2>6 DEF Positive
    <3> HIDE DEF xs, xl
    <3> QED BY <1>11, <2>3, <2>6, <3>2, <3>3, <3>4, <3>5, <3>6, ShortGrows
  <2> QED BY <2>5, <2>7, <2>8
<1> QED BY <1>1, <1>10, <1>11 DEF Positive

\* Half of a photo comes to no more tokens than the photo, but for a row.
LEMMA HalfSaves ==
  ASSUME PublishedLimits, NEW f \in Size, NEW t \in Tiers, Half(f) \in Size,
         NEW k \in TokensDeImagem(Half(f), t), NEW n \in TokensDeImagem(f, t)
  PROVE  k <= n + Rows(t)
<1>1. PICK e \in reduzirParaOTier(Half(f), t) : k = blocos(e)
  BY TokensOf
<1>2. PICK r \in reduzirParaOTier(f, t) : n = blocos(r)
  BY TokensOf
<1>3. PICK g \in PeloLado(Half(f), t) :
         /\ g \in Size /\ e \in Size /\ e[1] <= g[1] /\ e[2] <= g[2]
         /\ Along(e, g) /\ blocos(e) <= TetoTokens[t]
  BY Reduced
<1>4. PICK c \in PeloLado(f, t) :
         /\ c \in Size /\ r \in Size /\ c[1] <= LadoMaior[t] /\ c[2] <= LadoMaior[t]
         /\ r = c \/ r \in Bisseccao(c, t)
  BY Reduced
<1>5. PICK i \in {1, 2}, j \in {1, 2} : Roles(f, i, j)
  <2>1. f[1] \in Positive /\ f[2] \in Positive
    BY DEF Size
  <2>2. Roles(f, 1, 2) \/ Roles(f, 2, 1)
    BY <2>1 DEF Roles, Positive
  <2> QED BY <2>2
<1>6. k \in Positive /\ n \in Positive /\ blocos(g) \in Positive /\ blocos(c) \in Positive
  BY <1>1, <1>2, <1>3, <1>4, LargerSize DEF Size, Positive
<1>7. blocos(e) <= blocos(g)
  BY <1>3, LargerSize
<1>8. Rows(t) \in Nat /\ TetoTokens[t] \in Nat
  BY Tiered DEF Positive
<1>9. CASE r = c
  <2>1. blocos(g) <= blocos(c) + Rows(t)
    BY <1>5, HalfOfWhole
  <2> QED BY <1>1, <1>2, <1>6, <1>7, <1>8, <1>9, <2>1 DEF Positive
<1>10. CASE TetoTokens[t] < blocos(r) + Rows(t)
  BY <1>1, <1>2, <1>3, <1>6, <1>8, <1>10 DEF Positive
<1>11. ASSUME NEW a \in 1..Rows(t) - 1, NEW b \in 1..Rows(t) - 1,
              Corner(c, t, a, b), blocos(r) = a * b
       PROVE  k <= n + Rows(t)
  BY <1>1, <1>2, <1>3, <1>5, <1>11, HalfOfCorner
<1> QED BY <1>4, <1>9, <1>10, <1>11, BisectedTokens

\* Half of a photo of every size, those that have no half of a side included.
LEMMA HalfCheaper ==
  ASSUME PublishedLimits, NEW f \in Size, NEW t \in Tiers
  PROVE  ShrinkingSaves(f, t)
<1>1. SUFFICES ASSUME NEW k \in TokensDeImagem(Half(f), t), NEW n \in TokensDeImagem(f, t)
               PROVE  k <= n + teto(LadoMaior[t])
  BY DEF ShrinkingSaves, Half
<1>2. teto(LadoMaior[t]) = Rows(t) /\ Rows(t) \in Nat
  BY Tiered DEF PublishedLimits, teto
<1>3. /\ f[1] \in Positive /\ f[2] \in Positive
      /\ Half(f) = <<Half(f)[1], Half(f)[2]>> /\ Half(f)[1] \in Nat /\ Half(f)[2] \in Nat
  BY Halves DEF Size, Half
<1>4. CASE Half(f)[1] > 0 /\ Half(f)[2] > 0
  <2>1. Half(f) \in Size
    BY <1>3, <1>4 DEF Size, Positive
  <2> QED BY <1>2, <2>1, HalfSaves
<1>5. CASE Half(f)[1] <= 0 \/ Half(f)[2] <= 0
  <2>1. k = 0
    BY <1>5 DEF TokensDeImagem
  <2>2. n \in Nat
    BY <1>3, TokensNat DEF Size, Positive
  <2> QED BY <1>2, <2>1, <2>2
<1> QED BY <1>3, <1>4, <1>5

-----------------------------------------------------------------------------
(* The account. *)

CostIInv == CostTypeOK /\ NeverUndercharged

LEMMA InitCost == CostInit => CostIInv
<1>1. 0 * Micro = 0 /\ 0 * (Micro - 1) = 0
  BY PricesAssumption
<1> QED BY <1>1 DEF CostInit, CostIInv, CostTypeOK, NeverUndercharged

LEMMA NextCost ==
  ASSUME CostIInv, [CostNext]_costVars
  PROVE  CostIInv'
<1> USE DEF CostIInv
<1>1. ASSUME NEW f \in Fotos, Orcar(f)
      PROVE  CostIInv'
  BY <1>1 DEF Orcar, CostTypeOK, NeverUndercharged
<1>2. ASSUME NEW m \in Modelos, SemPreco(m)
      PROVE  CostIInv'
  BY <1>2 DEF SemPreco, CostTypeOK, NeverUndercharged
<1>3. ASSUME NEW m \in Modelos, Chamar(m)
      PROVE  CostIInv'
  <2>1. m \in DOMAIN Tabela /\ foto \in Int \X Int /\ Tabela[m].tier \in Tiers
    BY <1>3, LedgerAssumption, PricesAssumption DEF Chamar, CostTypeOK, Preco
  <2>a. PICK k \in TokensDeImagem(foto, Tabela[m].tier), texto \in Textos,
             saida \in Saidas, taxa \in Taxas :
                \E cache \in Caches(texto) :
                   Cobrar(Tabela[m], k, texto, cache, saida, taxa)
    BY <1>3 DEF Chamar
  <2>2. PICK cache \in Caches(texto) : Cobrar(Tabela[m], k, texto, cache, saida, taxa)
    BY <2>a
  <2>3. k \in Nat /\ texto \in Nat /\ saida \in Nat /\ taxa \in Positive
    BY <2>1, TokensNat, LedgerAssumption DEF Positive
  <2> DEFINE custo == CustoEstimado(Tabela[m], k, texto, saida)
             c == EmCentavosBRL(custo, taxa)
  <2>4. custo \in Nat
    BY <2>1, <2>3, MeasuredIsEstimated
  <2>5. /\ devido' = devido + custo * taxa
        /\ cobrado' = cobrado + c
        /\ chamadas' = chamadas + 1
        /\ foto' = SemFoto
    BY <2>1, <2>2, <2>3, MeasuredIsEstimated DEF Cobrar
  <2>6. /\ c \in Nat
        /\ custo * taxa <= c * Micro
        /\ c * Micro <= custo * taxa + (Micro - 1)
    BY <2>3, <2>4, RoundedUp
  <2>7. custo * taxa \in Nat
    BY <2>3, <2>4, ProductNat DEF Positive
  <2> HIDE DEF custo, c
  <2>8. /\ (cobrado + c) * Micro = cobrado * Micro + c * Micro
        /\ (chamadas + 1) * (Micro - 1) = chamadas * (Micro - 1) + (Micro - 1)
        /\ cobrado * Micro \in Nat /\ c * Micro \in Nat
        /\ chamadas * (Micro - 1) \in Nat
    <3>1. Micro \in Nat /\ Micro - 1 \in Nat /\ cobrado \in Nat /\ chamadas \in Nat
      BY PricesAssumption DEF CostTypeOK
    <3>2. (chamadas + 1) * (Micro - 1) = chamadas * (Micro - 1) + 1 * (Micro - 1)
      BY <3>1, Distribute
    <3> QED BY <3>1, <3>2, <2>6, Distribute, ProductNat
  <2>9. NeverUndercharged'
    BY <2>5, <2>6, <2>7, <2>8, PricesAssumption DEF NeverUndercharged, CostTypeOK
  <2>10. CostTypeOK'
    BY <2>5, <2>6, <2>7 DEF CostTypeOK
  <2> QED BY <2>9, <2>10
<1>4. CASE UNCHANGED costVars
  BY <1>4 DEF costVars, CostTypeOK, NeverUndercharged
<1> QED BY <1>1, <1>2, <1>3, <1>4 DEF CostNext

\* The account is of the right types throughout.
LEMMA CostTyped == CostSpec => []CostIInv
BY InitCost, NextCost, PTL DEF CostSpec

\* No sequence of calls, at any prices and rates, is charged less than it was
\* estimated at, or a cent too much for any call.
THEOREM NothingLost == CostSpec => []NeverUndercharged
<1>1. CostIInv => NeverUndercharged
  BY DEF CostIInv
<1> QED BY <1>1, InitCost, NextCost, PTL DEF CostSpec

\* What is said of a photo before any call is made, at the limits of the API
\* that the code publishes and for photos of every size: it is priced within
\* the tier, the standard tier never costs more than the high one, and sending
\* half of each side never costs more than a row of blocks over the photo.
THEOREM PhotosPriced ==
  ASSUME PublishedLimits
  PROVE  CostSpec => []PhotoPriced
<1> DEFINE I == foto \in Fotos \cup {SemFoto}
<1>1. CostInit => I
  BY DEF CostInit
<1>2. I /\ [CostNext]_costVars => I'
  BY DEF CostNext, Orcar, Chamar, Cobrar, SemPreco, costVars
<1>3. I => PhotoPriced
  <2>1. SUFFICES ASSUME foto \in Fotos, foto[1] > 0, foto[2] > 0
                 PROVE  /\ \A t \in Tiers : PhotoFits(foto, t) /\ ShrinkingSaves(foto, t)
                        /\ StandardSaves(foto)
    BY DEF PhotoPriced
  <2>2. foto \in Size
    BY <2>1, LedgerAssumption DEF Size, Positive
  <2> QED BY <2>2, EveryPhotoFits, HalfCheaper, StandardCheaper
<1> QED BY <1>1, <1>2, <1>3, PTL DEF CostSpec

-----------------------------------------------------------------------------
(* Packets, level by level. *)

\* Sequences over a larger set.
LEMMA MoreSequences ==
  ASSUME NEW S, NEW R, S \subseteq R
  PROVE  Seq(S) \subseteq Seq(R)
OBVIOUS

\* Contents, bytes and nodes over a larger set of packets are more.
LEMMA MoreContents ==
  ASSUME NEW N, NEW M, N \subseteq M
  PROVE  Conteudos(N) \subseteq Conteudos(M) /\ Bytes(N) \subseteq Bytes(M)
<1>1. Conteudos(N) \subseteq Conteudos(M)
  BY Zenon DEF Conteudos
<1> DEFINE S == [de : Conteudos(N), parte : {1, 2}]
           R == [de : Conteudos(M), parte : {1, 2}]
<1>2. S \subseteq R
  BY <1>1
<1> HIDE DEF S, R
<1>3. Seq(S) \subseteq Seq(R)
  BY <1>2, MoreSequences
<1> QED BY <1>1, <1>3 DEF S, R, Bytes

LEMMA MoreNodes ==
  ASSUME NEW N, NEW M, N \subseteq M
  PROVE  Nos(N) \subseteq Nos(M)
<1> DEFINE A == Bytes(N)
           B == Bytes(M)
           C == Seq(N)
           D == Seq(M)
<1>1. A \subseteq B /\ C \subseteq D
  BY MoreContents, MoreSequences
<1> HIDE DEF A, B, C, D
<1>2. \A p : p \in Nos(N) => p \in Nos(M)
  BY <1>1 DEF Nos, A, B, C, D
<1> QED BY <1>2

\* The levels.
LevelStep(f, n) == IF n = 0 THEN {} ELSE Nos(f[n - 1])
Levels(f, k) == f = [n \in 0..k |-> LevelStep(f, n)]

\* There are levels as high as one likes.
LEMMA LevelsExist ==
  ASSUME NEW k \in Nat
  PROVE  \E f : Levels(f, k)
<1> DEFINE T == {n \in Nat : \E f : Levels(f, n)}
<1>1. 0 \in T
  <2> DEFINE f == [n \in 0..0 |-> {}]
  <2>1. f = [n \in 0..0 |-> LevelStep(f, n)]
    BY DEF LevelStep
  <2> QED BY <2>1 DEF Levels
<1>2. ASSUME NEW n \in T
      PROVE  n + 1 \in T
  <2>1. PICK f : Levels(f, n)
    OBVIOUS
  <2>2. n \in Nat /\ \A m \in 0..n : f[m] = LevelStep(f, m)
    BY <2>1 DEF Levels
  <2> DEFINE g == [m \in 0..n + 1 |-> IF m = n + 1 THEN Nos(f[n]) ELSE f[m]]
  <2>3. ASSUME NEW m \in 0..n + 1
        PROVE  g[m] = LevelStep(g, m)
    <3>1. CASE m = n + 1
      BY <2>2, <3>1 DEF LevelStep
    <3>2. CASE m # n + 1
      <4>1. m \in 0..n /\ (m # 0 => m - 1 \in 0..n)
        BY <2>2, <3>2
      <4> QED BY <2>2, <4>1 DEF LevelStep
    <3> QED BY <3>1, <3>2
  <2>4. Levels(g, n + 1)
    BY <2>3 DEF Levels
  <2> QED BY <2>2, <2>4
<1>3. T = Nat
  <2> HIDE DEF T
  <2> QED BY <1>1, <1>2, Induction DEF T
<1> QED BY <1>3

\* The first level is empty, and each is the nodes over the one before.
LEMMA LevelUnfolds ==
  /\ Altura \in Nat
  /\ Nivel[0] = {}
  /\ \A n \in Nat : n < Altura => Nivel[n + 1] = Nos(Nivel[n])
<1>1. Altura \in Nat
  BY TreesAssumption
<1>2. Nivel = CHOOSE f : Levels(f, Altura)
  BY DEF Nivel, Levels, LevelStep
<1>3. Levels(Nivel, Altura)
  BY <1>1, <1>2, LevelsExist, Zenon
<1>4. \A n \in 0..Altura : Nivel[n] = LevelStep(Nivel, n)
  BY <1>3 DEF Levels
<1> QED BY <1>1, <1>4 DEF LevelStep

\* Each level is in the next.
LEMMA LevelUp ==
  ASSUME NEW n \in Nat, n < Altura
  PROVE  Nivel[n] \subseteq Nivel[n + 1]
<1> DEFINE T == {m \in Nat : m < Altura => Nivel[m] \subseteq Nivel[m + 1]}
<1>1. 0 \in T
  BY LevelUnfolds
<1>2. ASSUME NEW m \in T
      PROVE  m + 1 \in T
  <2>1. SUFFICES ASSUME m + 1 < Altura
                 PROVE  Nivel[m + 1] \subseteq Nivel[m + 1 + 1]
    OBVIOUS
  <2>2. m < Altura /\ Nivel[m] \subseteq Nivel[m + 1] /\ Nivel[m + 1] = Nos(Nivel[m])
        /\ Nivel[m + 1 + 1] = Nos(Nivel[m + 1])
    BY <2>1, LevelUnfolds
  <2> QED BY <2>2, MoreNodes
<1>3. T = Nat
  <2> HIDE DEF T
  <2> QED BY <1>1, <1>2, Induction DEF T
<1> QED BY <1>3

\* Every packet is of some level, and is a node of the one below.
LEMMA LevelsWithin ==
  ASSUME NEW n \in Nat, n <= Altura
  PROVE  Nivel[n] \subseteq Pacotes
<1> DEFINE T == {m \in Nat : m <= Altura => Nivel[Altura - m] \subseteq Pacotes}
<1>1. 0 \in T
  BY LevelUnfolds DEF Pacotes
<1>2. ASSUME NEW m \in T
      PROVE  m + 1 \in T
  <2>1. SUFFICES ASSUME m + 1 <= Altura
                 PROVE  Nivel[Altura - (m + 1)] \subseteq Pacotes
    OBVIOUS
  <2> DEFINE k == Altura - (m + 1)
  <2>2. k \in Nat /\ k < Altura /\ k + 1 = Altura - m /\ Nivel[Altura - m] \subseteq Pacotes
    BY <2>1, LevelUnfolds
  <2> HIDE DEF k
  <2>3. Nivel[k] \subseteq Pacotes
    BY <2>2, LevelUp
  <2> QED BY <2>3 DEF k
<1>3. T = Nat
  <2> HIDE DEF T
  <2> QED BY <1>1, <1>2, Induction DEF T
<1> DEFINE k == Altura - n
<1>4. k \in Nat /\ Altura - k = n /\ k <= Altura
  BY LevelUnfolds
<1>5. k \in T
  <2> HIDE DEF T
  <2> QED BY <1>3, <1>4
<1> HIDE DEF k
<1> QED BY <1>4, <1>5

-----------------------------------------------------------------------------
(* The nodes of a tree. *)

\* The fields of a node.
LEMMA NodeFields ==
  ASSUME NEW N, NEW p \in Nos(N)
  PROVE  /\ p.cls \in Classes /\ p.cons \in BOOLEAN /\ p.tag \in Etiquetas
         /\ p.indef \in BOOLEAN
         /\ p.porte \in Nat /\ p.data \in Bytes(N) /\ p.filhos \in Seq(N)
         /\ p = Packet(p.cls, p.cons, p.tag, p.indef, p.porte, p.data, p.filhos)
<1> DEFINE B == Bytes(N)
           Q == Seq(N)
<1>1. p \in [cls : Classes, cons : BOOLEAN, tag : Etiquetas, indef : BOOLEAN, porte : Nat,
             data : B, filhos : Q]
  BY DEF Nos
<1> HIDE DEF B, Q
<1>2. /\ p.cls \in Classes /\ p.cons \in BOOLEAN /\ p.tag \in Etiquetas
      /\ p.indef \in BOOLEAN
      /\ p.porte \in Nat /\ p.data \in B /\ p.filhos \in Q
      /\ p = Packet(p.cls, p.cons, p.tag, p.indef, p.porte, p.data, p.filhos)
  BY <1>1 DEF Packet
<1> QED BY <1>2 DEF B, Q

\* The children of a node, in what f makes of them.
DosFilhos(f, p) == [i \in DOMAIN p.filhos |-> f[p.filhos[i]]]

\* Children of a node over N are in N; what functions that agree on N make of
\* them is the same, and of as many.
LEMMA ChildrenIn ==
  ASSUME NEW N, NEW p \in Nos(N)
  PROVE  /\ DOMAIN p.filhos = 1..Len(p.filhos) /\ Len(p.filhos) \in Nat
         /\ \A i \in DOMAIN p.filhos : p.filhos[i] \in N
BY NodeFields

LEMMA ChildrenAgree ==
  ASSUME NEW N, NEW p \in Nos(N), NEW g, NEW h, \A q \in N : g[q] = h[q]
  PROVE  DosFilhos(g, p) = DosFilhos(h, p)
<1>1. \A i \in DOMAIN p.filhos : g[p.filhos[i]] = h[p.filhos[i]]
  BY ChildrenIn
<1> QED BY <1>1 DEF DosFilhos

LEMMA ChildrenTyped ==
  ASSUME NEW N, NEW p \in Nos(N), NEW g, NEW V, \A q \in N : g[q] \in V
  PROVE  /\ DosFilhos(g, p) \in Seq(V)
         /\ Len(DosFilhos(g, p)) = Len(p.filhos)
         /\ \A i \in 1..Len(p.filhos) : DosFilhos(g, p)[i] = g[p.filhos[i]]
<1>1. /\ DOMAIN p.filhos = 1..Len(p.filhos) /\ Len(p.filhos) \in Nat
      /\ \A i \in DOMAIN p.filhos : g[p.filhos[i]] \in V
  BY ChildrenIn
<1> DEFINE n == Len(p.filhos)
<1>2. DosFilhos(g, p) = [i \in 1..n |-> g[p.filhos[i]]]
  BY <1>1 DEF DosFilhos
<1>3. n \in Nat /\ \A i \in 1..n : g[p.filhos[i]] \in V
  BY <1>1
<1> HIDE DEF n
<1>4. DosFilhos(g, p) \in Seq(V) /\ Len(DosFilhos(g, p)) = n
  BY <1>2, <1>3
<1> QED BY <1>2, <1>4 DEF n

\* coletarConteudo.
ConteudoStep(f, p) == IF p.filhos = <<>> THEN p.data ELSE FlattenSeq(DosFilhos(f, p))
ConteudoRec(f, S) == f = [p \in S |-> ConteudoStep(f, p)]

\* The first recursion on packets is made level by level.
LEMMA ConteudoExists == \E f : ConteudoRec(f, Pacotes)
<1> DEFINE T == {n \in Nat : n <= Altura => \E f : ConteudoRec(f, Nivel[n])}
<1>1. 0 \in T
  <2> DEFINE f == [p \in {} |-> ConteudoStep(<<>>, p)]
  <2>1. f = [p \in {} |-> ConteudoStep(f, p)]
    OBVIOUS
  <2>2. ConteudoRec(f, Nivel[0])
    BY <2>1, LevelUnfolds DEF ConteudoRec
  <2> QED BY <2>2
<1>2. ASSUME NEW n \in T
      PROVE  n + 1 \in T
  <2>1. SUFFICES ASSUME n + 1 <= Altura
                 PROVE  \E f : ConteudoRec(f, Nivel[n + 1])
    OBVIOUS
  <2>2. n \in Nat /\ n <= Altura /\ n < Altura
    BY <2>1, LevelUnfolds
  <2>3. PICK f : ConteudoRec(f, Nivel[n])
    BY <2>2
  <2> DEFINE g == [p \in Nivel[n + 1] |-> ConteudoStep(f, p)]
  <2>4. Nivel[n + 1] = Nos(Nivel[n]) /\ Nivel[n] \subseteq Nivel[n + 1]
    BY <2>2, LevelUnfolds, LevelUp
  <2>5. \A p \in Nivel[n] : f[p] = g[p]
    BY <2>3, <2>4, Zenon DEF ConteudoRec
  <2> HIDE DEF g
  <2>6. \A p \in Nivel[n + 1] : ConteudoStep(f, p) = ConteudoStep(g, p)
    BY <2>4, <2>5, ChildrenAgree DEF ConteudoStep
  <2>7. ConteudoRec(g, Nivel[n + 1])
    BY <2>6, Zenon DEF g, ConteudoRec
  <2> QED BY <2>7
<1>3. T = Nat
  <2> HIDE DEF T
  <2> QED BY <1>1, <1>2, Induction DEF T
<1> QED BY <1>3, LevelUnfolds DEF Pacotes

LEMMA ConteudoUnfolds ==
  \A p \in Pacotes : coletarConteudo[p] = ConteudoStep(coletarConteudo, p)
<1>1. coletarConteudo = CHOOSE f : ConteudoRec(f, Pacotes)
  BY DEF coletarConteudo, ConteudoRec, ConteudoStep, DosFilhos
<1>2. ConteudoRec(coletarConteudo, Pacotes)
  BY <1>1, ConteudoExists, Zenon
<1> QED BY <1>2, Zenon DEF ConteudoRec

\* p is a packet whose children, and the packets in whose contents, are in N.
Below(p, N) ==
    /\ p \in Pacotes /\ N \subseteq Pacotes
    /\ p \in Nos(N) /\ coletarConteudo[p] \in Bytes(N)

Pedacos(N) == [de : Conteudos(N), parte : {1, 2}]

\* What is collected below a node over N is bytes over N.
LEMMA ConteudoTyped ==
  ASSUME NEW N, NEW p \in Pacotes, p \in Nos(N),
         \A q \in N : coletarConteudo[q] \in Bytes(N)
  PROVE  coletarConteudo[p] \in Bytes(N)
<1> DEFINE C == Pedacos(N)
           s == DosFilhos(coletarConteudo, p)
<1>1. Bytes(N) = Seq(C)
  BY DEF Bytes, Pedacos
<1>2. s \in Seq(Seq(C))
  BY <1>1, ChildrenTyped
<1>3. FlattenSeq(s) \in Seq(C)
  <2> HIDE DEF C, s
  <2> QED BY <1>2, FlattenElements
<1>4. p.data \in Bytes(N)
  BY NodeFields
<1>5. coletarConteudo[p] = IF p.filhos = <<>> THEN p.data ELSE FlattenSeq(s)
  BY ConteudoUnfolds, Zenon DEF ConteudoStep
<1> HIDE DEF C, s
<1> QED BY <1>1, <1>3, <1>4, <1>5

\* The packets of each level have the level under it below them.
LEMMA LevelBelow ==
  ASSUME NEW n \in Nat, n < Altura
  PROVE  /\ Nivel[n] \subseteq Pacotes
         /\ Nivel[n + 1] = Nos(Nivel[n])
         /\ \A p \in Nivel[n + 1] : Below(p, Nivel[n])
<1> DEFINE P(m) == \A p \in Nivel[m + 1] : coletarConteudo[p] \in Bytes(Nivel[m])
           T == {m \in Nat : m < Altura => P(m)}
<1>1. ASSUME NEW m \in Nat, m < Altura
      PROVE  /\ Nivel[m] \subseteq Pacotes /\ Nivel[m + 1] \subseteq Pacotes
             /\ Nivel[m + 1] = Nos(Nivel[m])
  <2>1. m + 1 \in Nat /\ m + 1 <= Altura /\ m <= Altura
    BY <1>1, LevelUnfolds
  <2> QED BY <1>1, <2>1, LevelsWithin, LevelUnfolds
<1>2. 0 \in T
  <2>1. SUFFICES ASSUME 0 < Altura, NEW p \in Nivel[0 + 1]
                 PROVE  coletarConteudo[p] \in Bytes(Nivel[0])
    OBVIOUS
  <2> DEFINE N == Nivel[0]
  <2>2. N = {} /\ p \in Nos(N) /\ p \in Pacotes
    BY <1>1, <2>1, LevelUnfolds
  <2> HIDE DEF N
  <2>3. coletarConteudo[p] \in Bytes(N)
    BY <2>2, ConteudoTyped
  <2> QED BY <2>3 DEF N
<1>3. ASSUME NEW m \in T
      PROVE  m + 1 \in T
  <2> DEFINE k == m + 1
             N == Nivel[k]
             M == Nivel[m]
  <2>1. SUFFICES ASSUME k < Altura, NEW p \in Nivel[k + 1]
                 PROVE  coletarConteudo[p] \in Bytes(Nivel[k])
    OBVIOUS
  <2>2. m \in Nat /\ m < Altura /\ k \in Nat
    BY <2>1, LevelUnfolds
  <2>3. p \in Nos(N) /\ p \in Pacotes
    <3> HIDE DEF k
    <3> QED BY <1>1, <2>1, <2>2
  <2>4. \A q \in N : coletarConteudo[q] \in Bytes(M)
    BY <2>2
  <2>5. Bytes(M) \subseteq Bytes(N)
    BY <2>2, LevelUp, MoreContents
  <2>6. \A q \in N : coletarConteudo[q] \in Bytes(N)
    BY <2>4, <2>5, Zenon
  <2> HIDE DEF N
  <2>7. coletarConteudo[p] \in Bytes(N)
    BY <2>3, <2>6, ConteudoTyped
  <2> QED BY <2>7 DEF N
<1>4. T = Nat
  <2> HIDE DEF T
  <2> QED BY <1>2, <1>3, Induction DEF T
<1>5. P(n)
  BY <1>4
<1> HIDE DEF T
<1> QED BY <1>1, <1>5 DEF Below

-----------------------------------------------------------------------------
(* The functions of packets, unfolded. *)

\* A content is opaque, or is a packet in N.
EhPacote(c) == c.tipo = "asn1"

LEMMA ContentIn ==
  ASSUME NEW N, NEW c \in Conteudos(N), EhPacote(c)
  PROVE  c.no \in N /\ c = Asn1(c.no)
BY DEF Conteudos, EhPacote, Asn1

\* Bytes that are whole are one content, twice over.
LEMMA WholeContent ==
  ASSUME NEW N, NEW b \in Bytes(N), IsWhole(b)
  PROVE  b[1].de \in Conteudos(N) /\ b = Whole(b[1].de)
<1> DEFINE C == Conteudos(N)
           R == [de : C, parte : {1, 2}]
<1>1. b \in Seq(R) /\ Len(b) = 2 /\ b = Whole(b[1].de)
  BY DEF Bytes, IsWhole
<1>2. b[1] \in R
  <2> HIDE DEF R
  <2> QED BY <1>1
<1>3. b[1].de \in C
  <2> HIDE DEF C
  <2> QED BY <1>2
<1> QED BY <1>1, <1>3

\* One step of each of the functions of packets, for f that knows those below.
DerStep(f, p) ==
    IF p.cons /\ p.cls = "univ" /\ p.tag \in {"octet", "bit"}
    THEN octetNormalizado(p, coletarConteudo[p], f)
    ELSE IF p.cons /\ p.cls = "ctx" /\ soChunksDeOctet(p)
    THEN Encode(p, FALSE, coletarConteudo[p], <<>>)
    ELSE IF p.filhos = <<>> /\ p.cls = "univ" /\ ~p.cons /\ p.tag = "octet"
    THEN octetNormalizado(p, p.data, f)
    ELSE Encode(p, p.cons, p.data, DosFilhos(f, p))
EstritoStep(f, p) ==
    /\ ~p.indef
    /\ ~(p.cons /\ p.cls = "univ" /\ p.tag \in {"octet", "bit"})
    /\ p.cls = "ctx" => (p.cons <=> p.tag = "explicito")
    /\ \A i \in DOMAIN p.filhos : f[p.filhos[i]]
DentroStep(f, p) ==
    /\ Estrito[p]
    /\ p.data # <<>> => /\ IsWhole(p.data)
                        /\ LET c == p.data[1].de
                           IN  IF c.tipo = "asn1" THEN f[c.no]
                               ELSE c.acaso # "cortado"
    /\ \A i \in DOMAIN p.filhos : f[p.filhos[i]]
CanonStep(f, p) ==
    IF p.cls = "univ" /\ p.tag = "octet"
    THEN Encode(p, FALSE, CanonConteudo(coletarConteudo[p], f), <<>>)
    ELSE IF p.tag = "cifrado"
    THEN Encode(p, FALSE, coletarConteudo[p], <<>>)
    ELSE Encode(p, p.cons, p.data, DosFilhos(f, p))
CegoStep(f, p) ==
    \/ p.tag = "cifrado" /\ Len(p.filhos) = 1
    \/ p.tag = "bit" /\ p.cons
    \/ /\ p.tag = "octet" /\ IsWhole(coletarConteudo[p])
       /\ LET c == coletarConteudo[p][1].de
          IN  MalJulgado(c) \/ (c.tipo = "asn1" /\ f[c.no])
    \/ p.tag # "octet" /\ \E i \in DOMAIN p.filhos : f[p.filhos[i]]
RegularStep(f, p) ==
    /\ IF p.cons THEN p.data = <<>> ELSE p.filhos = <<>>
    /\ \/ /\ p.cls = "univ" /\ p.tag = "octet" /\ EmChunks(p, "octet")
          /\ IsWhole(coletarConteudo[p])
          /\ LET c == coletarConteudo[p][1].de
             IN  IF c.tipo = "asn1" THEN f[c.no] ELSE c.acaso # "cortado"
       \/ /\ p.cls = "ctx" /\ p.tag = "cifrado" /\ EmChunks(p, "octet")
          /\ Opaca(coletarConteudo[p])
       \/ /\ p.cls = "ctx" /\ p.tag = "explicito" /\ p.cons /\ Len(p.filhos) = 1
          /\ p.filhos[1].cls = "univ" /\ f[p.filhos[1]]
       \/ /\ p.cls = "univ" /\ p.tag \notin {"octet", "cifrado", "explicito"}
          /\ IF ~p.cons THEN Opaca(p.data)
             ELSE IF p.tag = "bit" THEN EmChunks(p, "bit")
             ELSE \A i \in DOMAIN p.filhos : f[p.filhos[i]]

Passo(k, f, p) ==
    IF k = 1 THEN DerStep(f, p) ELSE IF k = 2 THEN EstritoStep(f, p)
    ELSE IF k = 3 THEN DentroStep(f, p) ELSE IF k = 4 THEN CanonStep(f, p)
    ELSE IF k = 5 THEN CegoStep(f, p) ELSE RegularStep(f, p)

\* Each step depends on what the function does below alone.
LEMMA StepsAgree ==
  ASSUME NEW k, NEW N, NEW p, Below(p, N), NEW f, NEW g, \A q \in N : f[q] = g[q]
  PROVE  Passo(k, f, p) = Passo(k, g, p)
<1>1. /\ p \in Nos(N) /\ coletarConteudo[p] \in Bytes(N) /\ p.data \in Bytes(N)
  BY NodeFields DEF Below
<1>2. DosFilhos(f, p) = DosFilhos(g, p)
  BY <1>1, ChildrenAgree
<1>3. \A i \in DOMAIN p.filhos : f[p.filhos[i]] = g[p.filhos[i]]
  BY <1>1, ChildrenIn
<1>4. \A b \in Bytes(N) : IsWhole(b) /\ EhPacote(b[1].de) => f[b[1].de.no] = g[b[1].de.no]
  BY WholeContent, ContentIn
<1>5. Len(p.filhos) = 1 => f[p.filhos[1]] = g[p.filhos[1]]
  BY <1>1, <1>3, ChildrenIn
<1>6. DerStep(f, p) = DerStep(g, p)
  <2>1. ASSUME NEW b \in Bytes(N)
        PROVE  octetNormalizado(p, b, f) = octetNormalizado(p, b, g)
    <3>1. ~ParseiaInteiro(b) \/ IsWhole(b)
      BY DEF ParseiaInteiro
    <3>2. IsWhole(b) => Reescrito(b[1].de, f) = Reescrito(b[1].de, g)
      BY <1>4, Zenon DEF Reescrito, EhPacote
    <3> QED BY <3>1, <3>2, Zenon DEF octetNormalizado
  <2> QED BY <1>1, <1>2, <2>1, Zenon DEF DerStep
<1>7. EstritoStep(f, p) = EstritoStep(g, p)
  BY <1>3, Zenon DEF EstritoStep
<1>8. DentroStep(f, p) = DentroStep(g, p)
  BY <1>1, <1>3, <1>4, Zenon DEF DentroStep, EhPacote
<1>9. CanonStep(f, p) = CanonStep(g, p)
  <2>1. CanonConteudo(coletarConteudo[p], f) = CanonConteudo(coletarConteudo[p], g)
    BY <1>1, <1>4, Zenon DEF CanonConteudo, EhPacote
  <2> QED BY <1>2, <2>1, Zenon DEF CanonStep
<1>10. CegoStep(f, p) = CegoStep(g, p)
  BY <1>1, <1>3, <1>4, Zenon DEF CegoStep, EhPacote
<1>11. RegularStep(f, p) = RegularStep(g, p)
  BY <1>1, <1>3, <1>4, <1>5, Zenon DEF RegularStep, EhPacote
<1> QED BY <1>6, <1>7, <1>8, <1>9, <1>10, <1>11, Zenon DEF Passo

Recursao(k, f, S) == f = [p \in S |-> Passo(k, f, p)]

\* So that there is such a function.
LEMMA RecursionExists ==
  ASSUME NEW k
  PROVE  \E f : Recursao(k, f, Pacotes)
<1> DEFINE T == {n \in Nat : n <= Altura => \E f : Recursao(k, f, Nivel[n])}
<1>1. 0 \in T
  <2> DEFINE f == [p \in {} |-> Passo(k, <<>>, p)]
  <2>1. f = [p \in {} |-> Passo(k, f, p)]
    OBVIOUS
  <2>2. Recursao(k, f, Nivel[0])
    BY <2>1, LevelUnfolds DEF Recursao
  <2> QED BY <2>2
<1>2. ASSUME NEW n \in T
      PROVE  n + 1 \in T
  <2>1. SUFFICES ASSUME n + 1 <= Altura
                 PROVE  \E f : Recursao(k, f, Nivel[n + 1])
    OBVIOUS
  <2>2. n \in Nat /\ n <= Altura /\ n < Altura
    BY <2>1, LevelUnfolds
  <2>3. PICK f : Recursao(k, f, Nivel[n])
    BY <2>2
  <2> DEFINE g == [p \in Nivel[n + 1] |-> Passo(k, f, p)]
  <2>4. Nivel[n] \subseteq Nivel[n + 1] /\ \A p \in Nivel[n + 1] : Below(p, Nivel[n])
    BY <2>2, LevelUp, LevelBelow
  <2>5. \A p \in Nivel[n] : f[p] = g[p]
    BY <2>3, <2>4, Zenon DEF Recursao
  <2> HIDE DEF g
  <2>6. \A p \in Nivel[n + 1] : Passo(k, f, p) = Passo(k, g, p)
    BY <2>4, <2>5, StepsAgree
  <2>7. Recursao(k, g, Nivel[n + 1])
    BY <2>6, Zenon DEF g, Recursao
  <2> QED BY <2>7
<1>3. T = Nat
  <2> HIDE DEF T
  <2> QED BY <1>1, <1>2, Induction DEF T
<1> QED BY <1>3, LevelUnfolds DEF Pacotes

LEMMA Recursion ==
  ASSUME NEW k, NEW f, f = CHOOSE g : Recursao(k, g, Pacotes)
  PROVE  \A p \in Pacotes : f[p] = Passo(k, f, p)
<1>1. Recursao(k, f, Pacotes)
  BY RecursionExists, Zenon
<1> QED BY <1>1, Zenon DEF Recursao

\* The functions of packets, unfolded.
LEMMA Unfolded ==
  ASSUME NEW p \in Pacotes
  PROVE  /\ berParaDER[p] = DerStep(berParaDER, p)
         /\ Estrito[p] = EstritoStep(Estrito, p)
         /\ EstritoDentro[p] = DentroStep(EstritoDentro, p)
         /\ Canon[p] = CanonStep(Canon, p)
         /\ PontoCego[p] = CegoStep(PontoCego, p)
         /\ Regular[p] = RegularStep(Regular, p)
<1>1. berParaDER = CHOOSE g : Recursao(1, g, Pacotes)
  BY DEF berParaDER, Recursao, Passo, DerStep, DosFilhos
<1>2. Estrito = CHOOSE g : Recursao(2, g, Pacotes)
  BY DEF Estrito, Recursao, Passo, EstritoStep
<1>3. EstritoDentro = CHOOSE g : Recursao(3, g, Pacotes)
  BY DEF EstritoDentro, Recursao, Passo, DentroStep
<1>4. Canon = CHOOSE g : Recursao(4, g, Pacotes)
  BY DEF Canon, Recursao, Passo, CanonStep, DosFilhos
<1>5. PontoCego = CHOOSE g : Recursao(5, g, Pacotes)
  BY DEF PontoCego, Recursao, Passo, CegoStep
<1>6. Regular = CHOOSE g : Recursao(6, g, Pacotes)
  BY DEF Regular, Recursao, Passo, RegularStep
<1> QED BY <1>1, <1>2, <1>3, <1>4, <1>5, <1>6, Recursion DEF Passo

-----------------------------------------------------------------------------
(* What rewriting makes is a packet. *)

\* What is made of bytes and contents over N is over N.
LEMMA WholeTyped ==
  ASSUME NEW N, NEW c \in Conteudos(N)
  PROVE  /\ Whole(c) \in Bytes(N) /\ IsWhole(Whole(c)) /\ Whole(c)[1].de = c
         /\ Whole(c) # <<>>
<1> DEFINE C == Conteudos(N)
           R == [de : C, parte : {1, 2}]
<1>1. [de |-> c, parte |-> 1] \in R /\ [de |-> c, parte |-> 2] \in R
  OBVIOUS
<1>2. Whole(c) = <<[de |-> c, parte |-> 1], [de |-> c, parte |-> 2]>>
  BY DEF Whole, Piece
<1>3. Whole(c) \in Seq(R) /\ Len(Whole(c)) = 2 /\ Whole(c)[1] = [de |-> c, parte |-> 1]
  <2> HIDE DEF R
  <2> QED BY <1>1, <1>2
<1>4. Whole(c)[1].de = c
  BY <1>3
<1> QED BY <1>3, <1>4 DEF Bytes, IsWhole

\* No bytes, and no children.
LEMMA Empty ==
  ASSUME NEW N
  PROVE  <<>> \in Bytes(N) /\ <<>> \in Seq(N) /\ ~IsWhole(<<>>)
<1>1. \A S : <<>> \in Seq(S)
  OBVIOUS
<1>2. Len(<<>>) # 2
  OBVIOUS
<1> QED BY <1>1, <1>2 DEF Bytes, IsWhole

\* A content rewritten, an octet string rewritten, a packet written again.
LEMMA RewrittenTyped ==
  ASSUME NEW N, NEW c \in Conteudos(N), NEW f, \A q \in N : f[q] \in N
  PROVE  Reescrito(c, f) \in Conteudos(N)
<1>1. CASE EhPacote(c)
  <2>1. f[c.no] \in N
    BY <1>1, ContentIn
  <2>2. Asn1(f[c.no]) \in Conteudos(N)
    BY <2>1 DEF Asn1, Conteudos
  <2> QED BY <1>1, <2>2 DEF Reescrito, EhPacote
<1>2. CASE ~EhPacote(c)
  <2>1. Corrompido(c) \in Conteudos(N)
    <3> DEFINE A == {"opaco"}
               R == [tipo : A, id : STRING, acaso : Acasos]
    <3>1. c \in R
      BY <1>2 DEF Conteudos, EhPacote
    <3>2. "cortado" \in Acasos
      BY DEF Acasos
    <3>3. Corrompido(c) \in R
      <4> HIDE DEF A
      <4> QED BY <3>1, <3>2 DEF Corrompido
    <3> QED BY <3>3 DEF Conteudos
  <2> QED BY <1>2, <2>1 DEF Reescrito, EhPacote
<1> QED BY <1>1, <1>2

LEMMA OctetTyped ==
  ASSUME NEW N, NEW p \in Nos(N), NEW b \in Bytes(N), NEW f, \A q \in N : f[q] \in N
  PROVE  octetNormalizado(p, b, f) \in Nos(N)
<1> DEFINE x == IF derEstritoValido(b) \/ ~ParseiaInteiro(b) THEN b
                ELSE Whole(Reescrito(b[1].de, f))
<1>1. x \in Bytes(N)
  <2>1. ParseiaInteiro(b) => IsWhole(b)
    BY DEF ParseiaInteiro
  <2>2. IsWhole(b) => Whole(Reescrito(b[1].de, f)) \in Bytes(N)
    BY WholeContent, WholeTyped, RewrittenTyped
  <2> QED BY <2>1, <2>2
<1>2. octetNormalizado(p, b, f) = Packet(p.cls, FALSE, "octet", FALSE, p.porte, x, <<>>)
  BY DEF octetNormalizado
<1> HIDE DEF x
<1>3. p.cls \in Classes /\ p.porte \in Nat /\ <<>> \in Seq(N)
  BY NodeFields, Empty
<1>4. "octet" \in Etiquetas
  BY DEF Etiquetas
<1> DEFINE B == Bytes(N)
           Q == Seq(N)
<1>5. Nos(N) = [cls : Classes, cons : BOOLEAN, tag : Etiquetas, indef : BOOLEAN,
                porte : Nat, data : B, filhos : Q]
  BY DEF Nos
<1>6. x \in B /\ <<>> \in Q
  BY <1>1, <1>3
<1> HIDE DEF B, Q
<1> QED BY <1>2, <1>3, <1>4, <1>5, <1>6 DEF Packet

LEMMA EncodeTyped ==
  ASSUME NEW N, NEW p \in Nos(N), NEW b \in BOOLEAN, NEW d \in Bytes(N), NEW s \in Seq(N)
  PROVE  /\ Encode(p, b, d, s) \in Nos(N)
         /\ Encode(p, b, d, s).cls = p.cls /\ Encode(p, b, d, s).cons = b
         /\ Encode(p, b, d, s).tag = p.tag /\ Encode(p, b, d, s).indef = FALSE
         /\ Encode(p, b, d, s).porte = p.porte /\ Encode(p, b, d, s).data = d
         /\ Encode(p, b, d, s).filhos = s
<1>1. p.cls \in Classes /\ p.porte \in Nat /\ p.tag \in Etiquetas
  BY NodeFields
<1> DEFINE B == Bytes(N)
           Q == Seq(N)
<1>2. Nos(N) = [cls : Classes, cons : BOOLEAN, tag : Etiquetas, indef : BOOLEAN,
                porte : Nat, data : B, filhos : Q]
  BY DEF Nos
<1>3. d \in B /\ s \in Q
  OBVIOUS
<1> HIDE DEF B, Q
<1> QED BY <1>1, <1>2, <1>3 DEF Encode, Packet

LEMMA PrimitiveTyped ==
  ASSUME NEW N, NEW p \in Nos(N), NEW d \in Bytes(N)
  PROVE  /\ Encode(p, FALSE, d, <<>>) \in Nos(N)
         /\ Encode(p, FALSE, d, <<>>).cls = p.cls /\ Encode(p, FALSE, d, <<>>).cons = FALSE
         /\ Encode(p, FALSE, d, <<>>).tag = p.tag /\ Encode(p, FALSE, d, <<>>).indef = FALSE
         /\ Encode(p, FALSE, d, <<>>).porte = p.porte /\ Encode(p, FALSE, d, <<>>).data = d
         /\ Encode(p, FALSE, d, <<>>).filhos = <<>>
<1>1. p.cls \in Classes /\ p.porte \in Nat /\ p.tag \in Etiquetas /\ <<>> \in Seq(N)
  BY NodeFields, Empty
<1> DEFINE B == Bytes(N)
           Q == Seq(N)
<1>2. Nos(N) = [cls : Classes, cons : BOOLEAN, tag : Etiquetas, indef : BOOLEAN,
                porte : Nat, data : B, filhos : Q]
  BY DEF Nos
<1>3. d \in B /\ <<>> \in Q
  BY <1>1
<1> HIDE DEF B, Q
<1> QED BY <1>1, <1>2, <1>3 DEF Encode, Packet

\* The rewriting stays over the same set.
LEMMA DerTyped ==
  ASSUME NEW N, NEW p, Below(p, N), \A q \in N : berParaDER[q] \in N
  PROVE  berParaDER[p] \in Nos(N)
<1>1. /\ p \in Nos(N) /\ p \in Pacotes
      /\ coletarConteudo[p] \in Bytes(N) /\ p.data \in Bytes(N)
      /\ p.cons \in BOOLEAN
  BY NodeFields DEF Below
<1>2. DosFilhos(berParaDER, p) \in Seq(N)
  BY <1>1, ChildrenTyped
<1>3. /\ octetNormalizado(p, coletarConteudo[p], berParaDER) \in Nos(N)
      /\ octetNormalizado(p, p.data, berParaDER) \in Nos(N)
  BY <1>1, OctetTyped
<1>4. /\ Encode(p, FALSE, coletarConteudo[p], <<>>) \in Nos(N)
      /\ Encode(p, p.cons, p.data, DosFilhos(berParaDER, p)) \in Nos(N)
  BY <1>1, <1>2, EncodeTyped, PrimitiveTyped
<1>5. berParaDER[p] = DerStep(berParaDER, p)
  BY <1>1, Unfolded
<1> QED BY <1>3, <1>4, <1>5, Zenon DEF DerStep

\* A set of packets with all the nodes over it, closed under the rewriting.
Layer(N) ==
    /\ N \subseteq Pacotes
    /\ \A p \in Nos(N) : Below(p, N)
    /\ \A q \in N : berParaDER[q] \in N

\* Every level but the last is one.
LEMMA LevelLayer ==
  ASSUME NEW n \in Nat, n < Altura
  PROVE  Layer(Nivel[n])
<1> DEFINE T == {m \in Nat : m < Altura => Layer(Nivel[m])}
<1>1. 0 \in T
  <2>1. SUFFICES ASSUME 0 < Altura
                 PROVE  Layer(Nivel[0])
    OBVIOUS
  <2>2. Nivel[0] = {} /\ \A p \in Nos(Nivel[0]) : Below(p, Nivel[0])
    BY <2>1, LevelBelow, LevelUnfolds
  <2> QED BY <2>2 DEF Layer
<1>2. ASSUME NEW m \in T
      PROVE  m + 1 \in T
  <2> DEFINE k == m + 1
             N == Nivel[m]
             M == Nivel[k]
  <2>1. SUFFICES ASSUME k < Altura
                 PROVE  Layer(M)
    OBVIOUS
  <2>2. m \in Nat /\ m < Altura /\ k \in Nat /\ Layer(N)
    BY <2>1, LevelUnfolds
  <2>3. M = Nos(N)
    BY <2>2, LevelBelow
  <2>4. M \subseteq Pacotes /\ \A p \in Nos(M) : Below(p, M)
    <3> HIDE DEF k
    <3> QED BY <2>1, <2>2, LevelBelow
  <2>5. \A q \in M : berParaDER[q] \in M
    BY <2>2, <2>3, DerTyped DEF Layer
  <2> QED BY <2>4, <2>5 DEF Layer
<1>3. T = Nat
  <2> HIDE DEF T
  <2> QED BY <1>1, <1>2, Induction DEF T
<1> QED BY <1>3

\* What holds of a packet over a layer where it holds, holds of every packet.
LEMMA LayerInduction ==
  ASSUME NEW T,
         \A N, p : Layer(N) /\ p \in Nos(N) /\ N \subseteq T => p \in T
  PROVE  Pacotes \subseteq T
<1> DEFINE K == {n \in Nat : n <= Altura => Nivel[n] \subseteq T}
<1>1. 0 \in K
  BY LevelUnfolds
<1>2. ASSUME NEW n \in K
      PROVE  n + 1 \in K
  <2>1. SUFFICES ASSUME n + 1 <= Altura
                 PROVE  Nivel[n + 1] \subseteq T
    OBVIOUS
  <2>2. n \in Nat /\ n < Altura /\ Nivel[n] \subseteq T
    BY <2>1, LevelUnfolds
  <2>3. Layer(Nivel[n]) /\ Nivel[n + 1] = Nos(Nivel[n])
    BY <2>2, LevelLayer, LevelBelow
  <2> QED BY <2>2, <2>3, Zenon
<1>3. K = Nat
  <2> HIDE DEF K
  <2> QED BY <1>1, <1>2, Induction DEF K
<1> QED BY <1>3, LevelUnfolds DEF Pacotes

\* Every packet is in such a layer.
LEMMA InLayer ==
  ASSUME NEW p \in Pacotes
  PROVE  \E N : Layer(N) /\ p \in Nos(N)
<1> DEFINE T == {q \in Pacotes : \E N : Layer(N) /\ q \in Nos(N)}
<1>1. \A N, q : Layer(N) /\ q \in Nos(N) /\ N \subseteq T => q \in T
  BY DEF Layer, Below
<1>2. Pacotes \subseteq T
  <2> HIDE DEF T
  <2> QED BY <1>1, LayerInduction
<1> QED BY <1>2

\* Rewriting a packet makes a packet.
LEMMA DerPacket ==
  ASSUME NEW p \in Pacotes
  PROVE  berParaDER[p] \in Pacotes
<1>1. PICK N : Layer(N) /\ p \in Nos(N)
  BY InLayer
<1>2. berParaDER[p] \in Nos(N)
  BY <1>1, DerTyped DEF Layer
<1> QED BY <1>1, <1>2 DEF Layer, Below

-----------------------------------------------------------------------------
(* What the rewriting sees of a packet. *)

\* What the strings of a packet say of it.
Cadeia(p) == p.cls = "univ" /\ p.tag = "octet"
Cifrada(p) == p.cls = "ctx" /\ p.tag = "cifrado"
Caixa(p) ==
    /\ p.cls \in {"univ", "ctx"} /\ p.tag \notin {"octet", "cifrado"}
    /\ p.cls = "ctx" => p.tag = "explicito" /\ p.cons /\ Len(p.filhos) = 1
    /\ p.cls = "univ" => p.tag # "explicito" /\ (p.cons => p.tag # "bit")
Junta(c, f) == IF EhPacote(c) THEN f[c.no] ELSE c.acaso # "cortado"

\* A packet made primitive.
Primitivo(p, b) == Encode(p, FALSE, b, <<>>)

\* It keeps its class and tag, and has no children.
LEMMA PrimitiveOne ==
  ASSUME NEW N, Layer(N), NEW p \in Nos(N), NEW b \in Bytes(N), NEW r, r = Primitivo(p, b)
  PROVE  /\ r \in Nos(N) /\ r \in Pacotes /\ coletarConteudo[r] = b
         /\ r.cls = p.cls /\ r.tag = p.tag /\ ~r.cons /\ ~r.indef /\ r.porte = p.porte
         /\ r.data = b /\ r.filhos = <<>>
         /\ \A f : DosFilhos(f, r) = <<>>
<1>1. /\ r \in Nos(N)
      /\ r.cls = p.cls /\ r.tag = p.tag /\ ~r.cons /\ ~r.indef /\ r.porte = p.porte
      /\ r.data = b /\ r.filhos = <<>>
  <2>1. r = Encode(p, FALSE, b, <<>>)
    BY DEF Primitivo
  <2>2. r \in Nos(N)
    BY <2>1, PrimitiveTyped
  <2> QED BY <2>1, <2>2 DEF Encode, Packet
<1>2. r \in Pacotes
  BY <1>1 DEF Layer, Below
<1>3. coletarConteudo[r] = b
  BY <1>1, <1>2, ConteudoUnfolds, Zenon DEF ConteudoStep
<1>4. \A f : DosFilhos(f, r) = <<>>
  BY <1>1 DEF DosFilhos
<1> QED BY <1>1, <1>2, <1>3, <1>4

\* A primitive with nothing wrong in it is strict.
LEMMA PrimitiveStrict ==
  ASSUME NEW r \in Pacotes, ~r.cons, ~r.indef, r.filhos = <<>>,
         r.cls = "ctx" => r.tag # "explicito",
         r.data # <<>> => IsWhole(r.data) /\ Junta(r.data[1].de, EstritoDentro)
  PROVE  Estrito[r] /\ EstritoDentro[r]
<1>1. \A i \in DOMAIN r.filhos : FALSE
  OBVIOUS
<1>2. Estrito[r]
  BY <1>1, Unfolded, Zenon DEF EstritoStep
<1>3. EstritoDentro[r] = DentroStep(EstritoDentro, r)
  BY Unfolded
<1> QED BY <1>1, <1>2, <1>3, Zenon DEF DentroStep, Junta, EhPacote

\* What is strict, has children that are.
LEMMA StrictMeans ==
  ASSUME NEW p \in Pacotes, EstritoDentro[p]
  PROVE  /\ Estrito[p] /\ ~p.indef /\ (Cadeia(p) => ~p.cons)
         /\ p.cls = "ctx" => (p.cons <=> p.tag = "explicito")
         /\ p.data # <<>> => IsWhole(p.data) /\ Junta(p.data[1].de, EstritoDentro)
         /\ \A i \in DOMAIN p.filhos : EstritoDentro[p.filhos[i]]
<1>1. DentroStep(EstritoDentro, p)
  BY Unfolded
<1>2. Estrito[p]
  BY <1>1 DEF DentroStep
<1>3. EstritoStep(Estrito, p)
  BY <1>2, Unfolded
<1> QED BY <1>1, <1>2, <1>3, Zenon DEF DentroStep, EstritoStep, Junta, EhPacote, Cadeia

\* The rewriting, by kind of packet.
LEMMA DerOctet ==
  ASSUME NEW p \in Pacotes, Cadeia(p), p.cons \/ p.filhos = <<>>
  PROVE  berParaDER[p] = octetNormalizado(p, coletarConteudo[p], berParaDER)
<1>1. berParaDER[p] = DerStep(berParaDER, p)
  BY Unfolded
<1>2. CASE p.cons
  BY <1>1, <1>2, Zenon DEF DerStep, Cadeia
<1>3. CASE ~p.cons
  <2>1. p.filhos = <<>> /\ coletarConteudo[p] = p.data
    BY <1>3, ConteudoUnfolds, Zenon DEF ConteudoStep
  <2> QED BY <1>1, <1>3, <2>1, Zenon DEF DerStep, Cadeia
<1> QED BY <1>2, <1>3

LEMMA DerCaixa ==
  ASSUME NEW p \in Pacotes, Caixa(p)
  PROVE  berParaDER[p] = Encode(p, p.cons, p.data, DosFilhos(berParaDER, p))
<1>1. berParaDER[p] = DerStep(berParaDER, p)
  BY Unfolded
<1>2. ~(p.cons /\ p.cls = "univ" /\ p.tag \in {"octet", "bit"})
  BY Zenon DEF Caixa
<1>3. ~(p.filhos = <<>> /\ p.cls = "univ" /\ ~p.cons /\ p.tag = "octet")
  BY Zenon DEF Caixa
<1>4. Len(p.filhos) = 1 => ~(Len(p.filhos) >= 2)
  OBVIOUS
<1>5. ~(p.cls = "ctx" /\ soChunksDeOctet(p))
  BY <1>4, Zenon DEF Caixa, soChunksDeOctet
<1> QED BY <1>1, <1>2, <1>3, <1>5, Zenon DEF DerStep

LEMMA DerCifra ==
  ASSUME NEW p \in Pacotes, Cifrada(p), EmChunks(p, "octet"), p.cons \/ p.filhos = <<>>,
         p.cons => Len(p.filhos) >= 2
  PROVE  berParaDER[p] = Primitivo(p, coletarConteudo[p])
<1>1. berParaDER[p] = DerStep(berParaDER, p)
  BY Unfolded
<1>2. p.cls # "univ" /\ p.cls = "ctx"
  BY Zenon DEF Cifrada
<1>3. CASE p.cons
  <2>1. soChunksDeOctet(p)
    BY <1>3, Zenon DEF soChunksDeOctet, EmChunks
  <2> QED BY <1>1, <1>2, <1>3, <2>1, Zenon DEF DerStep, Primitivo
<1>4. CASE ~p.cons
  <2>1. p.filhos = <<>> /\ coletarConteudo[p] = p.data
    BY <1>4, ConteudoUnfolds, Zenon DEF ConteudoStep
  <2>2. DosFilhos(berParaDER, p) = <<>>
    BY <2>1 DEF DosFilhos
  <2>3. p.cons = FALSE \/ p.cons
    BY <1>4
  <2>4. berParaDER[p] = Encode(p, p.cons, p.data, <<>>)
    BY <1>1, <1>2, <1>4, <2>2, Zenon DEF DerStep
  <2>5. Encode(p, p.cons, p.data, <<>>) = Encode(p, FALSE, p.data, <<>>)
    <3>1. PICK N : p \in Nos(N)
      BY InLayer
    <3>2. p.cons \in BOOLEAN
      BY <3>1, NodeFields
    <3>3. p.cons = FALSE
      BY <1>4, <3>2
    <3> QED BY <3>3
  <2> QED BY <2>1, <2>4, <2>5 DEF Primitivo
<1> QED BY <1>3, <1>4

\* What rewriting does to a packet that it does not misjudge.
Intacta(p) ==
    /\ berParaDER[p] = Canon[p]
    /\ EstritoDentro[berParaDER[p]]
    /\ berParaDER[berParaDER[p]] = berParaDER[p]
    /\ EstritoDentro[p] => berParaDER[p] = p
Vista(p) == Regular[p] /\ ~PontoCego[p]
Tratada(p) == p \in Pacotes /\ (Vista(p) => Intacta(p))

\* What is seen of an octet string and of its content.
LEMMA OctetSeen ==
  ASSUME NEW p \in Pacotes, Vista(p), Cadeia(p)
  PROVE  /\ p.cons => p.data = <<>>
         /\ ~p.cons => p.filhos = <<>>
         /\ IsWhole(coletarConteudo[p])
         /\ Junta(coletarConteudo[p][1].de, Regular)
         /\ ~MalJulgado(coletarConteudo[p][1].de)
         /\ EhPacote(coletarConteudo[p][1].de) => Vista(coletarConteudo[p][1].de.no)
<1>1. RegularStep(Regular, p) /\ ~CegoStep(PontoCego, p)
  BY Unfolded DEF Vista
<1>2. /\ IF p.cons THEN p.data = <<>> ELSE p.filhos = <<>>
      /\ IsWhole(coletarConteudo[p]) /\ Junta(coletarConteudo[p][1].de, Regular)
  BY <1>1, Zenon DEF RegularStep, Cadeia, Junta, EhPacote
<1>3. /\ ~MalJulgado(coletarConteudo[p][1].de)
      /\ EhPacote(coletarConteudo[p][1].de) => ~PontoCego[coletarConteudo[p][1].de.no]
  BY <1>1, <1>2, Zenon DEF CegoStep, Cadeia, EhPacote
<1> QED BY <1>2, <1>3, Zenon DEF Vista, Junta

\* The same of an encrypted content, and of what holds others.
LEMMA CifraSeen ==
  ASSUME NEW p \in Pacotes, Vista(p), Cifrada(p)
  PROVE  /\ p.cons => p.data = <<>>
         /\ ~p.cons => p.filhos = <<>>
         /\ EmChunks(p, "octet") /\ Opaca(coletarConteudo[p]) /\ Len(p.filhos) # 1
<1>1. RegularStep(Regular, p) /\ ~CegoStep(PontoCego, p)
  BY Unfolded DEF Vista
<1> QED BY <1>1, Zenon DEF RegularStep, CegoStep, Cifrada

LEMMA CaixaSeen ==
  ASSUME NEW p \in Pacotes, Vista(p), ~Cadeia(p), ~Cifrada(p)
  PROVE  /\ Caixa(p)
         /\ p.cons => p.data = <<>>
         /\ ~p.cons => p.filhos = <<>> /\ Opaca(p.data) /\ p.cls = "univ"
         /\ \A i \in DOMAIN p.filhos : Vista(p.filhos[i])
<1>1. RegularStep(Regular, p) /\ ~CegoStep(PontoCego, p)
  BY Unfolded DEF Vista
<1>2. IF p.cons THEN p.data = <<>> ELSE p.filhos = <<>>
  BY <1>1 DEF RegularStep
<1>3. \/ /\ p.cls = "ctx" /\ p.tag = "explicito" /\ p.cons /\ Len(p.filhos) = 1
         /\ Regular[p.filhos[1]]
      \/ /\ p.cls = "univ" /\ p.tag \notin {"octet", "cifrado", "explicito"}
         /\ IF p.cons THEN p.tag # "bit" /\ \A i \in DOMAIN p.filhos : Regular[p.filhos[i]]
            ELSE Opaca(p.data)
  BY <1>1, Zenon DEF RegularStep, CegoStep, Cadeia, Cifrada
<1>4. Caixa(p) /\ (~p.cons => Opaca(p.data) /\ p.cls = "univ")
  BY <1>3, Zenon DEF Caixa
<1>5. \A i \in DOMAIN p.filhos : ~PontoCego[p.filhos[i]]
  BY <1>1, <1>4, Zenon DEF CegoStep, Caixa
<1>6. \A i \in DOMAIN p.filhos : Regular[p.filhos[i]]
  <2>1. PICK N : p \in Nos(N)
    BY InLayer
  <2>2. DOMAIN p.filhos = 1..Len(p.filhos)
    BY <2>1, ChildrenIn
  <2>3. Len(p.filhos) = 1 => DOMAIN p.filhos = {1}
    BY <2>2
  <2>4. p.filhos = <<>> => DOMAIN p.filhos = {}
    OBVIOUS
  <2> QED BY <1>2, <1>3, <2>3, <2>4, Zenon
<1> QED BY <1>2, <1>4, <1>5, <1>6, Zenon DEF Vista

\* The content of an octet string, as the rewriting leaves it.
Deixado(c) == IF EhPacote(c) THEN Asn1(berParaDER[c.no]) ELSE c

\* An octet string whose content is not misjudged gets the content left.
LEMMA OctetLeft ==
  ASSUME NEW N, NEW p, NEW b \in Bytes(N), IsWhole(b), ~MalJulgado(b[1].de),
         Junta(b[1].de, [q \in N |-> Intacta(q)]), p.tag = "octet"
  PROVE  octetNormalizado(p, b, berParaDER) = Primitivo(p, Whole(Deixado(b[1].de)))
<1> DEFINE c == b[1].de
           x == IF derEstritoValido(b) \/ ~ParseiaInteiro(b) THEN b
                ELSE Whole(Reescrito(c, berParaDER))
<1>1. octetNormalizado(p, b, berParaDER) =
         Packet(p.cls, FALSE, "octet", FALSE, p.porte, x, <<>>)
  BY DEF octetNormalizado
<1>2. c \in Conteudos(N) /\ b = Whole(c)
  BY WholeContent
<1>3. CASE EhPacote(c)
  <2> DEFINE q == c.no
  <2>1. q \in N /\ c = Asn1(q) /\ Intacta(q)
    <3>1. q \in N /\ c = Asn1(q)
      BY <1>2, <1>3, ContentIn
    <3> QED BY <1>3, <3>1, Zenon DEF Junta
  <2>2. /\ derEstritoValido(b) <=> ~q.indef
        /\ ParseiaInteiro(b) <=> Economia[q] <= 2
        /\ q.indef \/ EstritoDentro[q]
        /\ Economia[q] <= 2
    BY <1>3, Zenon DEF derEstritoValido, ParseiaInteiro, EhPacote, MalJulgado
  <2>3. Reescrito(c, berParaDER) = Asn1(berParaDER[q]) /\ Deixado(c) = Asn1(berParaDER[q])
    BY <1>3, Zenon DEF Reescrito, Deixado, EhPacote
  <2>4. ~q.indef => b = Whole(Asn1(berParaDER[q]))
    BY <1>2, <2>1, <2>2, Zenon DEF Intacta
  <2>5. x = Whole(Deixado(c))
    BY <2>2, <2>3, <2>4, Zenon
  <2> HIDE DEF x
  <2> QED BY <1>1, <2>5, Zenon DEF Primitivo, Encode
<1>4. CASE ~EhPacote(c)
  <2>1. derEstritoValido(b) \/ ~ParseiaInteiro(b)
    BY <1>4, Zenon DEF derEstritoValido, ParseiaInteiro, EhPacote, MalJulgado
  <2>2. x = Whole(Deixado(c))
    BY <1>2, <1>4, <2>1, Zenon DEF Deixado
  <2> HIDE DEF x
  <2> QED BY <1>1, <2>2, Zenon DEF Primitivo, Encode
<1> QED BY <1>3, <1>4

-----------------------------------------------------------------------------
(* Rewriting, by kind of packet. *)

\* A strict octet string whose content is strict is not changed.
LEMMA OctetStays ==
  ASSUME NEW N, Layer(N), NEW p \in Nos(N), Cadeia(p), NEW c \in Conteudos(N),
         Junta(c, EstritoDentro), ~EhPacote(c) => c.acaso # "ber",
         NEW r, r = Primitivo(p, Whole(c))
  PROVE  EstritoDentro[r] /\ berParaDER[r] = r
<1> DEFINE b == Whole(c)
<1>1. b \in Bytes(N) /\ IsWhole(b) /\ b[1].de = c /\ b # <<>>
  BY WholeTyped
<1>2. /\ r \in Nos(N) /\ r \in Pacotes /\ coletarConteudo[r] = b
      /\ r.cls = p.cls /\ r.tag = p.tag /\ ~r.cons /\ ~r.indef /\ r.porte = p.porte
      /\ r.data = b /\ r.filhos = <<>>
  BY <1>1, PrimitiveOne
<1>3. Cadeia(r) /\ r.tag = "octet" /\ r.cls # "ctx"
  BY <1>2, Zenon DEF Cadeia
<1> HIDE DEF b
<1>4. EstritoDentro[r]
  <2>1. r.data # <<>> => IsWhole(r.data) /\ Junta(r.data[1].de, EstritoDentro)
    BY <1>1, <1>2
  <2> QED BY <1>2, <1>3, <2>1, PrimitiveStrict, Zenon
<1>5. berParaDER[r] = octetNormalizado(r, b, berParaDER)
  BY <1>2, <1>3, DerOctet
<1>6. derEstritoValido(b) \/ ~ParseiaInteiro(b)
  <2>1. CASE EhPacote(c)
    <3>1. c.no \in Pacotes /\ EstritoDentro[c.no]
      BY <2>1, ContentIn, Zenon DEF Layer, Junta
    <3>2. ~c.no.indef
      BY <3>1, StrictMeans
    <3> QED BY <1>1, <2>1, <3>2, Zenon DEF derEstritoValido, EhPacote
  <2>2. CASE ~EhPacote(c)
    BY <1>1, <2>2, Zenon DEF ParseiaInteiro, EhPacote
  <2> QED BY <2>1, <2>2
<1>7. berParaDER[r] = Primitivo(r, b)
  BY <1>3, <1>5, <1>6, Zenon DEF octetNormalizado, Primitivo, Encode
<1>8. Primitivo(r, b) = Primitivo(p, b)
  BY <1>2, Zenon DEF Primitivo, Encode
<1> QED BY <1>4, <1>7, <1>8 DEF b

\* A primitive packet in DER is its own primitive.
LEMMA PrimitiveItself ==
  ASSUME NEW N, NEW p \in Nos(N), ~p.cons, ~p.indef, p.filhos = <<>>
  PROVE  p = Primitivo(p, p.data)
<1>1. /\ p.cons \in BOOLEAN /\ p.indef \in BOOLEAN
      /\ p = Packet(p.cls, p.cons, p.tag, p.indef, p.porte, p.data, p.filhos)
  BY NodeFields
<1>2. p.cons = FALSE /\ p.indef = FALSE
  BY <1>1
<1> QED BY <1>1, <1>2, Zenon DEF Primitivo, Encode

\* Octet strings.
LEMMA OctetIntact ==
  ASSUME NEW N, Layer(N), \A q \in N : Tratada(q), NEW p \in Nos(N), Vista(p), Cadeia(p)
  PROVE  Intacta(p)
<1> DEFINE b == coletarConteudo[p]
           c == b[1].de
           d == Deixado(c)
           r == berParaDER[p]
<1>1. p \in Pacotes /\ b \in Bytes(N)
  BY DEF Layer, Below
<1>2. /\ p.cons => p.data = <<>>
      /\ ~p.cons => p.filhos = <<>>
      /\ IsWhole(b) /\ Junta(c, Regular) /\ ~MalJulgado(c)
      /\ EhPacote(c) => Vista(c.no)
  BY <1>1, OctetSeen
<1>3. c \in Conteudos(N) /\ b = Whole(c)
  BY <1>1, <1>2, WholeContent
<1>4. p.tag = "octet"
  BY DEF Cadeia
<1>5. EhPacote(c) => c.no \in N /\ c = Asn1(c.no) /\ Intacta(c.no)
  BY <1>2, <1>3, ContentIn DEF Tratada
<1>6. r = Primitivo(p, Whole(d))
  <2>1. Junta(c, [q \in N |-> Intacta(q)])
    BY <1>2, <1>5, Zenon DEF Junta
  <2>2. r = octetNormalizado(p, b, berParaDER)
    BY <1>1, <1>2, DerOctet
  <2> QED BY <1>1, <1>2, <1>4, <2>1, <2>2, OctetLeft
<1>7. d \in Conteudos(N) /\ Junta(d, EstritoDentro) /\ (~EhPacote(d) => d.acaso # "ber")
  <2>1. CASE EhPacote(c)
    <3> DEFINE q == berParaDER[c.no]
    <3>1. q \in N /\ EstritoDentro[q] /\ d = Asn1(q)
      BY <1>5, <2>1 DEF Layer, Intacta, Deixado
    <3>2. Asn1(q) \in Conteudos(N) /\ EhPacote(Asn1(q)) /\ Asn1(q).no = q
      BY <3>1 DEF Asn1, Conteudos, EhPacote
    <3> QED BY <3>1, <3>2, Zenon DEF Junta
  <2>2. CASE ~EhPacote(c)
    <3>1. d = c /\ c.acaso # "ber" /\ Junta(c, EstritoDentro)
      BY <1>2, <2>2, Zenon DEF Deixado, MalJulgado, Junta, EhPacote
    <3> QED BY <1>3, <2>2, <3>1
  <2> QED BY <2>1, <2>2
<1> HIDE DEF b, d, r
<1>8. EstritoDentro[r] /\ berParaDER[r] = r
  BY <1>6, <1>7, OctetStays
<1>9. r = Canon[p]
  <2>1. Canon[p] = CanonStep(Canon, p)
    BY <1>1, Unfolded
  <2>2. Canon[p] = Primitivo(p, CanonConteudo(b, Canon))
    BY <2>1, Zenon DEF CanonStep, Cadeia, Primitivo, b
  <2>3. CanonConteudo(b, Canon) = Whole(d)
    <3>1. CASE EhPacote(c)
      <4>1. CanonConteudo(b, Canon) = Whole(Asn1(Canon[c.no]))
        BY <1>2, <3>1, Zenon DEF CanonConteudo, EhPacote
      <4>2. d = Asn1(Canon[c.no])
        BY <1>5, <3>1, Zenon DEF d, Deixado, Intacta
      <4> QED BY <4>1, <4>2
    <3>2. CASE ~EhPacote(c)
      BY <1>3, <3>2, Zenon DEF CanonConteudo, EhPacote, d, Deixado
    <3> QED BY <3>1, <3>2
  <2> QED BY <1>6, <2>2, <2>3
<1>10. ASSUME EstritoDentro[p]
       PROVE  r = p
  <2>1. ~p.indef /\ ~p.cons
    BY <1>1, <1>10, StrictMeans
  <2>2. p.filhos = <<>> /\ p = Primitivo(p, p.data)
    BY <1>2, <2>1, PrimitiveItself
  <2>3. b = p.data
    BY <1>1, <2>2, ConteudoUnfolds, Zenon DEF b, ConteudoStep
  <2>4. Whole(d) = b
    <3>1. CASE EhPacote(c)
      <4>1. p.data # <<>>
        BY <1>3, <2>3, WholeTyped
      <4>2. EstritoDentro[c.no]
        BY <1>1, <1>10, <2>3, <3>1, <4>1, StrictMeans, Zenon DEF Junta
      <4>3. d = c
        BY <1>5, <3>1, <4>2, Zenon DEF d, Deixado, Intacta
      <4> QED BY <1>3, <4>3
    <3>2. CASE ~EhPacote(c)
      BY <1>3, <3>2, Zenon DEF d, Deixado
    <3> QED BY <3>1, <3>2
  <2> QED BY <1>6, <2>2, <2>3, <2>4
<1> QED BY <1>8, <1>9, <1>10 DEF Intacta, r

\* Encrypted contents, in one piece or in chunks.
LEMMA CifraIntact ==
  ASSUME NEW N, Layer(N), NEW p \in Nos(N), Vista(p), Cifrada(p)
  PROVE  Intacta(p)
<1> DEFINE b == coletarConteudo[p]
           r == berParaDER[p]
<1>1. p \in Pacotes /\ b \in Bytes(N)
  BY DEF Layer, Below
<1>2. /\ p.cons => p.data = <<>>
      /\ ~p.cons => p.filhos = <<>>
      /\ EmChunks(p, "octet") /\ Opaca(b) /\ Len(p.filhos) # 1
  BY <1>1, CifraSeen
<1>3. IsWhole(b) /\ ~EhPacote(b[1].de) /\ b[1].de.acaso # "cortado" /\ b # <<>>
  <2>1. Len(<<>>) # 2
    OBVIOUS
  <2> QED BY <1>2, <2>1, Zenon DEF Opaca, EhPacote, IsWhole
<1>4. Len(p.filhos) \in Nat /\ (Len(p.filhos) = 0 => p.filhos = <<>>)
  <2>1. p.filhos \in Seq(N)
    BY NodeFields
  <2> QED BY <2>1
<1>5. p.cons => Len(p.filhos) >= 2
  <2>1. p.filhos = <<>> => b = p.data
    BY <1>1, ConteudoUnfolds, Zenon DEF ConteudoStep
  <2>2. p.cons => Len(p.filhos) # 0
    BY <1>2, <1>3, <1>4, <2>1
  <2>3. \A n \in Nat : n # 0 /\ n # 1 => n >= 2
    OBVIOUS
  <2> QED BY <1>2, <1>4, <2>2, <2>3, Zenon
<1>6. r = Primitivo(p, b)
  BY <1>1, <1>2, <1>5, DerCifra
<1>7. /\ r \in Nos(N) /\ r \in Pacotes /\ coletarConteudo[r] = b
      /\ r.cls = p.cls /\ r.tag = p.tag /\ ~r.cons /\ ~r.indef /\ r.porte = p.porte
      /\ r.data = b /\ r.filhos = <<>>
  <2> HIDE DEF r
  <2> QED BY <1>1, <1>6, PrimitiveOne
<1> HIDE DEF r
<1>8. Cifrada(r) /\ r.tag # "explicito"
  BY <1>7, Zenon DEF Cifrada
<1>9. EstritoDentro[r]
  <2>1. r.data # <<>> => IsWhole(r.data) /\ Junta(r.data[1].de, EstritoDentro)
    BY <1>3, <1>7, Zenon DEF Junta
  <2> QED BY <1>7, <1>8, <2>1, PrimitiveStrict, Zenon
<1>10. berParaDER[r] = r
  <2>1. EmChunks(r, "octet")
    <3>1. \A i \in DOMAIN r.filhos : FALSE
      BY <1>7
    <3> QED BY <3>1, Zenon DEF EmChunks
  <2>2. berParaDER[r] = Primitivo(r, b)
    BY <1>7, <1>8, <2>1, DerCifra
  <2>3. Primitivo(r, b) = Primitivo(p, b)
    BY <1>7, Zenon DEF Primitivo, Encode
  <2> QED BY <1>6, <2>2, <2>3
<1>11. r = Canon[p]
  <2>1. Canon[p] = CanonStep(Canon, p)
    BY <1>1, Unfolded
  <2>2. Canon[p] = Primitivo(p, b)
    BY <2>1, Zenon DEF CanonStep, Cifrada, Primitivo
  <2> QED BY <1>6, <2>2
<1>12. ASSUME EstritoDentro[p]
       PROVE  r = p
  <2>1. ~p.indef /\ (p.cls = "ctx" => (p.cons <=> p.tag = "explicito"))
    BY <1>1, <1>12, StrictMeans
  <2>2. ~p.cons
    BY <2>1, Zenon DEF Cifrada
  <2>3. p.filhos = <<>> /\ p = Primitivo(p, p.data)
    BY <1>2, <2>1, <2>2, PrimitiveItself
  <2>4. b = p.data
    BY <1>1, <2>3, ConteudoUnfolds, Zenon DEF ConteudoStep
  <2> QED BY <1>6, <2>3, <2>4
<1> QED BY <1>9, <1>10, <1>11, <1>12 DEF Intacta, r

\* What holds other packets, and the primitives that are not octet strings.
LEMMA CaixaIntact ==
  ASSUME NEW N, Layer(N), \A q \in N : Tratada(q), NEW p \in Nos(N), Vista(p),
         ~Cadeia(p), ~Cifrada(p)
  PROVE  Intacta(p)
<1> DEFINE r == berParaDER[p]
           s == DosFilhos(berParaDER, p)
<1>1. p \in Pacotes /\ p.data \in Bytes(N) /\ p.cons \in BOOLEAN /\ p.filhos \in Seq(N)
  BY NodeFields DEF Layer, Below
<1>2. /\ Caixa(p)
      /\ p.cons => p.data = <<>>
      /\ ~p.cons => p.filhos = <<>> /\ Opaca(p.data) /\ p.cls = "univ"
      /\ \A i \in DOMAIN p.filhos : Vista(p.filhos[i])
  BY <1>1, CaixaSeen
<1>3. r = Encode(p, p.cons, p.data, s)
  BY <1>1, <1>2, DerCaixa
<1>4. /\ DOMAIN p.filhos = 1..Len(p.filhos) /\ Len(p.filhos) \in Nat
      /\ \A i \in DOMAIN p.filhos : p.filhos[i] \in N /\ Intacta(p.filhos[i])
  BY <1>2, ChildrenIn DEF Tratada
<1>5. /\ s \in Seq(N) /\ Len(s) = Len(p.filhos)
      /\ \A i \in 1..Len(p.filhos) : s[i] = berParaDER[p.filhos[i]]
  <2>1. \A q \in N : berParaDER[q] \in N
    BY DEF Layer
  <2> HIDE DEF s
  <2>2. s = DosFilhos(berParaDER, p)
    BY DEF s
  <2> QED BY <2>1, <2>2, ChildrenTyped
<1>6. \A i \in 1..Len(s) : s[i] \in N /\ EstritoDentro[s[i]] /\ berParaDER[s[i]] = s[i]
  BY <1>4, <1>5 DEF Intacta, Layer
<1> HIDE DEF s
<1>7. /\ r \in Nos(N)
      /\ r.cls = p.cls /\ r.cons = p.cons /\ r.tag = p.tag /\ r.indef = FALSE
      /\ r.porte = p.porte /\ r.data = p.data /\ r.filhos = s
  <2>1. \A b \in BOOLEAN : Encode(p, b, p.data, s) \in Nos(N)
    BY <1>1, <1>5, EncodeTyped
  <2>2. r \in Nos(N)
    BY <1>1, <1>3, <2>1
  <2> HIDE DEF r
  <2> QED BY <1>3, <2>2 DEF Encode, Packet
<1> HIDE DEF r
<1>8. r \in Pacotes /\ Caixa(r) /\ DOMAIN s = 1..Len(s)
  <2>1. r \in Pacotes
    BY <1>7 DEF Layer, Below
  <2>2. Caixa(r)
    BY <1>2, <1>5, <1>7, Zenon DEF Caixa
  <2> QED BY <1>5, <2>1, <2>2
<1>9. EstritoDentro[r]
  <2>1. \A i \in DOMAIN s : EstritoDentro[s[i]] /\ Estrito[s[i]]
    BY <1>6, <1>8, StrictMeans DEF Layer
  <2>2. ~(r.cons /\ r.cls = "univ" /\ r.tag \in {"octet", "bit"})
        /\ (r.cls = "ctx" => (r.cons <=> r.tag = "explicito"))
    BY <1>8, Zenon DEF Caixa
  <2>3. EstritoStep(Estrito, r)
    BY <1>7, <2>1, <2>2, Zenon DEF EstritoStep
  <2>4. Estrito[r]
    BY <1>8, <2>3, Unfolded
  <2>5. r.data # <<>> => IsWhole(r.data) /\ ~EhPacote(r.data[1].de)
                         /\ r.data[1].de.acaso # "cortado"
    BY <1>2, <1>7, Zenon DEF Opaca, EhPacote
  <2>6. DentroStep(EstritoDentro, r)
    BY <1>7, <2>1, <2>4, <2>5, Zenon DEF DentroStep, EhPacote
  <2> QED BY <1>8, <2>6, Unfolded
<1>10. berParaDER[r] = r
  <2>1. berParaDER[r] = Encode(r, r.cons, r.data, DosFilhos(berParaDER, r))
    BY <1>8, DerCaixa
  <2>2. DosFilhos(berParaDER, r) = s
    <3>1. DosFilhos(berParaDER, r) = [i \in DOMAIN s |-> berParaDER[s[i]]]
      BY <1>7 DEF DosFilhos
    <3>2. \A i \in DOMAIN s : berParaDER[s[i]] = s[i]
      BY <1>6, <1>8
    <3> QED BY <1>5, <1>8, <3>1, <3>2
  <2> QED BY <1>3, <1>7, <2>1, <2>2, Zenon DEF Encode
<1>11. r = Canon[p]
  <2>1. Canon[p] = CanonStep(Canon, p)
    BY <1>1, Unfolded
  <2>2. Canon[p] = Encode(p, p.cons, p.data, DosFilhos(Canon, p))
    BY <1>2, <2>1, Zenon DEF CanonStep, Caixa
  <2>3. DosFilhos(Canon, p) = s
    BY <1>4, Zenon DEF s, DosFilhos, Intacta
  <2> QED BY <1>3, <2>2, <2>3
<1>12. ASSUME EstritoDentro[p]
       PROVE  r = p
  <2>1. ~p.indef /\ \A i \in DOMAIN p.filhos : EstritoDentro[p.filhos[i]]
    BY <1>1, <1>12, StrictMeans
  <2>2. s = p.filhos
    <3>1. \A i \in DOMAIN p.filhos : s[i] = p.filhos[i]
      BY <1>4, <1>5, <2>1 DEF Intacta
    <3> QED BY <1>1, <1>5, <3>1
  <2>3. p.indef \in BOOLEAN
        /\ p = Packet(p.cls, p.cons, p.tag, p.indef, p.porte, p.data, p.filhos)
    BY NodeFields
  <2>4. p.indef = FALSE
    BY <2>1, <2>3
  <2> QED BY <1>3, <2>2, <2>3, <2>4, Zenon DEF Encode
<1> QED BY <1>9, <1>10, <1>11, <1>12 DEF Intacta, r

\* Every packet that it does not misjudge.
LEMMA PacketsTreated == \A p \in Pacotes : Tratada(p)
<1> DEFINE T == {p \in Pacotes : Tratada(p)}
<1>1. \A N, p : Layer(N) /\ p \in Nos(N) /\ N \subseteq T => p \in T
  <2>1. SUFFICES ASSUME NEW N, NEW p \in Nos(N), Layer(N), N \subseteq T
                 PROVE  p \in T
    OBVIOUS
  <2>2. p \in Pacotes /\ \A q \in N : Tratada(q)
    BY <2>1 DEF Layer, Below
  <2>3. Vista(p) => Intacta(p)
    BY <2>1, <2>2, OctetIntact, CifraIntact, CaixaIntact
  <2> QED BY <2>2, <2>3 DEF Tratada
<1>2. Pacotes \subseteq T
  <2> HIDE DEF T
  <2> QED BY <1>1, LayerInduction
<1> QED BY <1>2

\* Every file registered is one of those assumed.
LEMMA FileGiven ==
  ASSUME NEW f \in Arquivos, f # Vazio
  PROVE  /\ f \in Ficheiros /\ f.raiz \in Pacotes
         /\ f.asn1 => Regular[f.raiz]
         /\ ComMAC(f)
         /\ f.cert # Nada => Emitido(f.cert)
BY CertificateAssumption DEF Ficheiros

\* A file of those that a shop may have.
Registrado == arquivo \in Arquivos \cup {SemArquivo}

LEMMA KeepsNormalised ==
  ASSUME Registrado
  PROVE  NormalisationKeeps
<1>1. SUFFICES ASSUME arquivo \notin {SemArquivo, Vazio}, arquivo.asn1,
                      ~PontoCego[arquivo.raiz]
               PROVE  Intacta(arquivo.raiz)
  BY Zenon DEF NormalisationKeeps, Intacta
<1>2. arquivo.raiz \in Pacotes /\ Regular[arquivo.raiz]
  BY <1>1, FileGiven DEF Registrado
<1> QED BY <1>1, <1>2, PacketsTreated DEF Tratada, Vista

-----------------------------------------------------------------------------
(* The authSafe of a file. *)

\* Rewriting keeps the class, and the children as many unless it joins them.
LEMMA DerShape ==
  ASSUME NEW p \in Pacotes
  PROVE  /\ berParaDER[p].cls = p.cls
         /\ \/ berParaDER[p].filhos = <<>>
            \/ berParaDER[p].filhos = DosFilhos(berParaDER, p)
<1>1. berParaDER[p] = DerStep(berParaDER, p)
  BY Unfolded
<1>2. \/ \E b : berParaDER[p] = octetNormalizado(p, b, berParaDER)
      \/ berParaDER[p] = Encode(p, FALSE, coletarConteudo[p], <<>>)
      \/ berParaDER[p] = Encode(p, p.cons, p.data, DosFilhos(berParaDER, p))
  BY <1>1, Zenon DEF DerStep
<1> DEFINE r == berParaDER[p]
           s == DosFilhos(berParaDER, p)
<1> HIDE DEF r, s
<1>3. ASSUME NEW b, r = octetNormalizado(p, b, berParaDER)
      PROVE  r.cls = p.cls /\ r.filhos = <<>>
  BY <1>3 DEF octetNormalizado, Packet
<1>5. CASE \E b : r = octetNormalizado(p, b, berParaDER)
  BY <1>3, <1>5 DEF r
<1>6. CASE r = Encode(p, FALSE, coletarConteudo[p], <<>>)
  <2>1. r.cls = p.cls /\ r.filhos = <<>>
    BY <1>6 DEF Encode, Packet
  <2> QED BY <2>1 DEF r
<1>7. CASE r = Encode(p, p.cons, p.data, s)
  <2>1. r.cls = p.cls /\ r.filhos = s
    BY <1>7 DEF Encode, Packet
  <2> QED BY <2>1 DEF r, s
<1> QED BY <1>2, <1>5, <1>6, <1>7 DEF r, s

\* The children of class ctx, and the first.
Contexto(p) == {i \in DOMAIN p.filhos : p.filhos[i].cls = "ctx"}

\* The first of some indices.
LEMMA LeastIndex ==
  ASSUME NEW n \in Nat, NEW K, K \subseteq 1..n, K # {}
  PROVE  LET k == CHOOSE i \in K : \A j \in K : i <= j
         IN  k \in K /\ \A j \in K : k <= j
<1>1. K \in SUBSET Nat
  OBVIOUS
<1>2. \E i \in K : \A j \in K : i <= j
  BY <1>1, Least
<1> QED BY <1>2, Zenon

\* The authSafe is there when a child has a context tag, and is bytes.
LEMMA SafeThere ==
  ASSUME NEW p \in Pacotes
  PROVE  /\ authSafeConteudo(p) # Nada <=>
               \E i \in DOMAIN p.filhos : p.filhos[i].cls = "ctx"
         /\ authSafeConteudo(p) # Nada => authSafeConteudo(p) \in Bytes(Pacotes)
<1> DEFINE f == p.filhos
           K == Contexto(p)
           k == CHOOSE i \in K : \A j \in K : i <= j
           c == f[k]
<1>1. authSafeConteudo(p) =
         IF K = {} THEN Nada
         ELSE IF Len(c.filhos) = 1 THEN c.filhos[1].data ELSE c.data
  BY DEF authSafeConteudo, Contexto
<1>2. PICK N : Layer(N) /\ p \in Nos(N)
  BY InLayer
<1>3. ASSUME K # {}
      PROVE  authSafeConteudo(p) # Nada /\ authSafeConteudo(p) \in Bytes(Pacotes)
  <2>1. k \in DOMAIN f
    <3>1. DOMAIN f = 1..Len(f) /\ Len(f) \in Nat /\ K \subseteq DOMAIN f
      BY <1>2, ChildrenIn DEF Contexto
    <3> HIDE DEF K, f
    <3> QED BY <1>3, <3>1, LeastIndex
  <2>2. c \in Pacotes
    BY <1>2, <2>1, ChildrenIn DEF Layer
  <2>3. PICK M : Layer(M) /\ c \in Nos(M)
    BY <2>2, InLayer
  <2>4. c.data \in Bytes(M) /\ (Len(c.filhos) = 1 => c.filhos[1] \in Pacotes)
    BY <2>3, NodeFields, ChildrenIn DEF Layer
  <2>5. \A q \in Pacotes : q.data \in Bytes(Pacotes)
    <3>1. ASSUME NEW q \in Pacotes
          PROVE  q.data \in Bytes(Pacotes)
      <4>1. PICK L : Layer(L) /\ q \in Nos(L)
        BY InLayer
      <4> QED BY <4>1, NodeFields, MoreContents DEF Layer
    <3> QED BY <3>1
  <2>6. /\ c.data # Nada /\ (Len(c.filhos) = 1 => c.filhos[1].data # Nada)
        /\ c.data \in Bytes(Pacotes)
        /\ Len(c.filhos) = 1 => c.filhos[1].data \in Bytes(Pacotes)
    BY <2>2, <2>4, <2>5, TreesAssumption
  <2> HIDE DEF c, K
  <2> QED BY <1>1, <1>3, <2>6, Zenon
<1>4. K # {} <=> \E i \in DOMAIN p.filhos : p.filhos[i].cls = "ctx"
  BY DEF Contexto
<1> HIDE DEF K, c
<1> QED BY <1>1, <1>3, <1>4, Zenon

\* Rewriting makes no authSafe.
LEMMA NoSafeMade ==
  ASSUME NEW p \in Pacotes, authSafeConteudo(p) = Nada
  PROVE  authSafeConteudo(berParaDER[p]) = Nada
<1>1. \A i \in DOMAIN p.filhos : p.filhos[i].cls # "ctx"
  BY SafeThere
<1>2. PICK N : Layer(N) /\ p \in Nos(N)
  BY InLayer
<1>3. \A i \in DOMAIN p.filhos :
         p.filhos[i] \in Pacotes /\ berParaDER[p.filhos[i]].cls # "ctx"
  <2>1. \A i \in DOMAIN p.filhos : p.filhos[i] \in Pacotes
    BY <1>2, ChildrenIn DEF Layer
  <2> QED BY <1>1, <2>1, DerShape
<1>4. \A i \in DOMAIN DosFilhos(berParaDER, p) : DosFilhos(berParaDER, p)[i].cls # "ctx"
  BY <1>3 DEF DosFilhos
<1>5. \A i \in DOMAIN <<>> : FALSE
  OBVIOUS
<1>6. \A i \in DOMAIN berParaDER[p].filhos : berParaDER[p].filhos[i].cls # "ctx"
  BY <1>4, <1>5, DerShape, Zenon
<1> QED BY <1>6, DerPacket, SafeThere

-----------------------------------------------------------------------------
(* The verdict on a file. *)

\* What decodificar makes of the answer of the library.
LEMMA Decoded ==
  ASSUME NEW f, NEW s, f # Vazio
  PROVE  /\ DecodeChain(f, s) = "none" => decodificar(f, s) = "none"
         /\ DecodeChain(f, s) = "ErrIncorrectPassword" =>
               decodificar(f, s) = "ErrSenhaIncorreta"
         /\ DecodeChain(f, s) = "outro" =>
               decodificar(f, s) = Fallback(normalizarPFXBER(f, s), s)
<1> DEFINE e == DecodeChain(f, s)
<1>1. decodificar(f, s) = CASE e = "none" -> "none"
                            [] e = "ErrIncorrectPassword" -> "ErrSenhaIncorreta"
                            [] OTHER -> Fallback(normalizarPFXBER(f, s), s)
  BY DEF decodificar
<1> HIDE DEF e
<1>2. e = "none" => decodificar(f, s) = "none"
  BY <1>1
<1>3. e = "ErrIncorrectPassword" => decodificar(f, s) = "ErrSenhaIncorreta"
  BY <1>1
<1>4. e = "outro" => decodificar(f, s) = Fallback(normalizarPFXBER(f, s), s)
  BY <1>1
<1> QED BY <1>2, <1>3, <1>4 DEF e

\* A packet without children has less than two.
LEMMA NoChildren == Len(<<>>) < 2
OBVIOUS

\* What is no PKCS#12 file is called an invalid one.
LEMMA NotPkcs12 ==
  ASSUME NEW f \in Arquivos, NEW s, ~Pkcs12(f)
  PROVE  decodificar(f, s) = "ErrArquivoInvalido"
<1>1. CASE f = Vazio
  BY <1>1 DEF decodificar
<1>2. CASE f # Vazio
  <2> DEFINE p == f.raiz
             r == berParaDER[p]
  <2>1. p \in Pacotes
    BY <1>2, FileGiven
  <2>2. PICK N : Layer(N) /\ p \in Nos(N)
    BY <2>1, InLayer
  <2>3. Len(p.filhos) \in Nat /\ DOMAIN p.filhos = 1..Len(p.filhos)
        /\ \A i \in DOMAIN p.filhos : p.filhos[i] \in Pacotes
    BY <2>2, ChildrenIn DEF Layer
  <2>4. ~f.asn1 \/ ~(Len(p.filhos) >= 2) \/ authSafeConteudo(p.filhos[2]) = Nada
    BY <1>2, Zenon DEF Pkcs12
  <2>5. DecodeChain(f, s) = "outro"
    <3>1. ~(Len(p.filhos) >= 2) => Len(p.filhos) < 2
      BY <2>3
    <3> QED BY <2>4, <3>1, Zenon DEF DecodeChain
  <2>6. normalizarPFXBER(f, s) = Nada
    <3>1. CASE ~f.asn1
      BY <3>1, Zenon DEF normalizarPFXBER
    <3>2. CASE ~(Len(p.filhos) >= 2)
      <4>1. Len(r.filhos) < 2
        <5>1. CASE r.filhos = <<>>
          BY <5>1, NoChildren, Zenon
        <5>2. CASE r.filhos = DosFilhos(berParaDER, p)
          <6>1. Len(DosFilhos(berParaDER, p)) = Len(p.filhos)
            BY <2>2, ChildrenTyped DEF Layer
          <6>2. Len(p.filhos) < 2
            BY <2>3, <3>2
          <6> QED BY <5>2, <6>1, <6>2, Zenon
        <5> QED BY <2>1, <5>1, <5>2, DerShape, Zenon
      <4> QED BY <4>1, Zenon DEF normalizarPFXBER
    <3>3. CASE Len(p.filhos) >= 2 /\ authSafeConteudo(p.filhos[2]) = Nada
      <4>1. CASE r.filhos = <<>>
        <5>1. Len(r.filhos) < 2
          BY <4>1, NoChildren, Zenon
        <5> QED BY <5>1, Zenon DEF normalizarPFXBER
      <4>2. CASE r.filhos = DosFilhos(berParaDER, p)
        <5>1. 2 \in DOMAIN p.filhos
          BY <2>3, <3>3
        <5>2. r.filhos[2] = berParaDER[p.filhos[2]]
          BY <4>2, <5>1 DEF DosFilhos
        <5>3. authSafeConteudo(r.filhos[2]) = Nada
          BY <2>3, <3>3, <5>1, <5>2, NoSafeMade
        <5> QED BY <5>3, Zenon DEF normalizarPFXBER
      <4> QED BY <2>1, <4>1, <4>2, DerShape, Zenon
    <3> QED BY <2>4, <3>1, <3>2, <3>3, Zenon
  <2> HIDE DEF p
  <2>7. Fallback(Nada, s) = "ErrArquivoInvalido"
    BY DEF Fallback
  <2> QED BY <1>2, <2>5, <2>6, <2>7, Decoded, Zenon
<1> QED BY <1>1, <1>2

\* A packet with an authSafe is one that holds others.
LEMMA SafeInCaixa ==
  ASSUME NEW p \in Pacotes, Vista(p),
         \E i \in DOMAIN p.filhos : p.filhos[i].cls # "univ" \/ p.filhos[i].filhos # <<>>
  PROVE  Caixa(p)
<1>1. CASE Cadeia(p)
  <2>1. EmChunks(p, "octet")
    <3>1. RegularStep(Regular, p)
      BY Unfolded DEF Vista
    <3> QED BY <1>1, <3>1, Zenon DEF RegularStep, Cadeia
  <2> QED BY <2>1, Zenon DEF EmChunks
<1>2. CASE Cifrada(p)
  <2>1. EmChunks(p, "octet")
    BY <1>2, CifraSeen
  <2> QED BY <2>1, Zenon DEF EmChunks
<1> QED BY <1>1, <1>2, CaixaSeen

\* What holds others is rewritten child by child.
LEMMA CaixaKept ==
  ASSUME NEW N, Layer(N), NEW p \in Nos(N), Caixa(p), NEW r, r = berParaDER[p]
  PROVE  /\ r \in Nos(N) /\ r \in Pacotes
         /\ Len(r.filhos) = Len(p.filhos) /\ DOMAIN r.filhos = DOMAIN p.filhos
         /\ \A i \in DOMAIN p.filhos : r.filhos[i] = berParaDER[p.filhos[i]]
<1>1. Below(p, N)
  BY DEF Layer
<1>2. r \in Nos(N)
  BY <1>1, DerTyped DEF Layer
<1>3. r \in Pacotes
  BY <1>2 DEF Layer, Below
<1>4. r.filhos = DosFilhos(berParaDER, p)
  <2>1. p \in Pacotes
    BY <1>1 DEF Below
  <2>2. r = Encode(p, p.cons, p.data, DosFilhos(berParaDER, p))
    BY <2>1, DerCaixa
  <2> QED BY <2>2 DEF Encode, Packet
<1>5. /\ DosFilhos(berParaDER, p) \in Seq(N)
      /\ Len(DosFilhos(berParaDER, p)) = Len(p.filhos)
  BY ChildrenTyped DEF Layer
<1> QED BY <1>2, <1>3, <1>4, <1>5, Zenon DEF DosFilhos

\* A file in BER is rewritten, with the MAC of the password typed.
LEMMA NormalisedFile ==
  ASSUME NEW f \in Arquivos, Integro(f), NEW s \in Senhas
  PROVE  LET n == normalizarPFXBER(f, s)
         IN  /\ n # Nada /\ n.asn1 /\ n.cert = f.cert /\ n.senha = f.senha
             /\ n.raiz \in Pacotes /\ Estrito[n.raiz] /\ EstritoDentro[n.raiz]
             /\ Len(n.raiz.filhos) = 2
             /\ authSafeConteudo(n.raiz.filhos[2]) # Nada
             /\ n.mac = novoMacData(authSafeConteudo(n.raiz.filhos[2]), s)
<1> DEFINE p == f.raiz
           q == p.filhos[2]
           r == berParaDER[p]
           t == r.filhos[2]
           c == authSafeConteudo(t)
           R == Packet("univ", TRUE, "seq", FALSE, r.porte, <<>>, SubSeq(r.filhos, 1, 2))
           n == normalizarPFXBER(f, s)
<1>1. /\ f # Vazio /\ f \in Ficheiros /\ f.asn1 /\ p \in Pacotes /\ Vista(p)
      /\ Len(p.filhos) >= 2 /\ authSafeConteudo(q) # Nada
  BY FileGiven, Zenon DEF Integro, Pkcs12, Vista
<1>2. PICK N : Layer(N) /\ p \in Nos(N)
  BY <1>1, InLayer
<1>3. /\ Len(p.filhos) \in Nat /\ DOMAIN p.filhos = 1..Len(p.filhos)
      /\ 1 \in DOMAIN p.filhos /\ 2 \in DOMAIN p.filhos /\ q \in Pacotes /\ q \in N
  BY <1>1, <1>2, ChildrenIn DEF Layer
<1>4. \E i \in DOMAIN q.filhos : q.filhos[i].cls = "ctx"
  BY <1>1, <1>3, SafeThere
<1>5. Caixa(p)
  <2>1. q.filhos # <<>>
    BY <1>4
  <2> QED BY <1>1, <1>3, <2>1, SafeInCaixa
<1>6. Caixa(q)
  <2>1. Vista(q)
    <3>1. ~Cadeia(p) /\ ~Cifrada(p)
      BY <1>5, Zenon DEF Caixa, Cadeia, Cifrada
    <3> QED BY <1>1, <1>3, <3>1, CaixaSeen
  <2>2. "ctx" # "univ"
    OBVIOUS
  <2>3. \E i \in DOMAIN q.filhos : q.filhos[i].cls # "univ"
    BY <1>4, <2>2
  <2> QED BY <1>3, <2>1, <2>3, SafeInCaixa
<1>7. /\ r \in Nos(N) /\ r \in Pacotes /\ Len(r.filhos) = Len(p.filhos)
      /\ t = berParaDER[q] /\ t \in Pacotes /\ DOMAIN r.filhos = DOMAIN p.filhos
  <2>1. /\ r \in Nos(N) /\ r \in Pacotes
        /\ Len(r.filhos) = Len(p.filhos) /\ DOMAIN r.filhos = DOMAIN p.filhos
        /\ t = berParaDER[q]
    BY <1>2, <1>3, <1>5, CaixaKept
  <2> QED BY <1>3, <2>1, DerPacket
<1>8. c # Nada /\ c \in Bytes(Pacotes)
  <2>1. PICK M : Layer(M) /\ q \in Nos(M)
    BY <1>3, InLayer
  <2>2. DOMAIN t.filhos = DOMAIN q.filhos
        /\ \A i \in DOMAIN q.filhos : t.filhos[i] = berParaDER[q.filhos[i]]
               /\ q.filhos[i] \in Pacotes
    BY <1>6, <1>7, <2>1, CaixaKept, ChildrenIn DEF Layer
  <2>3. \E i \in DOMAIN t.filhos : t.filhos[i].cls = "ctx"
    BY <1>4, <2>2, DerShape
  <2> QED BY <1>7, <2>3, SafeThere
<1>9. EstritoDentro[r]
  BY <1>1, PacketsTreated DEF Tratada, Intacta
<1>10. /\ R \in Pacotes /\ Len(R.filhos) = 2 /\ R.filhos[2] = t
       /\ Estrito[R] /\ EstritoDentro[R]
  <2> DEFINE u == SubSeq(r.filhos, 1, 2)
  <2>1. r.filhos \in Seq(N) /\ Len(r.filhos) >= 2 /\ r.porte \in Nat
    BY <1>1, <1>7, NodeFields
  <2>2. u \in Seq(N) /\ Len(u) = 2 /\ DOMAIN u = 1..2
        /\ \A i \in 1..2 : u[i] = r.filhos[i]
    <3> DEFINE v == r.filhos
    <3>1. v \in Seq(N) /\ Len(v) >= 2 /\ Len(v) \in Nat
      BY <2>1
    <3> HIDE DEF r, v
    <3>2. SubSeq(v, 1, 2) \in Seq(N) /\ Len(SubSeq(v, 1, 2)) = 2
          /\ \A i \in 1..2 : SubSeq(v, 1, 2)[i] = v[i]
      BY <3>1
    <3> QED BY <3>2 DEF v
  <2> HIDE DEF u
  <2>3. R \in Nos(N)
    <3> DEFINE B == Bytes(N)
               Q == Seq(N)
    <3>1. Nos(N) = [cls : Classes, cons : BOOLEAN, tag : Etiquetas, indef : BOOLEAN,
                    porte : Nat, data : B, filhos : Q]
      BY DEF Nos
    <3>2. <<>> \in B /\ u \in Q
      BY <2>2, Empty
    <3>3. "univ" \in Classes /\ "seq" \in Etiquetas
      BY DEF Classes, Etiquetas
    <3> HIDE DEF B, Q, r
    <3> QED BY <2>1, <3>1, <3>2, <3>3 DEF u, Packet
  <2>4. /\ R.cls = "univ" /\ R.cons /\ R.tag = "seq" /\ ~R.indef /\ R.data = <<>>
        /\ R.filhos = u
    BY DEF u, Packet
  <2>5. R \in Pacotes
    BY <1>2, <2>3 DEF Layer, Below
  <2> HIDE DEF R, r
  <2>6. \A i \in DOMAIN u : EstritoDentro[u[i]] /\ Estrito[u[i]]
    <3>1. \A i \in 1..2 : i \in DOMAIN r.filhos /\ u[i] \in Pacotes
      BY <1>2, <1>3, <1>7, <2>2, ChildrenIn DEF Layer
    <3>2. \A i \in 1..2 : EstritoDentro[u[i]]
      BY <1>7, <1>9, <2>2, <3>1, StrictMeans
    <3> QED BY <2>2, <3>1, <3>2, StrictMeans
  <2>7. EstritoStep(Estrito, R)
    BY <2>4, <2>6, Zenon DEF EstritoStep
  <2>8. Estrito[R]
    BY <2>5, <2>7, Unfolded
  <2>9. DentroStep(EstritoDentro, R)
    BY <2>4, <2>6, <2>8, Zenon DEF DentroStep
  <2>10. 2 \in 1..2
    OBVIOUS
  <2> QED BY <2>2, <2>4, <2>5, <2>8, <2>9, <2>10, Unfolded
<1>11. n = [f EXCEPT !.raiz = R, !.mac = novoMacData(c, s)]
  <2>1. ~(~f.asn1 \/ Len(r.filhos) < 2)
    BY <1>1, <1>3, <1>7
  <2> HIDE DEF c
  <2> QED BY <1>1, <1>8, <2>1, Zenon DEF normalizarPFXBER, c
<1>12. /\ n \in Ficheiros /\ n.asn1 = f.asn1 /\ n.cert = f.cert /\ n.senha = f.senha
       /\ n.raiz = R /\ n.mac = novoMacData(c, s)
  <2> DEFINE m == novoMacData(c, s)
             A == Bytes(Pacotes)
             C == Certificados \cup {Nada}
             M == [conteudo : A, senha : STRING]
  <2>1. Ficheiros = [asn1 : BOOLEAN, raiz : Pacotes, mac : M, senha : STRING, cert : C]
    BY DEF Ficheiros
  <2>2. m \in M
    <3>1. c \in A /\ s \in STRING
      BY <1>8, CertificateAssumption
    <3> HIDE DEF A, c
    <3> QED BY <3>1 DEF novoMacData
  <2> HIDE DEF m, C, M, R, n, c
  <2>3. n = [f EXCEPT !.raiz = R, !.mac = m]
    BY <1>11 DEF m
  <2>4. f \in [asn1 : BOOLEAN, raiz : Pacotes, mac : M, senha : STRING, cert : C]
        /\ R \in Pacotes
    BY <1>1, <1>10, <2>1
  <2>5. /\ n \in Ficheiros /\ n.asn1 = f.asn1 /\ n.cert = f.cert /\ n.senha = f.senha
        /\ n.raiz = R /\ n.mac = m
    BY <2>1, <2>2, <2>3, <2>4
  <2> QED BY <2>5 DEF m
<1> HIDE DEF R, n, c
<1> QED BY <1>1, <1>8, <1>10, <1>12, CertificateAssumption DEF c, n

\* The verdict on a file as an authority makes it is the password's.
LEMMA IntegroVerdict ==
  ASSUME NEW f \in Arquivos, Integro(f), NEW s \in Senhas
  PROVE  decodificar(f, s) = IF s = f.senha THEN "none" ELSE "ErrSenhaIncorreta"
<1> DEFINE n == normalizarPFXBER(f, s)
           a == authSafeConteudo(f.raiz.filhos[2])
           b == authSafeConteudo(n.raiz.filhos[2])
<1>1. /\ f # Vazio /\ f.asn1 /\ f.cert # Nada /\ Len(f.raiz.filhos) >= 2 /\ a # Nada
      /\ Estrito[f.raiz] => f.mac = novoMacData(a, f.senha)
  BY FileGiven, Zenon DEF Integro, Pkcs12, ComMAC
<1>2. /\ n # Nada /\ n.asn1 /\ n.cert = f.cert /\ n.senha = f.senha
      /\ n.raiz \in Pacotes /\ Estrito[n.raiz] /\ EstritoDentro[n.raiz]
      /\ Len(n.raiz.filhos) = 2 /\ b # Nada /\ n.mac = novoMacData(b, s)
  BY NormalisedFile
<1>3. ~(Len(n.raiz.filhos) < 2) /\ ~(Len(f.raiz.filhos) < 2)
  <2>1. PICK N : f.raiz \in Nos(N)
    <3>1. f.raiz \in Pacotes
      BY <1>1, FileGiven
    <3> QED BY <3>1, InLayer
  <2>2. Len(f.raiz.filhos) \in Nat
    BY <2>1, ChildrenIn
  <2> HIDE DEF n
  <2> QED BY <1>1, <1>2, <2>2
<1> HIDE DEF n, a, b
<1>4. DecodeChain(n, s) = IF s = f.senha THEN "none" ELSE "outro"
  BY <1>1, <1>2, <1>3, Zenon DEF DecodeChain, b
<1>5. Fallback(n, s) = IF s = f.senha THEN "none" ELSE "ErrSenhaIncorreta"
  BY <1>2, <1>4, Zenon DEF Fallback, verdictNormalised
<1>6. DecodeChain(f, s) = "outro" => decodificar(f, s) = Fallback(n, s)
  BY <1>1, Decoded, Zenon DEF n
<1>7. \A x, y, z : x # y => novoMacData(z, x) # novoMacData(z, y)
  BY DEF novoMacData
<1>8. CASE ~Estrito[f.raiz]
  <2>1. DecodeChain(f, s) = "outro"
    BY <1>8, Zenon DEF DecodeChain
  <2> QED BY <1>5, <1>6, <2>1, Zenon
<1>9. CASE Estrito[f.raiz] /\ s # f.senha
  <2>1. f.mac # novoMacData(a, s)
    BY <1>1, <1>7, <1>9, Zenon
  <2>2. DecodeChain(f, s) = "ErrIncorrectPassword"
    BY <1>1, <1>3, <1>9, <2>1, Zenon DEF DecodeChain, a
  <2> QED BY <1>1, <1>9, <2>2, Decoded, Zenon
<1>10. CASE Estrito[f.raiz] /\ s = f.senha
  <2>1. DecodeChain(f, s) \in {"none", "outro"}
    BY <1>1, <1>3, <1>10, Zenon DEF DecodeChain, a
  <2>2. DecodeChain(f, s) = "none" => decodificar(f, s) = "none"
    BY <1>1, Decoded
  <2> QED BY <1>5, <1>6, <1>10, <2>1, <2>2, Zenon
<1> QED BY <1>8, <1>9, <1>10

\* What opening a file may say.
LEMMA DecodedErrors ==
  ASSUME NEW f, NEW s
  PROVE  decodificar(f, s) \in {"none", "ErrArquivoInvalido", "ErrSenhaIncorreta"}
<1>1. CASE f = Vazio
  BY <1>1 DEF decodificar
<1>2. CASE f # Vazio
  <2>1. DecodeChain(f, s) \in {"none", "ErrIncorrectPassword", "outro"}
    BY Zenon DEF DecodeChain
  <2>2. \A n : Fallback(n, s) \in {"none", "ErrArquivoInvalido", "ErrSenhaIncorreta"}
    BY Zenon DEF Fallback, verdictNormalised
  <2> QED BY <1>2, <2>1, <2>2, Decoded, Zenon
<1> QED BY <1>1, <1>2

-----------------------------------------------------------------------------
(* The holder of a certificate. *)

\* The fields of a certificate.
LEMMA CertificateFields ==
  ASSUME NEW cert \in Certificados
  PROVE  /\ cert.titular \in Seq(Int) /\ cert.vence \in Int
         /\ cert.cn \in Seq(Seq(Int))
         /\ DOMAIN cert.extensoes = 1..Len(cert.extensoes) /\ Len(cert.extensoes) \in Nat
         /\ \A i \in DOMAIN cert.extensoes :
               /\ cert.extensoes[i].san \in BOOLEAN
               /\ cert.extensoes[i].nomes
                    \in Seq([le : BOOLEAN, other : BOOLEAN, oid : STRING, valor : Seq(Int)])
<1> DEFINE T == Seq(Int)
           A == Seq(T)
           M == [le : BOOLEAN, other : BOOLEAN, oid : STRING, valor : T]
           R == Seq(M)
           E == [san : BOOLEAN, nomes : R]
           X == Seq(E)
<1>1. Certificados = [cn : A, extensoes : X, titular : T, vence : Int]
  BY DEF Certificados
<1>2. cert.cn \in A /\ cert.extensoes \in X /\ cert.titular \in T /\ cert.vence \in Int
  <2> HIDE DEF A, X, T
  <2> QED BY <1>1
<1>3. DOMAIN cert.extensoes = 1..Len(cert.extensoes) /\ Len(cert.extensoes) \in Nat
      /\ \A i \in DOMAIN cert.extensoes : cert.extensoes[i] \in E
  <2> HIDE DEF E
  <2> QED BY <1>2
<1>4. \A e \in E : e.san \in BOOLEAN /\ e.nomes \in R
  <2> HIDE DEF R
  <2> QED OBVIOUS
<1> HIDE DEF E
<1> QED BY <1>2, <1>3, <1>4

\* What a SAN holds.
Nomes == [le : BOOLEAN, other : BOOLEAN, oid : STRING, valor : Seq(Int)]

\* The names read are the first ones of the extension, as far as they read.
LEMMA NamesRead ==
  ASSUME NEW ext, ext.nomes \in Seq(Nomes), ext.san \in BOOLEAN
  PROVE  /\ NomesLidos(ext) \in Seq(Nomes)
         /\ \A j \in 1..Len(NomesLidos(ext)) :
               ext.san /\ j \in DOMAIN ext.nomes /\ NomesLidos(ext)[j] = ext.nomes[j]
         /\ \A j \in DOMAIN ext.nomes :
               ext.san /\ (\A k \in 1..j : ext.nomes[k].le) => j \in 1..Len(NomesLidos(ext))
<1> DEFINE s == ext.nomes
           maus == {i \in DOMAIN s : ~s[i].le}
           k == CHOOSE i \in maus : \A j \in maus : i <= j
           r == NomesLidos(ext)
<1>1. r = IF ~ext.san THEN <<>> ELSE IF maus = {} THEN s ELSE SubSeq(s, 1, k - 1)
  BY DEF NomesLidos
<1>2. s \in Seq(Nomes) /\ Len(s) \in Nat /\ DOMAIN s = 1..Len(s)
  OBVIOUS
<1>3. maus # {} => k \in 1..Len(s) /\ ~s[k].le
  <2>1. maus \subseteq 1..Len(s)
    BY <1>2
  <2>2. maus # {} => k \in maus
    <3> HIDE DEF maus
    <3> QED BY <1>2, <2>1, LeastIndex
  <2>3. \A i \in maus : ~s[i].le
    OBVIOUS
  <2> HIDE DEF maus, k
  <2> QED BY <2>1, <2>2, <2>3
<1> HIDE DEF k, s
<1>4. CASE ~ext.san
  BY <1>1, <1>4
<1>5. CASE ext.san /\ maus = {}
  BY <1>1, <1>2, <1>5 DEF s
<1>6. CASE ext.san /\ maus # {}
  <2>1. r = SubSeq(s, 1, k - 1) /\ k \in 1..Len(s) /\ ~s[k].le
    BY <1>1, <1>3, <1>6
  <2> HIDE DEF maus, r
  <2>2. /\ r \in Seq(Nomes) /\ Len(r) = k - 1
        /\ \A j \in 1..k - 1 : r[j] = s[j] /\ j \in 1..Len(s)
    BY <1>2, <2>1
  <2>3. \A j \in 1..Len(s) : (\A l \in 1..j : s[l].le) => j \in 1..k - 1
    BY <1>2, <2>1
  <2> QED BY <1>2, <1>6, <2>1, <2>2, <2>3 DEF s, r
<1> QED BY <1>4, <1>5, <1>6

\* The names of all the extensions.
NomesDe(cert) == FlattenSeq([i \in DOMAIN cert.extensoes |-> NomesLidos(cert.extensoes[i])])

\* Each is a name of some SAN, and every one that can be read is there.
LEMMA AllNamesRead ==
  ASSUME NEW cert \in Certificados
  PROVE  /\ NomesDe(cert) \in Seq(Nomes)
         /\ \A l \in 1..Len(NomesDe(cert)) : \E i \in DOMAIN cert.extensoes :
               /\ cert.extensoes[i].san
               /\ \E j \in DOMAIN cert.extensoes[i].nomes :
                     NomesDe(cert)[l] = cert.extensoes[i].nomes[j]
         /\ \A i \in DOMAIN cert.extensoes : \A j \in DOMAIN cert.extensoes[i].nomes :
               cert.extensoes[i].san /\ (\A k \in 1..j : cert.extensoes[i].nomes[k].le) =>
                  \E l \in 1..Len(NomesDe(cert)) :
                     NomesDe(cert)[l] = cert.extensoes[i].nomes[j]
<1> DEFINE e == cert.extensoes
           s == [i \in DOMAIN e |-> NomesLidos(e[i])]
           t == NomesDe(cert)
<1>1. /\ DOMAIN e = 1..Len(e) /\ Len(e) \in Nat
      /\ \A i \in DOMAIN e : e[i].san \in BOOLEAN /\ e[i].nomes \in Seq(Nomes)
  BY CertificateFields DEF Nomes
<1> HIDE DEF e
<1>2. /\ s \in Seq(Seq(Nomes)) /\ Len(s) = Len(e)
      /\ \A i \in DOMAIN e : s[i] = NomesLidos(e[i])
  <2>1. \A i \in DOMAIN e : NomesLidos(e[i]) \in Seq(Nomes)
    BY <1>1, NamesRead
  <2> QED BY <1>1, <2>1
<1> HIDE DEF s
<1>3. t = FlattenSeq(s)
  BY DEF NomesDe, s, e
<1> HIDE DEF t
<1>4. t \in Seq(Nomes) /\ Elements(s, Len(s), t)
  BY <1>2, <1>3, FlattenElements
<1>5. ASSUME NEW l \in 1..Len(t)
      PROVE  \E i \in DOMAIN e :
                e[i].san /\ \E j \in DOMAIN e[i].nomes : t[l] = e[i].nomes[j]
  <2>1. PICK i \in DOMAIN e : \E j \in 1..Len(s[i]) : t[l] = s[i][j]
    BY <1>1, <1>2, <1>4 DEF Elements
  <2>2. PICK j \in 1..Len(NomesLidos(e[i])) : t[l] = NomesLidos(e[i])[j]
    BY <1>2, <2>1
  <2>3. e[i].san /\ j \in DOMAIN e[i].nomes /\ t[l] = e[i].nomes[j]
    BY <1>1, <2>2, NamesRead
  <2> QED BY <2>3
<1>6. ASSUME NEW i \in DOMAIN e, NEW j \in DOMAIN e[i].nomes,
             e[i].san, \A k \in 1..j : e[i].nomes[k].le
      PROVE  \E l \in 1..Len(t) : t[l] = e[i].nomes[j]
  <2>1. j \in 1..Len(s[i]) /\ s[i][j] = e[i].nomes[j]
    BY <1>1, <1>2, <1>6, NamesRead
  <2>2. i \in 1..Len(s)
    BY <1>1, <1>2
  <2> QED BY <1>4, <2>1, <2>2, Zenon DEF Elements
<1> QED BY <1>4, <1>5, <1>6, Zenon DEF t, e

\* The names with a CNPJ, and the first.
Achados(cert) ==
    {i \in DOMAIN NomesDe(cert) :
        NomesDe(cert)[i].other /\ cnpjDoOtherName(NomesDe(cert)[i]) # <<>>}
Primeiro(cert) ==
    NomesDe(cert)[CHOOSE i \in Achados(cert) : \A j \in Achados(cert) : i <= j]

\* Without one there is no CNPJ, and with one there is that of the first.
LEMMA FirstFound ==
  ASSUME NEW cert \in Certificados
  PROVE  /\ Achados(cert) = {} => extrairCNPJDoSAN(cert) = <<>>
         /\ Achados(cert) # {} =>
               /\ extrairCNPJDoSAN(cert) = cnpjDoOtherName(Primeiro(cert))
               /\ extrairCNPJDoSAN(cert) # <<>>
               /\ \E l \in 1..Len(NomesDe(cert)) :
                     NomesDe(cert)[l] = Primeiro(cert) /\ Primeiro(cert).other
<1> DEFINE K == Achados(cert)
           k == CHOOSE i \in K : \A j \in K : i <= j
           t == NomesDe(cert)
<1>1. extrairCNPJDoSAN(cert) = IF K = {} THEN <<>> ELSE cnpjDoOtherName(t[k])
  BY DEF extrairCNPJDoSAN, Achados, NomesDe
<1>2. Primeiro(cert) = t[k]
  BY DEF Primeiro
<1>3. DOMAIN t = 1..Len(t) /\ Len(t) \in Nat
  BY AllNamesRead
<1>4. K \subseteq 1..Len(t)
  BY <1>3 DEF Achados
<1>5. ASSUME K # {}
      PROVE  k \in K
  <2> HIDE DEF K, t
  <2> QED BY <1>3, <1>4, <1>5, LeastIndex
<1>6. \A i \in K : i \in 1..Len(t) /\ t[i].other /\ cnpjDoOtherName(t[i]) # <<>>
  BY <1>4 DEF Achados
<1> HIDE DEF K, k, t
<1> QED BY <1>1, <1>2, <1>5, <1>6, Zenon DEF K, t

\* What is plausible is not empty.
LEMMA PlausibleThere ==
  ASSUME NEW c, cnpjPlausivel(c)
  PROVE  c # <<>>
<1>1. Len(<<>>) # 14
  OBVIOUS
<1> QED BY <1>1, Zenon DEF cnpjPlausivel

\* An otherName gives a CNPJ when it has the OID and a plausible number.
LEMMA OtherNameGives ==
  ASSUME NEW nome
  PROVE  cnpjDoOtherName(nome) # <<>> <=>
            nome.oid = "2.16.76.1.3.3" /\ cnpjPlausivel(somenteDigitosCN(nome.valor))
<1>1. cnpjDoOtherName(nome) =
         IF nome.oid = "2.16.76.1.3.3" /\ cnpjPlausivel(somenteDigitosCN(nome.valor))
         THEN somenteDigitosCN(nome.valor) ELSE <<>>
  BY DEF cnpjDoOtherName
<1> QED BY <1>1, PlausibleThere, Zenon

\* Never another number than the holder's.
LEMMA HolderOnly ==
  ASSUME NEW cert \in Certificados, Emitido(cert), identidade(cert) # <<>>
  PROVE  identidade(cert) = cert.titular
<1> DEFINE c == somenteDigitosCN(cert.cn[Len(cert.cn)])
           e == cert.extensoes
<1>1. identidade(cert) = IF Len(cert.cn) > 1 /\ cnpjPlausivel(c) THEN c
                         ELSE extrairCNPJDoSAN(cert)
  BY DEF identidade
<1>2. CASE Len(cert.cn) > 1 /\ cnpjPlausivel(c)
  <2>1. DoTitular(cert, cert.cn[Len(cert.cn)])
    BY <1>2 DEF Emitido
  <2> QED BY <1>1, <1>2, <2>1, Zenon DEF DoTitular
<1>3. CASE ~(Len(cert.cn) > 1 /\ cnpjPlausivel(c))
  <2> DEFINE n == Primeiro(cert)
  <2>1. identidade(cert) = extrairCNPJDoSAN(cert) /\ Achados(cert) # {}
    BY <1>1, <1>3, FirstFound, Zenon
  <2>2. /\ identidade(cert) = cnpjDoOtherName(n) /\ n.other
        /\ \E l \in 1..Len(NomesDe(cert)) : NomesDe(cert)[l] = n
    BY <2>1, FirstFound, Zenon
  <2>3. n.oid = "2.16.76.1.3.3" /\ cnpjPlausivel(somenteDigitosCN(n.valor))
    BY <2>2, OtherNameGives, Zenon
  <2>4. PICK i \in DOMAIN e : e[i].san /\ \E j \in DOMAIN e[i].nomes : n = e[i].nomes[j]
    <3>1. PICK l \in 1..Len(NomesDe(cert)) : NomesDe(cert)[l] = n
      BY <2>2
    <3>2. \E i \in DOMAIN e :
             e[i].san /\ \E j \in DOMAIN e[i].nomes : NomesDe(cert)[l] = e[i].nomes[j]
      BY AllNamesRead
    <3> HIDE DEF n
    <3> QED BY <3>1, <3>2
  <2> HIDE DEF n
  <2>5. DoTitular(cert, n.valor)
    BY <2>2, <2>3, <2>4, Zenon DEF Emitido
  <2> QED BY <2>2, <2>3, <2>5, Zenon DEF DoTitular, cnpjDoOtherName
<1> QED BY <1>2, <1>3

\* The holder's number is plausible when it is made of digits that were kept.
LEMMA KeptHolder ==
  ASSUME NEW cert, Emitido(cert), NEW s \in Seq(Int), somenteDigitosCN(s) = cert.titular
  PROVE  cnpjPlausivel(somenteDigitosCN(s))
<1>1. somenteDigitosCN(s) \in Seq(Int \cap Digits)
  BY KeepType DEF somenteDigitosCN
<1>2. Int \cap Digits = Digits
  BY DEF Digits
<1>3. cert.titular \in Seq(Digits)
  BY <1>1, <1>2, Zenon
<1> QED BY <1>3 DEF Emitido

\* The holder's number is found wherever it is printed.
LEMMA HolderPrinted ==
  ASSUME NEW cert \in Certificados, Emitido(cert), Impresso(cert)
  PROVE  identidade(cert) # <<>>
<1> DEFINE c == somenteDigitosCN(cert.cn[Len(cert.cn)])
           e == cert.extensoes
<1>1. identidade(cert) = IF Len(cert.cn) > 1 /\ cnpjPlausivel(c) THEN c
                         ELSE extrairCNPJDoSAN(cert)
  BY DEF identidade
<1>2. CASE Len(cert.cn) > 1 /\ cnpjPlausivel(c)
  BY <1>1, <1>2, PlausibleThere, Zenon
<1>3. CASE Len(cert.cn) > 1 /\ c = cert.titular
  <2>1. cert.cn[Len(cert.cn)] \in Seq(Int)
    <3> DEFINE T == Seq(Int)
               s == cert.cn
    <3>1. s \in Seq(T) /\ Len(s) > 1
      BY <1>3, CertificateFields
    <3> HIDE DEF T, s
    <3>2. s[Len(s)] \in T
      BY <3>1
    <3> QED BY <3>2 DEF T, s
  <2>2. cnpjPlausivel(c)
    BY <1>3, <2>1, KeptHolder
  <2> QED BY <1>2, <1>3, <2>2
<1>4. ASSUME ~(Len(cert.cn) > 1 /\ cnpjPlausivel(c)),
             NEW i \in DOMAIN e, NEW j \in DOMAIN e[i].nomes,
             e[i].san, \A k \in 1..j : e[i].nomes[k].le,
             e[i].nomes[j].other, e[i].nomes[j].oid = "2.16.76.1.3.3",
             somenteDigitosCN(e[i].nomes[j].valor) = cert.titular
      PROVE  identidade(cert) # <<>>
  <2> DEFINE n == e[i].nomes[j]
             t == NomesDe(cert)
  <2>1. PICK l \in 1..Len(t) : t[l] = n
    BY <1>4, AllNamesRead, Zenon
  <2>2. n.valor \in Seq(Int)
    <3> DEFINE T == Seq(Int)
               M == [le : BOOLEAN, other : BOOLEAN, oid : STRING, valor : T]
               s == e[i].nomes
    <3>1. s \in Seq(M) /\ j \in DOMAIN s
      BY CertificateFields
    <3>2. s[j] \in M
      <4> HIDE DEF M, s
      <4> QED BY <3>1
    <3>3. s[j].valor \in T
      <4> HIDE DEF T, s
      <4> QED BY <3>2
    <3> QED BY <3>3
  <2>3. cnpjPlausivel(somenteDigitosCN(n.valor))
    BY <1>4, <2>2, KeptHolder, Zenon
  <2>4. cnpjDoOtherName(n) # <<>>
    BY <1>4, <2>3, OtherNameGives, Zenon
  <2>5. DOMAIN t = 1..Len(t)
    BY AllNamesRead
  <2> HIDE DEF n, t
  <2>6. l \in Achados(cert)
    BY <1>4, <2>1, <2>4, <2>5, Zenon DEF Achados, n, t
  <2> QED BY <1>1, <1>4, <2>6, FirstFound, Zenon
<1> HIDE DEF c
<1> QED BY <1>2, <1>3, <1>4, Zenon DEF Impresso, c

-----------------------------------------------------------------------------
(* A registration. *)

\* What Abrir and MontarTLS may say.
LEMMA Opened ==
  ASSUME NEW f, NEW s
  PROVE  /\ Abrir(f, s).err = "none" =>
               /\ decodificar(f, s) = "none" /\ identidade(f.cert) # <<>>
               /\ Abrir(f, s) = Info("none", identidade(f.cert), f.cert.vence)
               /\ Abrir(f, s).cnpj = identidade(f.cert)
               /\ Abrir(f, s).validade = f.cert.vence
         /\ Abrir(f, s).err # "none" =>
               /\ Abrir(f, s).cnpj = <<>>
               /\ Abrir(f, s).err = IF decodificar(f, s) # "none" THEN decodificar(f, s)
                                    ELSE "ErrArquivoInvalido"
               /\ decodificar(f, s) = "none" => identidade(f.cert) = <<>>
<1> DEFINE d == decodificar(f, s)
           c == identidade(f.cert)
           v == f.cert.vence
           a == Abrir(f, s)
<1>1. a = IF d # "none" THEN Recusa(d) ELSE IF c = <<>> THEN Recusa("ErrArquivoInvalido")
          ELSE Info("none", c, v)
  BY DEF Abrir
<1>2. \A e : Recusa(e).err = e /\ Recusa(e).cnpj = <<>>
  BY DEF Recusa, Info
<1>3. Info("none", c, v).err = "none" /\ Info("none", c, v).cnpj = c
      /\ Info("none", c, v).validade = v
  BY DEF Info
<1> HIDE DEF a, c, d, v
<1>4. "ErrArquivoInvalido" # "none"
  OBVIOUS
<1>5. CASE d # "none"
  <2>1. a.err = d /\ a.cnpj = <<>>
    BY <1>1, <1>2, <1>5, Zenon
  <2> QED BY <1>5, <2>1, Zenon DEF a, d
<1>6. CASE d = "none" /\ c = <<>>
  <2>1. a.err = "ErrArquivoInvalido" /\ a.cnpj = <<>>
    BY <1>1, <1>2, <1>6, Zenon
  <2> QED BY <1>4, <1>6, <2>1, Zenon DEF a, c, d
<1>7. CASE d = "none" /\ c # <<>>
  <2>1. a = Info("none", c, v) /\ a.err = "none" /\ a.cnpj = c /\ a.validade = v
    BY <1>1, <1>3, <1>7, Zenon
  <2> QED BY <1>7, <2>1, Zenon DEF a, c, d, v
<1> QED BY <1>5, <1>6, <1>7, Zenon

\* A tls.Config is made, or found expired, of what opens.
LEMMA Mounted ==
  ASSUME NEW f, NEW s, NEW d
  PROVE  /\ MontarTLS(f, s, d) \in Erros \ {"nunca"}
         /\ MontarTLS(f, s, d) \in {"none", "ErrVencido"} <=> decodificar(f, s) = "none"
         /\ MontarTLS(f, s, d) = "ErrSenhaIncorreta" =>
               decodificar(f, s) = "ErrSenhaIncorreta"
         /\ decodificar(f, s) = "none" =>
               MontarTLS(f, s, d) = IF d > f.cert.vence THEN "ErrVencido" ELSE "none"
<1> DEFINE e == decodificar(f, s)
           m == MontarTLS(f, s, d)
           p == d > f.cert.vence
<1>1. m = IF e # "none" THEN e ELSE IF p THEN "ErrVencido" ELSE "none"
  BY DEF MontarTLS
<1>2. e \in {"none", "ErrArquivoInvalido", "ErrSenhaIncorreta"}
  BY DecodedErrors
<1> HIDE DEF m, e, p
<1>3. /\ m \in Erros \ {"nunca"}
      /\ m \in {"none", "ErrVencido"} <=> e = "none"
      /\ m = "ErrSenhaIncorreta" => e = "ErrSenhaIncorreta"
      /\ e = "none" => m = IF p THEN "ErrVencido" ELSE "none"
  BY <1>1, <1>2 DEF Erros
<1> QED BY <1>3 DEF m, e, p

\* What opens has a certificate with a date.
LEMMA OpensDated ==
  ASSUME NEW f \in Arquivos, NEW s, decodificar(f, s) = "none"
  PROVE  f.cert.vence \in Int
<1>1. f # Vazio
  <2>1. decodificar(Vazio, s) = "ErrArquivoInvalido"
    BY DEF decodificar
  <2> QED BY <2>1
<1>2. ASSUME NEW g, DecodeChain(g, s) = "none"
      PROVE  g.cert # Nada
  <2>1. g.cert = Nada => DecodeChain(g, s) \in {"outro", "ErrIncorrectPassword"}
    BY Zenon DEF DecodeChain
  <2> QED BY <1>2, <2>1
<1>3. f \in Ficheiros
  BY <1>1, FileGiven
<1>4. normalizarPFXBER(f, s) # Nada => normalizarPFXBER(f, s).cert = f.cert
  <2> DEFINE R == Packet("univ", TRUE, "seq", FALSE, berParaDER[f.raiz].porte, <<>>,
                         SubSeq(berParaDER[f.raiz].filhos, 1, 2))
             m == novoMacData(authSafeConteudo(berParaDER[f.raiz].filhos[2]), s)
             n == [f EXCEPT !.raiz = R, !.mac = m]
  <2>1. normalizarPFXBER(f, s) \in {Nada, n}
    BY Zenon DEF normalizarPFXBER
  <2>2. n.cert = f.cert
    <3>1. f = [x \in DOMAIN f |-> f[x]] /\ "cert" \in DOMAIN f
      BY <1>3 DEF Ficheiros
    <3> HIDE DEF R, m
    <3> QED BY <3>1
  <2> HIDE DEF n
  <2> QED BY <2>1, <2>2, Zenon
<1>5. f.cert # Nada
  <2>1. DecodeChain(f, s) \in {"none", "ErrIncorrectPassword", "outro"}
    BY Zenon DEF DecodeChain
  <2>2. DecodeChain(f, s) # "ErrIncorrectPassword"
    <3>1. "none" # "ErrSenhaIncorreta"
      OBVIOUS
    <3> QED BY <1>1, <3>1, Decoded, Zenon
  <2>3. CASE DecodeChain(f, s) = "outro"
    <3>1. Fallback(normalizarPFXBER(f, s), s) = "none"
      BY <1>1, <2>3, Decoded, Zenon
    <3>2. Fallback(Nada, s) = "ErrArquivoInvalido"
      BY DEF Fallback
    <3>3. normalizarPFXBER(f, s) # Nada
      BY <3>1, <3>2
    <3>4. verdictNormalised(DecodeChain(normalizarPFXBER(f, s), s)) = "none"
      BY <3>1, <3>3, Zenon DEF Fallback
    <3>5. \A e : verdictNormalised(e) = "none" => e = "none"
      BY DEF verdictNormalised
    <3> QED BY <1>2, <1>4, <3>3, <3>4, <3>5, Zenon
  <2> QED BY <1>2, <2>1, <2>2, <2>3
<1>6. f.cert \in Certificados
  <2> DEFINE M == [conteudo : Bytes(Pacotes), senha : STRING]
             C == Certificados \cup {Nada}
  <2>1. Ficheiros = [asn1 : BOOLEAN, raiz : Pacotes, mac : M, senha : STRING, cert : C]
    BY DEF Ficheiros
  <2>2. f.cert \in C
    <3> HIDE DEF M, C
    <3> QED BY <1>3, <2>1
  <2> QED BY <1>5, <2>2
<1> QED BY <1>6, CertificateFields

\* What MontarTLS says on a day, Abrir has said already.
LEMMA Foretold ==
  ASSUME NEW f \in Arquivos, NEW s, NEW n \in Int, NEW d \in 1..n, NEW m, m = MontarTLS(f, s, d),
         NEW i, i = Abrir(f, s)
  PROVE  /\ m \in {"ErrSenhaIncorreta", "ErrArquivoInvalido"} => i.err = m
         /\ i.err = "none" => m \in {"none", "ErrVencido"}
         /\ i.err = "none" /\ m = "ErrVencido" => Vencido(i, n)
<1> DEFINE e == decodificar(f, s)
           v == f.cert.vence
<1>1. m = IF e # "none" THEN e ELSE IF d > v THEN "ErrVencido" ELSE "none"
  BY DEF MontarTLS
<1>2. e \in {"none", "ErrArquivoInvalido", "ErrSenhaIncorreta"}
  BY DecodedErrors
<1>3. i.err = "none" => e = "none" /\ i.validade = v
  BY Opened, Zenon
<1>4. i.err # "none" /\ e # "none" => i.err = e
  BY Opened, Zenon
<1> HIDE DEF e
<1>5. m \in {"ErrSenhaIncorreta", "ErrArquivoInvalido"} => e # "none" /\ m = e
  BY <1>1, <1>2
<1>6. m \in {"ErrSenhaIncorreta", "ErrArquivoInvalido"} => i.err = m
  BY <1>3, <1>4, <1>5, Zenon
<1>7. i.err = "none" => m \in {"none", "ErrVencido"}
  BY <1>1, <1>3
<1>8. ASSUME i.err = "none", m = "ErrVencido"
      PROVE  Vencido(i, n)
  <2>1. d > v /\ i.validade = v
    BY <1>1, <1>3, <1>8
  <2>2. v \in Int
    BY <1>3, <1>8, OpensDated DEF e
  <2> QED BY <2>1, <2>2 DEF Vencido
<1> QED BY <1>6, <1>7, <1>8

\* The inductive invariant of a registration.
CertIInv ==
    /\ arquivo \in Arquivos \cup {SemArquivo}
    /\ hoje \in 1..MaxDia
    /\ config \in Erros
    /\ arquivo = SemArquivo =>
          /\ senha = "nenhuma"
          /\ info = Recusa("nunca")
          /\ config \in {"nunca", "none"}
    /\ arquivo # SemArquivo =>
          /\ senha \in Senhas
          /\ info = Abrir(arquivo, senha)
          /\ config = "nunca" \/ \E d \in 1..hoje : config = MontarTLS(arquivo, senha, d)

\* What follows from it: the types, the verdicts and the holders.
LEMMA CertTyped ==
  ASSUME CertIInv
  PROVE  CertTypeOK
<1>1. SemArquivo \notin Arquivos /\ "nenhuma" \notin Senhas
  BY CertificateAssumption
<1>2. CASE arquivo = SemArquivo
  <2>1. info.err = "nunca" /\ info.cnpj = <<>>
    BY <1>2 DEF CertIInv, Recusa, Info
  <2>2. info.err \in Erros \ {"ErrVencido"} /\ info.err # "none"
    BY <2>1 DEF Erros
  <2> QED BY <1>2, <2>1, <2>2, Zenon DEF CertIInv, CertTypeOK
<1>3. CASE arquivo # SemArquivo
  <2>1. info = Abrir(arquivo, senha) /\ senha \in Senhas
    BY <1>3 DEF CertIInv
  <2>2. info.err = "none" <=> info.cnpj # <<>>
    BY <2>1, Opened, Zenon
  <2>3. info.err \in {"none", "ErrArquivoInvalido", "ErrSenhaIncorreta"}
    BY <2>1, Opened, DecodedErrors, Zenon
  <2>4. info.err \in Erros \ {"ErrVencido"}
    BY <2>3 DEF Erros
  <2> QED BY <1>1, <1>3, <2>1, <2>2, <2>4, Zenon DEF CertIInv, CertTypeOK
<1> QED BY <1>2, <1>3

LEMMA VerdictGiven ==
  ASSUME CertIInv
  PROVE  CertificateVerdict
<1>1. SemArquivo \notin Arquivos
  BY CertificateAssumption
<1>2. ASSUME arquivo # SemArquivo
      PROVE  /\ arquivo \in Arquivos /\ senha \in Senhas /\ info = Abrir(arquivo, senha)
             /\ \/ config = "nunca"
                \/ \E d \in 1..hoje : config = MontarTLS(arquivo, senha, d)
  BY <1>2, Zenon DEF CertIInv
<1>3. ASSUME arquivo # SemArquivo, ~Pkcs12(arquivo)
      PROVE  info.err = "ErrArquivoInvalido"
  <2>1. decodificar(arquivo, senha) = "ErrArquivoInvalido"
    BY <1>2, <1>3, NotPkcs12
  <2>2. "ErrArquivoInvalido" # "none"
    OBVIOUS
  <2> QED BY <1>2, <1>3, <2>1, <2>2, Opened, Zenon
<1>4. ASSUME arquivo # SemArquivo, Integro(arquivo)
      PROVE  /\ info.err = "ErrSenhaIncorreta" <=> senha # arquivo.senha
             /\ config = "ErrSenhaIncorreta" => senha # arquivo.senha
  <2>1. decodificar(arquivo, senha) =
            IF senha = arquivo.senha THEN "none" ELSE "ErrSenhaIncorreta"
    BY <1>2, <1>4, IntegroVerdict
  <2>2. "ErrSenhaIncorreta" # "none" /\ "ErrSenhaIncorreta" # "ErrArquivoInvalido"
        /\ "ErrSenhaIncorreta" # "nunca"
    OBVIOUS
  <2>3. info.err = "ErrSenhaIncorreta" <=> senha # arquivo.senha
    BY <1>2, <1>4, <2>1, <2>2, Opened, Zenon
  <2>4. config = "ErrSenhaIncorreta" => senha # arquivo.senha
    BY <1>2, <1>4, <2>1, <2>2, Mounted, Zenon
  <2> QED BY <2>3, <2>4
<1>5. ASSUME config # "nunca"
      PROVE  /\ config \in {"ErrSenhaIncorreta", "ErrArquivoInvalido"} => info.err = config
             /\ info.err = "none" => config \in {"none", "ErrVencido"}
             /\ info.err = "none" /\ config = "ErrVencido" => Vencido(info, hoje)
  <2>1. CASE arquivo = SemArquivo
    <3>1. info.err = "nunca" /\ config = "none"
      BY <1>5, <2>1 DEF CertIInv, Recusa, Info
    <3> QED BY <3>1
  <2>2. CASE arquivo # SemArquivo
    <3>1. PICK d \in 1..hoje : config = MontarTLS(arquivo, senha, d)
      BY <1>2, <1>5, <2>2, Zenon
    <3>2. info = Abrir(arquivo, senha) /\ arquivo \in Arquivos
      BY <1>2, <2>2
    <3>3. hoje \in Int
      BY DEF CertIInv
    <3> QED BY <3>1, <3>2, <3>3, Foretold
  <2> QED BY <2>1, <2>2
<1> QED BY <1>3, <1>4, <1>5, Zenon DEF CertificateVerdict, PasswordBlamed, ScreenForetells

LEMMA HolderGiven ==
  ASSUME CertIInv
  PROVE  HolderFound
<1> DEFINE c == arquivo.cert
<1>1. SUFFICES ASSUME arquivo \notin {SemArquivo, Vazio}, c # Nada
               PROVE  /\ info.err = "none" => info.cnpj = c.titular
                      /\ Impresso(c) /\ config \in {"none", "ErrVencido"}
                         => info.err = "none"
  BY Zenon DEF HolderFound
<1>2. /\ arquivo \in Arquivos /\ info = Abrir(arquivo, senha)
      /\ config = "nunca" \/ \E d \in 1..hoje : config = MontarTLS(arquivo, senha, d)
  BY <1>1, Zenon DEF CertIInv
<1>3. c \in Certificados /\ Emitido(c)
  <2>1. arquivo \in Ficheiros /\ Emitido(c)
    BY <1>1, <1>2, FileGiven
  <2> DEFINE M == [conteudo : Bytes(Pacotes), senha : STRING]
             C == Certificados \cup {Nada}
  <2>2. Ficheiros = [asn1 : BOOLEAN, raiz : Pacotes, mac : M, senha : STRING, cert : C]
    BY DEF Ficheiros
  <2>3. c \in C
    <3> HIDE DEF M, C
    <3> QED BY <2>1, <2>2
  <2> QED BY <1>1, <2>1, <2>3
<1>4. ASSUME info.err = "none"
      PROVE  info.cnpj = c.titular
  <2>1. info.cnpj = identidade(c) /\ identidade(c) # <<>>
    BY <1>2, <1>4, Opened, Zenon
  <2> QED BY <1>3, <2>1, HolderOnly
<1>5. ASSUME Impresso(c), config \in {"none", "ErrVencido"}
      PROVE  info.err = "none"
  <2>1. config # "nunca"
    BY <1>5
  <2>2. decodificar(arquivo, senha) = "none"
    BY <1>2, <1>5, <2>1, Mounted, Zenon
  <2>3. identidade(c) # <<>>
    BY <1>3, <1>5, HolderPrinted
  <2> QED BY <1>2, <2>2, <2>3, Opened, Zenon
<1> QED BY <1>4, <1>5

-----------------------------------------------------------------------------
(* A stock entry. *)

\* While a certificate is being registered nothing was made of one before, and
\* afterwards none is registered.
EntryInv ==
    /\ CertIInv
    /\ fase \in {"cadastro", "leitura", "conta"}
    /\ fase = "cadastro" /\ arquivo = SemArquivo => config = "nunca"

\* It holds at first and every step keeps it.
LEMMA InitEntry == Init => EntryInv
<1>1. 1 \in 1..MaxDia /\ "nunca" \in Erros
  BY CertificateAssumption DEF Erros
<1> QED BY <1>1 DEF Init, CertInit, EntryInv, CertIInv

LEMMA NextCert ==
  ASSUME EntryInv, fase = "cadastro", CertNext
  PROVE  CertIInv' /\ (arquivo' = SemArquivo => config' = "nunca")
<1>1. SemArquivo \notin Arquivos /\ MaxDia \in Nat /\ "nunca" \in Erros
  BY CertificateAssumption DEF Erros
<1>2. CertIInv
  BY DEF EntryInv
<1>3. ASSUME NEW s \in Senhas, NEW f \in Arquivos, Cadastrar(f, s)
      PROVE  CertIInv' /\ (arquivo' = SemArquivo => config' = "nunca")
  <2>1. config = "nunca"
    BY <1>3, Zenon DEF EntryInv, Cadastrar
  <2> QED BY <1>1, <1>2, <1>3, <2>1, Zenon DEF Cadastrar, CertIInv
<1>4. ASSUME NEW s \in Senhas, TentarSenha(s)
      PROVE  CertIInv' /\ (arquivo' = SemArquivo => config' = "nunca")
  BY <1>1, <1>2, <1>4, Zenon DEF TentarSenha, CertIInv
<1>5. ASSUME Conectar
      PROVE  CertIInv' /\ (arquivo' = SemArquivo => config' = "nunca")
  <2>1. config' \in Erros
    BY <1>5, Mounted, Zenon DEF Conectar
  <2>2. hoje \in 1..hoje
    BY <1>2 DEF CertIInv
  <2> QED BY <1>2, <1>5, <2>1, <2>2, Zenon DEF Conectar, CertIInv
<1>6. ASSUME Amanhecer
      PROVE  CertIInv' /\ (arquivo' = SemArquivo => config' = "nunca")
  <2>1. hoje' \in 1..MaxDia /\ \A d \in 1..hoje : d \in 1..hoje'
    BY <1>1, <1>2, <1>6 DEF Amanhecer, CertIInv
  <2> QED BY <1>2, <1>6, <2>1, Zenon DEF Amanhecer, CertIInv
<1> QED BY <1>3, <1>4, <1>5, <1>6, Zenon DEF CertNext

LEMMA NextEntry ==
  ASSUME EntryInv, [Next]_vars
  PROVE  EntryInv'
<1>1. CASE Registration
  <2>1. CertIInv' /\ (arquivo' = SemArquivo => config' = "nunca")
    BY <1>1, NextCert, Zenon DEF Registration
  <2> QED BY <1>1, <2>1, Zenon DEF Registration, EntryInv
<1>2. CASE Comecar
  <2>1. MaxDia \in 1..MaxDia
    BY CertificateAssumption
  <2>2. fase' = "leitura" /\ fase' # "cadastro"
    BY <1>2 DEF Comecar
  <2>3. CertIInv'
    BY <1>2, <2>1, Zenon DEF Comecar, EntryInv, CertIInv
  <2> QED BY <2>2, <2>3, Zenon DEF EntryInv
<1>3. CASE Reading
  BY <1>3, Zenon DEF Reading, certVars, EntryInv, CertIInv
<1>4. CASE Encerrar
  <2>1. fase' = "conta" /\ fase' # "cadastro"
    BY <1>4 DEF Encerrar
  <2> QED BY <1>4, <2>1, Zenon DEF Encerrar, certVars, EntryInv, CertIInv
<1>5. CASE Charging
  BY <1>5, Zenon DEF Charging, certVars, EntryInv, CertIInv
<1>6. CASE UNCHANGED vars
  BY <1>6, Zenon DEF vars, certVars, EntryInv, CertIInv
<1> QED BY <1>1, <1>2, <1>3, <1>4, <1>5, <1>6 DEF Next

LEMMA EntryKept == Spec => []EntryInv
<1> QED BY InitEntry, NextEntry, PTL DEF Spec

\* A stock entry is a run of each of its parts.
LEMMA EntryReads == Spec => ReadSpec
<1>1. Init => ReadInit
  BY DEF Init
<1>2. [Next]_vars => [ReadNext]_readVars
  BY Zenon DEF Next, Registration, Comecar, Reading, Encerrar, Charging, vars
<1> QED BY <1>1, <1>2, PTL DEF Spec, ReadSpec

LEMMA EntryCosts == Spec => CostSpec
<1>1. Init => CostInit
  BY DEF Init
<1>2. [Next]_vars => [CostNext]_costVars
  BY Zenon DEF Next, Registration, Comecar, Reading, Encerrar, Charging, vars
<1> QED BY <1>1, <1>2, PTL DEF Spec, CostSpec

\* Whatever the files, documents and prices: the type invariant.
THEOREM EntryTyped == Spec => []TypeOK
<1>1. EntryInv /\ ReadTypeOK /\ CostIInv => TypeOK
  BY CertTyped, Zenon DEF EntryInv, CostIInv, TypeOK
<1> QED BY <1>1, EntryKept, EntryReads, EntryCosts, ReadTyped, CostTyped, PTL

\* A BER file is rewritten into the DER that it stands for, with every content
\* kept, at any height of its tree, and a second rewriting changes nothing.
THEOREM NormalisedInside == Spec => []NormalisationKeeps
<1>1. EntryInv => NormalisationKeeps
  BY KeepsNormalised DEF EntryInv, CertIInv, Registrado
<1> QED BY <1>1, EntryKept, PTL

\* A wrong password is what is blamed when it is to blame, a file that is no
\* PKCS#12 is called invalid, and the screen foretells the use.
THEOREM VerdictsRight == Spec => []CertificateVerdict
<1>1. EntryInv => CertificateVerdict
  BY VerdictGiven DEF EntryInv
<1> QED BY <1>1, EntryKept, PTL

\* The CNPJ shown is the holder's, and it is found wherever it was printed.
THEOREM HoldersFound == Spec => []HolderFound
<1>1. EntryInv => HolderFound
  BY HolderGiven DEF EntryInv
<1> QED BY <1>1, EntryKept, PTL

\* What was proved of the reading of documents and of the account holds in the
\* whole entry.
THEOREM PartsCompose ==
  Spec => [](WrongOnlyInSilence /\ CorrectionsHonest /\ NeverUndercharged)
BY EntryReads, EntryCosts, SentAsPrinted, CorrectionsAccount, NothingLost, PTL

\* And what was proved of photos, at the limits the code publishes.
THEOREM PartsComposePhotos ==
  ASSUME PublishedLimits
  PROVE  Spec => []PhotoPriced
BY EntryCosts, PhotosPriced, PTL
=============================================================================
