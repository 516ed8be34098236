-------------------------- MODULE PhoneDedupProofs --------------------------
(***************************************************************************)
(* Phones, for every set of lines and of carrier codes: what the keys make *)
(* of each way to write a number, and the board that rests on it.          *)
(***************************************************************************)
EXTENDS PhoneDedup, TextProofs

Numeral == Seq(0..9)
Text == Seq(0..10)

-----------------------------------------------------------------------------
(* The helpers on texts. *)

LEMMA DigitsKept ==
  ASSUME NEW s \in Text
  PROVE  soDigitos(s) \in Numeral
<1>1. Keep(s, 0..9) \in Seq(0..10 \cap 0..9)
  BY KeepType DEF Text
<1>2. 0..10 \cap 0..9 = 0..9
  OBVIOUS
<1> QED BY <1>1, <1>2 DEF soDigitos, Numeral

\* Digits alone, and digits after or around another character.
LEMMA DigitsOnly ==
  ASSUME NEW d \in Numeral
  PROVE  soDigitos(d) = d
<1>1. \A i \in 1..Len(d) : d[i] \in 0..9
  BY DEF Numeral
<1> QED BY <1>1, KeepAll DEF soDigitos, Numeral

LEMMA OthersDropped ==
  ASSUME NEW d \in Numeral, NEW e \in Numeral
  PROVE  soDigitos(<<Other>> \o d \o <<Other>> \o e) = d \o e
<1> DEFINE S == 0..9
           o == <<Other>>
           u == o \o d
           v == u \o o
<1>1. o \in Text /\ d \in Text /\ e \in Text
  <2>1. 0..9 \subseteq 0..10 /\ Other \in 0..10
    BY DEF Other
  <2> QED BY <2>1 DEF Numeral, Text
<1>2. Keep(o, S) = <<>>
  BY KeepOne DEF Other
<1>3. Keep(d, S) = d /\ Keep(e, S) = e
  BY DigitsOnly DEF soDigitos
<1>4. <<>> \o d = d /\ d \o <<>> = d
  BY DEF Numeral
<1>5. ASSUME NEW x \in Text, NEW y \in Text
      PROVE  x \o y \in Text /\ Keep(x \o y, S) = Keep(x, S) \o Keep(y, S)
  <2> DEFINE T == 0..10
  <2>1. x \in Seq(T) /\ y \in Seq(T)
    BY DEF Text
  <2>2. x \o y \in Text
    BY <2>1 DEF Text
  <2> HIDE DEF T, S
  <2>3. Keep(x \o y, S) = Keep(x, S) \o Keep(y, S)
    BY <2>1, KeepConcat
  <2> QED BY <2>2, <2>3
<1> HIDE DEF o, S
<1>6. u \in Text /\ Keep(u, S) = d
  BY <1>1, <1>2, <1>3, <1>4, <1>5
<1> HIDE DEF u
<1>7. v \in Text /\ Keep(v, S) = d
  BY <1>1, <1>2, <1>4, <1>5, <1>6
<1> HIDE DEF v
<1>8. Keep(v \o e, S) = d \o e
  BY <1>1, <1>3, <1>5, <1>7, ZenonT(40)
<1> QED BY <1>8 DEF soDigitos, o, S, u, v

LEMMA TrimType ==
  ASSUME NEW d \in Numeral
  PROVE  TrimZeros(d) \in Numeral
<1> DEFINE P == {i \in DOMAIN d : d[i] # 0}
<1>1. CASE P = {}
  BY <1>1 DEF TrimZeros, Numeral
<1>2. CASE P # {}
  <2>1. P \in SUBSET Nat
    BY DEF Numeral
  <2>2. PICK i \in P : i = CHOOSE m \in P : \A j \in P : m <= j
    BY <1>2, <2>1, Least
  <2>3. SubSeq(d, i, Len(d)) \in Numeral
    BY DEF Numeral
  <2> QED BY <1>2, <2>2, <2>3 DEF TrimZeros
<1> QED BY <1>1, <1>2

LEMMA NothingTrimmed ==
  ASSUME NEW d \in Numeral, d # <<>>, d[1] # 0
  PROVE  TrimZeros(d) = d
<1> DEFINE P == {i \in DOMAIN d : d[i] # 0}
<1>1. 1 \in P /\ \A j \in P : 1 <= j
  BY DEF Numeral
<1>2. \A i \in P : (\A j \in P : i <= j) => i = 1
  BY <1>1 DEF Numeral
<1>3. (CHOOSE i \in P : \A j \in P : i <= j) = 1
  <2> HIDE DEF P
  <2> QED BY <1>1, <1>2
<1>4. P # {}
  BY <1>1
<1>5. TrimZeros(d) = SubSeq(d, 1, Len(d))
  BY <1>3, <1>4 DEF TrimZeros
<1> QED BY <1>5 DEF Numeral

LEMMA ZeroTrimmed ==
  ASSUME NEW d \in Numeral, d # <<>>, d[1] # 0
  PROVE  TrimZeros(<<0>> \o d) = d
<1> DEFINE z == <<0>> \o d
           P == {i \in DOMAIN z : z[i] # 0}
<1>1. /\ z \in Numeral /\ Len(z) = Len(d) + 1 /\ z[1] = 0 /\ z[2] = d[1]
      /\ SubSeq(z, 2, Len(z)) = d /\ Len(d) >= 1
  BY DEF Numeral
<1>2. DOMAIN z = 1..Len(z)
  BY <1>1 DEF Numeral
<1> HIDE DEF z
<1>3. 2 \in P /\ \A j \in P : 2 <= j
  BY <1>1, <1>2 DEF Numeral
<1>4. (CHOOSE i \in P : \A j \in P : i <= j) = 2
  <2>1. \A i \in P : (\A j \in P : i <= j) => i = 2
    BY <1>2, <1>3
  <2> HIDE DEF P
  <2> QED BY <1>3, <2>1
<1>5. P # {}
  BY <1>3
<1>6. TrimZeros(z) = SubSeq(z, 2, Len(z))
  BY <1>4, <1>5 DEF TrimZeros
<1> QED BY <1>1, <1>6 DEF z

LEMMA PrefixElements ==
  ASSUME NEW d \in Numeral, NEW p \in Numeral
  PROVE  HasPrefix(d, p) <=> Len(d) >= Len(p) /\ \A i \in 1..Len(p) : d[i] = p[i]
<1>1. CASE Len(d) >= Len(p)
  <2> DEFINE h == SubSeq(d, 1, Len(p))
  <2>1. h \in Numeral /\ Len(h) = Len(p) /\ \A i \in 1..Len(p) : h[i] = d[i]
    BY <1>1 DEF Numeral
  <2> HIDE DEF h
  <2>2. ASSUME \A i \in 1..Len(p) : d[i] = p[i]
        PROVE  h = p
    BY <2>1, <2>2 DEF Numeral
  <2>3. HasPrefix(d, p) <=> h = p
    BY <1>1 DEF HasPrefix, h
  <2> QED BY <1>1, <2>1, <2>2, <2>3
<1> QED BY <1>1 DEF HasPrefix

LEMMA Joined ==
  ASSUME NEW a \in Numeral, NEW b \in Numeral
  PROVE  /\ a \o b \in Numeral /\ Len(a \o b) = Len(a) + Len(b)
         /\ \A i \in 1..Len(a) : (a \o b)[i] = a[i]
         /\ \A i \in 1..Len(b) : (a \o b)[i + Len(a)] = b[i]
         /\ From(a \o b, Len(a) + 1) = b
<1> DEFINE d == a \o b
<1>1. /\ d \in Numeral /\ Len(d) = Len(a) + Len(b)
      /\ \A i \in 1..Len(a) : d[i] = a[i]
      /\ \A i \in 1..Len(b) : d[i + Len(a)] = b[i]
  BY DEF Numeral
<1> HIDE DEF d
<1> DEFINE f == SubSeq(d, Len(a) + 1, Len(d))
<1>2. f \in Numeral /\ Len(f) = Len(b) /\ \A i \in 1..Len(b) : f[i] = d[i + Len(a)]
  BY <1>1 DEF Numeral
<1>3. f = b
  <2> HIDE DEF f
  <2> QED BY <1>1, <1>2 DEF Numeral
<1> QED BY <1>1, <1>3 DEF d, From

\* The same with the lengths named; the provers lose their way in Len.
LEMMA JoinedAt ==
  ASSUME NEW a \in Numeral, NEW b \in Numeral,
         NEW k \in Nat, NEW m \in Nat, Len(a) = k, Len(b) = m
  PROVE  /\ Len(a \o b) = k + m
         /\ \A i \in 1..k : (a \o b)[i] = a[i]
         /\ \A i \in 1..m : (a \o b)[i + k] = b[i]
         /\ From(a \o b, k + 1) = b
<1>1. /\ Len(a \o b) = Len(a) + Len(b)
      /\ \A i \in 1..Len(a) : (a \o b)[i] = a[i]
      /\ \A i \in 1..Len(b) : (a \o b)[i + Len(a)] = b[i]
      /\ From(a \o b, Len(a) + 1) = b
  BY Joined, Zenon
<1> QED BY <1>1, SMT

LEMMA Lengths ==
  ASSUME NEW k \in {10, 11}
  PROVE  /\ k + 2 \in {12, 13} /\ 2 + k = k + 2 /\ 3 + k = k + 3 /\ k \notin {12, 13}
         /\ k \in Nat /\ k >= 3 /\ k # 0
OBVIOUS

LEMMA LongLengths ==
  ASSUME NEW k \in {12, 13}
  PROVE  k >= 3
OBVIOUS

LEMMA JoinedTwo ==
  ASSUME NEW a \in Numeral, Len(a) = 2, NEW b \in Numeral, Len(b) \in {10, 11}
  PROVE  /\ a \o b \in Numeral /\ a \o b # <<>>
         /\ Len(a \o b) = Len(b) + 2 /\ Len(a \o b) \in {12, 13}
         /\ Len(a \o b) >= 3
         /\ (a \o b)[1] = a[1] /\ (a \o b)[2] = a[2]
         /\ (a \o b)[3] = b[1] /\ (a \o b)[4] = b[2]
         /\ From(a \o b, 3) = b
<1> DEFINE k == Len(b)
           d == a \o b
<1>1. k \in {10, 11} /\ k \in Nat
  BY Lengths, Zenon
<1>2. /\ Len(d) = 2 + k
      /\ \A i \in 1..2 : d[i] = a[i]
      /\ \A i \in 1..k : d[i + 2] = b[i]
      /\ From(d, 2 + 1) = b
  BY <1>1, JoinedAt, 2 \in Nat, ZenonT(40)
<1>3. d \in Numeral
  BY Joined, Zenon
<1> HIDE DEF k, d
<1>4. 2 + k \in {12, 13} /\ 2 + k = k + 2 /\ 2 + k >= 3 /\ 2 + k # 0
  BY <1>1
<1>5. /\ d[1] = a[1] /\ d[2] = a[2]
      /\ d[3] = b[1] /\ d[4] = b[2]
      /\ From(d, 3) = b
  BY <1>1, <1>2
<1>6. Len(d) \in {12, 13} /\ Len(d) = k + 2 /\ Len(d) >= 3 /\ Len(d) # 0
  BY <1>2, <1>4, Zenon
<1>7. d # <<>>
  BY <1>6
<1> QED BY <1>3, <1>5, <1>6, <1>7, Zenon DEF k, d

LEMMA PartType ==
  ASSUME NEW d \in Numeral, NEW m \in 1..Len(d), NEW n \in m..Len(d)
  PROVE  SubSeq(d, m, n) \in Numeral
<1> DEFINE T == 0..9
<1>1. d \in Seq(T)
  BY DEF Numeral
<1> HIDE DEF T
<1>2. SubSeq(d, m, n) \in Seq(T)
  BY <1>1
<1> QED BY <1>2 DEF T, Numeral

LEMMA Associative ==
  ASSUME NEW a \in Numeral, NEW b \in Numeral, NEW c \in Numeral
  PROVE  a \o b \o c = a \o (b \o c)
BY DEF Numeral

LEMMA CountryCode ==
  BR \in Numeral /\ Len(BR) = 2 /\ BR[1] = 5 /\ BR[2] = 5
BY DEF BR, Numeral

LEMMA ZeroText ==
  <<0>> \in Numeral /\ Len(<<0>>) = 1 /\ <<0>>[1] = 0
BY DEF Numeral

LEMMA CountryZero ==
  LET p == BR \o <<0>>
  IN  p \in Numeral /\ Len(p) = 3 /\ p[1] = 5 /\ p[2] = 5 /\ p[3] = 0
<1> DEFINE z == <<0>>
           p == BR \o z
<1>1. z \in Numeral /\ Len(z) = 1 /\ z[1] = 0
  BY ZeroText
<1> HIDE DEF z
<1>2. /\ Len(p) = 2 + 1
      /\ \A i \in 1..2 : p[i] = BR[i]
      /\ \A i \in 1..1 : p[i + 2] = z[i]
  BY <1>1, CountryCode, JoinedAt, 1 \in Nat, 2 \in Nat, ZenonT(40)
<1>3. p \in Numeral
  BY <1>1, CountryCode, Joined, Zenon
<1> HIDE DEF p
<1>4. p[1] = 5 /\ p[2] = 5 /\ p[3] = 0
  BY <1>1, <1>2, CountryCode
<1>5. Len(p) = 3
  BY <1>2
<1> QED BY <1>3, <1>4, <1>5 DEF p, z

LEMMA WrittenPrefixes ==
  ASSUME NEW d \in Numeral
  PROVE  /\ HasPrefix(d, BR) <=> Len(d) >= 2 /\ d[1] = 5 /\ d[2] = 5
         /\ HasPrefix(d, BR \o <<0>>)
               <=> Len(d) >= 3 /\ d[1] = 5 /\ d[2] = 5 /\ d[3] = 0
         /\ HasPrefix(d, <<0>>) <=> Len(d) >= 1 /\ d[1] = 0
<1>1. HasPrefix(d, BR) <=> Len(d) >= 2 /\ d[1] = 5 /\ d[2] = 5
  <2> DEFINE p == BR
  <2>1. p \in Numeral /\ Len(p) = 2 /\ p[1] = 5 /\ p[2] = 5
    BY DEF BR, Numeral
  <2> HIDE DEF p
  <2>2. HasPrefix(d, p) <=> Len(d) >= Len(p) /\ \A i \in 1..Len(p) : d[i] = p[i]
    BY <2>1, PrefixElements
  <2> QED BY <2>1, <2>2 DEF p
<1>2. HasPrefix(d, BR \o <<0>>)
         <=> Len(d) >= 3 /\ d[1] = 5 /\ d[2] = 5 /\ d[3] = 0
  <2> DEFINE p == BR \o <<0>>
  <2>2. p \in Numeral /\ Len(p) = 3 /\ p[1] = 5 /\ p[2] = 5 /\ p[3] = 0
    BY CountryZero
  <2> HIDE DEF p
  <2>3. HasPrefix(d, p) <=> Len(d) >= Len(p) /\ \A i \in 1..Len(p) : d[i] = p[i]
    BY <2>2, PrefixElements
  <2> QED BY <2>2, <2>3 DEF p
<1>3. HasPrefix(d, <<0>>) <=> Len(d) >= 1 /\ d[1] = 0
  <2> DEFINE p == <<0>>
  <2>1. p \in Numeral /\ Len(p) = 1 /\ p[1] = 0
    BY DEF Numeral
  <2> HIDE DEF p
  <2>2. HasPrefix(d, p) <=> Len(d) >= Len(p) /\ \A i \in 1..Len(p) : d[i] = p[i]
    BY <2>1, PrefixElements
  <2> QED BY <2>1, <2>2 DEF p
<1> QED BY <1>1, <1>2, <1>3

-----------------------------------------------------------------------------
(* The ways to write a number all have the number as their stored key. *)

\* Area code and number, no trunk zero after the area code.
IsNumber(n) ==
    /\ n \in Numeral
    /\ Len(n) \in {10, 11}
    /\ dddValido(SubSeq(n, 1, 2))
    /\ n[3] # 0

LEMMA NumberShape ==
  ASSUME NEW n, IsNumber(n)
  PROVE  /\ n \in Numeral /\ Len(n) \in {10, 11} /\ Len(n) \notin {12, 13}
         /\ n # <<>> /\ n[1] \in 1..9
         /\ TrimZeros(n) = n /\ TrimZeros(<<0>> \o n) = n
         /\ ~HasPrefix(n, BR \o <<0>>)
<1>1. n \in Numeral /\ Len(n) \in {10, 11} /\ SubSeq(n, 1, 2)[1] = n[1]
  BY DEF IsNumber, Numeral
<1>2. n # <<>> /\ n[1] \in 1..9 /\ n[1] # 0
  BY <1>1 DEF IsNumber, dddValido
<1>3. ~HasPrefix(n, BR \o <<0>>)
  BY <1>1, WrittenPrefixes DEF IsNumber
<1>4. Len(n) \notin {12, 13}
  BY <1>1, Lengths, Zenon
<1> QED BY <1>1, <1>2, <1>3, <1>4, NothingTrimmed, ZeroTrimmed, Zenon

LEMMA DirectKey ==
  ASSUME NEW n, IsNumber(n), NEW w, soDigitos(w) = n \/ soDigitos(w) = << 0 >> \o n
  PROVE  ChaveLocal(w) = n
<1>1. TrimZeros(soDigitos(w)) = n /\ SemTronco(n) = n
  BY NumberShape DEF SemTronco
<1>2. Len(n) \notin {12, 13}
  BY NumberShape
<1>3. SemOperadora(n, HasPrefix(soDigitos(w), <<0>>)) = n /\ SemPais(n) = n
  BY <1>2 DEF SemOperadora, SemPais
<1> QED BY <1>1, <1>3 DEF ChaveLocal, digitosBR

\* The country code in front of a number.
LEMMA CountryShape ==
  ASSUME NEW n, IsNumber(n)
  PROVE  /\ BR \o n \in Numeral /\ Len(BR \o n) = Len(n) + 2
         /\ Len(BR \o n) \in {12, 13} /\ BR \o n # <<>>
         /\ TrimZeros(BR \o n) = BR \o n
         /\ HasPrefix(BR \o n, BR) /\ ~HasPrefix(BR \o n, BR \o <<0>>)
         /\ From(BR \o n, 3) = n
<1> DEFINE d == BR \o n
<1>1. n \in Numeral /\ Len(n) \in {10, 11} /\ n[1] \in 1..9
  BY NumberShape
<1>2. /\ d \in Numeral /\ d # <<>>
      /\ Len(d) = Len(n) + 2 /\ Len(d) \in {12, 13} /\ Len(d) >= 3
      /\ d[1] = BR[1] /\ d[2] = BR[2] /\ d[3] = n[1]
      /\ From(d, 3) = n
  BY <1>1, CountryCode, JoinedTwo, Zenon
<1>3. d[1] = 5 /\ d[2] = 5 /\ d[1] # 0 /\ d[3] # 0
  BY <1>1, <1>2, CountryCode
<1> HIDE DEF d
<1>4. Len(d) >= 2
  BY <1>2
<1>5. TrimZeros(d) = d
  BY <1>2, <1>3, NothingTrimmed, Zenon
<1>6. HasPrefix(d, BR) /\ ~HasPrefix(d, BR \o <<0>>)
  BY <1>2, <1>3, <1>4, WrittenPrefixes, Zenon
<1> QED BY <1>2, <1>5, <1>6, Zenon DEF d

LEMMA CountryKey ==
  ASSUME NEW n, IsNumber(n), NEW w, soDigitos(w) = BR \o n
  PROVE  ChaveLocal(w) = n
<1>1. SemTronco(TrimZeros(soDigitos(w))) = BR \o n
  BY CountryShape DEF SemTronco
<1>2. SemOperadora(BR \o n, HasPrefix(soDigitos(w), <<0>>)) = BR \o n
  BY CountryShape DEF SemOperadora
<1>3. Len(BR \o n) \in {12, 13}
  BY CountryShape
<1>4. SemPais(BR \o n) = n
  BY <1>3, CountryShape DEF SemPais
<1> QED BY <1>1, <1>2, <1>4 DEF ChaveLocal, digitosBR

\* The country code and a trunk zero in front of a number.
LEMMA TrunkShape ==
  ASSUME NEW n, IsNumber(n)
  PROVE  LET d == BR \o <<0>> \o n
         IN  /\ d \in Numeral /\ Len(d) = Len(n) + 3
             /\ TrimZeros(d) = d
             /\ HasPrefix(d, BR \o <<0>>) /\ HasPrefix(d, BR)
             /\ From(d, 3) = <<0>> \o n
             /\ SubSeq(d, 3, 4)[1] = 0
<1> DEFINE p == BR \o <<0>>
           d == p \o n
           k == Len(n)
<1>1. n \in Numeral /\ k \in {10, 11} /\ k \in Nat
  BY NumberShape, Lengths, Zenon
<1>2. p \in Numeral /\ Len(p) = 3 /\ p[1] = 5 /\ p[2] = 5 /\ p[3] = 0
  BY CountryZero
<1>3. From(d, 3) = <<0>> \o n
  <2> DEFINE z == <<0>>
  <2>1. z \in Numeral /\ BR \o (z \o n) = (BR \o z) \o n
    BY <1>1, ZeroText, CountryCode DEF Numeral
  <2>2. z \o n \in Numeral
    BY <1>1, ZeroText, Joined, Zenon
  <2> HIDE DEF z
  <2>3. From(BR \o (z \o n), Len(BR) + 1) = z \o n
    BY <2>2, CountryCode, Joined, Zenon
  <2>4. Len(BR) + 1 = 3
    BY CountryCode
  <2> QED BY <2>1, <2>3, <2>4, Zenon DEF z
<1> HIDE DEF p
<1>4. d \in Numeral /\ Len(d) = 3 + k /\ \A i \in 1..3 : d[i] = p[i]
  <2>1. 3 \in Nat /\ Len(n) = k
    OBVIOUS
  <2> HIDE DEF k
  <2>2. Len(p \o n) = 3 + k /\ \A i \in 1..3 : (p \o n)[i] = p[i]
    BY <1>1, <1>2, <2>1, JoinedAt, ZenonT(40)
  <2>3. p \o n \in Numeral
    BY <1>1, <1>2, Joined, Zenon
  <2> QED BY <2>2, <2>3, Zenon
<1> HIDE DEF d, k
<1>5. /\ d[1] = 5 /\ d[2] = 5 /\ d[3] = 0 /\ d[1] # 0
      /\ Len(d) = k + 3 /\ Len(d) >= 3 /\ Len(d) >= 2
  BY <1>1, <1>2, <1>4
<1>6. d # <<>>
  BY <1>5
<1>7. TrimZeros(d) = d
  BY <1>4, <1>5, <1>6, NothingTrimmed, Zenon
<1>8. HasPrefix(d, BR \o <<0>>) /\ HasPrefix(d, BR)
  BY <1>4, <1>5, WrittenPrefixes, Zenon
<1>9. SubSeq(d, 3, 4)[1] = 0
  BY <1>1, <1>4, <1>5 DEF Numeral
<1> QED BY <1>3, <1>4, <1>5, <1>7, <1>8, <1>9, Zenon DEF d, p, k

LEMMA TrunkKey ==
  ASSUME NEW n, IsNumber(n), NEW w, soDigitos(w) = BR \o << 0 >> \o n
  PROVE  ChaveLocal(w) = n
<1> DEFINE d == BR \o <<0>> \o n
<1>0. /\ TrimZeros(d) = d /\ HasPrefix(d, BR \o <<0>>)
      /\ From(d, 3) = <<0>> \o n /\ TrimZeros(<<0>> \o n) = n
  BY TrunkShape, NumberShape, Zenon
<1>1. SemTronco(TrimZeros(soDigitos(w))) = BR \o n
  <2> HIDE DEF d
  <2>1. soDigitos(w) = d
    BY DEF d
  <2> QED BY <1>0, <2>1 DEF SemTronco
<1>2. SemOperadora(BR \o n, HasPrefix(soDigitos(w), <<0>>)) = BR \o n
  BY CountryShape DEF SemOperadora
<1>3. Len(BR \o n) \in {12, 13}
  BY CountryShape
<1>4. SemPais(BR \o n) = n
  BY <1>3, CountryShape DEF SemPais
<1> QED BY <1>1, <1>2, <1>4 DEF ChaveLocal, digitosBR

\* A carrier and a number, dialled with a trunk zero.
LEMMA CarrierShape ==
  ASSUME NEW n, IsNumber(n), NEW c, IsCarrier(c)
  PROVE  LET d == c \o n
         IN  /\ d \in Numeral /\ Len(d) = Len(n) + 2 /\ Len(d) \in {12, 13}
             /\ TrimZeros(<<0>> \o d) = d
             /\ ~HasPrefix(d, BR) /\ ~HasPrefix(d, BR \o <<0>>)
             /\ HasPrefix(<<0>> \o d, <<0>>)
             /\ From(d, 3) = n
             /\ SubSeq(d, 3, 4) = SubSeq(n, 1, 2)
<1> DEFINE d == c \o n
<1>1. n \in Numeral /\ Len(n) \in {10, 11} /\ c \in Numeral /\ Len(c) = 2
  BY NumberShape DEF IsCarrier, Numeral
<1>2. c[1] # 0 /\ (c[1] # 5 \/ c[2] # 5)
  <2>1. c = <<c[1], c[2]>>
    BY <1>1 DEF Numeral
  <2> QED BY <2>1 DEF IsCarrier, BR
<1>3. /\ d \in Numeral /\ d # <<>> /\ Len(d) >= 3
      /\ Len(d) = Len(n) + 2 /\ Len(d) \in {12, 13} /\ From(d, 3) = n
      /\ d[1] = c[1] /\ d[2] = c[2] /\ d[3] = n[1] /\ d[4] = n[2]
  BY <1>1, JoinedTwo, Zenon
<1> HIDE DEF d
<1>4. SubSeq(d, 3, 4) = SubSeq(n, 1, 2)
  <2>1. /\ SubSeq(d, 3, 4) \in Numeral /\ Len(SubSeq(d, 3, 4)) = 2
        /\ SubSeq(d, 3, 4)[1] = d[3] /\ SubSeq(d, 3, 4)[2] = d[4]
    BY <1>1, <1>3 DEF Numeral
  <2>2. /\ SubSeq(n, 1, 2) \in Numeral /\ Len(SubSeq(n, 1, 2)) = 2
        /\ SubSeq(n, 1, 2)[1] = n[1] /\ SubSeq(n, 1, 2)[2] = n[2]
    BY <1>1 DEF Numeral
  <2> QED BY <1>3, <2>1, <2>2 DEF Numeral
<1>5. TrimZeros(<<0>> \o d) = d
  BY <1>2, <1>3, ZeroTrimmed, Zenon
<1>6. <<0>> \o d \in Numeral /\ (<<0>> \o d)[1] = 0 /\ Len(<<0>> \o d) >= 1
  BY <1>3 DEF Numeral
<1>7. HasPrefix(<<0>> \o d, <<0>>)
  BY <1>6, WrittenPrefixes, Zenon
<1>8. ~HasPrefix(d, BR) /\ ~HasPrefix(d, BR \o <<0>>)
  <2>1. ~(d[1] = 5 /\ d[2] = 5)
    BY <1>2, <1>3
  <2> QED BY <1>3, <2>1, WrittenPrefixes, Zenon
<1> QED BY <1>3, <1>4, <1>5, <1>7, <1>8, Zenon DEF d

LEMMA CarrierKey ==
  ASSUME NEW n, IsNumber(n), NEW c, IsCarrier(c),
         NEW w, soDigitos(w) = << 0 >> \o (c \o n)
  PROVE  ChaveLocal(w) = n
<1>1. SemTronco(TrimZeros(soDigitos(w))) = c \o n
  BY CarrierShape DEF SemTronco
<1>2. Len(c \o n) \in {12, 13} /\ dddValido(SubSeq(c \o n, 3, 4))
  BY CarrierShape DEF IsNumber
<1>3. SemOperadora(c \o n, HasPrefix(soDigitos(w), <<0>>)) = n
  BY <1>2, CarrierShape DEF SemOperadora
<1>4. Len(n) \notin {12, 13}
  BY NumberShape
<1>5. SemPais(n) = n
  BY <1>4 DEF SemPais
<1> QED BY <1>1, <1>3, <1>5 DEF ChaveLocal, digitosBR

-----------------------------------------------------------------------------
(* A line and the key that all its numbers have. *)

\* The key as it is compared, and without the country code.
Local(l) == l.ddd \o l.ass
Full(l) == BR \o Local(l)

\* What the keys take for a line: landlines may start with 0 or 1.
LineLike(l) ==
    /\ l \in [ddd : Numeral, ass : Numeral]
    /\ dddValido(l.ddd)
    /\ \/ Len(l.ass) = 8 /\ l.ass[1] < 6
       \/ Len(l.ass) = 9 /\ l.ass[1] = 9

LEMMA LinesAreLike ==
  ASSUME NEW l, IsLine(l)
  PROVE  LineLike(l) /\ l.ass[1] # 0
BY DEF IsLine, LineLike, Numeral

LEMMA LineShape ==
  ASSUME NEW l, LineLike(l)
  PROVE  /\ l.ddd \in Numeral /\ Len(l.ddd) = 2 /\ dddValido(l.ddd)
         /\ l.ass \in Numeral /\ l = [ddd |-> l.ddd, ass |-> l.ass]
         /\ \/ Len(l.ass) = 8 /\ l.ass[1] < 6
            \/ Len(l.ass) = 9 /\ l.ass[1] = 9
BY DEF LineLike, dddValido

\* An area code and what follows it.
LEMMA NumberElements ==
  ASSUME NEW a \in Numeral, Len(a) = 2,
         NEW k \in {8, 9}, NEW x \in Numeral, Len(x) = k
  PROVE  /\ a \o x \in Numeral /\ Len(a \o x) = 2 + k /\ From(a \o x, 2 + 1) = x
         /\ \A i \in 1..2 : (a \o x)[i] = a[i]
         /\ \A i \in 1..k : (a \o x)[i + 2] = x[i]
<1>1. a \o x \in Numeral
  BY Joined, Zenon
<1>2. k \in Nat /\ 2 \in Nat
  OBVIOUS
<1>3. /\ Len(a \o x) = 2 + k /\ From(a \o x, 2 + 1) = x
      /\ \A i \in 1..2 : (a \o x)[i] = a[i]
      /\ \A i \in 1..k : (a \o x)[i + 2] = x[i]
  BY <1>2, JoinedAt, ZenonT(60)
<1> QED BY <1>1, <1>3, Zenon

LEMMA NumberParts ==
  ASSUME NEW a \in Numeral, Len(a) = 2, dddValido(a),
         NEW k \in {8, 9}, NEW x \in Numeral, Len(x) = k
  PROVE  /\ a \o x \in Numeral /\ Len(a \o x) = k + 2 /\ Len(a \o x) \in {10, 11}
         /\ x[1] # 0 => IsNumber(a \o x)
         /\ SubSeq(a \o x, 1, 2) = a /\ From(a \o x, 3) = x
         /\ (a \o x)[3] = x[1] /\ (a \o x)[4] = x[2]
<1> DEFINE n == a \o x
<1>1. k \in Nat /\ 2 \in Nat /\ 2 + k = k + 2 /\ k + 2 \in {10, 11} /\ 1 \in 1..k /\ 2 \in 1..k
  OBVIOUS
<1>2. /\ n \in Numeral /\ Len(n) = 2 + k /\ From(n, 2 + 1) = x
      /\ \A i \in 1..2 : n[i] = a[i]
      /\ \A i \in 1..k : n[i + 2] = x[i]
  BY NumberElements, ZenonT(60)
<1> HIDE DEF n
<1>3. From(n, 3) = x /\ n[3] = x[1] /\ n[4] = x[2] /\ n[1] = a[1] /\ n[2] = a[2]
  BY <1>1, <1>2
<1>4. SubSeq(n, 1, 2) = a
  <2>1. /\ SubSeq(n, 1, 2) \in Numeral /\ Len(SubSeq(n, 1, 2)) = 2
        /\ SubSeq(n, 1, 2)[1] = n[1] /\ SubSeq(n, 1, 2)[2] = n[2]
    BY <1>1, <1>2 DEF Numeral
  <2> QED BY <1>3, <2>1 DEF Numeral
<1>5. Len(n) = k + 2 /\ Len(n) \in {10, 11}
  BY <1>1, <1>2, Zenon
<1>6. x[1] # 0 => IsNumber(n)
  BY <1>2, <1>3, <1>4, <1>5 DEF IsNumber
<1> QED BY <1>2, <1>3, <1>4, <1>5, <1>6, Zenon DEF n

\* The ninth digit put back.
LEMMA NinthShape ==
  ASSUME NEW e \in Numeral, Len(e) = 1, NEW f \in Numeral, Len(f) = 8
  PROVE  /\ e \o f \in Numeral /\ Len(e \o f) = 9 /\ From(e \o f, 2) = f
         /\ (e \o f)[1] = e[1] /\ \A i \in 1..8 : (e \o f)[i + 1] = f[i]
<1> DEFINE d == e \o f
<1>1. /\ d \in Numeral
      /\ Len(d) = Len(e) + Len(f)
      /\ \A i \in 1..Len(e) : d[i] = e[i]
      /\ \A i \in 1..Len(f) : d[i + Len(e)] = f[i]
      /\ From(d, Len(e) + 1) = f
  BY Joined, Zenon
<1> HIDE DEF d
<1>2. /\ Len(d) = 1 + 8
      /\ \A i \in 1..1 : d[i] = e[i]
      /\ \A i \in 1..8 : d[i + 1] = f[i]
      /\ From(d, 1 + 1) = f
  BY <1>1, SMT
<1>3. 1 + 8 = 9 /\ 1 + 1 = 2 /\ 1 \in 1..1
  OBVIOUS
<1> QED BY <1>1, <1>2, <1>3, Zenon DEF d

LEMMA NinthBack ==
  ASSUME NEW x \in Numeral, Len(x) = 9, x[1] = 9
  PROVE  /\ From(x, 2) \in Numeral /\ Len(From(x, 2)) = 8 /\ From(x, 2)[1] = x[2]
         /\ <<9>> \o From(x, 2) = x
<1> DEFINE f == SubSeq(x, 2, 9)
           e == <<9>>
<1>1. f \in Numeral /\ Len(f) = 8 /\ \A i \in 1..8 : f[i] = x[i + 1]
  <2>1. f \in Numeral
    BY PartType
  <2>2. Len(f) = 8
    BY DEF Numeral
  <2>3. \A i \in 1..8 : f[i] = x[i + 1]
    BY DEF Numeral
  <2> QED BY <2>1, <2>2, <2>3
<1>2. e \in Numeral /\ Len(e) = 1 /\ e[1] = 9
  BY DEF Numeral
<1> HIDE DEF f, e
<1>3. /\ e \o f \in Numeral /\ Len(e \o f) = 9 /\ (e \o f)[1] = e[1]
      /\ \A i \in 1..8 : (e \o f)[i + 1] = f[i]
  BY <1>1, <1>2, NinthShape, Zenon
<1>4. e \o f = x
  <2> DEFINE y == e \o f
  <2>1. y \in Numeral /\ Len(y) = 9 /\ y[1] = 9 /\ \A i \in 1..8 : y[i + 1] = x[i + 1]
    BY <1>1, <1>2, <1>3
  <2> HIDE DEF y
  <2>2. ASSUME NEW i \in 1..9
        PROVE  y[i] = x[i]
    <3>1. CASE i = 1
      BY <2>1, <3>1
    <3>2. CASE i # 1
      <4>1. i - 1 \in 1..8 /\ (i - 1) + 1 = i
        BY <3>2
      <4> QED BY <2>1, <4>1
    <3> QED BY <3>1, <3>2
  <2>3. y = x
    BY <2>1, <2>2 DEF Numeral
  <2> QED BY <2>3 DEF y
<1> QED BY <1>1, <1>4 DEF f, e, From

LEMMA SubscriberOfLine ==
  ASSUME NEW l, LineLike(l)
  PROVE  /\ Subscriber(l.ass) = l.ass
         /\ Len(l.ass) = 9 /\ l.ass[2] >= 6 => Subscriber(From(l.ass, 2)) = l.ass
<1>1. Subscriber(l.ass) = l.ass
  <2> DEFINE x == l.ass
  <2>1. (Len(x) = 8 /\ x[1] < 6 /\ x[1] \in 0..9) \/ (Len(x) = 9 /\ x[1] = 9)
    BY LineShape DEF Numeral
  <2> HIDE DEF x
  <2>2. ~(Len(x) = 8 /\ x[1] >= 6) /\ ~(Len(x) = 9 /\ x[1] # 9)
    BY <2>1
  <2>3. Subscriber(x) = x
    BY <2>2, Zenon DEF Subscriber
  <2> QED BY <2>3 DEF x
<1>2. ASSUME Len(l.ass) = 9, l.ass[2] >= 6
      PROVE  Subscriber(From(l.ass, 2)) = l.ass
  <2> DEFINE f == From(l.ass, 2)
  <2>0. l.ass \in Numeral /\ l.ass[1] = 9
    BY <1>2, LineShape
  <2>1. /\ Len(f) = 8 /\ f[1] >= 6 /\ <<9>> \o f = l.ass
        /\ l.ass[1] = 9
    BY <1>2, <2>0, NinthBack
  <2> HIDE DEF f
  <2> QED BY <2>1 DEF Subscriber, f
<1> QED BY <1>1, <1>2

\* The numbers of a line have one key, the line's.
LEMMA KeyOfNumbers ==
  ASSUME NEW l, LineLike(l), NEW n \in Numbers(l)
  PROVE  /\ n \in Numeral /\ KeyOf(n) = Full(l)
         /\ l.ass[1] # 0 => IsNumber(n)
<1>1. PICK x \in Numeral : /\ n = l.ddd \o x
                           /\ Len(x) \in {8, 9} /\ (l.ass[1] # 0 => x[1] # 0)
                           /\ Subscriber(x) = l.ass
  <2>1. CASE n = l.ddd \o l.ass
    <3>1. Len(l.ass) \in {8, 9} /\ l.ass \in Numeral
      BY LineShape
    <3> QED BY <2>1, <3>1, SubscriberOfLine
  <2>2. CASE Len(l.ass) = 9 /\ l.ass[2] >= 6 /\ n = l.ddd \o From(l.ass, 2)
    <3> DEFINE f == From(l.ass, 2)
    <3>0. l.ass \in Numeral /\ l.ass[1] = 9 /\ Subscriber(f) = l.ass
      <4>1. Subscriber(f) = l.ass
        BY <2>2, SubscriberOfLine
      <4>2. Len(l.ass) # 8
        BY <2>2
      <4> QED BY <4>1, <4>2, LineShape, Zenon
    <3>1. f \in Numeral /\ Len(f) \in {8, 9} /\ f[1] # 0 /\ Subscriber(f) = l.ass
      BY <2>2, <3>0, NinthBack
    <3> HIDE DEF f
    <3>2. n = l.ddd \o f
      BY <2>2 DEF f
    <3> QED BY <3>1, <3>2
  <2> QED BY <2>1, <2>2 DEF Numbers
<1>2. /\ n \in Numeral /\ Len(n) \in {10, 11} /\ (l.ass[1] # 0 => IsNumber(n))
      /\ SubSeq(n, 1, 2) = l.ddd /\ From(n, 3) = x
  BY <1>1, LineShape, NumberParts
<1>3. l.ass # <<>>
  BY LineShape
<1>4. BR \o l.ddd \o l.ass = Full(l)
  <2>1. l.ddd \in Numeral /\ l.ass \in Numeral
    BY LineShape
  <2> QED BY <2>1, CountryCode, Associative DEF Full, Local
<1>5. KeyOf(n) = BR \o l.ddd \o l.ass
  BY <1>1, <1>2, <1>3, LineShape DEF KeyOf, Comparavel
<1> QED BY <1>2, <1>4, <1>5

LEMMA NumbersOfKey ==
  ASSUME NEW l, LineLike(l)
  PROVE  {Local(l)} \cup SemNono(Local(l)) = Numbers(l)
<1> DEFINE com == Local(l)
<1>1. PICK k \in {8, 9} : Len(l.ass) = k
  BY LineShape
<1>3. /\ com \in Numeral /\ Len(com) = k + 2 /\ From(com, 3) = l.ass
      /\ com[3] = l.ass[1] /\ com[4] = l.ass[2] /\ SubSeq(com, 1, 2) = l.ddd
  <2>1. l.ddd \in Numeral /\ Len(l.ddd) = 2 /\ dddValido(l.ddd) /\ l.ass \in Numeral
    BY LineShape
  <2> QED BY <1>1, <2>1, NumberParts DEF Local
<1>4. ASSUME k = 9
      PROVE  From(com, 4) = From(l.ass, 2)
  <2>1. com \in Numeral /\ Len(com) = 11 /\ l.ass \in Numeral /\ Len(l.ass) = 9
    BY <1>1, <1>3, <1>4, LineShape
  <2>2. SubSeq(com, 3, 11) = l.ass
    BY <1>3, <2>1 DEF From
  <2> HIDE DEF com
  <2>3. SubSeq(SubSeq(com, 3, 11), 2, 9) = SubSeq(com, 4, 11)
    BY <2>1 DEF Numeral
  <2> QED BY <2>1, <2>2, <2>3 DEF From
<1>5. Len(com) = 11 /\ com[3] = 9 /\ com[4] >= 6 <=> Len(l.ass) = 9 /\ l.ass[2] >= 6
  <2>1. k + 2 = 11 <=> k = 9
    OBVIOUS
  <2>2. k = 9 => l.ass[1] = 9
    BY <1>1, LineShape
  <2> QED BY <1>1, <1>3, <2>1, <2>2, Zenon
<1> HIDE DEF com
<1>6. SemNono(com) = IF Len(l.ass) = 9 /\ l.ass[2] >= 6
                     THEN {l.ddd \o From(l.ass, 2)} ELSE {}
  BY <1>1, <1>3, <1>4, <1>5 DEF SemNono
<1> QED BY <1>6, Zenon DEF Numbers, com, Local

LEMMA FullShape ==
  ASSUME NEW l, LineLike(l)
  PROVE  /\ Full(l) \in Numeral /\ Full(l) # <<>> /\ Len(Full(l)) \in {12, 13}
         /\ From(Full(l), 3) = Local(l)
         /\ SubSeq(Local(l), 1, 2) = l.ddd /\ From(Local(l), 3) = l.ass
<1>1. PICK k \in {8, 9} : Len(l.ass) = k
  BY LineShape
<1>2. /\ Local(l) \in Numeral /\ Len(Local(l)) \in {10, 11}
      /\ SubSeq(Local(l), 1, 2) = l.ddd /\ From(Local(l), 3) = l.ass
  <2>1. l.ddd \in Numeral /\ Len(l.ddd) = 2 /\ dddValido(l.ddd) /\ l.ass \in Numeral
    BY LineShape
  <2> QED BY <1>1, <2>1, NumberParts DEF Local
<1>3. /\ Full(l) \in Numeral /\ Full(l) # <<>> /\ Len(Full(l)) \in {12, 13}
      /\ From(Full(l), 3) = Local(l)
  BY <1>2, CountryCode, JoinedTwo, Zenon DEF Full
<1> QED BY <1>2, <1>3

LEMMA KeyNamesLine ==
  ASSUME NEW l, LineLike(l), NEW m, LineLike(m), Full(l) = Full(m)
  PROVE  l = m
<1>1. \A o : LineLike(o) => /\ From(Full(o), 3) = Local(o)
                            /\ SubSeq(Local(o), 1, 2) = o.ddd
                            /\ From(Local(o), 3) = o.ass
  BY FullShape, Zenon
<1>2. l.ddd = m.ddd /\ l.ass = m.ass
  BY <1>1, Zenon
<1>3. l = [ddd |-> l.ddd, ass |-> l.ass] /\ m = [ddd |-> m.ddd, ass |-> m.ass]
  BY LineShape, Zenon
<1> QED BY <1>2, <1>3

LEMMA NumeralIsText ==
  ASSUME NEW d \in Numeral
  PROVE  d \in Text
<1>1. 0..9 \subseteq 0..10
  OBVIOUS
<1> QED BY <1>1 DEF Numeral, Text

\* However a line writes itself, the stored key is one of its numbers.
LEMMA WritingShape ==
  ASSUME NEW l, IsLine(l), NEW w \in Writings(l)
  PROVE  \E n \in Numbers(l) :
            /\ ChaveLocal(w) = n
            /\ w \in Text
            /\ \/ soDigitos(w) = n
               \/ soDigitos(w) = BR \o n
               \/ soDigitos(w) = <<0>> \o n
               \/ soDigitos(w) = BR \o <<0>> \o n
               \/ \E c \in Carrier : soDigitos(w) = <<0>> \o (c \o n)
<1>1. PICK n \in Numbers(l) :
         \/ w \in {n, BR \o n, <<0>> \o n, BR \o <<0>> \o n}
         \/ w = <<Other>> \o BR \o <<Other>> \o n
         \/ \E c \in Carrier : w = <<0>> \o c \o n
  <2> DEFINE W(n) == {n, BR \o n, <<0>> \o n, BR \o <<0>> \o n,
                      <<Other>> \o BR \o <<Other>> \o n}
             D(c, n) == <<0>> \o c \o n
             A == UNION {W(n) : n \in Numbers(l)}
             B == {D(c, n) : c \in Carrier, n \in Numbers(l)}
  <2>1. w \in A \cup B
    BY SMTT(30) DEF Writings
  <2>2. ASSUME NEW n \in Numbers(l), w \in W(n)
        PROVE  \/ w \in {n, BR \o n, <<0>> \o n, BR \o <<0>> \o n}
               \/ w = <<Other>> \o BR \o <<Other>> \o n
    BY <2>2
  <2>3. ASSUME w \in B
        PROVE  \E n \in Numbers(l) : \E c \in Carrier : w = <<0>> \o c \o n
    BY <2>3
  <2> HIDE DEF W, D
  <2>4. ASSUME w \in A
        PROVE  \E n \in Numbers(l) : w \in W(n)
    BY <2>4
  <2> HIDE DEF A, B
  <2>5. CASE w \in A
    BY <2>2, <2>4, <2>5, Zenon
  <2>6. CASE w \in B
    BY <2>3, <2>6, Zenon
  <2> QED BY <2>1, <2>5, <2>6
<1>2. IsNumber(n) /\ n \in Numeral
  BY LinesAreLike, KeyOfNumbers
<1>3. CASE w \in {n, BR \o n, <<0>> \o n, BR \o <<0>> \o n}
  <2>1. w \in Numeral
    <3> DEFINE z == <<0>>
               p == BR \o z
    <3>1. z \in Numeral /\ BR \in Numeral /\ p \in Numeral /\ n \in Numeral
      BY <1>2, CountryCode, ZeroText, CountryZero, Zenon
    <3> HIDE DEF z, p
    <3>2. BR \o n \in Numeral /\ z \o n \in Numeral /\ p \o n \in Numeral
      BY <3>1, Joined, Zenon
    <3> QED BY <1>3, <3>1, <3>2, Zenon DEF z, p
  <2>2. soDigitos(w) = w /\ w \in Text
    BY <2>1, DigitsOnly, NumeralIsText
  <2>3. ChaveLocal(w) = n
    BY <1>2, <1>3, <2>2, DirectKey, CountryKey, TrunkKey, Zenon
  <2> QED BY <1>3, <2>2, <2>3, Zenon
<1>4. CASE w = <<Other>> \o BR \o <<Other>> \o n
  <2>1. soDigitos(w) = BR \o n
    BY <1>2, <1>4, CountryCode, OthersDropped, Zenon
  <2>2. w \in Text
    <3> DEFINE o == <<Other>>
    <3>1. o \in Text /\ BR \in Text /\ n \in Text
      BY <1>2, CountryCode, NumeralIsText DEF Text, Other
    <3> HIDE DEF o
    <3>2. o \o BR \o o \o n \in Text
      BY <3>1 DEF Text
    <3> QED BY <1>4, <3>2 DEF o
  <2>3. ChaveLocal(w) = n
    BY <1>2, <2>1, CountryKey, Zenon
  <2> QED BY <2>1, <2>2, <2>3, Zenon
<1>5. ASSUME NEW c \in Carrier, w = << 0 >> \o c \o n
      PROVE  w \in Text /\ soDigitos(w) = <<0>> \o (c \o n) /\ ChaveLocal(w) = n
  <2>1. IsCarrier(c) /\ c \in Numeral
    BY LineAssumption DEF IsCarrier, Numeral
  <2>2. w = <<0>> \o (c \o n) /\ w \in Numeral
    BY <1>2, <1>5, <2>1, ZeroText, Associative, Joined, Zenon
  <2>3. soDigitos(w) = <<0>> \o (c \o n) /\ w \in Text
    BY <2>2, DigitsOnly, NumeralIsText, Zenon
  <2> QED BY <1>2, <2>1, <2>3, CarrierKey, Zenon
<1> QED BY <1>1, <1>3, <1>4, <1>5, Zenon

\* The keys made of a stored key.
LEMMA KeysOfNumber ==
  ASSUME NEW l, LineLike(l), NEW w, NEW n \in Numbers(l), ChaveLocal(w) = n
  PROVE  Chave(w) = Full(l) /\ Variantes(w) = Numbers(l)
<1>1. KeyOf(n) = Full(l)
  BY KeyOfNumbers
<1>2. ~dddValido(<<>>)
  BY DEF dddValido
<1>3. Chave(w) = Full(l)
  BY <1>1, <1>2, Zenon DEF Chave, ChaveComDDD, ComDDD
<1>4. Full(l) # <<>> /\ From(Full(l), 3) = Local(l)
  BY FullShape
<1>5. Variantes(w) = {Local(l)} \cup SemNono(Local(l))
  BY <1>3, <1>4, Zenon DEF Variantes
<1> QED BY <1>3, <1>5, NumbersOfKey, Zenon

LEMMA KeysOfWriting ==
  ASSUME NEW l, IsLine(l), NEW w \in Writings(l)
  PROVE  /\ w \in Text
         /\ ChaveLocal(w) \in Numbers(l)
         /\ Variantes(w) = Numbers(l)
         /\ Chave(w) = Full(l)
BY WritingShape, LinesAreLike, KeysOfNumber, ZenonT(60)

\* Two lines have no number in common.
LEMMA NumbersApart ==
  ASSUME NEW l, LineLike(l), NEW m, LineLike(m), Numbers(l) \cap Numbers(m) # {}
  PROVE  l = m
BY KeyOfNumbers, KeyNamesLine, Zenon

-----------------------------------------------------------------------------
(* The board. *)

\* A card is one line's, with one of its numbers as key, and the only one; the
\* texts are such that lines write.
BoardOK ==
    /\ \A c \in cards : \E l \in Line :
          c = [key |-> c.key, lines |-> {l}] /\ c.key \in Numbers(l)
    /\ \A c, d \in cards : c.lines = d.lines => c = d

Heardable(w) ==
    \/ w = <<>>
    \/ \E l : IsLine(l) /\ (w \in Writings(l) \/ w = Bare(l))
HeardOK == \E a, b : recent = <<a, b>> /\ Heardable(a) /\ Heardable(b)

LEMMA BoardInit ==
  Init => BoardOK
BY DEF Init, BoardOK

LEMMA BoardMessage ==
  ASSUME BoardOK, NEW l \in Line, NEW w \in Writings(l), Message(l, w)
  PROVE  BoardOK'
<1>1. IsLine(l)
  BY LineAssumption
<1>2. ChaveLocal(w) \in Numbers(l) /\ Variantes(w) = Numbers(l)
  BY <1>1, KeysOfWriting
<1> DEFINE found == {c \in cards : c.key \in Variantes(w)}
\* The cards found are the line's.
<1>3. \A c \in cards : c \in found <=> c.lines = {l}
  <2> TAKE c \in cards
  <2>1. PICK m \in Line : c = [key |-> c.key, lines |-> {m}] /\ c.key \in Numbers(m)
    BY DEF BoardOK
  <2>2. IsLine(m)
    BY LineAssumption
  <2>3. c \in found <=> c.key \in Numbers(l)
    BY <1>2
  <2>4. c.key \in Numbers(l) <=> l = m
    BY <1>1, <2>1, <2>2, LinesAreLike, NumbersApart
  <2>5. c.lines = {m}
    BY <2>1
  <2> QED BY <2>3, <2>4, <2>5, Zenon
<1>4. CASE found = {}
  <2> DEFINE new == [key |-> ChaveLocal(w), lines |-> {l}]
  <2>1. cards' = cards \cup {new}
    BY <1>4 DEF Message
  <2>2. new = [key |-> new.key, lines |-> {l}] /\ new.key \in Numbers(l) /\ new.lines = {l}
    BY <1>2
  <2>3. \A c \in cards : c.lines # {l}
    BY <1>3, <1>4
  <2> HIDE DEF new
  <2> QED BY <2>1, <2>2, <2>3, Zenon DEF BoardOK
<1>5. CASE found # {}
  <2>1. \A c \in found : [c EXCEPT !.lines = @ \cup {l}] = c
    <3> TAKE c \in found
    <3>1. c.lines = {l} /\ c = [key |-> c.key, lines |-> c.lines]
      BY <1>3 DEF BoardOK
    <3>2. c.lines \cup {l} = c.lines
      BY <3>1
    <3> QED BY <3>1, <3>2
  <2>2. cards' = cards
    <3>1. cards' = (cards \ found) \cup {[c EXCEPT !.lines = @ \cup {l}] : c \in found}
      BY <1>5 DEF Message
    <3>2. {[c EXCEPT !.lines = @ \cup {l}] : c \in found} = found
      BY <2>1
    <3>3. found \subseteq cards
      OBVIOUS
    <3> HIDE DEF found
    <3> QED BY <3>1, <3>2, <3>3
  <2> QED BY <2>2 DEF BoardOK
<1> QED BY <1>4, <1>5

LEMMA BoardStep ==
  ASSUME BoardOK, [Next]_vars
  PROVE  BoardOK'
<1>1. ASSUME NEW l \in Line, NEW w \in Writings(l), Message(l, w)
      PROVE  BoardOK'
  BY <1>1, BoardMessage
<1>2. ASSUME UNCHANGED cards
      PROVE  BoardOK'
  BY <1>2 DEF BoardOK
<1> QED BY <1>1, <1>2 DEF Next, Compare, vars

LEMMA BoardInvariant == Spec => []BoardOK
<1>1. Init => BoardOK
  BY BoardInit
<1>2. BoardOK /\ [Next]_vars => BoardOK'
  BY BoardStep
<1> QED BY <1>1, <1>2, PTL DEF Spec

\* The messages of a line gather on one card, however the line writes itself:
\* what chave.go promises a board that searches by Variantes and stores
\* ChaveLocal.
THEOREM OneCard == Spec => []OneCardPerLine
<1>1. BoardOK => OneCardPerLine
  <2> SUFFICES ASSUME BoardOK
               PROVE  OneCardPerLine
    OBVIOUS
  <2>1. \A c \in cards : \E l \in Line : c.lines = {l}
    BY DEF BoardOK
  <2>2. \A c, d \in cards : c.lines = d.lines => c = d
    BY DEF BoardOK
  <2>3. ASSUME NEW c \in cards, NEW d \in cards, c.lines \cap d.lines # {}
        PROVE  c = d
    <3>1. PICK l, m : c.lines = {l} /\ d.lines = {m}
      BY <2>1
    <3>2. c.lines = d.lines
      BY <2>3, <3>1
    <3> QED BY <2>2, <3>2
  <2> QED BY <2>3 DEF OneCardPerLine
<1> QED BY <1>1, BoardInvariant, PTL

\* No two lines share a card, whatever they write.
THEOREM LinesApart == Spec => []LinesKeptApart
<1>1. BoardOK => LinesKeptApart
  BY DEF BoardOK, LinesKeptApart
<1> QED BY <1>1, BoardInvariant, PTL

-----------------------------------------------------------------------------
(* The texts that are compared. *)

\* A wrong last digit makes a number of some other line.
LEMMA MistypedIsLine ==
  ASSUME NEW l, IsLine(l)
  PROVE  \E m : IsLine(m) /\ Mistyped(l) \in Writings(m)
<1>1. PICK k \in {8, 9} : Len(l.ass) = k
  BY LinesAreLike, LineShape
<1>2. /\ l.ddd \in Numeral /\ Len(l.ddd) = 2 /\ dddValido(l.ddd) /\ l.ass \in Numeral
      /\ l.ass[1] # 0
  BY LinesAreLike, LineShape, Zenon
<1> DEFINE x == [l.ass EXCEPT ![k] = (@ + 1) % 10]
           m == [ddd |-> l.ddd, ass |-> x]
<1>3. /\ x \in Numeral /\ Len(x) = k /\ x[1] = l.ass[1]
      /\ \A i \in 1..k : x[i] = IF i = k THEN (l.ass[k] + 1) % 10 ELSE l.ass[i]
  BY <1>1, <1>2, SMTT(30) DEF Numeral
<1>4. IsLine(m)
  <2> HIDE DEF x
  <2>1. m.ddd \in Seq(0..9) /\ m.ass \in Seq(0..9)
    BY <1>2, <1>3 DEF Numeral
  <2>2. (k = 8 /\ x[1] \in 2..5) \/ (k = 9 /\ x[1] = 9)
    BY <1>1, <1>3 DEF IsLine
  <2> QED BY <1>2, <1>3, <2>1, <2>2 DEF IsLine
<1>5. Mistyped(l) = l.ddd \o x
  <2> DEFINE n == l.ddd \o l.ass
             y == l.ddd \o x
  <2>1. k \in Nat /\ 2 \in Nat
    OBVIOUS
  <2>2. /\ n \in Numeral /\ Len(n) = 2 + k
        /\ \A i \in 1..2 : n[i] = l.ddd[i]
        /\ \A i \in 1..k : n[i + 2] = l.ass[i]
    BY <1>1, <1>2, NumberElements, ZenonT(60)
  <2>3. /\ y \in Numeral /\ Len(y) = 2 + k
        /\ \A i \in 1..2 : y[i] = l.ddd[i]
        /\ \A i \in 1..k : y[i + 2] = x[i]
    <3> HIDE DEF x
    <3> QED BY <1>2, <1>3, NumberElements, ZenonT(60)
  <2> DEFINE z == [n EXCEPT ![2 + k] = (@ + 1) % 10]
  <2>4. Mistyped(l) = z
    BY <2>2, Zenon DEF Mistyped
  <2> HIDE DEF n, y, x
  <2>5. /\ z \in Numeral /\ Len(z) = 2 + k
        /\ \A i \in 1..2 + k : z[i] = IF i = 2 + k THEN (n[2 + k] + 1) % 10 ELSE n[i]
    BY <2>1, <2>2 DEF Numeral
  <2>6. ASSUME NEW i \in 1..2 + k
        PROVE  z[i] = y[i]
    <3>1. CASE i \in 1..2
      BY <2>1, <2>2, <2>3, <2>5, <3>1
    <3>2. CASE i \notin 1..2
      <4>1. i - 2 \in 1..k /\ (i - 2) + 2 = i /\ k \in 1..k /\ k + 2 = 2 + k
        BY <2>1, <3>2
      <4>2. n[i] = l.ass[i - 2] /\ y[i] = x[i - 2] /\ n[2 + k] = l.ass[k]
        BY <2>2, <2>3, <4>1
      <4> QED BY <1>3, <2>1, <2>5, <4>1, <4>2
    <3> QED BY <3>1, <3>2
  <2> HIDE DEF z
  <2>7. z = y
    BY <2>1, <2>3, <2>5, <2>6 DEF Numeral
  <2> QED BY <2>4, <2>7 DEF y
<1>6. m.ddd \o m.ass \in Writings(m)
  <2> HIDE DEF m, x
  <2>1. m.ddd \o m.ass \in Numbers(m)
    BY DEF Numbers
  <2>2. \A n \in Numbers(m) : n \in Writings(m)
    <3> TAKE n \in Numbers(m)
    <3> DEFINE W(o) == {o, BR \o o, <<0>> \o o, BR \o <<0>> \o o,
                        <<Other>> \o BR \o <<Other>> \o o}
    <3> DEFINE A == {W(o) : o \in Numbers(m)}
               B == {<<0>> \o c \o o : c \in Carrier, o \in Numbers(m)}
    <3>1. Writings(m) = (UNION A) \cup B
      BY DEF Writings
    <3>2. n \in W(n)
      OBVIOUS
    <3> HIDE DEF W, B
    <3>3. W(n) \in A
      OBVIOUS
    <3> HIDE DEF A
    <3>4. n \in UNION A
      BY <3>2, <3>3, Zenon
    <3> QED BY <3>1, <3>4
  <2> QED BY <2>1, <2>2
<1>7. m.ddd = l.ddd /\ m.ass = x
  OBVIOUS
<1> HIDE DEF m, x
<1> QED BY <1>4, <1>5, <1>6, <1>7

LEMMA HeardInvariant == Spec => []HeardOK
<1>1. Init => HeardOK
  BY DEF Init, HeardOK, Heardable
<1>2. ASSUME HeardOK, [Next]_vars
      PROVE  HeardOK'
  <2>1. PICK a, b : recent = <<a, b>> /\ Heardable(a) /\ Heardable(b)
    BY <1>2 DEF HeardOK
  <2>2. ASSUME NEW w, Heard(w), Heardable(w)
        PROVE  HeardOK'
    <3>1. recent' = <<b, w>>
      BY <2>1, <2>2 DEF Heard
    <3> QED BY <2>1, <2>2, <3>1 DEF HeardOK
  <2>3. CASE UNCHANGED vars
    BY <1>2, <2>3 DEF HeardOK, vars
  <2>4. ASSUME NEW l \in Line, NEW w \in Writings(l), Message(l, w)
        PROVE  HeardOK'
    <3>1. Heard(w) /\ Heardable(w)
      BY <2>4, LineAssumption, Zenon DEF Message, Heardable
    <3> QED BY <2>2, <3>1
  <2>5. ASSUME NEW l \in Line, Compare(Bare(l))
        PROVE  HeardOK'
    <3>1. Heard(Bare(l)) /\ Heardable(Bare(l))
      BY <2>5, LineAssumption, Zenon DEF Compare, Heardable
    <3> QED BY <2>2, <3>1
  <2>6. ASSUME NEW l \in Line, Compare(Mistyped(l))
        PROVE  HeardOK'
    <3>1. Heard(Mistyped(l)) /\ Heardable(Mistyped(l))
      BY <2>6, LineAssumption, MistypedIsLine, Zenon DEF Compare, Heardable
    <3> QED BY <2>2, <3>1
  <2> QED BY <1>2, <2>3, <2>4, <2>5, <2>6 DEF Next
<1> QED BY <1>1, <1>2, PTL DEF Spec

-----------------------------------------------------------------------------
(* Any two texts of digits and other characters. *)

LEMMA FromType ==
  ASSUME NEW d \in Numeral, NEW m \in 1..Len(d)
  PROVE  From(d, m) \in Numeral
<1>1. m \in 1..Len(d) /\ Len(d) \in m..Len(d)
  BY DEF Numeral
<1> QED BY <1>1, PartType DEF From

LEMMA LocalType ==
  ASSUME NEW w \in Text
  PROVE  ChaveLocal(w) \in Numeral
<1>1. TrimZeros(soDigitos(w)) \in Numeral
  BY DigitsKept, TrimType
<1>2. ASSUME NEW d \in Numeral, Len(d) >= 3
      PROVE  From(d, 3) \in Numeral
  <2>1. 3 \in 1..Len(d)
    BY <1>2 DEF Numeral
  <2> QED BY <2>1, FromType
<1>3. ASSUME NEW d \in Numeral
      PROVE  SemTronco(d) \in Numeral
  <2>1. CASE HasPrefix(d, BR \o <<0>>)
    <3>1. From(d, 3) \in Numeral
      BY <1>2, <2>1, WrittenPrefixes
    <3>2. BR \o TrimZeros(From(d, 3)) \in Numeral
      BY <3>1, CountryCode, TrimType, Joined, Zenon
    <3> QED BY <2>1, <3>2, Zenon DEF SemTronco
  <2> QED BY <2>1, Zenon DEF SemTronco
<1>4. ASSUME NEW d \in Numeral, NEW t
      PROVE  SemOperadora(d, t) \in Numeral
  <2>1. CASE Len(d) \in {12, 13}
    <3>1. From(d, 3) \in Numeral
      BY <1>2, <2>1, LongLengths, Zenon
    <3> QED BY <3>1, Zenon DEF SemOperadora
  <2> QED BY <2>1, Zenon DEF SemOperadora
<1>5. ASSUME NEW d \in Numeral
      PROVE  SemPais(d) \in Numeral
  <2>1. CASE Len(d) \in {12, 13}
    <3>1. From(d, 3) \in Numeral
      BY <1>2, <2>1, LongLengths, Zenon
    <3> QED BY <3>1, Zenon DEF SemPais
  <2> QED BY <2>1, Zenon DEF SemPais
<1> QED BY <1>1, <1>3, <1>4, <1>5, Zenon DEF ChaveLocal, digitosBR

\* A key is some line's, and what it was made of is a number of that line.
LEMMA KeyHasLine ==
  ASSUME NEW n \in Numeral, KeyOf(n) # <<>>
  PROVE  \E l : LineLike(l) /\ KeyOf(n) = Full(l) /\ n \in Numbers(l)
<1> DEFINE a == SubSeq(n, 1, 2)
           x == From(n, 3)
           s == Subscriber(x)
           l == [ddd |-> a, ass |-> s]
<1>1. /\ Len(n) \in {10, 11} /\ dddValido(a) /\ s # <<>>
      /\ KeyOf(n) = BR \o a \o s
  <2>1. Len(n) \in {10, 11} /\ KeyOf(n) = Comparavel(a, s)
    BY Zenon DEF KeyOf
  <2>2. dddValido(a) /\ s # <<>> /\ Comparavel(a, s) = BR \o a \o s
    BY <2>1, Zenon DEF Comparavel
  <2> QED BY <2>1, <2>2, Zenon
<1>2. /\ a \in Numeral /\ Len(a) = 2
      /\ x \in Numeral /\ Len(x) \in {8, 9} /\ n = a \o x
  <2> DEFINE k == Len(n)
  <2>1. k \in {10, 11} /\ Len(n) = k
    BY <1>1
  <2>2. 2 \in 1..k /\ 3 \in 1..k /\ 1 \in 1..k /\ 2 \in 1..k /\ k - 2 \in {8, 9} /\ k \in Nat
        /\ 2 \in 1..k
    BY <2>1, SMTT(30)
  <2> HIDE DEF k
  <2>3. a \in Numeral /\ x \in Numeral
    <3>1. 2 \in 1..Len(n)
      BY <2>1, <2>2
    <3> QED BY <2>1, <2>2, <3>1, PartType, FromType
  <2>4. Len(a) = 2 /\ \A i \in 1..2 : a[i] = n[i]
    BY <2>1, <2>2 DEF Numeral
  <2>5. Len(x) = k - 2 /\ \A i \in 1..k - 2 : x[i] = n[i + 2]
    BY <2>1, <2>2 DEF From, Numeral
  <2> HIDE DEF a, x
  <2> DEFINE y == a \o x
             m == k - 2
  <2>6. m \in {8, 9} /\ Len(x) = m
    BY <2>2, <2>5
  <2> HIDE DEF m
  <2>7. /\ y \in Numeral /\ Len(y) = 2 + m
        /\ \A i \in 1..2 : y[i] = a[i]
        /\ \A i \in 1..m : y[i + 2] = x[i]
    BY <2>3, <2>4, <2>6, NumberElements, ZenonT(60)
  <2> HIDE DEF y
  <2>8. 2 + m = k
    BY <2>2 DEF m
  <2>9. ASSUME NEW i \in 1..k
        PROVE  y[i] = n[i]
    <3>1. CASE i \in 1..2
      BY <2>4, <2>7, <3>1
    <3>2. CASE i \notin 1..2
      <4>1. i - 2 \in 1..m /\ (i - 2) + 2 = i /\ m = k - 2
        BY <2>2, <2>8, <3>2 DEF m
      <4> QED BY <2>5, <2>7, <4>1
    <3> QED BY <3>1, <3>2
  <2>10. y = n
    BY <2>1, <2>7, <2>8, <2>9 DEF Numeral
  <2> QED BY <2>3, <2>4, <2>6, <2>10, Zenon DEF y
<1> HIDE DEF a, x
\* The ninth digit as it was, or put in front.
<1>3. \/ s = x /\ ((Len(x) = 8 /\ x[1] < 6) \/ (Len(x) = 9 /\ x[1] = 9))
      \/ s = <<9>> \o x /\ Len(x) = 8 /\ x[1] >= 6
  <2>1. CASE Len(x) = 8
    <3>1. CASE x[1] >= 6
      <4>1. s = <<9>> \o x
        BY <1>1, <2>1, <3>1, Zenon DEF Subscriber
      <4> QED BY <2>1, <3>1, <4>1
    <3>2. CASE ~(x[1] >= 6)
      <4>1. x[1] \in 0..9
        <5>1. 1 \in 1..Len(x)
          BY <2>1
        <5> QED BY <1>2, <5>1 DEF Numeral
      <4>2. s = x
        BY <1>1, <2>1, <3>2, Zenon DEF Subscriber
      <4> QED BY <2>1, <3>2, <4>1, <4>2
    <3> QED BY <3>1, <3>2
  <2>2. CASE Len(x) = 9
    <3>1. Len(x) # 8
      BY <2>2
    <3>2. x[1] = 9 /\ s = x
      BY <1>1, <2>2, <3>1, Zenon DEF Subscriber
    <3> QED BY <2>2, <3>2
  <2> QED BY <1>2, <2>1, <2>2
<1>4. LineLike(l) /\ n \in Numbers(l)
  <2>1. CASE s = x /\ ((Len(x) = 8 /\ x[1] < 6) \/ (Len(x) = 9 /\ x[1] = 9))
    <3> HIDE DEF s
    <3>1. l \in [ddd : Numeral, ass : Numeral] /\ l.ddd = a /\ l.ass = x
      BY <1>2, <2>1
    <3> HIDE DEF l
    <3>2. LineLike(l)
      BY <1>1, <2>1, <3>1, Zenon DEF LineLike
    <3>3. n \in Numbers(l)
      BY <1>2, <3>1 DEF Numbers
    <3> QED BY <3>2, <3>3
  <2>2. CASE s = <<9>> \o x /\ Len(x) = 8 /\ x[1] >= 6
    <3> DEFINE e == <<9>>
    <3>1. e \in Numeral /\ Len(e) = 1 /\ e[1] = 9
      BY DEF Numeral
    <3>2. s = e \o x /\ Len(x) = 8 /\ x \in Numeral
      BY <1>2, <2>2
    <3> HIDE DEF s, e
    <3>3. s \in Numeral
      BY <3>1, <3>2, NinthShape, Zenon
    <3>4. /\ Len(s) = 9 /\ From(s, 2) = x /\ s[1] = e[1]
          /\ \A i \in 1..8 : s[i + 1] = x[i]
      BY <3>1, <3>2, NinthShape, Zenon
    <3>5. Len(s) = 9 /\ From(s, 2) = x /\ s[1] = 9 /\ s[2] >= 6
      BY <2>2, <3>1, <3>4
    <3>6. l \in [ddd : Numeral, ass : Numeral] /\ l.ddd = a /\ l.ass = s
      BY <1>2, <3>3
    <3> HIDE DEF l
    <3>7. LineLike(l)
      BY <1>1, <3>5, <3>6, Zenon DEF LineLike
    <3>8. n \in Numbers(l)
      BY <1>2, <3>5, <3>6 DEF Numbers
    <3> QED BY <3>7, <3>8
  <2> QED BY <1>3, <2>1, <2>2, Zenon
<1>5. KeyOf(n) = Full(l)
  BY <1>4, KeyOfNumbers
<1> QED BY <1>4, <1>5, Zenon

LEMMA ComparedKey ==
  ASSUME NEW w \in Text, Chave(w) # <<>>
  PROVE  \E l : /\ LineLike(l) /\ Chave(w) = Full(l)
                /\ ChaveLocal(w) \in Numbers(l) /\ Variantes(w) = Numbers(l)
<1> DEFINE n == ChaveLocal(w)
<1>1. ~dddValido(<<>>)
  BY DEF dddValido
<1>2. Chave(w) = KeyOf(n) /\ n \in Numeral
  BY <1>1, LocalType, Zenon DEF Chave, ChaveComDDD, ComDDD
<1>3. PICK l : LineLike(l) /\ KeyOf(n) = Full(l) /\ n \in Numbers(l)
  BY <1>2, KeyHasLine
<1> QED BY <1>2, <1>3, KeysOfNumber, Zenon

\* For any two texts: sameness goes both ways, and between texts that have
\* their area code it is what the search finds.
LEMMA SameIsFound ==
  ASSUME NEW a \in Text, NEW b \in Text
  PROVE  /\ Mesmo(a, b) = Mesmo(b, a)
         /\ Chave(a) # <<>> /\ Chave(b) # <<>>
               => (Mesmo(a, b) <=> ChaveLocal(b) \in Variantes(a))
<1>1. Mesmo(a, b) <=> chavesPar(a, b)[1] # <<>> /\ chavesPar(a, b)[1] = chavesPar(a, b)[2]
  BY DEF Mesmo
<1>2. Mesmo(b, a) <=> chavesPar(b, a)[1] # <<>> /\ chavesPar(b, a)[1] = chavesPar(b, a)[2]
  BY DEF Mesmo
<1>3. chavesPar(a, b)[1] = chavesPar(b, a)[2] /\ chavesPar(a, b)[2] = chavesPar(b, a)[1]
  BY DEF chavesPar
<1>4. Mesmo(a, b) \in BOOLEAN /\ Mesmo(b, a) \in BOOLEAN
  BY DEF Mesmo
<1>5. Mesmo(a, b) = Mesmo(b, a)
  BY <1>1, <1>2, <1>3, <1>4
<1>6. ASSUME Chave(a) # <<>>, Chave(b) # <<>>
      PROVE  Mesmo(a, b) <=> ChaveLocal(b) \in Variantes(a)
  <2>1. chavesPar(a, b)[1] = Chave(a) /\ chavesPar(a, b)[2] = Chave(b)
    BY <1>6 DEF chavesPar
  <2>2. Mesmo(a, b) <=> Chave(a) = Chave(b)
    BY <1>1, <1>6, <2>1, Zenon
  <2>3. PICK l : /\ LineLike(l) /\ Chave(a) = Full(l)
                /\ ChaveLocal(a) \in Numbers(l) /\ Variantes(a) = Numbers(l)
    BY <1>6, ComparedKey
  <2>4. PICK m : /\ LineLike(m) /\ Chave(b) = Full(m)
                /\ ChaveLocal(b) \in Numbers(m) /\ Variantes(b) = Numbers(m)
    BY <1>6, ComparedKey
  <2>5. Chave(a) = Chave(b) => ChaveLocal(b) \in Variantes(a)
    BY <2>3, <2>4, KeyNamesLine, Zenon
  <2>6. ChaveLocal(b) \in Variantes(a) => Chave(a) = Chave(b)
    BY <2>3, <2>4, NumbersApart
  <2> QED BY <2>2, <2>5, <2>6, Zenon
<1> QED BY <1>5, <1>6, Zenon

LEMMA HeardText ==
  ASSUME NEW w, Heardable(w)
  PROVE  w \in Text
<1>1. <<>> \in Text
  BY DEF Text
<1>2. ASSUME NEW l, IsLine(l)
      PROVE  l.ass \in Text /\ \A v \in Writings(l) : v \in Text
  BY <1>2, LinesAreLike, LineShape, NumeralIsText, KeysOfWriting, Zenon
<1> QED BY <1>1, <1>2, Zenon DEF Heardable, Bare

\* Mesmo and the search agree on any two messages in a row.
THEOREM SearchAgrees == Spec => []MesmoFindsStored
<1>1. HeardOK => MesmoFindsStored
  <2> SUFFICES ASSUME HeardOK
               PROVE  MesmoFindsStored
    OBVIOUS
  <2>1. recent[1] \in Text /\ recent[2] \in Text
    BY HeardText DEF HeardOK
  <2> QED BY <2>1, SameIsFound, Zenon DEF MesmoFindsStored
<1> QED BY <1>1, HeardInvariant, PTL

-----------------------------------------------------------------------------
(* One digit changed, missing or too many. *)

LEMMA FromShape ==
  ASSUME NEW d \in Numeral, NEW n \in Nat, Len(d) = n, NEW m \in Nat \ {0}
  PROVE  /\ From(d, m) \in Numeral
         /\ Len(From(d, m)) = IF m <= n THEN n - m + 1 ELSE 0
         /\ \A k \in m..n : From(d, m)[k - m + 1] = d[k]
<1>1. CASE m <= n
  <2>1. m \in 1..Len(d) /\ n \in m..Len(d)
    BY <1>1
  <2>2. From(d, m) \in Numeral
    BY <2>1, FromType
  <2> DEFINE f == SubSeq(d, m, n)
  <2>3. From(d, m) = f
    BY DEF From
  <2>4. Len(f) = n - m + 1
    BY <1>1 DEF Numeral
  <2>5. \A k \in 1..n - m + 1 : f[k] = d[k + m - 1]
    BY <1>1 DEF Numeral
  <2> HIDE DEF f
  <2>6. ASSUME NEW k \in m..n
        PROVE  f[k - m + 1] = d[k]
    <3>1. k - m + 1 \in 1..n - m + 1 /\ (k - m + 1) + m - 1 = k
      BY <1>1
    <3> QED BY <2>5, <3>1
  <2> QED BY <1>1, <2>2, <2>3, <2>4, <2>6
<1>2. CASE ~(m <= n)
  <2>1. From(d, m) = <<>>
    BY <1>2 DEF From, Numeral
  <2>2. <<>> \in Numeral /\ Len(<<>>) = 0
    BY DEF Numeral
  <2>3. \A k \in m..n : FALSE
    BY <1>2
  <2> QED BY <1>2, <2>1, <2>2, <2>3
<1> QED BY <1>1, <1>2

LEMMA SameText ==
  ASSUME NEW a \in Numeral, NEW b \in Numeral, NEW n \in Nat,
         Len(a) = n, Len(b) = n, \A k \in 1..n : a[k] = b[k]
  PROVE  a = b
BY DEF Numeral

\* The rests of two texts are the same if they are as long, digit by digit.
LEMMA SameTail ==
  ASSUME NEW a \in Numeral, NEW b \in Numeral,
         NEW m \in Nat \ {0}, NEW n \in Nat \ {0}, Len(a) - m = Len(b) - n
  PROVE  From(a, m) = From(b, n) <=> \A k \in m..Len(a) : a[k] = b[k + (n - m)]
<1> DEFINE f == From(a, m)
           g == From(b, n)
           la == Len(a)
           lb == Len(b)
           l == IF m <= la THEN la - m + 1 ELSE 0
<1>1. la \in Nat /\ lb \in Nat /\ la - m = lb - n
  BY DEF Numeral
<1>2. f \in Numeral /\ Len(f) = l /\ \A k \in m..la : f[k - m + 1] = a[k]
  BY <1>1, FromShape
<1>3. /\ g \in Numeral /\ Len(g) = IF n <= lb THEN lb - n + 1 ELSE 0
      /\ \A k \in n..lb : g[k - n + 1] = b[k]
  BY <1>1, FromShape
<1> HIDE DEF f, g, la, lb
<1>4. Len(g) = l
  BY <1>1, <1>3
<1>5. ASSUME NEW k \in m..la
      PROVE  g[k - m + 1] = b[k + (n - m)]
  <2>1. k + (n - m) \in n..lb /\ (k + (n - m)) - n + 1 = k - m + 1
    BY <1>1
  <2> QED BY <1>3, <2>1
<1>6. ASSUME f = g
      PROVE  \A k \in m..la : a[k] = b[k + (n - m)]
  BY <1>2, <1>5, <1>6
<1>7. ASSUME \A k \in m..la : a[k] = b[k + (n - m)]
      PROVE  f = g
  <2>1. l \in Nat
    BY <1>1
  <2>2. ASSUME NEW i \in 1..l
        PROVE  f[i] = g[i]
    <3>1. i + m - 1 \in m..la /\ (i + m - 1) - m + 1 = i
      BY <1>1
    <3> QED BY <1>2, <1>5, <1>7, <3>1
  <2> HIDE DEF l
  <2> QED BY <1>2, <1>3, <1>4, <2>1, <2>2, SameText
<1> QED BY <1>6, <1>7 DEF f, g, la

\* One digit of a changed at most, the one at j.
ChangedAt(a, b, j) == \E d \in 0..9 : b = [a EXCEPT ![j] = d]

LEMMA Changed ==
  ASSUME NEW a \in Numeral, NEW b \in Numeral,
         NEW n \in Nat, n = Len(a), NEW j \in 1..n
  PROVE  ChangedAt(a, b, j) <=> Len(b) = n /\ \A k \in 1..n : k # j => b[k] = a[k]
<1>1. ASSUME NEW d \in 0..9
      PROVE  LET y == [a EXCEPT ![j] = d]
             IN  /\ y \in Numeral /\ Len(y) = n /\ y[j] = d
                 /\ \A k \in 1..n : k # j => y[k] = a[k]
  BY DEF Numeral
<1>2. ASSUME Len(b) = n, \A k \in 1..n : k # j => b[k] = a[k]
      PROVE  \E d \in 0..9 : b = [a EXCEPT ![j] = d]
  <2>1. b[j] \in 0..9
    BY <1>2 DEF Numeral
  <2> DEFINE y == [a EXCEPT ![j] = b[j]]
  <2>2. /\ y \in Numeral /\ Len(y) = n /\ y[j] = b[j]
        /\ \A k \in 1..n : k # j => y[k] = a[k]
    BY <1>1, <2>1
  <2> HIDE DEF y
  <2>3. \A k \in 1..n : b[k] = y[k]
    BY <1>2, <2>2
  <2>4. b = y
    BY <1>2, <2>2, <2>3, SameText
  <2> QED BY <2>1, <2>4 DEF y
<1> QED BY <1>1, <1>2, SMTT(30) DEF ChangedAt

LEMMA Dropped ==
  ASSUME NEW a \in Numeral, NEW n \in Nat, Len(a) = n, NEW b \in Numeral, NEW j \in 1..n
  PROVE  b = SubSeq(a, 1, j - 1) \o From(a, j + 1)
            <=> /\ Len(b) = n - 1
                /\ \A k \in 1..j - 1 : b[k] = a[k]
                /\ \A k \in j..n - 1 : b[k] = a[k + 1]
<1> DEFINE h == SubSeq(a, 1, j - 1)
           f == From(a, j + 1)
           y == h \o f
<1>1. h \in Numeral /\ Len(h) = j - 1 /\ \A k \in 1..j - 1 : h[k] = a[k]
  BY DEF Numeral
<1>2. f \in Numeral /\ Len(f) = n - j /\ \A k \in 1..n - j : f[k] = a[k + j]
  <2>1. /\ f \in Numeral /\ Len(f) = IF j + 1 <= n THEN n - (j + 1) + 1 ELSE 0
        /\ \A k \in j + 1..n : f[k - (j + 1) + 1] = a[k]
    <3>1. j + 1 \in Nat \ {0}
      OBVIOUS
    <3> QED BY <3>1, FromShape, Zenon
  <2> HIDE DEF f
  <2>2. ASSUME NEW k \in 1..n - j
        PROVE  f[k] = a[k + j]
    <3>1. k + j \in j + 1..n /\ (k + j) - (j + 1) + 1 = k
      OBVIOUS
    <3> QED BY <2>1, <3>1
  <2>3. (IF j + 1 <= n THEN n - (j + 1) + 1 ELSE 0) = n - j
    OBVIOUS
  <2> QED BY <2>1, <2>2, <2>3
<1> HIDE DEF h, f
<1>3. /\ y \in Numeral /\ Len(y) = n - 1
      /\ \A k \in 1..j - 1 : y[k] = a[k]
      /\ \A k \in j..n - 1 : y[k] = a[k + 1]
  <2> DEFINE p == j - 1
             q == n - j
  <2>1. p \in Nat /\ q \in Nat /\ Len(h) = p /\ Len(f) = q
    BY <1>1, <1>2
  <2> HIDE DEF p, q
  <2>2. y \in Numeral
    BY <1>1, <1>2, Joined, Zenon
  <2>3. /\ Len(y) = p + q
        /\ \A k \in 1..p : y[k] = h[k]
        /\ \A k \in 1..q : y[k + p] = f[k]
    <3>1. /\ Len(y) = Len(h) + Len(f)
          /\ \A k \in 1..Len(h) : y[k] = h[k]
          /\ \A k \in 1..Len(f) : y[k + Len(h)] = f[k]
      BY <1>1, <1>2, Joined, Zenon
    <3> HIDE DEF y
    <3> QED BY <2>1, <3>1, SMT
  <2> HIDE DEF y
  <2>4. p + q = n - 1 /\ p = j - 1
    BY DEF p, q
  <2>5. \A k \in 1..j - 1 : y[k] = a[k]
    BY <1>1, <2>3, <2>4
  <2>6. ASSUME NEW k \in j..n - 1
        PROVE  y[k] = a[k + 1]
    <3>1. k - p \in 1..q /\ (k - p) + p = k /\ (k - p) + j = k + 1 /\ 1..q = 1..n - j
      BY DEF p, q
    <3> QED BY <1>2, <2>3, <3>1
  <2> QED BY <2>2, <2>3, <2>4, <2>5, <2>6
<1> HIDE DEF y
<1>4. ASSUME Len(b) = n - 1,
             \A k \in 1..j - 1 : b[k] = a[k], \A k \in j..n - 1 : b[k] = a[k + 1]
      PROVE  b = y
  <2>1. \A k \in 1..n - 1 : b[k] = y[k]
    BY <1>3, <1>4
  <2>2. n - 1 \in Nat
    OBVIOUS
  <2> QED BY <1>3, <1>4, <2>1, <2>2, SameText
<1>5. b = y <=> /\ Len(b) = n - 1
                /\ \A k \in 1..j - 1 : b[k] = a[k]
                /\ \A k \in j..n - 1 : b[k] = a[k + 1]
  BY <1>3, <1>4, Zenon
<1> QED BY <1>5 DEF y, h, f

LEMMA Added ==
  ASSUME NEW a \in Numeral, NEW n \in Nat, Len(a) = n, NEW b \in Numeral, NEW j \in 0..n
  PROVE  (\E d \in 0..9 : b = SubSeq(a, 1, j) \o <<d>> \o From(a, j + 1))
            <=> /\ Len(b) = n + 1
                /\ \A k \in 1..j : b[k] = a[k]
                /\ \A k \in j + 1..n : b[k + 1] = a[k]
<1> DEFINE h == SubSeq(a, 1, j)
           f == From(a, j + 1)
           y(d) == h \o <<d>> \o f
<1>1. h \in Numeral /\ Len(h) = j /\ \A k \in 1..j : h[k] = a[k]
  BY DEF Numeral
<1>2. f \in Numeral /\ Len(f) = n - j /\ \A k \in 1..n - j : f[k] = a[k + j]
  <2>1. /\ f \in Numeral /\ Len(f) = IF j + 1 <= n THEN n - (j + 1) + 1 ELSE 0
        /\ \A k \in j + 1..n : f[k - (j + 1) + 1] = a[k]
    <3>1. j + 1 \in Nat \ {0}
      OBVIOUS
    <3> QED BY <3>1, FromShape, Zenon
  <2> HIDE DEF f
  <2>2. ASSUME NEW k \in 1..n - j
        PROVE  f[k] = a[k + j]
    <3>1. k + j \in j + 1..n /\ (k + j) - (j + 1) + 1 = k
      OBVIOUS
    <3> QED BY <2>1, <3>1
  <2>3. (IF j + 1 <= n THEN n - (j + 1) + 1 ELSE 0) = n - j
    OBVIOUS
  <2> QED BY <2>1, <2>2, <2>3
<1> HIDE DEF h, f
<1>3. ASSUME NEW d \in 0..9
      PROVE  /\ y(d) \in Numeral /\ Len(y(d)) = n + 1 /\ y(d)[j + 1] = d
             /\ \A k \in 1..j : y(d)[k] = a[k]
             /\ \A k \in j + 1..n : y(d)[k + 1] = a[k]
  <2> DEFINE o == <<d>>
             g == h \o o
             z == g \o f
  <2>1. o \in Numeral /\ Len(o) = 1 /\ o[1] = d
    BY DEF Numeral
  <2> HIDE DEF o
  <2>2. /\ g \in Numeral /\ Len(g) = Len(h) + Len(o)
        /\ \A k \in 1..Len(h) : g[k] = h[k]
        /\ \A k \in 1..Len(o) : g[k + Len(h)] = o[k]
    BY <1>1, <2>1, Joined, Zenon
  <2> HIDE DEF g
  <2>3. Len(g) = j + 1 /\ \A k \in 1..j : g[k] = a[k]
    BY <1>1, <2>1, <2>2, SMT
  <2>4. g[j + 1] = d
    <3>1. 1 \in 1..Len(o) /\ 1 + Len(h) = j + 1
      BY <1>1, <2>1
    <3> QED BY <2>1, <2>2, <3>1
  <2>5. /\ z \in Numeral /\ Len(z) = Len(g) + Len(f)
        /\ \A k \in 1..Len(g) : z[k] = g[k]
        /\ \A k \in 1..Len(f) : z[k + Len(g)] = f[k]
    BY <1>2, <2>2, Joined, Zenon
  <2> HIDE DEF z
  <2>6. /\ Len(z) = (j + 1) + (n - j)
        /\ \A k \in 1..j + 1 : z[k] = g[k]
        /\ \A k \in 1..n - j : z[k + (j + 1)] = f[k]
    BY <1>2, <2>3, <2>5, SMT
  <2>7. Len(z) = n + 1
    <3>1. (j + 1) + (n - j) = n + 1
      OBVIOUS
    <3> QED BY <2>6, <3>1, Zenon
  <2>8. z[j + 1] = d /\ \A k \in 1..j : z[k] = a[k]
    BY <2>3, <2>4, <2>6
  <2>9. ASSUME NEW k \in j + 1..n
        PROVE  z[k + 1] = a[k]
    <3>1. k - j \in 1..n - j /\ (k - j) + (j + 1) = k + 1 /\ (k - j) + j = k
      OBVIOUS
    <3> QED BY <1>2, <2>6, <3>1
  <2> QED BY <2>5, <2>7, <2>8, <2>9, Zenon DEF z, g, o
<1> HIDE DEF y
<1>4. ASSUME Len(b) = n + 1,
             \A k \in 1..j : b[k] = a[k], \A k \in j + 1..n : b[k + 1] = a[k]
      PROVE  \E d \in 0..9 : b = y(d)
  <2> DEFINE d == b[j + 1]
  <2>1. d \in 0..9
    <3>1. j + 1 \in 1..Len(b)
      BY <1>4
    <3> QED BY <3>1 DEF Numeral
  <2> HIDE DEF d
  <2> DEFINE z == y(d)
  <2>2. /\ z \in Numeral /\ Len(z) = n + 1 /\ z[j + 1] = d
        /\ \A k \in 1..j : z[k] = a[k]
        /\ \A k \in j + 1..n : z[k + 1] = a[k]
    BY <1>3, <2>1, Zenon
  <2> HIDE DEF z
  <2>3. ASSUME NEW k \in 1..n + 1
        PROVE  b[k] = z[k]
    <3>1. CASE k <= j
      BY <1>4, <2>2, <3>1
    <3>2. CASE k = j + 1
      BY <2>2, <3>2 DEF d
    <3>3. CASE k > j + 1
      <4>1. k - 1 \in j + 1..n /\ (k - 1) + 1 = k
        BY <3>3
      <4> QED BY <1>4, <2>2, <4>1
    <3> QED BY <3>1, <3>2, <3>3
  <2>4. n + 1 \in Nat
    OBVIOUS
  <2>5. b = z
    BY <1>4, <2>2, <2>3, <2>4, SameText
  <2> QED BY <2>1, <2>5 DEF z
<1>5. (\E d \in 0..9 : b = y(d))
         <=> /\ Len(b) = n + 1
             /\ \A k \in 1..j : b[k] = a[k]
             /\ \A k \in j + 1..n : b[k + 1] = a[k]
  <2>1. ASSUME NEW d \in 0..9, b = y(d)
        PROVE  /\ Len(b) = n + 1
               /\ \A k \in 1..j : b[k] = a[k]
               /\ \A k \in j + 1..n : b[k + 1] = a[k]
    BY <1>3, <2>1, Zenon
  <2> QED BY <1>4, <2>1, Zenon
<1> QED BY <1>5, Zenon DEF y, h, f

\* The distance from the first difference on is one edit anywhere.
LEMMA OneEdit ==
  ASSUME NEW a \in Numeral, NEW b \in Numeral
  PROVE  distanciaAteUm(a, b) <=> b \in Edited(a)
<1> DEFINE la == Len(a)
           lb == Len(b)
           Common == {n \in 0..la : n <= lb /\ \A k \in 1..n : a[k] = b[k]}
           c == CHOOSE n \in Common : \A m \in Common : m <= n
<1>1. la \in Nat /\ lb \in Nat
  BY DEF Numeral
<1>2. DOMAIN a = 1..la
  BY DEF Numeral
<1>3. distanciaAteUm(a, b) <=>
         \/ a = b
         \/ la = lb /\ From(a, c + 1 + 1) = From(b, c + 1 + 1)
         \/ la = lb + 1 /\ From(a, c + 1 + 1) = From(b, c + 1)
         \/ lb = la + 1 /\ From(a, c + 1) = From(b, c + 1 + 1)
  BY Zenon DEF distanciaAteUm
<1>4. b \in Edited(a) <=>
         \/ b = a
         \/ \E j \in 1..la : \E d \in 0..9 : b = [a EXCEPT ![j] = d]
         \/ \E j \in 1..la : b = SubSeq(a, 1, j - 1) \o From(a, j + 1)
         \/ \E j \in 0..la : \E d \in 0..9 :
               b = SubSeq(a, 1, j) \o <<d>> \o From(a, j + 1)
  <2> DEFINE E1 == {[a EXCEPT ![i] = d] : i \in DOMAIN a, d \in 0..9}
             E2 == {SubSeq(a, 1, i - 1) \o From(a, i + 1) : i \in DOMAIN a}
             Y(i, d) == SubSeq(a, 1, i) \o <<d>> \o From(a, i + 1)
             E3 == {Y(i, d) : i \in 0..Len(a), d \in 0..9}
  <2>1. Edited(a) = {a} \cup E1 \cup E2 \cup E3
    BY DEF Edited
  <2>2. b \in E1 <=> \E j \in 1..la : \E d \in 0..9 : b = [a EXCEPT ![j] = d]
    BY <1>2
  <2>3. b \in E2 <=> \E j \in 1..la : b = SubSeq(a, 1, j - 1) \o From(a, j + 1)
    BY <1>2
  <2> HIDE DEF Y, E1, E2
  <2>4. b \in E3 <=> \E j \in 0..la : \E d \in 0..9 : b = Y(j, d)
    OBVIOUS
  <2> HIDE DEF la, E3
  <2>5. b \in Edited(a) <=> b = a \/ b \in E1 \/ b \in E2 \/ b \in E3
    BY <2>1
  <2> QED BY <2>2, <2>3, <2>4, <2>5, Zenon DEF Y
<1> HIDE DEF la, lb
<1>5. Len(a) = la /\ Len(b) = lb
  BY DEF la, lb
<1>6. c \in Common /\ \A m \in Common : m <= c
  <2>1. Common \in SUBSET Nat /\ Common # {} /\ \A m \in Common : m <= la
    <3>1. 0 \in Common
      BY <1>1
    <3> QED BY <1>1, <3>1
  <2>2. \E n \in Common : \A m \in Common : m <= n
    BY <1>1, <2>1, Greatest
  <2> HIDE DEF Common
  <2> QED BY <2>2
<1>7. /\ c \in 0..la /\ c <= lb /\ \A k \in 1..c : a[k] = b[k]
      /\ \A m \in 0..la : m <= lb /\ (\A k \in 1..m : a[k] = b[k]) => m <= c
  BY <1>6
<1> HIDE DEF c, Common
<1>8. c + 1 \in Nat \ {0} /\ c + 1 + 1 \in Nat \ {0}
  BY <1>1, <1>7
\* Digit by digit.
<1>9. ASSUME la = lb
      PROVE  From(a, c + 1 + 1) = From(b, c + 1 + 1) <=> \A k \in c + 2..la : a[k] = b[k]
  <2>1. From(a, c + 1 + 1) = From(b, c + 1 + 1)
           <=> \A k \in c + 1 + 1..la : a[k] = b[k + ((c + 1 + 1) - (c + 1 + 1))]
    <3>1. la - (c + 1 + 1) = lb - (c + 1 + 1)
      BY <1>9
    <3> QED BY <1>8, <3>1, SameTail, Zenon DEF la, lb
  <2>2. c + 1 + 1 = c + 2 /\ \A k \in Int : k + ((c + 1 + 1) - (c + 1 + 1)) = k
    BY <1>7
  <2> QED BY <2>1, <2>2
<1>10. ASSUME la = lb + 1
       PROVE  From(a, c + 1 + 1) = From(b, c + 1) <=> \A k \in c + 2..la : a[k] = b[k - 1]
  <2>1. la - (c + 1 + 1) = lb - (c + 1)
    BY <1>1, <1>7, <1>10
  <2>2. From(a, c + 1 + 1) = From(b, c + 1)
           <=> \A k \in c + 1 + 1..la : a[k] = b[k + ((c + 1) - (c + 1 + 1))]
    BY <1>8, <2>1, SameTail, Zenon DEF la, lb
  <2>3. c + 1 + 1 = c + 2 /\ \A k \in Int : k + ((c + 1) - (c + 1 + 1)) = k - 1
    BY <1>7
  <2> QED BY <2>2, <2>3
<1>11. ASSUME lb = la + 1
       PROVE  From(a, c + 1) = From(b, c + 1 + 1) <=> \A k \in c + 1..la : a[k] = b[k + 1]
  <2>1. la - (c + 1) = lb - (c + 1 + 1)
    BY <1>1, <1>7, <1>11
  <2>2. From(a, c + 1) = From(b, c + 1 + 1)
           <=> \A k \in c + 1..la : a[k] = b[k + ((c + 1 + 1) - (c + 1))]
    BY <1>8, <2>1, SameTail, Zenon DEF la, lb
  <2>3. \A k \in Int : k + ((c + 1 + 1) - (c + 1)) = k + 1
    BY <1>7
  <2> QED BY <2>2, <2>3
<1>12. \A j \in 1..la : (\E d \in 0..9 : b = [a EXCEPT ![j] = d])
            <=> lb = la /\ \A k \in 1..la : k # j => b[k] = a[k]
  <2> TAKE j \in 1..la
  <2>1. la = Len(a) /\ Len(b) = lb
    BY <1>5
  <2>2. (\E d \in 0..9 : b = [a EXCEPT ![j] = d])
          <=> Len(b) = la /\ \A k \in 1..la : k # j => b[k] = a[k]
    <3>1. ChangedAt(a, b, j) <=> Len(b) = la /\ \A k \in 1..la : k # j => b[k] = a[k]
      BY <1>1, <2>1, Changed, Zenon
    <3> QED BY <3>1 DEF ChangedAt
  <2> QED BY <2>1, <2>2, Zenon
<1>13. \A j \in 1..la : b = SubSeq(a, 1, j - 1) \o From(a, j + 1)
            <=> /\ lb = la - 1
                /\ \A k \in 1..j - 1 : b[k] = a[k]
                /\ \A k \in j..la - 1 : b[k] = a[k + 1]
  BY <1>1, Dropped, Zenon DEF la, lb
<1>14. \A j \in 0..la :
          (\E d \in 0..9 : b = SubSeq(a, 1, j) \o <<d>> \o From(a, j + 1))
            <=> /\ lb = la + 1
                /\ \A k \in 1..j : b[k] = a[k]
                /\ \A k \in j + 1..la : b[k + 1] = a[k]
  BY <1>1, Added, Zenon DEF la, lb
<1>15. CASE a = b
  BY <1>3, <1>4, <1>15
<1>16. CASE a # b /\ la = lb
  <2>1. c < la
    <3>1. c # la
      BY <1>1, <1>5, <1>7, <1>16, SameText
    <3> QED BY <1>1, <1>7, <3>1
  <2>2. distanciaAteUm(a, b) <=> \A k \in c + 2..la : a[k] = b[k]
    <3>1. la # lb + 1 /\ lb # la + 1
      BY <1>1, <1>16
    <3> QED BY <1>3, <1>9, <1>16, <3>1, Zenon
  <2>3. b \in Edited(a) <=> \E j \in 1..la : \A k \in 1..la : k # j => b[k] = a[k]
    <3>1. lb # la - 1 /\ lb # la + 1
      BY <1>1, <1>16
    <3> QED BY <1>4, <1>12, <1>13, <1>14, <1>16, <3>1, Zenon
  <2>4. ASSUME \A k \in c + 2..la : a[k] = b[k]
        PROVE  \E j \in 1..la : \A k \in 1..la : k # j => b[k] = a[k]
    <3>1. c + 1 \in 1..la
      BY <1>1, <1>7, <2>1
    <3>2. ASSUME NEW k \in 1..la, k # c + 1
          PROVE  b[k] = a[k]
      <4>1. k \in 1..c \/ k \in c + 2..la
        BY <1>7, <3>2
      <4> QED BY <1>7, <2>4, <4>1
    <3> QED BY <3>1, <3>2
  <2>5. ASSUME NEW j \in 1..la, \A k \in 1..la : k # j => b[k] = a[k]
        PROVE  \A k \in c + 2..la : a[k] = b[k]
    <3>1. j - 1 <= c
      <4>1. j - 1 \in 0..la /\ j - 1 <= lb
        BY <1>1, <1>16
      <4>2. \A k \in 1..j - 1 : a[k] = b[k]
        BY <1>1, <2>5
      <4> QED BY <1>7, <4>1, <4>2
    <3>2. ASSUME NEW k \in c + 2..la
          PROVE  k \in 1..la /\ k # j
      BY <1>7, <3>1
    <3> QED BY <2>5, <3>2
  <2> QED BY <2>2, <2>3, <2>4, <2>5, Zenon
<1>17. CASE a # b /\ la = lb + 1
  <2>1. distanciaAteUm(a, b) <=> \A k \in c + 2..la : a[k] = b[k - 1]
    <3>1. la # lb /\ lb # la + 1
      BY <1>1, <1>17
    <3> QED BY <1>3, <1>10, <1>17, <3>1, Zenon
  <2>2. b \in Edited(a) <=>
           \E j \in 1..la : /\ \A k \in 1..j - 1 : b[k] = a[k]
                           /\ \A k \in j..la - 1 : b[k] = a[k + 1]
    <3>1. lb = la - 1 /\ lb # la /\ lb # la + 1
      BY <1>1, <1>17
    <3> QED BY <1>4, <1>12, <1>13, <1>14, <1>17, <3>1, Zenon
  <2>3. ASSUME \A k \in c + 2..la : a[k] = b[k - 1]
        PROVE  \E j \in 1..la : /\ \A k \in 1..j - 1 : b[k] = a[k]
                               /\ \A k \in j..la - 1 : b[k] = a[k + 1]
    <3>1. c + 1 \in 1..la /\ (c + 1) - 1 = c
      BY <1>1, <1>7, <1>17
    <3>2. ASSUME NEW k \in c + 1..la - 1
          PROVE  b[k] = a[k + 1]
      <4>1. k + 1 \in c + 2..la /\ (k + 1) - 1 = k
        BY <1>1, <1>7
      <4> QED BY <2>3, <4>1
    <3> QED BY <1>7, <3>1, <3>2
  <2>4. ASSUME NEW j \in 1..la, \A k \in 1..j - 1 : b[k] = a[k],
               \A k \in j..la - 1 : b[k] = a[k + 1]
        PROVE  \A k \in c + 2..la : a[k] = b[k - 1]
    <3>1. j - 1 <= c
      <4>1. j - 1 \in 0..la /\ j - 1 <= lb
        BY <1>1, <1>17
      <4> QED BY <1>7, <2>4, <4>1
    <3>2. ASSUME NEW k \in c + 2..la
          PROVE  a[k] = b[k - 1]
      <4>1. k - 1 \in j..la - 1 /\ (k - 1) + 1 = k
        BY <1>1, <1>7, <3>1
      <4> QED BY <2>4, <4>1
    <3> QED BY <3>2
  <2> QED BY <2>1, <2>2, <2>3, <2>4, Zenon
<1>18. CASE a # b /\ lb = la + 1
  <2>1. distanciaAteUm(a, b) <=> \A k \in c + 1..la : a[k] = b[k + 1]
    <3>1. la # lb /\ la # lb + 1
      BY <1>1, <1>18
    <3> QED BY <1>3, <1>11, <1>18, <3>1, Zenon
  <2>2. b \in Edited(a) <=>
           \E j \in 0..la : /\ \A k \in 1..j : b[k] = a[k]
                           /\ \A k \in j + 1..la : b[k + 1] = a[k]
    <3>1. lb # la - 1 /\ lb # la
      BY <1>1, <1>18
    <3> QED BY <1>4, <1>12, <1>13, <1>14, <1>18, <3>1, Zenon
  <2>3. ASSUME \A k \in c + 1..la : a[k] = b[k + 1]
        PROVE  \E j \in 0..la : /\ \A k \in 1..j : b[k] = a[k]
                               /\ \A k \in j + 1..la : b[k + 1] = a[k]
    BY <1>7, <2>3
  <2>4. ASSUME NEW j \in 0..la, \A k \in 1..j : b[k] = a[k],
               \A k \in j + 1..la : b[k + 1] = a[k]
        PROVE  \A k \in c + 1..la : a[k] = b[k + 1]
    <3>1. j <= c
      <4>1. j \in 0..la /\ j <= lb
        BY <1>1, <1>18
      <4> QED BY <1>7, <2>4, <4>1
    <3>2. ASSUME NEW k \in c + 1..la
          PROVE  a[k] = b[k + 1]
      <4>1. k \in j + 1..la
        BY <1>7, <3>1
      <4> QED BY <2>4, <4>1
    <3> QED BY <3>2
  <2> QED BY <2>1, <2>2, <2>3, <2>4, Zenon
<1>19. CASE a # b /\ la # lb /\ la # lb + 1 /\ lb # la + 1
  <2>1. lb # la - 1
    BY <1>1, <1>19
  <2> QED BY <1>3, <1>4, <1>12, <1>13, <1>14, <1>19, <2>1, Zenon
<1> QED BY <1>15, <1>16, <1>17, <1>18, <1>19

LEMMA KeyType ==
  ASSUME NEW w \in Text, NEW d \in Numeral
  PROVE  ChaveComDDD(w, d) \in Numeral
<1>1. ComDDD(ChaveLocal(w), d) \in Numeral
  BY LocalType, Joined, Zenon DEF ComDDD
<1>2. <<>> \in Numeral
  BY DEF Numeral
<1> QED BY <1>1, <1>2, KeyHasLine, FullShape, Zenon DEF ChaveComDDD

\* What the keys of a pair are compared with: texts of digits.
LEMMA PairType ==
  ASSUME NEW a \in Text, NEW b \in Text
  PROVE  chavesPar(a, b)[1] \in Numeral /\ chavesPar(a, b)[2] \in Numeral
<1>1. <<>> \in Numeral
  BY DEF Numeral
<1>2. ASSUME NEW w \in Text, Chave(w) # <<>>
      PROVE  SubSeq(Chave(w), 3, 4) \in Numeral
  <2>1. PICK l : LineLike(l) /\ Chave(w) = Full(l)
    BY <1>2, ComparedKey
  <2> DEFINE k == Full(l)
  <2>2. k \in Numeral /\ Len(k) \in {12, 13}
    BY <2>1, FullShape
  <2> HIDE DEF k
  <2>3. 3 \in 1..Len(k) /\ 4 \in 3..Len(k)
    <3>1. \A n \in {12, 13} : 3 \in 1..n /\ 4 \in 3..n
      OBVIOUS
    <3> QED BY <2>2, <3>1, Zenon
  <2>4. SubSeq(k, 3, 4) \in Numeral
    BY <2>2, <2>3, PartType
  <2> QED BY <2>1, <2>4 DEF k
<1>3. /\ chavesPar(a, b)[1] = IF Chave(a) = <<>> /\ Chave(b) # <<>>
                              THEN ChaveComDDD(a, SubSeq(Chave(b), 3, 4)) ELSE Chave(a)
      /\ chavesPar(a, b)[2] = IF Chave(b) = <<>> /\ Chave(a) # <<>>
                              THEN ChaveComDDD(b, SubSeq(Chave(a), 3, 4)) ELSE Chave(b)
  BY DEF chavesPar
<1>4. Chave(a) \in Numeral /\ Chave(b) \in Numeral
  BY <1>1, KeyType DEF Chave
<1>5. ASSUME NEW w \in Text, NEW v \in Text, Chave(v) # <<>>
      PROVE  ChaveComDDD(w, SubSeq(Chave(v), 3, 4)) \in Numeral
  BY <1>2, <1>5, KeyType, Zenon
<1> QED BY <1>3, <1>4, <1>5, Zenon

LEMMA WarnedOfOneEdit ==
  ASSUME NEW a \in Text, NEW b \in Text
  PROVE  Parecido(a, b) <=>
            /\ chavesPar(a, b)[1] # <<>> /\ chavesPar(a, b)[2] # <<>>
            /\ chavesPar(a, b)[2] \in Edited(chavesPar(a, b)[1])
<1> DEFINE p == chavesPar(a, b)
<1>1. p[1] \in Numeral /\ p[2] \in Numeral
  BY PairType
<1>2. Parecido(a, b) <=> p[1] # <<>> /\ p[2] # <<>> /\ distanciaAteUm(p[1], p[2])
  BY Zenon DEF Parecido
<1> HIDE DEF p
<1>3. distanciaAteUm(p[1], p[2]) <=> p[2] \in Edited(p[1])
  BY <1>1, OneEdit, Zenon
<1> QED BY <1>2, <1>3, Zenon DEF p

\* The warning of a likely typing error (chave.go, Parecido) is given for keys
\* that one edit of one digit makes of each other, and for no others.
THEOREM WarnsOfEdits == Spec => []WarnsOfOneDigit
<1>1. HeardOK => WarnsOfOneDigit
  <2> SUFFICES ASSUME HeardOK
               PROVE  WarnsOfOneDigit
    OBVIOUS
  <2>1. recent[1] \in Text /\ recent[2] \in Text
    BY HeardText DEF HeardOK
  <2> QED BY <2>1, WarnedOfOneEdit, Zenon DEF WarnsOfOneDigit
<1> QED BY <1>1, HeardInvariant, PTL

-----------------------------------------------------------------------------
(* The number to send to. *)

\* The cases of Classify, each on its own.
LEMMA Classified ==
  ASSUME NEW w
  PROVE  LET d == TrimZeros(soDigitos(w))
         IN  /\ Len(d) \in {12, 13} /\ HasPrefix(d, BR) =>
                  Normalize(w) = IF dddValido(SubSeq(d, 3, 4)) THEN d ELSE <<>>
             /\ Len(d) \in {10, 11} =>
                  Normalize(w) = IF dddValido(SubSeq(d, 1, 2)) THEN BR \o d ELSE <<>>
             /\ Len(d) \in {12, 13} /\ ~HasPrefix(d, BR) => Normalize(w) = <<>>
             /\ Len(d) \in {0, 8, 9, 14} => Normalize(w) = <<>>
<1> DEFINE d == TrimZeros(soDigitos(w))
           n == Len(d)
           c == CASE n = 0 -> Rejected("sem_telefone")
                  [] n \in {12, 13} /\ ~HasPrefix(d, BR) -> Rejected("formato_invalido")
                  [] n \in {12, 13} /\ HasPrefix(d, BR) -> Accepted(d, SubSeq(d, 3, 4))
                  [] n \in {10, 11} -> Accepted(BR \o d, SubSeq(d, 1, 2))
                  [] n \in {8, 9} -> Rejected("incompleto")
                  [] OTHER -> Rejected("formato_invalido")
<1>1. Classify(w) = c
  BY DEF Classify
<1>2. Normalize(w) = c.e164
  BY <1>1 DEF Normalize
<1>3. /\ \A s : Rejected(s).e164 = <<>>
      /\ \A e, a : Accepted(e, a).e164 = IF dddValido(a) THEN e ELSE <<>>
  BY DEF Rejected, Accepted
<1> HIDE DEF d, n
<1>4. n \in {12, 13} => n # 0 /\ n \notin {10, 11} /\ n \notin {8, 9}
  OBVIOUS
<1>5. n \in {10, 11} => n # 0 /\ n \notin {12, 13} /\ n \notin {8, 9}
  OBVIOUS
<1>6. n \in {8, 9} => n # 0 /\ n \notin {12, 13} /\ n \notin {10, 11}
  OBVIOUS
<1>7. n = 14 => n # 0 /\ n \notin {12, 13} /\ n \notin {10, 11} /\ n \notin {8, 9}
  OBVIOUS
<1>8. n = 0 => n \notin {12, 13} /\ n \notin {10, 11} /\ n \notin {8, 9}
  OBVIOUS
<1>9. n \in {12, 13} /\ HasPrefix(d, BR) => c = Accepted(d, SubSeq(d, 3, 4))
  BY <1>4, Zenon
<1>10. n \in {12, 13} /\ ~HasPrefix(d, BR) => c = Rejected("formato_invalido")
  BY <1>4, Zenon
<1>11. n \in {10, 11} => c = Accepted(BR \o d, SubSeq(d, 1, 2))
  BY <1>5, Zenon
<1>12. n \in {8, 9} => c = Rejected("incompleto")
  BY <1>6, Zenon
<1>13. n = 14 => c = Rejected("formato_invalido")
  BY <1>7, Zenon
<1>14. n = 0 => c = Rejected("sem_telefone")
  BY <1>8, Zenon
<1> HIDE DEF c
<1>15. n \in {0, 8, 9, 14} => n = 0 \/ n \in {8, 9} \/ n = 14
  OBVIOUS
<1>16. n \in {12, 13} /\ HasPrefix(d, BR) =>
          Normalize(w) = IF dddValido(SubSeq(d, 3, 4)) THEN d ELSE <<>>
  BY <1>2, <1>3, <1>9, Zenon
<1>17. n \in {10, 11} =>
          Normalize(w) = IF dddValido(SubSeq(d, 1, 2)) THEN BR \o d ELSE <<>>
  BY <1>2, <1>3, <1>11, Zenon
<1>18. n \in {12, 13} /\ ~HasPrefix(d, BR) => Normalize(w) = <<>>
  BY <1>2, <1>3, <1>10, Zenon
<1>19. n \in {0, 8, 9, 14} => Normalize(w) = <<>>
  BY <1>2, <1>3, <1>12, <1>13, <1>14, <1>15, Zenon
<1> QED BY <1>16, <1>17, <1>18, <1>19 DEF d, n

\* A number without and with its country code.
LEMMA NumberSent ==
  ASSUME NEW n, IsNumber(n), NEW w, soDigitos(w) = n \/ soDigitos(w) = << 0 >> \o n
  PROVE  Normalize(w) = BR \o n
<1>1. TrimZeros(soDigitos(w)) = n /\ Len(n) \in {10, 11} /\ dddValido(SubSeq(n, 1, 2))
  BY NumberShape DEF IsNumber
<1> QED BY <1>1, Classified, Zenon

LEMMA CountrySent ==
  ASSUME NEW n, IsNumber(n), NEW w, soDigitos(w) = BR \o n
  PROVE  Normalize(w) = BR \o n
<1> DEFINE d == BR \o n
<1>1. /\ d \in Numeral /\ TrimZeros(d) = d /\ HasPrefix(d, BR)
      /\ Len(d) \in {12, 13} /\ Len(d) = Len(n) + 2 /\ From(d, 3) = n
  BY CountryShape, Zenon
<1>2. n \in Numeral /\ Len(n) \in {10, 11} /\ dddValido(SubSeq(n, 1, 2))
  BY NumberShape DEF IsNumber
<1> HIDE DEF d
<1>3. SubSeq(d, 3, 4) = SubSeq(n, 1, 2)
  <2> DEFINE k == Len(n)
  <2>1. k \in {10, 11} /\ Len(d) = k + 2
    BY <1>1, <1>2
  <2>2. n = SubSeq(d, 3, k + 2)
    BY <1>1, <2>1 DEF From
  <2> HIDE DEF k
  <2>3. SubSeq(SubSeq(d, 3, k + 2), 1, 2) = SubSeq(d, 3, 4)
    BY <1>1, <2>1 DEF Numeral
  <2> QED BY <2>2, <2>3
<1>4. TrimZeros(soDigitos(w)) = d
  BY <1>1 DEF d
<1>5. Normalize(w) = d
  BY <1>1, <1>2, <1>3, <1>4, Classified, Zenon
<1> QED BY <1>5 DEF d

\* The keys allow a trunk zero after the country code and a carrier, the
\* number to send to does not.
LEMMA TrunkNotSent ==
  ASSUME NEW n, IsNumber(n), NEW w, soDigitos(w) = BR \o << 0 >> \o n
  PROVE  Normalize(w) = <<>>
<1> DEFINE d == BR \o <<0>> \o n
<1>1. /\ d \in Numeral /\ TrimZeros(d) = d /\ HasPrefix(d, BR)
      /\ Len(d) = Len(n) + 3 /\ SubSeq(d, 3, 4)[1] = 0
  BY TrunkShape, Zenon
<1>2. soDigitos(w) = d
  OBVIOUS
<1> HIDE DEF d
<1>3. ~dddValido(SubSeq(d, 3, 4))
  <2>1. 0 \notin 1..9
    OBVIOUS
  <2> QED BY <1>1, <2>1, Zenon DEF dddValido
<1>4. Len(d) \in {12, 13} \/ Len(d) \in {0, 8, 9, 14}
  <2>1. Len(n) \in {10, 11}
    BY NumberShape
  <2>2. \A k \in {10, 11} : k + 3 \in {12, 13} \/ k + 3 \in {0, 8, 9, 14}
    OBVIOUS
  <2> QED BY <1>1, <2>1, <2>2, Zenon
<1> QED BY <1>1, <1>2, <1>3, <1>4, Classified, Zenon

LEMMA CarrierNotSent ==
  ASSUME NEW n, IsNumber(n), NEW c, IsCarrier(c),
         NEW w, soDigitos(w) = << 0 >> \o (c \o n)
  PROVE  Normalize(w) = <<>>
<1>1. /\ TrimZeros(soDigitos(w)) = c \o n /\ Len(c \o n) \in {12, 13}
      /\ ~HasPrefix(c \o n, BR)
  BY CarrierShape, Zenon
<1> QED BY <1>1, Classified, Zenon

LEMMA BareNotSent ==
  ASSUME NEW x \in Numeral, Len(x) \in {8, 9}, x[1] # 0
  PROVE  Normalize(x) = <<>>
<1>1. x # <<>>
  OBVIOUS
<1>2. TrimZeros(soDigitos(x)) = x
  BY <1>1, DigitsOnly, NothingTrimmed, Zenon
<1> QED BY <1>2, Classified, Zenon

LEMMA NothingSent == Normalize(<<>>) = <<>>
<1>1. <<>> \in Numeral /\ Len(<<>>) = 0
  BY DEF Numeral
<1>2. TrimZeros(<<>>) = <<>>
  BY DEF TrimZeros
<1>3. TrimZeros(soDigitos(<<>>)) = <<>>
  BY <1>1, <1>2, DigitsOnly
<1> QED BY <1>1, <1>3, Classified, Zenon

\* A number that is sent to is its own, and has the key of what it came from.
LEMMA SentIsStable ==
  ASSUME NEW w, Heardable(w), Normalize(w) # <<>>
  PROVE  Normalize(Normalize(w)) = Normalize(w) /\ Chave(Normalize(w)) = Chave(w)
<1>1. ASSUME NEW l, IsLine(l)
      PROVE  w # Bare(l)
  <2>1. l.ass \in Numeral /\ Len(l.ass) \in {8, 9} /\ l.ass[1] # 0
    BY <1>1, LinesAreLike, LineShape
  <2> QED BY <2>1, BareNotSent, Zenon DEF Bare
<1>2. PICK l : IsLine(l) /\ w \in Writings(l)
  BY <1>1, NothingSent, Zenon DEF Heardable
<1>3. PICK n \in Numbers(l) :
            /\ ChaveLocal(w) = n
            /\ \/ soDigitos(w) = n
               \/ soDigitos(w) = BR \o n
               \/ soDigitos(w) = <<0>> \o n
               \/ soDigitos(w) = BR \o <<0>> \o n
               \/ \E c \in Carrier : soDigitos(w) = <<0>> \o (c \o n)
  BY <1>2, WritingShape
<1>4. IsNumber(n)
  BY <1>2, LinesAreLike, KeyOfNumbers
<1>5. Normalize(w) = BR \o n
  <2>1. soDigitos(w) # BR \o <<0>> \o n
    BY <1>4, TrunkNotSent, Zenon
  <2>2. ASSUME NEW c \in Carrier
        PROVE  soDigitos(w) # <<0>> \o (c \o n)
    BY <1>4, LineAssumption, CarrierNotSent, Zenon
  <2> QED BY <1>3, <1>4, <2>1, <2>2, NumberSent, CountrySent, Zenon
<1>6. soDigitos(BR \o n) = BR \o n
  BY <1>4, CountryShape, DigitsOnly, Zenon
<1>7. Normalize(BR \o n) = BR \o n
  BY <1>4, <1>6, CountrySent, Zenon
<1>8. ChaveLocal(BR \o n) = n
  BY <1>4, <1>6, CountryKey, Zenon
<1>9. Chave(BR \o n) = Full(l) /\ Chave(w) = Full(l)
  BY <1>2, <1>3, <1>8, LinesAreLike, KeysOfNumber, Zenon
<1> QED BY <1>5, <1>7, <1>9, Zenon

\* "Normalize(Normalize(x)) == Normalize(x)" (phonebr.go) for every text that a
\* line writes, and the number has that line's key.
THEOREM SendableStable == Spec => []SendableIsStable
<1>1. HeardOK => SendableIsStable
  <2> SUFFICES ASSUME HeardOK
               PROVE  SendableIsStable
    OBVIOUS
  <2>1. Heardable(recent[2])
    BY DEF HeardOK
  <2> QED BY <2>1, SentIsStable, Zenon DEF SendableIsStable
<1> QED BY <1>1, HeardInvariant, PTL
=============================================================================
