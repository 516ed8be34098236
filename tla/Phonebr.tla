------------------------------- MODULE Phonebr -------------------------------
(***************************************************************************)
(* Package phonebr: the classification of a phone for sending and the keys *)
(* that compare two phones.  A text is a sequence of digits, where Other   *)
(* stands for every character that is not one.                             *)
(***************************************************************************)
EXTENDS Texts

Other == 10

\* The country code.
BR == <<5, 5>>

soDigitos(s) == Keep(s, 0..9)

TrimZeros(d) ==
    LET P == {i \in DOMAIN d : d[i] # 0}
    IN  IF P = {} THEN <<>> ELSE SubSeq(d, CHOOSE i \in P : \A j \in P : i <= j, Len(d))

HasPrefix(d, p) == Len(d) >= Len(p) /\ SubSeq(d, 1, Len(p)) = p
From(d, i) == SubSeq(d, i, Len(d))

\* The second digits of the area codes in use, by their first.
AreaCodes == <<1..9, {1, 2, 4, 7, 8}, {1, 2, 3, 4, 5, 7, 8}, 1..9, {1, 3, 4, 5},
               1..9, {1, 3, 4, 5, 7, 9}, 1..9, 1..9>>
dddValido(ddd) == Len(ddd) = 2 /\ ddd[1] \in 1..9 /\ ddd[2] \in AreaCodes[ddd[1]]

-----------------------------------------------------------------------------
\* The number to send to and a status; no number unless the status is valid.
Rejected(status) == [e164 |-> <<>>, status |-> status]
Accepted(e164, ddd) ==
    IF dddValido(ddd) THEN [e164 |-> e164, status |-> "valido"]
    ELSE Rejected("ddd_invalido")

\* A mutant: any country code.
ClassifyAnyCountry(raw) ==
    LET d == TrimZeros(soDigitos(raw))
        n == Len(d)
    IN  CASE n \in {12, 13} -> Accepted(d, SubSeq(d, 3, 4))
          [] n \in {10, 11} -> Accepted(BR \o d, SubSeq(d, 1, 2))
          [] OTHER -> Rejected("formato_invalido")

Classify(raw) ==
    LET d == TrimZeros(soDigitos(raw))
        n == Len(d)
    IN  CASE n = 0 -> Rejected("sem_telefone")
          [] n \in {12, 13} /\ ~HasPrefix(d, BR) -> Rejected("formato_invalido")
          [] n \in {12, 13} /\ HasPrefix(d, BR) -> Accepted(d, SubSeq(d, 3, 4))
          [] n \in {10, 11} -> Accepted(BR \o d, SubSeq(d, 1, 2))
          [] n \in {8, 9} -> Rejected("incompleto")
          [] OTHER -> Rejected("formato_invalido")

Normalize(raw) == Classify(raw).e164
Valido(raw) == Classify(raw).status = "valido"

-----------------------------------------------------------------------------
\* "+55 0 11 ...": the trunk zero after the country code.
SemTronco(d) == IF HasPrefix(d, BR \o <<0>>) THEN BR \o TrimZeros(From(d, 3)) ELSE d

\* "0 15 11 ...": the carrier of a long-distance call.
SemOperadora(d, tronco) ==
    IF /\ tronco
       /\ Len(d) \in {12, 13}
       /\ ~HasPrefix(d, BR)
       /\ dddValido(SubSeq(d, 3, 4))
    THEN From(d, 3) ELSE d

digitosBR(raw) ==
    SemOperadora(SemTronco(TrimZeros(soDigitos(raw))),
                 HasPrefix(soDigitos(raw), <<0>>))

\* The country code, told from an area code by the length.
SemPais(d) == IF Len(d) \in {12, 13} /\ HasPrefix(d, BR) THEN From(d, 3) ELSE d

\* The key that is stored: area code and number, the ninth digit left alone.
ChaveLocal(raw) == SemPais(digitosBR(raw))

\* A mutant: landlines get the ninth digit as well.
SubscriberAll(ass) == IF Len(ass) = 8 THEN <<9>> \o ass ELSE ass

\* The ninth digit of an old mobile number; nothing for nine digits without it.
Subscriber(ass) ==
    LET com == IF Len(ass) = 8 /\ ass[1] >= 6 THEN <<9>> \o ass ELSE ass
    IN  IF Len(com) = 9 /\ com[1] # 9 THEN <<>> ELSE com

\* A number of a line without its area code takes ddd.
ComDDD(l, ddd) == IF Len(l) \in {8, 9} /\ dddValido(ddd) THEN ddd \o l ELSE l

\* The key of area code and number, <<>> when they make no phone.
Comparavel(ddd, ass) ==
    IF dddValido(ddd) /\ ass # <<>> THEN BR \o ddd \o ass ELSE <<>>
KeyOf(l) ==
    IF Len(l) \in {10, 11} THEN Comparavel(SubSeq(l, 1, 2), Subscriber(From(l, 3)))
    ELSE <<>>

\* The key that is compared; dddPadrao completes a text without area code.
ChaveComDDD(raw, dddPadrao) == KeyOf(ComDDD(ChaveLocal(raw), dddPadrao))

Chave(raw) == ChaveComDDD(raw, <<>>)

\* The stored key of a classic mobile number without its ninth digit.
SemNono(com) ==
    IF Len(com) = 11 /\ com[3] = 9 /\ com[4] >= 6
    THEN {SubSeq(com, 1, 2) \o From(com, 4)} ELSE {}

\* A mutant: the key as it is compared, alone.
VariantesChave(raw) == {From(Chave(raw), 3)}

\* The stored keys a search has to try.
Variantes(raw) ==
    IF Chave(raw) = <<>> THEN {ChaveLocal(raw)} \ {<<>>}
    ELSE {From(Chave(raw), 3)} \cup SemNono(From(Chave(raw), 3))

\* A mutant: the second text takes no area code from the first.
chavesParOneWay(a, b) ==
    LET kb == Chave(b)
    IN  <<IF Chave(a) = <<>> /\ kb # <<>> THEN ChaveComDDD(a, SubSeq(kb, 3, 4))
          ELSE Chave(a), kb>>

\* The keys of a pair: a phone without area code takes the other's.
chavesPar(a, b) ==
    LET ka == Chave(a)
        kb == Chave(b)
        Lent(k, raw, other) ==
            IF k = <<>> /\ other # <<>> THEN ChaveComDDD(raw, SubSeq(other, 3, 4)) ELSE k
    IN  <<Lent(ka, a, kb), Lent(kb, b, ka)>>

Mesmo(a, b) ==
    LET p == chavesPar(a, b) IN p[1] # <<>> /\ p[1] = p[2]

\* A mutant: a missing digit at the place of the first difference only.
distanciaMesmoLen(a, b) ==
    \/ a = b
    \/ /\ Len(a) = Len(b)
       /\ \E i \in DOMAIN a : a = [b EXCEPT ![i] = a[i]]

\* Edit distance of at most one, from the first difference on.
distanciaAteUm(a, b) ==
    LET la == Len(a)
        lb == Len(b)
        Common == {n \in 0..la : n <= lb /\ \A k \in 1..n : a[k] = b[k]}
        i == (CHOOSE n \in Common : \A m \in Common : m <= n) + 1
    IN  \/ a = b
        \/ la = lb /\ From(a, i + 1) = From(b, i + 1)
        \/ la = lb + 1 /\ From(a, i + 1) = From(b, i)
        \/ lb = la + 1 /\ From(a, i) = From(b, i + 1)

Parecido(a, b) ==
    LET p == chavesPar(a, b)
    IN  p[1] # <<>> /\ p[2] # <<>> /\ distanciaAteUm(p[1], p[2])
=============================================================================
