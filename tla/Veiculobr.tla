----------------------------- MODULE Veiculobr -----------------------------
(***************************************************************************)
(* Package veiculobr: the fields of a vehicle document as an extractor     *)
(* reads them, cleaned, corrected and checked.  A text is a sequence of    *)
(* characters coded as in CheckDigits; a code that is neither a digit nor  *)
(* a letter of either case is a blank or punctuation.                      *)
(***************************************************************************)
EXTENDS CheckDigits, Texts

\* The letters the tables name, and the ends of the two alphabets.
LA == 17
LB == 18
LD == 20
LG == 23
LI == 25
LL == 28
LO == 31
LQ == 33
LS == 35
LT == 36
LZ == 42
Upper == LA..LZ
Lower == (LA + 32)..(LZ + 32)

digito(r) == r \in Digits
letra(r) == r \in Upper

\* type Resultado: Valor, Status and Correcoes, which are in the order of their
\* positions and so a set.
Resultado(valor, status, correcoes) ==
    [valor |-> valor, status |-> status, correcoes |-> correcoes]
Valido(r) == r.status \in {"valido", "corrigido"}

montar(valor, corr) ==
    Resultado(valor, IF corr = {} THEN "valido" ELSE "corrigido", corr)
falha(status) == Resultado(<<>>, status, {})

\* A mutant: nothing is asked.
PrecisaConferenciaNunca(r) == FALSE

PrecisaConferencia(r) == r.status = "corrigido"

-----------------------------------------------------------------------------
\* The tables of what an extractor confuses.
paraDigito == [r \in {LO, LD, LQ, LI, LL, LZ, LA, LS, LG, LT, LB} |->
                 CASE r \in {LO, LD, LQ} -> 0
                   [] r \in {LI, LL} -> 1
                   [] r = LZ -> 2
                   [] r = LA -> 4
                   [] r = LS -> 5
                   [] r = LG -> 6
                   [] r = LT -> 7
                   [] r = LB -> 8]

paraLetra == [r \in {0, 1, 2, 4, 5, 6, 7, 8} |->
                CASE r = 0 -> LO
                  [] r = 1 -> LI
                  [] r = 2 -> LZ
                  [] r = 4 -> LA
                  [] r = 5 -> LS
                  [] r = 6 -> LG
                  [] r = 7 -> LT
                  [] r = 8 -> LB]

\* What only a chassis has: letters that ISO 3779 does not admit.
paraVIN == [r \in {LI, LO, LQ} |-> IF r = LI THEN 1 ELSE 0]

ToUpper(r) == IF r \in Lower THEN r - 32 ELSE r

limpar(s) == Keep([i \in DOMAIN s |-> ToUpper(s[i])], Digits \cup Upper)

somenteDigitos(s) == Keep(s, Digits)

\* Every character outside `certos` replaced by the table; the corrections are
\* numbered from `deslocamento`, and ok says that the table had them all.
Trocados(s, certos) == {i \in DOMAIN s : s[i] \notin certos}

Aplicar(s, tabela, T, deslocamento) ==
    [ok    |-> \A i \in T : s[i] \in DOMAIN tabela,
     texto |-> [i \in DOMAIN s |->
                  IF i \in T /\ s[i] \in DOMAIN tabela THEN tabela[s[i]]
                  ELSE s[i]],
     corr  |-> {[posicao |-> deslocamento + i, de |-> s[i], para |-> tabela[s[i]]] :
                  i \in {j \in T : s[j] \in DOMAIN tabela}}]

exigirDigitos(s, deslocamento) ==
    Aplicar(s, paraDigito, Trocados(s, Digits), deslocamento)
exigirLetras(s, deslocamento) ==
    Aplicar(s, paraLetra, Trocados(s, Upper), deslocamento)

-----------------------------------------------------------------------------
Chassi(s) ==
    LET v == limpar(s)
        c == Aplicar(v, paraVIN, {i \in DOMAIN v : v[i] \in DOMAIN paraVIN}, 0)
    IN  IF v = <<>> THEN falha("vazio")
        ELSE IF Len(v) < 17 \/ Len(v) > 21 THEN falha("tamanho_invalido")
        ELSE montar(c.texto, c.corr)

\* A mutant: the last two positions are counted from the fourth.
PlacaDeslocada(s) ==
    LET v == limpar(s)
        pref == exigirLetras(SubSeq(v, 1, 3), 0)
        p4 == exigirDigitos(SubSeq(v, 4, 4), 3)
        fim == exigirDigitos(SubSeq(v, 6, 7), 3)
    IN  IF v = <<>> THEN falha("vazio")
        ELSE IF Len(v) # 7 THEN falha("tamanho_invalido")
        ELSE IF ~pref.ok \/ ~p4.ok \/ ~fim.ok THEN falha("caractere_invalido")
        ELSE montar(pref.texto \o p4.texto \o <<v[5]>> \o fim.texto,
                    pref.corr \cup p4.corr \cup fim.corr)

\* Positions 1-3 are letters, 4 and 6-7 digits; the fifth is left alone.
Placa(s) ==
    LET v == limpar(s)
        pref == exigirLetras(SubSeq(v, 1, 3), 0)
        p4 == exigirDigitos(SubSeq(v, 4, 4), 3)
        fim == exigirDigitos(SubSeq(v, 6, 7), 5)
    IN  IF v = <<>> THEN falha("vazio")
        ELSE IF Len(v) # 7 THEN falha("tamanho_invalido")
        ELSE IF ~pref.ok \/ ~p4.ok \/ ~fim.ok THEN falha("caractere_invalido")
        ELSE montar(pref.texto \o p4.texto \o <<v[5]>> \o fim.texto,
                    pref.corr \cup p4.corr \cup fim.corr)

FormatoDaPlaca(p) ==
    IF Len(p) = 7 /\ letra(p[5]) THEN "mercosul" ELSE "antigo"

\* A mutant: the check digit is that of the completed number, which is not what
\* is returned.
RenavamSemZeros(s) ==
    LET v == limpar(s)
        c == exigirDigitos(v, 0)
        cheio == [i \in 1..(11 - Len(v)) |-> 0] \o c.texto
    IN  IF v = <<>> THEN falha("vazio")
        ELSE IF Len(v) > 11 THEN falha("tamanho_invalido")
        ELSE IF ~c.ok THEN falha("caractere_invalido")
        ELSE IF cheio[11] # dvRenavam(cheio) THEN falha("dv_invalido")
        ELSE montar(c.texto, c.corr)

\* Up to eleven digits, completed with zeros on the left.
Renavam(s) ==
    LET v == limpar(s)
        c == exigirDigitos(v, 0)
        cheio == [i \in 1..(11 - Len(v)) |-> 0] \o c.texto
    IN  IF v = <<>> THEN falha("vazio")
        ELSE IF Len(v) > 11 THEN falha("tamanho_invalido")
        ELSE IF ~c.ok THEN falha("caractere_invalido")
        ELSE IF cheio[11] # dvRenavam(cheio) THEN falha("dv_invalido")
        ELSE montar(cheio, c.corr)

\* n digits without a check digit.
digitosFixos(s, n) ==
    LET v == limpar(s)
        c == exigirDigitos(v, 0)
    IN  IF v = <<>> THEN falha("vazio")
        ELSE IF Len(v) # n THEN falha("tamanho_invalido")
        ELSE IF ~c.ok THEN falha("caractere_invalido")
        ELSE montar(c.texto, c.corr)

NumeroCRV(s) == digitosFixos(s, 12)
CodigoSegurancaCRV(s) == digitosFixos(s, 11)

CPF(s) ==
    LET v == somenteDigitos(s)
    IN  IF v = <<>> THEN falha("vazio")
        ELSE IF Len(v) # 11 THEN falha("tamanho_invalido")
        ELSE IF todosIguais(v) \/ ~dvCPF(v) THEN falha("dv_invalido")
        ELSE montar(v, {})

\* Letters are admitted but in the two check digits.
CNPJ(s) ==
    LET v == limpar(s)
    IN  IF v = <<>> THEN falha("vazio")
        ELSE IF Len(v) # 14 THEN falha("tamanho_invalido")
        ELSE IF ~digito(v[13]) \/ ~digito(v[14]) THEN falha("caractere_invalido")
        ELSE IF todosIguais(v) \/ ~dvCNPJ(v) THEN falha("dv_invalido")
        ELSE montar(v, {})

-----------------------------------------------------------------------------
Campos == {"chassi", "placa", "renavam", "numeroCRV", "codigoCRV", "cpf", "cnpj"}

\* The function of the package for each field.
Conferir(campo, s) ==
    CASE campo = "chassi"    -> Chassi(s)
      [] campo = "placa"     -> Placa(s)
      [] campo = "renavam"   -> Renavam(s)
      [] campo = "numeroCRV" -> NumeroCRV(s)
      [] campo = "codigoCRV" -> CodigoSegurancaCRV(s)
      [] campo = "cpf"       -> CPF(s)
      [] campo = "cnpj"      -> CNPJ(s)
=============================================================================
