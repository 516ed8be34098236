------------------------------ MODULE Claudeia ------------------------------
(***************************************************************************)
(* Package claudeia: how many tokens a photo costs and what is charged for *)
(* a call.  Money is in whole micro-dollars and cents.  The code scales a  *)
(* photo with float64 factors, so that a product that is a whole number    *)
(* may come out just under it: a size is one of a set.                     *)
(***************************************************************************)
EXTENDS Integers

CONSTANTS
    Bloco,       \* pixels of the side of a token's block: 28
    LadoMaior,   \* tier -> the longest side, in pixels
    TetoTokens,  \* tier -> the most tokens of a photo
    Tabela,      \* model -> its prices and its tier
    Micro        \* micro-dollars of a dollar

Tiers == {"alta", "padrao"}
MicroDolar == Int
Preco == [entrada : Nat, saida : Nat, tier : Tiers]

ASSUME PricesAssumption ==
    /\ Bloco \in Nat \ {0}
    /\ LadoMaior \in [Tiers -> Nat \ {0}]
    /\ TetoTokens \in [Tiers -> Nat \ {0}]
    /\ \A m \in DOMAIN Tabela : Tabela[m] \in Preco
    /\ Micro \in Nat \ {0}

-----------------------------------------------------------------------------
teto(v) == (v + Bloco - 1) \div Bloco
maxInt(a, b) == IF a > b THEN a ELSE b
blocos(d) == teto(d[1]) * teto(d[2])

\* The two values of int(float64(v) * f) for f = p/q, and for the largest float
\* under it: the floor, or one less where the product is a whole number.
escalado(v, p, q) ==
    {maxInt(1, (v * p) \div q)} \cup
    (IF (v * p) % q = 0 THEN {maxInt(1, (v * p) \div q - 1)} ELSE {})

Escalados(d, p, q) == escalado(d[1], p, q) \X escalado(d[2], p, q)

\* What both dimensions are, exactly, at scale p/q.
EmEscala(d, p, q) ==
    <<maxInt(1, (d[1] * p) \div q), maxInt(1, (d[2] * p) \div q)>>

\* The scales <<p, q>> at which a side enters one more block, and those of them
\* that do not fit: the bisection stops just under the first.
Entradas(d) == {s \in (1..maxInt(d[1], d[2])) \X {d[1], d[2]} :
                  s[1] <= s[2] /\ (s[1] - 1) % Bloco = 0}
Estouros(d, t) ==
    {s \in Entradas(d) : blocos(EmEscala(d, s[1], s[2])) > TetoTokens[t]}
Primeiros(S) == {s \in S : \A r \in S : s[1] * r[2] <= r[1] * s[2]}

Abaixo(d, t, s) ==
    {e \in Escalados(d, s[1], s[2]) : blocos(e) <= TetoTokens[t]}
Bisseccao(d, t) == UNION {Abaixo(d, t, s) : s \in Primeiros(Estouros(d, t))}

PeloLado(d, t) ==
    IF maxInt(d[1], d[2]) > LadoMaior[t]
    THEN Escalados(d, LadoMaior[t], maxInt(d[1], d[2]))
    ELSE {d}

\* A mutant: the photo is shrunk by its longest side alone.
reduzirPeloLado(d, t) == PeloLado(d, t)

reduzirParaOTier(d, t) ==
    UNION {IF blocos(e) <= TetoTokens[t] THEN {e}
           ELSE Bisseccao(e, t) :
             e \in PeloLado(d, t)}

\* A photo without a side costs nothing.
TokensDeImagem(d, t) ==
    IF d[1] <= 0 \/ d[2] <= 0 THEN {0}
    ELSE {blocos(e) : e \in reduzirParaOTier(d, t)}

-----------------------------------------------------------------------------
\* type Uso: what the API says that a call used.
Uso(entrada, saida, escrita, leitura) ==
    [entrada |-> entrada, saida |-> saida, escrita |-> escrita, leitura |-> leitura]

\* The two kinds of cached tokens are charged as any other.
Custo(p, u) == (u.entrada + u.escrita + u.leitura) * p.entrada + u.saida * p.saida

\* Before the call, from the tokens of the photo.
CustoEstimado(p, k, texto, saida) == Custo(p, Uso(k + texto, saida, 0, 0))

\* Go divides towards zero.
quociente(num) == IF num < 0 THEN -((-num) \div Micro) ELSE num \div Micro

\* A mutant: the fraction of a cent is dropped.
EmCentavosTruncado(m, taxa) == IF taxa <= 0 THEN 0 ELSE quociente(m * taxa)

\* A fraction of a cent is one more cent.
EmCentavosBRL(m, taxa) ==
    IF taxa <= 0 THEN 0
    ELSE quociente(m * taxa)
         + (IF m * taxa # quociente(m * taxa) * Micro THEN 1 ELSE 0)
=============================================================================
