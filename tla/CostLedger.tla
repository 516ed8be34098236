----------------------------- MODULE CostLedger -----------------------------
(***************************************************************************)
(* What the calls that read documents cost and what is charged for them.   *)
(* A photo is priced before the call, at the size the API will give it;    *)
(* the call is charged from the usage that the API reports.  Who makes the *)
(* calls and keeps the account is outside package claudeia.                *)
(***************************************************************************)
EXTENDS Claudeia

CONSTANTS
    Fotos,      \* sizes of the photos, <<width, height>>
    SemFoto,    \* no photo to be read
    Modelos,    \* ids a caller may ask for, in the table or not
    Textos,     \* tokens of a prompt
    Saidas,     \* tokens of an answer
    Taxas,      \* exchange rates, in cents of a real for a dollar
    MaxChamadas \* a bound: calls charged

ASSUME LedgerAssumption ==
    /\ Fotos \subseteq Int \X Int
    /\ SemFoto \notin Fotos
    /\ Textos \subseteq Nat /\ Saidas \subseteq Nat
    /\ Taxas \subseteq Nat \ {0}
    /\ MaxChamadas \in Nat

VARIABLES
    foto,     \* the photo about to be read
    devido,   \* their estimates, in micro-dollars times the rate of each call
    cobrado,  \* what was charged for them, in cents
    chamadas  \* how many there were

costVars == <<foto, devido, cobrado, chamadas>>

CostInit ==
    /\ foto = SemFoto
    /\ devido = 0
    /\ cobrado = 0
    /\ chamadas = 0

-----------------------------------------------------------------------------
\* A photo arrives and is priced.
Orcar(f) ==
    /\ foto = SemFoto
    /\ chamadas < MaxChamadas
    /\ foto' = f
    /\ UNCHANGED <<devido, cobrado, chamadas>>

\* The prompt goes to the API's cache, comes out of it, or neither.
Caches(texto) == {<<0, 0>>, <<texto, 0>>, <<0, texto>>}

\* The call is charged from what it used, of which cache[1] tokens were written
\* to the cache and cache[2] read from it.
Cobrar(p, k, texto, cache, saida, taxa) ==
    LET uso == Uso(k + texto - cache[1] - cache[2], saida, cache[1], cache[2])
    IN  /\ foto' = SemFoto
        /\ devido' = devido + CustoEstimado(p, k, texto, saida) * taxa
        /\ cobrado' = cobrado + EmCentavosBRL(Custo(p, uso), taxa)
        /\ chamadas' = chamadas + 1

\* PrecoDe fails: no price is made up and no call is made.
SemPreco(m) ==
    /\ foto # SemFoto
    /\ m \notin DOMAIN Tabela
    /\ foto' = SemFoto
    /\ UNCHANGED <<devido, cobrado, chamadas>>

\* PrecoDe knows the model: the call is made, with the tokens that the photo
\* comes to in the model's tier.
Chamar(m) ==
    /\ foto # SemFoto
    /\ m \in DOMAIN Tabela
    /\ \E k \in TokensDeImagem(foto, Tabela[m].tier) :
          \E texto \in Textos, saida \in Saidas, taxa \in Taxas :
             \E cache \in Caches(texto) :
                Cobrar(Tabela[m], k, texto, cache, saida, taxa)

CostNext ==
    \/ \E f \in Fotos : Orcar(f)
    \/ \E m \in Modelos : Chamar(m) \/ SemPreco(m)

CostSpec == CostInit /\ [][CostNext]_costVars

-----------------------------------------------------------------------------
CostTypeOK ==
    /\ foto \in Fotos \cup {SemFoto}
    /\ devido \in Nat
    /\ cobrado \in Nat
    /\ chamadas \in Nat

\* Over any calls, at any rates, what is charged after them covers what they
\* were estimated at before, and is over it by less than a cent for each call:
\* "errar para menos e prejuizo silencioso", and so would adding up be if each
\* call were rounded down.
NeverUndercharged ==
    /\ devido <= cobrado * Micro
    /\ cobrado * Micro <= devido + chamadas * (Micro - 1)

\* The size a photo is priced at fits the tier, in both limits at once.
PhotoFits(f, t) ==
    \A e \in reduzirParaOTier(f, t) :
        /\ maxInt(e[1], e[2]) <= LadoMaior[t]
        /\ blocos(e) <= TetoTokens[t]

\* The standard tier never takes more tokens than the high one.
StandardSaves(f) ==
    \A k \in TokensDeImagem(f, "padrao"), n \in TokensDeImagem(f, "alta") : k <= n

\* Sending half of each side costs no more but for a row of blocks, which the
\* rounding of the API's own reduction can give or take.
ShrinkingSaves(f, t) ==
    \A k \in TokensDeImagem(<<f[1] \div 2, f[2] \div 2>>, t),
       n \in TokensDeImagem(f, t) : k <= n + teto(LadoMaior[t])

\* What package claudeia says of a photo before any call is made: its price is
\* within the limits of the tier, and a smaller tier or a smaller photo saves.
PhotoPriced ==
    foto # SemFoto /\ foto[1] > 0 /\ foto[2] > 0 =>
        /\ \A t \in Tiers : PhotoFits(foto, t) /\ ShrinkingSaves(foto, t)
        /\ StandardSaves(foto)
=============================================================================
