---------------------------- MODULE FieldReading ----------------------------
(***************************************************************************)
(* A field of a vehicle document on its way from the paper to SERPRO: an   *)
(* extractor reads it, package veiculobr checks it, a person who has the   *)
(* paper confirms what the package comment says a person must see, and it  *)
(* is sent, for good.  The extractor, the person and the sending are       *)
(* outside the package.                                                    *)
(***************************************************************************)
EXTENDS Veiculobr, SequencesExt

CONSTANTS
    Papeis,    \* field -> the texts printed on documents
    Trocas,    \* characters that an extractor may read for another
    MaxFotos,  \* a bound: photos of a document
    SemCampo   \* no document at hand

\* What is printed is a whole field that needs no correction.
ASSUME ReadingAssumption ==
    /\ DOMAIN Papeis = Campos
    /\ \A c \in Campos : \A s \in Papeis[c] :
          s \in Seq(Digits \cup Upper) /\ Conferir(c, s) = Resultado(s, "valido", {})
    /\ Trocas \subseteq Int
    /\ MaxFotos \in Nat
    /\ SemCampo \notin Campos

VARIABLES
    campo,      \* the field that is read
    impresso,   \* what the paper says
    lido,       \* what the extractor read
    resultado,  \* what the package made of it
    etapa,      \* "foto", "lido", "conferencia", "pronto", "enviado"
    fotos       \* photos taken so far

readVars == <<campo, impresso, lido, resultado, etapa, fotos>>

SemResultado == falha("nenhum")

ReadInit ==
    /\ campo = SemCampo
    /\ impresso = <<>>
    /\ lido = <<>>
    /\ resultado = SemResultado
    /\ etapa = "foto"
    /\ fotos = 0

-----------------------------------------------------------------------------
\* What an extractor can make of a text: a character taken for another (two, on
\* a plate), lower case, punctuation, or a character lost at either end.
Trocar(s, i, r) == [s EXCEPT ![i] = r]
UmaTroca(s) == {Trocar(s, i, r) : i \in DOMAIN s, r \in Trocas}
Minusculas(s) == [i \in DOMAIN s |-> IF letra(s[i]) THEN s[i] + 32 ELSE s[i]]
Pontuado(s) == SubSeq(s, 1, 3) \o <<-3>> \o SubSeq(s, 4, Len(s))

Leituras(c, s) ==
    {s, Minusculas(s), Pontuado(s), Tail(s), Front(s), <<>>}
    \cup UmaTroca(s)
    \cup (IF c = "placa" THEN UNION {UmaTroca(l) : l \in UmaTroca(s)} ELSE {})

\* A document is photographed and one of its fields read.
Fotografar(c, s) ==
    /\ campo = SemCampo
    /\ fotos < MaxFotos
    /\ campo' = c
    /\ impresso' = s
    /\ \E l \in Leituras(c, s) : lido' = l
    /\ etapa' = "lido"
    /\ fotos' = fotos + 1
    /\ UNCHANGED resultado

\* The fields without a check digit are shown to a person, and the others if the
\* package asks for it.
SemDV == {"numeroCRV", "codigoCRV"}

Validar ==
    /\ etapa = "lido"
    /\ resultado' = Conferir(campo, lido)
    /\ etapa' = IF ~Valido(resultado') THEN "foto"
                ELSE IF PrecisaConferencia(resultado') \/ campo \in SemDV
                THEN "conferencia" ELSE "pronto"
    /\ lido' = IF Valido(resultado') THEN lido ELSE <<>>
    /\ UNCHANGED <<campo, impresso, fotos>>

\* The person compares with the paper, and may throw the reading away.
Confirmar ==
    /\ etapa = "conferencia"
    /\ \/ /\ resultado.valor = impresso
          /\ etapa' = "pronto"
          /\ UNCHANGED <<lido, resultado>>
       \/ /\ resultado.valor # impresso
          /\ etapa' = "foto"
          /\ lido' = <<>>
          /\ resultado' = SemResultado
    /\ UNCHANGED <<campo, impresso, fotos>>

\* Another photo, when this one was no use.
NovaFoto ==
    /\ etapa = "foto"
    /\ campo # SemCampo
    /\ fotos < MaxFotos
    /\ \E l \in Leituras(campo, impresso) : lido' = l
    /\ etapa' = "lido"
    /\ fotos' = fotos + 1
    /\ resultado' = SemResultado
    /\ UNCHANGED <<campo, impresso>>

Enviar ==
    /\ etapa = "pronto"
    /\ etapa' = "enviado"
    /\ UNCHANGED <<campo, impresso, lido, resultado, fotos>>

\* The next document; after MaxFotos useless photos the first is given up.
Proximo ==
    /\ \/ etapa = "enviado"
       \/ etapa = "foto" /\ campo # SemCampo /\ fotos = MaxFotos
    /\ campo' = SemCampo
    /\ impresso' = <<>>
    /\ lido' = <<>>
    /\ resultado' = SemResultado
    /\ etapa' = "foto"
    /\ UNCHANGED fotos

ReadNext ==
    \/ \E c \in Campos : \E s \in Papeis[c] : Fotografar(c, s)
    \/ Validar
    \/ Confirmar
    \/ NovaFoto
    \/ Enviar
    \/ Proximo

ReadSpec == ReadInit /\ [][ReadNext]_readVars

-----------------------------------------------------------------------------
ReadTypeOK ==
    /\ campo \in Campos \cup {SemCampo}
    /\ resultado.status \in {"nenhum", "valido", "corrigido", "vazio",
                             "tamanho_invalido", "caractere_invalido", "dv_invalido"}
    /\ \A i \in DOMAIN resultado.valor : resultado.valor[i] \in Digits \cup Upper
    /\ Valido(resultado) =>
          Len(resultado.valor) \in
             CASE campo = "chassi" -> 17..21
               [] campo = "placa" -> {7}
               [] campo \in {"renavam", "codigoCRV", "cpf"} -> {11}
               [] campo = "numeroCRV" -> {12}
               [] campo = "cnpj" -> {14}
    /\ etapa \in {"foto", "lido", "conferencia", "pronto", "enviado"}
    /\ fotos \in 0..MaxFotos

-----------------------------------------------------------------------------
\* Where two texts of one length differ.
Difere(s, t) == {i \in DOMAIN s : s[i] # t[i]}

\* What no rule of the package can see: a letter for a letter, or a digit for a
\* digit; the fifth position of a plate; a RENAVAM read short, or of check digit
\* 0; a CPF or a CNPJ of check digits 0, or two characters of a CNPJ that count
\* the same.
Silencioso(c, s, v) ==
    CASE c = "chassi" -> TRUE
      [] c = "placa" -> \A i \in Difere(s, v) : i = 5 \/ letra(s[i]) = letra(v[i])
      [] c = "renavam" -> s[11] = 0 \/ Len(limpar(lido)) < 11
      [] c = "cpf" -> s[10] = 0
      [] c = "cnpj" -> \/ s[13] = 0 /\ s[14] = 0
                       \/ \A i \in Difere(s, v) : (s[i] - v[i]) % 11 = 0
      [] OTHER -> FALSE

\* What is sent is what is printed, or the extractor took it for something that
\* breaks no rule: nothing the package corrected on its own is ever sent wrong,
\* nor a field without check digit.
WrongOnlyInSilence ==
    etapa = "enviado" /\ resultado.valor # impresso =>
        /\ resultado.correcoes = {}
        /\ Silencioso(campo, impresso, resultado.valor)

\* The corrections are the whole difference between what was read and what is
\* used, at the positions they name (in a RENAVAM read short, those of what was
\* read), and what they lead to needs no other.  They never choose the format of
\* a plate: that is the paper's unless its fifth character was misread.
CorrectionsHonest ==
    Valido(resultado) =>
        LET v == resultado.valor
            l == limpar(lido)
            falta == IF campo = "renavam" THEN 11 - Len(l) ELSE 0
        IN  /\ campo # "cpf" =>
                  /\ {[posicao |-> i, de |-> l[i], para |-> v[i + falta]] :
                        i \in {j \in DOMAIN l : l[j] # v[j + falta]}}
                     = resultado.correcoes
                  /\ \A i \in 1..falta : v[i] = 0
            /\ Conferir(campo, v) = Resultado(v, "valido", {})
            /\ campo = "placa" /\ FormatoDaPlaca(v) # FormatoDaPlaca(impresso)
               => l[5] # impresso[5]
=============================================================================
