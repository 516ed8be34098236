---------------------------- MODULE MCStockEntry ----------------------------
EXTENDS StockEntry, TLC

-----------------------------------------------------------------------------
(* Certificates. *)

\* The holder's CNPJ 11.222.333/0001-81, another that is right, one that is not,
\* and one of the alphanumeric series.
Holder == <<1, 1, 2, 2, 2, 3, 3, 3, 0, 0, 0, 1, 8, 1>>
Other  == <<0, 7, 5, 2, 6, 5, 5, 7, 0, 0, 0, 1, 0, 0>>
Wrong  == <<1, 1, 2, 2, 2, 3, 3, 3, 0, 0, 0, 1, 8, 2>>
Zeros  == [i \in 1..14 |-> 0]
Alfa   == <<1, 2, 17, 18, 19, 3, 4, 5, 0, 1, 20, 21, 3, 5>>
Masked == <<1, 1, -2, 2, 2, 2, -2, 3, 3, 3, -1, 0, 0, 0, 1, -3, 8, 1>>
Razao  == <<17>>

PJ == "2.16.76.1.3.3"
PF == "2.16.76.1.3.4"

Nome(oid, valor) == [le |-> TRUE, other |-> TRUE, oid |-> oid, valor |-> valor]
DNS == [Nome("dns", <<>>) EXCEPT !.other = FALSE]
Garbled == [Nome(PJ, <<>>) EXCEPT !.le = FALSE]
SAN(nomes) == [san |-> TRUE, nomes |-> nomes]

Cert(cn, extensoes) ==
    [cn |-> cn, extensoes |-> extensoes, titular |-> Holder, vence |-> 2]

PlainCert == Cert(<<Razao, Holder>>, <<>>)

Certs ==
    {Cert(cn, ext) :
        cn \in {<<Razao>>, <<Razao, Masked>>, <<Holder, Razao>>, <<Razao, Wrong>>,
                <<Razao, Zeros>>, <<Razao, Holder \o <<2>>>>},
        ext \in {<<>>, <<SAN(<<Nome(PF, Other), Nome(PJ, Masked)>>)>>,
                 <<SAN(<<DNS, Nome(PJ, Wrong), Nome(PJ, Holder)>>)>>,
                 <<SAN(<<Garbled, Nome(PJ, Holder)>>), SAN(<<Nome(PJ, Holder)>>)>>,
                 <<SAN(<<Nome(PF, Other)>>)>>,
                 <<[SAN(<<Nome(PJ, Other)>>) EXCEPT !.san = FALSE]>>}}
    \cup {[Cert(<<Razao, Alfa>>, <<SAN(<<Nome(PJ, Alfa)>>)>>)
             EXCEPT !.titular = Alfa]}

-----------------------------------------------------------------------------
(* Files. *)

Leaf(cls, tag, c) == Packet(cls, FALSE, tag, FALSE, 2, Whole(c), <<>>)
Node(cls, tag, indef, porte, filhos) ==
    Packet(cls, TRUE, tag, indef, porte, <<>>, filhos)
Seq_(indef, porte, filhos) == Node("univ", "seq", indef, porte, filhos)
Oid == Leaf("univ", "outra", Opaco("oid", "nada"))

Chunk(c, partes) == Packet("univ", FALSE, "octet", FALSE, 2, partes, <<>>)
Chunks(forma, c) ==
    IF forma = "um" THEN <<Chunk(c, Whole(c))>>
    ELSE <<Chunk(c, <<Piece(c, 1)>>), Chunk(c, <<Piece(c, 2)>>)>>
InForm(cls, tag, forma, c) ==
    IF forma = "inteiro" THEN Leaf(cls, tag, c)
    ELSE Node(cls, tag, FALSE, 2, Chunks(forma, c))

\* The encrypted contents, with definite and indefinite lengths.
Safe(dentro, sal, cifra) ==
    LET alg == Seq_(FALSE, 1, <<Oid, Leaf("univ", "octet", Opaco("sal", sal))>>)
        porte == IF dentro \in {"pequeno", "pequenos"} THEN 1 ELSE 3
        enc == Seq_(dentro \in {"grande", "pequenos", "fundo"}, porte,
                    <<Oid, alg, InForm("ctx", "cifrado", cifra, Opaco("cifra", "nada"))>>)
    IN  Seq_(dentro \in {"grande", "pequeno", "pequenos"}, porte, <<enc>>)

Root(fora, octeto, safe) ==
    LET conteudo == Seq_(fora, 3,
                     <<Oid, Node("ctx", "explicito", fora, 3,
                                 <<InForm("univ", "octet", octeto, Asn1(safe))>>)>>)
    IN  Seq_(fora, 3, <<Leaf("univ", "outra", Opaco("v3", "nada")), conteudo>>)

File(raiz, safe, cert) ==
    [asn1 |-> TRUE, raiz |-> raiz, mac |-> novoMacData(Whole(Asn1(safe)), "certa"),
     senha |-> "certa", cert |-> cert]

Encoded(fora, octeto, safe) == File(Root(fora, octeto, safe), safe, PlainCert)

Encodings ==
    {Encoded(fora, octeto, Safe(dentro, sal, cifra)) :
        fora \in BOOLEAN, octeto \in {"inteiro", "um", "dois"},
        dentro \in {"der", "grande", "pequeno", "pequenos", "fundo"},
        sal \in {"nada", "der", "ber"}, cifra \in {"inteiro", "um", "dois"}}

\* Contents of indefinite length that are not encrypted, with a bit string in as
\* many chunks, or whole.  Each chunk begins with its count of unused bits.
BitChunk(partes) ==
    Packet("univ", FALSE, "bit", FALSE, 2, <<Piece(Opaco("bits0", "nada"), 1)>> \o partes, <<>>)
BitString(forma, c) ==
    CASE forma = "inteiro" -> Leaf("univ", "bit", c)
      [] forma = "um"      -> Node("univ", "bit", FALSE, 2, <<BitChunk(Whole(c))>>)
      [] forma = "dois"    -> Node("univ", "bit", FALSE, 2,
                                   <<BitChunk(<<Piece(c, 1)>>), BitChunk(<<Piece(c, 2)>>)>>)
SafeAberto(forma) ==
    Seq_(TRUE, 3, <<Oid, BitString(forma, Opaco("assinatura", "nada"))>>)

WithBits == {Encoded(TRUE, "inteiro", SafeAberto(forma)) : forma \in {"inteiro", "um", "dois"}}

DerSafe == Safe("der", "nada", "inteiro")
PlainFile == Encoded(FALSE, "inteiro", DerSafe)

AllFiles ==
    Encodings
    \cup WithBits
    \cup {[PlainFile EXCEPT !.cert = c] : c \in Certs}
    \cup {[Encoded(TRUE, "dois", DerSafe) EXCEPT !.cert = c] : c \in Certs}
    \cup {Vazio, [PlainFile EXCEPT !.cert = Nada], [PlainFile EXCEPT !.asn1 = FALSE],
          [PlainFile EXCEPT !.raiz.filhos = <<Head(@)>>],
          [PlainFile EXCEPT !.raiz.filhos[2].filhos = <<Oid>>]}

-----------------------------------------------------------------------------
(* Documents.  The second RENAVAM has the check digit 0 and the third is
   still one when its last digit is lost; two CPFs and a CNPJ have check
   digits 0. *)

Papers ==
    [c \in Campos |->
       CASE c = "chassi"    -> {<<9, 18, 39, 42, 42, 42, 3, 7, 7, 38, 36, 0, 0, 4, 2, 5, 1>>}
         [] c = "placa"     -> {<<17, 20, 31, 1, 20, 2, 0>>, <<18, 25, 17, 0, 8, 7, 4>>}
         [] c = "renavam"   -> {<<0, 7, 6, 5, 4, 9, 7, 2, 3, 5, 1>>,
                                <<1, 2, 3, 4, 5, 6, 7, 8, 9, 0, 0>>,
                                <<0, 1, 7, 2, 3, 2, 3, 0, 9, 6, 8>>}
         [] c = "numeroCRV" -> {<<1, 2, 3, 4, 5, 6, 7, 8, 9, 0, 1, 2>>}
         [] c = "codigoCRV" -> {<<1, 2, 3, 4, 5, 6, 7, 8, 9, 0, 1>>}
         [] c = "cpf"       -> {<<5, 2, 9, 9, 8, 2, 2, 4, 7, 2, 5>>,
                                <<4, 1, 5, 4, 9, 9, 0, 9, 5, 0, 9>>,
                                <<6, 5, 6, 9, 0, 7, 0, 2, 9, 0, 0>>}
         [] c = "cnpj"      -> {Holder, Other, Alfa}]

\* The digits, and the letters they are taken for, in both cases; a blank.
Swaps == Digits \cup {LO, LD, LQ, LI, LL, LZ, LA, LS, LG, LT, LB, LQ + 32, -16}

-----------------------------------------------------------------------------
(* Photos and prices. *)

Sizes == {<<0, 100>>, <<200, 200>>, <<1092, 1092>>, <<1568, 1568>>, <<1569, 56>>,
          <<1920, 1080>>, <<2000, 1500>>, <<2576, 4963>>, <<3360, 4833>>,
          <<3840, 2160>>, <<4000, 3000>>, <<5153, 2577>>, <<1, 9000>>}
LadoDe == [alta |-> 2576, padrao |-> 1568]
TetoDe == [alta |-> 4784, padrao |-> 1568]
Prices ==
    [m \in {"claude-opus-5", "claude-sonnet-5", "claude-haiku-4-5"} |->
       CASE m = "claude-opus-5"    -> [entrada |-> 5, saida |-> 25, tier |-> "alta"]
         [] m = "claude-sonnet-5"  -> [entrada |-> 2, saida |-> 10, tier |-> "alta"]
         [] m = "claude-haiku-4-5" -> [entrada |-> 1, saida |-> 5, tier |-> "padrao"]]
Models == DOMAIN Prices \cup {"claude-inexistente"}
=============================================================================
