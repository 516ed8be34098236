------------------------------- MODULE PfxBer -------------------------------
(***************************************************************************)
(* pfxber.go of package certa1: a PKCS#12 file in BER rewritten in DER.    *)
(* A packet is a node of the ASN.1 tree.  What a primitive packet holds is *)
(* a sequence of pieces, so that a string sent in chunks is put together   *)
(* again by concatenation; the pieces come from a content that is opaque   *)
(* (a salt, a ciphertext, a text) or is itself the encoding of a packet.   *)
(* The library asn1-ber is modelled as this file uses it.                  *)
(***************************************************************************)
EXTENDS Integers, Sequences, SequencesExt

CONSTANTS
    Nada,    \* the nil of authSafeConteudo and a file without a certificate
    Altura   \* a bound: the height of a tree, with the trees in its contents


\* type ber.Packet.  indef says that its length was indefinite, porte how many
\* bytes a definite length takes.
Packet(cls, cons, tag, indef, porte, data, filhos) ==
    [cls |-> cls, cons |-> cons, tag |-> tag, indef |-> indef, porte |-> porte,
     data |-> data, filhos |-> filhos]

\* A packet as Encode and AppendChild write it: of definite length.
Encode(p, cons, data, filhos) ==
    Packet(p.cls, cons, p.tag, FALSE, p.porte, data, filhos)

\* Opaque bytes; acaso says how they happen to read as ASN.1: not at all, as
\* DER, or only as BER but for at most two bytes.
Opaco(id, acaso) == [tipo |-> "opaco", id |-> id, acaso |-> acaso]
Asn1(p) == [tipo |-> "asn1", no |-> p]

\* A content whole, and in its two pieces.
Piece(c, i) == [de |-> c, parte |-> i]
Whole(c) == <<Piece(c, 1), Piece(c, 2)>>

IsWhole(bytes) == Len(bytes) = 2 /\ bytes = Whole(bytes[1].de)

\* What the code and the properties tell apart.
Classes == {"univ", "ctx", "outra"}
Etiquetas == {"octet", "bit", "seq", "explicito", "cifrado", "outra"}
Acasos == {"nada", "der", "ber", "cortado"}

\* What packets of a set N can be held in, and be the children of.
Conteudos(N) ==
    [tipo : {"opaco"}, id : STRING, acaso : Acasos] \cup [tipo : {"asn1"}, no : N]
Bytes(N) == Seq([de : Conteudos(N), parte : {1, 2}])
Nos(N) ==
    [cls : Classes, cons : BOOLEAN, tag : Etiquetas, indef : BOOLEAN, porte : Nat,
     data : Bytes(N), filhos : Seq(N)]

\* The packets that are at most n high: what is rewritten and read is a function
\* of them.
Nivel[n \in 0..Altura] == IF n = 0 THEN {} ELSE Nos(Nivel[n - 1])
Pacotes == Nivel[Altura]

ASSUME TreesAssumption == Altura \in Nat /\ Nada \notin Bytes(Pacotes)

\* What rewriting leaves of an opaque content: it is cut short.
Corrompido(c) == [c EXCEPT !.acaso = "cortado"]

-----------------------------------------------------------------------------
coletarConteudo[p \in Pacotes] ==
    IF p.filhos = <<>> THEN p.data
    ELSE FlattenSeq([i \in DOMAIN p.filhos |-> coletarConteudo[p.filhos[i]]])

\* A mutant: one octet string is taken for a chunk.
soChunksUm(p) ==
    /\ Len(p.filhos) >= 1
    /\ \A i \in DOMAIN p.filhos :
          p.filhos[i].cls = "univ" /\ ~p.filhos[i].cons /\ p.filhos[i].tag = "octet"

\* One octet string under [0] is the explicit wrapper, two or more are chunks.
soChunksDeOctet(p) ==
    /\ Len(p.filhos) >= 2
    /\ \A i \in DOMAIN p.filhos :
          p.filhos[i].cls = "univ" /\ ~p.filhos[i].cons /\ p.filhos[i].tag = "octet"

\* asn1.Unmarshal into a RawValue reads the outermost header alone.
derEstritoValido(bytes) ==
    /\ IsWhole(bytes)
    /\ LET c == bytes[1].de
       IN  IF c.tipo = "asn1" THEN ~c.no.indef ELSE c.acaso = "der"

\* By how many bytes definite lengths shorten an encoding: the octet 80 and the
\* two of the end mark against the definite length.
Economia[p \in Pacotes] ==
    (IF p.indef THEN 3 - p.porte ELSE 0)
    + FoldSeq(LAMBDA f, n : Economia[f] + n, 0, p.filhos)

\* DecodePacketErr takes the bytes, and reading them back gives as many but two.
ParseiaInteiro(bytes) ==
    /\ IsWhole(bytes)
    /\ LET c == bytes[1].de
       IN  IF c.tipo = "asn1" THEN Economia[c.no] <= 2 ELSE c.acaso = "ber"

\* A content rewritten, its packet by der.
Reescrito(c, der) == IF c.tipo = "asn1" THEN Asn1(der[c.no]) ELSE Corrompido(c)

\* Contents are rewritten only if they are not DER and read as BER.
octetNormalizado(p, bytes, der) ==
    Packet(p.cls, FALSE, "octet", FALSE, p.porte,
           IF derEstritoValido(bytes) \/ ~ParseiaInteiro(bytes) THEN bytes
           ELSE Whole(Reescrito(bytes[1].de, der)),
           <<>>)

berParaDER[p \in Pacotes] ==
    IF p.cons /\ p.cls = "univ" /\ p.tag \in {"octet", "bit"}
    THEN octetNormalizado(p, coletarConteudo[p], berParaDER)
    ELSE IF p.cons /\ p.cls = "ctx" /\ soChunksDeOctet(p)
    THEN Encode(p, FALSE, coletarConteudo[p], <<>>)
    ELSE IF p.filhos = <<>> /\ p.cls = "univ" /\ ~p.cons /\ p.tag = "octet"
    THEN octetNormalizado(p, p.data, berParaDER)
    ELSE Encode(p, p.cons, p.data,
                [i \in DOMAIN p.filhos |-> berParaDER[p.filhos[i]]])

-----------------------------------------------------------------------------
\* The first child with a context tag: what its only child holds, or itself.
authSafeConteudo(contentInfo) ==
    LET f == contentInfo.filhos
        K == {i \in DOMAIN f : f[i].cls = "ctx"}
        c == f[CHOOSE i \in K : \A j \in K : i <= j]
    IN  IF K = {} THEN Nada
        ELSE IF Len(c.filhos) = 1 THEN c.filhos[1].data
        ELSE c.data

\* HMAC over a content under a password.  The salt, the derivation of the key
\* and the hash are taken for one function without collisions.
novoMacData(conteudo, senha) == [conteudo |-> conteudo, senha |-> senha]

\* A file: its tree, with the version and the authSafe as first two children,
\* and its MAC.  An error is Nada.
normalizarPFXBER(pfx, senha) ==
    LET norm == berParaDER[pfx.raiz]
        conteudo == authSafeConteudo(norm.filhos[2])
    IN  IF ~pfx.asn1 \/ Len(norm.filhos) < 2 THEN Nada
        ELSE IF conteudo = Nada THEN Nada
        ELSE [pfx EXCEPT !.raiz = Packet("univ", TRUE, "seq", FALSE, norm.porte, <<>>,
                                         SubSeq(norm.filhos, 1, 2)),
                         !.mac = novoMacData(conteudo, senha)]
=============================================================================
