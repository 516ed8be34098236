------------------------------- MODULE Certa1 -------------------------------
(***************************************************************************)
(* Package certa1: an A1 certificate opened with its password, the holder  *)
(* it names, and the tls.Config made of it.  A file is                     *)
(*   asn1   whether it reads as ASN.1 at all                               *)
(*   raiz   its tree, version and authSafe                                 *)
(*   mac    what its MAC is over, and under which password                 *)
(*   senha  the password its contents are encrypted under                  *)
(*   cert   the certificate in it, Nada for none                           *)
(* go-pkcs12 is outside the package and modelled as certa1 uses it: it     *)
(* checks the outer structure, then the MAC, then what is inside, and only *)
(* a wrong MAC is ErrIncorrectPassword.  Characters are those of           *)
(* CheckDigits.                                                            *)
(***************************************************************************)
EXTENDS PfxBer, CheckDigits, Texts

CONSTANT Vazio   \* a file of no bytes

-----------------------------------------------------------------------------
\* Strict DER as far as a header shows it: definite lengths, strings whole, and
\* of the context tags only the explicit wrapper constructed.
Estrito[p \in Pacotes] ==
    /\ ~p.indef
    /\ ~(p.cons /\ p.cls = "univ" /\ p.tag \in {"octet", "bit"})
    /\ p.cls = "ctx" => (p.cons <=> p.tag = "explicito")
    /\ \A i \in DOMAIN p.filhos : Estrito[p.filhos[i]]

\* Strict also in the contents that are packets, with the opaque ones uncut.
EstritoDentro[p \in Pacotes] ==
    /\ Estrito[p]
    /\ p.data # <<>> => /\ IsWhole(p.data)
                        /\ LET c == p.data[1].de
                           IN  IF c.tipo = "asn1" THEN EstritoDentro[c.no]
                               ELSE c.acaso # "cortado"
    /\ \A i \in DOMAIN p.filhos : EstritoDentro[p.filhos[i]]

\* pkcs12.DecodeChain.
DecodeChain(pfx, senha) ==
    IF ~pfx.asn1 \/ ~Estrito[pfx.raiz] \/ Len(pfx.raiz.filhos) < 2 THEN "outro"
    ELSE IF authSafeConteudo(pfx.raiz.filhos[2]) = Nada THEN "outro"
    ELSE IF pfx.mac # novoMacData(authSafeConteudo(pfx.raiz.filhos[2]), senha)
    THEN "ErrIncorrectPassword"
    ELSE IF pfx.cert = Nada \/ senha # pfx.senha \/ ~EstritoDentro[pfx.raiz]
    THEN "outro"
    ELSE "none"

\* A mutant: a file that normalises and does not open keeps its own error.
verdictAsItComes(err) == IF err = "none" THEN "none" ELSE "ErrArquivoInvalido"

\* Once normalised, whatever fails is put down to the password.
verdictNormalised(err) == IF err = "none" THEN "none" ELSE "ErrSenhaIncorreta"

Fallback(norm, senha) ==
    IF norm = Nada THEN "ErrArquivoInvalido"
    ELSE verdictNormalised(DecodeChain(norm, senha))

\* The error of opening a file, "none" when it opens.
decodificar(pfx, senha) ==
    IF pfx = Vazio THEN "ErrArquivoInvalido"
    ELSE CASE DecodeChain(pfx, senha) = "none" -> "none"
           [] DecodeChain(pfx, senha) = "ErrIncorrectPassword" -> "ErrSenhaIncorreta"
           [] OTHER -> Fallback(normalizarPFXBER(pfx, senha), senha)

-----------------------------------------------------------------------------
somenteDigitosCN(s) == Keep(s, Digits)

cnpjPlausivel(c) == Len(c) = 14 /\ ~todosIguais(c) /\ dvCNPJ(c)

\* A mutant: any otherName will do.
cnpjDeQualquerNome(nome) ==
    LET c == somenteDigitosCN(nome.valor)
    IN  IF cnpjPlausivel(c) THEN c ELSE <<>>

\* A name of the SAN: whether it reads, whether it is an otherName, its OID and
\* what it holds.  <<>> is "no CNPJ".
cnpjDoOtherName(nome) ==
    LET c == somenteDigitosCN(nome.valor)
    IN  IF nome.oid = "2.16.76.1.3.3" /\ cnpjPlausivel(c) THEN c ELSE <<>>

\* The names of an extension up to the first that does not read.
NomesLidos(ext) ==
    LET maus == {i \in DOMAIN ext.nomes : ~ext.nomes[i].le}
    IN  IF ~ext.san THEN <<>>
        ELSE IF maus = {} THEN ext.nomes
        ELSE SubSeq(ext.nomes, 1, (CHOOSE i \in maus : \A j \in maus : i <= j) - 1)

\* The first CNPJ among the otherNames of every SAN extension, in order.
extrairCNPJDoSAN(cert) ==
    LET nomes == FlattenSeq([i \in DOMAIN cert.extensoes |->
                               NomesLidos(cert.extensoes[i])])
        achados == {i \in DOMAIN nomes :
                      nomes[i].other /\ cnpjDoOtherName(nomes[i]) # <<>>}
    IN  IF achados = {} THEN <<>>
        ELSE cnpjDoOtherName(nomes[CHOOSE i \in achados : \A j \in achados : i <= j])

\* What follows the last ':' of the CN, else the SAN.  A CN is the sequence of
\* its parts.
identidade(cert) ==
    LET c == somenteDigitosCN(cert.cn[Len(cert.cn)])
    IN  IF Len(cert.cn) > 1 /\ cnpjPlausivel(c) THEN c ELSE extrairCNPJDoSAN(cert)

-----------------------------------------------------------------------------
\* type Info; err is what Abrir returns with it.
Info(err, cnpj, validade) == [err |-> err, cnpj |-> cnpj, validade |-> validade]
Recusa(err) == Info(err, <<>>, 0)

\* A mutant: a day of grace.
VencidoTarde(i, agora) == agora > i.validade + 1

Vencido(i, agora) == agora > i.validade

\* The metadata of a certificate, expired or not.
Abrir(pfx, senha) ==
    IF decodificar(pfx, senha) # "none" THEN Recusa(decodificar(pfx, senha))
    ELSE IF identidade(pfx.cert) = <<>> THEN Recusa("ErrArquivoInvalido")
    ELSE Info("none", identidade(pfx.cert), pfx.cert.vence)

\* The error of making a tls.Config: it asks for no CNPJ, and for the validity.
MontarTLS(pfx, senha, agora) ==
    IF decodificar(pfx, senha) # "none" THEN decodificar(pfx, senha)
    ELSE IF agora > pfx.cert.vence THEN "ErrVencido" ELSE "none"
=============================================================================
