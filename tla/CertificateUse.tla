--------------------------- MODULE CertificateUse ---------------------------
(***************************************************************************)
(* A shop registers its certificate and a service makes a tls.Config of    *)
(* it.  The screen that shows what Abrir says, and the service that calls  *)
(* MontarTLS on a later day, are outside package certa1.                   *)
(***************************************************************************)
EXTENDS Certa1

CONSTANTS
    Arquivos,   \* files a shop may have, Vazio among them
    Senhas,     \* passwords it may type
    MaxDia,     \* a bound: the days
    SemArquivo  \* nothing registered

-----------------------------------------------------------------------------
(* What a file is, whoever wrote it.  Files and certificates come from outside *)
(* the repository; that the package has to cope with BER and with no more is *)
(* what it says of itself. *)

Certificados ==
    [cn : Seq(Seq(Int)),
     extensoes : Seq([san : BOOLEAN,
                      nomes : Seq([le : BOOLEAN, other : BOOLEAN, oid : STRING,
                                   valor : Seq(Int)])]),
     titular : Seq(Int), vence : Int]
Ficheiros ==
    [asn1 : BOOLEAN, raiz : Pacotes, mac : [conteudo : Bytes(Pacotes), senha : STRING],
     senha : STRING, cert : Certificados \cup {Nada}]

\* A string sent in chunks, and the bytes of something that is no packet.
EmChunks(p, tag) ==
    \A i \in DOMAIN p.filhos :
        LET f == p.filhos[i]
        IN  f.cls = "univ" /\ ~f.cons /\ f.tag = tag /\ f.filhos = <<>>
Opaca(bytes) ==
    IsWhole(bytes) /\ bytes[1].de.tipo = "opaco" /\ bytes[1].de.acaso # "cortado"

\* The trees of PKCS#12, in DER or in BER: octet strings, contents under an
\* implicit tag, explicit wrappers, bit strings and what holds them.  Each chunk
\* of a bit string begins with an octet of its own, the count of unused bits.
Regular[p \in Pacotes] ==
    /\ IF p.cons THEN p.data = <<>> ELSE p.filhos = <<>>
    /\ \/ /\ p.cls = "univ" /\ p.tag = "octet" /\ EmChunks(p, "octet")
          /\ IsWhole(coletarConteudo[p])
          /\ LET c == coletarConteudo[p][1].de
             IN  IF c.tipo = "asn1" THEN Regular[c.no] ELSE c.acaso # "cortado"
       \/ /\ p.cls = "ctx" /\ p.tag = "cifrado" /\ EmChunks(p, "octet")
          /\ Opaca(coletarConteudo[p])
       \/ /\ p.cls = "ctx" /\ p.tag = "explicito" /\ p.cons /\ Len(p.filhos) = 1
          /\ p.filhos[1].cls = "univ" /\ Regular[p.filhos[1]]
       \/ /\ p.cls = "univ" /\ p.tag \notin {"octet", "cifrado", "explicito"}
          /\ IF ~p.cons THEN Opaca(p.data)
             ELSE IF p.tag = "bit" THEN EmChunks(p, "bit")
             ELSE \A i \in DOMAIN p.filhos : Regular[p.filhos[i]]

\* A PKCS#12 file with its authSafe, and its MAC when it is DER outside.
Pkcs12(f) == f # Vazio /\ f.asn1 /\ Len(f.raiz.filhos) >= 2
                       /\ authSafeConteudo(f.raiz.filhos[2]) # Nada
ComMAC(f) ==
    Pkcs12(f) /\ Estrito[f.raiz] =>
        f.mac = novoMacData(authSafeConteudo(f.raiz.filhos[2]), f.senha)

\* ICP-Brasil: where certa1 looks for the CNPJ of the holder there is no other,
\* and it has the check digits of one.
DoTitular(cert, texto) ==
    cnpjPlausivel(somenteDigitosCN(texto)) => somenteDigitosCN(texto) = cert.titular
Emitido(cert) ==
    /\ Len(cert.cn) > 1 => DoTitular(cert, cert.cn[Len(cert.cn)])
    /\ \A i \in DOMAIN cert.extensoes :
          cert.extensoes[i].san =>
              \A j \in DOMAIN cert.extensoes[i].nomes :
                  LET nome == cert.extensoes[i].nomes[j]
                  IN  nome.other /\ nome.oid = "2.16.76.1.3.3"
                      => DoTitular(cert, nome.valor)
    /\ cert.titular \in Seq(Digits) => cnpjPlausivel(cert.titular)

ASSUME CertificateAssumption ==
    /\ SemArquivo \notin Arquivos /\ Nada \notin Ficheiros
    /\ Senhas \subseteq STRING \ {"nenhuma"} /\ MaxDia \in Nat \ {0}
    /\ \A f \in Arquivos \ {Vazio} :
          /\ f \in Ficheiros
          /\ f.asn1 => Regular[f.raiz]
          /\ ComMAC(f)
          /\ f.cert # Nada => Emitido(f.cert)

-----------------------------------------------------------------------------
VARIABLES
    arquivo,  \* the file registered
    senha,    \* the password typed for it
    hoje,     \* the day
    info,     \* what Abrir said
    config    \* what MontarTLS said, "nunca" before

certVars == <<arquivo, senha, hoje, info, config>>

CertInit ==
    /\ arquivo = SemArquivo
    /\ senha = "nenhuma"
    /\ hoje = 1
    /\ info = Recusa("nunca")
    /\ config = "nunca"

-----------------------------------------------------------------------------
\* A file and a password are registered, and Abrir is shown.
Cadastrar(f, s) ==
    /\ arquivo = SemArquivo
    /\ arquivo' = f
    /\ senha' = s
    /\ info' = Abrir(f, s)
    /\ UNCHANGED <<hoje, config>>

\* Another password for the same file.
TentarSenha(s) ==
    /\ arquivo # SemArquivo
    /\ senha' = s
    /\ info' = Abrir(arquivo, s)
    /\ config' = "nunca"
    /\ UNCHANGED <<arquivo, hoje>>

\* The service makes its tls.Config, and keeps it.
Conectar ==
    /\ arquivo # SemArquivo
    /\ config # "none"
    /\ config' = MontarTLS(arquivo, senha, hoje)
    /\ UNCHANGED <<arquivo, senha, hoje, info>>

\* The days are counted from the registration.
Amanhecer ==
    /\ arquivo # SemArquivo
    /\ hoje < MaxDia
    /\ hoje' = hoje + 1
    /\ UNCHANGED <<arquivo, senha, info, config>>

CertNext ==
    \/ \E s \in Senhas : TentarSenha(s) \/ \E f \in Arquivos : Cadastrar(f, s)
    \/ Conectar
    \/ Amanhecer

-----------------------------------------------------------------------------
Erros == {"none", "nunca", "ErrArquivoInvalido", "ErrSenhaIncorreta", "ErrVencido"}

CertTypeOK ==
    /\ arquivo = SemArquivo <=> senha = "nenhuma"
    /\ senha \in Senhas \cup {"nenhuma"}
    /\ hoje \in 1..MaxDia
    /\ info.err \in Erros \ {"ErrVencido"} /\ (info.err = "none" <=> info.cnpj # <<>>)
    /\ config \in Erros

\* The DER that a file in BER stands for, knowing what each part of it is, but for
\* bit strings in chunks.
CanonConteudo(bytes, canon) ==
    IF IsWhole(bytes) /\ bytes[1].de.tipo = "asn1"
    THEN Whole(Asn1(canon[bytes[1].de.no]))
    ELSE bytes
Canon[p \in Pacotes] ==
    IF p.cls = "univ" /\ p.tag = "octet"
    THEN Encode(p, FALSE, CanonConteudo(coletarConteudo[p], Canon), <<>>)
    ELSE IF p.tag = "cifrado"
    THEN Encode(p, FALSE, coletarConteudo[p], <<>>)
    ELSE Encode(p, p.cons, p.data, [i \in DOMAIN p.filhos |-> Canon[p.filhos[i]]])

\* What the rewriting misjudges: a content that is DER by its first header and
\* BER deeper down, or whose many small indefinite lengths make it more than two
\* bytes shorter; a salt that happens to read as BER; a ciphertext in one chunk; and
\* a bit string in chunks, of which it makes an octet string.
MalJulgado(c) ==
    IF c.tipo = "asn1"
    THEN \/ ~c.no.indef /\ ~EstritoDentro[c.no]
         \/ ~(Economia[c.no] <= 2)
    ELSE c.acaso = "ber"

PontoCego[p \in Pacotes] ==
    \/ p.tag = "cifrado" /\ Len(p.filhos) = 1
    \/ p.tag = "bit" /\ p.cons
    \/ /\ p.tag = "octet" /\ IsWhole(coletarConteudo[p])
       /\ LET c == coletarConteudo[p][1].de
          IN  MalJulgado(c) \/ (c.tipo = "asn1" /\ PontoCego[c.no])
    \/ p.tag # "octet" /\ \E i \in DOMAIN p.filhos : PontoCego[p.filhos[i]]

\* A file as a certification authority makes it, in DER or in BER.
Integro(f) == Pkcs12(f) /\ f.cert # Nada /\ ~PontoCego[f.raiz]

\* Rewriting a file gives the DER it stands for, with every content kept byte
\* by byte, and leaves it alone the second time.
NormalisationKeeps ==
    (arquivo \notin {SemArquivo, Vazio} /\ arquivo.asn1 /\ ~PontoCego[arquivo.raiz])
    =>      LET der == berParaDER[arquivo.raiz]
            IN  /\ der = Canon[arquivo.raiz]
                /\ EstritoDentro[der]
                /\ berParaDER[der] = der

\* The password is blamed when it is to blame, in BER, where the MAC is made
\* again with whatever was typed, as in DER; what is no PKCS#12 file is called
\* an invalid one.
PasswordBlamed ==
    arquivo # SemArquivo =>
        /\ ~Pkcs12(arquivo) => info.err = "ErrArquivoInvalido"
        /\ Integro(arquivo) =>
              /\ info.err = "ErrSenhaIncorreta" <=> senha # arquivo.senha
              /\ config = "ErrSenhaIncorreta" => senha # arquivo.senha

\* What the service got, on this day or an earlier one, is what the screen had
\* foretold: the error that is on it, for a file that does not open; and for a
\* certificate whose holder it shows, a tls.Config or a refusal of one that the
\* screen calls expired by now.
ScreenForetells ==
    config # "nunca" =>
        /\ config \in {"ErrSenhaIncorreta", "ErrArquivoInvalido"} => info.err = config
        /\ info.err = "none" => config \in {"none", "ErrVencido"}
        /\ info.err = "none" /\ config = "ErrVencido" => Vencido(info, hoje)

CertificateVerdict == PasswordBlamed /\ ScreenForetells

\* The digits of the holder where certa1 looks for them.
Impresso(cert) ==
    \/ Len(cert.cn) > 1 /\ somenteDigitosCN(cert.cn[Len(cert.cn)]) = cert.titular
    \/ \E i \in DOMAIN cert.extensoes :
          LET nomes == cert.extensoes[i].nomes
          IN  \E j \in DOMAIN nomes :
                 /\ cert.extensoes[i].san
                 /\ \A k \in 1..j : nomes[k].le
                 /\ nomes[j].other /\ nomes[j].oid = "2.16.76.1.3.3"
                 /\ somenteDigitosCN(nomes[j].valor) = cert.titular

\* A certificate gives the CNPJ of its holder or none: never another number it
\* carries, and its holder's wherever the authority put it, if it is all digits.
HolderFound ==
    arquivo \notin {SemArquivo, Vazio} /\ arquivo.cert # Nada =>
        /\ info.err = "none" => info.cnpj = arquivo.cert.titular
        /\ Impresso(arquivo.cert) /\ config \in {"none", "ErrVencido"}
           => info.err = "none"
=============================================================================
