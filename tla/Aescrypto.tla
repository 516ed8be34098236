------------------------------ MODULE Aescrypto ------------------------------
(***************************************************************************)
(* Package aescrypto: the keyring, the two formats of a ciphertext and the *)
(* key identifier.  AES-GCM is taken for what the code relies on: a blob   *)
(* opens with the key that sealed it and fails cleanly with any other.  A  *)
(* blob is therefore the record of its format, the keyid it announces, and *)
(* (hidden from the code) the key that sealed it and the plaintext.        *)
(***************************************************************************)
EXTENDS Naturals, Sequences, SequencesExt

CONSTANTS
    Raw,          \* secrets as the environment holds them
    Key,          \* 32-byte keys
    KeyId,        \* the first 4 bytes of a SHA-256
    Plain,        \* plaintexts
    derivaChave,  \* raw secret -> key, or Fraca when it is empty or weak
    keyID,        \* key -> its identifier; two keys may share one
    partes,       \* raw secret -> what its commas leave of it, without blanks
    Fraca, NoId, NoPlain, NoRing

ASSUME CryptoAssumption ==
    /\ derivaChave \in [Raw -> Key \cup {Fraca}]
    /\ keyID \in [Key -> KeyId]
    /\ partes \in [Raw -> Seq(Raw)]
    /\ Fraca \notin Key
    /\ NoId \notin KeyId
    /\ NoPlain \notin Plain

\* type aesGCM; NoRing is the error of a constructor that refuses.
Encryptor == [anel : Seq(Key), escreveV2 : BOOLEAN]

ASSUME RingAssumption == NoRing \notin Encryptor

Blob == [fmt : {"v2", "legado"}, id : KeyId \cup {NoId}, key : Key, plain : Plain]

-----------------------------------------------------------------------------
\* Mutants: a weak key is accepted, and the new format is written at once.
NewUnchecked(raw) == [anel |-> <<derivaChave[raw]>>, escreveV2 |-> FALSE]

NewV2(raw) ==
    IF derivaChave[raw] = Fraca THEN NoRing
    ELSE [anel |-> <<derivaChave[raw]>>, escreveV2 |-> TRUE]

New(raw) ==
    IF derivaChave[raw] = Fraca THEN NoRing
    ELSE [anel |-> <<derivaChave[raw]>>, escreveV2 |-> FALSE]

\* A mutant: the earlier keys first.
SecretsReversed(atual, anteriores) == anteriores \o <<atual>>

\* The raw secrets of a keyring in order, the one that encrypts first.
Secrets(atual, anteriores) == <<atual>> \o anteriores

\* A mutant: keyids are not compared.
RingAcceptedTwins(raws) == \A i \in 1..Len(raws) : derivaChave[raws[i]] # Fraca

\* No secret is weak and no keyid comes twice.
RingAccepted(raws) ==
    /\ \A i \in 1..Len(raws) : derivaChave[raws[i]] # Fraca
    /\ \A i, j \in 1..Len(raws) :
          keyID[derivaChave[raws[i]]] = keyID[derivaChave[raws[j]]] => i = j

\* A mutant: the keyring goes on writing the old format.
NewKeyringLegacy(atual, anteriores) ==
    LET raws == Secrets(atual, anteriores)
    IN  IF RingAccepted(raws)
        THEN [anel |-> [i \in 1..Len(raws) |-> derivaChave[raws[i]]],
              escreveV2 |-> FALSE]
        ELSE NoRing

NewKeyring(atual, anteriores) ==
    LET raws == Secrets(atual, anteriores)
    IN  IF RingAccepted(raws)
        THEN [anel |-> [i \in 1..Len(raws) |-> derivaChave[raws[i]]],
              escreveV2 |-> TRUE]
        ELSE NoRing

\* The list of earlier secrets, joined by commas in the environment, is split
\* at every comma, those inside a secret included, and blanks are dropped.
separaChaves(lista) == FlattenSeq([i \in DOMAIN lista |-> partes[lista[i]]])

\* The keyring turns on with the first earlier key, and off with the last.
NewFromEnv(atual, lista) ==
    LET anteriores == separaChaves(lista)
    IN  IF anteriores = <<>> THEN New(atual) ELSE NewKeyring(atual, anteriores)

atual(e) == e.anel[1]

Encrypt(e, plain) ==
    [fmt   |-> IF e.escreveV2 THEN "v2" ELSE "legado",
     id    |-> IF e.escreveV2 THEN keyID[atual(e)] ELSE NoId,
     key   |-> atual(e),
     plain |-> plain]

\* What a decryption gives back.
Opened(plain) == [err |-> "none", plain |-> plain]
Failed(err)   == [err |-> err, plain |-> NoPlain]

abre(k, blob) ==
    IF k = blob.key THEN Opened(blob.plain) ELSE Failed("open")

\* A mutant: a blob without keyid is tried with the current key only.
CandidatesCurrent(e, blob) ==
    IF blob.fmt = "v2"
    THEN {i \in DOMAIN e.anel : keyID[e.anel[i]] = blob.id}
    ELSE {1}

\* The positions of the ring a blob is tried with: those with its keyid, or
\* all of them for a blob without one.
Candidates(e, blob) ==
    IF blob.fmt = "v2"
    THEN {i \in DOMAIN e.anel : keyID[e.anel[i]] = blob.id}
    ELSE DOMAIN e.anel

First(S) == CHOOSE i \in S : \A j \in S : i <= j

\* v2: the first key with the announced keyid opens it or nothing does.
\* Legacy: the first key that opens it.
Decrypt(e, blob) ==
    LET C == Candidates(e, blob)
        Opening == {i \in C : abre(e.anel[i], blob).err = "none"}
    IN  IF blob.fmt = "v2"
        THEN IF C = {} THEN Failed("ErrChaveDesconhecida")
             ELSE abre(e.anel[First(C)], blob)
        ELSE IF Opening = {} THEN Failed("legado")
             ELSE abre(e.anel[First(Opening)], blob)

\* The keyid a blob would announce if it were encrypted now.
KeyIDAtual(e) == keyID[atual(e)]

\* The keyid a blob announces, without any key; none on a legacy blob.
KeyIDDoBlob(blob) == IF blob.fmt = "v2" THEN blob.id ELSE NoId
=============================================================================
