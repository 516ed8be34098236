-------------------------- MODULE KeyRotationProofs --------------------------
(***************************************************************************)
(* Proofs about KeyRotation, for every set of keys, instances and secrets  *)
(* and any number of rotations, whether or not keyids collide: under the   *)
(* discipline every stored secret stays readable, and the fleet implements *)
(* a plain store of secrets.                                               *)
(***************************************************************************)
EXTENDS KeyRotationRefines, TextProofs

\* What is split of a list of secrets are secrets, a finite number of them.
LEMMA EarlierSecrets ==
  ASSUME NEW lista \in Seq(Raw)
  PROVE  separaChaves(lista) \in Seq(Raw)
<1> DEFINE s == [i \in DOMAIN lista |-> partes[lista[i]]]
<1>1. /\ Len(lista) \in Nat /\ DOMAIN lista = 1..Len(lista)
      /\ \A i \in DOMAIN lista : lista[i] \in Raw
  OBVIOUS
<1>2. s \in Seq(Seq(Raw))
  <2> DEFINE Q == Seq(Raw)
  <2>1. \A i \in DOMAIN lista : s[i] \in Q
    BY <1>1, CryptoAssumption
  <2> HIDE DEF Q
  <2>2. s \in Seq(Q)
    BY <1>1, <2>1
  <2> QED BY <2>2 DEF Q
<1>3. FlattenSeq(s) \in Seq(Raw)
  <2> HIDE DEF s
  <2> QED BY <1>2, FlattenElements
<1> QED BY <1>3 DEF separaChaves

\* A sound ring opens a sound blob sealed with one of its keys.
LEMMA DecryptOpens ==
  ASSUME NEW e \in Encryptor, NEW b \in Blob,
         SoundRing(e), SoundBlob(b), b.key \in Ring(e)
  PROVE  Decrypt(e, b) = Opened(b.plain)
<1> USE DEF Encryptor, Blob
<1>1. PICK p \in DOMAIN e.anel : e.anel[p] = b.key
  BY DEF Ring
<1>2. DOMAIN e.anel \subseteq Nat
  OBVIOUS
<1>3. CASE b.fmt = "v2"
  <2>1. Candidates(e, b) = {p}
    BY <1>1, <1>3 DEF Candidates, SoundRing, SoundBlob
  <2>2. First(Candidates(e, b)) = p
    BY <2>1, <1>2 DEF First
  <2>3. abre(e.anel[p], b) = Opened(b.plain)
    BY <1>1 DEF abre
  <2> QED BY <1>3, <2>1, <2>2, <2>3 DEF Decrypt
<1>4. CASE b.fmt = "legado"
  <2>1. Candidates(e, b) = DOMAIN e.anel
    BY <1>4 DEF Candidates
  <2>2. \A q \in DOMAIN e.anel : abre(e.anel[q], b).err = "none" <=> q = p
    BY <1>1 DEF abre, Opened, Failed, SoundRing
  <2>3. {q \in DOMAIN e.anel : abre(e.anel[q], b).err = "none"} = {p}
    BY <1>1, <2>2
  <2>4. First({p}) = p
    BY <1>1, <1>2 DEF First
  <2>5. abre(e.anel[p], b) = Opened(b.plain)
    BY <1>1 DEF abre
  <2> QED BY <1>4, <2>1, <2>3, <2>4, <2>5 DEF Decrypt
<1> QED BY <1>3, <1>4

\* What Encrypt makes is a sound blob under the ring's first key.
LEMMA EncryptSound ==
  ASSUME NEW e \in Encryptor, SoundRing(e), NEW v \in Plain
  PROVE  /\ Encrypt(e, v) \in Blob
         /\ SoundBlob(Encrypt(e, v))
         /\ Encrypt(e, v).key = atual(e)
         /\ Encrypt(e, v).plain = v
         /\ atual(e) \in Ring(e)
<1>1. atual(e) \in Key /\ atual(e) \in Ring(e)
  BY DEF atual, Encryptor, SoundRing, Ring
<1>2. keyID[atual(e)] \in KeyId
  BY <1>1, CryptoAssumption
<1> QED BY <1>1, <1>2 DEF Encrypt, Encryptor, Blob, SoundBlob

\* What NewFromEnv accepts is a sound ring with the configuration's keys, the
\* current one first.
LEMMA NewFromEnvSound ==
  ASSUME NEW c \in Config, NewFromEnv(c.atual, c.anteriores) # NoRing
  PROVE  LET e == NewFromEnv(c.atual, c.anteriores)
         IN  /\ e \in Encryptor
             /\ SoundRing(e)
             /\ Ring(e) = ConfigKeys(c)
             /\ atual(e) = derivaChave[c.atual]
<1> DEFINE e == NewFromEnv(c.atual, c.anteriores)
           a == separaChaves(c.anteriores)
           raws == Secrets(c.atual, a)
<1>1. c.atual \in Raw /\ a \in Seq(Raw)
  BY EarlierSecrets DEF Config
<1>0. /\ e = IF a = <<>> THEN New(c.atual) ELSE NewKeyring(c.atual, a)
      /\ ConfigKeys(c) = {derivaChave[c.atual]} \cup {derivaChave[a[i]] : i \in DOMAIN a}
      /\ e # NoRing
  BY DEF NewFromEnv, ConfigKeys
<1> HIDE DEF a, e
<1>2. CASE a = <<>>
  <2>1. derivaChave[c.atual] \in Key /\ derivaChave[c.atual] # Fraca
    BY <1>0, <1>1, <1>2, CryptoAssumption DEF New
  <2>2. e = [anel |-> <<derivaChave[c.atual]>>, escreveV2 |-> FALSE]
    BY <1>0, <1>2, <2>1 DEF New
  <2> DEFINE d == derivaChave[c.atual]
  <2>3. e.anel = <<d>> /\ e.anel \in Seq(Key) /\ DOMAIN e.anel = {1} /\ e.anel[1] = d
    BY <2>1, <2>2
  <2>4. e \in Encryptor
    BY <2>2, <2>3 DEF Encryptor
  <2>5. SoundRing(e) /\ Ring(e) = {d} /\ atual(e) = d
    BY <2>3 DEF SoundRing, Ring, atual
  <2>6. ConfigKeys(c) = {d}
    BY <1>0, <1>2
  <2> QED BY <2>4, <2>5, <2>6 DEF e
<1>3. CASE a # <<>>
  <2>1. raws \in Seq(Raw) /\ Len(raws) = Len(a) + 1 /\ Len(raws) >= 1
    BY <1>1 DEF Secrets
  <2>2. raws[1] = c.atual /\ \A i \in 1..Len(a) : raws[i + 1] = a[i]
    BY <1>1 DEF Secrets
  <2>3. RingAccepted(raws)
    BY <1>0, <1>3 DEF NewKeyring
  <2>4. e = [anel |-> [i \in 1..Len(raws) |-> derivaChave[raws[i]]],
             escreveV2 |-> TRUE]
    BY <1>0, <1>3, <2>3 DEF NewKeyring
  <2> HIDE DEF raws
  <2>5. \A i \in 1..Len(raws) : derivaChave[raws[i]] \in Key
    BY <2>1, <2>3, CryptoAssumption DEF RingAccepted
  <2>6. e.anel \in Seq(Key) /\ Len(e.anel) = Len(raws) /\ DOMAIN e.anel = 1..Len(raws)
    BY <2>1, <2>4, <2>5
  <2>7. \A i \in 1..Len(raws) : e.anel[i] = derivaChave[raws[i]]
    BY <2>4
  <2>8. e \in Encryptor /\ SoundRing(e)
    BY <2>1, <2>3, <2>4, <2>6, <2>7 DEF Encryptor, SoundRing, RingAccepted
  <2>9. Ring(e) = ConfigKeys(c)
    <3>1. ASSUME NEW k \in Ring(e)
          PROVE  k \in ConfigKeys(c)
      <4>1. PICK i \in 1..Len(raws) : k = derivaChave[raws[i]]
        BY <2>6, <2>7 DEF Ring
      <4>2. CASE i = 1
        BY <1>0, <2>2, <4>1, <4>2
      <4>3. CASE i # 1
        <5>1. i - 1 \in 1..Len(a) /\ raws[i] = a[i - 1]
          BY <1>1, <2>1, <2>2, <4>3
        <5> QED BY <1>0, <1>1, <4>1, <5>1
      <4> QED BY <4>2, <4>3
    <3>2. ASSUME NEW k \in ConfigKeys(c)
          PROVE  k \in Ring(e)
      <4>1. CASE k = derivaChave[c.atual]
        BY <2>1, <2>2, <2>6, <2>7, <4>1 DEF Ring
      <4>2. ASSUME NEW i \in DOMAIN a, k = derivaChave[a[i]]
            PROVE  k \in Ring(e)
        <5>1. i \in 1..Len(a) /\ i + 1 \in 1..Len(raws)
          BY <1>1, <2>1
        <5> QED BY <2>2, <2>6, <2>7, <4>2, <5>1 DEF Ring
      <4> QED BY <1>0, <3>2, <4>1, <4>2
    <3> QED BY <3>1, <3>2
  <2>10. atual(e) = derivaChave[c.atual]
    BY <2>1, <2>2, <2>7 DEF atual
  <2> QED BY <2>8, <2>9, <2>10 DEF e
<1> QED BY <1>2, <1>3

\* The fleet starts empty, with the first configuration.
LEMMA InitIInv == Init => IInv
<1> SUFFICES ASSUME Init
             PROVE  IInv
  OBVIOUS
<1>1. TypeOK
  <2>1. Failed("nunca") \in [err : {"none", "nunca", "open", "legado",
                                   "ErrChaveDesconhecida"},
                            plain : Plain \cup {NoPlain}]
    BY DEF Failed
  <2>2. env \in Configs /\ rotating \in BOOLEAN /\ removed \in BOOLEAN
    BY FleetAssumption DEF Init
  <2> QED BY <2>1, <2>2 DEF Init, TypeOK
<1>2. \A i \in Instance : ~Up(i)
  BY DEF Init, Up
<1>3. \A s \in Slot : blob[s] = NoBlob
  BY DEF Init
<1>4. derivaChave[env.atual] \in ConfigKeys(env)
  BY DEF ConfigKeys
<1> QED BY <1>1, <1>2, <1>3, <1>4 DEF IInv, KeysHeld, HeldByAll

\* A boot makes a ring of the published keys, which hold every key in use.
LEMMA BootIInv ==
  ASSUME IInv, NEW i \in Instance, Boot(i)
  PROVE  IInv'
<1> DEFINE e == NewFromEnv(env.atual, env.anteriores)
<1>1. env \in Config
  BY FleetAssumption DEF IInv, TypeOK
<1>2. CASE e = NoRing
  BY <1>2 DEF IInv, TypeOK, KeysHeld, HeldByAll, Up, Boot
<1>3. CASE e # NoRing
  <2>1. /\ e \in Encryptor /\ SoundRing(e)
        /\ Ring(e) = ConfigKeys(env) /\ atual(e) = derivaChave[env.atual]
    BY <1>1, <1>3, NewFromEnvSound
  <2>2. enc' = [enc EXCEPT ![i] = e] /\ UNCHANGED <<env, blob, result, rotating, removed>>
    BY <1>3 DEF Boot
  <2> HIDE DEF e
  <2>3. TypeOK'
    BY <2>1, <2>2 DEF IInv, TypeOK
  <2>4. \A k : HeldByAll(k) => HeldByAll(k)'
    BY <2>1, <2>2 DEF IInv, TypeOK, HeldByAll, ConfigKeys, Up
  <2>5. KeysHeld'
    BY <2>1, <2>2, <2>4 DEF IInv, TypeOK, KeysHeld, Up
  <2> QED BY <2>3, <2>5 DEF IInv
<1> QED BY <1>2, <1>3

\* A crash only takes a ring away.
LEMMA CrashIInv ==
  ASSUME IInv, NEW i \in Instance, Crash(i)
  PROVE  IInv'
BY DEF IInv, TypeOK, KeysHeld, HeldByAll, ConfigKeys, Up, Crash

\* A ciphertext of a running instance is under its current key, held by all.
LEMMA StoreIInv ==
  ASSUME IInv, NEW i \in Instance, Up(i), NEW s \in Slot, NEW v \in Plain,
         blob' = [blob EXCEPT ![s] = Encrypt(enc[i], v)],
         UNCHANGED <<env, enc, result, rotating, removed>>
  PROVE  IInv'
<1> DEFINE b == Encrypt(enc[i], v)
<1>1. enc[i] \in Encryptor /\ SoundRing(enc[i]) /\ HeldByAll(atual(enc[i]))
  BY DEF IInv, TypeOK, KeysHeld, Up
<1>2. b \in Blob /\ SoundBlob(b) /\ HeldByAll(b.key)
  BY <1>1, EncryptSound
<1>0. blob' = [blob EXCEPT ![s] = b]
  OBVIOUS
<1> HIDE DEF b
<1>3. TypeOK'
  BY <1>0, <1>2 DEF IInv, TypeOK
<1>4. \A k : HeldByAll(k) => HeldByAll(k)'
  BY DEF HeldByAll, ConfigKeys, Up
<1>5. \A t \in Slot : blob'[t] = IF t = s THEN b ELSE blob[t]
  BY <1>0 DEF IInv, TypeOK
<1>6. KeysHeld'
  BY <1>2, <1>4, <1>5 DEF IInv, KeysHeld, Up
<1> QED BY <1>3, <1>6 DEF IInv

\* Every running instance opens every stored secret.
LEMMA InvReadable ==
  ASSUME IInv, NEW i \in Instance, NEW s \in Slot, Up(i), blob[s] # NoBlob
  PROVE  /\ Decrypt(enc[i], blob[s]) = Opened(blob[s].plain)
         /\ Decrypt(enc[i], blob[s]).plain = blob[s].plain
         /\ blob[s] \in Blob
<1>1. /\ enc[i] \in Encryptor /\ blob[s] \in Blob
      /\ SoundRing(enc[i]) /\ SoundBlob(blob[s])
      /\ blob[s].key \in Ring(enc[i])
  BY DEF IInv, TypeOK, KeysHeld, HeldByAll, Up
<1>2. Decrypt(enc[i], blob[s]) = Opened(blob[s].plain)
  BY <1>1, DecryptOpens
<1>3. Opened(blob[s].plain).plain = blob[s].plain
  BY DEF Opened
<1> QED BY <1>1, <1>2, <1>3

\* A read changes no key.
LEMMA LoadIInv ==
  ASSUME IInv, NEW i \in Instance, NEW s \in Slot, Load(i, s)
  PROVE  IInv'
<1>1. result' = [result EXCEPT ![i] = Opened(blob[s].plain)] /\ blob[s] \in Blob
  BY InvReadable DEF Load
<1>2. TypeOK'
  BY <1>1 DEF IInv, TypeOK, Load, Opened, Blob
<1>3. KeysHeld'
  BY DEF IInv, KeysHeld, HeldByAll, ConfigKeys, Up, Load
<1> QED BY <1>2, <1>3 DEF IInv

\* A publication under the discipline drops no key in use, and its encrypting
\* key has reached every running instance.
LEMMA RotateIInv ==
  ASSUME IInv, NEW c \in Configs, Rotate(c)
  PROVE  IInv'
<1>1. TypeOK'
  BY DEF IInv, TypeOK, Rotate, Publish
<1>2. \A k : /\ HeldByAll(k)
             /\ k \notin ConfigKeys(env) \ ConfigKeys(c)
             => HeldByAll(k)'
  BY DEF HeldByAll, Rotate, Publish, Up
<1>3. HeldByAll(derivaChave[env.atual])'
  BY DEF HeldByAll, Rotate, Publish, Distributed, ConfigKeys, Up
<1>4. ASSUME NEW i \in Instance, Up(i)
      PROVE  HeldByAll(atual(enc[i]))'
  <2>1. HeldByAll(atual(enc[i])) /\ atual(enc[i]) \notin ConfigKeys(env) \ ConfigKeys(c)
    BY <1>4 DEF IInv, KeysHeld, Rotate, Rewritten
  <2>2. enc' = enc
    BY DEF Rotate, Publish
  <2> QED BY <1>2, <2>1, <2>2
<1>5. ASSUME NEW s \in Slot, blob[s] # NoBlob
      PROVE  HeldByAll(blob[s].key)'
  <2>1. /\ HeldByAll(blob[s].key) /\ SoundBlob(blob[s])
        /\ blob[s] \in Blob /\ blob' = blob
    BY <1>5 DEF IInv, TypeOK, KeysHeld, Rotate, Publish
  <2>2. blob[s].key \notin ConfigKeys(env) \ ConfigKeys(c)
    BY <1>5, <2>1 DEF Rotate, Rewritten, SoundBlob, KeyIDDoBlob, Blob
  <2> QED BY <1>2, <2>1, <2>2
<1>6. KeysHeld'
  BY <1>3, <1>4, <1>5 DEF IInv, KeysHeld, Rotate, Publish, Up
<1> QED BY <1>1, <1>6 DEF IInv

LEMMA NextIInv == IInv /\ [Next]_vars => IInv'
<1> SUFFICES ASSUME IInv, [Next]_vars
             PROVE  IInv'
  OBVIOUS
<1>1. ASSUME NEW i \in Instance, NEW s \in Slot, NEW v \in Plain, Save(i, s, v)
      PROVE  IInv'
  BY <1>1, StoreIInv DEF Save
<1>2. ASSUME NEW i \in Instance, NEW s \in Slot, Rewrite(i, s)
      PROVE  IInv'
  <2>1. Up(i) /\ blob[s] # NoBlob
    BY <1>2 DEF Rewrite
  <2>2. blob[s] \in Blob /\ Decrypt(enc[i], blob[s]).plain = blob[s].plain
    BY <2>1, InvReadable
  <2>3. blob[s].plain \in Plain
    BY <2>2 DEF Blob
  <2> QED BY <1>2, <2>1, <2>2, <2>3, StoreIInv DEF Rewrite
<1>3. CASE UNCHANGED vars
  BY <1>3 DEF IInv, TypeOK, KeysHeld, HeldByAll, ConfigKeys, Up, vars
<1> QED BY <1>1, <1>2, <1>3, BootIInv, CrashIInv, LoadIInv, RotateIInv
        DEF Next, Serve

THEOREM Invariance == Spec => []IInv
BY InitIInv, NextIInv, PTL DEF Spec

\* Under the discipline no instance meets a secret it cannot open, at any moment
\* of any number of rotations and even if two keys share a keyid.
THEOREM RotationSafe == Spec => []Readable
<1>1. IInv => Readable
  BY InvReadable DEF Readable
<1> QED BY <1>1, Invariance, PTL

\* The fleet under the discipline implements the plain store of secrets.
THEOREM Refinement == Spec => ImplementsSecretStore
<1>1. Init => Abstract!Init
  BY DEF Init, Abstract!Init, store, lido, Failed
<1>2. ASSUME IInv, [Next]_vars
      PROVE  [Abstract!Next]_<<store, lido>>
  <2>1. ASSUME NEW i \in Instance, Boot(i) \/ Crash(i)
        PROVE  UNCHANGED <<store, lido>>
    BY <2>1 DEF Boot, Crash, store, lido
  <2>2. ASSUME NEW c \in Configs, Rotate(c)
        PROVE  UNCHANGED <<store, lido>>
    BY <2>2 DEF Rotate, Publish, store, lido
  <2>3. ASSUME NEW i \in Instance, NEW s \in Slot, NEW v \in Plain, Save(i, s, v)
        PROVE  Abstract!Next
    <3>1. /\ Up(i) /\ blob' = [blob EXCEPT ![s] = Encrypt(enc[i], v)]
          /\ lido' = lido
      BY <2>3 DEF Save, lido
    <3>2. Encrypt(enc[i], v) \in Blob /\ Encrypt(enc[i], v).plain = v
      BY <1>2, <3>1, EncryptSound DEF IInv, TypeOK, KeysHeld, Up
    <3>3. store' = [store EXCEPT ![s] = v]
      BY <1>2, <3>1, <3>2, FleetAssumption DEF store, IInv, TypeOK
    <3> QED BY <3>1, <3>3 DEF Abstract!Next, Abstract!Save
  <2>4. ASSUME NEW i \in Instance, NEW s \in Slot, Rewrite(i, s)
        PROVE  UNCHANGED <<store, lido>>
    <3>1. /\ Up(i) /\ blob[s] # NoBlob /\ lido' = lido
          /\ blob' = [blob EXCEPT ![s] = Encrypt(enc[i], Decrypt(enc[i], blob[s]).plain)]
      BY <2>4 DEF Rewrite, lido
    <3>2. blob[s] \in Blob /\ Decrypt(enc[i], blob[s]).plain = blob[s].plain
      BY <1>2, <3>1, InvReadable
    <3>3. /\ Encrypt(enc[i], blob[s].plain) \in Blob
          /\ Encrypt(enc[i], blob[s].plain).plain = blob[s].plain
      BY <1>2, <3>1, <3>2, EncryptSound DEF IInv, TypeOK, KeysHeld, Up, Blob
    <3>4. blob' = [blob EXCEPT ![s] = Encrypt(enc[i], blob[s].plain)]
      BY <3>1, <3>2
    <3>5. store' = store
      BY <1>2, <3>1, <3>3, <3>4, FleetAssumption DEF store, IInv, TypeOK
    <3> QED BY <3>1, <3>5
  <2>5. ASSUME NEW i \in Instance, NEW s \in Slot, Load(i, s)
        PROVE  Abstract!Next
    <3>1. /\ Up(i) /\ blob[s] # NoBlob /\ blob' = blob
          /\ result' = [result EXCEPT ![i] = Decrypt(enc[i], blob[s])]
      BY <2>5 DEF Load
    <3>2. blob[s] \in Blob /\ Decrypt(enc[i], blob[s]).plain = blob[s].plain
      BY <1>2, <3>1, InvReadable
    <3>3. store[s] = blob[s].plain /\ store[s] # NoPlain /\ store' = store
      BY <3>1, <3>2, CryptoAssumption DEF store, Blob
    <3>4. lido' = [lido EXCEPT ![i] = store[s]]
      BY <1>2, <3>1, <3>2, <3>3 DEF lido, IInv, TypeOK
    <3> QED BY <3>3, <3>4 DEF Abstract!Next, Abstract!Load
  <2>6. CASE UNCHANGED vars
    BY <2>6 DEF vars, store, lido
  <2> QED BY <1>2, <2>1, <2>2, <2>3, <2>4, <2>5, <2>6 DEF Next, Serve
<1> QED BY <1>1, <1>2, Invariance, PTL
        DEF Spec, ImplementsSecretStore, Abstract!Spec

-----------------------------------------------------------------------------
(* Without the discipline. *)

\* The fleet starts empty; the first configuration decides `rotating`.
LEMMA InitLoose == Init => LooseInv
<1> SUFFICES ASSUME Init
             PROVE  LooseInv
  OBVIOUS
<1>1. TypeOK
  BY InitIInv DEF IInv
<1>2. \A i \in Instance : ~Up(i)
  BY DEF Init, Up
<1>3. \A s \in Slot : blob[s] = NoBlob
  BY DEF Init
<1>4. ~rotating => separaChaves(env.anteriores) = <<>>
  BY DEF Init
<1> QED BY <1>1, <1>2, <1>3, <1>4 DEF LooseInv, WellMade, OldFormat, OldCodeReads

\* What an instance reads: the plaintext, or one of three errors.
LEMMA DecryptTyped ==
  ASSUME NEW e \in Encryptor, NEW b \in Blob
  PROVE  /\ Decrypt(e, b) \in [err : {"none", "nunca", "open", "legado",
                                     "ErrChaveDesconhecida"},
                              plain : Plain \cup {NoPlain}]
         /\ Decrypt(e, b).err = "none" => Decrypt(e, b).plain = b.plain
<1>1. b.plain \in Plain
  BY DEF Blob
<1>2. \A k : abre(k, b) \in {Opened(b.plain), Failed("open")}
  BY DEF abre
<1>3. Decrypt(e, b) \in {Opened(b.plain), Failed("open"), Failed("legado"),
                        Failed("ErrChaveDesconhecida")}
  BY <1>2 DEF Decrypt
<1> QED BY <1>1, <1>3 DEF Opened, Failed

\* A boot makes a sound ring, which writes the old format unless it has earlier
\* keys.
LEMMA BootLoose ==
  ASSUME LooseInv, NEW i \in Instance, Boot(i)
  PROVE  LooseInv'
<1> DEFINE e == NewFromEnv(env.atual, env.anteriores)
<1>1. env \in Config
  BY FleetAssumption DEF LooseInv, TypeOK
<1>2. CASE e = NoRing
  BY <1>2 DEF LooseInv, TypeOK, WellMade, OldFormat, OldCodeReads, Up, Boot
<1>3. CASE e # NoRing
  <2>1. e \in Encryptor /\ SoundRing(e)
    BY <1>1, <1>3, NewFromEnvSound
  <2>2. separaChaves(env.anteriores) = <<>> => ~e.escreveV2
    BY <1>3 DEF NewFromEnv, New
  <2>3. enc' = [enc EXCEPT ![i] = e] /\ UNCHANGED <<env, blob, result, rotating, removed>>
    BY <1>3 DEF Boot
  <2> HIDE DEF e
  <2>4. TypeOK'
    BY <2>1, <2>3 DEF LooseInv, TypeOK
  <2>5. WellMade'
    BY <2>1, <2>3 DEF LooseInv, TypeOK, WellMade, Up
  <2>6. OldFormat'
    BY <2>2, <2>3 DEF LooseInv, TypeOK, OldFormat, OldCodeReads, Up
  <2> QED BY <2>4, <2>5, <2>6 DEF LooseInv
<1> QED BY <1>2, <1>3

\* A ciphertext is as sound and as old as the ring that makes it.
LEMMA StoreLoose ==
  ASSUME LooseInv, NEW i \in Instance, Up(i), NEW s \in Slot, NEW v \in Plain,
         blob' = [blob EXCEPT ![s] = Encrypt(enc[i], v)],
         UNCHANGED <<env, enc, result, rotating, removed>>
  PROVE  LooseInv'
<1> DEFINE b == Encrypt(enc[i], v)
<1>1. enc[i] \in Encryptor /\ SoundRing(enc[i])
  BY DEF LooseInv, TypeOK, WellMade, Up
<1>2. b \in Blob /\ SoundBlob(b)
  BY <1>1, EncryptSound
<1>3. ~enc[i].escreveV2 => b.fmt = "legado"
  BY DEF Encrypt
<1>4. blob' = [blob EXCEPT ![s] = b]
  OBVIOUS
<1> HIDE DEF b
<1>5. TypeOK'
  BY <1>2, <1>4 DEF LooseInv, TypeOK
<1>6. \A t \in Slot : blob'[t] = IF t = s THEN b ELSE blob[t]
  BY <1>4 DEF LooseInv, TypeOK
<1>7. WellMade'
  BY <1>2, <1>6 DEF LooseInv, WellMade, Up
<1>8. OldFormat'
  BY <1>3, <1>6 DEF LooseInv, OldFormat, OldCodeReads, Up
<1> QED BY <1>5, <1>7, <1>8 DEF LooseInv

\* The remaining steps make no key and no ciphertext.
LEMMA OtherLoose ==
  ASSUME LooseInv,
         \/ \E i \in Instance : Crash(i)
         \/ \E i \in Instance, s \in Slot : Load(i, s)
         \/ \E c \in Configs : Publish(c)
         \/ UNCHANGED vars
  PROVE  LooseInv'
<1>1. ASSUME NEW i \in Instance, Crash(i)
      PROVE  LooseInv'
  BY <1>1 DEF LooseInv, TypeOK, WellMade, OldFormat, OldCodeReads, Up, Crash
<1>2. ASSUME NEW i \in Instance, NEW s \in Slot, Load(i, s)
      PROVE  LooseInv'
  <2>1. enc[i] \in Encryptor /\ blob[s] \in Blob
    BY <1>2 DEF LooseInv, TypeOK, Load, Up
  <2>2. result' = [result EXCEPT ![i] = Decrypt(enc[i], blob[s])]
        /\ UNCHANGED <<env, enc, blob, rotating, removed>>
    BY <1>2 DEF Load
  <2>3. TypeOK'
    BY <2>1, <2>2, DecryptTyped DEF LooseInv, TypeOK
  <2> QED BY <2>2, <2>3 DEF LooseInv, WellMade, OldFormat, OldCodeReads, Up
<1>3. ASSUME NEW c \in Configs, Publish(c)
      PROVE  LooseInv'
  BY <1>3 DEF LooseInv, TypeOK, WellMade, OldFormat, OldCodeReads, Up, Publish
<1>4. CASE UNCHANGED vars
  BY <1>4 DEF LooseInv, TypeOK, WellMade, OldFormat, OldCodeReads, Up, vars
<1> QED BY <1>1, <1>2, <1>3, <1>4

LEMMA NextLoose == LooseInv /\ [LooseNext]_vars => LooseInv'
<1> SUFFICES ASSUME LooseInv, [LooseNext]_vars
             PROVE  LooseInv'
  OBVIOUS
<1>1. ASSUME NEW i \in Instance, NEW s \in Slot, NEW v \in Plain, Save(i, s, v)
      PROVE  LooseInv'
  BY <1>1, StoreLoose DEF Save
<1>2. ASSUME NEW i \in Instance, NEW s \in Slot, Rewrite(i, s)
      PROVE  LooseInv'
  <2>1. Up(i) /\ enc[i] \in Encryptor /\ blob[s] \in Blob
    BY <1>2 DEF LooseInv, TypeOK, Rewrite, Up
  <2>2. Decrypt(enc[i], blob[s]).plain \in Plain
    BY <1>2, <2>1, DecryptTyped DEF Rewrite, Blob
  <2> QED BY <1>2, <2>1, <2>2, StoreLoose DEF Rewrite
<1> QED BY <1>1, <1>2, BootLoose, OtherLoose DEF LooseNext, Serve

\* Every variable keeps its type, even when the operator publishes anything.
THEOREM TypeCorrect == LooseSpec => []TypeOK
<1>1. LooseInv => TypeOK
  BY DEF LooseInv
<1> QED BY <1>1, InitLoose, NextLoose, PTL DEF LooseSpec

\* Whatever the operator publishes, and even if two keys share a keyid, an
\* instance opens every secret sealed with a key of its own ring.
THEOREM KeyidsRoute == LooseSpec => []RingOpens
<1>1. LooseInv => RingOpens
  BY DecryptOpens DEF LooseInv, TypeOK, WellMade, RingOpens, Up
<1> QED BY <1>1, InitLoose, NextLoose, PTL DEF LooseSpec

\* Until a configuration with earlier keys is published, every ciphertext is in
\* the format of the code before keyrings.
THEOREM WayBack == LooseSpec => []OldCodeReads
<1>1. LooseInv => OldCodeReads
  BY DEF LooseInv, OldFormat, OldCodeReads
<1> QED BY <1>1, InitLoose, NextLoose, PTL DEF LooseSpec

\* The disciplined fleet is one of them.
THEOREM DisciplineIsLoose == Spec => LooseSpec
<1>1. [Next]_vars => [LooseNext]_vars
  BY DEF Next, LooseNext, Rotate
<1> QED BY <1>1, PTL DEF Spec, LooseSpec
=============================================================================
