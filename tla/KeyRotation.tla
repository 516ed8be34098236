----------------------------- MODULE KeyRotation -----------------------------
(***************************************************************************)
(* A key rotation over a fleet of service instances that share a store of  *)
(* secrets.  An instance builds its keyring from the environment when it   *)
(* boots and keeps it until it restarts, so instances with different       *)
(* keyrings run side by side while a new configuration rolls out.  The     *)
(* store and the rollout are outside the package: they are what its        *)
(* documentation of a rotation talks about.                                *)
(***************************************************************************)
EXTENDS Aescrypto

CONSTANTS
    Instance,   \* running copies of a service
    Slot,       \* secrets kept in the store
    Configs,    \* configurations an operator may publish
    Initial,    \* the first one
    Down,       \* an instance that is not running
    NoBlob      \* an empty slot

\* The two variables of the environment: a secret and a list of secrets.
Config == [atual : Raw, anteriores : Seq(Raw)]

ASSUME FleetAssumption ==
    /\ Configs \subseteq Config
    /\ Initial \in Configs
    /\ Down \notin Encryptor
    /\ NoBlob \notin Blob

VARIABLES
    env,      \* the configuration published
    enc,      \* the keyring of each instance
    blob,     \* the stored ciphertexts
    result,   \* what the last Load of each instance gave
    rotating, \* whether a configuration with earlier keys was ever published
    removed   \* whether a publication has ever dropped a key

vars == <<env, enc, blob, result, rotating, removed>>

-----------------------------------------------------------------------------
\* The keys a configuration and an instance hold.
ConfigKeys(c) ==
    {derivaChave[c.atual]} \cup
    LET a == separaChaves(c.anteriores)
    IN  {derivaChave[a[i]] : i \in DOMAIN a}
Ring(e) == {e.anel[i] : i \in DOMAIN e.anel}

Up(i) == enc[i] # Down

Init ==
    /\ env = Initial
    /\ enc = [i \in Instance |-> Down]
    /\ blob = [s \in Slot |-> NoBlob]
    /\ result = [i \in Instance |-> Failed("nunca")]
    /\ rotating = (separaChaves(Initial.anteriores) # <<>>)
    /\ removed = FALSE

\* An instance starts or restarts: NewFromEnv, and it does not come up when the
\* configuration is refused.
Boot(i) ==
    LET e == NewFromEnv(env.atual, env.anteriores)
    IN  /\ enc' = [enc EXCEPT ![i] = IF e = NoRing THEN Down ELSE e]
        /\ UNCHANGED <<env, blob, result, rotating, removed>>

\* An instance crashes.
Crash(i) ==
    /\ Up(i)
    /\ enc' = [enc EXCEPT ![i] = Down]
    /\ UNCHANGED <<env, blob, result, rotating, removed>>

\* A client updates a secret through instance i.
Save(i, s, v) ==
    /\ Up(i)
    /\ blob' = [blob EXCEPT ![s] = Encrypt(enc[i], v)]
    /\ UNCHANGED <<env, enc, result, rotating, removed>>

\* Instance i reads a secret.
Load(i, s) ==
    /\ Up(i)
    /\ blob[s] # NoBlob
    /\ result' = [result EXCEPT ![i] = Decrypt(enc[i], blob[s])]
    /\ UNCHANGED <<env, enc, blob, rotating, removed>>

\* "Reescrever o que restou": instance i decrypts and encrypts what it can open.
Rewrite(i, s) ==
    /\ Up(i)
    /\ blob[s] # NoBlob
    /\ LET d == Decrypt(enc[i], blob[s])
       IN  /\ d.err = "none"
           /\ blob' = [blob EXCEPT ![s] = Encrypt(enc[i], d.plain)]
    /\ UNCHANGED <<env, enc, result, rotating, removed>>

\* The operator publishes configuration c.
Publish(c) ==
    /\ c # env
    /\ env' = c
    /\ rotating' = (rotating \/ separaChaves(c.anteriores) # <<>>)
    /\ removed' = (removed \/ ~(ConfigKeys(env) \subseteq ConfigKeys(c)))
    /\ UNCHANGED <<enc, blob, result>>

-----------------------------------------------------------------------------
\* The discipline of a rotation.  A key encrypts only once every running
\* instance can read it ...
Distributed(c) == \A i \in Instance : Up(i) => derivaChave[c.atual] \in Ring(enc[i])

\* ... and it leaves the keyring only when no running instance still encrypts
\* with it and every stored secret announces the keyid of a key that stays: a
\* secret without keyid may be under any key.
Rewritten(c) ==
    \A k \in ConfigKeys(env) \ ConfigKeys(c) :
        /\ \A i \in Instance : Up(i) => atual(enc[i]) # k
        /\ \A s \in Slot :
              blob[s] # NoBlob =>
                /\ KeyIDDoBlob(blob[s]) # NoId
                /\ k \in Key => KeyIDDoBlob(blob[s]) # keyID[k]

Rotate(c) == Distributed(c) /\ Rewritten(c) /\ Publish(c)

Serve ==
    \/ \E i \in Instance : Boot(i) \/ Crash(i)
    \/ \E i \in Instance, s \in Slot, v \in Plain : Save(i, s, v)
    \/ \E i \in Instance, s \in Slot : Load(i, s) \/ Rewrite(i, s)

\* A fleet under the discipline, and one whose operator publishes anything.
Next == Serve \/ \E c \in Configs : Rotate(c)
LooseNext == Serve \/ \E c \in Configs : Publish(c)

Spec == Init /\ [][Next]_vars
LooseSpec == Init /\ [][LooseNext]_vars

\* An instance is restarted after each publication, and whatever secret can be
\* rewritten is, even by instances that crash now and then.
Fairness ==
    /\ \A i \in Instance : WF_vars(Boot(i))
    /\ \A s \in Slot : SF_vars(\E i \in Instance : Rewrite(i, s))

FairSpec == Spec /\ Fairness

-----------------------------------------------------------------------------
\* The type invariant.
TypeOK ==
    /\ env \in Configs
    /\ enc \in [Instance -> Encryptor \cup {Down}]
    /\ blob \in [Slot -> Blob \cup {NoBlob}]
    /\ result \in [Instance -> [err : {"none", "nunca", "open", "legado",
                                       "ErrChaveDesconhecida"},
                                plain : Plain \cup {NoPlain}]]
    /\ rotating \in BOOLEAN
    /\ removed \in BOOLEAN

\* Under the discipline every running instance, old configuration or new, opens
\* every stored secret at every moment of a rotation.
Readable ==
    \A i \in Instance, s \in Slot :
        Up(i) /\ blob[s] # NoBlob
        => Decrypt(enc[i], blob[s]) = Opened(blob[s].plain)

\* Whatever the operator does, an instance opens every secret sealed with a key
\* of its ring, in either format: keyids never send it to the wrong key.
RingOpens ==
    \A i \in Instance, s \in Slot :
        Up(i) /\ blob[s] # NoBlob /\ blob[s].key \in Ring(enc[i])
        => Decrypt(enc[i], blob[s]) = Opened(blob[s].plain)

\* The way back stays open until a rotation starts: every ciphertext is in the
\* format that the code before keyrings reads.
OldCodeReads ==
    ~rotating =>
        \A s \in Slot :
            blob[s] # NoBlob => blob[s].fmt = "legado"

\* ErrChaveDesconhecida is the error of who removed a key before rewriting what
\* it had sealed (its comment says so): none without a removal.
UnknownKeyMeansRemoved ==
    \A i \in Instance : result[i].err = "ErrChaveDesconhecida" => removed

\* A rotation left alone ends: once a configuration with earlier keys stays,
\* every secret comes to announce the keyid of its encrypting key, which is
\* what lets the earlier keys go.
Announced(c) ==
    LET e == NewFromEnv(c.atual, c.anteriores)
    IN  \A s \in Slot :
            blob[s] # NoBlob => KeyIDDoBlob(blob[s]) = KeyIDAtual(e)
RotationEnds ==
    \A c \in Configs :
        /\ NewFromEnv(c.atual, c.anteriores) # NoRing
        /\ separaChaves(c.anteriores) # <<>>
        => (<>[](env = c) => <>[]Announced(c))

-----------------------------------------------------------------------------
(* The inductive invariant behind Readable. *)

\* A keyring the constructors can have built.
SoundRing(e) ==
    /\ Len(e.anel) >= 1
    /\ \A p, q \in DOMAIN e.anel :
          keyID[e.anel[p]] = keyID[e.anel[q]] => p = q

\* A ciphertext announces the key that sealed it, or nothing.
SoundBlob(b) == b.id = IF b.fmt = "v2" THEN keyID[b.key] ELSE NoId

\* Every running instance and the published configuration hold key k.
HeldByAll(k) ==
    /\ k \in ConfigKeys(env)
    /\ \A i \in Instance : Up(i) => k \in Ring(enc[i])

\* The keys in use, which encrypt now, will encrypt or have encrypted, are held
\* by all.
KeysHeld ==
    /\ \A i \in Instance : Up(i) => SoundRing(enc[i]) /\ HeldByAll(atual(enc[i]))
    /\ HeldByAll(derivaChave[env.atual])
    /\ \A s \in Slot :
          blob[s] # NoBlob => SoundBlob(blob[s]) /\ HeldByAll(blob[s].key)

IInv == TypeOK /\ KeysHeld

(* What holds under an operator who publishes anything. *)

\* Keyrings and ciphertexts are well made, and nothing of the new format exists
\* before a configuration with earlier keys was published.
WellMade ==
    /\ \A i \in Instance : Up(i) => SoundRing(enc[i])
    /\ \A s \in Slot : blob[s] # NoBlob => SoundBlob(blob[s])
OldFormat ==
    ~rotating => /\ separaChaves(env.anteriores) = <<>>
                 /\ \A i \in Instance : Up(i) => ~enc[i].escreveV2
                 /\ OldCodeReads

LooseInv == TypeOK /\ WellMade /\ OldFormat
=============================================================================
