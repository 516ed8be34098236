---------------------------- MODULE MCKeyRotation ----------------------------
EXTENDS KeyRotationRefines, TLC

\* Three usable secrets and two that are not: "fraca" is too short and
\* "k1espaco" is k1 with a blank around it, the same key.  K2 and Kc share
\* their keyid.  "kvirgula" is a passphrase with a comma at its end, which is k3
\* without it, and "branco" only blanks.
RawSet == {"k1", "k1espaco", "k2", "k3", "kc", "kvirgula", "fraca", "branco"}
KeySet == {"K1", "K2", "K3", "Kc", "Kv"}
Derived == [r \in RawSet |->
              CASE r \in {"k1", "k1espaco"} -> "K1"
                [] r = "k2" -> "K2"
                [] r = "k3" -> "K3"
                [] r = "kc" -> "Kc"
                [] r = "kvirgula" -> "Kv"
                [] r \in {"fraca", "branco"} -> Fraca]
Parts == [r \in RawSet |->
            CASE r = "k1espaco" -> <<"k1">>
              [] r = "kvirgula" -> <<"k3">>
              [] r = "branco" -> <<>>
              [] OTHER -> <<r>>]
Ids == {"i1", "i2", "i3", "i4"}
IdOf == [k \in KeySet |->
           CASE k = "K1" -> "i1" [] k = "K2" -> "i2"
             [] k = "K3" -> "i3" [] k = "Kc" -> "i2" [] k = "Kv" -> "i4"]

Cfg(a, ps) == [atual |-> a, anteriores |-> ps]

FirstConfig == Cfg("k1", <<>>)

\* From k1 to k2 by way of distributing k2 first, and back to a single key.
RotationConfigs ==
    {FirstConfig, Cfg("k1", <<"k2">>), Cfg("k2", <<"k1">>), Cfg("k2", <<>>)}

\* Two rotations in a row, the second with three keys at once, and mistakes: a
\* weak key, a repeated one, two keys of one ring with one keyid.
FleetConfigs ==
    RotationConfigs \cup {Cfg("k2", <<"k3">>), Cfg("k3", <<"k1", "k2">>),
                          Cfg("k3", <<"k2">>), Cfg("fraca", <<>>),
                          Cfg("k1", <<"k1espaco">>), Cfg("k2", <<"kc", "k1">>),
                          Cfg("kc", <<"k1">>), Cfg("kc", <<>>),
                          Cfg("kvirgula", <<>>), Cfg("k2", <<"kvirgula">>),
                          Cfg("k2", <<"branco">>)}

\* What the package comment says: the new key in, the old one to the earlier
\* keys.
DocConfigs == {FirstConfig, Cfg("k2", <<"k1">>)}
=============================================================================
