----------------------------- MODULE SecretStore -----------------------------
(***************************************************************************)
(* What a service expects of its encrypted secrets, key rotation or not: a *)
(* store where a read gives back the value last saved.                     *)
(***************************************************************************)
CONSTANTS Slot, Instance, Plain, NoPlain

VARIABLES
    store,  \* the value of each slot, NoPlain when there is none
    lido    \* what each instance has last read

Init ==
    /\ store = [s \in Slot |-> NoPlain]
    /\ lido = [i \in Instance |-> NoPlain]

Save(s, v) ==
    /\ store' = [store EXCEPT ![s] = v]
    /\ UNCHANGED lido

Load(i, s) ==
    /\ store[s] # NoPlain
    /\ lido' = [lido EXCEPT ![i] = store[s]]
    /\ UNCHANGED store

Next ==
    \/ \E s \in Slot, v \in Plain : Save(s, v)
    \/ \E i \in Instance, s \in Slot : Load(i, s)

Spec == Init /\ [][Next]_<<store, lido>>
=============================================================================
