-------------------------- MODULE KeyRotationRefines --------------------------
(***************************************************************************)
(* A fleet that rotates its keys under the discipline is a plain store of  *)
(* secrets: neither a publication, a restart nor a rewriting shows.        *)
(***************************************************************************)
EXTENDS KeyRotation

store == [s \in Slot |-> IF blob[s] = NoBlob THEN NoPlain ELSE blob[s].plain]
lido == [i \in Instance |-> result[i].plain]

Abstract == INSTANCE SecretStore WITH store <- store, lido <- lido

\* Every behaviour of the fleet is one of the store.
ImplementsSecretStore == Abstract!Spec
=============================================================================
