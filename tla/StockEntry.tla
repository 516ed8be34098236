----------------------------- MODULE StockEntry -----------------------------
(***************************************************************************)
(* The stock entry that packages certa1, veiculobr and claudeia exist for: *)
(* a shop registers its certificate, the service makes a tls.Config of it, *)
(* documents are read and sent under it, and in the end the calls that     *)
(* read them are charged.  The flow itself, which the comments of the      *)
(* packages describe, is outside the repository; the parts run one after   *)
(* the other because none of them looks at the state of another.           *)
(***************************************************************************)
EXTENDS CertificateUse, FieldReading, CostLedger

VARIABLE fase   \* "cadastro", "leitura", "conta"

vars == <<fase, certVars, readVars, costVars>>

Init ==
    /\ fase = "cadastro"
    /\ CertInit
    /\ ReadInit
    /\ CostInit

Registration ==
    /\ fase = "cadastro"
    /\ CertNext
    /\ UNCHANGED <<fase, readVars, costVars>>

\* The service keeps the tls.Config alone, and goes on for days.
Comecar ==
    /\ fase = "cadastro"
    /\ config = "none"
    /\ fase' = "leitura"
    /\ arquivo' = SemArquivo
    /\ senha' = "nenhuma"
    /\ info' = Recusa("nunca")
    /\ hoje' = MaxDia
    /\ UNCHANGED <<config, readVars, costVars>>

Reading ==
    /\ fase = "leitura"
    /\ ReadNext
    /\ UNCHANGED <<fase, certVars, costVars>>

Encerrar ==
    /\ fase = "leitura"
    /\ campo = SemCampo /\ fotos > 0
    /\ fase' = "conta"
    /\ UNCHANGED <<certVars, readVars, costVars>>

\* Each photo was a call.
Charging ==
    /\ fase = "conta"
    /\ chamadas < fotos
    /\ CostNext
    /\ UNCHANGED <<fase, certVars, readVars>>

Next == Registration \/ Comecar \/ Reading \/ Encerrar \/ Charging

Spec == Init /\ [][Next]_vars

-----------------------------------------------------------------------------
\* The type invariant.
TypeOK ==
    /\ fase \in {"cadastro", "leitura", "conta"}
    /\ CertTypeOK
    /\ ReadTypeOK
    /\ CostTypeOK
=============================================================================
