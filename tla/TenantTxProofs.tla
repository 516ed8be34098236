--------------------------- MODULE TenantTxProofs ---------------------------
(***************************************************************************)
(* Proofs about TenantTx, for every set of requests, connections, tenants  *)
(* and contexts.  IInv is inductive: one lemma per action shows that the   *)
(* action preserves it, and the safety properties follow from it.  Then    *)
(* each action is a step of the abstract unit of work or a stuttering step *)
(* of it, and calls nested in the callbacks of others keep every promise.  *)
(***************************************************************************)
EXTENDS TenantTxRefines, NestedTx, TLAPS

\* The pool starts clean and every call idle.
LEMMA InitIInv == Init => IInv
BY IdsAssumption, NoCtxAssumption, TxAssumption
   DEF Init, IInv, TypeOK, Outcomes, RowType, NoSettings, NoLeakedConn,
       HandleHeld, IdleConnClean, CtxChecked, SettingsSoFar, SettingsApplied,
       RowsSigned, OutcomeHonest, Committed, ReadsInScope

\* A call with a nil pool changes nothing but its outcome.
LEMMA CallPoolNilStep ==
  ASSUME NEW r \in Req, IInv, CallPoolNil(r)
  PROVE  IInv'
<1> USE IdsAssumption, NoCtxAssumption, TxAssumption DEF IInv, TypeOK, NoLeakedConn, HandleHeld, IdleConnClean, connVars, reqVars, Release, is_local, CallPoolNil
<1>1. TypeOK'
  BY DEF Outcomes, RowType
<1>2. NoLeakedConn' /\ HandleHeld' /\ IdleConnClean'
  OBVIOUS
<1>3. CtxChecked' /\ SettingsSoFar' /\ SettingsApplied'
  BY DEF CtxChecked, SettingsSoFar, Gucs, GUC, SettingsApplied
<1>4. RowsSigned'
  BY DEF RowsSigned, CtxChecked
<1>5. OutcomeHonest' /\ ReadsInScope'
  BY SMTT(30) DEF OutcomeHonest, Committed, RowsSigned, CtxChecked, ReadsInScope, NoSettings, RowVisible
<1> QED BY <1>1, <1>2, <1>3, <1>4, <1>5

\* A call admitted to Begin carries a context that passed validation.
LEMMA CallStep ==
  ASSUME NEW r \in Req, NEW c \in Contexts, IInv, Call(r, c)
  PROVE  IInv'
<1> USE IdsAssumption, NoCtxAssumption, TxAssumption DEF IInv, TypeOK, NoLeakedConn, HandleHeld, IdleConnClean, connVars, reqVars, Release, is_local, Call
<1>1. TypeOK'
  BY DEF Outcomes, RowType, Refusal
<1>2. NoLeakedConn' /\ HandleHeld' /\ IdleConnClean'
  OBVIOUS
<1>3. CtxChecked' /\ SettingsSoFar' /\ SettingsApplied'
  BY DEF CtxChecked, Refusal, SettingsSoFar, Gucs, GUC, SettingsApplied
<1>4. RowsSigned'
  BY DEF RowsSigned, CtxChecked
<1>5. OutcomeHonest' /\ ReadsInScope'
  BY DEF OutcomeHonest, Committed, RowsSigned, CtxChecked, ReadsInScope, NoSettings, RowVisible
<1> QED BY <1>1, <1>2, <1>3, <1>4, <1>5

\* A query on the pool itself runs on a clean connection and reads nothing.
LEMMA DirectQueryStep ==
  ASSUME NEW r \in Req, NEW c \in Conn, IInv, DirectQuery(r, c)
  PROVE  IInv'
<1> USE IdsAssumption, NoCtxAssumption, TxAssumption DEF IInv, TypeOK, NoLeakedConn, HandleHeld, IdleConnClean, connVars, reqVars, Release, is_local, DirectQuery
<1>1. TypeOK'
  BY DEF Outcomes, RowType
<1>2. NoLeakedConn' /\ HandleHeld' /\ IdleConnClean'
  OBVIOUS
<1>3. CtxChecked' /\ SettingsSoFar' /\ SettingsApplied'
  BY DEF CtxChecked, SettingsSoFar, Gucs, GUC, SettingsApplied
<1>4. RowsSigned'
  BY DEF RowsSigned, CtxChecked
<1>5. OutcomeHonest'
  BY DEF OutcomeHonest, Committed, RowsSigned, CtxChecked
<1>6. ReadsInScope'
  <2>1. guc[c] = NoSettings
    OBVIOUS
  <2>2. guc[c]["tenant_ids_visiveis"] = Unset /\ guc[c]["is_master_imobo"] = Unset
    BY <2>1 DEF NoSettings, GUC
  <2>3. Unset # TRUE
    BY Zenon
  <2>4. \A t \in Tenant : ~RowVisible(guc[c], t)
    BY <2>2, <2>3, Zenon DEF RowVisible
  <2>5. \A x \in rows : x.tenant \in Tenant
    BY DEF RowType
  <2>6. {x \in rows : RowVisible(guc[c], x.tenant)} = {}
    BY <2>4, <2>5
  <2>7. seen'[r] = {}
    BY <2>6
  <2>8. \A q \in Req : (q # r => seen'[q] = seen[q]) /\ ctx'[q] = ctx[q]
    OBVIOUS
  <2>9. \A q \in Req : seen[q] \subseteq Scope(ctx[q])
    BY DEF ReadsInScope
  <2> HIDE DEF DirectQuery, IInv
  <2> QED BY <2>7, <2>8, <2>9 DEF ReadsInScope
<1> QED BY <1>1, <1>2, <1>3, <1>4, <1>5, <1>6

\* A failed Begin leaves no connection behind.
LEMMA BeginErrStep ==
  ASSUME NEW r \in Req, IInv, BeginErr(r)
  PROVE  IInv'
<1> USE IdsAssumption, NoCtxAssumption, TxAssumption DEF IInv, TypeOK, NoLeakedConn, HandleHeld, IdleConnClean, connVars, reqVars, Release, is_local, BeginErr
<1>1. TypeOK'
  BY DEF Outcomes, RowType
<1>2. NoLeakedConn' /\ HandleHeld' /\ IdleConnClean'
  OBVIOUS
<1>3. CtxChecked' /\ SettingsSoFar' /\ SettingsApplied'
  BY DEF CtxChecked, SettingsSoFar, Gucs, GUC, SettingsApplied
<1>4. RowsSigned'
  BY DEF RowsSigned, CtxChecked
<1>5. OutcomeHonest' /\ ReadsInScope'
  BY DEF OutcomeHonest, Committed, RowsSigned, CtxChecked, ReadsInScope, NoSettings, RowVisible
<1> QED BY <1>1, <1>2, <1>3, <1>4, <1>5

\* Begin takes a clean connection, which nobody else has the handle of.
LEMMA BeginStep ==
  ASSUME NEW r \in Req, NEW c \in Conn, IInv, Begin(r, c)
  PROVE  IInv'
<1> USE IdsAssumption, NoCtxAssumption, TxAssumption DEF IInv, TypeOK, NoLeakedConn, HandleHeld, IdleConnClean, connVars, reqVars, Release, is_local, Begin
<1>1. TypeOK'
  BY DEF Outcomes, RowType
<1>2. NoLeakedConn' /\ HandleHeld' /\ IdleConnClean'
  OBVIOUS
<1>3. CtxChecked' /\ SettingsSoFar' /\ SettingsApplied'
  BY DEF CtxChecked, SettingsSoFar, SettingsApplied, Gucs, GUC
<1>4. RowsSigned'
  <2>1. wrote[r] = {} /\ pending[c] = {}
    BY DEF CtxChecked
  <2>2. \A q \in Req \ {r} : handle[q] # c /\ handle'[q] = handle[q]
    OBVIOUS
  <2>3. handle'[r] = c
    OBVIOUS
  <2>4. (\A q \in Conn : pending[q] # {} =>
           holder[q] \in Req /\ pending[q] \subseteq wrote[holder[q]])'
    BY <2>1 DEF RowsSigned
  <2>5. (\A q \in Req : pc[q] \in {"set", "fn", "commit"} /\ tx[handle[q]] = "open"
           => pending[handle[q]] = wrote[q])'
    <3> SUFFICES ASSUME NEW q \in Req, pc'[q] \in {"set", "fn", "commit"},
                        tx'[handle'[q]] = "open"
                 PROVE  pending[handle'[q]] = wrote[q]
      OBVIOUS
    <3>1. CASE q = r
      <4>1. handle'[q] = c /\ wrote[q] = {}
        BY <2>1, <2>3, <3>1
      <4> QED BY <2>1, <4>1, Zenon
    <3>2. CASE q # r
      <4>1. pc[q] = pc'[q] /\ handle[q] \in Conn
        BY <3>2
      <4> QED BY <2>2, <3>2, <4>1 DEF RowsSigned
    <3> QED BY <3>1, <3>2
  <2> QED BY <2>4, <2>5 DEF RowsSigned
<1>5. OutcomeHonest' /\ ReadsInScope'
  BY DEF OutcomeHonest, Committed, RowsSigned, CtxChecked, ReadsInScope, NoSettings, RowVisible
<1> QED BY <1>1, <1>2, <1>3, <1>4, <1>5

\* A set_config extends the settings that are those of the context by one.
LEMMA SetConfigStep ==
  ASSUME NEW r \in Req, IInv, SetConfig(r)
  PROVE  IInv'
<1> USE IdsAssumption, NoCtxAssumption, TxAssumption DEF IInv, TypeOK, NoLeakedConn, HandleHeld, IdleConnClean, connVars, reqVars, Release, is_local, SetConfig
<1>1. TypeOK'
  BY DEF Gucs, RowType
<1>2. NoLeakedConn' /\ HandleHeld' /\ IdleConnClean'
  OBVIOUS
<1>3. CtxChecked' /\ SettingsSoFar' /\ SettingsApplied'
  BY DEF CtxChecked, SettingsSoFar, Gucs, GUC, SettingsApplied
<1>4. RowsSigned'
  BY DEF RowsSigned, CtxChecked
<1>5. OutcomeHonest' /\ ReadsInScope'
  BY DEF OutcomeHonest, Committed, RowsSigned, CtxChecked, ReadsInScope, NoSettings, RowVisible
<1> QED BY <1>1, <1>2, <1>3, <1>4, <1>5

\* A failed set_config keeps the callback from running.
LEMMA SetConfigErrStep ==
  ASSUME NEW r \in Req, IInv, SetConfigErr(r)
  PROVE  IInv'
<1> USE IdsAssumption, NoCtxAssumption, TxAssumption DEF IInv, TypeOK, NoLeakedConn, HandleHeld, IdleConnClean, connVars, reqVars, Release, is_local, SetConfigErr
<1>1. TypeOK'
  BY DEF Outcomes, RowType
<1>2. NoLeakedConn' /\ HandleHeld' /\ IdleConnClean'
  OBVIOUS
<1>3. CtxChecked' /\ SettingsSoFar' /\ SettingsApplied'
  BY DEF CtxChecked, SettingsSoFar, Gucs, GUC, SettingsApplied
<1>4. RowsSigned'
  BY DEF RowsSigned, CtxChecked
<1>5. OutcomeHonest' /\ ReadsInScope'
  BY SMTT(30) DEF OutcomeHonest, Committed, RowsSigned, CtxChecked, ReadsInScope, NoSettings, RowVisible
<1> QED BY <1>1, <1>2, <1>3, <1>4, <1>5

\* What the policy lets through under the call's settings is in its scope.
LEMMA FnReadStep ==
  ASSUME NEW r \in Req, IInv, FnRead(r)
  PROVE  IInv'
<1> USE IdsAssumption, NoCtxAssumption, TxAssumption DEF IInv, TypeOK, NoLeakedConn, HandleHeld, IdleConnClean, connVars, reqVars, Release, is_local, FnRead
<1>1. TypeOK'
  BY DEF Outcomes, RowType
<1>2. NoLeakedConn' /\ HandleHeld' /\ IdleConnClean'
  OBVIOUS
<1>3. CtxChecked' /\ SettingsSoFar' /\ SettingsApplied'
  BY DEF CtxChecked, SettingsSoFar, Gucs, GUC, SettingsApplied
<1>4. RowsSigned'
  BY DEF RowsSigned, CtxChecked
<1>5. OutcomeHonest'
  BY DEF OutcomeHonest, Committed, RowsSigned, CtxChecked
<1>6. ReadsInScope'
  <2>1. \A t \in Tenant : RowVisible(guc[handle[r]], t) => t \in Scope(ctx[r])
    BY DEF RowVisible, SettingsApplied, GUC, settings, Scope, CtxChecked
  <2> QED BY <2>1 DEF ReadsInScope, RowType
<1> QED BY <1>1, <1>2, <1>3, <1>4, <1>5, <1>6

\* A row written under the call's settings is signed by its context.
LEMMA FnWriteStep ==
  ASSUME NEW r \in Req, NEW t \in Tenant, IInv, FnWrite(r, t)
  PROVE  IInv'
<1> USE IdsAssumption, NoCtxAssumption, TxAssumption DEF IInv, TypeOK, NoLeakedConn, HandleHeld, IdleConnClean, connVars, reqVars, Release, is_local, FnWrite
<1>0. RowVisible(guc[handle[r]], t) =>
        /\ t \in Scope(ctx[r])
        /\ Row(r, t, guc[handle[r]]) =
             [tenant |-> t, req |-> r, audTenant |-> ctx[r].actedAsTenant,
              audAs |-> ctx[r].actedAsUser, audBy |-> ctx[r].actedByUser]
        /\ Row(r, t, guc[handle[r]]) \in RowType
  <2>1. guc[handle[r]]["tenant_id"] = ctx[r].actedAsTenant
    BY DEF SettingsApplied, GUC, settings
  <2>2. guc[handle[r]]["acted_as_user_id"] = ctx[r].actedAsUser
    BY DEF SettingsApplied, GUC, settings
  <2>3. guc[handle[r]]["acted_by_user_id"] = ctx[r].actedByUser
    BY DEF SettingsApplied, GUC, settings
  <2>4. RowVisible(guc[handle[r]], t) => t \in Scope(ctx[r])
    BY DEF RowVisible, SettingsApplied, GUC, settings, Scope, CtxChecked
  <2>5. ctx[r] \in Context
    BY DEF CtxChecked
  <2> QED BY <2>1, <2>2, <2>3, <2>4, <2>5 DEF Row, RowType, Context
<1>1. TypeOK'
  BY <1>0
<1>2. NoLeakedConn' /\ HandleHeld' /\ IdleConnClean'
  OBVIOUS
<1>3. CtxChecked' /\ SettingsSoFar' /\ SettingsApplied'
  BY DEF CtxChecked, SettingsSoFar, Gucs, GUC, SettingsApplied
<1>4. RowsSigned'
  <2>1. CASE RowVisible(guc[handle[r]], t)
    <3> DEFINE w == Row(r, t, guc[handle[r]])
    <3>1. pending[handle[r]] = wrote[r]
      BY DEF RowsSigned
    <3>2. \A q \in Req : q # r => handle[q] # handle[r]
      OBVIOUS
    <3>3. wrote' = [wrote EXCEPT ![r] = @ \cup {w}]
      BY <2>1
    <3>4. pending' = [pending EXCEPT ![handle[r]] = @ \cup {w}]
      BY <2>1
    <3>5. w.req = r /\ w.tenant \in Scope(ctx[r]) /\ w.audTenant = ctx[r].actedAsTenant
          /\ w.audAs = ctx[r].actedAsUser /\ w.audBy = ctx[r].actedByUser
      BY <1>0, <2>1
    <3> HIDE DEF w
    <3>6. (\A q \in Req : \A x \in wrote[q] :
            /\ x.req = q
            /\ x.tenant \in Scope(ctx[q])
            /\ x.audTenant = ctx[q].actedAsTenant
            /\ x.audAs = ctx[q].actedAsUser
            /\ x.audBy = ctx[q].actedByUser)'
      BY <3>3, <3>5 DEF RowsSigned
    <3>7. (\A q \in Conn : pending[q] # {} =>
             holder[q] \in Req /\ pending[q] \subseteq wrote[holder[q]])'
      BY <3>1, <3>3, <3>4 DEF RowsSigned
    <3>8. (\A q \in Req : pc[q] \in {"set", "fn", "commit"} /\ tx[handle[q]] = "open"
             => pending[handle[q]] = wrote[q])'
      BY <2>1, <3>1, <3>2, <3>3, <3>4 DEF RowsSigned
    <3> QED BY <3>6, <3>7, <3>8 DEF RowsSigned
  <2>2. CASE ~RowVisible(guc[handle[r]], t)
    BY <2>2 DEF RowsSigned
  <2> QED BY <2>1, <2>2
<1>5. OutcomeHonest' /\ ReadsInScope'
  BY DEF OutcomeHonest, Committed, RowsSigned, CtxChecked, ReadsInScope, NoSettings, RowVisible
<1> QED BY <1>1, <1>2, <1>3, <1>4, <1>5

\* The callback returning nil moves the call to the commit.
LEMMA FnOkStep ==
  ASSUME NEW r \in Req, IInv, FnOk(r)
  PROVE  IInv'
<1> USE IdsAssumption, NoCtxAssumption, TxAssumption DEF IInv, TypeOK, NoLeakedConn, HandleHeld, IdleConnClean, connVars, reqVars, Release, is_local, FnOk
<1>1. TypeOK'
  BY DEF Outcomes, RowType
<1>2. NoLeakedConn' /\ HandleHeld' /\ IdleConnClean'
  OBVIOUS
<1>3. CtxChecked' /\ SettingsSoFar' /\ SettingsApplied'
  BY DEF CtxChecked, SettingsSoFar, Gucs, GUC, SettingsApplied
<1>4. RowsSigned'
  BY DEF RowsSigned, CtxChecked
<1>5. OutcomeHonest' /\ ReadsInScope'
  BY DEF OutcomeHonest, Committed, RowsSigned, CtxChecked, ReadsInScope, NoSettings, RowVisible
<1> QED BY <1>1, <1>2, <1>3, <1>4, <1>5

\* The callback returning an error moves the call to the rollback.
LEMMA FnErrStep ==
  ASSUME NEW r \in Req, IInv, FnErr(r)
  PROVE  IInv'
<1> USE IdsAssumption, NoCtxAssumption, TxAssumption DEF IInv, TypeOK, NoLeakedConn, HandleHeld, IdleConnClean, connVars, reqVars, Release, is_local, FnErr
<1>1. TypeOK'
  BY DEF Outcomes, RowType
<1>2. NoLeakedConn' /\ HandleHeld' /\ IdleConnClean'
  OBVIOUS
<1>3. CtxChecked' /\ SettingsSoFar' /\ SettingsApplied'
  BY DEF CtxChecked, SettingsSoFar, Gucs, GUC, SettingsApplied
<1>4. RowsSigned'
  BY DEF RowsSigned, CtxChecked
<1>5. OutcomeHonest' /\ ReadsInScope'
  BY DEF OutcomeHonest, Committed, RowsSigned, CtxChecked, ReadsInScope, NoSettings, RowVisible
<1> QED BY <1>1, <1>2, <1>3, <1>4, <1>5

\* A panic of the callback reaches the deferred rollback too.
LEMMA FnPanicStep ==
  ASSUME NEW r \in Req, IInv, FnPanic(r)
  PROVE  IInv'
<1> USE IdsAssumption, NoCtxAssumption, TxAssumption DEF IInv, TypeOK, NoLeakedConn, HandleHeld, IdleConnClean, connVars, reqVars, Release, is_local, FnPanic
<1>1. TypeOK'
  BY DEF Outcomes, RowType
<1>2. NoLeakedConn' /\ HandleHeld' /\ IdleConnClean'
  OBVIOUS
<1>3. CtxChecked' /\ SettingsSoFar' /\ SettingsApplied'
  BY DEF CtxChecked, SettingsSoFar, Gucs, GUC, SettingsApplied
<1>4. RowsSigned'
  BY DEF RowsSigned, CtxChecked
<1>5. OutcomeHonest' /\ ReadsInScope'
  BY DEF OutcomeHonest, Committed, RowsSigned, CtxChecked, ReadsInScope, NoSettings, RowVisible
<1> QED BY <1>1, <1>2, <1>3, <1>4, <1>5

\* A commit publishes all the rows of the call and gives back a clean connection.
LEMMA CommitOkStep ==
  ASSUME NEW r \in Req, IInv, CommitOk(r)
  PROVE  IInv'
<1> USE IdsAssumption, NoCtxAssumption, TxAssumption DEF IInv, TypeOK, NoLeakedConn, HandleHeld, IdleConnClean, connVars, reqVars, Release, is_local, CommitOk
<1>1. TypeOK'
  BY DEF Outcomes, NoSettings
<1>2. NoLeakedConn' /\ HandleHeld' /\ IdleConnClean'
  OBVIOUS
<1>3. CtxChecked' /\ SettingsSoFar' /\ SettingsApplied'
  BY DEF CtxChecked, SettingsSoFar, Gucs, GUC, SettingsApplied
<1>4. RowsSigned'
  BY DEF RowsSigned, CtxChecked
<1>5. OutcomeHonest' /\ ReadsInScope'
  BY DEF OutcomeHonest, Committed, RowsSigned, CtxChecked, ReadsInScope, NoSettings, RowVisible
<1> QED BY <1>1, <1>2, <1>3, <1>4, <1>5

\* A failed commit publishes all the rows of the call or none, and closes the handle.
LEMMA CommitErrStep ==
  ASSUME NEW r \in Req, IInv, CommitErr(r)
  PROVE  IInv'
<1> USE IdsAssumption, NoCtxAssumption, TxAssumption DEF IInv, TypeOK, NoLeakedConn, HandleHeld, IdleConnClean, connVars, reqVars, Release, is_local, CommitErr
<1>1. TypeOK'
  BY DEF Outcomes, NoSettings
<1>2. NoLeakedConn' /\ HandleHeld' /\ IdleConnClean'
  OBVIOUS
<1>3. CtxChecked' /\ SettingsSoFar' /\ SettingsApplied'
  BY DEF CtxChecked, SettingsSoFar, Gucs, GUC, SettingsApplied
<1>4. RowsSigned'
  BY DEF RowsSigned, CtxChecked
<1>5. OutcomeHonest' /\ ReadsInScope'
  BY DEF OutcomeHonest, Committed, RowsSigned, CtxChecked, ReadsInScope, NoSettings, RowVisible
<1> QED BY <1>1, <1>2, <1>3, <1>4, <1>5

\* The deferred rollback gives the connection back only if the call still has it.
LEMMA RollbackStep ==
  ASSUME NEW r \in Req, IInv, Rollback(r)
  PROVE  IInv'
<1> USE IdsAssumption, NoCtxAssumption, TxAssumption DEF IInv, TypeOK, NoLeakedConn, HandleHeld, IdleConnClean, connVars, reqVars, Release, is_local, Rollback
<1>1. TypeOK'
  BY DEF Outcomes, NoSettings
<1>2. NoLeakedConn' /\ HandleHeld' /\ IdleConnClean'
  OBVIOUS
<1>3. CtxChecked' /\ SettingsSoFar' /\ SettingsApplied'
  BY DEF CtxChecked, SettingsSoFar, Gucs, GUC, SettingsApplied
<1>4. RowsSigned'
  BY DEF RowsSigned, CtxChecked
<1>5. OutcomeHonest' /\ ReadsInScope'
  BY DEF OutcomeHonest, Committed, RowsSigned, CtxChecked, ReadsInScope, NoSettings, RowVisible
<1> QED BY <1>1, <1>2, <1>3, <1>4, <1>5

\* A lost connection takes its settings and uncommitted rows with it.
LEMMA ConnLostStep ==
  ASSUME NEW c \in Conn, IInv, ConnLost(c)
  PROVE  IInv'
<1> USE IdsAssumption, NoCtxAssumption, TxAssumption DEF IInv, TypeOK, NoLeakedConn, HandleHeld, IdleConnClean, reqVars, ConnLost
<1>1. TypeOK'
  BY DEF RowType, NoSettings
<1>2. NoLeakedConn' /\ HandleHeld' /\ IdleConnClean'
  OBVIOUS
<1>3. CtxChecked' /\ SettingsSoFar' /\ SettingsApplied'
  BY DEF CtxChecked, SettingsSoFar, SettingsApplied
<1>4. RowsSigned'
  BY DEF RowsSigned
<1>5. OutcomeHonest' /\ ReadsInScope'
  BY DEF OutcomeHonest, Committed, ReadsInScope
<1> QED BY <1>1, <1>2, <1>3, <1>4, <1>5

\* A stuttering step changes nothing IInv mentions.
LEMMA StutterIInv == IInv /\ UNCHANGED vars => IInv'
BY DEF vars, IInv, TypeOK, NoLeakedConn, HandleHeld, IdleConnClean, CtxChecked,
       SettingsSoFar, SettingsApplied, RowsSigned, OutcomeHonest, Committed,
       ReadsInScope

\* Every step preserves the inductive invariant.
LEMMA NextIInv == IInv /\ [Next]_vars => IInv'
<1> SUFFICES ASSUME IInv, [Next]_vars
             PROVE  IInv'
  OBVIOUS
<1>1. ASSUME NEW r \in Req, Step(r)
      PROVE  IInv'
  <2>1. CASE Start(r)
    BY <2>1, CallPoolNilStep, CallStep, DirectQueryStep DEF Start
  <2>2. CASE Begins(r)
    BY <2>2, BeginErrStep, BeginStep DEF Begins
  <2>3. CASE Sets(r)
    BY <2>3, SetConfigStep, SetConfigErrStep DEF Sets
  <2>4. CASE Fn(r)
    BY <2>4, FnReadStep, FnWriteStep, FnOkStep, FnErrStep, FnPanicStep
       DEF Fn, FnReturn
  <2>5. CASE Commits(r)
    BY <2>5, CommitOkStep, CommitErrStep DEF Commits
  <2>6. CASE Rollback(r)
    BY <2>6, RollbackStep
  <2> QED BY <1>1, <2>1, <2>2, <2>3, <2>4, <2>5, <2>6 DEF Step
<1>2. CASE UNCHANGED vars
  BY <1>2, StutterIInv
<1> QED BY <1>1, <1>2, ConnLostStep DEF Next

\* The inductive invariant holds throughout.
THEOREM Invariance == Spec => []IInv
BY InitIInv, NextIInv, PTL DEF Spec

\* Every variable keeps its type, whatever fails and whenever.
THEOREM TypeCorrect == Spec => []TypeOK
<1>1. IInv => TypeOK
  BY DEF IInv
<1> QED BY <1>1, Invariance, PTL

\* No call of withTenantContextOn, and no query beside it, ever reads a row
\* outside the scope of its own context.
THEOREM TenantIsolation == Spec => []ReadsInScope
<1>1. IInv => ReadsInScope
  BY DEF IInv
<1> QED BY <1>1, Invariance, PTL

\* A connection is back in the pool without settings, rows or transaction, and
\* one in use is its holder's to give back.
THEOREM PoolDiscipline == Spec => []PoolSound
<1>1. IInv => PoolSound
  BY DEF IInv, PoolSound
<1> QED BY <1>1, Invariance, PTL

\* The outcome WithTenantContext reports tells what became of the rows.
THEOREM Atomicity == Spec => []OutcomeHonest
<1>1. IInv => OutcomeHonest
  BY DEF IInv
<1> QED BY <1>1, Invariance, PTL

\* A row, and its audit entry, bears its writer's context and no other.
THEOREM AuditTrail == Spec => []AuditFaithful
<1>1. IInv => AuditFaithful
  <2> SUFFICES ASSUME IInv,
                      NEW w \in rows \cup UNION {pending[c] : c \in Conn}
               PROVE  /\ w.tenant \in Scope(ctx[w.req])
                      /\ w.audTenant = ctx[w.req].actedAsTenant
                      /\ w.audAs = ctx[w.req].actedAsUser
                      /\ w.audBy = ctx[w.req].actedByUser
    BY DEF AuditFaithful
  <2>1. \E r \in Req : w \in wrote[r]
    <3>1. CASE w \in rows
      <4>1. w.req \in Req /\ w \in Committed(w.req)
        BY <3>1 DEF IInv, TypeOK, RowType, Committed
      <4> QED BY <4>1 DEF IInv, OutcomeHonest
    <3>2. ASSUME NEW c \in Conn, w \in pending[c]
          PROVE  \E r \in Req : w \in wrote[r]
      BY <3>2 DEF IInv, RowsSigned
    <3> QED BY <3>1, <3>2
  <2> QED BY <2>1 DEF IInv, RowsSigned
<1> QED BY <1>1, Invariance, PTL

\* One request's step disturbs no connection another request holds: the second
\* half of pool discipline, as an action property.
THEOREM NoInterference == Spec => NoCrossRequestEffect
<1> DEFINE Undisturbed(c, r) ==
      /\ holder[c] = r
      /\ pc'[r] = pc[r] /\ next'[r] = next[r] /\ wrote'[r] = wrote[r]
      => \/ tx'[c] = "lost"
         \/ /\ holder'[c] = r
            /\ guc'[c] = guc[c]
            /\ pending'[c] = pending[c]
            /\ tx'[c] \in {tx[c], "aborted"}
<1>1. ASSUME IInv, [Next]_vars, NEW c \in Conn, NEW r \in Req
      PROVE  Undisturbed(c, r)
  <2> USE <1>1, TxAssumption DEF IInv, TypeOK, NoLeakedConn, HandleHeld, connVars, reqVars, Release
  <2>1. ASSUME NEW q \in Req, Start(q) \/ Begins(q)
        PROVE  Undisturbed(c, r)
    BY <2>1 DEF Start, CallPoolNil, Call, DirectQuery, Begins, BeginErr, Begin
  <2>2. ASSUME NEW q \in Req, Sets(q)
        PROVE  Undisturbed(c, r)
    BY <2>2 DEF Sets, SetConfig, SetConfigErr, Gucs
  <2>3. ASSUME NEW q \in Req, Fn(q)
        PROVE  Undisturbed(c, r)
    <3>1. CASE FnRead(q) \/ FnReturn(q)
      BY <3>1 DEF FnRead, FnReturn, FnOk, FnErr, FnPanic
    <3>2. ASSUME NEW t \in Tenant, FnWrite(q, t)
          PROVE  Undisturbed(c, r)
      <4>1. CASE q = r
        <5> SUFFICES ASSUME holder[c] = r, wrote'[r] = wrote[r]
                     PROVE  pending'[c] = pending[c] /\ guc'[c] = guc[c]
                            /\ holder'[c] = r /\ tx'[c] \in {tx[c], "aborted"}
          OBVIOUS
        <5> DEFINE w == Row(r, t, guc[c])
        <5>1. handle[r] = c /\ pending[c] = wrote[r]
          BY <3>2, <4>1 DEF FnWrite, RowsSigned
        <5>2. CASE RowVisible(guc[c], t)
          <6>1. wrote'[r] = wrote[r] \cup {w} /\ pending'[c] = pending[c] \cup {w}
            BY <3>2, <4>1, <5>1, <5>2 DEF FnWrite
          <6>2. pending'[c] = pending[c]
            BY <5>1, <6>1, Zenon
          <6> QED BY <3>2, <4>1, <5>1, <5>2, <6>2 DEF FnWrite
        <5>3. CASE ~RowVisible(guc[c], t)
          BY <3>2, <4>1, <5>1, <5>3 DEF FnWrite
        <5> QED BY <5>2, <5>3
      <4>2. CASE q # r
        BY <3>2, <4>2 DEF FnWrite
      <4> QED BY <4>1, <4>2
    <3> QED BY <2>3, <3>1, <3>2 DEF Fn
  <2>4. ASSUME NEW q \in Req, Commits(q) \/ Rollback(q)
        PROVE  Undisturbed(c, r)
    BY <2>4 DEF Commits, CommitOk, CommitErr, Rollback
  <2>5. ASSUME NEW d \in Conn, ConnLost(d)
        PROVE  Undisturbed(c, r)
    BY <2>5 DEF ConnLost
  <2>6. CASE UNCHANGED vars
    BY <2>6 DEF vars
  <2> QED BY <2>1, <2>2, <2>3, <2>4, <2>5, <2>6 DEF Next, Step
<1>2. IInv /\ [Next]_vars =>
        [\A c \in Conn, r \in Req : Undisturbed(c, r)]_vars
  BY <1>1
<1> QED BY <1>2, Invariance, PTL DEF Spec, NoCrossRequestEffect

-----------------------------------------------------------------------------
(* The abstract unit of work. *)

\* Changing one outcome changes one verdict.
LEMMA VerdictUpdate ==
  ASSUME NEW r \in Req, NEW o, outcome \in [Req -> Outcomes],
         outcome' = [outcome EXCEPT ![r] = o]
  PROVE  verdict' = [verdict EXCEPT ![r] = Verdict(o)]
BY DEF verdict

LEMMA VerdictSame == outcome' = outcome => verdict' = verdict
BY DEF verdict

\* Both specifications read a context in the same way.
LEMMA SameContext ==
  ASSUME NEW c
  PROVE  /\ Work!Scope(c) = Scope(c)
         /\ Work!validateTenantContext(c) = validateTenantContext(c)
BY DEF Work!Scope, Scope, Work!MasterVisaoGlobal, MasterVisaoGlobal,
       Work!validateTenantContext, validateTenantContext

\* The rows a call has written are rows its context may sign.
LEMMA WroteSigned ==
  ASSUME IInv, NEW r \in Req
  PROVE  wrote[r] \subseteq Work!Signed(r, ctx[r])
<1> SUFFICES ASSUME NEW w \in wrote[r]
             PROVE  w \in Work!Signed(r, ctx[r])
  OBVIOUS
<1>1. w \in RowType
  BY DEF IInv, TypeOK
<1>2. /\ w.req = r
      /\ w.tenant \in Scope(ctx[r])
      /\ w.audTenant = ctx[r].actedAsTenant
      /\ w.audAs = ctx[r].actedAsUser
      /\ w.audBy = ctx[r].actedByUser
  BY DEF IInv, RowsSigned
<1>3. w = [tenant |-> w.tenant, req |-> w.req, audTenant |-> w.audTenant,
           audAs |-> w.audAs, audBy |-> w.audBy]
  BY <1>1 DEF RowType
<1> QED BY <1>2, <1>3, SameContext DEF Work!Signed

\* A call that has not ended is undecided for the abstract unit of work too.
LEMMA Undecided ==
  ASSUME IInv, NEW r \in Req,
         pc[r] \in {"idle", "begin", "set", "fn", "commit"}
  PROVE  verdict[r] = "none"
BY DEF IInv, CtxChecked, verdict, Verdict

\* An error before the commit is a failure without a trace.
LEMMA FailStep ==
  ASSUME IInv, NEW r \in Req,
         pc[r] \in {"idle", "begin", "set", "fn", "commit"},
         NEW o \in Outcomes \ {"none", "ok", "err_commit"},
         outcome' = [outcome EXCEPT ![r] = o],
         UNCHANGED <<ctx, seen, rows>>
  PROVE  Work!Next
<1>1. verdict' = [verdict EXCEPT ![r] = "falhou"]
  BY VerdictUpdate DEF IInv, TypeOK, Verdict, Outcomes
<1> QED BY <1>1, Undecided DEF Work!Next, Work!Fail

\* Every step maps to an abstract step or to none.
LEMMA StepRefines ==
  ASSUME IInv, IInv', NEW r \in Req, Step(r)
  PROVE  Work!Next \/ UNCHANGED <<ctx, seen, verdict, rows>>
<1>1. CASE CallPoolNil(r)
  BY <1>1, FailStep DEF CallPoolNil, Outcomes
<1>2. ASSUME NEW c \in Contexts, Call(r, c)
      PROVE  Work!Next
  <2>1. verdict[r] = "none" /\ ctx[r] = NoCtx
    BY <1>2, Undecided DEF Call, IInv, CtxChecked
  <2>2. verdict' = [verdict EXCEPT ![r] = Verdict(Refusal(c))]
    BY <1>2, VerdictUpdate DEF Call, IInv, TypeOK
  <2>3. CASE Refusal(c) = "none"
    <3>1. c # NoCtx /\ validateTenantContext(c)
      BY <2>3 DEF Refusal
    <3>2. verdict' = verdict
      BY <2>1, <2>2, <2>3 DEF verdict, Verdict
    <3>3. Work!Admit(r, c)
      BY <1>2, <2>1, <3>1, <3>2, SameContext DEF Call, Work!Admit
    <3> QED BY <3>3 DEF Work!Next
  <2>4. CASE Refusal(c) # "none"
    <3>1. Verdict(Refusal(c)) = "falhou"
      BY <2>4 DEF Refusal, Verdict
    <3>2. Work!Refuse(r, c)
      BY <1>2, <2>1, <2>2, <3>1 DEF Call, Work!Refuse
    <3> QED BY <3>2 DEF Work!Next
  <2> QED BY <2>3, <2>4
<1>3. ASSUME NEW c \in Conn, DirectQuery(r, c)
      PROVE  Work!Next
  <2>1. ctx[r] = NoCtx /\ seen[r] = {} /\ ctx' = ctx /\ rows' = rows
    BY <1>3 DEF DirectQuery, IInv, CtxChecked
  <2>2. seen'[r] = {}
    BY <2>1 DEF IInv, ReadsInScope, Scope
  <2>3. seen' = seen
    <3>1. \A q \in Req : seen'[q] = seen[q]
      BY <1>3, <2>1, <2>2 DEF DirectQuery, IInv, TypeOK
    <3> QED BY <3>1 DEF IInv, TypeOK
  <2> QED BY <1>3, <2>1, <2>3, FailStep DEF DirectQuery, Outcomes
<1>4. CASE BeginErr(r) \/ SetConfigErr(r) \/ FnErr(r) \/ FnPanic(r)
  BY <1>4, FailStep DEF BeginErr, SetConfigErr, FnErr, FnPanic, Outcomes
<1>5. ASSUME \/ \E c \in Conn : Begin(r, c)
             \/ SetConfig(r) \/ (\E t \in Tenant : FnWrite(r, t))
             \/ FnOk(r) \/ Rollback(r)
      PROVE  UNCHANGED <<ctx, seen, verdict, rows>>
  BY <1>5, VerdictSame DEF Begin, SetConfig, FnWrite, FnOk, Rollback
<1>6. CASE FnRead(r)
  <2> DEFINE T == {w.tenant : w \in {x \in rows \cup pending[handle[r]] :
                                       RowVisible(guc[handle[r]], x.tenant)}}
  <2>1. seen' = [seen EXCEPT ![r] = @ \cup T] /\ UNCHANGED <<ctx, rows, outcome>>
    BY <1>6 DEF FnRead
  <2> HIDE DEF T
  <2>2. T \subseteq seen'[r]
    BY <2>1 DEF IInv, TypeOK
  <2>3. T \subseteq Scope(ctx[r]) /\ T \in SUBSET Tenant
    BY <2>1, <2>2 DEF IInv, TypeOK, ReadsInScope
  <2>4. verdict[r] = "none"
    BY <1>6, Undecided DEF FnRead
  <2>5. Work!Read(r, T)
    BY <2>1, <2>3, <2>4, VerdictSame, SameContext DEF Work!Read
  <2> QED BY <2>3, <2>5 DEF Work!Next
<1>7. ASSUME Commits(r)
      PROVE  Work!Next
  <2> DEFINE W == wrote[r]
  <2>1. verdict[r] = "none" /\ ctx[r] # NoCtx /\ handle[r] \in Conn
    BY <1>7, Undecided DEF Commits, CommitOk, CommitErr, IInv, CtxChecked,
                           HandleHeld
  <2>2. W \in SUBSET Work!Signed(r, ctx[r])
    BY WroteSigned
  <2>3. tx[handle[r]] = "open" => pending[handle[r]] = W
    BY <1>7 DEF Commits, CommitOk, CommitErr, IInv, RowsSigned
  <2>4. CASE CommitOk(r)
    <3>1. verdict' = [verdict EXCEPT ![r] = "ok"]
      BY <2>4, VerdictUpdate DEF CommitOk, IInv, TypeOK, Verdict
    <3>2. rows' = rows \cup W /\ UNCHANGED <<ctx, seen>>
      BY <2>3, <2>4 DEF CommitOk
    <3>3. Work!Succeed(r, W)
      BY <2>1, <2>2, <3>1, <3>2 DEF Work!Succeed
    <3> QED BY <2>1, <2>2, <3>3 DEF Work!Next
  <2>5. CASE CommitErr(r)
    <3>1. verdict' = [verdict EXCEPT ![r] = "incerto"]
      BY <2>5, VerdictUpdate DEF CommitErr, IInv, TypeOK, Verdict
    <3>2. rows' \in {rows, rows \cup W} /\ UNCHANGED <<ctx, seen>>
      BY <2>3, <2>5 DEF CommitErr
    <3>3. Work!Unsure(r, W)
      BY <2>1, <2>2, <3>1, <3>2 DEF Work!Unsure
    <3> QED BY <2>1, <2>2, <3>3 DEF Work!Next
  <2> QED BY <1>7, <2>4, <2>5 DEF Commits
<1> QED BY <1>1, <1>2, <1>3, <1>4, <1>5, <1>6, <1>7
        DEF Step, Start, Begins, Sets, Fn, FnReturn

\* withTenantContextOn over pooled connections, with the failures of every
\* call it makes, implements the atomic unit of work in its own scope.
THEOREM Refinement == Spec => ImplementsScopedWork
<1>1. Init => Work!Init
  BY DEF Init, Work!Init, verdict, Verdict
<1>2. ASSUME IInv, IInv', [Next]_vars
      PROVE  [Work!Next]_(Work!vars)
  <2>1. ASSUME NEW c \in Conn, ConnLost(c)
        PROVE  UNCHANGED <<ctx, seen, verdict, rows>>
    BY <2>1, VerdictSame DEF ConnLost, reqVars
  <2>2. CASE UNCHANGED vars
    BY <2>2, VerdictSame DEF vars, Work!vars
  <2> QED BY <1>2, <2>1, <2>2, StepRefines DEF Next, Work!vars
<1> QED BY <1>1, <1>2, Invariance, PTL DEF Spec, ImplementsScopedWork, Work!Spec

-----------------------------------------------------------------------------
(* Calls nested in the callbacks of other calls, whatever the nesting and the
   deadlines. *)

\* Nesting only adds guards: what holds of every behaviour of the pool holds of
\* those with nested calls.
LEMMA NestingAddsGuards == NestedSpec => Spec
<1>1. [NestedNext]_vars => [Next]_vars
  <2>1. ASSUME NEW r \in Req, StepNested(r)
        PROVE  Step(r)
    BY <2>1 DEF StepNested, StartNested, FnNested, Step
  <2> QED BY <2>1 DEF NestedNext, Next
<1> QED BY <1>1, PTL DEF NestedSpec, Spec

\* A nested call reads in the scope of its own context, has its own connection
\* and reports its own rows, and so does the call around it.
THEOREM NestedIsolation ==
  NestedSpec => [](ReadsInScope /\ PoolSound /\ OutcomeHonest /\ AuditFaithful)
BY NestingAddsGuards, TenantIsolation, PoolDiscipline, Atomicity, AuditTrail, PTL
=============================================================================
