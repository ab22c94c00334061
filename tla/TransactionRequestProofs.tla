---------------------- MODULE TransactionRequestProofs ----------------------
(***************************************************************************)
(* A request is owned from its consumption to its outcome, and leaves the  *)
(* wallet at most once, for any number of requests, surfaces, revocations, *)
(* resets and restarts, and with storage calls that throw.                 *)
(***************************************************************************)
EXTENDS TransactionRequest, TLAPS

USE NoneIsNoToken, RequestAssumption

\* A surface at work, as the handler that owns the claim or as the processor
\* that owns the lease.
Busy(s) == op[s].pc # "idle"
Resolves(o) ==
  \/ o.pc \in HandlerSteps \union RejectSteps \union {"threw"}
  \/ o.pc \in AuthorizationSteps /\ o.stage = 1
Processes(o) ==
  \/ o.pc \in ProcessorSteps
  \/ o.pc \in AuthorizationSteps /\ o.stage \in {2, 3}

Held(s) ==
  /\ op[s].tx \in Requests
  /\ \/ /\ Resolves(op[s])
        /\ claims[op[s].tx] = s /\ externalClaims[op[s].tx] = None
     \/ /\ Processes(op[s])
        /\ claims[op[s].tx] \in {None, s} /\ externalClaims[op[s].tx] = s

\* Every owner of a table entry is a call at work on that request, and every call
\* at work owns its request.
SurfacesOwn ==
  /\ \A s \in Surfaces : Busy(s) => Held(s)
  /\ \A s \in Surfaces, t \in Requests :
       claims[t] = s \/ externalClaims[t] = s => Busy(s) /\ op[s].tx = t
  /\ \A t \in Requests : externalClaims[t] \in Surfaces \union {None}

RevokersOwn ==
  \A v \in Revokers :
    /\ \A t \in revoker[v].mine : claims[t] = v
    /\ revoker[v].removed \subseteq revoker[v].mine
    /\ revoker[v].pc \notin {"expire", "threw"} => revoker[v].mine = {}

\* The barrier is up exactly while a reset is at work, and then nobody else is.
BarrierOwn ==
  /\ walletResetClaim = TRUE <=> reset # "idle"
  /\ walletResetClaim = TRUE =>
       \A t \in Requests : claims[t] = None /\ externalClaims[t] = None

Ownership == SurfacesOwn /\ RevokersOwn /\ BarrierOwn

\* Nothing was sent yet for a request at one of these steps, and its prompt is
\* gone from the later ones on.
UnsentSteps == {"preflight", "consume", "rejectRemove", "rejectWrite", "deny",
                "failHistory", "failResult"} \union ApprovedSteps
GoneSteps == {"rejectWrite", "deny", "failHistory", "failResult"} \union ApprovedSteps

NewRequests == {t \in Requests : intake[t] \in {"idle", "authorize", "account", "save"}}

SendsOnce ==
  /\ \A t \in NewRequests : sent[t] = 0 /\ t \notin pending
  /\ \A s \in Surfaces : Busy(s) => op[s].tx \notin NewRequests
  /\ \A t \in pending : sent[t] = 0
  /\ \A s \in Surfaces : op[s].pc \in UnsentSteps => sent[op[s].tx] = 0
  /\ \A s \in Surfaces : op[s].pc \in GoneSteps => op[s].tx \notin pending
  /\ \A t \in Requests : sent[t] \in {0, 1}

\* Signing and the last check happen under the operation lock, with the account still there.
LastCheck(s) == op[s].pc \in {"gate", "permission", "decide"} /\ op[s].stage = 3
SignsUnderLock ==
  \A s \in Surfaces :
    /\ op[s].pc \in {"sign", "account"} \/ LastCheck(s) => operationLock = s
    /\ LastCheck(s) => AccountOf[op[s].tx] \in accounts

SInv == Ownership /\ SendsOnce /\ SignsUnderLock

-----------------------------------------------------------------------------
(* What the operations on one surface's call do.                             *)

PCs == {"idle", "threw"} \union HandlerSteps \union RejectSteps
         \union AuthorizationSteps \union ProcessorSteps

LEMMA OpFields ==
  ASSUME TypeOK, NEW s \in Surfaces
  PROVE  /\ op[s] \in OpType
         /\ op[s].pc \in PCs /\ op[s].tx \in Requests \union {None} /\ op[s].stage \in 0..3
         /\ op[s].epoch \in 0..MaxRevocations /\ op[s].seen \in BOOLEAN
BY DEF TypeOK, OpType, PCs

LEMMA IdleOpFields ==
  /\ IdleOp \in OpType
  /\ IdleOp.pc = "idle" /\ IdleOp.tx = None /\ IdleOp.stage = 0
BY DEF IdleOp, OpType

LEMMA GotoFacts ==
  ASSUME TypeOK, NEW s \in Surfaces, NEW pc \in PCs, Goto(s, pc)
  PROVE  /\ op' \in [Surfaces -> OpType]
         /\ op'[s].pc = pc /\ op'[s].tx = op[s].tx /\ op'[s].stage = op[s].stage
         /\ op'[s].epoch = op[s].epoch /\ op'[s].seen = op[s].seen
         /\ \A r \in Surfaces : r # s => op'[r] = op[r]
<1>1. op \in [Surfaces -> OpType] /\ op[s] \in OpType
  BY DEF TypeOK
<1>2. op' = [op EXCEPT ![s] = [op[s] EXCEPT !.pc = pc]]
  BY <1>1 DEF Goto
<1>3. [op[s] EXCEPT !.pc = pc] \in OpType
  BY <1>1 DEF OpType, PCs
<1> QED
  BY <1>1, <1>2, <1>3 DEF OpType

BeginCheck(s, n) == op' = [op EXCEPT ![s].pc = "gate", ![s].stage = n]

LEMMA CheckFacts ==
  ASSUME TypeOK, NEW s \in Surfaces, NEW n \in 0..3, BeginCheck(s, n)
  PROVE  /\ op' \in [Surfaces -> OpType]
         /\ op'[s].pc = "gate" /\ op'[s].tx = op[s].tx /\ op'[s].stage = n
         /\ \A r \in Surfaces : r # s => op'[r] = op[r]
<1>1. op \in [Surfaces -> OpType] /\ op[s] \in OpType
  BY DEF TypeOK
<1>2. op' = [op EXCEPT ![s] = [op[s] EXCEPT !.pc = "gate", !.stage = n]]
  BY <1>1 DEF BeginCheck
<1>3. [op[s] EXCEPT !.pc = "gate", !.stage = n] \in OpType
  BY <1>1 DEF OpType, AuthorizationSteps
<1> QED
  BY <1>1, <1>2, <1>3 DEF OpType

LEMMA IdleFacts ==
  ASSUME TypeOK, NEW s \in Surfaces, Idle(s)
  PROVE  /\ op' \in [Surfaces -> OpType]
         /\ op'[s] = IdleOp
         /\ \A r \in Surfaces : r # s => op'[r] = op[r]
BY IdleOpFields DEF Idle, TypeOK

LEMMA ReleaseFacts ==
  ASSUME TypeOK, NEW who \in Tokens, NEW t \in Requests, ReleaseClaims(who, {t})
  PROVE  /\ claims' \in [Keys -> Tokens \union {None}]
         /\ claims[t] \in {who, None} => claims'[t] = None
         /\ \A k \in Requests : k # t => claims'[k] = claims[k]
         /\ externalClaims' = externalClaims /\ walletResetClaim' = walletResetClaim
BY DEF ReleaseClaims, TypeOK, ClaimsTypeOK, Requests

-----------------------------------------------------------------------------
(* A step of a busy surface touches its own request only.                    *)

SurfaceStep(s) ==
  /\ Busy(s)
  /\ \A r \in Surfaces : r # s => op'[r] = op[r]
  /\ \A t \in Requests : t # op[s].tx =>
       /\ claims'[t] = claims[t] /\ externalClaims'[t] = externalClaims[t]
       /\ sent'[t] = sent[t] /\ (t \in pending' <=> t \in pending)
       /\ txResult'[t] = txResult[t]
  /\ UNCHANGED <<walletResetClaim, permission, accounts, dapp, revoking, revocationEpoch, overlapped,
                 workerLife, resets, intake, revoker, reset, cleanup>>

\* What the step must show of its own request, for each part of the invariant.
KeepsOwnership(s) ==
  \/ /\ op'[s].pc = "idle"
     /\ claims'[op[s].tx] = None /\ externalClaims'[op[s].tx] = None
  \/ op'[s].tx = op[s].tx /\ Busy(s)' /\ Held(s)'

KeepsSending(s) ==
  /\ op'[s].tx = op[s].tx \/ op'[s].pc = "idle"
  /\ pending' \subseteq pending
  /\ \/ sent'[op[s].tx] = sent[op[s].tx]
     \/ op[s].pc \in ApprovedSteps /\ op'[s].pc \notin UnsentSteps
        /\ sent'[op[s].tx] = sent[op[s].tx] + 1
  /\ op'[s].pc \in UnsentSteps => sent[op[s].tx] = 0 /\ sent' = sent
  /\ op'[s].pc \in GoneSteps => op[s].tx \notin pending'

KeepsLock(s) ==
  /\ operationLock \in Surfaces /\ operationLock # s => operationLock' = operationLock
  /\ op'[s].pc \in {"sign", "account"} \/ LastCheck(s)' => operationLock' = s
  /\ LastCheck(s)' => AccountOf[op'[s].tx] \in accounts

Local(s) == TypeOK' /\ SurfaceStep(s) /\ KeepsOwnership(s) /\ KeepsSending(s) /\ KeepsLock(s)

LEMMA Alone ==
  ASSUME Ownership, TypeOK, NEW s \in Surfaces, NEW r \in Surfaces, Busy(s), Busy(r),
         op[s].tx = op[r].tx
  PROVE  s = r
BY DEF Ownership, SurfacesOwn, Held

LEMMA BusyFacts ==
  ASSUME Ownership, TypeOK, NEW s \in Surfaces, Busy(s)
  PROVE  /\ op[s].tx \in Requests /\ walletResetClaim = FALSE /\ reset = "idle"
         /\ claims[op[s].tx] \in {None, s} /\ externalClaims[op[s].tx] \in {None, s}
         /\ claims[op[s].tx] = s \/ externalClaims[op[s].tx] = s
<1>1. Held(s)
  BY DEF Ownership, SurfacesOwn
<1>2. s # None
  OBVIOUS
<1>3. walletResetClaim \in BOOLEAN
  BY DEF TypeOK, ClaimsTypeOK
<1>4. walletResetClaim # TRUE
  BY <1>1, <1>2 DEF Held, Ownership, BarrierOwn
<1> QED
  BY <1>1, <1>3, <1>4 DEF Held, Ownership, BarrierOwn

LEMMA LocalOwnership ==
  ASSUME Ownership, TypeOK, NEW s \in Surfaces, Local(s)
  PROVE  Ownership'
<1> DEFINE x == op[s].tx
<1>1. /\ Busy(s) /\ x \in Requests /\ walletResetClaim' = FALSE /\ reset' = "idle"
      /\ claims[x] \in {None, s} /\ externalClaims[x] \in {None, s}
  BY BusyFacts DEF Local, SurfaceStep
<1>2. SurfacesOwn'
  <2>1. ASSUME NEW r \in Surfaces, Busy(r)' PROVE Held(r)'
    <3>1. CASE r = s
      BY <2>1, <3>1 DEF Local, KeepsOwnership, Busy
    <3>2. CASE r # s
      <4>1. op'[r] = op[r] /\ Busy(r) /\ Held(r)
        BY <2>1, <3>2 DEF Local, SurfaceStep, Busy, Ownership, SurfacesOwn
      <4>2. op[r].tx # x
        BY <1>1, <3>2, <4>1, Alone
      <4> QED
        BY <4>1, <4>2 DEF Local, SurfaceStep, Held, Resolves, Processes
    <3> QED
      BY <3>1, <3>2
  <2>2. ASSUME NEW r \in Surfaces, NEW t \in Requests,
               claims'[t] = r \/ externalClaims'[t] = r
        PROVE  Busy(r)' /\ op'[r].tx = t
    <3>1. CASE t = x
      <4>1. claims'[x] \in {None, s} /\ externalClaims'[x] \in {None, s}
        BY DEF Local, KeepsOwnership, Held
      <4>2. r = s
        BY <2>2, <3>1, <4>1
      <4>3. op'[s].tx = x /\ Busy(s)'
        BY <2>2, <3>1, <4>2 DEF Local, KeepsOwnership
      <4> QED
        BY <3>1, <4>2, <4>3
    <3>2. CASE t # x
      <4>1. Busy(r) /\ op[r].tx = t
        BY <2>2, <3>2 DEF Local, SurfaceStep, Ownership, SurfacesOwn
      <4>2. r # s
        BY <3>2, <4>1
      <4> QED
        BY <4>1, <4>2 DEF Local, SurfaceStep, Busy
    <3> QED
      BY <3>1, <3>2
  <2>3. ASSUME NEW t \in Requests PROVE externalClaims'[t] \in Surfaces \union {None}
    <3>1. CASE t = x
      BY <3>1 DEF Local, KeepsOwnership, Held
    <3>2. CASE t # x
      BY <3>2 DEF Local, SurfaceStep, Ownership, SurfacesOwn
    <3> QED
      BY <3>1, <3>2
  <2> QED
    BY <2>1, <2>2, <2>3 DEF SurfacesOwn
<1>3. RevokersOwn'
  <2>1. ASSUME NEW v \in Revokers, NEW t \in revoker[v].mine PROVE claims'[t] = v
    <3>1. claims[t] = v /\ v # s /\ v # None
      BY <2>1 DEF Ownership, RevokersOwn
    <3>2. t \in Requests
      BY <2>1 DEF TypeOK, RevokerType
    <3> QED
      BY <1>1, <3>1, <3>2 DEF Local, SurfaceStep
  <2> QED
    BY <2>1 DEF RevokersOwn, Ownership, Local, SurfaceStep
<1> QED
  BY <1>1, <1>2, <1>3 DEF Ownership, BarrierOwn

LEMMA LocalSending ==
  ASSUME Ownership, SendsOnce, TypeOK, NEW s \in Surfaces, Local(s)
  PROVE  SendsOnce'
<1> DEFINE x == op[s].tx
<1>1. Busy(s) /\ x \in Requests /\ x \notin NewRequests /\ NewRequests' = NewRequests
  BY BusyFacts DEF Local, SurfaceStep, SendsOnce, NewRequests
<1>2. pending' \subseteq pending /\ pending \subseteq Requests
  BY DEF Local, KeepsSending, TypeOK
<1>3. sent'[x] \in {0, 1}
  <2>1. op[s].pc \in ApprovedSteps => sent[x] = 0
    BY DEF SendsOnce, UnsentSteps
  <2> QED
    BY <1>1, <2>1 DEF Local, KeepsSending, SendsOnce
<1>4. ASSUME NEW t \in NewRequests PROVE sent'[t] = 0 /\ t \notin pending'
  <2>1. t \in Requests /\ t # x
    BY <1>1, <1>4 DEF NewRequests
  <2> QED
    BY <1>2, <1>4, <2>1 DEF Local, SurfaceStep, SendsOnce
<1>5. ASSUME NEW r \in Surfaces, Busy(r)' PROVE op'[r].tx \notin NewRequests
  <2>1. CASE r = s
    BY <1>1, <1>5, <2>1 DEF Local, KeepsSending, Busy
  <2>2. CASE r # s
    BY <1>5, <2>2 DEF Local, SurfaceStep, SendsOnce, Busy
  <2> QED
    BY <2>1, <2>2
<1>6. ASSUME NEW t \in pending' PROVE sent'[t] = 0
  <2>1. CASE t = x
    <3>1. sent[x] = 0 /\ op[s].pc \notin ApprovedSteps
      BY <1>2, <1>6, <2>1 DEF SendsOnce, GoneSteps
    <3> QED
      BY <2>1, <3>1 DEF Local, KeepsSending
  <2>2. CASE t # x
    BY <1>2, <1>6, <2>2 DEF Local, SurfaceStep, SendsOnce
  <2> QED
    BY <2>1, <2>2
<1>7. ASSUME NEW r \in Surfaces
      PROVE  /\ op'[r].pc \in UnsentSteps => sent'[op'[r].tx] = 0
             /\ op'[r].pc \in GoneSteps => op'[r].tx \notin pending'
  <2>1. CASE r = s
    <3>1. op'[s].pc \in UnsentSteps \union GoneSteps => op'[s].tx = x
      BY DEF Local, KeepsSending, UnsentSteps, GoneSteps, ApprovedSteps
    <3> QED
      BY <2>1, <3>1 DEF Local, KeepsSending
  <2>2. CASE r # s /\ op[r].pc = "idle"
    <3>1. op'[r].pc = "idle"
      BY <2>2 DEF Local, SurfaceStep
    <3> QED
      BY <3>1 DEF UnsentSteps, GoneSteps, ApprovedSteps
  <2>3. CASE r # s /\ op[r].pc # "idle"
    <3>1. op[r].tx # x /\ op[r].tx \in Requests /\ op'[r] = op[r]
      BY <1>1, <2>3, Alone, BusyFacts DEF Busy, Local, SurfaceStep
    <3> QED
      BY <3>1 DEF Local, SurfaceStep, SendsOnce
  <2> QED
    BY <2>1, <2>2, <2>3
<1>8. ASSUME NEW t \in Requests PROVE sent'[t] \in {0, 1}
  BY <1>3 DEF Local, SurfaceStep, SendsOnce
<1> QED
  BY <1>1, <1>4, <1>5, <1>6, <1>7, <1>8 DEF SendsOnce

LEMMA LocalLock ==
  ASSUME SignsUnderLock, TypeOK, NEW s \in Surfaces, Local(s)
  PROVE  SignsUnderLock'
<1> SUFFICES ASSUME NEW r \in Surfaces
             PROVE  /\ op'[r].pc \in {"sign", "account"} \/ LastCheck(r)' => operationLock' = r
                    /\ LastCheck(r)' => AccountOf[op'[r].tx] \in accounts'
  BY DEF SignsUnderLock
<1>1. CASE r = s
  BY <1>1 DEF Local, KeepsLock, SurfaceStep
<1>2. CASE r # s
  <2>1. op'[r] = op[r] /\ accounts' = accounts
    BY <1>2 DEF Local, SurfaceStep
  <2>2. operationLock = r => operationLock' = r
    BY <1>2 DEF Local, KeepsLock
  <2> QED
    BY <2>1, <2>2 DEF SignsUnderLock, LastCheck
<1> QED
  BY <1>1, <1>2

IInv == TypeOK /\ SInv

-----------------------------------------------------------------------------
(* A surface that goes on with its request, and one that lets it go.         *)

DataStep(s) ==
  /\ pending' \in {pending, pending \ {op[s].tx}}
  /\ txResult' = txResult \/ \E r \in Results : WriteResult(op[s].tx, r)
  /\ history' = history \/ \E h \in {"processing", "pending", "failed"} : SetHistory(op[s].tx, h)
  /\ sent' = sent \/ sent' = [sent EXCEPT ![op[s].tx] = @ + 1]
  /\ operationLock' \in {operationLock, None, s}
  /\ processingTxIds' \subseteq Requests
  /\ UNCHANGED surfaceFrame

LEMMA DataStepFacts ==
  ASSUME IInv, NEW s \in Surfaces, Busy(s), DataStep(s),
         op' \in [Surfaces -> OpType], ClaimsTypeOK'
  PROVE  /\ TypeOK'
         /\ \A t \in Requests : t # op[s].tx =>
              sent'[t] = sent[t] /\ (t \in pending' <=> t \in pending) /\ txResult'[t] = txResult[t]
<1>1. op[s].tx \in Requests
  BY BusyFacts DEF IInv, SInv
<1>2. /\ txResult' \in [Requests -> Results \union {"none"}]
      /\ \A t \in Requests : t # op[s].tx => txResult'[t] = txResult[t]
  BY <1>1 DEF DataStep, WriteResult, IInv, TypeOK
<1>3. history' \in [Requests -> {"none", "processing", "pending", "failed"}]
  BY <1>1 DEF DataStep, SetHistory, IInv, TypeOK
<1>4. /\ sent' \in [Requests -> Nat]
      /\ \A t \in Requests : t # op[s].tx => sent'[t] = sent[t]
  BY <1>1 DEF DataStep, IInv, TypeOK
<1>5. /\ pending' \subseteq Requests
      /\ \A t \in Requests : t # op[s].tx => (t \in pending' <=> t \in pending)
  BY DEF DataStep, IInv, TypeOK
<1>6. operationLock' \in Surfaces \union {None, "reset"} /\ processingTxIds' \subseteq Requests
  BY DEF DataStep, IInv, TypeOK
<1>7. TypeOK'
  BY <1>2, <1>3, <1>4, <1>5, <1>6 DEF DataStep, surfaceFrame, gateVars, boundVars, IInv, TypeOK
<1> QED
  BY <1>2, <1>4, <1>5, <1>7

LEMMA Exclusive ==
  ASSUME NEW s \in Surfaces PROVE ~(Resolves(op[s]) /\ Processes(op[s])) /\ (Resolves(op[s]) \/ Processes(op[s]) => Busy(s))
BY DEF Resolves, Processes, Busy, HandlerSteps, RejectSteps, AuthorizationSteps, ProcessorSteps

LEMMA MoveOn ==
  ASSUME IInv, NEW s \in Surfaces, Busy(s), DataStep(s), UNCHANGED claimVars,
         op' \in [Surfaces -> OpType], op'[s].tx = op[s].tx,
         \A r \in Surfaces : r # s => op'[r] = op[r],
         (Resolves(op[s]) /\ Resolves(op'[s])) \/ (Processes(op[s]) /\ Processes(op'[s]))
  PROVE  TypeOK' /\ SurfaceStep(s) /\ KeepsOwnership(s)
<1>1. ClaimsTypeOK'
  BY DEF IInv, TypeOK, ClaimsTypeOK, claimVars
<1>2. TypeOK' /\ SurfaceStep(s)
  BY <1>1, DataStepFacts DEF SurfaceStep, DataStep, surfaceFrame, gateVars, boundVars, claimVars
<1>3. Held(s) /\ Busy(s)'
  BY Exclusive DEF IInv, SInv, Ownership, SurfacesOwn, Busy, Resolves, Processes,
     HandlerSteps, RejectSteps, AuthorizationSteps, ProcessorSteps
<1>4. Held(s)'
  BY <1>3, Exclusive DEF Held, claimVars
<1> QED
  BY <1>2, <1>3, <1>4 DEF KeepsOwnership

LEMMA LetGo ==
  ASSUME IInv, NEW s \in Surfaces, Resolves(op[s]), DataStep(s), Fulfil(s)
  PROVE  TypeOK' /\ SurfaceStep(s) /\ KeepsOwnership(s) /\ op'[s].pc = "idle"
<1>1. Busy(s) /\ Held(s)
  BY Exclusive DEF IInv, SInv, Ownership, SurfacesOwn
<1>2. /\ op[s].tx \in Requests /\ claims[op[s].tx] = s /\ externalClaims[op[s].tx] = None
      /\ s \in Tokens
  BY <1>1, Exclusive DEF Held
<1>3. /\ op' \in [Surfaces -> OpType] /\ op'[s].pc = "idle" /\ op'[s] = IdleOp
      /\ \A r \in Surfaces : r # s => op'[r] = op[r]
  BY IdleFacts, IdleOpFields DEF Fulfil, IInv
<1>4. /\ claims' \in [Keys -> Tokens \union {None}]
      /\ claims'[op[s].tx] = None
      /\ \A k \in Requests : k # op[s].tx => claims'[k] = claims[k]
      /\ externalClaims' = externalClaims /\ walletResetClaim' = walletResetClaim
  BY <1>2, ReleaseFacts DEF Fulfil, Tx, IInv
<1>5. ClaimsTypeOK'
  BY <1>4 DEF IInv, TypeOK, ClaimsTypeOK
<1>6. TypeOK' /\ SurfaceStep(s)
  BY <1>1, <1>3, <1>4, <1>5, DataStepFacts DEF SurfaceStep, DataStep, surfaceFrame, gateVars, boundVars
<1> QED
  BY <1>2, <1>3, <1>4, <1>6 DEF KeepsOwnership

\* A surface that is done leaves nothing to show about its request but the data.
LEMMA DoneLocal ==
  ASSUME IInv, NEW s \in Surfaces, Busy(s), op'[s].pc = "idle",
         sent' = sent, pending' \subseteq pending, operationLock' = operationLock
  PROVE  KeepsSending(s) /\ KeepsLock(s)
BY DEF KeepsSending, KeepsLock, LastCheck, UnsentSteps, GoneSteps, ApprovedSteps

-----------------------------------------------------------------------------
(* The shapes of a step.                                                     *)

\* One part of the steps of an owner to another.
SameOwner(o, pc) ==
  \/ Resolves(o) /\ pc \in HandlerSteps \union RejectSteps \union {"threw"}
  \/ Processes(o) /\ pc \in ProcessorSteps
  \/ o.pc \in AuthorizationSteps /\ pc \in AuthorizationSteps

LEMMA GotoOn ==
  ASSUME IInv, NEW s \in Surfaces, NEW pc \in PCs, Goto(s, pc), UNCHANGED claimVars,
         DataStep(s), Busy(s), SameOwner(op[s], pc)
  PROVE  /\ TypeOK' /\ SurfaceStep(s) /\ KeepsOwnership(s)
         /\ op'[s].pc = pc /\ op'[s].tx = op[s].tx /\ op'[s].stage = op[s].stage
<1>1. /\ op' \in [Surfaces -> OpType]
      /\ op'[s].pc = pc /\ op'[s].tx = op[s].tx /\ op'[s].stage = op[s].stage
      /\ \A r \in Surfaces : r # s => op'[r] = op[r]
  BY GotoFacts DEF IInv
<1>2. Resolves(op[s]) \/ Processes(op[s])
  BY DEF IInv, SInv, Ownership, SurfacesOwn, Held
<1>3. (Resolves(op[s]) /\ Resolves(op'[s])) \/ (Processes(op[s]) /\ Processes(op'[s]))
  BY <1>1, <1>2 DEF SameOwner, Resolves, Processes, HandlerSteps, RejectSteps, AuthorizationSteps,
     ProcessorSteps
<1> QED
  BY <1>1, <1>3, MoveOn

LEMMA CheckOn ==
  ASSUME IInv, NEW s \in Surfaces, NEW n \in {1, 2, 3},
         BeginCheck(s, n), UNCHANGED claimVars,
         DataStep(s), Busy(s),
         (Resolves(op[s]) /\ n = 1) \/ (Processes(op[s]) /\ n # 1)
  PROVE  /\ TypeOK' /\ SurfaceStep(s) /\ KeepsOwnership(s)
         /\ op'[s].pc = "gate" /\ op'[s].tx = op[s].tx /\ op'[s].stage = n
<1>1. n \in 0..3
  OBVIOUS
<1>2. /\ op' \in [Surfaces -> OpType]
      /\ op'[s].pc = "gate" /\ op'[s].tx = op[s].tx /\ op'[s].stage = n
      /\ \A r \in Surfaces : r # s => op'[r] = op[r]
  BY <1>1, CheckFacts DEF IInv
<1>3. (Resolves(op[s]) /\ Resolves(op'[s])) \/ (Processes(op[s]) /\ Processes(op'[s]))
  BY <1>2 DEF Resolves, Processes, AuthorizationSteps
<1> QED
  BY <1>2, <1>3, MoveOn

LEMMA SendingFrame ==
  ASSUME IInv, NEW s \in Surfaces, op'[s].tx = op[s].tx, sent' = sent, pending' \subseteq pending,
         op'[s].pc \in UnsentSteps => op[s].pc \in UnsentSteps \/ op[s].tx \in pending,
         op'[s].pc \in GoneSteps => op[s].pc \in GoneSteps \/ op[s].tx \notin pending'
  PROVE  KeepsSending(s)
BY DEF KeepsSending, IInv, SInv, SendsOnce

LEMMA LockFrame ==
  ASSUME NEW s \in Surfaces, op'[s].pc \notin {"sign", "account", "gate", "permission", "decide"},
         operationLock' = operationLock \/ UnlockIfHeld(s)
  PROVE  KeepsLock(s)
BY DEF KeepsLock, LastCheck, UnlockIfHeld

-----------------------------------------------------------------------------
(* The handlers of a surface.                                                *)

LEMMA LRejectRead == ASSUME IInv, NEW s \in Surfaces, RejectRead(s) PROVE Local(s)
<1>1. op[s].pc = "rejectRead" /\ Busy(s) /\ Resolves(op[s])
  BY DEF RejectRead, At, Busy, Resolves, HandlerSteps, RejectSteps, AuthorizationSteps, ProcessorSteps
<1>2. op[s].tx \in Requests
  BY <1>1, BusyFacts DEF IInv, SInv
<1>3. DataStep(s)
  BY <1>1, <1>2 DEF RejectRead, DataStep, WriteResult, SetHistory, UnlockIfHeld, GiveUp, Tx, Results, Denials,
     surfaceFrame, handlerFrame, processorFrame, authorizationFrame, IInv, TypeOK
<1>4. CASE Tx(s) \in pending /\ Goto(s, "rejectRemove") /\ UNCHANGED claimVars
  <2>1. Goto(s, "rejectRemove") /\ UNCHANGED claimVars
    BY <1>4, <1>1 DEF RejectRead, surfaceFrame, handlerFrame, processorFrame, authorizationFrame
  <2>2. SameOwner(op[s], "rejectRemove") /\ "rejectRemove" \in PCs
    BY <1>1 DEF SameOwner, PCs, HandlerSteps, RejectSteps, AuthorizationSteps, ProcessorSteps
  <2>3. /\ TypeOK' /\ SurfaceStep(s) /\ KeepsOwnership(s)
       /\ op'[s].pc = "rejectRemove" /\ op'[s].tx = op[s].tx
    BY <1>1, <1>3, <2>1, <2>2, GotoOn
  <2>4. KeepsSending(s)
    BY <1>4, <1>1, <2>3, SendingFrame DEF RejectRead, Tx, surfaceFrame, handlerFrame, processorFrame, authorizationFrame, UnsentSteps, GoneSteps, ApprovedSteps
  <2>5. KeepsLock(s)
    BY <1>4, <2>3, LockFrame DEF RejectRead, surfaceFrame, handlerFrame, processorFrame, authorizationFrame
  <2> QED
    BY <2>3, <2>4, <2>5 DEF Local
<1>5. CASE Fulfil(s)
  <2>1. Fulfil(s) /\ sent' = sent /\ pending' \subseteq pending /\ operationLock' = operationLock
    BY <1>5, <1>1 DEF RejectRead, GiveUp, UnlockIfHeld, surfaceFrame, handlerFrame, processorFrame, authorizationFrame
  <2> QED
    BY <1>1, <1>3, <2>1, LetGo, DoneLocal DEF Local
<1> QED
  BY <1>4, <1>5 DEF RejectRead

LEMMA LRejectRemove == ASSUME IInv, NEW s \in Surfaces, RejectRemove(s) PROVE Local(s)
<1>1. op[s].pc = "rejectRemove" /\ Busy(s) /\ Resolves(op[s])
  BY DEF RejectRemove, At, Busy, Resolves, HandlerSteps, RejectSteps, AuthorizationSteps, ProcessorSteps
<1>2. op[s].tx \in Requests
  BY <1>1, BusyFacts DEF IInv, SInv
<1>3. DataStep(s)
  BY <1>1, <1>2 DEF RejectRemove, DataStep, WriteResult, SetHistory, UnlockIfHeld, GiveUp, Tx, Results, Denials,
     surfaceFrame, handlerFrame, processorFrame, authorizationFrame, IInv, TypeOK
<1>4. Goto(s, "rejectWrite") /\ UNCHANGED claimVars
  BY <1>1 DEF RejectRemove, surfaceFrame, handlerFrame, processorFrame, authorizationFrame
<1>5. SameOwner(op[s], "rejectWrite") /\ "rejectWrite" \in PCs
  BY <1>1 DEF SameOwner, PCs, HandlerSteps, RejectSteps, AuthorizationSteps, ProcessorSteps
<1>6. /\ TypeOK' /\ SurfaceStep(s) /\ KeepsOwnership(s)
     /\ op'[s].pc = "rejectWrite" /\ op'[s].tx = op[s].tx
  BY <1>1, <1>3, <1>4, <1>5, GotoOn
<1>7. KeepsSending(s)
  BY <1>1, <1>6, SendingFrame DEF RejectRemove, Tx, surfaceFrame, handlerFrame, processorFrame, authorizationFrame, UnsentSteps, GoneSteps, ApprovedSteps
<1>8. KeepsLock(s)
  BY <1>6, LockFrame DEF RejectRemove, surfaceFrame, handlerFrame, processorFrame, authorizationFrame
<1> QED
  BY <1>6, <1>7, <1>8 DEF Local

LEMMA LRejectWrite == ASSUME IInv, NEW s \in Surfaces, RejectWrite(s) PROVE Local(s)
<1>1. op[s].pc = "rejectWrite" /\ Busy(s) /\ Resolves(op[s])
  BY DEF RejectWrite, At, Busy, Resolves, HandlerSteps, RejectSteps, AuthorizationSteps, ProcessorSteps
<1>2. op[s].tx \in Requests
  BY <1>1, BusyFacts DEF IInv, SInv
<1>3. DataStep(s)
  BY <1>1, <1>2 DEF RejectWrite, DataStep, WriteResult, SetHistory, UnlockIfHeld, GiveUp, Tx, Results, Denials,
     surfaceFrame, handlerFrame, processorFrame, authorizationFrame, IInv, TypeOK
<1>4. Fulfil(s) /\ sent' = sent /\ pending' \subseteq pending /\ operationLock' = operationLock
  BY DEF RejectWrite
<1> QED
  BY <1>1, <1>3, <1>4, LetGo, DoneLocal DEF Local

LEMMA LCheckProcessing == ASSUME IInv, NEW s \in Surfaces, CheckProcessing(s) PROVE Local(s)
<1>1. op[s].pc = "claimed" /\ Busy(s) /\ Resolves(op[s])
  BY DEF CheckProcessing, At, Busy, Resolves, HandlerSteps, RejectSteps, AuthorizationSteps, ProcessorSteps
<1>2. op[s].tx \in Requests
  BY <1>1, BusyFacts DEF IInv, SInv
<1>3. DataStep(s)
  BY <1>1, <1>2 DEF CheckProcessing, DataStep, WriteResult, SetHistory, UnlockIfHeld, GiveUp, Tx, Results, Denials,
     surfaceFrame, handlerFrame, processorFrame, authorizationFrame, IInv, TypeOK
<1>4. CASE Goto(s, "read") /\ UNCHANGED claimVars
  <2>1. Goto(s, "read") /\ UNCHANGED claimVars
    BY <1>4, <1>1 DEF CheckProcessing, surfaceFrame, handlerFrame, processorFrame, authorizationFrame
  <2>2. SameOwner(op[s], "read") /\ "read" \in PCs
    BY <1>1 DEF SameOwner, PCs, HandlerSteps, RejectSteps, AuthorizationSteps, ProcessorSteps
  <2>3. /\ TypeOK' /\ SurfaceStep(s) /\ KeepsOwnership(s)
       /\ op'[s].pc = "read" /\ op'[s].tx = op[s].tx
    BY <1>1, <1>3, <2>1, <2>2, GotoOn
  <2>4. KeepsSending(s)
    BY <1>4, <1>1, <2>3, SendingFrame DEF CheckProcessing, Tx, surfaceFrame, handlerFrame, processorFrame, authorizationFrame, UnsentSteps, GoneSteps, ApprovedSteps
  <2>5. KeepsLock(s)
    BY <1>4, <2>3, LockFrame DEF CheckProcessing, surfaceFrame, handlerFrame, processorFrame, authorizationFrame
  <2> QED
    BY <2>3, <2>4, <2>5 DEF Local
<1>5. CASE Fulfil(s)
  <2>1. Fulfil(s) /\ sent' = sent /\ pending' \subseteq pending /\ operationLock' = operationLock
    BY <1>5, <1>1 DEF CheckProcessing, GiveUp, UnlockIfHeld, surfaceFrame, handlerFrame, processorFrame, authorizationFrame
  <2> QED
    BY <1>1, <1>3, <2>1, LetGo, DoneLocal DEF Local
<1> QED
  BY <1>4, <1>5 DEF CheckProcessing

LEMMA LReadPending == ASSUME IInv, NEW s \in Surfaces, ReadPending(s) PROVE Local(s)
<1>1. op[s].pc = "read" /\ Busy(s) /\ Resolves(op[s])
  BY DEF ReadPending, At, Busy, Resolves, HandlerSteps, RejectSteps, AuthorizationSteps, ProcessorSteps
<1>2. op[s].tx \in Requests
  BY <1>1, BusyFacts DEF IInv, SInv
<1>3. DataStep(s)
  BY <1>1, <1>2 DEF ReadPending, DataStep, WriteResult, SetHistory, UnlockIfHeld, GiveUp, Tx, Results, Denials,
     surfaceFrame, handlerFrame, processorFrame, authorizationFrame, IInv, TypeOK
<1>4. CASE Tx(s) \in pending /\ Goto(s, "preflight") /\ UNCHANGED claimVars
  <2>1. Goto(s, "preflight") /\ UNCHANGED claimVars
    BY <1>4, <1>1 DEF ReadPending, surfaceFrame, handlerFrame, processorFrame, authorizationFrame
  <2>2. SameOwner(op[s], "preflight") /\ "preflight" \in PCs
    BY <1>1 DEF SameOwner, PCs, HandlerSteps, RejectSteps, AuthorizationSteps, ProcessorSteps
  <2>3. /\ TypeOK' /\ SurfaceStep(s) /\ KeepsOwnership(s)
       /\ op'[s].pc = "preflight" /\ op'[s].tx = op[s].tx
    BY <1>1, <1>3, <2>1, <2>2, GotoOn
  <2>4. KeepsSending(s)
    BY <1>4, <1>1, <2>3, SendingFrame DEF ReadPending, Tx, surfaceFrame, handlerFrame, processorFrame, authorizationFrame, UnsentSteps, GoneSteps, ApprovedSteps
  <2>5. KeepsLock(s)
    BY <1>4, <2>3, LockFrame DEF ReadPending, surfaceFrame, handlerFrame, processorFrame, authorizationFrame
  <2> QED
    BY <2>3, <2>4, <2>5 DEF Local
<1>5. CASE Fulfil(s)
  <2>1. Fulfil(s) /\ sent' = sent /\ pending' \subseteq pending /\ operationLock' = operationLock
    BY <1>5, <1>1 DEF ReadPending, GiveUp, UnlockIfHeld, surfaceFrame, handlerFrame, processorFrame, authorizationFrame
  <2> QED
    BY <1>1, <1>3, <2>1, LetGo, DoneLocal DEF Local
<1> QED
  BY <1>4, <1>5 DEF ReadPending

LEMMA LPreflight == ASSUME IInv, NEW s \in Surfaces, Preflight(s) PROVE Local(s)
<1>1. op[s].pc = "preflight" /\ Busy(s) /\ Resolves(op[s])
  BY DEF Preflight, At, Busy, Resolves, HandlerSteps, RejectSteps, AuthorizationSteps, ProcessorSteps
<1>2. op[s].tx \in Requests
  BY <1>1, BusyFacts DEF IInv, SInv
<1>3. DataStep(s)
  BY <1>1, <1>2 DEF Preflight, DataStep, WriteResult, SetHistory, UnlockIfHeld, GiveUp, Tx, Results, Denials,
     surfaceFrame, handlerFrame, processorFrame, authorizationFrame, IInv, TypeOK
<1>4. CASE Goto(s, "consume") /\ UNCHANGED claimVars
  <2>1. Goto(s, "consume") /\ UNCHANGED claimVars
    BY <1>4, <1>1 DEF Preflight, surfaceFrame, handlerFrame, processorFrame, authorizationFrame
  <2>2. SameOwner(op[s], "consume") /\ "consume" \in PCs
    BY <1>1 DEF SameOwner, PCs, HandlerSteps, RejectSteps, AuthorizationSteps, ProcessorSteps
  <2>3. /\ TypeOK' /\ SurfaceStep(s) /\ KeepsOwnership(s)
       /\ op'[s].pc = "consume" /\ op'[s].tx = op[s].tx
    BY <1>1, <1>3, <2>1, <2>2, GotoOn
  <2>4. KeepsSending(s)
    BY <1>4, <1>1, <2>3, SendingFrame DEF Preflight, Tx, surfaceFrame, handlerFrame, processorFrame, authorizationFrame, UnsentSteps, GoneSteps, ApprovedSteps
  <2>5. KeepsLock(s)
    BY <1>4, <2>3, LockFrame DEF Preflight, surfaceFrame, handlerFrame, processorFrame, authorizationFrame
  <2> QED
    BY <2>3, <2>4, <2>5 DEF Local
<1>5. CASE GiveUp(s)
  <2>1. Fulfil(s) /\ sent' = sent /\ pending' \subseteq pending /\ operationLock' = operationLock
    BY <1>5, <1>1 DEF Preflight, GiveUp, UnlockIfHeld, surfaceFrame, handlerFrame, processorFrame, authorizationFrame
  <2> QED
    BY <1>1, <1>3, <2>1, LetGo, DoneLocal DEF Local
<1> QED
  BY <1>4, <1>5 DEF Preflight

LEMMA LConsume == ASSUME IInv, NEW s \in Surfaces, Consume(s) PROVE Local(s)
<1>1. op[s].pc = "consume" /\ Busy(s) /\ Resolves(op[s])
  BY DEF Consume, At, Busy, Resolves, HandlerSteps, RejectSteps, AuthorizationSteps, ProcessorSteps
<1>2. op[s].tx \in Requests
  BY <1>1, BusyFacts DEF IInv, SInv
<1>3. DataStep(s)
  BY <1>1, <1>2 DEF Consume, DataStep, WriteResult, SetHistory, UnlockIfHeld, GiveUp, Tx, Results, Denials,
     surfaceFrame, handlerFrame, processorFrame, authorizationFrame, IInv, TypeOK
<1>4. BeginCheck(s, 1) /\ UNCHANGED claimVars
  BY <1>1 DEF Consume, BeginCheck, surfaceFrame, handlerFrame, processorFrame, authorizationFrame
<1>5. /\ TypeOK' /\ SurfaceStep(s) /\ KeepsOwnership(s)
     /\ op'[s].pc = "gate" /\ op'[s].tx = op[s].tx /\ op'[s].stage = 1
  BY <1>1, <1>3, <1>4, CheckOn
<1>6. KeepsSending(s)
  BY <1>1, <1>5, SendingFrame DEF Consume, Tx, surfaceFrame, handlerFrame, processorFrame, authorizationFrame, UnsentSteps, GoneSteps, ApprovedSteps
<1>7. KeepsLock(s)
  BY <1>1, <1>5 DEF Consume, Tx, KeepsLock, LastCheck, surfaceFrame, handlerFrame, processorFrame, authorizationFrame, IInv, SInv, SignsUnderLock
<1> QED
  BY <1>5, <1>6, <1>7 DEF Local

LEMMA LHandlerThrows == ASSUME IInv, NEW s \in Surfaces, HandlerThrows(s) PROVE Local(s)
<1>1. Busy(s) /\ Resolves(op[s])
  BY DEF HandlerThrows, Busy, Resolves, HandlerSteps, RejectSteps, AuthorizationSteps
<1>2. DataStep(s)
  BY DEF HandlerThrows, DataStep, handlerFrame, IInv, TypeOK
<1>3. Goto(s, "threw") /\ UNCHANGED claimVars /\ SameOwner(op[s], "threw") /\ "threw" \in PCs
  BY <1>1 DEF HandlerThrows, SameOwner, PCs
<1>4. /\ TypeOK' /\ SurfaceStep(s) /\ KeepsOwnership(s)
      /\ op'[s].pc = "threw" /\ op'[s].tx = op[s].tx
  BY <1>1, <1>2, <1>3, GotoOn
<1>5. KeepsSending(s)
  BY <1>4, SendingFrame DEF HandlerThrows, handlerFrame, UnsentSteps, GoneSteps, ApprovedSteps
<1>6. KeepsLock(s)
  BY <1>4, LockFrame DEF HandlerThrows, handlerFrame
<1> QED
  BY <1>4, <1>5, <1>6 DEF Local

-----------------------------------------------------------------------------
(* The steps of the processor.                                               *)

LEMMA LRecordProcessing == ASSUME IInv, NEW s \in Surfaces, RecordProcessing(s) PROVE Local(s)
<1>1. op[s].pc = "record" /\ Busy(s) /\ Processes(op[s])
  BY DEF RecordProcessing, At, Busy, Processes, HandlerSteps, RejectSteps, AuthorizationSteps, ProcessorSteps
<1>2. op[s].tx \in Requests
  BY <1>1, BusyFacts DEF IInv, SInv
<1>3. DataStep(s)
  BY <1>1, <1>2 DEF RecordProcessing, DataStep, WriteResult, SetHistory, UnlockIfHeld, GiveUp, Tx, Results, Denials,
     surfaceFrame, handlerFrame, processorFrame, authorizationFrame, IInv, TypeOK
<1>4. Goto(s, "prepare") /\ UNCHANGED claimVars
  BY <1>1 DEF RecordProcessing, surfaceFrame, handlerFrame, processorFrame, authorizationFrame
<1>5. SameOwner(op[s], "prepare") /\ "prepare" \in PCs
  BY <1>1 DEF SameOwner, PCs, HandlerSteps, RejectSteps, AuthorizationSteps, ProcessorSteps
<1>6. /\ TypeOK' /\ SurfaceStep(s) /\ KeepsOwnership(s)
     /\ op'[s].pc = "prepare" /\ op'[s].tx = op[s].tx
  BY <1>1, <1>3, <1>4, <1>5, GotoOn
<1>7. KeepsSending(s)
  BY <1>1, <1>6, SendingFrame DEF RecordProcessing, Tx, surfaceFrame, handlerFrame, processorFrame, authorizationFrame, UnsentSteps, GoneSteps, ApprovedSteps
<1>8. KeepsLock(s)
  BY <1>6, LockFrame DEF RecordProcessing, surfaceFrame, handlerFrame, processorFrame, authorizationFrame
<1> QED
  BY <1>6, <1>7, <1>8 DEF Local

LEMMA LPrepare == ASSUME IInv, NEW s \in Surfaces, Prepare(s) PROVE Local(s)
<1>1. op[s].pc = "prepare" /\ Busy(s) /\ Processes(op[s])
  BY DEF Prepare, At, Busy, Processes, HandlerSteps, RejectSteps, AuthorizationSteps, ProcessorSteps
<1>2. op[s].tx \in Requests
  BY <1>1, BusyFacts DEF IInv, SInv
<1>3. DataStep(s)
  BY <1>1, <1>2 DEF Prepare, DataStep, WriteResult, SetHistory, UnlockIfHeld, GiveUp, Tx, Results, Denials,
     surfaceFrame, handlerFrame, processorFrame, authorizationFrame, IInv, TypeOK
<1>4. BeginCheck(s, 2) /\ UNCHANGED claimVars
  BY <1>1 DEF Prepare, BeginCheck, surfaceFrame, handlerFrame, processorFrame, authorizationFrame
<1>5. /\ TypeOK' /\ SurfaceStep(s) /\ KeepsOwnership(s)
     /\ op'[s].pc = "gate" /\ op'[s].tx = op[s].tx /\ op'[s].stage = 2
  BY <1>1, <1>3, <1>4, CheckOn
<1>6. KeepsSending(s)
  BY <1>1, <1>5, SendingFrame DEF Prepare, Tx, surfaceFrame, handlerFrame, processorFrame, authorizationFrame, UnsentSteps, GoneSteps, ApprovedSteps
<1>7. KeepsLock(s)
  BY <1>1, <1>5 DEF Prepare, Tx, KeepsLock, LastCheck, surfaceFrame, handlerFrame, processorFrame, authorizationFrame, IInv, SInv, SignsUnderLock
<1> QED
  BY <1>5, <1>6, <1>7 DEF Local

LEMMA LAcquireOperationLock == ASSUME IInv, NEW s \in Surfaces, AcquireOperationLock(s) PROVE Local(s)
<1>1. op[s].pc = "lock" /\ Busy(s) /\ Processes(op[s])
  BY DEF AcquireOperationLock, At, Busy, Processes, HandlerSteps, RejectSteps, AuthorizationSteps, ProcessorSteps
<1>2. op[s].tx \in Requests
  BY <1>1, BusyFacts DEF IInv, SInv
<1>3. DataStep(s)
  BY <1>1, <1>2 DEF AcquireOperationLock, DataStep, WriteResult, SetHistory, UnlockIfHeld, GiveUp, Tx, Results, Denials,
     surfaceFrame, handlerFrame, processorFrame, authorizationFrame, IInv, TypeOK
<1>4. Goto(s, "sign") /\ UNCHANGED claimVars
  BY <1>1 DEF AcquireOperationLock, surfaceFrame, handlerFrame, processorFrame, authorizationFrame
<1>5. SameOwner(op[s], "sign") /\ "sign" \in PCs
  BY <1>1 DEF SameOwner, PCs, HandlerSteps, RejectSteps, AuthorizationSteps, ProcessorSteps
<1>6. /\ TypeOK' /\ SurfaceStep(s) /\ KeepsOwnership(s)
     /\ op'[s].pc = "sign" /\ op'[s].tx = op[s].tx
  BY <1>1, <1>3, <1>4, <1>5, GotoOn
<1>7. KeepsSending(s)
  BY <1>1, <1>6, SendingFrame DEF AcquireOperationLock, Tx, surfaceFrame, handlerFrame, processorFrame, authorizationFrame, UnsentSteps, GoneSteps, ApprovedSteps
<1>8. KeepsLock(s)
  BY <1>1, <1>6 DEF AcquireOperationLock, KeepsLock, LastCheck, surfaceFrame, handlerFrame, processorFrame, authorizationFrame, IInv, SInv, SignsUnderLock
<1> QED
  BY <1>6, <1>7, <1>8 DEF Local

LEMMA LSign == ASSUME IInv, NEW s \in Surfaces, Sign(s) PROVE Local(s)
<1>1. op[s].pc = "sign" /\ Busy(s) /\ Processes(op[s])
  BY DEF Sign, At, Busy, Processes, HandlerSteps, RejectSteps, AuthorizationSteps, ProcessorSteps
<1>2. op[s].tx \in Requests
  BY <1>1, BusyFacts DEF IInv, SInv
<1>3. DataStep(s)
  BY <1>1, <1>2 DEF Sign, DataStep, WriteResult, SetHistory, UnlockIfHeld, GiveUp, Tx, Results, Denials,
     surfaceFrame, handlerFrame, processorFrame, authorizationFrame, IInv, TypeOK
<1>4. Goto(s, "account") /\ UNCHANGED claimVars
  BY <1>1 DEF Sign, surfaceFrame, handlerFrame, processorFrame, authorizationFrame
<1>5. SameOwner(op[s], "account") /\ "account" \in PCs
  BY <1>1 DEF SameOwner, PCs, HandlerSteps, RejectSteps, AuthorizationSteps, ProcessorSteps
<1>6. /\ TypeOK' /\ SurfaceStep(s) /\ KeepsOwnership(s)
     /\ op'[s].pc = "account" /\ op'[s].tx = op[s].tx
  BY <1>1, <1>3, <1>4, <1>5, GotoOn
<1>7. KeepsSending(s)
  BY <1>1, <1>6, SendingFrame DEF Sign, Tx, surfaceFrame, handlerFrame, processorFrame, authorizationFrame, UnsentSteps, GoneSteps, ApprovedSteps
<1>8. KeepsLock(s)
  BY <1>1, <1>6 DEF Sign, KeepsLock, LastCheck, surfaceFrame, handlerFrame, processorFrame, authorizationFrame, IInv, SInv, SignsUnderLock
<1> QED
  BY <1>6, <1>7, <1>8 DEF Local

LEMMA LRereadAccount == ASSUME IInv, NEW s \in Surfaces, RereadAccount(s) PROVE Local(s)
<1>1. op[s].pc = "account" /\ Busy(s) /\ Processes(op[s])
  BY DEF RereadAccount, At, Busy, Processes, HandlerSteps, RejectSteps, AuthorizationSteps, ProcessorSteps
<1>2. op[s].tx \in Requests
  BY <1>1, BusyFacts DEF IInv, SInv
<1>3. DataStep(s)
  BY <1>1, <1>2 DEF RereadAccount, DataStep, WriteResult, SetHistory, UnlockIfHeld, GiveUp, Tx, Results, Denials,
     surfaceFrame, handlerFrame, processorFrame, authorizationFrame, IInv, TypeOK
<1>4. CASE AccountOf[Tx(s)] \in accounts
  <2>1. BeginCheck(s, 3) /\ UNCHANGED claimVars
    BY <1>4, <1>1 DEF RereadAccount, BeginCheck, surfaceFrame, handlerFrame, processorFrame, authorizationFrame
  <2>2. /\ TypeOK' /\ SurfaceStep(s) /\ KeepsOwnership(s)
       /\ op'[s].pc = "gate" /\ op'[s].tx = op[s].tx /\ op'[s].stage = 3
    BY <1>1, <1>3, <2>1, CheckOn
  <2>3. KeepsSending(s)
    BY <1>4, <1>1, <2>2, SendingFrame DEF RereadAccount, Tx, surfaceFrame, handlerFrame, processorFrame, authorizationFrame, UnsentSteps, GoneSteps, ApprovedSteps
  <2>4. KeepsLock(s)
    BY <1>4, <1>1, <2>2 DEF RereadAccount, Tx, KeepsLock, LastCheck, surfaceFrame, handlerFrame, processorFrame, authorizationFrame, IInv, SInv, SignsUnderLock
  <2> QED
    BY <2>2, <2>3, <2>4 DEF Local
<1>5. CASE AccountOf[Tx(s)] \notin accounts
  <2>1. Goto(s, "failHistory") /\ UNCHANGED claimVars
    BY <1>5, <1>1 DEF RereadAccount, surfaceFrame, handlerFrame, processorFrame, authorizationFrame
  <2>2. SameOwner(op[s], "failHistory") /\ "failHistory" \in PCs
    BY <1>1 DEF SameOwner, PCs, HandlerSteps, RejectSteps, AuthorizationSteps, ProcessorSteps
  <2>3. /\ TypeOK' /\ SurfaceStep(s) /\ KeepsOwnership(s)
       /\ op'[s].pc = "failHistory" /\ op'[s].tx = op[s].tx
    BY <1>1, <1>3, <2>1, <2>2, GotoOn
  <2>4. KeepsSending(s)
    BY <1>5, <1>1, <2>3, SendingFrame DEF RereadAccount, Tx, surfaceFrame, handlerFrame, processorFrame, authorizationFrame, UnsentSteps, GoneSteps, ApprovedSteps
  <2>5. KeepsLock(s)
    BY <1>5, <2>3, LockFrame DEF RereadAccount, surfaceFrame, handlerFrame, processorFrame, authorizationFrame
  <2> QED
    BY <2>3, <2>4, <2>5 DEF Local
<1> QED
  BY <1>4, <1>5 DEF RereadAccount

LEMMA LRespond == ASSUME IInv, NEW s \in Surfaces, Respond(s) PROVE Local(s)
<1>1. op[s].pc = "inFlight" /\ Busy(s) /\ Processes(op[s])
  BY DEF Respond, At, Busy, Processes, HandlerSteps, RejectSteps, AuthorizationSteps, ProcessorSteps
<1>2. op[s].tx \in Requests
  BY <1>1, BusyFacts DEF IInv, SInv
<1>3. DataStep(s)
  BY <1>1, <1>2 DEF Respond, DataStep, WriteResult, SetHistory, UnlockIfHeld, GiveUp, Tx, Results, Denials,
     surfaceFrame, handlerFrame, processorFrame, authorizationFrame, IInv, TypeOK
<1>4. Goto(s, "publish") /\ UNCHANGED claimVars
  BY <1>1 DEF Respond, surfaceFrame, handlerFrame, processorFrame, authorizationFrame
<1>5. SameOwner(op[s], "publish") /\ "publish" \in PCs
  BY <1>1 DEF SameOwner, PCs, HandlerSteps, RejectSteps, AuthorizationSteps, ProcessorSteps
<1>6. /\ TypeOK' /\ SurfaceStep(s) /\ KeepsOwnership(s)
     /\ op'[s].pc = "publish" /\ op'[s].tx = op[s].tx
  BY <1>1, <1>3, <1>4, <1>5, GotoOn
<1>7. KeepsSending(s)
  BY <1>1, <1>6, SendingFrame DEF Respond, Tx, surfaceFrame, handlerFrame, processorFrame, authorizationFrame, UnsentSteps, GoneSteps, ApprovedSteps
<1>8. KeepsLock(s)
  BY <1>6, LockFrame DEF Respond, surfaceFrame, handlerFrame, processorFrame, authorizationFrame
<1> QED
  BY <1>6, <1>7, <1>8 DEF Local

LEMMA LPublishSent == ASSUME IInv, NEW s \in Surfaces, PublishSent(s) PROVE Local(s)
<1>1. op[s].pc = "publish" /\ Busy(s) /\ Processes(op[s])
  BY DEF PublishSent, At, Busy, Processes, HandlerSteps, RejectSteps, AuthorizationSteps, ProcessorSteps
<1>2. op[s].tx \in Requests
  BY <1>1, BusyFacts DEF IInv, SInv
<1>3. DataStep(s)
  BY <1>1, <1>2 DEF PublishSent, DataStep, WriteResult, SetHistory, UnlockIfHeld, GiveUp, Tx, Results, Denials,
     surfaceFrame, handlerFrame, processorFrame, authorizationFrame, IInv, TypeOK
<1>4. Goto(s, "success") /\ UNCHANGED claimVars
  BY <1>1 DEF PublishSent, surfaceFrame, handlerFrame, processorFrame, authorizationFrame
<1>5. SameOwner(op[s], "success") /\ "success" \in PCs
  BY <1>1 DEF SameOwner, PCs, HandlerSteps, RejectSteps, AuthorizationSteps, ProcessorSteps
<1>6. /\ TypeOK' /\ SurfaceStep(s) /\ KeepsOwnership(s)
     /\ op'[s].pc = "success" /\ op'[s].tx = op[s].tx
  BY <1>1, <1>3, <1>4, <1>5, GotoOn
<1>7. KeepsSending(s)
  BY <1>1, <1>6, SendingFrame DEF PublishSent, Tx, surfaceFrame, handlerFrame, processorFrame, authorizationFrame, UnsentSteps, GoneSteps, ApprovedSteps
<1>8. KeepsLock(s)
  BY <1>6, LockFrame DEF PublishSent, surfaceFrame, handlerFrame, processorFrame, authorizationFrame
<1> QED
  BY <1>6, <1>7, <1>8 DEF Local

LEMMA LWriteSuccess == ASSUME IInv, NEW s \in Surfaces, WriteSuccess(s) PROVE Local(s)
<1>1. op[s].pc = "success" /\ Busy(s) /\ Processes(op[s])
  BY DEF WriteSuccess, At, Busy, Processes, HandlerSteps, RejectSteps, AuthorizationSteps, ProcessorSteps
<1>2. op[s].tx \in Requests
  BY <1>1, BusyFacts DEF IInv, SInv
<1>3. DataStep(s)
  BY <1>1, <1>2 DEF WriteSuccess, DataStep, WriteResult, SetHistory, UnlockIfHeld, GiveUp, Tx, Results, Denials,
     surfaceFrame, handlerFrame, processorFrame, authorizationFrame, IInv, TypeOK
<1>4. Goto(s, "finally") /\ UNCHANGED claimVars
  BY <1>1 DEF WriteSuccess, surfaceFrame, handlerFrame, processorFrame, authorizationFrame
<1>5. SameOwner(op[s], "finally") /\ "finally" \in PCs
  BY <1>1 DEF SameOwner, PCs, HandlerSteps, RejectSteps, AuthorizationSteps, ProcessorSteps
<1>6. /\ TypeOK' /\ SurfaceStep(s) /\ KeepsOwnership(s)
     /\ op'[s].pc = "finally" /\ op'[s].tx = op[s].tx
  BY <1>1, <1>3, <1>4, <1>5, GotoOn
<1>7. KeepsSending(s)
  BY <1>1, <1>6, SendingFrame DEF WriteSuccess, Tx, surfaceFrame, handlerFrame, processorFrame, authorizationFrame, UnsentSteps, GoneSteps, ApprovedSteps
<1>8. KeepsLock(s)
  BY <1>6, LockFrame DEF WriteSuccess, surfaceFrame, handlerFrame, processorFrame, authorizationFrame
<1> QED
  BY <1>6, <1>7, <1>8 DEF Local

LEMMA LFailHistory == ASSUME IInv, NEW s \in Surfaces, FailHistory(s) PROVE Local(s)
<1>1. op[s].pc = "failHistory" /\ Busy(s) /\ Processes(op[s])
  BY DEF FailHistory, At, Busy, Processes, HandlerSteps, RejectSteps, AuthorizationSteps, ProcessorSteps
<1>2. op[s].tx \in Requests
  BY <1>1, BusyFacts DEF IInv, SInv
<1>3. DataStep(s)
  BY <1>1, <1>2 DEF FailHistory, DataStep, WriteResult, SetHistory, UnlockIfHeld, GiveUp, Tx, Results, Denials,
     surfaceFrame, handlerFrame, processorFrame, authorizationFrame, IInv, TypeOK
<1>4. Goto(s, "failResult") /\ UNCHANGED claimVars
  BY <1>1 DEF FailHistory, surfaceFrame, handlerFrame, processorFrame, authorizationFrame
<1>5. SameOwner(op[s], "failResult") /\ "failResult" \in PCs
  BY <1>1 DEF SameOwner, PCs, HandlerSteps, RejectSteps, AuthorizationSteps, ProcessorSteps
<1>6. /\ TypeOK' /\ SurfaceStep(s) /\ KeepsOwnership(s)
     /\ op'[s].pc = "failResult" /\ op'[s].tx = op[s].tx
  BY <1>1, <1>3, <1>4, <1>5, GotoOn
<1>7. KeepsSending(s)
  BY <1>1, <1>6, SendingFrame DEF FailHistory, Tx, surfaceFrame, handlerFrame, processorFrame, authorizationFrame, UnsentSteps, GoneSteps, ApprovedSteps
<1>8. KeepsLock(s)
  BY <1>6, LockFrame DEF FailHistory, surfaceFrame, handlerFrame, processorFrame, authorizationFrame
<1> QED
  BY <1>6, <1>7, <1>8 DEF Local

LEMMA LFailResult == ASSUME IInv, NEW s \in Surfaces, FailResult(s) PROVE Local(s)
<1>1. op[s].pc = "failResult" /\ Busy(s) /\ Processes(op[s])
  BY DEF FailResult, At, Busy, Processes, HandlerSteps, RejectSteps, AuthorizationSteps, ProcessorSteps
<1>2. op[s].tx \in Requests
  BY <1>1, BusyFacts DEF IInv, SInv
<1>3. DataStep(s)
  BY <1>1, <1>2 DEF FailResult, DataStep, WriteResult, SetHistory, UnlockIfHeld, GiveUp, Tx, Results, Denials,
     surfaceFrame, handlerFrame, processorFrame, authorizationFrame, IInv, TypeOK
<1>4. Goto(s, "finally") /\ UNCHANGED claimVars
  BY <1>1 DEF FailResult, surfaceFrame, handlerFrame, processorFrame, authorizationFrame
<1>5. SameOwner(op[s], "finally") /\ "finally" \in PCs
  BY <1>1 DEF SameOwner, PCs, HandlerSteps, RejectSteps, AuthorizationSteps, ProcessorSteps
<1>6. /\ TypeOK' /\ SurfaceStep(s) /\ KeepsOwnership(s)
     /\ op'[s].pc = "finally" /\ op'[s].tx = op[s].tx
  BY <1>1, <1>3, <1>4, <1>5, GotoOn
<1>7. KeepsSending(s)
  BY <1>1, <1>6, SendingFrame DEF FailResult, Tx, surfaceFrame, handlerFrame, processorFrame, authorizationFrame, UnsentSteps, GoneSteps, ApprovedSteps
<1>8. KeepsLock(s)
  BY <1>6, LockFrame DEF FailResult, surfaceFrame, handlerFrame, processorFrame, authorizationFrame
<1> QED
  BY <1>6, <1>7, <1>8 DEF Local


LEMMA LProcessorFails == ASSUME IInv, NEW s \in Surfaces, ProcessorFails(s) PROVE Local(s)
<1>1. /\ op[s].pc \in {"record", "prepare", "sign", "account", "gate", "permission", "decide"}
      /\ op[s].pc \in {"gate", "permission", "decide"} => op[s].stage > 1
  BY DEF ProcessorFails
<1>2. op[s].stage \in 0..3
  BY OpFields DEF IInv
<1>3. Busy(s) /\ Processes(op[s])
  BY <1>1, <1>2 DEF Busy, Processes, ProcessorSteps, AuthorizationSteps
<1>4. DataStep(s)
  BY DEF ProcessorFails, DataStep, UnlockIfHeld, processorFrame, IInv, TypeOK
<1>5. Goto(s, "failHistory") /\ UNCHANGED claimVars
  BY DEF ProcessorFails, processorFrame
<1>6. SameOwner(op[s], "failHistory") /\ "failHistory" \in PCs
  BY <1>3 DEF SameOwner, PCs, ProcessorSteps
<1>7. /\ TypeOK' /\ SurfaceStep(s) /\ KeepsOwnership(s)
      /\ op'[s].pc = "failHistory" /\ op'[s].tx = op[s].tx
  BY <1>3, <1>4, <1>5, <1>6, GotoOn
<1>8. KeepsSending(s)
  BY <1>1, <1>7, SendingFrame DEF ProcessorFails, processorFrame, UnsentSteps, GoneSteps, ApprovedSteps
<1>9. KeepsLock(s)
  BY <1>7, LockFrame DEF ProcessorFails
<1> QED
  BY <1>7, <1>8, <1>9 DEF Local

\* releaseIfSafe gives up the lease; the claim was given up by the handler.
LEMMA LFinally == ASSUME IInv, NEW s \in Surfaces, Finally(s) PROVE Local(s)
<1>1. op[s].pc = "finally" /\ Busy(s) /\ Processes(op[s])
  BY DEF Finally, At, Busy, Processes, ProcessorSteps
<1>2. Held(s) /\ op[s].tx \in Requests /\ externalClaims[op[s].tx] = s /\ claims[op[s].tx] = None
  BY <1>1, Exclusive DEF Finally, Tx, Held, IInv, SInv, Ownership, SurfacesOwn
<1>3. DataStep(s)
  BY DEF Finally, DataStep, IInv, TypeOK
<1>4. /\ op' \in [Surfaces -> OpType] /\ op'[s].pc = "idle" /\ op'[s] = IdleOp
      /\ \A r \in Surfaces : r # s => op'[r] = op[r]
  BY IdleFacts, IdleOpFields DEF Finally, IInv
<1>5. /\ externalClaims' = [externalClaims EXCEPT ![op[s].tx] = None]
      /\ claims' = claims /\ walletResetClaim' = walletResetClaim
  BY <1>2 DEF Finally, FinishExternal, Tx, IInv, TypeOK, ClaimsTypeOK, Requests
<1>6. ClaimsTypeOK'
  BY <1>5 DEF IInv, TypeOK, ClaimsTypeOK
<1>7. TypeOK' /\ SurfaceStep(s)
  <2>1. \A t \in Requests : t # op[s].tx => externalClaims'[t] = externalClaims[t]
    BY <1>5 DEF IInv, TypeOK, ClaimsTypeOK, Requests
  <2> QED
    BY <1>1, <1>3, <1>4, <1>5, <1>6, <2>1, DataStepFacts DEF SurfaceStep, DataStep, surfaceFrame, gateVars, boundVars
<1>8. KeepsOwnership(s)
  BY <1>2, <1>4, <1>5 DEF KeepsOwnership, IInv, TypeOK, ClaimsTypeOK, Requests
<1>9. KeepsSending(s) /\ KeepsLock(s)
  BY <1>1, <1>4, DoneLocal DEF Finally
<1> QED
  BY <1>7, <1>8, <1>9 DEF Local

-----------------------------------------------------------------------------
(* From the claim to the lease, and back.                                    *)

LEMMA LTakeLease == ASSUME IInv, NEW s \in Surfaces, TakeLease(s) PROVE Local(s)
<1>1. op[s].pc = "lease" /\ Busy(s) /\ Resolves(op[s])
  BY DEF TakeLease, At, Busy, Resolves, HandlerSteps
<1>2. Held(s) /\ op[s].tx \in Requests /\ claims[op[s].tx] = s /\ externalClaims[op[s].tx] = None
  BY <1>1, Exclusive DEF Held, IInv, SInv, Ownership, SurfacesOwn
<1>3. DataStep(s)
  BY <1>1 DEF TakeLease, DataStep, GiveUp, handlerFrame, IInv, TypeOK
<1>4. CASE BeginExternal(s, Tx(s)) /\ Goto(s, "record")
  <2>1. /\ op' \in [Surfaces -> OpType] /\ op'[s].pc = "record" /\ op'[s].tx = op[s].tx
        /\ \A r \in Surfaces : r # s => op'[r] = op[r]
    BY <1>4, GotoFacts DEF IInv, PCs, ProcessorSteps
  <2>2. /\ externalClaims' = [externalClaims EXCEPT ![op[s].tx] = s]
        /\ claims' = claims /\ walletResetClaim' = walletResetClaim
    BY <1>4 DEF BeginExternal, Tx
  <2>3. ClaimsTypeOK' /\ externalClaims'[op[s].tx] = s
        /\ \A t \in Requests : t # op[s].tx => externalClaims'[t] = externalClaims[t]
    BY <1>2, <2>2 DEF IInv, TypeOK, ClaimsTypeOK, Requests
  <2>4. TypeOK' /\ SurfaceStep(s)
    BY <1>1, <1>3, <2>1, <2>2, <2>3, DataStepFacts DEF SurfaceStep, DataStep, surfaceFrame, gateVars, boundVars
  <2>5. KeepsOwnership(s)
    <3>1. Processes(op'[s])
      BY <2>1 DEF Processes, ProcessorSteps
    <3> QED
      BY <1>2, <2>1, <2>2, <2>3, <3>1 DEF KeepsOwnership, Held, Busy
  <2>6. KeepsSending(s)
    BY <1>1, <2>1, SendingFrame DEF TakeLease, handlerFrame, UnsentSteps, GoneSteps, ApprovedSteps
  <2>7. KeepsLock(s)
    BY <2>1, LockFrame DEF TakeLease, handlerFrame
  <2> QED
    BY <2>4, <2>5, <2>6, <2>7 DEF Local
<1>5. CASE GiveUp(s)
  <2>1. Fulfil(s) /\ sent' = sent /\ pending' \subseteq pending /\ operationLock' = operationLock
    BY <1>5, <1>1 DEF TakeLease, GiveUp, handlerFrame
  <2> QED
    BY <1>1, <1>3, <2>1, LetGo, DoneLocal DEF Local
<1> QED
  BY <1>4, <1>5 DEF TakeLease

LEMMA LHandOff == ASSUME IInv, NEW s \in Surfaces, HandOff(s) PROVE Local(s)
<1>1. op[s].tx \in Requests /\ claims[op[s].tx] = s /\ externalClaims[op[s].tx] = s
  BY OpFields DEF HandOff, Tx, IInv
<1>2. Busy(s) /\ Held(s) /\ Processes(op[s])
  <2>1. Busy(s)
    BY <1>1 DEF IInv, SInv, Ownership, SurfacesOwn
  <2>2. s # None
    OBVIOUS
  <2> QED
    BY <1>1, <2>1, <2>2 DEF IInv, SInv, Ownership, SurfacesOwn, Held
<1>3. DataStep(s) /\ op' = op
  BY DEF HandOff, DataStep, handlerFrame, IInv, TypeOK
<1>4. /\ claims' \in [Keys -> Tokens \union {None}]
      /\ claims'[op[s].tx] = None
      /\ \A k \in Requests : k # op[s].tx => claims'[k] = claims[k]
      /\ externalClaims' = externalClaims /\ walletResetClaim' = walletResetClaim
  BY <1>1, ReleaseFacts DEF HandOff, Tx, IInv
<1>5. ClaimsTypeOK' /\ op' \in [Surfaces -> OpType]
  BY <1>3, <1>4 DEF IInv, TypeOK, ClaimsTypeOK
<1>6. TypeOK' /\ SurfaceStep(s)
  BY <1>2, <1>3, <1>4, <1>5, DataStepFacts DEF SurfaceStep, DataStep, surfaceFrame, gateVars, boundVars
<1>7. KeepsOwnership(s)
  BY <1>1, <1>2, <1>3, <1>4 DEF KeepsOwnership, Held, Busy
<1>8. KeepsSending(s)
  BY <1>3, SendingFrame DEF HandOff, handlerFrame
<1>9. KeepsLock(s)
  BY <1>3 DEF HandOff, handlerFrame, KeepsLock, LastCheck, IInv, SInv, SignsUnderLock
<1> QED
  BY <1>6, <1>7, <1>8, <1>9 DEF Local

-----------------------------------------------------------------------------
(* The authorization checks.                                                 *)

LEMMA CheckingOwner ==
  ASSUME IInv, NEW s \in Surfaces, op[s].pc \in AuthorizationSteps
  PROVE  /\ Busy(s) /\ op[s].tx \in Requests
         /\ op[s].stage = 1 => Resolves(op[s])
         /\ op[s].stage \in {2, 3} => Processes(op[s])
         /\ op[s].stage \in {1, 2, 3}
<1>1. Busy(s)
  BY DEF Busy, AuthorizationSteps
<1>2. Held(s)
  BY <1>1 DEF IInv, SInv, Ownership, SurfacesOwn
<1> QED
  BY <1>1, <1>2 DEF Held, Resolves, Processes, HandlerSteps, RejectSteps, AuthorizationSteps, ProcessorSteps

LEMMA LAuthorized ==
  ASSUME IInv, NEW s \in Surfaces, op[s].pc \in {"gate", "decide"},
         Authorized(s), UNCHANGED authorizationFrame
  PROVE  Local(s)
<1>1. /\ Busy(s) /\ op[s].tx \in Requests
      /\ op[s].stage = 1 => Resolves(op[s])
      /\ op[s].stage \in {2, 3} => Processes(op[s])
  BY CheckingOwner DEF AuthorizationSteps
<1>2. DataStep(s) /\ UNCHANGED claimVars
  BY DEF Authorized, DataStep, Tx, authorizationFrame, IInv, TypeOK
<1>3. PICK pc \in {"lease", "lock", "inFlight"} :
        /\ Goto(s, pc)
        /\ pc = "lease" => op[s].stage = 1 /\ sent' = sent
        /\ pc = "lock" => op[s].stage = 2 /\ sent' = sent
        /\ pc = "inFlight" => op[s].stage = 3 /\ sent' = [sent EXCEPT ![op[s].tx] = @ + 1]
  BY DEF Authorized, Tx
<1>4. SameOwner(op[s], pc) /\ pc \in PCs
  BY <1>1, <1>3 DEF SameOwner, PCs, HandlerSteps, ProcessorSteps
<1>5. /\ TypeOK' /\ SurfaceStep(s) /\ KeepsOwnership(s)
      /\ op'[s].pc = pc /\ op'[s].tx = op[s].tx
  BY <1>1, <1>2, <1>3, <1>4, GotoOn
<1>6. KeepsSending(s)
  <2>1. CASE pc = "inFlight"
    <3>1. op[s].pc \in ApprovedSteps /\ op'[s].pc \notin UnsentSteps \union GoneSteps
      BY <1>5, <2>1 DEF UnsentSteps, GoneSteps, ApprovedSteps
    <3>2. sent'[op[s].tx] = sent[op[s].tx] + 1
      BY <1>1, <1>3, <2>1 DEF IInv, TypeOK
    <3>3. pending' = pending
      BY DEF authorizationFrame
    <3> QED
      BY <1>5, <3>1, <3>2, <3>3 DEF KeepsSending
  <2>2. CASE pc # "inFlight"
    BY <1>3, <1>5, <2>2, SendingFrame DEF authorizationFrame, UnsentSteps, GoneSteps, ApprovedSteps
  <2> QED
    BY <2>1, <2>2
<1>7. KeepsLock(s)
  BY <1>5, LockFrame DEF authorizationFrame
<1> QED
  BY <1>5, <1>6, <1>7 DEF Local

LEMMA LDenied ==
  ASSUME IInv, NEW s \in Surfaces, op[s].pc \in {"gate", "decide"},
         Goto(s, "deny"), sent' = sent, UNCHANGED authorizationFrame
  PROVE  Local(s)
<1>1. Busy(s) /\ op[s].tx \in Requests
  BY CheckingOwner DEF AuthorizationSteps
<1>2. DataStep(s) /\ UNCHANGED claimVars
  BY DEF DataStep, authorizationFrame, IInv, TypeOK
<1>3. SameOwner(op[s], "deny") /\ "deny" \in PCs
  BY DEF SameOwner, PCs, AuthorizationSteps
<1>4. /\ TypeOK' /\ SurfaceStep(s) /\ KeepsOwnership(s)
      /\ op'[s].pc = "deny" /\ op'[s].tx = op[s].tx
  BY <1>1, <1>2, <1>3, GotoOn
<1>5. KeepsSending(s)
  BY <1>4, SendingFrame DEF authorizationFrame, UnsentSteps, GoneSteps, ApprovedSteps
<1>6. KeepsLock(s)
  BY <1>4, LockFrame DEF authorizationFrame
<1> QED
  BY <1>4, <1>5, <1>6 DEF Local

\* The check goes on with something it has read.
LEMMA LReads ==
  ASSUME IInv, NEW s \in Surfaces, op[s].pc \in {"gate", "permission"},
         op' \in [Surfaces -> OpType], op'[s].pc \in {"permission", "decide"},
         op'[s].tx = op[s].tx, op'[s].stage = op[s].stage,
         \A r \in Surfaces : r # s => op'[r] = op[r],
         sent' = sent, UNCHANGED authorizationFrame
  PROVE  Local(s)
<1>1. /\ Busy(s) /\ op[s].tx \in Requests
      /\ op[s].stage = 1 => Resolves(op[s])
      /\ op[s].stage \in {2, 3} => Processes(op[s])
      /\ op[s].stage \in {1, 2, 3}
  BY CheckingOwner DEF AuthorizationSteps
<1>2. DataStep(s) /\ UNCHANGED claimVars
  BY DEF DataStep, authorizationFrame, IInv, TypeOK
<1>3. (Resolves(op[s]) /\ Resolves(op'[s])) \/ (Processes(op[s]) /\ Processes(op'[s]))
  BY <1>1 DEF Resolves, Processes, AuthorizationSteps
<1>4. TypeOK' /\ SurfaceStep(s) /\ KeepsOwnership(s)
  BY <1>1, <1>2, <1>3, MoveOn
<1>5. KeepsSending(s)
  BY SendingFrame DEF authorizationFrame, UnsentSteps, GoneSteps, ApprovedSteps
<1>6. KeepsLock(s)
  <2>1. operationLock' = operationLock
    BY DEF authorizationFrame
  <2>2. LastCheck(s)' => LastCheck(s)
    BY DEF LastCheck
  <2> QED
    BY <2>1, <2>2 DEF KeepsLock, IInv, SInv, SignsUnderLock
<1> QED
  BY <1>4, <1>5, <1>6 DEF Local

LEMMA LPassGate == ASSUME IInv, NEW s \in Surfaces, PassGate(s) PROVE Local(s)
<1>1. op[s].pc = "gate" /\ UNCHANGED authorizationFrame
  BY DEF PassGate, At
<1>2. CASE op' = [op EXCEPT ![s].pc = "permission", ![s].epoch = revocationEpoch] /\ sent' = sent
  <2>1. op \in [Surfaces -> OpType] /\ op[s] \in OpType /\ revocationEpoch \in 0..MaxRevocations
    BY DEF IInv, TypeOK
  <2>2. op' = [op EXCEPT ![s] = [op[s] EXCEPT !.pc = "permission", !.epoch = revocationEpoch]]
    BY <1>2, <2>1
  <2>3. [op[s] EXCEPT !.pc = "permission", !.epoch = revocationEpoch] \in OpType
    BY <2>1 DEF OpType, AuthorizationSteps
  <2>4. /\ op' \in [Surfaces -> OpType] /\ op'[s].pc = "permission"
        /\ op'[s].tx = op[s].tx /\ op'[s].stage = op[s].stage
        /\ \A r \in Surfaces : r # s => op'[r] = op[r]
    BY <2>1, <2>2, <2>3 DEF OpType
  <2> QED
    BY <1>1, <1>2, <2>4, LReads
<1>3. CASE Authorized(s)
  BY <1>1, <1>3, LAuthorized
<1>4. CASE Goto(s, "deny") /\ sent' = sent
  BY <1>1, <1>4, LDenied
<1> QED
  BY <1>2, <1>3, <1>4 DEF PassGate

LEMMA LReadPermission == ASSUME IInv, NEW s \in Surfaces, ReadPermission(s) PROVE Local(s)
<1>1. op \in [Surfaces -> OpType] /\ op[s] \in OpType /\ permission \in BOOLEAN
  BY DEF IInv, TypeOK
<1>2. op' = [op EXCEPT ![s] = [op[s] EXCEPT !.pc = "decide", !.seen = permission]]
  BY <1>1 DEF ReadPermission
<1>3. [op[s] EXCEPT !.pc = "decide", !.seen = permission] \in OpType
  BY <1>1 DEF OpType, AuthorizationSteps
<1>4. /\ op' \in [Surfaces -> OpType] /\ op'[s].pc = "decide"
      /\ op'[s].tx = op[s].tx /\ op'[s].stage = op[s].stage
      /\ \A r \in Surfaces : r # s => op'[r] = op[r]
  BY <1>1, <1>2, <1>3 DEF OpType
<1> QED
  BY <1>4, LReads DEF ReadPermission, At

LEMMA LDecide == ASSUME IInv, NEW s \in Surfaces, Decide(s) PROVE Local(s)
<1>1. op[s].pc = "decide" /\ UNCHANGED authorizationFrame
  BY DEF Decide, At
<1>2. Authorized(s) \/ (Goto(s, "deny") /\ sent' = sent)
  BY DEF Decide
<1> QED
  BY <1>1, <1>2, LAuthorized, LDenied

LEMMA LDeny == ASSUME IInv, NEW s \in Surfaces, Deny(s) PROVE Local(s)
<1>1. /\ op[s].pc = "deny" /\ Busy(s) /\ op[s].tx \in Requests
      /\ op[s].stage = 1 => Resolves(op[s])
      /\ op[s].stage # 1 => Processes(op[s])
  BY CheckingOwner DEF Deny, At, AuthorizationSteps
<1>2. DataStep(s)
  BY DEF Deny, DataStep, WriteResult, UnlockIfHeld, GiveUp, Tx, Results, Denials, IInv, TypeOK
<1>3. CASE GiveUp(s) /\ UNCHANGED operationLock /\ op[s].stage = 1
  <2>1. Fulfil(s) /\ sent' = sent /\ pending' \subseteq pending /\ operationLock' = operationLock
    BY <1>3 DEF Deny, GiveUp
  <2> QED
    BY <1>1, <1>2, <1>3, <2>1, LetGo, DoneLocal DEF Local
<1>4. CASE Goto(s, "failHistory") /\ UnlockIfHeld(s) /\ UNCHANGED claimVars /\ op[s].stage # 1
  <2>1. SameOwner(op[s], "failHistory") /\ "failHistory" \in PCs
    BY <1>1, <1>4 DEF SameOwner, PCs, ProcessorSteps
  <2>2. /\ TypeOK' /\ SurfaceStep(s) /\ KeepsOwnership(s)
        /\ op'[s].pc = "failHistory" /\ op'[s].tx = op[s].tx
    BY <1>1, <1>2, <1>4, <2>1, GotoOn
  <2>3. KeepsSending(s)
    BY <1>1, <2>2, SendingFrame DEF Deny, Tx, UnsentSteps, GoneSteps, ApprovedSteps
  <2>4. KeepsLock(s)
    BY <1>4, <2>2, LockFrame
  <2> QED
    BY <2>2, <2>3, <2>4 DEF Local
<1> QED
  BY <1>3, <1>4 DEF Deny

-----------------------------------------------------------------------------
(* Everybody else.                                                           *)

LEMMA OwnershipFrame ==
  ASSUME Ownership, op' = op, revoker' = revoker, UNCHANGED claimVars, reset' = reset
  PROVE  Ownership'
<1>1. SurfacesOwn'
  BY DEF Ownership, SurfacesOwn, Busy, Held, claimVars
<1>2. RevokersOwn' /\ BarrierOwn'
  BY DEF Ownership, RevokersOwn, BarrierOwn, claimVars
<1> QED
  BY <1>1, <1>2 DEF Ownership

LEMMA SendsOnceFrame ==
  ASSUME SendsOnce, TypeOK, op' = op, sent' = sent, NewRequests' \subseteq NewRequests,
         pending' \subseteq pending \union (NewRequests \ NewRequests')
  PROVE  SendsOnce'
<1>1. \A t \in NewRequests' : sent'[t] = 0 /\ t \notin pending'
  BY DEF SendsOnce
<1>2. \A s \in Surfaces : Busy(s)' => op'[s].tx \notin NewRequests'
  BY DEF SendsOnce, Busy
<1>3. \A t \in pending' : sent'[t] = 0
  BY DEF SendsOnce
<1>4. ASSUME NEW s \in Surfaces, op[s].pc \in GoneSteps PROVE op[s].tx \notin pending'
  BY <1>4 DEF SendsOnce, Busy, GoneSteps, ApprovedSteps
<1> QED
  BY <1>1, <1>2, <1>3, <1>4 DEF SendsOnce

LEMMA LockStays ==
  ASSUME SignsUnderLock, op' = op, operationLock' = operationLock, accounts' = accounts
  PROVE  SignsUnderLock'
BY DEF SignsUnderLock, LastCheck

\* Intake: the tables do not know the request yet.
IntakeStep(t) == Ask(t) \/ AuthorizeIntake(t) \/ PinAccount(t) \/ SaveRequest(t) \/ UpdateBadge(t) \/ Answer(t)

LEMMA TIntake == ASSUME TypeOK, NEW t \in Requests, IntakeStep(t) PROVE TypeOK'
<1>1. /\ intake' \in [Requests -> {"idle", "authorize", "account", "save", "badge", "done"}]
      /\ pending' \subseteq Requests
  BY DEF TypeOK, IntakeStep, Ask, AuthorizeIntake, PinAccount, SaveRequest, UpdateBadge, Answer
<1>2. txResult' \in [Requests -> Results \union {"none"}]
  BY DEF TypeOK, IntakeStep, Ask, AuthorizeIntake, PinAccount, SaveRequest, UpdateBadge, Answer,
     WriteResult, Results, Denials
<1>3. dapp' \in [Requests -> Results \union {"idle", "waiting"}]
  BY DEF TypeOK, IntakeStep, Ask, AuthorizeIntake, PinAccount, SaveRequest, UpdateBadge, Answer
<1>4. UNCHANGED intakeFrame
  BY DEF IntakeStep, Ask, AuthorizeIntake, PinAccount, SaveRequest, UpdateBadge, Answer
<1> QED
  BY <1>1, <1>2, <1>3, <1>4 DEF TypeOK, ClaimsTypeOK, intakeFrame, claimVars, gateVars, boundVars

LEMMA SIntake == ASSUME IInv, NEW t \in Requests, IntakeStep(t) PROVE SInv'
<1>1. UNCHANGED intakeFrame
  BY DEF IntakeStep, Ask, AuthorizeIntake, PinAccount, SaveRequest, UpdateBadge, Answer
<1>2. Ownership' /\ SignsUnderLock'
  BY <1>1, OwnershipFrame, LockStays DEF intakeFrame, IInv, SInv
<1>3. SendsOnce'
  <2>1. NewRequests' \subseteq NewRequests
    BY DEF NewRequests, IInv, TypeOK, IntakeStep, Ask, AuthorizeIntake, PinAccount, SaveRequest,
       UpdateBadge, Answer
  <2>2. pending' \subseteq pending \union (NewRequests \ NewRequests')
    BY DEF NewRequests, IInv, TypeOK, IntakeStep, Ask, AuthorizeIntake, PinAccount, SaveRequest,
       UpdateBadge, Answer
  <2> QED
    BY <1>1, <2>1, <2>2, SendsOnceFrame DEF intakeFrame, IInv, SInv
<1> QED
  BY <1>2, <1>3 DEF SInv

\* A surface takes the claim of a request that nobody owns.
LEMMA LClaim ==
  ASSUME IInv, NEW s \in Surfaces, NEW t \in Requests, NEW pc \in {"rejectRead", "claimed"},
         Claim(s, t, pc)
  PROVE  IInv'
<1>1. /\ op[s].pc = "idle" /\ t \notin NewRequests /\ s \in Tokens /\ s # None
      /\ walletResetClaim = FALSE /\ claims[t] = None /\ externalClaims[t] = None
  BY DEF Claim, At, InstallClaims, CanResolve, NewRequests, IInv, TypeOK, ClaimsTypeOK
<1>2. /\ claims' \in [Keys -> Tokens \union {None}]
      /\ claims'[t] = s /\ \A k \in Requests : k # t => claims'[k] = claims[k]
      /\ externalClaims' = externalClaims /\ walletResetClaim' = walletResetClaim
  BY <1>1 DEF Claim, InstallClaims, Requests, IInv, TypeOK, ClaimsTypeOK
<1>3. /\ op' \in [Surfaces -> OpType]
      /\ op'[s].pc = pc /\ op'[s].tx = t
      /\ \A r \in Surfaces : r # s => op'[r] = op[r]
  <2>1. /\ [IdleOp EXCEPT !.pc = pc, !.tx = t] \in OpType
        /\ [IdleOp EXCEPT !.pc = pc, !.tx = t].pc = pc /\ [IdleOp EXCEPT !.pc = pc, !.tx = t].tx = t
    <3>1. IdleOp \in OpType /\ pc \in PCs
      BY IdleOpFields DEF PCs, HandlerSteps, RejectSteps
    <3> QED
      BY <3>1 DEF OpType, PCs
  <2> QED
    BY <2>1 DEF Claim, IInv, TypeOK
<1>4. UNCHANGED <<surfaceFrame, pending, txResult, history, sent, processingTxIds, operationLock>>
  BY DEF Claim
<1>5. TypeOK'
  BY <1>2, <1>3, <1>4 DEF IInv, TypeOK, ClaimsTypeOK, surfaceFrame, gateVars, boundVars
<1>6. ASSUME NEW r \in Surfaces, r # s, Busy(r) PROVE Held(r) /\ op[r].tx # t
  BY <1>1, <1>6 DEF IInv, SInv, Ownership, SurfacesOwn, Held
<1>7. SurfacesOwn'
  <2>1. ASSUME NEW r \in Surfaces, Busy(r)' PROVE Held(r)'
    <3>1. CASE r = s
      BY <1>1, <1>2, <1>3, <3>1 DEF Held, Resolves, HandlerSteps, RejectSteps
    <3>2. CASE r # s
      BY <1>2, <1>3, <1>6, <2>1, <3>2 DEF Held, Busy
    <3> QED
      BY <3>1, <3>2
  <2>2. ASSUME NEW r \in Surfaces, NEW k \in Requests, claims'[k] = r \/ externalClaims'[k] = r
        PROVE  Busy(r)' /\ op'[r].tx = k
    <3>1. CASE k = t
      <4>1. r = s
        BY <1>1, <1>2, <2>2, <3>1
      <4> QED
        BY <1>3, <3>1, <4>1 DEF Busy
    <3>2. CASE k # t
      <4>1. Busy(r) /\ op[r].tx = k
        BY <1>2, <2>2, <3>2 DEF IInv, SInv, Ownership, SurfacesOwn
      <4>2. r # s
        BY <1>1, <4>1 DEF Busy
      <4> QED
        BY <1>3, <4>1, <4>2 DEF Busy
    <3> QED
      BY <3>1, <3>2
  <2>3. \A k \in Requests : externalClaims'[k] \in Surfaces \union {None}
    BY <1>2 DEF IInv, SInv, Ownership, SurfacesOwn
  <2> QED
    BY <2>1, <2>2, <2>3 DEF SurfacesOwn
<1>8. RevokersOwn'
  <2>1. ASSUME NEW v \in Revokers, NEW k \in revoker[v].mine PROVE claims'[k] = v
    <3>1. claims[k] = v /\ v # None /\ k \in Requests
      BY <2>1 DEF IInv, SInv, Ownership, RevokersOwn, TypeOK, RevokerType
    <3> QED
      BY <1>1, <1>2, <3>1
  <2> QED
    BY <1>4, <2>1 DEF surfaceFrame, RevokersOwn, IInv, SInv, Ownership
<1>9. BarrierOwn'
  BY <1>1, <1>2, <1>4 DEF surfaceFrame, BarrierOwn, IInv, SInv, Ownership
<1>10. SendsOnce'
  <2>1. NewRequests' = NewRequests /\ pending' = pending /\ sent' = sent
    BY <1>4 DEF NewRequests, surfaceFrame
  <2>2. op'[s].pc \notin UnsentSteps \union GoneSteps
    BY <1>3 DEF UnsentSteps, GoneSteps, ApprovedSteps
  <2>3. \A r \in Surfaces : Busy(r)' => op'[r].tx \notin NewRequests
    BY <1>1, <1>3 DEF Busy, IInv, SInv, SendsOnce
  <2>4. \A r \in Surfaces :
          /\ op'[r].pc \in UnsentSteps => sent[op'[r].tx] = 0
          /\ op'[r].pc \in GoneSteps => op'[r].tx \notin pending
    BY <1>3, <2>2 DEF IInv, SInv, SendsOnce
  <2> QED
    BY <2>1, <2>3, <2>4 DEF SendsOnce, IInv, SInv
<1>11. SignsUnderLock'
  BY <1>3, <1>4 DEF surfaceFrame, SignsUnderLock, LastCheck, IInv, SInv
<1> QED
  BY <1>5, <1>7, <1>8, <1>9, <1>10, <1>11 DEF IInv, SInv, Ownership

-----------------------------------------------------------------------------
(* A revocation, and what the user and the browser do.                       *)

RevokerStep(v) ==
  \/ BeginRevocation(v) \/ DeletePermission(v) \/ SnapshotPrompts(v) \/ FinishRevocation(v)

LEMMA RevokerFields ==
  ASSUME TypeOK, NEW v \in Revokers
  PROVE  /\ revoker[v] \in RevokerType /\ revoker[v].mine \subseteq Requests
         /\ revoker[v].removed \subseteq Requests /\ revoker[v].todo \subseteq Requests
BY DEF TypeOK, RevokerType

\* One call of handleRevokeDappPermission changes its own record only.
LEMMA RevokerFacts ==
  ASSUME TypeOK, NEW v \in Revokers, NEW rec \in RevokerType,
         revoker' = [revoker EXCEPT ![v] = rec]
  PROVE  /\ revoker' \in [Revokers -> RevokerType] /\ revoker'[v] = rec
         /\ \A u \in Revokers : u # v => revoker'[u] = revoker[u]
BY DEF TypeOK

LEMMA LRevoker == ASSUME IInv, NEW v \in Revokers, RevokerStep(v) PROVE IInv'
<1>1. revoker \in [Revokers -> RevokerType] /\ revoker[v] \in RevokerType
  BY DEF IInv, TypeOK
<1>2. PICK rec \in RevokerType :
        /\ revoker' = [revoker EXCEPT ![v] = rec]
        /\ rec.pc # "expire" /\ rec.mine = {} /\ rec.removed = {}
  <2>1. IdleRevoker \in RevokerType /\ IdleRevoker.pc = "idle" /\ IdleRevoker.mine = {}
        /\ IdleRevoker.removed = {}
    BY DEF IdleRevoker, RevokerType
  <2>2. CASE FinishRevocation(v)
    BY <2>1, <2>2 DEF FinishRevocation
  <2>3. CASE BeginRevocation(v) \/ DeletePermission(v) \/ SnapshotPrompts(v)
    <3>1. revoker[v].mine = {} /\ revoker[v].removed = {}
      BY <2>3 DEF BeginRevocation, DeletePermission, SnapshotPrompts, IInv, SInv, Ownership, RevokersOwn
    <3>2. CASE BeginRevocation(v) \/ DeletePermission(v)
      <4>1. PICK pc \in {"delete", "snapshot"} : revoker' = [revoker EXCEPT ![v] = [revoker[v] EXCEPT !.pc = pc]]
        BY <1>1, <3>2 DEF BeginRevocation, DeletePermission
      <4>2. [revoker[v] EXCEPT !.pc = pc] \in RevokerType
        BY <1>1 DEF RevokerType
      <4> QED
        BY <1>1, <3>1, <4>1, <4>2 DEF RevokerType
    <3>3. CASE SnapshotPrompts(v)
      <4> DEFINE rec == [revoker[v] EXCEPT !.pc = "claim", !.todo = pending \intersect Injected]
      <4>1. revoker' = [revoker EXCEPT ![v] = rec]
        BY <1>1, <3>3 DEF SnapshotPrompts
      <4>2. pending \intersect Injected \in SUBSET Requests
        OBVIOUS
      <4>3. rec \in RevokerType /\ rec.pc = "claim" /\ rec.mine = {} /\ rec.removed = {}
        BY <1>1, <3>1, <4>2 DEF RevokerType
      <4> QED
        BY <4>1, <4>3
    <3> QED
      BY <2>3, <3>2, <3>3
  <2> QED
    BY <2>2, <2>3 DEF RevokerStep
<1>3. /\ revoker' \in [Revokers -> RevokerType] /\ revoker'[v] = rec
      /\ \A u \in Revokers : u # v => revoker'[u] = revoker[u]
  BY <1>2, RevokerFacts DEF IInv
<1>4. /\ UNCHANGED <<claimVars, revokerFrame, pending, txResult>>
      /\ permission' \in BOOLEAN /\ revoking' \in BOOLEAN /\ overlapped' \in BOOLEAN
      /\ revocationEpoch' \in 0..MaxRevocations
  <2>1. UNCHANGED <<claimVars, revokerFrame, pending, txResult>>
    BY DEF RevokerStep, BeginRevocation, DeletePermission, SnapshotPrompts, FinishRevocation
  <2>2. permission' \in BOOLEAN /\ revoking' \in BOOLEAN /\ overlapped' \in BOOLEAN
    BY DEF RevokerStep, BeginRevocation, DeletePermission, SnapshotPrompts, FinishRevocation, gateVars,
       IInv, TypeOK
  <2>3. revocationEpoch' \in 0..MaxRevocations
    <3>1. revocationEpoch \in Nat /\ revocationEpoch <= MaxRevocations
      BY DEF IInv, TypeOK
    <3>2. \/ revocationEpoch' = revocationEpoch
          \/ revocationEpoch < MaxRevocations /\ revocationEpoch' = revocationEpoch + 1
      BY DEF RevokerStep, BeginRevocation, DeletePermission, SnapshotPrompts, FinishRevocation, gateVars
    <3> QED
      BY <3>1, <3>2
  <2> QED
    BY <2>1, <2>2, <2>3
<1>5. TypeOK'
  BY <1>3, <1>4 DEF claimVars, revokerFrame, boundVars, IInv, TypeOK, ClaimsTypeOK
<1>6. SurfacesOwn' /\ BarrierOwn'
  BY <1>4 DEF claimVars, revokerFrame, SurfacesOwn, BarrierOwn, Busy, Held, IInv, SInv, Ownership
<1>7. RevokersOwn'
  BY <1>2, <1>3, <1>4 DEF claimVars, RevokersOwn, IInv, SInv, Ownership
<1>8. SendsOnce'
  BY <1>4, SendsOnceFrame DEF revokerFrame, NewRequests, IInv, SInv
<1>9. SignsUnderLock'
  BY <1>4, LockStays DEF revokerFrame, IInv, SInv
<1> QED
  BY <1>5, <1>6, <1>7, <1>8, <1>9 DEF IInv, SInv, Ownership

\* The exception of a revocation touches its own record and the gate only.
LEMMA LRevocationThrows == ASSUME IInv, NEW v \in Revokers, RevocationThrows(v) PROVE IInv'
<1>1. revoker \in [Revokers -> RevokerType] /\ revoker[v] \in RevokerType
  BY DEF IInv, TypeOK
<1>2. /\ UNCHANGED <<claimVars, revokerFrame, pending, txResult, permission, revocationEpoch, overlapped>>
      /\ revoking' = FALSE
  BY DEF RevocationThrows
<1>3. PICK rec \in RevokerType :
        /\ revoker' = [revoker EXCEPT ![v] = rec]
        /\ rec.removed = revoker[v].removed /\ rec.mine = revoker[v].mine
        /\ rec.pc # "threw" => revoker[v].mine = {}
  <2>1. CASE revoker[v].pc = "expire"
    <3>1. /\ [revoker[v] EXCEPT !.pc = "threw"] \in RevokerType
          /\ [revoker[v] EXCEPT !.pc = "threw"].pc = "threw"
          /\ [revoker[v] EXCEPT !.pc = "threw"].mine = revoker[v].mine
          /\ [revoker[v] EXCEPT !.pc = "threw"].removed = revoker[v].removed
      BY <1>1 DEF RevokerType
    <3>2. revoker' = [revoker EXCEPT ![v] = [revoker[v] EXCEPT !.pc = "threw"]]
      BY <1>1, <2>1 DEF RevocationThrows
    <3> QED
      BY <3>1, <3>2
  <2>2. CASE revoker[v].pc # "expire"
    <3>1. revoker[v].mine = {} /\ revoker[v].removed = {}
      BY <2>2 DEF RevocationThrows, Revokes, IInv, SInv, Ownership, RevokersOwn
    <3>2. IdleRevoker \in RevokerType /\ IdleRevoker.mine = {} /\ IdleRevoker.removed = {}
      BY DEF IdleRevoker, RevokerType
    <3>3. revoker' = [revoker EXCEPT ![v] = IdleRevoker]
      BY <1>1, <2>2 DEF RevocationThrows
    <3> QED
      BY <3>1, <3>2, <3>3
  <2> QED
    BY <2>1, <2>2
<1>4. /\ revoker' \in [Revokers -> RevokerType] /\ revoker'[v] = rec
      /\ \A u \in Revokers : u # v => revoker'[u] = revoker[u]
  BY <1>3, RevokerFacts DEF IInv
<1>5. TypeOK'
  BY <1>2, <1>4 DEF claimVars, revokerFrame, boundVars, IInv, TypeOK, ClaimsTypeOK
<1>6. SurfacesOwn' /\ BarrierOwn'
  BY <1>2 DEF claimVars, revokerFrame, SurfacesOwn, BarrierOwn, Busy, Held, IInv, SInv, Ownership
<1>7. RevokersOwn'
  BY <1>2, <1>3, <1>4 DEF claimVars, RevokersOwn, IInv, SInv, Ownership
<1>8. SendsOnce' /\ SignsUnderLock'
  BY <1>2, SendsOnceFrame, LockStays DEF revokerFrame, NewRequests, IInv, SInv
<1> QED
  BY <1>5, <1>6, <1>7, <1>8 DEF IInv, SInv, Ownership

\* Tables that change for free requests, or for requests of a revoker, leave the
\* surfaces what they own.
LEMMA SurfacesKeep ==
  ASSUME IInv, op' = op, externalClaims' = externalClaims,
         \A s \in Surfaces, t \in Requests : claims'[t] = s <=> claims[t] = s,
         \A t \in Requests : claims[t] = None /\ externalClaims[t] # None => claims'[t] = None
  PROVE  SurfacesOwn'
<1>1. ASSUME NEW s \in Surfaces, Busy(s)' PROVE Held(s)'
  <2>1. Held(s)
    BY <1>1 DEF Busy, IInv, SInv, Ownership, SurfacesOwn
  <2>2. s # None
    OBVIOUS
  <2> QED
    BY <2>1, <2>2 DEF Held
<1>2. ASSUME NEW s \in Surfaces, NEW t \in Requests, claims'[t] = s \/ externalClaims'[t] = s
      PROVE  Busy(s)' /\ op'[s].tx = t
  BY <1>2 DEF Busy, IInv, SInv, Ownership, SurfacesOwn
<1>3. \A t \in Requests : externalClaims'[t] \in Surfaces \union {None}
  BY DEF IInv, SInv, Ownership, SurfacesOwn
<1> QED
  BY <1>1, <1>2, <1>3 DEF SurfacesOwn

LEMMA LClaimPrompts == ASSUME IInv, NEW v \in Revokers, ClaimPrompts(v) PROVE IInv'
<1> DEFINE won == {t \in revoker[v].todo : CanResolve({t})}
           rec == [revoker[v] EXCEPT !.pc = "expire", !.todo = {}, !.mine = won]
<1>1. revoker \in [Revokers -> RevokerType] /\ revoker[v] \in RevokerType
  BY DEF IInv, TypeOK
<1>2. won \in SUBSET Requests /\ v \in Tokens /\ v # None
  BY RevokerFields DEF IInv
<1>3. \A t \in won : claims[t] = None /\ externalClaims[t] = None
  BY DEF CanResolve
<1>4. won # {} => walletResetClaim = FALSE
  BY DEF CanResolve, IInv, TypeOK, ClaimsTypeOK
<1>5. /\ revoker' = [revoker EXCEPT ![v] = rec]
      /\ UNCHANGED <<revokerFrame, gateVars, pending, txResult, permission>>
  BY <1>1 DEF ClaimPrompts
<1>6. /\ claims' \in [Keys -> Tokens \union {None}]
      /\ \A t \in won : claims'[t] = v
      /\ \A t \in Requests : t \notin won => claims'[t] = claims[t]
      /\ externalClaims' = externalClaims /\ walletResetClaim' = walletResetClaim
  <2>1. CASE won = {}
    BY <2>1 DEF ClaimPrompts, claimVars, IInv, TypeOK, ClaimsTypeOK
  <2>2. CASE won # {}
    <3>1. InstallClaims(v, won)
      BY <2>2 DEF ClaimPrompts
    <3> HIDE DEF won
    <3> QED
      BY <1>2, <3>1 DEF InstallClaims, Requests, IInv, TypeOK, ClaimsTypeOK
  <2> QED
    BY <2>1, <2>2
<1>7. revoker[v].removed = {}
  BY DEF ClaimPrompts, IInv, SInv, Ownership, RevokersOwn
<1> HIDE DEF won
<1>8. rec \in RevokerType /\ rec.mine = won /\ rec.removed = {}
  BY <1>1, <1>2, <1>7 DEF RevokerType
<1>9. /\ revoker' \in [Revokers -> RevokerType] /\ revoker'[v] = rec
      /\ \A u \in Revokers : u # v => revoker'[u] = revoker[u]
  BY <1>5, <1>8, RevokerFacts DEF IInv
<1> HIDE DEF rec
<1>10. TypeOK'
  BY <1>5, <1>6, <1>9 DEF revokerFrame, gateVars, boundVars, IInv, TypeOK, ClaimsTypeOK
<1>11. SurfacesOwn'
  <2>1. \A s \in Surfaces : s # v /\ s # None
    OBVIOUS
  <2>2. \A s \in Surfaces, t \in Requests : claims'[t] = s <=> claims[t] = s
    BY <1>3, <1>6, <2>1
  <2> QED
    BY <1>3, <1>5, <1>6, <2>2, SurfacesKeep DEF revokerFrame
<1>12. RevokersOwn'
  <2>1. ASSUME NEW u \in Revokers, NEW t \in revoker'[u].mine PROVE claims'[t] = u
    <3>1. CASE u = v
      BY <1>6, <1>8, <1>9, <2>1, <3>1
    <3>2. CASE u # v
      <4>1. t \in revoker[u].mine /\ claims[t] = u /\ u # None /\ t \in Requests
        BY <1>9, <2>1, <3>2, RevokerFields DEF IInv, SInv, Ownership, RevokersOwn
      <4> QED
        BY <1>3, <1>6, <4>1
    <3> QED
      BY <3>1, <3>2
  <2>2. ASSUME NEW u \in Revokers
        PROVE  /\ revoker'[u].removed \subseteq revoker'[u].mine
               /\ revoker'[u].pc \notin {"expire", "threw"} => revoker'[u].mine = {}
    <3>1. CASE u = v
      <4>1. rec.pc = "expire"
        BY <1>1 DEF rec, RevokerType
      <4> QED
        BY <1>8, <1>9, <3>1, <4>1
    <3>2. CASE u # v
      BY <1>9, <3>2 DEF IInv, SInv, Ownership, RevokersOwn
    <3> QED
      BY <3>1, <3>2
  <2> QED
    BY <2>1, <2>2 DEF RevokersOwn
<1>13. BarrierOwn'
  <2>1. CASE won = {}
    BY <1>5, <1>6, <2>1 DEF revokerFrame, BarrierOwn, IInv, SInv, Ownership
  <2>2. CASE won # {}
    BY <1>4, <1>5, <1>6, <2>2 DEF revokerFrame, BarrierOwn, IInv, SInv, Ownership
  <2> QED
    BY <2>1, <2>2
<1>14. SendsOnce' /\ SignsUnderLock'
  BY <1>5, SendsOnceFrame, LockStays DEF revokerFrame, NewRequests, IInv, SInv
<1> QED
  BY <1>10, <1>11, <1>12, <1>13, <1>14 DEF IInv, SInv, Ownership

\* A revoker that releases a prompt it had claimed.
LEMMA LRelease ==
  ASSUME IInv, NEW v \in Revokers, NEW t \in revoker[v].mine, ReleaseClaims(v, {t}),
         NEW rec \in RevokerType, revoker' = [revoker EXCEPT ![v] = rec],
         rec.mine = revoker[v].mine \ {t}, rec.removed = revoker[v].removed \ {t},
         rec.pc = revoker[v].pc,
         UNCHANGED <<revokerFrame, gateVars, pending, permission>>,
         txResult' \in [Requests -> Results \union {"none"}]
  PROVE  IInv'
<1>1. t \in Requests /\ v \in Tokens /\ v # None /\ claims[t] = v
  BY RevokerFields DEF IInv, SInv, Ownership, RevokersOwn
<1>2. /\ claims' \in [Keys -> Tokens \union {None}] /\ claims'[t] = None
      /\ \A k \in Requests : k # t => claims'[k] = claims[k]
      /\ externalClaims' = externalClaims /\ walletResetClaim' = walletResetClaim
  BY <1>1, ReleaseFacts DEF IInv
<1>3. /\ revoker' \in [Revokers -> RevokerType] /\ revoker'[v] = rec
      /\ \A u \in Revokers : u # v => revoker'[u] = revoker[u]
  BY RevokerFacts DEF IInv
<1>4. TypeOK'
  BY <1>2, <1>3 DEF revokerFrame, gateVars, boundVars, IInv, TypeOK, ClaimsTypeOK
<1>5. SurfacesOwn'
  <2>1. \A s \in Surfaces : s # v /\ s # None
    OBVIOUS
  <2>2. \A s \in Surfaces, k \in Requests : claims'[k] = s <=> claims[k] = s
    BY <1>1, <1>2, <2>1
  <2> QED
    BY <1>1, <1>2, <2>2, SurfacesKeep DEF revokerFrame
<1>6. RevokersOwn'
  <2>1. ASSUME NEW u \in Revokers, NEW k \in revoker'[u].mine PROVE claims'[k] = u
    <3>1. k \in revoker[u].mine /\ (u = v => k # t)
      BY <1>3, <2>1
    <3>2. claims[k] = u /\ k \in Requests
      BY <3>1, RevokerFields DEF IInv, SInv, Ownership, RevokersOwn
    <3> QED
      BY <1>1, <1>2, <3>1, <3>2
  <2>2. ASSUME NEW u \in Revokers
        PROVE  /\ revoker'[u].removed \subseteq revoker'[u].mine
               /\ revoker'[u].pc \notin {"expire", "threw"} => revoker'[u].mine = {}
    BY <1>3 DEF IInv, SInv, Ownership, RevokersOwn
  <2> QED
    BY <2>1, <2>2 DEF RevokersOwn
<1>7. BarrierOwn'
  BY <1>1, <1>2 DEF revokerFrame, BarrierOwn, IInv, SInv, Ownership
<1>8. SendsOnce' /\ SignsUnderLock'
  BY SendsOnceFrame, LockStays DEF revokerFrame, NewRequests, IInv, SInv
<1> QED
  BY <1>4, <1>5, <1>6, <1>7, <1>8 DEF IInv, SInv, Ownership

LEMMA LExpireRemove ==
  ASSUME IInv, NEW v \in Revokers, NEW t \in Requests, ExpireRemove(v, t) PROVE IInv'
<1>1. revoker \in [Revokers -> RevokerType] /\ revoker[v] \in RevokerType
  BY DEF IInv, TypeOK
<1>2. t \in revoker[v].mine /\ t \notin revoker[v].removed
  BY DEF ExpireRemove
<1>3. CASE t \in pending
  <2> DEFINE rec == [revoker[v] EXCEPT !.removed = @ \union {t}]
  <2>1. revoker' = [revoker EXCEPT ![v] = rec]
    BY <1>1, <1>3 DEF ExpireRemove
  <2>2. /\ rec \in RevokerType /\ rec.mine = revoker[v].mine /\ rec.pc = revoker[v].pc
        /\ rec.removed = revoker[v].removed \union {t}
    BY <1>1 DEF RevokerType
  <2> HIDE DEF rec
  <2>3. /\ revoker' \in [Revokers -> RevokerType] /\ revoker'[v] = rec
        /\ \A u \in Revokers : u # v => revoker'[u] = revoker[u]
    BY <2>1, <2>2, RevokerFacts DEF IInv
  <2>4. /\ UNCHANGED <<claimVars, revokerFrame, gateVars, txResult, permission>>
        /\ pending' = pending \ {t}
    BY <1>3 DEF ExpireRemove
  <2>5. TypeOK'
    BY <2>3, <2>4 DEF claimVars, revokerFrame, gateVars, boundVars, IInv, TypeOK, ClaimsTypeOK
  <2>6. SurfacesOwn' /\ BarrierOwn'
    BY <2>4 DEF claimVars, revokerFrame, SurfacesOwn, BarrierOwn, Busy, Held, IInv, SInv, Ownership
  <2>7. RevokersOwn'
    BY <1>2, <2>2, <2>3, <2>4 DEF claimVars, RevokersOwn, IInv, SInv, Ownership
  <2>8. SendsOnce' /\ SignsUnderLock'
    BY <2>4, SendsOnceFrame, LockStays DEF revokerFrame, NewRequests, IInv, SInv
  <2> QED
    BY <2>5, <2>6, <2>7, <2>8 DEF IInv, SInv, Ownership
<1>4. CASE t \notin pending
  <2> DEFINE rec == [revoker[v] EXCEPT !.mine = @ \ {t}]
  <2>1. revoker' = [revoker EXCEPT ![v] = rec]
    BY <1>1, <1>4 DEF ExpireRemove
  <2>2. /\ rec \in RevokerType /\ rec.mine = revoker[v].mine \ {t} /\ rec.pc = revoker[v].pc
        /\ rec.removed = revoker[v].removed \ {t}
    BY <1>1, <1>2 DEF RevokerType
  <2>3. txResult' \in [Requests -> Results \union {"none"}]
    BY DEF ExpireRemove, IInv, TypeOK
  <2> HIDE DEF rec
  <2> QED
    BY <1>2, <1>4, <2>1, <2>2, <2>3, LRelease DEF ExpireRemove
<1> QED
  BY <1>3, <1>4

LEMMA LExpireWrite ==
  ASSUME IInv, NEW v \in Revokers, NEW t \in Requests, ExpireWrite(v, t) PROVE IInv'
<1>1. revoker \in [Revokers -> RevokerType] /\ revoker[v] \in RevokerType
  BY DEF IInv, TypeOK
<1>2. t \in revoker[v].mine
  BY DEF ExpireWrite, IInv, SInv, Ownership, RevokersOwn
<1> DEFINE rec == [revoker[v] EXCEPT !.mine = @ \ {t}, !.removed = @ \ {t}]
<1>3. revoker' = [revoker EXCEPT ![v] = rec]
  BY <1>1 DEF ExpireWrite
<1>4. /\ rec \in RevokerType /\ rec.mine = revoker[v].mine \ {t} /\ rec.pc = revoker[v].pc
      /\ rec.removed = revoker[v].removed \ {t}
  BY <1>1 DEF RevokerType
<1>5. txResult' \in [Requests -> Results \union {"none"}]
  BY DEF ExpireWrite, WriteResult, Results, Denials, IInv, TypeOK
<1> HIDE DEF rec
<1> QED
  BY <1>2, <1>3, <1>4, <1>5, LRelease DEF ExpireWrite

LEMMA LGrantPermission == ASSUME IInv, GrantPermission PROVE IInv'
<1>1. TypeOK'
  BY DEF GrantPermission, claimVars, revokerFrame, gateVars, boundVars, IInv, TypeOK, ClaimsTypeOK
<1>2. SInv'
  BY OwnershipFrame, SendsOnceFrame, LockStays
     DEF GrantPermission, revokerFrame, NewRequests, IInv, SInv
<1> QED
  BY <1>1, <1>2 DEF IInv

\* The removal needs the operation lock, so nobody is past the last read of its account.
LEMMA LRemoveAccount == ASSUME IInv, NEW a \in Accounts, RemoveAccount(a) PROVE IInv'
<1>1. TypeOK'
  BY DEF RemoveAccount, claimVars, outsideVars, gateVars, boundVars, IInv, TypeOK, ClaimsTypeOK
<1>2. Ownership' /\ SendsOnce'
  BY OwnershipFrame, SendsOnceFrame DEF RemoveAccount, outsideVars, NewRequests, IInv, SInv
<1>3. SignsUnderLock'
  <2>1. \A s \in Surfaces : ~LastCheck(s) /\ op[s].pc \notin {"sign", "account"}
    BY DEF RemoveAccount, IInv, SInv, SignsUnderLock
  <2> QED
    BY <2>1 DEF RemoveAccount, SignsUnderLock, LastCheck
<1> QED
  BY <1>1, <1>2, <1>3 DEF IInv, SInv

-----------------------------------------------------------------------------
(* Reset, restart and startup cleanup.                                       *)

\* Behind the barrier no surface and no revoker is at work on a request.
LEMMA NobodyBusy ==
  ASSUME TypeOK, Ownership, walletResetClaim = TRUE
  PROVE  /\ \A s \in Surfaces : ~Busy(s)
         /\ \A v \in Revokers : revoker[v].mine = {}
<1>1. \A t \in Requests : claims[t] = None /\ externalClaims[t] = None
  BY DEF Ownership, BarrierOwn
<1>2. ASSUME NEW s \in Surfaces, Busy(s) PROVE FALSE
  <2>1. Held(s) /\ s # None
    BY <1>2 DEF Ownership, SurfacesOwn
  <2> QED
    BY <1>1, <2>1 DEF Held
<1>3. ASSUME NEW v \in Revokers, NEW t \in revoker[v].mine PROVE FALSE
  <2>1. claims[t] = v /\ v # None /\ t \in Requests
    BY <1>3, RevokerFields DEF Ownership, RevokersOwn
  <2> QED
    BY <1>1, <2>1
<1> QED
  BY <1>2, <1>3

\* A state in which no surface is at work: whatever the steps below wipe, nothing is lost
\* that an owner still needs.
LEMMA Quiescent ==
  ASSUME SendsOnce, TypeOK, \A s \in Surfaces : op'[s].pc = "idle",
         sent' = sent, pending' \subseteq pending, NewRequests' \subseteq NewRequests
  PROVE  SendsOnce' /\ SignsUnderLock'
<1>1. \A s \in Surfaces : op'[s].pc \notin UnsentSteps \union GoneSteps
  BY DEF UnsentSteps, GoneSteps, ApprovedSteps
<1>2. SendsOnce'
  BY <1>1 DEF SendsOnce, Busy
<1>3. SignsUnderLock'
  BY DEF SignsUnderLock, LastCheck
<1> QED
  BY <1>2, <1>3

LEMMA LBeginReset == ASSUME IInv, BeginReset PROVE IInv'
<1>1. /\ \A t \in Requests : claims[t] = None /\ externalClaims[t] = None
      /\ claims' = claims /\ externalClaims' = externalClaims /\ walletResetClaim' = TRUE
      /\ reset' = "checks"
  BY DEF BeginReset, InstallReset, CanReset, Requests
<1>2. resets' \in 0..MaxResets
  BY DEF BeginReset, IInv, TypeOK
<1>3. UNCHANGED <<resetFrame, durableVars, processingTxIds, operationLock>>
  BY DEF BeginReset
<1>4. TypeOK'
  BY <1>1, <1>2, <1>3 DEF resetFrame, durableVars, outsideVars, gateVars, IInv, TypeOK, ClaimsTypeOK
<1>5. SurfacesOwn' /\ RevokersOwn'
  BY <1>1, <1>3 DEF resetFrame, SurfacesOwn, RevokersOwn, Busy, Held, IInv, SInv, Ownership
<1>6. BarrierOwn'
  BY <1>1 DEF BarrierOwn
<1>7. SendsOnce' /\ SignsUnderLock'
  BY <1>3, SendsOnceFrame, LockStays DEF resetFrame, durableVars, outsideVars, NewRequests, IInv, SInv
<1> QED
  BY <1>4, <1>5, <1>6, <1>7 DEF IInv, SInv, Ownership

\* The other steps of a reset: the barrier is up and goes down only at the end.
LEMMA ResetStep ==
  ASSUME IInv, TypeOK', reset # "idle", UNCHANGED resetFrame, pending' \subseteq pending,
         claims' = claims, externalClaims' = externalClaims,
         \/ reset' = "idle" /\ walletResetClaim' = FALSE
         \/ reset' # "idle" /\ walletResetClaim' = walletResetClaim
  PROVE  IInv'
<1>1. walletResetClaim = TRUE /\ \A t \in Requests : claims[t] = None /\ externalClaims[t] = None
  BY DEF IInv, SInv, Ownership, BarrierOwn
<1>2. \A s \in Surfaces : op[s].pc = "idle"
  BY <1>1, NobodyBusy DEF Busy, IInv, SInv
<1>3. SendsOnce' /\ SignsUnderLock'
  BY <1>2, Quiescent DEF resetFrame, outsideVars, NewRequests, IInv, SInv
<1>4. SurfacesOwn' /\ RevokersOwn'
  BY DEF resetFrame, SurfacesOwn, RevokersOwn, Busy, Held, IInv, SInv, Ownership
<1>5. BarrierOwn'
  BY <1>1 DEF BarrierOwn
<1> QED
  BY <1>3, <1>4, <1>5 DEF IInv, SInv, Ownership

LEMMA LReset == ASSUME IInv, ResetNext \/ ResetThrows PROVE IInv'
<1>1. CASE ResetChecks
  <2>1. TypeOK'
    BY <1>1 DEF ResetChecks, FinishReset, claimVars, resetFrame, durableVars, outsideVars, gateVars,
       IInv, TypeOK, ClaimsTypeOK
  <2> QED
    BY <1>1, <2>1, ResetStep DEF ResetChecks, FinishReset, claimVars, durableVars
<1>2. CASE ResetResults
  <2>1. txResult' \in [Requests -> Results \union {"none"}]
    BY <1>2 DEF ResetResults
  <2>2. TypeOK'
    BY <1>2, <2>1 DEF ResetResults, claimVars, resetFrame, outsideVars, gateVars, IInv, TypeOK, ClaimsTypeOK
  <2> QED
    BY <1>2, <2>2, ResetStep DEF ResetResults, claimVars
<1>3. CASE ResetWallet
  <2>1. TypeOK'
    BY <1>3 DEF ResetWallet, FinishReset, claimVars, resetFrame, outsideVars, gateVars,
       IInv, TypeOK, ClaimsTypeOK
  <2> QED
    BY <1>3, <2>1, ResetStep DEF ResetWallet, FinishReset
<1>4. CASE ResetThrows
  <2>1. TypeOK'
    BY <1>4 DEF ResetThrows, claimVars, resetFrame, durableVars, outsideVars, gateVars,
       IInv, TypeOK, ClaimsTypeOK
  <2> QED
    BY <1>4, <2>1, ResetStep DEF ResetThrows, claimVars, durableVars
<1> QED
  BY <1>1, <1>2, <1>3, <1>4 DEF ResetNext

\* A new worker starts with empty tables; what was sent stays sent.
LEMMA LWorkerRestart == ASSUME IInv, WorkerRestart PROVE IInv'
<1>1. /\ op' \in [Surfaces -> OpType] /\ \A s \in Surfaces : op'[s].pc = "idle"
  BY IdleOpFields DEF WorkerRestart
<1>2. /\ claims' = [k \in Keys |-> None] /\ externalClaims' = [k \in Keys |-> None]
      /\ walletResetClaim' = FALSE /\ reset' = "idle"
  BY DEF WorkerRestart, LoseClaims
<1>3. /\ revoker' \in [Revokers -> RevokerType]
      /\ \A v \in Revokers : revoker'[v].mine = {} /\ revoker'[v].removed = {}
  BY DEF WorkerRestart, IdleRevoker, RevokerType
<1>4. intake' \in [Requests -> {"idle", "authorize", "account", "save", "badge", "done"}]
      /\ NewRequests' \subseteq NewRequests
  BY DEF WorkerRestart, NewRequests
<1>5. workerLife' \in 0..MaxWorkerLives /\ revocationEpoch' \in 0..MaxRevocations
  BY DEF WorkerRestart, IInv, TypeOK
<1>6. UNCHANGED <<durableVars, outsideVars, resets>>
  BY DEF WorkerRestart
<1>7. TypeOK'
  BY <1>1, <1>2, <1>3, <1>4, <1>5, <1>6 DEF WorkerRestart, durableVars, outsideVars, IInv, TypeOK, ClaimsTypeOK
<1>8. SurfacesOwn' /\ RevokersOwn' /\ BarrierOwn'
  <2>1. \A s \in Surfaces : s # None
    OBVIOUS
  <2>2. SurfacesOwn'
    BY <1>1, <1>2, <2>1 DEF SurfacesOwn, Busy, Requests
  <2> QED
    BY <1>2, <1>3, <2>2 DEF RevokersOwn, BarrierOwn, Requests
<1>9. SendsOnce' /\ SignsUnderLock'
  BY <1>1, <1>4, <1>6, Quiescent DEF durableVars, outsideVars, IInv, SInv
<1> QED
  BY <1>7, <1>8, <1>9 DEF IInv, SInv, Ownership

LEMMA LCleanup == ASSUME IInv, CleanupNext PROVE IInv'
<1>1. /\ cleanup' \in [due : BOOLEAN, stale : SUBSET Requests]
      /\ history' \in [Requests -> {"none", "processing", "pending", "failed"}]
  <2>1. CASE ReadStaleHistory
    BY <2>1 DEF ReadStaleHistory, durableVars, IInv, TypeOK
  <2>2. ASSUME NEW t \in Requests, FailStaleHistory(t)
        PROVE  /\ cleanup' \in [due : BOOLEAN, stale : SUBSET Requests]
               /\ history' \in [Requests -> {"none", "processing", "pending", "failed"}]
    BY <2>2 DEF FailStaleHistory, SetHistory, IInv, TypeOK
  <2> QED
    BY <2>1, <2>2 DEF CleanupNext
<1>2. /\ UNCHANGED <<claimVars, outsideVars, gateVars, boundVars, processingTxIds, operationLock,
                     intake, op, revoker, reset>>
      /\ UNCHANGED <<pending, txResult, permission, accounts>>
  BY DEF CleanupNext, ReadStaleHistory, FailStaleHistory, durableVars
<1>3. TypeOK'
  BY <1>1, <1>2 DEF claimVars, outsideVars, gateVars, boundVars, IInv, TypeOK, ClaimsTypeOK
<1>4. SInv'
  BY <1>2, OwnershipFrame, SendsOnceFrame, LockStays DEF outsideVars, NewRequests, IInv, SInv
<1> QED
  BY <1>3, <1>4 DEF IInv

-----------------------------------------------------------------------------
LEMMA InitInv == Init => IInv
<1> SUFFICES ASSUME Init PROVE IInv
  OBVIOUS
<1>1. \A s \in Surfaces : op[s].pc = "idle"
  BY IdleOpFields DEF Init
<1>2. \A v \in Revokers : revoker[v] \in RevokerType /\ revoker[v].mine = {} /\ revoker[v].removed = {}
  BY DEF Init, IdleRevoker, RevokerType
<1>3. TypeOK
  <2>1. ClaimsTypeOK
    BY DEF Init, ClaimsInit, ClaimsTypeOK
  <2>2. /\ revocationEpoch \in 0..MaxRevocations
        /\ workerLife \in 0..MaxWorkerLives /\ resets \in 0..MaxResets
    BY DEF Init
  <2>3. /\ sent \in [Requests -> Nat]
        /\ txResult \in [Requests -> Results \union {"none"}]
        /\ dapp \in [Requests -> Results \union {"idle", "waiting"}]
    BY DEF Init
  <2>4. op \in [Surfaces -> OpType] /\ revoker \in [Revokers -> RevokerType]
    BY <1>2, IdleOpFields DEF Init
  <2>5. cleanup \in [due : BOOLEAN, stale : SUBSET Requests]
    BY DEF Init
  <2>6. /\ pending \subseteq Requests /\ accounts \subseteq Accounts
        /\ processingTxIds \subseteq Requests /\ permission \in BOOLEAN /\ revoking \in BOOLEAN
        /\ overlapped \in BOOLEAN
    BY DEF Init
  <2> QED
    BY <2>1, <2>2, <2>3, <2>4, <2>5, <2>6 DEF Init, TypeOK
<1>4. \A s \in Surfaces : s # None
  OBVIOUS
<1>5. Ownership
  BY <1>1, <1>2, <1>4 DEF Init, ClaimsInit, Ownership, SurfacesOwn, RevokersOwn, BarrierOwn, Busy, Requests
<1>6. SendsOnce
  BY <1>1 DEF Init, SendsOnce, Busy, NewRequests, UnsentSteps, GoneSteps, ApprovedSteps
<1>7. SignsUnderLock
  BY <1>1 DEF SignsUnderLock, LastCheck
<1> QED
  BY <1>3, <1>5, <1>6, <1>7 DEF IInv, SInv

LEMMA LocalInv == ASSUME IInv, NEW s \in Surfaces, Local(s) PROVE IInv'
BY LocalOwnership, LocalSending, LocalLock DEF Local, IInv, SInv

LEMMA NextInv == IInv /\ [Next]_vars => IInv'
<1> SUFFICES ASSUME IInv, [Next]_vars PROVE IInv'
  OBVIOUS
<1>1. ASSUME NEW t \in Requests, IntakeNext(t) \/ Ask(t) PROVE IInv'
  BY <1>1, TIntake, SIntake DEF IntakeNext, IntakeStep, IInv
<1>2. ASSUME NEW s \in Surfaces, HandlerNext(s) PROVE IInv'
  BY <1>2, LocalInv, LRejectRead, LRejectRemove, LRejectWrite, LCheckProcessing, LReadPending,
     LPreflight, LConsume, LPassGate, LReadPermission, LDecide, LDeny, LTakeLease, LHandOff
     DEF HandlerNext
<1>3. ASSUME NEW s \in Surfaces, AcquireOperationLock(s) \/ ProcessorNext(s) PROVE IInv'
  BY <1>3, LocalInv, LAcquireOperationLock, LRecordProcessing, LPrepare, LSign, LRereadAccount,
     LProcessorFails, LRespond, LPublishSent, LWriteSuccess, LFailHistory, LFailResult, LFinally
     DEF ProcessorNext
<1>4. ASSUME NEW v \in Revokers, RevokerNext(v) \/ BeginRevocation(v) PROVE IInv'
  BY <1>4, LRevoker, LClaimPrompts, LExpireRemove, LExpireWrite DEF RevokerNext, RevokerStep
<1>5. CASE ResetNext \/ CleanupNext
  BY <1>5, LReset, LCleanup
<1>6. CASE EnvironmentNext
  <2>1. ASSUME NEW s \in Surfaces, NEW t \in Requests, Reject(s, t) \/ Confirm(s, t) PROVE IInv'
    BY <2>1, LClaim DEF Reject, Confirm
  <2> QED
    BY <1>1, <1>4, <1>6, <2>1, LGrantPermission, LRemoveAccount, LBeginReset, LWorkerRestart
       DEF EnvironmentNext
<1>7. CASE FaultNext
  BY <1>7, LReset, LHandlerThrows, LRevocationThrows, LocalInv DEF FaultNext
<1>8. CASE UNCHANGED vars
  <2>1. TypeOK'
    BY <1>8 DEF vars, claimVars, durableVars, outsideVars, gateVars, boundVars, IInv, TypeOK, ClaimsTypeOK
  <2>2. SInv'
    BY <1>8, OwnershipFrame, SendsOnceFrame, LockStays
       DEF vars, durableVars, outsideVars, NewRequests, IInv, SInv
  <2> QED
    BY <2>1, <2>2 DEF IInv
<1> QED
  BY <1>1, <1>2, <1>3, <1>4, <1>5, <1>6, <1>7, <1>8 DEF Next

LEMMA Inductive == Spec => []IInv
BY InitInv, NextInv, PTL DEF Spec

-----------------------------------------------------------------------------
\* The life of a request keeps its types, also when handlers throw half way and when the
\* worker dies.
THEOREM TypeCorrect == Spec => []TypeOK
<1>1. IInv => TypeOK
  BY DEF IInv
<1> QED
  BY <1>1, Inductive, PTL

\* The seam between handler and processor: from the removal of the stored prompt to the
\* last write of its outcome the request has an owner, so no reset and no late action starts,
\* and after an exception the owner stays as long as the worker.
THEOREM ConsumedAlwaysCovered == Spec => []ConsumedIsCovered
<1>1. ASSUME IInv PROVE ConsumedIsCovered
  <2> SUFFICES ASSUME NEW s \in Surfaces, op[s].pc \in ApprovedSteps \union SettlingSteps \union {"threw"}
               PROVE  claims[Tx(s)] = s \/ externalClaims[Tx(s)] = s
    BY DEF ConsumedIsCovered
  <2>1. Busy(s)
    BY DEF Busy, ApprovedSteps, SettlingSteps
  <2> QED
    BY <1>1, <2>1 DEF IInv, SInv, Ownership, SurfacesOwn, Held, Tx
<1> QED
  BY <1>1, Inductive, PTL

\* runWalletResetAgainstPendingResolutions: while a reset owns the barrier no surface and no
\* expiry is at work on a request.
THEOREM ResetAlwaysExclusive == Spec => []ResetIsExclusive
<1>1. ASSUME IInv PROVE ResetIsExclusive
  BY <1>1, NobodyBusy DEF IInv, SInv, ResetIsExclusive, Busy, At
<1> QED
  BY <1>1, Inductive, PTL

\* For any number of surfaces that confirm it and of worker lives: a request leaves the
\* wallet at most once.
THEOREM AlwaysAtMostOneSend == Spec => []AtMostOneSend
<1>1. ASSUME IInv PROVE AtMostOneSend
  BY <1>1 DEF IInv, SInv, SendsOnce, AtMostOneSend
<1> QED
  BY <1>1, Inductive, PTL

=============================================================================
