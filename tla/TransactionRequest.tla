------------------------- MODULE TransactionRequest -------------------------
(***************************************************************************)
(* The life of a transaction request of a private-key or seed-phrase       *)
(* account, from the page that asked to the page that is answered.         *)
(*                                                                         *)
(* One action per stretch of a handler between two awaits.  Handlers       *)
(* interleave at those awaits; what the service worker keeps in memory is  *)
(* lost when it restarts, what is in chrome.storage is not.                *)
(***************************************************************************)
EXTENDS PendingRequestClaims, Integers, FiniteSets

CONSTANTS Injected,        \* requests of a page; the others are trustedInternal
          Accounts,        \* accounts of the wallet
          AccountOf,       \* the account pinned to each request at intake
          Surfaces,        \* extension pages that act on a prompt (popup, side panel)
          Revokers,        \* calls of handleRevokeDappPermission that can overlap
          MaxPending,      \* MAX_PENDING_TX_REQUESTS_PER_ORIGIN, scaled down
          MaxRevocations,  \* bound: revocations of the origin per worker life
          MaxWorkerLives,  \* bound: restarts of the service worker
          MaxResets,       \* bound: wallet resets
          StorageFaults,   \* TRUE: a storage call may throw
          BadgeFaults      \* TRUE: the badge call after intake may throw

Requests == Keys

ASSUME RequestAssumption ==
  /\ Injected \subseteq Requests
  /\ AccountOf \in [Requests -> Accounts]
  /\ Tokens = Surfaces \union Revokers
  /\ Surfaces \intersect Revokers = {}
  /\ MaxPending \in Nat /\ MaxRevocations \in Nat
  /\ MaxWorkerLives \in Nat /\ MaxResets \in Nat
  /\ StorageFaults \in BOOLEAN /\ BadgeFaults \in BOOLEAN

VARIABLES
  \* chrome.storage and the history database
  pending, txResult, history, permission, accounts,
  \* outside the wallet: raw transactions sent, what each page was answered
  sent, dapp,
  \* memory of the service worker
  processingTxIds, revoking, revocationEpoch, operationLock,
  intake, op, revoker, reset, cleanup,
  \* history: two revocations of the site ran at once in this worker life
  overlapped,
  \* bounds
  workerLife, resets

durableVars == <<pending, txResult, history, permission, accounts>>
outsideVars == <<sent, dapp>>
gateVars == <<revoking, revocationEpoch, overlapped>>
boundVars == <<workerLife, resets>>
vars == <<claimVars, durableVars, outsideVars, gateVars, boundVars,
          processingTxIds, operationLock, intake, op, revoker, reset, cleanup>>

Denials == {"rejected", "revoked", "failed"}
Results == Denials \union {"success"}

\* Where a surface's call is.  A confirmation runs from "claimed" to "lease" in
\* its handler and from "record" on in the background processor it started.
HandlerSteps == {"claimed", "read", "preflight", "consume", "lease"}
RejectSteps == {"rejectRead", "rejectRemove", "rejectWrite"}
AuthorizationSteps == {"gate", "permission", "decide", "deny"}
ProcessorSteps == {"record", "prepare", "lock", "sign", "account", "inFlight", "publish",
                   "success", "failHistory", "failResult", "finally"}
OpType ==
  [pc : {"idle", "threw"} \union HandlerSteps \union RejectSteps
          \union AuthorizationSteps \union ProcessorSteps,
   tx : Requests \union {None},
   stage : 0..3,                  \* which of the three authorization checks
   epoch : 0..MaxRevocations,     \* revocation epoch read at the gate
   seen : BOOLEAN]                \* permission read from storage
IdleOp == [pc |-> "idle", tx |-> None, stage |-> 0, epoch |-> 0, seen |-> FALSE]

RevokerType ==
  [pc : {"idle", "delete", "snapshot", "claim", "expire", "threw"},
   todo : SUBSET Requests,        \* snapshot of the stored prompts
   mine : SUBSET Requests,        \* claimed for expiry
   removed : SUBSET Requests]     \* removed, result not written yet
IdleRevoker == [pc |-> "idle", todo |-> {}, mine |-> {}, removed |-> {}]

TypeOK ==
  /\ ClaimsTypeOK
  /\ pending \subseteq Requests
  /\ txResult \in [Requests -> Results \union {"none"}]
  /\ history \in [Requests -> {"none", "processing", "pending", "failed"}]
  /\ permission \in BOOLEAN
  /\ accounts \subseteq Accounts
  /\ sent \in [Requests -> Nat]
  /\ dapp \in [Requests -> Results \union {"idle", "waiting"}]
  /\ processingTxIds \subseteq Requests
  /\ revoking \in BOOLEAN /\ revocationEpoch \in 0..MaxRevocations /\ overlapped \in BOOLEAN
  /\ operationLock \in Surfaces \union {None, "reset"}
  /\ intake \in [Requests -> {"idle", "authorize", "account", "save", "badge", "done"}]
  /\ op \in [Surfaces -> OpType]
  /\ revoker \in [Revokers -> RevokerType]
  /\ reset \in {"idle", "checks", "lock", "wipe", "stuck"}
  /\ cleanup \in [due : BOOLEAN, stale : SUBSET Requests]
  /\ workerLife \in 0..MaxWorkerLives /\ resets \in 0..MaxResets

Init ==
  /\ ClaimsInit
  /\ pending = {}
  /\ txResult = [t \in Requests |-> "none"]
  /\ history = [t \in Requests |-> "none"]
  /\ permission = TRUE
  /\ accounts = Accounts
  /\ sent = [t \in Requests |-> 0]
  /\ dapp = [t \in Requests |-> "idle"]
  /\ processingTxIds = {}
  /\ revoking = FALSE /\ revocationEpoch = 0 /\ overlapped = FALSE
  /\ operationLock = None
  /\ intake = [t \in Requests |-> "idle"]
  /\ op = [s \in Surfaces |-> IdleOp]
  /\ revoker = [v \in Revokers |-> IdleRevoker]
  /\ reset = "idle"
  /\ cleanup = [due |-> FALSE, stale |-> {}]
  /\ workerLife = 0 /\ resets = 0

-----------------------------------------------------------------------------
(* Intake: provider/contentBridge, background/signingRequestRouter.ts and    *)
(* transactions/requestIntake.ts.                                            *)

WriteResult(t, r) == txResult' = [txResult EXCEPT ![t] = r]

intakeFrame == <<claimVars, history, permission, accounts, sent, gateVars, boundVars,
                 processingTxIds, operationLock, op, revoker, reset, cleanup>>

\* The content script installs its listener and sends the message.
Ask(t) ==
  /\ intake[t] = "idle"
  /\ intake' = [intake EXCEPT ![t] = IF t \in Injected THEN "authorize" ELSE "account"]
  /\ dapp' = [dapp EXCEPT ![t] = IF t \in Injected THEN "waiting" ELSE @]
  /\ UNCHANGED <<intakeFrame, pending, txResult>>

\* connectedProviderOriginOrReject
AuthorizeIntake(t) ==
  /\ intake[t] = "authorize"
  /\ IF permission THEN intake' = [intake EXCEPT ![t] = "account"] /\ UNCHANGED txResult
                   ELSE intake' = [intake EXCEPT ![t] = "done"] /\ WriteResult(t, "revoked")
  /\ UNCHANGED <<intakeFrame, pending, dapp>>

\* handleTransactionRequest reads the account of the tab; what it read is pinned.
PinAccount(t) ==
  /\ intake[t] = "account"
  /\ IF AccountOf[t] \in accounts
       THEN intake' = [intake EXCEPT ![t] = "save"] /\ UNCHANGED txResult
       ELSE intake' = [intake EXCEPT ![t] = "done"] /\ WriteResult(t, "failed")
  /\ UNCHANGED <<intakeFrame, pending, dapp>>

\* savePendingTxRequest, under its lock, up to the durable write.
SaveRequest(t) ==
  /\ intake[t] = "save"
  /\ IF Cardinality(pending) < MaxPending
       THEN /\ pending' = pending \union {t}
            /\ intake' = [intake EXCEPT ![t] = "badge"]
            /\ UNCHANGED txResult
       ELSE /\ intake' = [intake EXCEPT ![t] = "done"]
            /\ WriteResult(t, "failed")
            /\ UNCHANGED pending
  /\ UNCHANGED <<intakeFrame, dapp>>

\* updateBadge, awaited by savePendingTxRequest: when it throws, the catch of
\* the handler reports a failure although the row is stored.
UpdateBadge(t) ==
  /\ intake[t] = "badge"
  /\ intake' = [intake EXCEPT ![t] = "done"]
  /\ \/ UNCHANGED txResult
     \/ BadgeFaults /\ WriteResult(t, "failed")
  /\ UNCHANGED <<intakeFrame, pending, dapp>>

\* waitForStorageResult: the first result is final, and its key is removed.
\* The change event also delivers a result that was overwritten since; the
\* invariants below speak of every value txResult ever has.
Answer(t) ==
  /\ dapp[t] = "waiting" /\ txResult[t] # "none"
  /\ dapp' = [dapp EXCEPT ![t] = txResult[t]]
  /\ WriteResult(t, "none")
  /\ UNCHANGED <<intakeFrame, pending, intake>>

-----------------------------------------------------------------------------
(* A surface rejects: signingRequestRouter.ts and handleRejectTransaction.   *)

Tx(s) == op[s].tx
At(s, pc) == op[s].pc = pc
Goto(s, pc) == op' = [op EXCEPT ![s].pc = pc]
Idle(s) == op' = [op EXCEPT ![s] = IdleOp]

\* The resolver fulfils: the surface is answered and the claim released.
Fulfil(s) == Idle(s) /\ ReleaseClaims(s, {Tx(s)})

\* What no step of a surface changes.
surfaceFrame == <<permission, accounts, dapp, gateVars, boundVars, intake, revoker, reset, cleanup>>

\* First action wins: nothing happens when the request is owned already.
Claim(s, t, pc) ==
  /\ At(s, "idle")
  /\ intake[t] \in {"badge", "done"}
  /\ InstallClaims(s, {t})
  /\ op' = [op EXCEPT ![s] = [IdleOp EXCEPT !.pc = pc, !.tx = t]]
  /\ UNCHANGED <<surfaceFrame, pending, txResult, history, sent, processingTxIds, operationLock>>

Reject(s, t) == Claim(s, t, "rejectRead")

\* Faulty: a reject that does not look whether the prompt is still stored.
RejectUnread(s) ==
  /\ At(s, "rejectRead")
  /\ Goto(s, "rejectRemove")
  /\ UNCHANGED <<claimVars, surfaceFrame, pending, txResult, history, sent, processingTxIds, operationLock>>

RejectRead(s) ==
  /\ At(s, "rejectRead")
  /\ IF Tx(s) \in pending THEN Goto(s, "rejectRemove") /\ UNCHANGED claimVars
                          ELSE Fulfil(s)
  /\ UNCHANGED <<surfaceFrame, pending, txResult, history, sent, processingTxIds, operationLock>>

RejectRemove(s) ==
  /\ At(s, "rejectRemove")
  /\ pending' = pending \ {Tx(s)}
  /\ Goto(s, "rejectWrite")
  /\ UNCHANGED <<claimVars, surfaceFrame, txResult, history, sent, processingTxIds, operationLock>>

RejectWrite(s) ==
  /\ At(s, "rejectWrite")
  /\ WriteResult(Tx(s), "rejected")
  /\ Fulfil(s)
  /\ UNCHANGED <<surfaceFrame, pending, history, sent, processingTxIds, operationLock>>

-----------------------------------------------------------------------------
(* A surface confirms: handleConfirmTransactionAsyncPK.                      *)

Confirm(s, t) == Claim(s, t, "claimed")

handlerFrame == <<surfaceFrame, txResult, history, sent, operationLock>>

CheckProcessing(s) ==
  /\ At(s, "claimed")
  /\ IF Tx(s) \in processingTxIds THEN Fulfil(s)
                                  ELSE Goto(s, "read") /\ UNCHANGED claimVars
  /\ UNCHANGED <<handlerFrame, pending, processingTxIds>>

ReadPending(s) ==
  /\ At(s, "read")
  /\ IF Tx(s) \in pending
       THEN /\ processingTxIds' = processingTxIds \union {Tx(s)}
            /\ Goto(s, "preflight") /\ UNCHANGED claimVars
       ELSE Fulfil(s) /\ UNCHANGED processingTxIds
  /\ UNCHANGED <<handlerFrame, pending>>

\* A recoverable failure: the prompt stays stored, the claim is released.
GiveUp(s) ==
  /\ processingTxIds' = processingTxIds \ {Tx(s)}
  /\ Fulfil(s)

\* Pinned account, 'from', nonce, fee and password: any of them may fail.
Preflight(s) ==
  /\ At(s, "preflight")
  /\ \/ AccountOf[Tx(s)] \in accounts /\ Goto(s, "consume") /\ UNCHANGED <<claimVars, processingTxIds>>
     \/ GiveUp(s)
  /\ UNCHANGED <<handlerFrame, pending>>

\* Faulty: the prompt stays stored while it is executed.
KeepPrompt(s) ==
  /\ At(s, "consume")
  /\ op' = [op EXCEPT ![s].pc = "gate", ![s].stage = 1]
  /\ UNCHANGED <<claimVars, handlerFrame, pending, processingTxIds>>

\* The stored prompt is consumed before the last checks.
Consume(s) ==
  /\ At(s, "consume")
  /\ pending' = pending \ {Tx(s)}
  /\ op' = [op EXCEPT ![s].pc = "gate", ![s].stage = 1]
  /\ UNCHANGED <<claimVars, handlerFrame, processingTxIds>>

\* The processor starts synchronously with the lease.
TakeLease(s) ==
  /\ At(s, "lease")
  /\ IF CanBeginExternal(Tx(s))
       THEN BeginExternal(s, Tx(s)) /\ Goto(s, "record") /\ UNCHANGED processingTxIds
       ELSE GiveUp(s)
  /\ UNCHANGED <<handlerFrame, pending>>

\* The handler returns to the router while its processor runs.
HandOff(s) ==
  /\ Tx(s) # None /\ claims[Tx(s)] = s /\ externalClaims[Tx(s)] = s
  /\ ReleaseClaims(s, {Tx(s)})
  /\ UNCHANGED <<handlerFrame, pending, processingTxIds, op>>

-----------------------------------------------------------------------------
(* enforcePendingRequestAuthorizationAtConfirmation, called three times: by  *)
(* the handler, by the processor, and between signing and the raw send.      *)

\* Stage 3 is the beforeBroadcast callback: beginEffect and the raw send follow
\* its last read without an await on storage or the network.
Authorized(s) ==
  \/ /\ op[s].stage = 1 /\ Goto(s, "lease") /\ UNCHANGED sent
  \/ /\ op[s].stage = 2 /\ Goto(s, "lock") /\ UNCHANGED sent
  \/ /\ op[s].stage = 3 /\ Goto(s, "inFlight")
     /\ sent' = [sent EXCEPT ![Tx(s)] = @ + 1]

authorizationFrame == <<claimVars, surfaceFrame, pending, txResult, history, processingTxIds, operationLock>>

PassGate(s) ==
  /\ At(s, "gate")
  /\ \/ Tx(s) \notin Injected /\ Authorized(s)
     \/ Tx(s) \in Injected /\ revoking /\ Goto(s, "deny") /\ UNCHANGED sent
     \/ /\ Tx(s) \in Injected /\ ~revoking
        /\ op' = [op EXCEPT ![s].pc = "permission", ![s].epoch = revocationEpoch]
        /\ UNCHANGED sent
  /\ UNCHANGED authorizationFrame

ReadPermission(s) ==
  /\ At(s, "permission")
  /\ op' = [op EXCEPT ![s].pc = "decide", ![s].seen = permission]
  /\ UNCHANGED <<authorizationFrame, sent>>

\* Faulty: trusts the permission it read, without the gate and its epoch.
DecideOnPermission(s) ==
  /\ At(s, "decide")
  /\ IF op[s].seen THEN Authorized(s) ELSE Goto(s, "deny") /\ UNCHANGED sent
  /\ UNCHANGED authorizationFrame

\* The tab may have been closed or navigated at any moment: its read is a
\* free choice.
Decide(s) ==
  /\ At(s, "decide")
  /\ \E tabOnOrigin \in BOOLEAN :
       IF op[s].seen /\ tabOnOrigin /\ ~revoking /\ revocationEpoch = op[s].epoch
         THEN Authorized(s)
         ELSE Goto(s, "deny") /\ UNCHANGED sent
  /\ UNCHANGED authorizationFrame

\* Faulty: an exception leaves the lock behind.
KeepLock(s) == UNCHANGED operationLock

\* An exception in the processor; under the lock it also leaves the lock.
UnlockIfHeld(s) == operationLock' = IF operationLock = s THEN None ELSE operationLock

\* terminalizeUnauthorizedPendingRequest: remove, then publish the failure.
Deny(s) ==
  /\ At(s, "deny")
  /\ pending' = pending \ {Tx(s)}
  /\ WriteResult(Tx(s), "revoked")
  /\ IF op[s].stage = 1
       THEN GiveUp(s) /\ UNCHANGED operationLock
       ELSE Goto(s, "failHistory") /\ UnlockIfHeld(s) /\ UNCHANGED <<claimVars, processingTxIds>>
  /\ UNCHANGED <<surfaceFrame, history, sent>>

-----------------------------------------------------------------------------
(* processLocalTransactionInBackground and prepareSignAndBroadcastTransaction *)

processorFrame == <<claimVars, surfaceFrame, pending, processingTxIds>>

SetHistory(t, status) == history' = [history EXCEPT ![t] = status]

RecordProcessing(s) ==
  /\ At(s, "record")
  /\ SetHistory(Tx(s), "processing")
  /\ Goto(s, "prepare")
  /\ UNCHANGED <<processorFrame, txResult, sent, operationLock>>

\* Chain, nonce, gas.
Prepare(s) ==
  /\ At(s, "prepare")
  /\ op' = [op EXCEPT ![s].pc = "gate", ![s].stage = 2]
  /\ UNCHANGED <<processorFrame, txResult, history, sent, operationLock>>

\* WALLET_SECRET_OPERATION_LOCK_KEY
AcquireOperationLock(s) ==
  /\ At(s, "lock")
  /\ operationLock = None
  /\ operationLock' = s
  /\ Goto(s, "sign")
  /\ UNCHANGED <<processorFrame, txResult, history, sent>>

Sign(s) ==
  /\ At(s, "sign")
  /\ Goto(s, "account")
  /\ UNCHANGED <<processorFrame, txResult, history, sent, operationLock>>

\* Faulty: trusts the account read before the preparation.
TrustAccount(s) ==
  /\ At(s, "account")
  /\ op' = [op EXCEPT ![s].pc = "gate", ![s].stage = 3]
  /\ UNCHANGED <<processorFrame, txResult, history, sent, operationLock>>

\* The account is read again inside beforeBroadcast.
RereadAccount(s) ==
  /\ At(s, "account")
  /\ IF AccountOf[Tx(s)] \in accounts
       THEN op' = [op EXCEPT ![s].pc = "gate", ![s].stage = 3] /\ UNCHANGED operationLock
       ELSE Goto(s, "failHistory") /\ UnlockIfHeld(s)
  /\ UNCHANGED <<processorFrame, txResult, history, sent>>

\* The RPC, the signer or storage throws before anything was sent.
ProcessorFails(s) ==
  /\ \/ op[s].pc \in {"record", "prepare", "sign", "account"}
     \/ StorageFaults /\ op[s].pc \in {"gate", "permission", "decide"} /\ op[s].stage > 1
  /\ Goto(s, "failHistory")
  /\ UnlockIfHeld(s)
  /\ UNCHANGED <<processorFrame, txResult, history, sent>>

\* A response, or a lost one: the hash of the signed bytes is known either way.
Respond(s) ==
  /\ At(s, "inFlight")
  /\ Goto(s, "publish")
  /\ UnlockIfHeld(s)
  /\ UNCHANGED <<processorFrame, txResult, history, sent>>

\* When the history write throws, the catch still reports the sent hash.
PublishSent(s) ==
  /\ At(s, "publish")
  /\ \/ SetHistory(Tx(s), "pending")
     \/ StorageFaults /\ UNCHANGED history
  /\ Goto(s, "success")
  /\ UNCHANGED <<processorFrame, txResult, sent, operationLock>>

WriteSuccess(s) ==
  /\ At(s, "success")
  /\ \/ WriteResult(Tx(s), "success")
     \/ StorageFaults /\ UNCHANGED txResult
  /\ Goto(s, "finally")
  /\ UNCHANGED <<processorFrame, history, sent, operationLock>>

\* handleTransactionFailure: history first, the provider result last.
FailHistory(s) ==
  /\ At(s, "failHistory")
  /\ IF history[Tx(s)] = "none" THEN UNCHANGED history ELSE SetHistory(Tx(s), "failed")
  /\ Goto(s, "failResult")
  /\ UNCHANGED <<processorFrame, txResult, sent, operationLock>>

\* Faulty: a failure that is only recorded in the history.
FailSilently(s) ==
  /\ At(s, "failResult")
  /\ Goto(s, "finally")
  /\ UNCHANGED <<processorFrame, txResult, history, sent, operationLock>>

FailResult(s) ==
  /\ At(s, "failResult")
  /\ \/ WriteResult(Tx(s), "failed")
     \/ StorageFaults /\ UNCHANGED txResult
  /\ Goto(s, "finally")
  /\ UNCHANGED <<processorFrame, history, sent, operationLock>>

\* releaseIfSafe: the effect is settled whenever the processor comes here, and
\* the handler returned long before (no I/O lies between the two).
Finally(s) ==
  /\ At(s, "finally")
  /\ claims[Tx(s)] # s
  /\ FinishExternal(s, Tx(s))
  /\ processingTxIds' = processingTxIds \ {Tx(s)}
  /\ Idle(s)
  /\ UNCHANGED <<surfaceFrame, pending, txResult, history, sent, operationLock>>

\* Faulty: a resolver that throws gives its claim back.
ThrowAndRelease(s) ==
  /\ StorageFaults
  /\ op[s].pc \in AuthorizationSteps /\ op[s].stage = 1
  /\ Goto(s, "threw")
  /\ ReleaseClaims(s, {Tx(s)})
  /\ UNCHANGED <<handlerFrame, pending, processingTxIds>>

\* A storage call of a handler throws: its claim stays until a restart.
HandlerThrows(s) ==
  /\ StorageFaults
  /\ \/ op[s].pc \in (HandlerSteps \ {"claimed", "lease"}) \union RejectSteps
     \/ op[s].pc \in AuthorizationSteps /\ op[s].stage = 1
  /\ Goto(s, "threw")
  /\ UNCHANGED <<claimVars, handlerFrame, pending, processingTxIds>>

-----------------------------------------------------------------------------
(* handleRevokeDappPermission and cancelPendingRequestsForDappOrigin.        *)

revokerFrame == <<accounts, history, sent, dapp, boundVars, processingTxIds, operationLock,
                  intake, op, reset, cleanup>>

\* The call is between its first await and its finally.
Revokes(v) == revoker[v].pc \notin {"idle", "threw"}

\* The gate and the new epoch, synchronously, before the first await.
BeginRevocation(v) ==
  /\ revoker[v].pc = "idle"
  /\ revocationEpoch < MaxRevocations
  /\ revoking' = TRUE
  /\ revocationEpoch' = revocationEpoch + 1
  /\ overlapped' = (overlapped \/ \E u \in Revokers : Revokes(u))
  /\ revoker' = [revoker EXCEPT ![v].pc = "delete"]
  /\ UNCHANGED <<claimVars, revokerFrame, pending, txResult, permission>>

DeletePermission(v) ==
  /\ revoker[v].pc = "delete"
  /\ permission' = FALSE
  /\ revoker' = [revoker EXCEPT ![v].pc = "snapshot"]
  /\ UNCHANGED <<claimVars, revokerFrame, gateVars, pending, txResult>>

SnapshotPrompts(v) ==
  /\ revoker[v].pc = "snapshot"
  /\ revoker' = [revoker EXCEPT ![v].pc = "claim", ![v].todo = pending \intersect Injected]
  /\ UNCHANGED <<claimVars, revokerFrame, gateVars, pending, txResult, permission>>

\* Faulty: expires prompts that a surface owns already.
ClaimEveryPrompt(v) ==
  /\ revoker[v].pc = "claim"
  /\ revoker' = [revoker EXCEPT ![v].pc = "expire", ![v].todo = {}, ![v].mine = revoker[v].todo]
  /\ UNCHANGED <<claimVars, revokerFrame, gateVars, pending, txResult, permission>>

\* All the expiries are started in one go; an owned prompt is left to its owner.
ClaimPrompts(v) ==
  LET won == {t \in revoker[v].todo : CanResolve({t})} IN
  /\ revoker[v].pc = "claim"
  /\ IF won = {} THEN UNCHANGED claimVars ELSE InstallClaims(v, won)
  /\ revoker' = [revoker EXCEPT ![v].pc = "expire", ![v].todo = {}, ![v].mine = won]
  /\ UNCHANGED <<revokerFrame, gateVars, pending, txResult, permission>>

\* Read the prompt again; gone meanwhile, its claim is released at once.
ExpireRemove(v, t) ==
  /\ t \in revoker[v].mine \ revoker[v].removed
  /\ IF t \in pending
       THEN /\ pending' = pending \ {t}
            /\ revoker' = [revoker EXCEPT ![v].removed = @ \union {t}]
            /\ UNCHANGED claimVars
       ELSE /\ revoker' = [revoker EXCEPT ![v].mine = @ \ {t}]
            /\ ReleaseClaims(v, {t})
            /\ UNCHANGED pending
  /\ UNCHANGED <<revokerFrame, gateVars, txResult, permission>>

ExpireWrite(v, t) ==
  /\ t \in revoker[v].removed
  /\ WriteResult(t, "revoked")
  /\ revoker' = [revoker EXCEPT ![v].mine = @ \ {t}, ![v].removed = @ \ {t}]
  /\ ReleaseClaims(v, {t})
  /\ UNCHANGED <<revokerFrame, gateVars, pending, permission>>

\* The gate is a set of origins: the first call to finish removes the origin.
FinishRevocation(v) ==
  /\ revoker[v].pc = "expire" /\ revoker[v].mine = {}
  /\ revoking' = FALSE
  /\ revoker' = [revoker EXCEPT ![v] = IdleRevoker]
  /\ UNCHANGED <<claimVars, revokerFrame, pending, txResult, permission, revocationEpoch, overlapped>>

\* A storage call throws: the finally opens the gate at once, the expiries that were
\* started go on, and the one that threw keeps its claim (it takes no further step).
RevocationThrows(v) ==
  /\ StorageFaults /\ Revokes(v) /\ revoker[v].pc # "claim"
  /\ revoking' = FALSE
  /\ revoker' = [revoker EXCEPT ![v] = IF @.pc = "expire" THEN [@ EXCEPT !.pc = "threw"] ELSE IdleRevoker]
  /\ UNCHANGED <<claimVars, revokerFrame, pending, txResult, permission, revocationEpoch, overlapped>>

\* grantDappPermission: the user connects the site again.
GrantPermission ==
  /\ ~permission /\ accounts # {}
  /\ permission' = TRUE
  /\ UNCHANGED <<claimVars, revokerFrame, gateVars, pending, txResult, revoker>>

-----------------------------------------------------------------------------
(* Account removal, wallet reset, restart and startup cleanup.               *)

\* handleRemoveAccount runs under the operation lock from its first read on.
RemoveAccount(a) ==
  /\ operationLock = None
  /\ a \in accounts /\ Cardinality(accounts) > 1
  /\ accounts' = accounts \ {a}
  /\ UNCHANGED <<claimVars, pending, txResult, history, permission, outsideVars, gateVars, boundVars,
                 processingTxIds, operationLock, intake, op, revoker, reset, cleanup>>

resetFrame == <<outsideVars, gateVars, workerLife, intake, op, revoker, cleanup>>

BeginReset ==
  /\ resets < MaxResets /\ reset = "idle"
  /\ InstallReset
  /\ reset' = "checks" /\ resets' = resets + 1
  /\ UNCHANGED <<resetFrame, durableVars, processingTxIds, operationLock>>

\* Password, privacy backup, sponsored transfers, Safe effects: refused, or on.
ResetChecks ==
  /\ reset = "checks"
  /\ \/ reset' = "idle" /\ FinishReset
     \/ reset' = "lock" /\ UNCHANGED claimVars
  /\ UNCHANGED <<resetFrame, durableVars, resets, processingTxIds, operationLock>>

\* performSecurityReset removes every result key, answered or not.
ResetResults ==
  /\ reset = "lock" /\ operationLock = None
  /\ operationLock' = "reset"
  /\ txResult' = [t \in Requests |-> "none"]
  /\ processingTxIds' = {}
  /\ reset' = "wipe"
  /\ UNCHANGED <<resetFrame, claimVars, pending, history, permission, accounts, resets>>

ResetWallet ==
  /\ reset = "wipe"
  /\ pending' = {} /\ accounts' = {} /\ permission' = FALSE
  /\ txResult' = [t \in Requests |-> "none"]
  /\ history' = [t \in Requests |-> "none"]
  /\ operationLock' = None
  /\ reset' = "idle" /\ FinishReset
  /\ UNCHANGED <<resetFrame, resets, processingTxIds>>

\* An exception half way: the barrier stays until the worker restarts.
ResetThrows ==
  /\ StorageFaults /\ reset \in {"checks", "lock", "wipe"}
  /\ reset' = "stuck"
  /\ operationLock' = IF operationLock = "reset" THEN None ELSE operationLock
  /\ UNCHANGED <<resetFrame, claimVars, durableVars, resets, processingTxIds>>

WorkerRestart ==
  /\ workerLife < MaxWorkerLives
  /\ workerLife' = workerLife + 1
  /\ LoseClaims
  /\ revoking' = FALSE /\ revocationEpoch' = 0 /\ overlapped' = FALSE
  /\ processingTxIds' = {} /\ operationLock' = None
  /\ intake' = [t \in Requests |-> IF intake[t] = "idle" THEN "idle" ELSE "done"]
  /\ op' = [s \in Surfaces |-> IdleOp]
  /\ revoker' = [v \in Revokers |-> IdleRevoker]
  /\ reset' = "idle"
  /\ cleanup' = [due |-> TRUE, stale |-> {}]
  /\ UNCHANGED <<durableVars, outsideVars, resets>>

\* cleanupStaleProcessingTxs: one read of the whole history, of any age ...
ReadStaleHistory ==
  /\ cleanup.due
  /\ \E old \in SUBSET {t \in Requests : history[t] = "processing"} :
       cleanup' = [due |-> FALSE, stale |-> old]
  /\ UNCHANGED <<claimVars, durableVars, outsideVars, gateVars, boundVars,
                 processingTxIds, operationLock, intake, op, revoker, reset>>

\* ... then one write per stale row, without reading its status again.
FailStaleHistory(t) ==
  /\ t \in cleanup.stale
  /\ IF history[t] = "none" THEN UNCHANGED history ELSE SetHistory(t, "failed")
  /\ cleanup' = [cleanup EXCEPT !.stale = @ \ {t}]
  /\ UNCHANGED <<claimVars, pending, txResult, permission, accounts, outsideVars, gateVars, boundVars,
                 processingTxIds, operationLock, intake, op, revoker, reset>>

-----------------------------------------------------------------------------
IntakeNext(t) == AuthorizeIntake(t) \/ PinAccount(t) \/ SaveRequest(t) \/ UpdateBadge(t) \/ Answer(t)

HandlerNext(s) ==
  \/ RejectRead(s) \/ RejectRemove(s) \/ RejectWrite(s)
  \/ CheckProcessing(s) \/ ReadPending(s) \/ Preflight(s) \/ Consume(s)
  \/ PassGate(s) \/ ReadPermission(s) \/ Decide(s) \/ Deny(s)
  \/ TakeLease(s) \/ HandOff(s)

ProcessorNext(s) ==
  \/ RecordProcessing(s) \/ Prepare(s) \/ Sign(s) \/ RereadAccount(s)
  \/ ProcessorFails(s) \/ Respond(s) \/ PublishSent(s) \/ WriteSuccess(s)
  \/ FailHistory(s) \/ FailResult(s) \/ Finally(s)

RevokerNext(v) ==
  \/ DeletePermission(v) \/ SnapshotPrompts(v) \/ ClaimPrompts(v)
  \/ \E t \in Requests : ExpireRemove(v, t) \/ ExpireWrite(v, t)
  \/ FinishRevocation(v)

ResetNext == ResetChecks \/ ResetResults \/ ResetWallet

CleanupNext == ReadStaleHistory \/ \E t \in Requests : FailStaleHistory(t)

\* What a person, a page or the browser decides to do.
EnvironmentNext ==
  \/ \E t \in Requests : Ask(t)
  \/ \E s \in Surfaces, t \in Requests : Reject(s, t) \/ Confirm(s, t)
  \/ \E v \in Revokers : BeginRevocation(v)
  \/ GrantPermission
  \/ \E a \in Accounts : RemoveAccount(a)
  \/ BeginReset
  \/ WorkerRestart

FaultNext ==
  \/ ResetThrows
  \/ \E s \in Surfaces : HandlerThrows(s)
  \/ \E v \in Revokers : RevocationThrows(v)

Next ==
  \/ \E t \in Requests : IntakeNext(t)
  \/ \E s \in Surfaces : HandlerNext(s) \/ AcquireOperationLock(s) \/ ProcessorNext(s)
  \/ \E v \in Revokers : RevokerNext(v)
  \/ ResetNext
  \/ CleanupNext
  \/ EnvironmentNext
  \/ FaultNext

Spec == Init /\ [][Next]_vars

\* A promise that was started settles: storage and RPC calls return (RPC calls
\* have timeouts), and withStorageLock is a FIFO queue, so a waiter is served
\* even when others keep coming.
Fairness ==
  /\ \A t \in Requests : WF_vars(IntakeNext(t))
  /\ \A s \in Surfaces : /\ WF_vars(HandlerNext(s) \/ ProcessorNext(s))
                         /\ SF_vars(AcquireOperationLock(s))
  /\ \A v \in Revokers : WF_vars(RevokerNext(v))
  /\ SF_vars(ResetNext)
  /\ WF_vars(CleanupNext)

FairSpec == Spec /\ Fairness

-----------------------------------------------------------------------------
\* Steps of a confirmation whose prompt is consumed and not yet sent or denied.
ApprovedSteps == {"gate", "permission", "decide", "lease", "record", "prepare", "lock", "sign", "account"}
SettlingSteps == {"deny", "inFlight", "publish", "success", "failHistory", "failResult", "finally", "rejectWrite"}

Approved(t) == \E s \in Surfaces : op[s].tx = t /\ op[s].pc \in ApprovedSteps

\* A request leaves the wallet at most once, whatever surfaces confirm it, and
\* across restarts of the worker.
AtMostOneSend == \A t \in Requests : sent[t] <= 1

\* A page that was told of a denial never sees its request sent, before or
\* after; nor does a denial wait in storage for a request that was sent.
DenialIsFinal ==
  \A t \in Requests : dapp[t] \in Denials \/ txResult[t] \in Denials => sent[t] = 0

\* From the removal of the stored prompt to the last write of its outcome, the
\* request is owned: first by the claim of the resolver, then by the lease, with
\* no gap in which a reset or a late action could start.  A resolver that threw on
\* the way keeps its claim for the rest of the worker's life: what it had already
\* done is unknown.
ConsumedIsCovered ==
  \A s \in Surfaces : op[s].pc \in ApprovedSteps \union SettlingSteps \union {"threw"} =>
    claims[Tx(s)] = s \/ externalClaims[Tx(s)] = s

\* While reset owns the barrier no surface and no expiry is at work on a request.
ResetIsExclusive ==
  walletResetClaim =>
    /\ \A s \in Surfaces : At(s, "idle")
    /\ \A v \in Revokers : revoker[v].mine = {}

\* The raw send of a page's request happens only while the site holds its
\* permission and no revocation of the site is in progress, however often it is
\* revoked and connected again, unless two revocations overlapped: the gate is a
\* set of origins, and the first of the two to finish opens it for both.
NoSendAfterRevocation ==
  [][\A t \in Injected : sent'[t] # sent[t] /\ ~overlapped => permission /\ ~revoking]_vars

\* The raw send happens only while the pinned account is in the wallet: account
\* removal and reset cannot slip between the last read and the send.
NoSendFromRemovedAccount ==
  [][\A t \in Requests : sent'[t] # sent[t] => AccountOf[t] \in accounts /\ reset = "idle"]_vars

\* The page waits only as long as somebody still has to decide: once its prompt
\* left storage, it is answered.
ConsumedIsAnswered ==
  \A t \in Injected :
    (dapp[t] = "waiting" /\ intake[t] = "done" /\ t \notin pending) ~> (dapp[t] # "waiting")

\* The operation lock and the revocation gate are always given back.
LocksAreReleased ==
  /\ (operationLock # None) ~> (operationLock = None)
  /\ revoking ~> ~revoking

\* Once a raw send was attempted the transaction is never recorded as failed.
\* The startup cleanup of the history breaks it: see the findings.
SentIsNeverFailed == \A t \in Requests : history[t] = "failed" => sent[t] = 0

-----------------------------------------------------------------------------
\* The request as its page and its user see it.
Phase(t) ==
  CASE sent[t] > 0 -> "sent"
    [] sent[t] = 0 /\ Approved(t) -> "approved"
    [] sent[t] = 0 /\ ~Approved(t) /\ t \in pending -> "pending"
    [] OTHER -> IF intake[t] \in {"idle", "authorize", "account", "save"} THEN "new" ELSE "gone"

Told(t) ==
  IF dapp[t] \in {"idle", "waiting"} THEN "nothing"
  ELSE IF dapp[t] = "success" THEN "success" ELSE "denial"

Outcome == INSTANCE RequestOutcome
             WITH phase <- [t \in Requests |-> Phase(t)], told <- [t \in Requests |-> Told(t)]

\* The handlers implement the promise of RequestOutcome.
KeepsPromise == Outcome!OutcomeSpec
=============================================================================
