---------------------------- MODULE OutcomeProofs ----------------------------
(***************************************************************************)
(* What a page and the user are promised of a request.  First, what the    *)
(* checks between signing and the raw send are for: nothing is sent from a *)
(* removed account or after a revocation, and a page that was told of a    *)
(* denial never sees its request sent.  Then the promise of RequestOutcome:*)
(* every step of the handlers maps to a step of it, or to none.            *)
(***************************************************************************)
EXTENDS TransactionRequestProofs

USE NoneIsNoToken, RequestAssumption

\* The steps at which a surface may still send its request or remove its prompt.
PromptSteps == {"preflight", "consume", "rejectRemove"}
LiveSteps == PromptSteps \union ApprovedSteps
SentSteps == {"inFlight", "publish", "success"}

\* A request that was denied can no longer be approved, and one whose denial is
\* being written was not sent.
Denied(t) == dapp[t] \in Denials \/ txResult[t] \in Denials
Spent(t) == sent[t] = 0 /\ t \notin pending /\ t \notin NewRequests
DenialsHold ==
  /\ \A t \in Requests : Denied(t) => Spent(t)
  /\ \A t \in Requests, s \in Surfaces : Denied(t) /\ op[s].tx = t => op[s].pc \notin LiveSteps
  /\ \A v \in Revokers : \A t \in revoker[v].removed : Spent(t)

\* As long as no two revocations overlapped the gate is closed while one is at work, and a
\* check that began before it cannot pass after it.
Checks(o) == o.pc \in {"permission", "decide"}
EpochHolds(o) ==
  /\ Checks(o) => o.epoch <= revocationEpoch /\ (revoking = TRUE => o.epoch < revocationEpoch)
  /\ o.pc = "decide" /\ o.seen = TRUE /\ o.epoch = revocationEpoch => permission = TRUE
GateClosed ==
  /\ \A v \in Revokers : Revokes(v) => revoking = TRUE
  /\ \A u, v \in Revokers : Revokes(u) /\ Revokes(v) => u = v
GateInv == GateClosed /\ \A s \in Surfaces : EpochHolds(op[s])
GateHolds == overlapped = FALSE => GateInv

-----------------------------------------------------------------------------
(* A surface writes a denial, reads a prompt or sends only at these steps.   *)

DenialSteps == {"rejectWrite", "deny", "failResult"}
Tells(s) ==
  \E r \in Results :
    /\ WriteResult(op[s].tx, r)
    /\ IF r = "success" THEN op[s].pc = "success" ELSE op[s].pc \in DenialSteps

Denies(s) == txResult' = txResult \/ (op'[s].pc \notin LiveSteps /\ Tells(s))

Sends(s) ==
  /\ op[s].stage = 3 /\ op[s].pc \in {"gate", "decide"}
  /\ op[s].pc = "gate" => op[s].tx \notin Injected
  /\ op[s].pc = "decide" => op[s].seen = TRUE /\ revoking = FALSE /\ revocationEpoch = op[s].epoch
  /\ sent' = [sent EXCEPT ![op[s].tx] = @ + 1]

StartsCheck(s) ==
  \/ op'[s].pc = "permission" /\ op'[s].epoch = revocationEpoch /\ revoking = FALSE
  \/ op[s].pc = "permission" /\ op'[s].epoch = op[s].epoch /\ op'[s].seen = permission

Careful(s) ==
  /\ Denies(s)
  /\ op'[s].pc \in LiveSteps => op[s].pc \in LiveSteps \/ op[s].tx \in pending
  /\ op'[s].pc \in PromptSteps =>
       (op[s].pc \in PromptSteps \/ op[s].tx \in pending) /\ pending' = pending
  /\ Checks(op'[s]) => op'[s] = op[s] \/ StartsCheck(s)
  /\ op'[s].pc \in SentSteps => op[s].pc \in SentSteps \/ Sends(s)
  /\ sent' = sent \/ Sends(s)

\* Most steps only go on, or give the request up.
Plain(s, pc) == Goto(s, pc) \/ (pc = "gate" /\ \E n \in 0..3 : BeginCheck(s, n)) \/ (pc = "idle" /\ Idle(s))

LEMMA PlainFacts ==
  ASSUME TypeOK, NEW s \in Surfaces, NEW pc \in PCs, Plain(s, pc)
  PROVE  op'[s].pc = pc
BY GotoFacts, CheckFacts, IdleFacts, IdleOpFields DEF Plain

LEMMA PlainCareful ==
  ASSUME TypeOK, NEW s \in Surfaces, NEW pc \in PCs, Plain(s, pc), sent' = sent,
         ~(pc \in {"permission", "decide"}),
         pc \in LiveSteps => op[s].pc \in LiveSteps \/ op[s].tx \in pending,
         pc \in PromptSteps =>
           (op[s].pc \in PromptSteps \/ op[s].tx \in pending) /\ pending' = pending,
         pc \in SentSteps => op[s].pc \in SentSteps,
         txResult' = txResult \/ (pc \notin LiveSteps /\ Tells(s))
  PROVE  Careful(s)
BY PlainFacts DEF Careful, Denies, Checks

\* Every step of a surface that holds a request.
SurfaceNext(s) == HandlerNext(s) \/ AcquireOperationLock(s) \/ ProcessorNext(s) \/ HandlerThrows(s)

LEMMA SurfaceCareful == ASSUME IInv, NEW s \in Surfaces, SurfaceNext(s) PROVE Careful(s)
<1>1. CASE RejectRead(s)
  <2>1. op[s].pc = "rejectRead" /\ sent' = sent /\ txResult' = txResult /\ pending' = pending
    BY <1>1 DEF RejectRead, At, surfaceFrame
  <2>2. (Plain(s, "rejectRemove") /\ op[s].tx \in pending) \/ Plain(s, "idle")
    BY <1>1 DEF RejectRead, At, Plain, BeginCheck, Fulfil, GiveUp, surfaceFrame, Tx
  <2>3. CASE Plain(s, "rejectRemove") /\ op[s].tx \in pending
    BY <2>1, <2>3, PlainCareful DEF IInv, PCs, HandlerSteps, RejectSteps, AuthorizationSteps, ProcessorSteps,
     PromptSteps, LiveSteps, SentSteps, ApprovedSteps
  <2>4. CASE Plain(s, "idle")
    BY <2>1, <2>4, PlainCareful DEF IInv, PCs, HandlerSteps, RejectSteps, AuthorizationSteps, ProcessorSteps,
     PromptSteps, LiveSteps, SentSteps, ApprovedSteps
  <2> QED
    BY <2>2, <2>3, <2>4
<1>2. CASE RejectRemove(s)
  <2>1. op[s].pc = "rejectRemove" /\ sent' = sent /\ Plain(s, "rejectWrite")
    BY <1>2 DEF RejectRemove, At, Plain, BeginCheck, surfaceFrame
  <2>2. txResult' = txResult
    BY <1>2 DEF RejectRemove, surfaceFrame
  <2> QED
    BY <2>1, <2>2, PlainCareful DEF IInv, PCs, HandlerSteps, RejectSteps, AuthorizationSteps, ProcessorSteps,
     PromptSteps, LiveSteps, SentSteps, ApprovedSteps
<1>3. CASE RejectWrite(s)
  <2>1. op[s].pc = "rejectWrite" /\ sent' = sent /\ Plain(s, "idle")
    BY <1>3 DEF RejectWrite, At, Plain, BeginCheck, surfaceFrame, Fulfil
  <2>2. Tells(s)
    BY <1>3, <2>1 DEF RejectWrite, Tells, Tx, Results, Denials, DenialSteps
  <2> QED
    BY <2>1, <2>2, PlainCareful DEF IInv, PCs, HandlerSteps, RejectSteps, AuthorizationSteps, ProcessorSteps,
     PromptSteps, LiveSteps, SentSteps, ApprovedSteps
<1>4. CASE CheckProcessing(s)
  <2>1. op[s].pc = "claimed" /\ sent' = sent /\ txResult' = txResult
    BY <1>4 DEF CheckProcessing, At, handlerFrame
  <2>2. (Plain(s, "read")) \/ Plain(s, "idle")
    BY <1>4 DEF CheckProcessing, At, Plain, BeginCheck, Fulfil, GiveUp, handlerFrame, Tx
  <2> QED
    BY <2>1, <2>2, PlainCareful DEF IInv, PCs, HandlerSteps, RejectSteps, AuthorizationSteps, ProcessorSteps,
     PromptSteps, LiveSteps, SentSteps, ApprovedSteps
<1>5. CASE ReadPending(s)
  <2>1. op[s].pc = "read" /\ sent' = sent /\ txResult' = txResult /\ pending' = pending
    BY <1>5 DEF ReadPending, At, handlerFrame
  <2>2. (Plain(s, "preflight") /\ op[s].tx \in pending) \/ Plain(s, "idle")
    BY <1>5 DEF ReadPending, At, Plain, BeginCheck, Fulfil, GiveUp, handlerFrame, Tx
  <2>3. CASE Plain(s, "preflight") /\ op[s].tx \in pending
    BY <2>1, <2>3, PlainCareful DEF IInv, PCs, HandlerSteps, RejectSteps, AuthorizationSteps, ProcessorSteps,
     PromptSteps, LiveSteps, SentSteps, ApprovedSteps
  <2>4. CASE Plain(s, "idle")
    BY <2>1, <2>4, PlainCareful DEF IInv, PCs, HandlerSteps, RejectSteps, AuthorizationSteps, ProcessorSteps,
     PromptSteps, LiveSteps, SentSteps, ApprovedSteps
  <2> QED
    BY <2>2, <2>3, <2>4
<1>6. CASE Preflight(s)
  <2>1. op[s].pc = "preflight" /\ sent' = sent /\ txResult' = txResult /\ pending' = pending
    BY <1>6 DEF Preflight, At, handlerFrame
  <2>2. (Plain(s, "consume")) \/ Plain(s, "idle")
    BY <1>6 DEF Preflight, At, Plain, BeginCheck, Fulfil, GiveUp, handlerFrame, Tx
  <2> QED
    BY <2>1, <2>2, PlainCareful DEF IInv, PCs, HandlerSteps, RejectSteps, AuthorizationSteps, ProcessorSteps,
     PromptSteps, LiveSteps, SentSteps, ApprovedSteps
<1>7. CASE Consume(s)
  <2>1. op[s].pc = "consume" /\ sent' = sent /\ Plain(s, "gate")
    BY <1>7 DEF Consume, At, Plain, BeginCheck, handlerFrame
  <2>2. txResult' = txResult
    BY <1>7 DEF Consume, handlerFrame
  <2> QED
    BY <2>1, <2>2, PlainCareful DEF IInv, PCs, HandlerSteps, RejectSteps, AuthorizationSteps, ProcessorSteps,
     PromptSteps, LiveSteps, SentSteps, ApprovedSteps
<1>8. CASE TakeLease(s)
  <2>1. op[s].pc = "lease" /\ sent' = sent /\ txResult' = txResult
    BY <1>8 DEF TakeLease, At, handlerFrame
  <2>2. (Plain(s, "record")) \/ Plain(s, "idle")
    BY <1>8 DEF TakeLease, At, Plain, BeginCheck, Fulfil, GiveUp, handlerFrame, Tx
  <2> QED
    BY <2>1, <2>2, PlainCareful DEF IInv, PCs, HandlerSteps, RejectSteps, AuthorizationSteps, ProcessorSteps,
     PromptSteps, LiveSteps, SentSteps, ApprovedSteps
<1>9. CASE RecordProcessing(s)
  <2>1. op[s].pc = "record" /\ sent' = sent /\ Plain(s, "prepare")
    BY <1>9 DEF RecordProcessing, At, Plain, BeginCheck, processorFrame
  <2>2. txResult' = txResult
    BY <1>9 DEF RecordProcessing, processorFrame
  <2> QED
    BY <2>1, <2>2, PlainCareful DEF IInv, PCs, HandlerSteps, RejectSteps, AuthorizationSteps, ProcessorSteps,
     PromptSteps, LiveSteps, SentSteps, ApprovedSteps
<1>10. CASE Prepare(s)
  <2>1. op[s].pc = "prepare" /\ sent' = sent /\ Plain(s, "gate")
    BY <1>10 DEF Prepare, At, Plain, BeginCheck, processorFrame
  <2>2. txResult' = txResult
    BY <1>10 DEF Prepare, processorFrame
  <2> QED
    BY <2>1, <2>2, PlainCareful DEF IInv, PCs, HandlerSteps, RejectSteps, AuthorizationSteps, ProcessorSteps,
     PromptSteps, LiveSteps, SentSteps, ApprovedSteps
<1>11. CASE AcquireOperationLock(s)
  <2>1. op[s].pc = "lock" /\ sent' = sent /\ Plain(s, "sign")
    BY <1>11 DEF AcquireOperationLock, At, Plain, BeginCheck, processorFrame
  <2>2. txResult' = txResult
    BY <1>11 DEF AcquireOperationLock, processorFrame
  <2> QED
    BY <2>1, <2>2, PlainCareful DEF IInv, PCs, HandlerSteps, RejectSteps, AuthorizationSteps, ProcessorSteps,
     PromptSteps, LiveSteps, SentSteps, ApprovedSteps
<1>12. CASE Sign(s)
  <2>1. op[s].pc = "sign" /\ sent' = sent /\ Plain(s, "account")
    BY <1>12 DEF Sign, At, Plain, BeginCheck, processorFrame
  <2>2. txResult' = txResult
    BY <1>12 DEF Sign, processorFrame
  <2> QED
    BY <2>1, <2>2, PlainCareful DEF IInv, PCs, HandlerSteps, RejectSteps, AuthorizationSteps, ProcessorSteps,
     PromptSteps, LiveSteps, SentSteps, ApprovedSteps
<1>13. CASE RereadAccount(s)
  <2>1. op[s].pc = "account" /\ sent' = sent /\ txResult' = txResult
    BY <1>13 DEF RereadAccount, At, processorFrame
  <2>2. (Plain(s, "gate")) \/ Plain(s, "failHistory")
    BY <1>13 DEF RereadAccount, At, Plain, BeginCheck, Fulfil, GiveUp, processorFrame, Tx
  <2> QED
    BY <2>1, <2>2, PlainCareful DEF IInv, PCs, HandlerSteps, RejectSteps, AuthorizationSteps, ProcessorSteps,
     PromptSteps, LiveSteps, SentSteps, ApprovedSteps
<1>14. CASE Respond(s)
  <2>1. op[s].pc = "inFlight" /\ sent' = sent /\ Plain(s, "publish")
    BY <1>14 DEF Respond, At, Plain, BeginCheck, processorFrame
  <2>2. txResult' = txResult
    BY <1>14 DEF Respond, processorFrame
  <2> QED
    BY <2>1, <2>2, PlainCareful DEF IInv, PCs, HandlerSteps, RejectSteps, AuthorizationSteps, ProcessorSteps,
     PromptSteps, LiveSteps, SentSteps, ApprovedSteps
<1>15. CASE PublishSent(s)
  <2>1. op[s].pc = "publish" /\ sent' = sent /\ Plain(s, "success")
    BY <1>15 DEF PublishSent, At, Plain, BeginCheck, processorFrame
  <2>2. txResult' = txResult
    BY <1>15 DEF PublishSent, processorFrame
  <2> QED
    BY <2>1, <2>2, PlainCareful DEF IInv, PCs, HandlerSteps, RejectSteps, AuthorizationSteps, ProcessorSteps,
     PromptSteps, LiveSteps, SentSteps, ApprovedSteps
<1>16. CASE WriteSuccess(s)
  <2>1. op[s].pc = "success" /\ sent' = sent /\ Plain(s, "finally")
    BY <1>16 DEF WriteSuccess, At, Plain, BeginCheck, processorFrame
  <2>2. \/ txResult' = txResult \/ Tells(s)
    BY <1>16, <2>1 DEF WriteSuccess, Tells, Tx, Results, Denials, DenialSteps
  <2> QED
    BY <2>1, <2>2, PlainCareful DEF IInv, PCs, HandlerSteps, RejectSteps, AuthorizationSteps, ProcessorSteps,
     PromptSteps, LiveSteps, SentSteps, ApprovedSteps
<1>17. CASE FailHistory(s)
  <2>1. op[s].pc = "failHistory" /\ sent' = sent /\ Plain(s, "failResult")
    BY <1>17 DEF FailHistory, At, Plain, BeginCheck, processorFrame
  <2>2. txResult' = txResult
    BY <1>17 DEF FailHistory, processorFrame
  <2> QED
    BY <2>1, <2>2, PlainCareful DEF IInv, PCs, HandlerSteps, RejectSteps, AuthorizationSteps, ProcessorSteps,
     PromptSteps, LiveSteps, SentSteps, ApprovedSteps
<1>18. CASE FailResult(s)
  <2>1. op[s].pc = "failResult" /\ sent' = sent /\ Plain(s, "finally")
    BY <1>18 DEF FailResult, At, Plain, BeginCheck, processorFrame
  <2>2. \/ txResult' = txResult \/ Tells(s)
    BY <1>18, <2>1 DEF FailResult, Tells, Tx, Results, Denials, DenialSteps
  <2> QED
    BY <2>1, <2>2, PlainCareful DEF IInv, PCs, HandlerSteps, RejectSteps, AuthorizationSteps, ProcessorSteps,
     PromptSteps, LiveSteps, SentSteps, ApprovedSteps
<1>19. CASE Finally(s)
  <2>1. op[s].pc = "finally" /\ sent' = sent /\ Plain(s, "idle")
    BY <1>19 DEF Finally, At, Plain, BeginCheck, surfaceFrame
  <2>2. txResult' = txResult
    BY <1>19 DEF Finally, surfaceFrame
  <2> QED
    BY <2>1, <2>2, PlainCareful DEF IInv, PCs, HandlerSteps, RejectSteps, AuthorizationSteps, ProcessorSteps,
     PromptSteps, LiveSteps, SentSteps, ApprovedSteps
<1>20. CASE Deny(s)
  <2>1. op[s].pc = "deny" /\ sent' = sent /\ (Plain(s, "idle") \/ Plain(s, "failHistory"))
    BY <1>20 DEF Deny, At, Plain, GiveUp, Fulfil
  <2>2. Tells(s)
    BY <1>20, <2>1 DEF Deny, Tells, Tx, Results, Denials, DenialSteps
  <2> QED
    BY <2>1, <2>2, PlainCareful DEF IInv, PCs, HandlerSteps, RejectSteps, AuthorizationSteps, ProcessorSteps,
     PromptSteps, LiveSteps, SentSteps, ApprovedSteps
<1>21. CASE ProcessorFails(s) \/ HandlerThrows(s)
  <2>1. sent' = sent /\ txResult' = txResult /\ (Plain(s, "failHistory") \/ Plain(s, "threw"))
    BY <1>21 DEF ProcessorFails, HandlerThrows, Plain, processorFrame, handlerFrame
  <2> QED
    BY <2>1, PlainCareful DEF IInv, PCs, HandlerSteps, RejectSteps, AuthorizationSteps, ProcessorSteps,
     PromptSteps, LiveSteps, SentSteps, ApprovedSteps
<1>22. CASE HandOff(s)
  <2>1. op' = op /\ sent' = sent /\ txResult' = txResult /\ pending' = pending
    BY <1>22 DEF HandOff, handlerFrame
  <2> QED
    BY <2>1 DEF Careful, Denies, Checks
<1>23. ASSUME op[s].pc \in {"gate", "decide"}, Authorized(s), txResult' = txResult,
             op[s].pc = "gate" => op[s].tx \notin Injected,
             op[s].pc = "decide" => op[s].seen = TRUE /\ revoking = FALSE /\ revocationEpoch = op[s].epoch
      PROVE  Careful(s)
  <2>1. CASE op[s].stage = 3 /\ Goto(s, "inFlight") /\ sent' = [sent EXCEPT ![op[s].tx] = @ + 1]
    <3>1. op'[s].pc = "inFlight"
      BY <2>1, GotoFacts DEF IInv, PCs, ProcessorSteps
    <3> QED
      BY <1>23, <2>1, <3>1 DEF Careful, Denies, Checks, Sends, PromptSteps, LiveSteps, SentSteps, ApprovedSteps
  <2>2. CASE (Plain(s, "lease") \/ Plain(s, "lock")) /\ sent' = sent
    BY <1>23, <2>2, PlainCareful DEF IInv, PCs, HandlerSteps, RejectSteps, AuthorizationSteps, ProcessorSteps,
     PromptSteps, LiveSteps, SentSteps, ApprovedSteps
  <2> QED
    BY <1>23, <2>1, <2>2 DEF Authorized, Plain, Tx
<1>24. ASSUME op[s].pc \in {"gate", "decide"}, Goto(s, "deny"), sent' = sent, txResult' = txResult
      PROVE  Careful(s)
  BY <1>24, PlainCareful DEF Plain, IInv, PCs, AuthorizationSteps, PromptSteps, LiveSteps, SentSteps, ApprovedSteps
<1>25. CASE PassGate(s)
  <2>1. op[s].pc = "gate" /\ txResult' = txResult /\ revoking \in BOOLEAN
    BY <1>25 DEF PassGate, At, authorizationFrame, IInv, TypeOK
  <2>2. CASE revoking = FALSE /\ sent' = sent
             /\ op' = [op EXCEPT ![s].pc = "permission", ![s].epoch = revocationEpoch]
    <3>1. op \in [Surfaces -> OpType] /\ op[s] \in OpType
      BY DEF IInv, TypeOK
    <3>2. op'[s].pc = "permission" /\ op'[s].epoch = revocationEpoch
      BY <2>2, <3>1 DEF OpType
    <3> QED
      BY <2>1, <2>2, <3>2 DEF Careful, Denies, StartsCheck, PromptSteps, LiveSteps, SentSteps, ApprovedSteps
  <2> QED
    BY <1>25, <1>23, <1>24, <2>1, <2>2 DEF PassGate, Tx
<1>26. CASE ReadPermission(s)
  <2>1. op[s].pc = "permission" /\ txResult' = txResult /\ sent' = sent
    BY <1>26 DEF ReadPermission, At, authorizationFrame
  <2>2. op \in [Surfaces -> OpType] /\ op[s] \in OpType
    BY DEF IInv, TypeOK
  <2>3. op'[s].pc = "decide" /\ op'[s].epoch = op[s].epoch /\ op'[s].seen = permission
    BY <1>26, <2>2 DEF ReadPermission, OpType
  <2> QED
    BY <2>1, <2>3 DEF Careful, Denies, StartsCheck, PromptSteps, LiveSteps, SentSteps, ApprovedSteps
<1>27. CASE Decide(s)
  <2>1. op[s].pc = "decide" /\ txResult' = txResult /\ op[s].seen \in BOOLEAN /\ revoking \in BOOLEAN
    BY <1>27, OpFields DEF Decide, At, authorizationFrame, IInv, TypeOK
  <2> QED
    BY <1>27, <1>23, <1>24, <2>1 DEF Decide
<1> QED
  BY <1>1, <1>2, <1>3, <1>4, <1>5, <1>6, <1>7, <1>8, <1>9, <1>10, <1>11, <1>12, <1>13, <1>14, <1>15, <1>16, <1>17, <1>18, <1>19, <1>20, <1>21, <1>22, <1>25, <1>26, <1>27 DEF SurfaceNext, HandlerNext, ProcessorNext

LEMMA SurfaceLocal == ASSUME IInv, NEW s \in Surfaces, SurfaceNext(s) PROVE Local(s)
<1>1. CASE HandlerNext(s)
  BY <1>1, LRejectRead, LRejectRemove, LRejectWrite, LCheckProcessing, LReadPending, LPreflight, LConsume,
     LPassGate, LReadPermission, LDecide, LDeny, LTakeLease, LHandOff DEF HandlerNext
<1>2. CASE AcquireOperationLock(s) \/ ProcessorNext(s)
  BY <1>2, LAcquireOperationLock, LRecordProcessing, LPrepare, LSign, LRereadAccount,
     LProcessorFails, LRespond, LPublishSent, LWriteSuccess, LFailHistory, LFailResult, LFinally
     DEF ProcessorNext
<1> QED
  BY <1>1, <1>2, LHandlerThrows DEF SurfaceNext

-----------------------------------------------------------------------------
(* A denial is final.                                                        *)

LEMMA DenialsInit == Init => DenialsHold
<1> SUFFICES ASSUME Init PROVE DenialsHold
  OBVIOUS
<1>1. \A t \in Requests : ~Denied(t)
  BY DEF Init, Denied, Denials
<1>2. \A v \in Revokers : revoker[v].removed = {}
  BY DEF Init, IdleRevoker
<1> QED
  BY <1>1, <1>2 DEF DenialsHold

LEMMA SurfaceDenials ==
  ASSUME IInv, DenialsHold, NEW s \in Surfaces, SurfaceNext(s)
  PROVE  DenialsHold'
<1>1. /\ Local(s) /\ Careful(s) /\ op[s].tx \in Requests /\ op[s].tx \notin NewRequests /\ Busy(s)
      /\ NewRequests' = NewRequests /\ dapp' = dapp /\ revoker' = revoker
      /\ pending' \subseteq pending
  BY SurfaceLocal, SurfaceCareful, BusyFacts
     DEF Local, SurfaceStep, KeepsSending, NewRequests, IInv, SInv, SendsOnce
<1>2. PICK x \in Requests : x = op[s].tx
  BY <1>1
\* Its own request stays spent, when it was before or when the denial is written now.
<1>3. ASSUME Spent(x), op[s].pc \notin ApprovedSteps PROVE Spent(x)'
  BY <1>1, <1>2, <1>3 DEF Local, KeepsSending, Spent
<1>4. ASSUME Denied(x)' PROVE Spent(x)' /\ op'[s].pc \notin LiveSteps
  <2>1. CASE Denied(x)
    <3>1. op[s].pc \notin LiveSteps /\ Spent(x)
      BY <1>1, <1>2, <2>1 DEF DenialsHold
    <3> QED
      BY <1>1, <1>2, <1>3, <3>1 DEF Careful, LiveSteps, Spent
  <2>2. CASE ~Denied(x)
    <3>1. op[s].pc \in DenialSteps /\ op'[s].pc \notin LiveSteps
      BY <1>1, <1>2, <1>4, <2>2 DEF Careful, Denies, Tells, WriteResult, Denied, Denials, IInv, TypeOK
    <3>2. Spent(x)
      BY <1>1, <1>2, <3>1 DEF DenialSteps, UnsentSteps, GoneSteps, Spent, IInv, SInv, SendsOnce
    <3> QED
      BY <1>3, <3>1, <3>2 DEF DenialSteps, ApprovedSteps
  <2> QED
    BY <2>1, <2>2
\* Of another request nothing changes.
<1>5. ASSUME NEW t \in Requests, t # x
      PROVE  /\ Denied(t)' <=> Denied(t)
             /\ Spent(t) => Spent(t)'
  BY <1>1, <1>2, <1>5 DEF Local, SurfaceStep, Denied, Spent
<1>6. ASSUME NEW t \in Requests, Denied(t)' PROVE Spent(t)'
  <2>1. CASE t = x
    BY <1>4, <1>6, <2>1
  <2>2. CASE t # x
    BY <1>5, <1>6, <2>2 DEF DenialsHold
  <2> QED
    BY <2>1, <2>2
<1>7. ASSUME NEW t \in Requests, NEW r \in Surfaces, Denied(t)', op'[r].tx = t
      PROVE  op'[r].pc \notin LiveSteps
  <2>1. CASE r = s
    <3>1. CASE op'[s].pc = "idle"
      BY <2>1, <3>1 DEF PromptSteps, LiveSteps, SentSteps, ApprovedSteps
    <3>2. CASE op'[s].pc # "idle"
      <4>1. t = x
        BY <1>1, <1>2, <1>7, <2>1, <3>2 DEF Local, KeepsSending
      <4> QED
        BY <1>4, <1>7, <2>1, <4>1
    <3> QED
      BY <3>1, <3>2
  <2>2. CASE r # s
    <3>1. op'[r] = op[r]
      BY <1>1, <1>2, <2>2 DEF Local, SurfaceStep
    <3>2. CASE op[r].pc = "idle"
      BY <3>1, <3>2 DEF PromptSteps, LiveSteps, SentSteps, ApprovedSteps
    <3>3. CASE op[r].pc # "idle"
      <4>1. t # x
        BY <1>1, <1>2, <1>7, <2>2, <3>1, <3>3, Alone DEF Busy, IInv, SInv
      <4> QED
        BY <1>5, <1>7, <3>1, <4>1 DEF DenialsHold
    <3> QED
      BY <3>2, <3>3
  <2> QED
    BY <2>1, <2>2
<1>8. ASSUME NEW v \in Revokers, NEW t \in revoker[v].removed PROVE Spent(t)'
  <2>1. t \in Requests /\ Spent(t) /\ claims[t] = v /\ v # None /\ v # s
    BY <1>8, RevokerFields DEF DenialsHold, IInv, SInv, Ownership, RevokersOwn
  <2>2. t # x
    BY <1>1, <1>2, <2>1, BusyFacts DEF IInv, SInv
  <2> QED
    BY <1>5, <2>1, <2>2
<1> QED
  BY <1>1, <1>2, <1>6, <1>7, <1>8 DEF DenialsHold

\* Everybody else: nothing is sent, and nobody comes back to life.
LEMMA DenialsFrame ==
  ASSUME DenialsHold, TypeOK, sent' = sent, NewRequests' \subseteq NewRequests,
         pending' \subseteq pending \union (NewRequests \ NewRequests'),
         \A t \in Requests : Denied(t)' => Denied(t) \/ Spent(t)',
         \A t \in Requests, s \in Surfaces :
           Denied(t)' /\ op'[s].tx = t /\ op'[s].pc \in LiveSteps => Denied(t) /\ op'[s] = op[s],
         \A v \in Revokers : \A t \in revoker'[v].removed :
           t \in revoker[v].removed \/ Spent(t)'
  PROVE  DenialsHold'
<1>1. ASSUME NEW t \in Requests, Spent(t) PROVE Spent(t)'
  BY <1>1 DEF Spent
<1>2. \A v \in Revokers : revoker[v].removed \subseteq Requests
  BY RevokerFields
<1> QED
  BY <1>1, <1>2 DEF DenialsHold

LEMMA IntakeDenials ==
  ASSUME IInv, DenialsHold, BadgeFaults = FALSE, NEW t \in Requests, IntakeStep(t)
  PROVE  DenialsHold'
<1>1. UNCHANGED intakeFrame
  BY DEF IntakeStep, Ask, AuthorizeIntake, PinAccount, SaveRequest, UpdateBadge, Answer
<1>2. NewRequests' \subseteq NewRequests
  BY DEF NewRequests, IInv, TypeOK, IntakeStep, Ask, AuthorizeIntake, PinAccount, SaveRequest,
     UpdateBadge, Answer
<1>3. pending' \subseteq pending \union (NewRequests \ NewRequests')
  BY DEF NewRequests, IInv, TypeOK, IntakeStep, Ask, AuthorizeIntake, PinAccount, SaveRequest,
     UpdateBadge, Answer
<1>4. \/ \A k \in Requests : Denied(k)' => Denied(k)
      \/ /\ t \in NewRequests /\ t \notin NewRequests' /\ pending' = pending
         /\ \A k \in Requests : k # t /\ Denied(k)' => Denied(k)
  <2>1. CASE Ask(t) \/ UpdateBadge(t) \/ Answer(t)
    BY <2>1 DEF Ask, UpdateBadge, Answer, WriteResult, Denied, Denials, IInv, TypeOK
  <2>2. CASE AuthorizeIntake(t) \/ PinAccount(t) \/ SaveRequest(t)
    <3>1. CASE txResult' = txResult
      BY <2>2, <3>1 DEF AuthorizeIntake, PinAccount, SaveRequest, Denied
    <3>2. CASE txResult' # txResult
      <4>1. /\ intake[t] \in {"authorize", "account", "save"}
            /\ intake' = [intake EXCEPT ![t] = "done"] /\ pending' = pending /\ dapp' = dapp
            /\ WriteResult(t, "revoked") \/ WriteResult(t, "failed")
        BY <2>2, <3>2 DEF AuthorizeIntake, PinAccount, SaveRequest
      <4>2. t \in NewRequests /\ t \notin NewRequests'
        BY <4>1 DEF NewRequests, IInv, TypeOK
      <4> QED
        BY <4>1, <4>2 DEF WriteResult, Denied, IInv, TypeOK
    <3> QED
      BY <3>1, <3>2
  <2> QED
    BY <2>1, <2>2 DEF IntakeStep
<1>5. t \in NewRequests => sent[t] = 0 /\ t \notin pending
  BY DEF IInv, SInv, SendsOnce
<1>6. \A k \in Requests : Denied(k)' => Denied(k) \/ Spent(k)'
  BY <1>1, <1>4, <1>5 DEF intakeFrame, Spent
<1>7. ASSUME NEW k \in Requests, NEW s \in Surfaces,
             Denied(k)', op'[s].tx = k, op'[s].pc \in LiveSteps
      PROVE  Denied(k) /\ op'[s] = op[s]
  <2>1. op' = op /\ Busy(s) /\ k \notin NewRequests
    BY <1>1, <1>7 DEF intakeFrame, Busy, PromptSteps, LiveSteps, SentSteps, ApprovedSteps, IInv, SInv, SendsOnce
  <2> QED
    BY <1>4, <1>7, <2>1
<1> QED
  BY <1>1, <1>2, <1>3, <1>6, <1>7, DenialsFrame DEF intakeFrame, IInv

LEMMA RevokerDenials ==
  ASSUME IInv, DenialsHold, NEW v \in Revokers, RevokerNext(v) \/ BeginRevocation(v)
  PROVE  DenialsHold'
<1>1. UNCHANGED revokerFrame /\ NewRequests' = NewRequests /\ pending' \subseteq pending
  BY DEF RevokerNext, BeginRevocation, DeletePermission, SnapshotPrompts, ClaimPrompts, ExpireRemove,
     ExpireWrite, FinishRevocation, revokerFrame, NewRequests
<1>2. op' = op /\ sent' = sent /\ dapp' = dapp
  BY <1>1 DEF revokerFrame
<1>3. revoker \in [Revokers -> RevokerType] /\ revoker[v] \in RevokerType
  BY DEF IInv, TypeOK
\* What this revocation removes, or answers, is spent.
<1>4. /\ \A t \in Requests : Denied(t)' => Denied(t) \/ t \in revoker[v].removed
      /\ \A u \in Revokers : \A t \in revoker'[u].removed :
           t \in revoker[u].removed \/ (t \in pending /\ t \notin pending')
  <2>1. CASE RevokerStep(v) \/ ClaimPrompts(v)
    <3>1. txResult' = txResult
      BY <2>1 DEF RevokerStep, BeginRevocation, DeletePermission, SnapshotPrompts, ClaimPrompts, FinishRevocation
    <3>2. \A u \in Revokers : revoker'[u].removed \subseteq revoker[u].removed
      BY <1>3, <2>1 DEF RevokerStep, BeginRevocation, DeletePermission, SnapshotPrompts, ClaimPrompts,
         FinishRevocation, IdleRevoker, RevokerType, IInv, TypeOK
    <3> QED
      BY <1>2, <3>1, <3>2 DEF Denied
  <2>2. ASSUME NEW k \in Requests, ExpireRemove(v, k) PROVE <1>4!1 /\ <1>4!2
    <3>1. txResult' = txResult
      BY <2>2 DEF ExpireRemove
    <3>2. \A u \in Revokers : \A t \in revoker'[u].removed :
            t \in revoker[u].removed \/ (t \in pending /\ t \notin pending')
      <4>1. CASE k \in pending
        <5>1. revoker' = [revoker EXCEPT ![v] = [revoker[v] EXCEPT !.removed = @ \union {k}]]
              /\ pending' = pending \ {k}
          BY <1>3, <2>2, <4>1 DEF ExpireRemove
        <5>2. [revoker[v] EXCEPT !.removed = @ \union {k}].removed = revoker[v].removed \union {k}
          BY <1>3 DEF RevokerType
        <5> QED
          BY <1>3, <4>1, <5>1, <5>2
      <4>2. CASE k \notin pending
        BY <1>3, <2>2, <4>2 DEF ExpireRemove, RevokerType
      <4> QED
        BY <4>1, <4>2
    <3> QED
      BY <1>2, <3>1, <3>2 DEF Denied
  <2>3. ASSUME NEW k \in Requests, ExpireWrite(v, k) PROVE <1>4!1 /\ <1>4!2
    <3>1. k \in revoker[v].removed /\ txResult' = [txResult EXCEPT ![k] = "revoked"]
      BY <2>3 DEF ExpireWrite, WriteResult
    <3>2. \A u \in Revokers : revoker'[u].removed \subseteq revoker[u].removed
      BY <1>3, <2>3 DEF ExpireWrite, RevokerType, IInv, TypeOK
    <3> QED
      BY <1>2, <3>1, <3>2 DEF Denied, IInv, TypeOK
  <2> QED
    BY <2>1, <2>2, <2>3 DEF RevokerNext, RevokerStep
<1>5. \A t \in revoker[v].removed : Spent(t)
  BY DEF DenialsHold
<1>6. ASSUME NEW t \in Requests, Denied(t)' PROVE Denied(t) \/ Spent(t)'
  BY <1>1, <1>2, <1>4, <1>5, <1>6 DEF Spent
<1>7. ASSUME NEW u \in Revokers, NEW t \in revoker'[u].removed PROVE t \in revoker[u].removed \/ Spent(t)'
  <2>1. CASE t \in pending /\ t \notin pending'
    BY <1>1, <1>2, <2>1 DEF Spent, IInv, SInv, SendsOnce
  <2> QED
    BY <1>4, <1>7, <2>1
\* A surface at one of its live steps is not at work on what a revocation claimed.
<1>8. ASSUME NEW t \in Requests, NEW s \in Surfaces, Denied(t)', op'[s].tx = t, op'[s].pc \in LiveSteps
      PROVE  Denied(t) /\ op'[s] = op[s]
  <2>1. op[s].tx = t /\ op[s].pc \in LiveSteps /\ op'[s] = op[s] /\ Busy(s)
    BY <1>2, <1>8 DEF Busy, PromptSteps, LiveSteps, SentSteps, ApprovedSteps
  <2>2. t \notin revoker[v].removed
    <3>1. Held(s)
      BY <2>1 DEF IInv, SInv, Ownership, SurfacesOwn
    <3>2. v # s /\ v # None
      OBVIOUS
    <3> QED
      BY <2>1, <3>1, <3>2 DEF Held, IInv, SInv, Ownership, RevokersOwn
  <2> QED
    BY <1>4, <1>8, <2>1, <2>2
<1> QED
  BY <1>1, <1>2, <1>6, <1>7, <1>8, DenialsFrame DEF IInv

\* A claim, a grant, an account removal, a reset, a restart and the cleanup write no denial.
LEMMA OtherDenials ==
  ASSUME IInv, DenialsHold, txResult' = txResult \/ txResult' = [t \in Requests |-> "none"],
         dapp' = dapp, sent' = sent, pending' \subseteq pending, NewRequests' \subseteq NewRequests,
         \A s \in Surfaces : op'[s] = op[s] \/ op'[s].pc \notin LiveSteps,
         \A v \in Revokers : revoker'[v].removed \subseteq revoker[v].removed
  PROVE  DenialsHold'
<1>1. \A t \in Requests : Denied(t)' => Denied(t)
  BY DEF Denied, Denials
<1> QED
  BY <1>1, DenialsFrame DEF IInv

LEMMA ThrownDenials ==
  ASSUME IInv, DenialsHold, NEW v \in Revokers, RevocationThrows(v)
  PROVE  DenialsHold'
<1>1. /\ op' = op /\ sent' = sent /\ dapp' = dapp /\ intake' = intake
      /\ pending' = pending /\ txResult' = txResult
  BY DEF RevocationThrows, revokerFrame
<1>2. revoker \in [Revokers -> RevokerType] /\ revoker[v] \in RevokerType
  BY DEF IInv, TypeOK
<1>3. \A u \in Revokers : revoker'[u].removed \subseteq revoker[u].removed
  <2>1. CASE revoker[v].pc = "expire"
    BY <1>2, <2>1 DEF RevocationThrows, RevokerType
  <2>2. CASE revoker[v].pc # "expire"
    BY <1>2, <2>2 DEF RevocationThrows, IdleRevoker, RevokerType
  <2> QED
    BY <2>1, <2>2
<1> QED
  BY <1>1, <1>3, OtherDenials DEF NewRequests

LEMMA ClaimDenials ==
  ASSUME IInv, DenialsHold, NEW s \in Surfaces, NEW t \in Requests, Reject(s, t) \/ Confirm(s, t)
  PROVE  DenialsHold'
<1>1. PICK pc \in {"rejectRead", "claimed"} : Claim(s, t, pc)
  BY DEF Reject, Confirm
<1>2. \A r \in Surfaces : op'[r] = op[r] \/ op'[r].pc = pc
  BY <1>1 DEF Claim, IdleOp, IInv, TypeOK
<1> QED
  BY <1>1, <1>2, OtherDenials DEF Claim, surfaceFrame, NewRequests, PromptSteps, LiveSteps, SentSteps, ApprovedSteps

LEMMA ResetDenials == ASSUME IInv, DenialsHold, BeginReset \/ ResetNext \/ ResetThrows PROVE DenialsHold'
<1>1. /\ UNCHANGED resetFrame /\ pending' \subseteq pending
      /\ txResult' = txResult \/ txResult' = [t \in Requests |-> "none"]
  BY DEF BeginReset, ResetNext, ResetChecks, ResetResults, ResetWallet, ResetThrows, durableVars
<1> QED
  BY <1>1, OtherDenials DEF resetFrame, outsideVars, NewRequests

LEMMA RestartDenials == ASSUME IInv, DenialsHold, WorkerRestart PROVE DenialsHold'
<1>1. \A s \in Surfaces : op'[s].pc \notin LiveSteps
  BY IdleOpFields DEF WorkerRestart, PromptSteps, LiveSteps, SentSteps, ApprovedSteps
<1>2. \A v \in Revokers : revoker'[v].removed = {}
  BY DEF WorkerRestart, IdleRevoker
<1>3. NewRequests' \subseteq NewRequests /\ UNCHANGED <<durableVars, outsideVars>>
  BY DEF WorkerRestart, NewRequests
<1> QED
  BY <1>1, <1>2, <1>3, OtherDenials DEF durableVars, outsideVars

LEMMA NextDenials ==
  ASSUME BadgeFaults = FALSE
  PROVE  IInv /\ DenialsHold /\ [Next]_vars => DenialsHold'
<1> SUFFICES ASSUME IInv, DenialsHold, [Next]_vars PROVE DenialsHold'
  OBVIOUS
<1>1. ASSUME NEW t \in Requests, IntakeNext(t) \/ Ask(t) PROVE DenialsHold'
  BY <1>1, IntakeDenials DEF IntakeNext, IntakeStep
<1>2. ASSUME NEW s \in Surfaces, HandlerNext(s) \/ AcquireOperationLock(s) \/ ProcessorNext(s)
      PROVE  DenialsHold'
  BY <1>2, SurfaceDenials DEF SurfaceNext
<1>3. ASSUME NEW v \in Revokers, RevokerNext(v) \/ BeginRevocation(v) PROVE DenialsHold'
  BY <1>3, RevokerDenials
<1>4. CASE ResetNext
  BY <1>4, ResetDenials
<1>5. CASE CleanupNext \/ GrantPermission \/ (\E a \in Accounts : RemoveAccount(a)) \/ UNCHANGED vars
  <2>1. /\ txResult' = txResult /\ dapp' = dapp /\ sent' = sent /\ op' = op /\ revoker' = revoker
        /\ pending' = pending /\ intake' = intake
    BY <1>5 DEF CleanupNext, ReadStaleHistory, FailStaleHistory, GrantPermission, RemoveAccount,
       vars, durableVars, outsideVars, revokerFrame
  <2> QED
    BY <2>1, OtherDenials DEF NewRequests
<1>6. CASE EnvironmentNext
  BY <1>1, <1>3, <1>5, <1>6, ClaimDenials, ResetDenials, RestartDenials DEF EnvironmentNext
<1>7. CASE FaultNext
  BY <1>7, ResetDenials, SurfaceDenials, ThrownDenials DEF FaultNext, SurfaceNext
<1> QED
  BY <1>1, <1>2, <1>3, <1>4, <1>5, <1>6, <1>7 DEF Next

\* When the badge call does not throw, a page that was told that its request was rejected, revoked or
\* failed never sees it sent, and no denial waits in storage for a request that was sent.
THEOREM DenialAlwaysFinal ==
  ASSUME BadgeFaults = FALSE
  PROVE  Spec => []DenialIsFinal
<1>1. DenialsHold => DenialIsFinal
  BY DEF DenialsHold, DenialIsFinal, Denied, Spent
<1>2. IInv /\ DenialsHold /\ [Next]_vars => DenialsHold'
  BY NextDenials
<1> QED
  BY <1>1, <1>2, DenialsInit, Inductive, PTL DEF Spec

-----------------------------------------------------------------------------
(* Nothing is sent behind the user's back.                                   *)

\* A raw transaction leaves the wallet in one place: after the last check of a surface.
LEMMA OnlySurfacesSend ==
  ASSUME IInv, [Next]_vars, sent' # sent
  PROVE  \E s \in Surfaces : Sends(s)
<1>1. ASSUME NEW t \in Requests, IntakeNext(t) \/ Ask(t) PROVE sent' = sent
  BY <1>1 DEF IntakeNext, Ask, AuthorizeIntake, PinAccount, SaveRequest, UpdateBadge, Answer, intakeFrame
<1>2. ASSUME NEW v \in Revokers, RevokerNext(v) \/ BeginRevocation(v) \/ RevocationThrows(v)
      PROVE  sent' = sent
  BY <1>2 DEF RevokerNext, BeginRevocation, DeletePermission, SnapshotPrompts, ClaimPrompts, ExpireRemove,
     ExpireWrite, FinishRevocation, RevocationThrows, revokerFrame
<1>3. ASSUME ResetNext \/ ResetThrows \/ BeginReset \/ CleanupNext \/ WorkerRestart PROVE sent' = sent
  BY <1>3 DEF ResetNext, ResetChecks, ResetResults, ResetWallet, ResetThrows, BeginReset, resetFrame,
     CleanupNext, ReadStaleHistory, FailStaleHistory, WorkerRestart, outsideVars
<1>4. ASSUME GrantPermission \/ (\E a \in Accounts : RemoveAccount(a)) \/ UNCHANGED vars PROVE sent' = sent
  BY <1>4 DEF GrantPermission, revokerFrame, RemoveAccount, vars, outsideVars
<1>5. ASSUME NEW s \in Surfaces, NEW t \in Requests, Reject(s, t) \/ Confirm(s, t) PROVE sent' = sent
  BY <1>5 DEF Reject, Confirm, Claim
<1>6. ASSUME NEW s \in Surfaces, SurfaceNext(s) PROVE Sends(s)
  BY <1>6, SurfaceCareful DEF Careful
<1> QED
  BY <1>1, <1>2, <1>3, <1>4, <1>5, <1>6 DEF Next, EnvironmentNext, FaultNext, SurfaceNext

\* Account removal and reset cannot slip between the last read of the account and the raw
\* send: the operation lock and the barrier keep them out.
THEOREM NeverSendFromRemovedAccount == Spec => NoSendFromRemovedAccount
<1>1. ASSUME IInv, [Next]_vars, NEW t \in Requests, sent'[t] # sent[t]
      PROVE  AccountOf[t] \in accounts /\ reset = "idle"
  <2>1. PICK s \in Surfaces : Sends(s)
    BY <1>1, OnlySurfacesSend
  <2>2. Busy(s) /\ LastCheck(s)
    BY <2>1 DEF Sends, Busy, LastCheck
  <2>3. op[s].tx = t
    BY <1>1, <2>1 DEF Sends, IInv, TypeOK
  <2> QED
    BY <1>1, <2>2, <2>3, BusyFacts DEF IInv, SInv, SignsUnderLock
<1>2. IInv /\ [Next]_vars =>
        [\A t \in Requests : sent'[t] # sent[t] => AccountOf[t] \in accounts /\ reset = "idle"]_vars
  BY <1>1
<1> QED
  BY <1>2, Inductive, PTL DEF Spec, NoSendFromRemovedAccount

LEMMA GateInit == Init => GateHolds
<1> SUFFICES ASSUME Init PROVE GateInv
  BY DEF GateHolds
<1>1. \A v \in Revokers : revoker[v].pc = "idle"
  BY DEF Init, IdleRevoker
<1>2. \A s \in Surfaces : EpochHolds(op[s])
  BY IdleOpFields DEF Init, EpochHolds, Checks
<1> QED
  BY <1>1, <1>2 DEF Init, GateInv, GateClosed, Revokes

\* Only the start of a revocation and a restart change what is known of the overlap.
LEMMA OverlapKept ==
  ASSUME IInv, [Next]_vars, ~WorkerRestart
  PROVE  (overlapped' = overlapped) \/ \E v \in Revokers : BeginRevocation(v)
<1>1. ASSUME NEW t \in Requests, IntakeNext(t) \/ Ask(t) PROVE overlapped' = overlapped
  BY <1>1 DEF IntakeNext, Ask, AuthorizeIntake, PinAccount, SaveRequest, UpdateBadge, Answer, intakeFrame,
     gateVars
<1>2. ASSUME NEW s \in Surfaces, SurfaceNext(s) PROVE overlapped' = overlapped
  BY <1>2, SurfaceLocal DEF Local, SurfaceStep
<1>3. ASSUME NEW v \in Revokers, RevokerNext(v) \/ RevocationThrows(v) PROVE overlapped' = overlapped
  BY <1>3 DEF RevokerNext, DeletePermission, SnapshotPrompts, ClaimPrompts, ExpireRemove, ExpireWrite,
     FinishRevocation, RevocationThrows, gateVars
<1>4. ASSUME ResetNext \/ ResetThrows \/ BeginReset PROVE overlapped' = overlapped
  BY <1>4 DEF BeginReset, ResetNext, ResetChecks, ResetResults, ResetWallet, ResetThrows, resetFrame, gateVars
<1>5. ASSUME CleanupNext \/ GrantPermission \/ (\E a \in Accounts : RemoveAccount(a)) \/ UNCHANGED vars
      PROVE  overlapped' = overlapped
  BY <1>5 DEF CleanupNext, ReadStaleHistory, FailStaleHistory, GrantPermission, RemoveAccount, vars, gateVars
<1>6. ASSUME NEW s \in Surfaces, NEW t \in Requests, Reject(s, t) \/ Confirm(s, t)
      PROVE  overlapped' = overlapped
  BY <1>6 DEF Reject, Confirm, Claim, surfaceFrame, gateVars
<1> QED
  BY <1>1, <1>2, <1>3, <1>4, <1>5, <1>6 DEF Next, EnvironmentNext, FaultNext, SurfaceNext

LEMMA SurfaceGate ==
  ASSUME IInv, GateInv, NEW s \in Surfaces, SurfaceNext(s)
  PROVE  GateInv'
<1>1. /\ Local(s) /\ Careful(s)
      /\ UNCHANGED <<permission, revoking, revocationEpoch, revoker>>
      /\ \A r \in Surfaces : r # s => op'[r] = op[r]
  BY SurfaceLocal, SurfaceCareful DEF Local, SurfaceStep
<1>2. GateClosed'
  BY <1>1 DEF GateClosed, GateInv, Revokes
<1>3. /\ op'[s].epoch \in Int /\ op[s].epoch \in Int /\ revocationEpoch \in Int
      /\ op'[s].seen \in BOOLEAN /\ permission \in BOOLEAN
  BY <1>1, OpFields DEF Local, IInv, TypeOK, OpType
<1>4. EpochHolds(op[s])'
  <2>1. CASE op'[s] = op[s]
    BY <1>1, <2>1 DEF EpochHolds, Checks, GateInv
  <2>2. CASE op'[s].pc = "permission" /\ op'[s].epoch = revocationEpoch /\ revoking = FALSE
    BY <1>1, <1>3, <2>2 DEF EpochHolds, Checks
  <2>3. CASE op[s].pc = "permission" /\ op'[s].epoch = op[s].epoch /\ op'[s].seen = permission
    <3>1. EpochHolds(op[s])
      BY DEF GateInv
    <3> QED
      BY <1>1, <1>3, <2>3, <3>1 DEF EpochHolds, Checks
  <2>4. CASE ~Checks(op'[s])
    BY <2>4 DEF EpochHolds, Checks
  <2> QED
    BY <1>1, <2>1, <2>2, <2>3, <2>4 DEF Careful, StartsCheck
<1>5. ASSUME NEW r \in Surfaces PROVE EpochHolds(op[r])'
  <2>1. CASE r # s
    BY <1>1, <2>1 DEF EpochHolds, Checks, GateInv
  <2> QED
    BY <1>4, <2>1
<1> QED
  BY <1>2, <1>5 DEF GateInv

\* A step that leaves the gate alone, and takes a permission away only when no check runs.
LEMMA GateFrame ==
  ASSUME GateInv, UNCHANGED gateVars,
         \A v \in Revokers : Revokes(v)' <=> Revokes(v),
         \A s \in Surfaces : op'[s] = op[s] \/ ~Checks(op'[s]),
         permission' = permission \/ permission' = TRUE \/ \A s \in Surfaces : ~Checks(op[s])
  PROVE  GateInv'
<1>1. GateClosed'
  BY DEF GateInv, GateClosed, gateVars
<1>2. ASSUME NEW s \in Surfaces PROVE EpochHolds(op[s])'
  <2>1. CASE ~Checks(op'[s])
    BY <2>1 DEF EpochHolds, Checks
  <2>2. CASE Checks(op'[s])
    BY <2>2 DEF EpochHolds, Checks, GateInv, gateVars
  <2> QED
    BY <2>1, <2>2
<1> QED
  BY <1>1, <1>2 DEF GateInv

LEMMA EpochTypes ==
  ASSUME TypeOK
  PROVE  /\ revocationEpoch \in Nat /\ revoking \in BOOLEAN /\ permission \in BOOLEAN
         /\ \A s \in Surfaces : op[s].epoch \in Nat
BY OpFields DEF TypeOK

LEMMA RevokerGate ==
  ASSUME IInv, GateInv, NEW v \in Revokers, overlapped' = FALSE,
         RevokerNext(v) \/ BeginRevocation(v) \/ RevocationThrows(v)
  PROVE  GateInv'
<1>1. revoker \in [Revokers -> RevokerType] /\ revoker[v] \in RevokerType
  BY DEF IInv, TypeOK
<1>2. op' = op
  BY DEF RevokerNext, BeginRevocation, DeletePermission, SnapshotPrompts, ClaimPrompts, ExpireRemove,
     ExpireWrite, FinishRevocation, RevocationThrows, revokerFrame
<1>3. ASSUME NEW u \in Revokers, u # v PROVE Revokes(u)' <=> Revokes(u)
  BY <1>1, <1>3 DEF RevokerNext, BeginRevocation, DeletePermission, SnapshotPrompts, ClaimPrompts,
     ExpireRemove, ExpireWrite, FinishRevocation, RevocationThrows, Revokes
<1>4. CASE BeginRevocation(v)
  <2>1. /\ revocationEpoch' = revocationEpoch + 1 /\ revoking' = TRUE /\ permission' = permission
        /\ \A u \in Revokers : ~Revokes(u)
    BY <1>4 DEF BeginRevocation
  <2>2. GateClosed'
    BY <1>3, <2>1 DEF GateClosed
  <2>3. \A s \in Surfaces : EpochHolds(op[s])'
    BY <1>2, <2>1, EpochTypes DEF GateInv, EpochHolds, Checks, IInv
  <2> QED
    BY <2>2, <2>3 DEF GateInv
<1>5. CASE DeletePermission(v)
  <2>1. Revokes(v) /\ revoking = TRUE /\ UNCHANGED gateVars
    BY <1>5 DEF DeletePermission, Revokes, GateInv, GateClosed
  <2>2. \A s \in Surfaces : EpochHolds(op[s])'
    BY <1>2, <2>1, EpochTypes DEF GateInv, EpochHolds, Checks, gateVars, IInv
  <2>3. GateClosed'
    BY <1>3, <2>1 DEF GateInv, GateClosed, gateVars
  <2> QED
    BY <2>2, <2>3 DEF GateInv
<1>6. CASE FinishRevocation(v) \/ RevocationThrows(v)
  <2>1. Revokes(v) /\ revoking' = FALSE /\ UNCHANGED <<permission, revocationEpoch>>
    BY <1>6 DEF FinishRevocation, RevocationThrows, Revokes
  <2>2. revoking = TRUE
    BY <2>1 DEF GateInv, GateClosed
  <2>3. ~Revokes(v)'
    BY <1>1, <1>6 DEF FinishRevocation, RevocationThrows, Revokes, IdleRevoker, RevokerType
  <2>4. GateClosed'
    BY <1>3, <2>1, <2>3 DEF GateInv, GateClosed
  <2>5. \A s \in Surfaces : EpochHolds(op[s])'
    BY <1>2, <2>1, <2>2, EpochTypes DEF GateInv, EpochHolds, Checks, IInv
  <2> QED
    BY <2>4, <2>5 DEF GateInv
<1>7. CASE SnapshotPrompts(v) \/ ClaimPrompts(v)
  <2>1. Revokes(v) /\ Revokes(v)' /\ UNCHANGED <<gateVars, permission>>
    BY <1>1, <1>7 DEF SnapshotPrompts, ClaimPrompts, RevokerType, Revokes
  <2> QED
    BY <1>2, <1>3, <2>1, GateFrame
<1>8. ASSUME NEW t \in Requests, ExpireRemove(v, t) \/ ExpireWrite(v, t) PROVE GateInv'
  <2>1. (Revokes(v)' <=> Revokes(v)) /\ UNCHANGED <<gateVars, permission>>
    BY <1>1, <1>8 DEF ExpireRemove, ExpireWrite, RevokerType, Revokes
  <2> QED
    BY <1>2, <1>3, <2>1, GateFrame
<1> QED
  BY <1>4, <1>5, <1>6, <1>7, <1>8 DEF RevokerNext

LEMMA ResetGate == ASSUME IInv, GateInv, BeginReset \/ ResetNext \/ ResetThrows PROVE GateInv'
<1>1. op' = op /\ revoker' = revoker /\ UNCHANGED gateVars
  BY DEF BeginReset, ResetNext, ResetChecks, ResetResults, ResetWallet, ResetThrows, resetFrame
<1>2. CASE ResetWallet
  <2>1. \A s \in Surfaces : ~Checks(op[s])
    BY <1>2, NobodyBusy DEF ResetWallet, Busy, Checks, IInv, SInv, Ownership, BarrierOwn
  <2> QED
    BY <1>1, <2>1, GateFrame DEF Revokes
<1>3. CASE BeginReset \/ ResetChecks \/ ResetResults \/ ResetThrows
  <2>1. permission' = permission
    BY <1>3 DEF BeginReset, ResetChecks, ResetResults, ResetThrows, durableVars
  <2> QED
    BY <1>1, <2>1, GateFrame DEF Revokes
<1> QED
  BY <1>2, <1>3 DEF ResetNext

LEMMA RestartGate == ASSUME WorkerRestart PROVE GateInv'
<1>1. \A s \in Surfaces : ~Checks(op'[s])
  BY IdleOpFields DEF WorkerRestart, Checks
<1>2. \A v \in Revokers : ~Revokes(v)'
  BY DEF WorkerRestart, IdleRevoker, Revokes
<1>3. revoking' = FALSE
  BY DEF WorkerRestart
<1> QED
  BY <1>1, <1>2, <1>3 DEF GateInv, GateClosed, EpochHolds, Checks

LEMMA ClaimGate ==
  ASSUME IInv, GateInv, NEW s \in Surfaces, NEW t \in Requests, Reject(s, t) \/ Confirm(s, t)
  PROVE  GateInv'
<1>1. PICK pc \in {"rejectRead", "claimed"} : Claim(s, t, pc)
  BY DEF Reject, Confirm
<1>2. \A r \in Surfaces : op'[r] = op[r] \/ ~Checks(op'[r])
  BY <1>1 DEF Claim, IdleOp, Checks, IInv, TypeOK
<1> QED
  BY <1>1, <1>2, GateFrame DEF Claim, surfaceFrame, Revokes

LEMMA NextGate == IInv /\ GateHolds /\ [Next]_vars => GateHolds'
<1> SUFFICES ASSUME IInv, GateHolds, [Next]_vars, overlapped' = FALSE PROVE GateInv'
  BY DEF GateHolds
<1>1. CASE WorkerRestart
  BY <1>1, RestartGate
<1>2. CASE ~WorkerRestart
  <2>1. overlapped = FALSE
    <3>1. overlapped \in BOOLEAN
      BY DEF IInv, TypeOK
    <3>2. (overlapped' = overlapped) \/ \E v \in Revokers : BeginRevocation(v)
      BY <1>2, OverlapKept
    <3>3. ASSUME NEW v \in Revokers, BeginRevocation(v) PROVE overlapped = FALSE
      BY <3>1, <3>3 DEF BeginRevocation
    <3> QED
      BY <3>2, <3>3
  <2>2. GateInv
    BY <2>1 DEF GateHolds
  <2>3. ASSUME NEW s \in Surfaces, HandlerNext(s) \/ AcquireOperationLock(s) \/ ProcessorNext(s)
        PROVE  GateInv'
    BY <2>2, <2>3, SurfaceGate DEF SurfaceNext
  <2>4. ASSUME NEW v \in Revokers, RevokerNext(v) \/ BeginRevocation(v) \/ RevocationThrows(v)
        PROVE  GateInv'
    BY <2>2, <2>4, RevokerGate
  <2>5. CASE ResetNext
    BY <2>2, <2>5, ResetGate
  <2>6. ASSUME NEW t \in Requests, IntakeNext(t) \/ Ask(t) PROVE GateInv'
    BY <2>2, <2>6, GateFrame DEF IntakeNext, Ask, AuthorizeIntake, PinAccount, SaveRequest, UpdateBadge,
       Answer, intakeFrame, Revokes
  <2>7. CASE CleanupNext \/ GrantPermission \/ (\E a \in Accounts : RemoveAccount(a)) \/ UNCHANGED vars
    <3>1. /\ op' = op /\ revoker' = revoker /\ UNCHANGED gateVars
          /\ permission' = permission \/ permission' = TRUE
      BY <2>7 DEF CleanupNext, ReadStaleHistory, FailStaleHistory, GrantPermission, RemoveAccount,
         vars, durableVars, revokerFrame
    <3> QED
      BY <2>2, <3>1, GateFrame DEF Revokes
  <2>8. CASE EnvironmentNext
    BY <1>2, <2>2, <2>4, <2>6, <2>7, <2>8, ClaimGate, ResetGate DEF EnvironmentNext
  <2>9. CASE FaultNext
    BY <2>2, <2>4, <2>9, ResetGate, SurfaceGate DEF FaultNext, SurfaceNext
  <2> QED
    BY <2>3, <2>4, <2>5, <2>6, <2>7, <2>8, <2>9 DEF Next
<1> QED
  BY <1>1, <1>2

\* Any number of revocations, grants and restarts, with any number of surfaces and with
\* storage calls that throw: as long as no two revocations of the site ran at once, a page's
\* request is sent only while the site holds its permission and no revocation is at work.
\* Two that overlap share the one gate, and the first to finish opens it.
THEOREM NeverSendAfterRevocation == Spec => NoSendAfterRevocation
<1>1. ASSUME IInv, GateHolds, [Next]_vars, NEW t \in Injected, sent'[t] # sent[t], ~overlapped
      PROVE  permission /\ ~revoking
  <2>1. PICK s \in Surfaces : Sends(s)
    BY <1>1, OnlySurfacesSend
  <2>2. op[s].tx = t
    BY <1>1, <2>1 DEF Sends, IInv, TypeOK
  <2>3. op[s].pc = "decide"
    BY <2>1, <2>2 DEF Sends
  <2>4. permission = TRUE /\ revoking = FALSE
    BY <1>1, <2>1, <2>3 DEF Sends, GateHolds, GateInv, EpochHolds, IInv, TypeOK
  <2> QED
    BY <2>4
<1>2. IInv /\ GateHolds /\ [Next]_vars =>
        [\A t \in Injected : sent'[t] # sent[t] /\ ~overlapped => permission /\ ~revoking]_vars
  BY <1>1
<1>3. IInv /\ GateHolds /\ [Next]_vars => GateHolds'
  BY NextGate
<1> QED
  BY <1>2, <1>3, GateInit, Inductive, PTL DEF Spec, NoSendAfterRevocation

-----------------------------------------------------------------------------
(* The handlers implement the promise of RequestOutcome.                     *)

\* The prompt is stored as long as a handler may still consume or remove it, and
\* a success is told of what was sent only.
StoredHolds == \A s \in Surfaces : op[s].pc \in PromptSteps => op[s].tx \in pending
SuccessHolds ==
  /\ \A t \in Requests : txResult[t] = "success" \/ dapp[t] = "success" => sent[t] > 0
  /\ \A s \in Surfaces : op[s].pc \in SentSteps => sent[op[s].tx] > 0
AskedHolds == \A t \in Requests : intake[t] = "idle" => dapp[t] = "idle"

PInv == IInv /\ DenialsHold /\ StoredHolds /\ SuccessHolds /\ AskedHolds

-----------------------------------------------------------------------------
(* What a request looks like from outside, case by case.                     *)

PhaseIs(t) ==
  /\ Phase(t) \in {"new", "pending", "approved", "sent", "gone"}
  /\ Phase(t) = "sent" <=> sent[t] > 0
  /\ Phase(t) = "approved" <=> sent[t] = 0 /\ Approved(t)
  /\ Phase(t) = "pending" <=> sent[t] = 0 /\ ~Approved(t) /\ t \in pending
  /\ Phase(t) = "new" <=> sent[t] = 0 /\ ~Approved(t) /\ t \notin pending /\ t \in NewRequests

LEMMA PhaseFacts ==
  ASSUME TypeOK, NEW t \in Requests
  PROVE  PhaseIs(t)
<1>1. sent[t] \in Nat
  BY DEF TypeOK
<1>2. CASE sent[t] > 0
  BY <1>1, <1>2 DEF PhaseIs, Phase
<1>3. CASE sent[t] = 0
  BY <1>3 DEF PhaseIs, Phase, NewRequests
<1> QED
  BY <1>1, <1>2, <1>3

LEMMA PhaseFactsNext ==
  ASSUME TypeOK', NEW t \in Requests
  PROVE  PhaseIs(t)'
<1>1. sent'[t] \in Nat
  BY DEF TypeOK
<1>2. CASE sent'[t] > 0
  BY <1>1, <1>2 DEF PhaseIs, Phase
<1>3. CASE sent'[t] = 0
  BY <1>3 DEF PhaseIs, Phase, NewRequests
<1> QED
  BY <1>1, <1>2, <1>3

\* The moves that the promise allows one request.
Allowed(t) ==
  \/ Phase(t)' = Phase(t)
  \/ Phase(t) = "new" /\ Phase(t)' = "pending"
  \/ Phase(t) = "pending" /\ Phase(t)' = "approved"
  \/ Phase(t) = "approved" /\ Phase(t)' = "sent"
  \/ Phase(t) \in {"new", "pending", "approved"} /\ Phase(t)' = "gone"
Drops(t) == Phase(t) \in {"new", "pending", "approved"} /\ Phase(t)' = "gone"

OutcomeStep == [Outcome!OutcomeNext]_(Outcome!outcomeVars)

LEMMA OneMoves ==
  ASSUME NEW x \in Requests, Allowed(x),
         \A t \in Requests : t # x => Phase(t)' = Phase(t),
         \A t \in Requests : Told(t)' = Told(t)
  PROVE  OutcomeStep
<1> DEFINE p == [t \in Requests |-> Phase(t)]
           q == [t \in Requests |-> Phase(t)']
<1>1. [t \in Requests |-> Told(t)]' = [t \in Requests |-> Told(t)]
  OBVIOUS
<1>2. [t \in Requests |-> Phase(t)]' = q
  OBVIOUS
<1>3. CASE Phase(x)' = Phase(x)
  <2>1. q = p
    BY <1>3
  <2> QED
    BY <1>1, <1>2, <2>1 DEF OutcomeStep, Outcome!outcomeVars
<1>4. CASE Phase(x) = "new" /\ Phase(x)' = "pending"
  <2>1. p[x] = "new" /\ q = [p EXCEPT ![x] = "pending"]
    BY <1>4
  <2>2. Outcome!Queue(x)
    BY <1>1, <1>2, <2>1 DEF Outcome!Queue, Outcome!Move
  <2> QED
    BY <2>2 DEF OutcomeStep, Outcome!OutcomeNext
<1>5. CASE Phase(x) = "pending" /\ Phase(x)' = "approved"
  <2>1. p[x] = "pending" /\ q = [p EXCEPT ![x] = "approved"]
    BY <1>5
  <2>2. Outcome!Approve(x)
    BY <1>1, <1>2, <2>1 DEF Outcome!Approve, Outcome!Move
  <2> QED
    BY <2>2 DEF OutcomeStep, Outcome!OutcomeNext
<1>6. CASE Phase(x) = "approved" /\ Phase(x)' = "sent"
  <2>1. p[x] = "approved" /\ q = [p EXCEPT ![x] = "sent"]
    BY <1>6
  <2>2. Outcome!Send(x)
    BY <1>1, <1>2, <2>1 DEF Outcome!Send, Outcome!Move
  <2> QED
    BY <2>2 DEF OutcomeStep, Outcome!OutcomeNext
<1>7. CASE Drops(x)
  <2>1. Outcome!Drop({x})
    BY <1>1, <1>2, <1>7 DEF Outcome!Drop, Drops
  <2> QED
    BY <2>1 DEF OutcomeStep, Outcome!OutcomeNext
<1> QED
  BY <1>3, <1>4, <1>5, <1>6, <1>7 DEF Allowed, Drops

LEMMA TellsOne ==
  ASSUME NEW x \in Requests, Told(x) = "nothing",
         \/ Phase(x) = "sent" /\ Told(x)' = "success"
         \/ Phase(x) = "gone" /\ Told(x)' = "denial",
         \A t \in Requests : t # x => Told(t)' = Told(t),
         \A t \in Requests : Phase(t)' = Phase(t)
  PROVE  OutcomeStep
<1> DEFINE p == [t \in Requests |-> Told(t)]
<1>1. [t \in Requests |-> Phase(t)]' = [t \in Requests |-> Phase(t)]
  OBVIOUS
<1>2. [t \in Requests |-> Told(t)]' = [p EXCEPT ![x] = Told(x)']
  OBVIOUS
<1>3. p[x] = "nothing" /\ [t \in Requests |-> Phase(t)][x] = Phase(x)
  OBVIOUS
<1>4. CASE Phase(x) = "sent" /\ Told(x)' = "success"
  <2>1. Outcome!Tell(x)
    BY <1>1, <1>2, <1>3, <1>4 DEF Outcome!Tell
  <2> QED
    BY <2>1 DEF OutcomeStep, Outcome!OutcomeNext
<1>5. CASE Phase(x) = "gone" /\ Told(x)' = "denial"
  <2>1. Outcome!Tell(x)
    BY <1>1, <1>2, <1>3, <1>5 DEF Outcome!Tell
  <2> QED
    BY <2>1 DEF OutcomeStep, Outcome!OutcomeNext
<1> QED
  BY <1>4, <1>5

LEMMA SomeDrop ==
  ASSUME \A t \in Requests : Phase(t)' = Phase(t) \/ Drops(t),
         \A t \in Requests : Told(t)' = Told(t)
  PROVE  OutcomeStep
<1> DEFINE ts == {t \in Requests : Drops(t)}
<1>1. [t \in Requests |-> Told(t)]' = [t \in Requests |-> Told(t)]
  OBVIOUS
<1>2. [t \in Requests |-> Phase(t)]' = [t \in Requests |-> Phase(t)']
  OBVIOUS
<1>3. CASE ts = {}
  <2>1. [t \in Requests |-> Phase(t)'] = [t \in Requests |-> Phase(t)]
    BY <1>3
  <2> QED
    BY <1>1, <1>2, <2>1 DEF OutcomeStep, Outcome!outcomeVars
<1>4. CASE ts # {}
  <2>1. [t \in Requests |-> Phase(t)'] = [t \in Requests |-> IF t \in ts THEN "gone" ELSE Phase(t)]
    BY DEF Drops
  <2>2. Outcome!Drop(ts)
    BY <1>1, <1>2, <1>4, <2>1 DEF Outcome!Drop, Drops
  <2> QED
    BY <2>2 DEF OutcomeStep, Outcome!OutcomeNext
<1> QED
  BY <1>3, <1>4

-----------------------------------------------------------------------------
(* A step of a surface.                                                      *)

LEMMA ApprovedIs ==
  ASSUME IInv, NEW s \in Surfaces, Busy(s)
  PROVE  Approved(op[s].tx) <=> op[s].pc \in ApprovedSteps
<1>1. ASSUME NEW r \in Surfaces, op[r].tx = op[s].tx, op[r].pc \in ApprovedSteps PROVE r = s
  BY <1>1, Alone DEF Busy, ApprovedSteps, IInv, SInv
<1> QED
  BY <1>1 DEF Approved

\* The facts that the two lemmas below and the simulation use.
LEMMA SurfaceFacts ==
  ASSUME IInv, NEW s \in Surfaces, SurfaceNext(s)
  PROVE  /\ Busy(s) /\ Local(s) /\ Careful(s)
         /\ op[s].tx \in Requests /\ op[s].tx \notin NewRequests /\ NewRequests' = NewRequests
         /\ dapp' = dapp /\ pending' \subseteq pending
         /\ op'[s].pc = "idle" \/ op'[s].tx = op[s].tx
         /\ \A r \in Surfaces : r # s => op'[r] = op[r] /\ (Busy(r) => op[r].tx # op[s].tx)
         /\ \A t \in Requests : sent'[t] >= sent[t]
<1>1. Local(s) /\ Careful(s) /\ Busy(s)
  BY SurfaceLocal, SurfaceCareful DEF Local, SurfaceStep
<1>2. op[s].tx \in Requests /\ op[s].tx \notin NewRequests /\ NewRequests' = NewRequests
  BY <1>1, BusyFacts DEF Local, SurfaceStep, NewRequests, IInv, SInv, SendsOnce
<1>3. \A r \in Surfaces : r # s => op'[r] = op[r] /\ (Busy(r) => op[r].tx # op[s].tx)
  BY <1>1, Alone DEF Local, SurfaceStep, IInv, SInv
<1>4. \A t \in Requests : sent[t] \in Nat
  BY DEF IInv, TypeOK
<1>5. \A t \in Requests : sent'[t] >= sent[t]
  BY <1>1, <1>4 DEF Local, SurfaceStep, KeepsSending
<1> QED
  BY <1>1, <1>2, <1>3, <1>5 DEF Local, SurfaceStep, KeepsSending

LEMMA SurfaceStored ==
  ASSUME IInv, StoredHolds, NEW s \in Surfaces, SurfaceNext(s)
  PROVE  StoredHolds'
<1> SUFFICES ASSUME NEW r \in Surfaces, op'[r].pc \in PromptSteps PROVE op'[r].tx \in pending'
  BY DEF StoredHolds
<1>1. CASE r = s
  BY <1>1, SurfaceFacts DEF Careful, StoredHolds, PromptSteps
<1>2. CASE r # s
  <2>1. /\ op'[r] = op[r] /\ Busy(r) /\ op[r].tx # op[s].tx
        /\ op[r].tx \in pending /\ op[r].tx \in Requests
    BY <1>2, SurfaceFacts, BusyFacts DEF Busy, PromptSteps, StoredHolds, IInv, SInv
  <2> QED
    BY <2>1, SurfaceFacts DEF Local, SurfaceStep
<1> QED
  BY <1>1, <1>2

LEMMA SurfaceSuccess ==
  ASSUME IInv, SuccessHolds, NEW s \in Surfaces, SurfaceNext(s)
  PROVE  SuccessHolds'
<1>1. \A t \in Requests : sent[t] \in Nat /\ sent'[t] \in Nat /\ sent'[t] >= sent[t]
  BY SurfaceFacts DEF Local, IInv, TypeOK
<1>2. ASSUME NEW t \in Requests, txResult'[t] = "success" \/ dapp'[t] = "success" PROVE sent'[t] > 0
  <2>1. CASE txResult[t] = "success" \/ dapp[t] = "success"
    BY <1>1, <2>1 DEF SuccessHolds
  <2>2. CASE txResult[t] # "success" /\ txResult'[t] = "success"
    <3>1. t = op[s].tx /\ op[s].pc = "success"
      BY <2>2, SurfaceFacts DEF Careful, Denies, Tells, WriteResult, DenialSteps, IInv, TypeOK,
         Local, SurfaceStep
    <3> QED
      BY <1>1, <3>1 DEF SuccessHolds, SentSteps
  <2> QED
    BY <1>2, <2>1, <2>2, SurfaceFacts
<1>3. ASSUME NEW r \in Surfaces, op'[r].pc \in SentSteps PROVE sent'[op'[r].tx] > 0
  <2>1. CASE r # s
    <3>1. op'[r] = op[r] /\ op[r].tx \in Requests
      BY <1>3, <2>1, SurfaceFacts, BusyFacts DEF Busy, SentSteps, IInv, SInv
    <3> QED
      BY <1>1, <1>3, <3>1 DEF SuccessHolds
  <2>2. CASE r = s
    <3>1. op'[s].tx = op[s].tx /\ op[s].tx \in Requests
      BY <1>3, <2>2, SurfaceFacts DEF SentSteps
    <3>2. CASE op[s].pc \in SentSteps
      BY <1>1, <2>2, <3>1, <3>2 DEF SuccessHolds
    <3>3. CASE Sends(s)
      <4>1. sent'[op[s].tx] = sent[op[s].tx] + 1
        BY <3>1, <3>3 DEF Sends, IInv, TypeOK
      <4> QED
        BY <1>1, <2>2, <3>1, <4>1
    <3> QED
      BY <1>3, <2>2, <3>2, <3>3, SurfaceFacts DEF Careful
  <2> QED
    BY <2>1, <2>2
<1> QED
  BY <1>2, <1>3 DEF SuccessHolds

LEMMA SurfaceSimulates ==
  ASSUME IInv, StoredHolds, NEW s \in Surfaces, SurfaceNext(s)
  PROVE  OutcomeStep
<1>1. PICK x \in Requests : x = op[s].tx
  BY SurfaceFacts
<1>2. TypeOK /\ TypeOK'
  BY SurfaceFacts DEF Local, IInv
<1>3. \A t \in Requests : sent[t] \in Nat /\ sent'[t] \in Nat
  BY <1>2 DEF TypeOK
<1>4. Approved(x) <=> op[s].pc \in ApprovedSteps
  BY <1>1, SurfaceFacts, ApprovedIs
<1>5. Approved(x)' <=> op'[s].pc \in ApprovedSteps
  <2>1. ASSUME NEW r \in Surfaces, op'[r].tx = x, op'[r].pc \in ApprovedSteps PROVE r = s
    BY <1>1, <2>1, SurfaceFacts DEF Busy, ApprovedSteps
  <2>2. op'[s].pc \in ApprovedSteps => op'[s].tx = x
    BY <1>1, SurfaceFacts DEF ApprovedSteps
  <2> QED
    BY <2>1, <2>2 DEF Approved
<1>6. ASSUME NEW t \in Requests, t # x PROVE Phase(t)' = Phase(t)
  <2>1. Approved(t)' <=> Approved(t)
    <3>1. ASSUME NEW r \in Surfaces
          PROVE  op'[r].tx = t /\ op'[r].pc \in ApprovedSteps <=> op[r].tx = t /\ op[r].pc \in ApprovedSteps
      BY <1>1, <1>6, SurfaceFacts DEF ApprovedSteps
    <3> QED
      BY <3>1 DEF Approved
  <2>2. sent'[t] = sent[t] /\ (t \in pending' <=> t \in pending) /\ (t \in NewRequests' <=> t \in NewRequests)
    BY <1>1, <1>6, SurfaceFacts DEF Local, SurfaceStep
  <2> QED
    BY <1>2, <1>3, <2>1, <2>2, PhaseFacts, PhaseFactsNext DEF PhaseIs
<1>7. Allowed(x)
  <2>1. PhaseIs(x) /\ PhaseIs(x)'
    BY <1>2, PhaseFacts, PhaseFactsNext
  <2>2. x \notin NewRequests /\ x \notin NewRequests' /\ (x \in pending' => x \in pending)
    BY <1>1, SurfaceFacts
  <2>3. CASE sent[x] > 0
    BY <1>3, <2>1, <2>3, SurfaceFacts DEF PhaseIs, Allowed
  <2>4. CASE sent[x] = 0 /\ op[s].pc \in ApprovedSteps
    <3>1. Phase(x) = "approved"
      BY <1>4, <2>1, <2>4 DEF PhaseIs
    <3>2. x \notin pending'
      BY <1>1, <2>2, <2>4 DEF IInv, SInv, SendsOnce, GoneSteps
    <3>3. Phase(x)' \in {"sent", "approved", "gone"}
      BY <2>1, <2>2, <3>2 DEF PhaseIs
    <3> QED
      BY <3>1, <3>3 DEF Allowed
  <2>5. CASE sent[x] = 0 /\ op[s].pc \notin ApprovedSteps
    <3>1. sent'[x] = 0
      BY <1>1, <2>5, SurfaceFacts DEF Local, KeepsSending
    <3>2. CASE x \in pending
      <4>1. Phase(x) = "pending"
        BY <1>4, <2>1, <2>5, <3>2 DEF PhaseIs
      <4>2. Phase(x)' \in {"pending", "approved", "gone"}
        BY <2>1, <2>2, <3>1 DEF PhaseIs
      <4> QED
        BY <4>1, <4>2 DEF Allowed
    <3>3. CASE x \notin pending
      <4>1. op'[s].pc \notin ApprovedSteps
        BY <1>1, <2>5, <3>3, SurfaceFacts DEF Careful, LiveSteps, StoredHolds
      <4>2. Phase(x) = "gone"
        BY <1>4, <2>1, <2>2, <2>5, <3>3 DEF PhaseIs
      <4>3. Phase(x)' = "gone"
        BY <1>5, <2>1, <2>2, <3>1, <3>3, <4>1 DEF PhaseIs
      <4> QED
        BY <4>2, <4>3 DEF Allowed
    <3> QED
      BY <3>2, <3>3
  <2> QED
    BY <1>3, <2>3, <2>4, <2>5
<1>8. \A t \in Requests : Told(t)' = Told(t)
  BY SurfaceFacts DEF Told
<1> QED
  BY <1>6, <1>7, <1>8, OneMoves

-----------------------------------------------------------------------------
(* Everybody else.                                                           *)

\* Those who send nothing, store nothing and answer nobody: a request may only drop.
Outside ==
  /\ sent' = sent /\ dapp' = dapp /\ pending' \subseteq pending /\ NewRequests' \subseteq NewRequests
  /\ \A t \in Requests : txResult'[t] = "success" => txResult[t] = "success"
  /\ \A t \in Requests : intake'[t] = "idle" => intake[t] = "idle"
  /\ \A s \in Surfaces : op'[s] = op[s] \/ op'[s].pc \in {"idle", "rejectRead", "claimed"}
  /\ \A s \in Surfaces : op'[s] = op[s] /\ op[s].pc \in PromptSteps /\ op[s].tx \in pending
       => op[s].tx \in pending'

LEMMA OutsideHolds ==
  ASSUME IInv, StoredHolds, SuccessHolds, AskedHolds, Outside
  PROVE  StoredHolds' /\ SuccessHolds' /\ AskedHolds'
<1>1. StoredHolds'
  BY DEF Outside, StoredHolds, PromptSteps
<1>2. SuccessHolds'
  BY DEF Outside, SuccessHolds, SentSteps
<1>3. AskedHolds'
  BY DEF Outside, AskedHolds
<1> QED
  BY <1>1, <1>2, <1>3

LEMMA OutsideSimulates ==
  ASSUME IInv, TypeOK', Outside
  PROVE  OutcomeStep
<1>1. \A t \in Requests : Approved(t)' => Approved(t)
  BY DEF Outside, Approved, ApprovedSteps
<1>2. ASSUME NEW t \in Requests PROVE Phase(t)' = Phase(t) \/ Drops(t)
  <2>1. PhaseIs(t) /\ PhaseIs(t)'
    BY PhaseFacts, PhaseFactsNext DEF IInv
  <2>2. t \in pending => t \notin NewRequests
    BY DEF IInv, SInv, SendsOnce
  <2>3. Approved(t) => t \notin pending /\ t \notin NewRequests
    BY DEF Approved, Busy, GoneSteps, ApprovedSteps, IInv, SInv, SendsOnce
  <2>4. sent[t] \in Nat /\ sent'[t] = sent[t]
    BY DEF Outside, IInv, TypeOK
  <2>5. CASE sent[t] > 0
    BY <2>1, <2>4, <2>5 DEF PhaseIs
  <2>6. CASE sent[t] = 0 /\ Phase(t)' = "gone"
    BY <2>1, <2>4, <2>6 DEF PhaseIs, Drops
  <2>7. CASE sent[t] = 0 /\ Phase(t)' # "gone"
    BY <1>1, <2>1, <2>2, <2>3, <2>4, <2>7 DEF PhaseIs, Outside
  <2> QED
    BY <2>4, <2>5, <2>6, <2>7
<1>3. \A t \in Requests : Told(t)' = Told(t)
  BY DEF Outside, Told
<1> QED
  BY <1>2, <1>3, SomeDrop

LEMMA RevokerOutside ==
  ASSUME IInv, NEW v \in Revokers, RevokerNext(v) \/ BeginRevocation(v) \/ RevocationThrows(v)
  PROVE  Outside
<1>1. /\ sent' = sent /\ dapp' = dapp /\ op' = op /\ NewRequests' = NewRequests
      /\ pending' \subseteq pending /\ intake' = intake
  BY DEF RevokerNext, BeginRevocation, DeletePermission, SnapshotPrompts, ClaimPrompts, ExpireRemove,
     ExpireWrite, FinishRevocation, RevocationThrows, revokerFrame, NewRequests
<1>2. \A t \in Requests : txResult'[t] = "success" => txResult[t] = "success"
  BY DEF RevokerNext, BeginRevocation, DeletePermission, SnapshotPrompts, ClaimPrompts, ExpireRemove,
     ExpireWrite, FinishRevocation, RevocationThrows, WriteResult, IInv, TypeOK
<1>3. ASSUME NEW s \in Surfaces, op[s].pc \in PromptSteps, op[s].tx \in pending
      PROVE  op[s].tx \in pending'
  <2>1. Held(s) /\ v # s /\ v # None
    BY <1>3 DEF Busy, PromptSteps, IInv, SInv, Ownership, SurfacesOwn
  <2>2. op[s].tx \notin revoker[v].mine
    BY <2>1 DEF Held, IInv, SInv, Ownership, RevokersOwn
  <2>3. pending' = pending \/ \E t \in revoker[v].mine : pending' = pending \ {t}
    BY DEF RevokerNext, BeginRevocation, DeletePermission, SnapshotPrompts, ClaimPrompts, ExpireRemove,
       ExpireWrite, FinishRevocation, RevocationThrows
  <2> QED
    BY <1>3, <2>2, <2>3
<1> QED
  BY <1>1, <1>2, <1>3 DEF Outside

LEMMA ClaimOutside ==
  ASSUME IInv, NEW s \in Surfaces, NEW t \in Requests, Reject(s, t) \/ Confirm(s, t)
  PROVE  Outside
<1>1. PICK pc \in {"rejectRead", "claimed"} : Claim(s, t, pc)
  BY DEF Reject, Confirm
<1>2. \A r \in Surfaces : op'[r] = op[r] \/ op'[r].pc = pc
  BY <1>1 DEF Claim, IdleOp, IInv, TypeOK
<1> QED
  BY <1>1, <1>2 DEF Claim, surfaceFrame, NewRequests, Outside

LEMMA ResetOutside == ASSUME IInv, BeginReset \/ ResetNext \/ ResetThrows PROVE Outside
<1>1. /\ UNCHANGED resetFrame /\ pending' \subseteq pending
      /\ txResult' = txResult \/ txResult' = [t \in Requests |-> "none"]
  BY DEF BeginReset, ResetNext, ResetChecks, ResetResults, ResetWallet, ResetThrows, durableVars
<1>2. pending' = pending \/ \A s \in Surfaces : op[s].pc = "idle"
  <2>1. CASE ResetWallet
    BY <2>1, NobodyBusy DEF ResetWallet, Busy, IInv, SInv, Ownership, BarrierOwn
  <2>2. CASE BeginReset \/ ResetChecks \/ ResetResults \/ ResetThrows
    BY <2>2 DEF BeginReset, ResetChecks, ResetResults, ResetThrows, durableVars
  <2> QED
    BY <2>1, <2>2 DEF ResetNext
<1> QED
  BY <1>1, <1>2 DEF resetFrame, outsideVars, NewRequests, Outside, PromptSteps

LEMMA RestartOutside == ASSUME WorkerRestart PROVE Outside
<1>1. \A s \in Surfaces : op'[s].pc = "idle"
  BY IdleOpFields DEF WorkerRestart
<1>2. /\ NewRequests' \subseteq NewRequests /\ UNCHANGED <<durableVars, outsideVars>>
      /\ \A t \in Requests : intake'[t] = "idle" => intake[t] = "idle"
  BY DEF WorkerRestart, NewRequests
<1> QED
  BY <1>1, <1>2 DEF durableVars, outsideVars, Outside, PromptSteps

-----------------------------------------------------------------------------
(* Intake, and the answer.                                                   *)

LEMMA IntakeHolds ==
  ASSUME IInv, StoredHolds, SuccessHolds, AskedHolds, NEW t \in Requests, IntakeStep(t)
  PROVE  StoredHolds' /\ SuccessHolds' /\ AskedHolds'
<1>1. UNCHANGED intakeFrame /\ pending \subseteq pending'
  BY DEF IntakeStep, Ask, AuthorizeIntake, PinAccount, SaveRequest, UpdateBadge, Answer
<1>2. \A k \in Requests : txResult'[k] = "success" \/ dapp'[k] = "success"
                            => txResult[k] = "success" \/ dapp[k] = "success"
  <2>1. CASE Ask(t) \/ Answer(t)
    BY <2>1 DEF Ask, Answer, WriteResult, IInv, TypeOK
  <2>2. CASE AuthorizeIntake(t) \/ PinAccount(t) \/ SaveRequest(t) \/ UpdateBadge(t)
    <3>1. dapp' = dapp /\ (txResult' = txResult \/ WriteResult(t, "revoked") \/ WriteResult(t, "failed"))
      BY <2>2 DEF AuthorizeIntake, PinAccount, SaveRequest, UpdateBadge
    <3> QED
      BY <3>1 DEF WriteResult, IInv, TypeOK
  <2> QED
    BY <2>1, <2>2 DEF IntakeStep
<1>3. StoredHolds'
  BY <1>1 DEF intakeFrame, StoredHolds
<1>4. SuccessHolds'
  BY <1>1, <1>2 DEF intakeFrame, SuccessHolds
<1>5. AskedHolds'
  BY DEF IntakeStep, Ask, AuthorizeIntake, PinAccount, SaveRequest, UpdateBadge, Answer, AskedHolds,
     IInv, TypeOK
<1> QED
  BY <1>3, <1>4, <1>5

LEMMA IntakeSimulates ==
  ASSUME IInv, AskedHolds, TypeOK', NEW t \in Requests,
         Ask(t) \/ AuthorizeIntake(t) \/ PinAccount(t) \/ SaveRequest(t) \/ UpdateBadge(t)
  PROVE  OutcomeStep
<1>1. op' = op /\ sent' = sent /\ \A k \in Requests : Approved(k)' <=> Approved(k)
  BY DEF Ask, AuthorizeIntake, PinAccount, SaveRequest, UpdateBadge, intakeFrame, Approved
<1>2. \A k \in Requests : PhaseIs(k) /\ PhaseIs(k)' /\ sent[k] \in Nat
  BY PhaseFacts, PhaseFactsNext DEF IInv, TypeOK
<1>3. \A k \in Requests : k # t =>
        (k \in pending' <=> k \in pending) /\ (k \in NewRequests' <=> k \in NewRequests)
  BY DEF Ask, AuthorizeIntake, PinAccount, SaveRequest, UpdateBadge, NewRequests, IInv, TypeOK
<1>4. \/ (t \in pending' <=> t \in pending) /\ (t \in NewRequests' <=> t \in NewRequests)
      \/ t \in NewRequests /\ t \notin NewRequests'
  BY DEF Ask, AuthorizeIntake, PinAccount, SaveRequest, UpdateBadge, NewRequests, IInv, TypeOK
<1>5. t \in NewRequests => sent[t] = 0 /\ t \notin pending /\ ~Approved(t)
  BY DEF Approved, Busy, ApprovedSteps, IInv, SInv, SendsOnce
<1>6. Allowed(t)
  <2>1. CASE (t \in pending' <=> t \in pending) /\ (t \in NewRequests' <=> t \in NewRequests)
    BY <1>1, <1>2, <2>1 DEF PhaseIs, Allowed
  <2>2. CASE t \in NewRequests /\ t \notin NewRequests'
    <3>1. Phase(t) = "new"
      BY <1>2, <1>5, <2>2 DEF PhaseIs
    <3>2. Phase(t)' \in {"pending", "gone"}
      BY <1>1, <1>2, <1>5, <2>2 DEF PhaseIs
    <3> QED
      BY <3>1, <3>2 DEF Allowed
  <2> QED
    BY <1>4, <2>1, <2>2
<1>7. \A k \in Requests : k # t => Phase(k)' = Phase(k)
  BY <1>1, <1>2, <1>3 DEF PhaseIs
<1>8. \A k \in Requests : Told(k)' = Told(k)
  <2>1. CASE Ask(t)
    <3>1. dapp[t] = "idle" /\ dapp' \in {dapp, [dapp EXCEPT ![t] = "waiting"]}
      <4>1. dapp[t] = "idle" /\ dapp \in [Requests -> Results \union {"idle", "waiting"}]
        BY <2>1 DEF Ask, AskedHolds, IInv, TypeOK
      <4>2. CASE t \in Injected
        BY <2>1, <4>1, <4>2 DEF Ask
      <4>3. CASE t \notin Injected
        BY <2>1, <4>1, <4>3 DEF Ask
      <4> QED
        BY <4>1, <4>2, <4>3
    <3> QED
      BY <3>1 DEF Told, IInv, TypeOK
  <2>2. CASE ~Ask(t)
    BY <2>2 DEF AuthorizeIntake, PinAccount, SaveRequest, UpdateBadge, Told
  <2> QED
    BY <2>1, <2>2
<1> QED
  BY <1>6, <1>7, <1>8, OneMoves

\* The page hears the outcome that really happened.
LEMMA AnswerSimulates ==
  ASSUME IInv, DenialsHold, SuccessHolds, TypeOK', NEW t \in Requests, Answer(t)
  PROVE  OutcomeStep
<1>1. /\ dapp[t] = "waiting" /\ txResult[t] \in Results /\ dapp' = [dapp EXCEPT ![t] = txResult[t]]
      /\ op' = op /\ sent' = sent /\ pending' = pending /\ NewRequests' = NewRequests
  BY DEF Answer, intakeFrame, NewRequests, IInv, TypeOK
<1>2. \A k \in Requests : Phase(k)' = Phase(k)
  <2>1. \A k \in Requests : PhaseIs(k) /\ PhaseIs(k)' /\ (Approved(k)' <=> Approved(k))
    BY <1>1, PhaseFacts, PhaseFactsNext DEF IInv, Approved
  <2> QED
    BY <1>1, <2>1 DEF PhaseIs
<1>3. \A k \in Requests : k # t => Told(k)' = Told(k)
  BY <1>1 DEF Told, IInv, TypeOK
<1>4. Told(t) = "nothing"
  BY <1>1 DEF Told
<1>5. PhaseIs(t) /\ dapp'[t] = txResult[t]
  BY <1>1, PhaseFacts DEF IInv, TypeOK
<1>6. CASE txResult[t] = "success"
  <2>1. Phase(t) = "sent"
    BY <1>5, <1>6 DEF SuccessHolds, PhaseIs
  <2>2. Told(t)' = "success"
    BY <1>5, <1>6 DEF Told
  <2> QED
    BY <1>2, <1>3, <1>4, <2>1, <2>2, TellsOne
<1>7. CASE txResult[t] \in Denials
  <2>1. Spent(t) /\ \A s \in Surfaces : op[s].tx = t => op[s].pc \notin ApprovedSteps
    BY <1>7 DEF DenialsHold, Denied, LiveSteps
  <2>2. Phase(t) = "gone"
    BY <1>5, <2>1 DEF PhaseIs, Spent, Approved
  <2>3. Told(t)' = "denial"
    BY <1>5, <1>7 DEF Told, Denials
  <2> QED
    BY <1>2, <1>3, <1>4, <2>2, <2>3, TellsOne
<1> QED
  BY <1>1, <1>6, <1>7 DEF Results

-----------------------------------------------------------------------------
(* The refinement.                                                           *)

LEMMA PromiseInit == Init => PInv /\ Outcome!OutcomeInit
<1> SUFFICES ASSUME Init PROVE PInv /\ Outcome!OutcomeInit
  OBVIOUS
<1>1. PInv
  <2>1. IInv /\ DenialsHold
    BY InitInv, DenialsInit
  <2>2. \A s \in Surfaces : op[s].pc = "idle"
    BY IdleOpFields DEF Init
  <2>3. StoredHolds /\ SuccessHolds /\ AskedHolds
    BY <2>2 DEF Init, StoredHolds, SuccessHolds, AskedHolds, PromptSteps, SentSteps
  <2> QED
    BY <2>1, <2>3 DEF PInv
<1>2. ASSUME NEW t \in Requests PROVE Phase(t) = "new" /\ Told(t) = "nothing"
  <2>1. PhaseIs(t)
    BY <1>1, PhaseFacts DEF PInv, IInv
  <2>2. ~Approved(t)
    BY IdleOpFields DEF Init, Approved, ApprovedSteps
  <2>3. Phase(t) = "new"
    BY <2>1, <2>2 DEF Init, PhaseIs, NewRequests
  <2> QED
    BY <2>3 DEF Init, Told
<1>3. Outcome!OutcomeInit
  BY <1>2 DEF Outcome!OutcomeInit
<1> QED
  BY <1>1, <1>3

LEMMA PromiseNext ==
  ASSUME BadgeFaults = FALSE
  PROVE  PInv /\ [Next]_vars => PInv' /\ OutcomeStep
<1> SUFFICES ASSUME PInv, [Next]_vars PROVE PInv' /\ OutcomeStep
  OBVIOUS
<1>1. IInv' /\ DenialsHold' /\ TypeOK'
  BY NextInv, NextDenials DEF PInv, IInv
<1> DEFINE Goal == StoredHolds' /\ SuccessHolds' /\ AskedHolds' /\ OutcomeStep
<1>2. ASSUME Outside PROVE Goal
  BY <1>1, <1>2, OutsideHolds, OutsideSimulates DEF PInv
<1>3. ASSUME NEW s \in Surfaces, SurfaceNext(s) PROVE Goal
  <2>1. AskedHolds'
    BY <1>3, SurfaceFacts DEF Local, SurfaceStep, AskedHolds, PInv
  <2> QED
    BY <1>3, <2>1, SurfaceStored, SurfaceSuccess, SurfaceSimulates DEF PInv
<1>4. ASSUME NEW t \in Requests, IntakeNext(t) \/ Ask(t) PROVE Goal
  <2>1. IntakeStep(t)
    BY <1>4 DEF IntakeStep, IntakeNext
  <2>2. OutcomeStep
    BY <1>1, <2>1, IntakeSimulates, AnswerSimulates DEF IntakeStep, PInv
  <2> QED
    BY <2>1, <2>2, IntakeHolds DEF PInv
<1>5. ASSUME NEW v \in Revokers, RevokerNext(v) \/ BeginRevocation(v) \/ RevocationThrows(v) PROVE Goal
  BY <1>2, <1>5, RevokerOutside DEF PInv
<1>6. ASSUME BeginReset \/ ResetNext \/ ResetThrows PROVE Goal
  BY <1>2, <1>6, ResetOutside DEF PInv
<1>7. ASSUME NEW s \in Surfaces, NEW t \in Requests, Reject(s, t) \/ Confirm(s, t) PROVE Goal
  BY <1>2, <1>7, ClaimOutside DEF PInv
<1>8. ASSUME CleanupNext \/ GrantPermission \/ (\E a \in Accounts : RemoveAccount(a)) \/ UNCHANGED vars
      PROVE  Goal
  <2>1. /\ txResult' = txResult /\ dapp' = dapp /\ sent' = sent /\ op' = op
        /\ pending' = pending /\ intake' = intake
    BY <1>8 DEF CleanupNext, ReadStaleHistory, FailStaleHistory, GrantPermission, RemoveAccount,
       vars, durableVars, outsideVars, revokerFrame
  <2>2. Outside
    BY <2>1 DEF Outside, NewRequests
  <2> QED
    BY <1>2, <2>2
<1>9. ASSUME WorkerRestart PROVE Goal
  BY <1>2, <1>9, RestartOutside
<1> HIDE DEF Goal
<1>10. ASSUME EnvironmentNext PROVE Goal
  BY <1>4, <1>5, <1>6, <1>7, <1>8, <1>9, <1>10 DEF EnvironmentNext
<1>11. ASSUME FaultNext PROVE Goal
  BY <1>3, <1>5, <1>6, <1>11 DEF FaultNext, SurfaceNext
<1>12. Goal
  BY <1>3, <1>4, <1>5, <1>6, <1>8, <1>10, <1>11 DEF Next, SurfaceNext
<1> QED
  BY <1>1, <1>12 DEF Goal, PInv

\* When the badge call does not throw, the handlers, revocations, resets and restarts implement
\* RequestOutcome for every page and user: a request moves only from new to pending to
\* approved to sent, or drops out, and the page is told the outcome that happened, once.
THEOREM PromiseKept ==
  ASSUME BadgeFaults = FALSE
  PROVE  Spec => KeepsPromise
<1>1. PInv /\ [Next]_vars => PInv' /\ [Outcome!OutcomeNext]_(Outcome!outcomeVars)
  BY PromiseNext DEF OutcomeStep
<1> QED
  BY <1>1, PromiseInit, PTL DEF Spec, KeepsPromise, Outcome!OutcomeSpec

=============================================================================
