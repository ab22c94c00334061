--------------------------- MODULE CrossDappBatch ---------------------------
(***************************************************************************)
(* The user-assembled batch: requests of several sites are moved from      *)
(* their prompts into one stored batch, dismissed from it or confirmed     *)
(* together as one transaction, while a site may be revoked                *)
(* (chrome/crossDappBatch).                                                *)
(*                                                                         *)
(* Every operation runs under a claim of the batch; the move of a request  *)
(* claims its prompt too.  An entry stands for the group of calls of one   *)
(* request: a group is added, dismissed and answered as a whole.  One      *)
(* action per stretch of a handler between two awaits that another actor,  *)
(* or a restart of the service worker, can tell apart.                     *)
(***************************************************************************)
EXTENDS PendingRequestClaims, Integers, FiniteSets, SequencesExt

CONSTANTS Requests,        \* requests of the sites
          Bundles,         \* those asked with wallet_sendCalls
          CallsOf,         \* how many calls a request adds (approval cleanups included)
          Sites, SiteOf,   \* the site that asked each of them
          Active,          \* "active": the key of the batch
          Surfaces,        \* wallet pages
          Revoker,         \* the call of handleRevokeDappPermission
          MaxCalls,        \* MAX_BATCH_CALLS, scaled down
          MaxSends,        \* bound: confirmations that broadcast
          MaxRevocations,  \* bound: revocations of a site per worker life
          MaxRestarts      \* bound: restarts of the service worker

ASSUME BatchAssumption ==
  /\ Bundles \subseteq Requests
  /\ SiteOf \in [Requests -> Sites]
  /\ Active \notin Requests /\ Keys = Requests \union {Active}
  /\ Revoker \notin Surfaces /\ Tokens = Surfaces \union {Revoker}
  /\ {MaxCalls, MaxSends, MaxRevocations, MaxRestarts} \subseteq Nat
ASSUME CallsAssumption == CallsOf \in [Requests -> Nat]

VARIABLES
  prompts,      \* chrome.storage.local: requests with a prompt of their own
  batch,        \* chrome.storage.local: the entries of the batch
  answer,       \* chrome.storage.local: txResult, or the status of the bundle
  rows,         \* history: the batches that were broadcast
  permission,   \* chrome.storage.local: sites the user connected
  revoking,     \* memory: revokingDappOrigins
  epoch,        \* memory: dappOriginRevocationEpochs
  tracked,      \* memory: rows whose receipt is mirrored to the bundles
  op,           \* memory: the call of each actor
  sent,         \* outside the wallet: broadcasts of each request
  restarts,     \* bound
  torn          \* history variable: a restart fell between two writes about it

storageVars == <<prompts, batch, answer, permission>>
gateVars == <<revoking, epoch>>
chainVars == <<rows, sent>>
vars == <<claimVars, storageVars, gateVars, chainVars, tracked, op, restarts, torn>>

Answers == {"none", "failed", "sent", "submitted", "confirmed", "reverted"}
Terminal == {"failed", "sent", "confirmed", "reverted"}
RowType == [calls : SUBSET Requests, status : {"processing", "pending", "success", "failed"}]
Actors == Surfaces \union {Revoker}

IdleOp == [pc |-> "idle", read |-> <<>>, going |-> {}, todo |-> {}, final |-> FALSE,
           snap |-> [s \in Sites |-> 0], gated |-> {}, check |-> {}, bad |-> {},
           outcome |-> "none"]
OpType ==
  [pc : {"idle", "addSet", "addRemove", "dismiss", "prepare", "sign", "validate", "drop",
         "dropAnswer", "results", "history", "publish", "delete", "claim", "cancel", "finish"},
   read : Seq(Requests),          \* the batch it read
   going : SUBSET Requests,      \* the requests it moves or removes
   todo : SUBSET Requests,       \* the requests it has still to answer
   final : BOOLEAN,              \* confirmation: it is in the hook before the broadcast
   snap : [Sites -> 0..MaxRevocations], \* epochs it captured
   gated : SUBSET Sites,         \* sites whose gate was up when it captured them
   check : SUBSET Sites,         \* sites it has still to validate
   bad : SUBSET Sites,           \* sites found unauthorized; revoker: the site
   outcome : {"none", "failed", "pending", "success", "reverted"}]

TypeOK ==
  /\ ClaimsTypeOK
  /\ prompts \subseteq Requests
  /\ batch \in Seq(Requests)
  /\ answer \in [Requests -> Answers]
  /\ rows \in Seq(RowType) /\ Len(rows) <= MaxSends
  /\ permission \subseteq Sites /\ revoking \subseteq Sites
  /\ epoch \in [Sites -> 0..MaxRevocations]
  /\ tracked \subseteq 1..Len(rows)
  /\ op \in [Actors -> OpType]
  /\ sent \in [Requests -> Nat]
  /\ restarts \in 0..MaxRestarts /\ torn \subseteq Requests

\* Every request has been asked and waits at its prompt.
Init ==
  /\ ClaimsInit
  /\ prompts = Requests /\ batch = <<>>
  /\ answer = [r \in Requests |-> "none"]
  /\ rows = <<>>
  /\ permission = Sites /\ revoking = {}
  /\ epoch = [s \in Sites |-> 0]
  /\ tracked = {}
  /\ op = [a \in Actors |-> IdleOp]
  /\ sent = [r \in Requests |-> 0]
  /\ restarts = 0 /\ torn = {}

At(a, pc) == op[a].pc = pc
Idle(a) == At(a, "idle")
Of(sites) == {r \in Requests : SiteOf[r] \in sites}
Without(entries, gone) ==
  LET rest[i \in 0..Len(entries)] ==
        IF i = 0 THEN <<>>
        ELSE IF entries[i] \in gone THEN rest[i - 1] ELSE Append(rest[i - 1], entries[i])
  IN rest[Len(entries)]
\* How often a request is among the calls that are sent
Times(r, entries) == Cardinality({i \in 1..Len(entries) : entries[i] = r})
Answer(r, value) == answer' = [answer EXCEPT ![r] = value]
Update(a, new) == op' = [op EXCEPT ![a] = new]
\* The call goes on; of its locals only the batch it read is still of use.
Step(a, pc) == [IdleOp EXCEPT !.pc = pc, !.read = op[a].read]
\* The handler returns: its claims are released.
Return(a) == Update(a, IdleOp) /\ ReleaseClaims(a, Keys)

bounds == <<restarts, torn>>
outside == <<permission, gateVars, chainVars, tracked, bounds>>

-----------------------------------------------------------------------------
(* Moving a request into the batch                                           *)

\* Mutant: the move claims the batch alone.
ClaimBatchOnly(s, r) ==
  /\ Idle(s) /\ r \in prompts
  /\ InstallClaims(s, {Active})
  /\ Update(s, [IdleOp EXCEPT !.pc = "addSet", !.read = batch, !.going = {r}])
  /\ UNCHANGED <<storageVars, gateVars, chainVars, tracked, bounds>>

\* addToCrossDappBatch, addCallsToCrossDappBatch: both claims or none, then the reads
ClaimMove(s, r) ==
  /\ Idle(s) /\ r \in prompts
  /\ InstallClaims(s, {r, Active})
  /\ Update(s, [IdleOp EXCEPT !.pc = "addSet", !.read = batch, !.going = {r}])
  /\ UNCHANGED <<storageVars, gateVars, chainVars, tracked, bounds>>

Calls(entries) == Cardinality(UNION {{i} \X (1..CallsOf[entries[i]]) : i \in DOMAIN entries})

\* Only a single request looks at the limit of the whole batch: a bundle was measured
\* alone, when it was asked for, and takes the batch beyond it.
TooMany(entries, r) == r \notin Bundles /\ Calls(entries) + CallsOf[r] > MaxCalls

\* setCrossDappBatch, or the refusal of one request too many
AddSet(s) ==
  /\ At(s, "addSet")
  /\ LET full == \E r \in op[s].going : TooMany(op[s].read, r) IN
     \/ /\ ~full
        /\ batch' = op[s].read \o SetToSeq(op[s].going)
        /\ Update(s, [IdleOp EXCEPT !.pc = "addRemove", !.going = op[s].going])
        /\ UNCHANGED claimVars
     \/ full /\ Return(s) /\ UNCHANGED batch
  /\ UNCHANGED <<prompts, answer, outside>>

\* removePendingTxRequest (intake.ts:133), removePendingBatchTxRequest (intake.ts:241)
AddRemove(s) ==
  /\ At(s, "addRemove")
  /\ prompts' = prompts \ op[s].going
  /\ Return(s)
  /\ UNCHANGED <<batch, answer, outside>>

-----------------------------------------------------------------------------
(* Decisions on a prompt of its own; TransactionRequest has their detail     *)

DirectConfirm(s, r) ==
  /\ Idle(s) /\ r \in prompts /\ CanResolve({r})
  /\ SiteOf[r] \in permission \ revoking /\ sent[r] < MaxSends
  /\ prompts' = prompts \ {r}
  /\ sent' = [sent EXCEPT ![r] = @ + 1]
  /\ Answer(r, IF r \in Bundles THEN "submitted" ELSE "sent")
  /\ UNCHANGED <<claimVars, batch, permission, gateVars, rows, tracked, op, bounds>>

DirectReject(s, r) ==
  /\ Idle(s) /\ r \in prompts /\ CanResolve({r})
  /\ prompts' = prompts \ {r}
  /\ Answer(r, "failed")
  /\ UNCHANGED <<claimVars, batch, outside, op>>

-----------------------------------------------------------------------------
(* Dismissing entries: the results are written, then the rest of the batch   *)

Dismiss(s, gone) ==
  /\ Idle(s)
  /\ InstallClaims(s, {Active})
  /\ Update(s, [IdleOp EXCEPT !.pc = "dismiss", !.read = batch, !.going = gone, !.todo = gone])
  /\ UNCHANGED <<storageVars, gateVars, chainVars, tracked, bounds>>

\* handleRemoveFromCrossDappBatch, handleRejectCrossDappBatch
RemoveEntry(s, r) == r \in ToSet(batch) /\ Dismiss(s, {r})
RejectBatch(s) == batch /= <<>> /\ Dismiss(s, ToSet(batch))

DismissAnswer(s, r) ==
  /\ At(s, "dismiss") /\ r \in op[s].todo
  /\ Answer(r, "failed")
  /\ Update(s, [op[s] EXCEPT !.todo = @ \ {r}])
  /\ UNCHANGED <<claimVars, prompts, batch, outside>>

DismissWrite(s) ==
  /\ At(s, "dismiss") /\ op[s].todo = {}
  /\ batch' = Without(op[s].read, op[s].going)
  /\ Return(s)
  /\ UNCHANGED <<prompts, answer, outside>>

-----------------------------------------------------------------------------
(* terminalizeSourceGroups: the rest of the batch is written, then the results*)

\* Mutant: the entries stay in the batch.
DropNothing(a) ==
  /\ At(a, "drop")
  /\ Update(a, [op[a] EXCEPT !.pc = "dropAnswer", !.todo = op[a].going])
  /\ UNCHANGED <<claimVars, storageVars, gateVars, chainVars, tracked, bounds>>

DropWrite(a) ==
  /\ At(a, "drop")
  /\ batch' = Without(op[a].read, op[a].going)
  /\ Update(a, [op[a] EXCEPT !.pc = "dropAnswer", !.todo = op[a].going])
  /\ UNCHANGED <<claimVars, prompts, answer, outside>>

DropAnswer(a, r) ==
  /\ At(a, "dropAnswer") /\ r \in op[a].todo
  /\ Answer(r, "failed")
  /\ Update(a, [op[a] EXCEPT !.todo = @ \ {r}])
  /\ UNCHANGED <<claimVars, prompts, batch, outside>>

\* Every entry the confirmation read is told the error.
Fail(s) == Update(s, [Step(s, "publish") EXCEPT !.outcome = "failed",
                                                !.todo = ToSet(op[s].read)])

\* The confirmation ends, the other entries stay ("authorization", completion.ts:105-108);
\* in the hook it throws instead, and the batch fails as a whole (local.ts:163-173).
DropDone(s) ==
  /\ s \in Surfaces /\ At(s, "dropAnswer") /\ op[s].todo = {}
  /\ IF op[s].final THEN Fail(s) /\ UNCHANGED claimVars ELSE Return(s)
  /\ UNCHANGED <<prompts, batch, answer, outside>>

-----------------------------------------------------------------------------
(* Confirming the batch                                                      *)

Confirm(s) ==
  /\ Idle(s) /\ batch /= <<>>
  /\ InstallClaims(s, {Active})
  /\ Update(s, [IdleOp EXCEPT !.pc = "prepare", !.read = batch])
  /\ UNCHANGED <<storageVars, gateVars, chainVars, tracked, bounds>>

\* An ineligible account, or a wrong password of a Bankr account: nothing changes.
Retryable(s) ==
  /\ At(s, "prepare")
  /\ Return(s)
  /\ UNCHANGED <<prompts, batch, answer, outside>>

\* No key, no endpoint, no delegate, a reset, a failed signature or broadcast.
ShipFails(s) ==
  /\ At(s, "prepare") \/ At(s, "sign")
  /\ Fail(s)
  /\ UNCHANGED <<claimVars, storageVars, gateVars, chainVars, tracked, bounds>>

\* enforceCrossDappBatchAuthorizationAtConfirmation: the epochs of all the
\* sources first, then each is validated; called again before the broadcast.
Capture(s) ==
  /\ At(s, "prepare") \/ At(s, "sign")
  /\ Update(s, [op[s] EXCEPT !.pc = "validate", !.snap = epoch, !.gated = revoking,
                             !.check = {SiteOf[r] : r \in ToSet(op[s].read)},
                             !.final = At(s, "sign")])
  /\ UNCHANGED <<claimVars, storageVars, gateVars, chainVars, tracked, bounds>>

\* The page may also have left the site: then it is unauthorized.
Validate(s, site) ==
  /\ At(s, "validate") /\ site \in op[s].check
  /\ \/ /\ site \in permission \ revoking
        /\ Update(s, [op[s] EXCEPT !.check = @ \ {site}])
     \/ Update(s, [op[s] EXCEPT !.check = @ \ {site}, !.bad = @ \union {site}])
  /\ UNCHANGED <<claimVars, storageVars, gateVars, chainVars, tracked, bounds>>

\* Mutant: only the gate counts, a revocation that came and went does not.
StaleGate(s) ==
  {site \in {SiteOf[r] : r \in ToSet(op[s].read)} : site \in revoking \union op[s].gated}

\* The sources whose snapshot is not current (isCurrent)
Stale(s) ==
  {site \in {SiteOf[r] : r \in ToSet(op[s].read)} :
     site \in (revoking \union op[s].gated) \/ epoch[site] /= op[s].snap[site]}

Refused(s) == IF op[s].bad /= {} THEN op[s].bad ELSE Stale(s)

\* commit(), and terminalize for what it refuses
CommitRefused(s) ==
  /\ At(s, "validate") /\ op[s].check = {} /\ Refused(s) /= {}
  /\ Update(s, [Step(s, "drop") EXCEPT !.going = ToSet(op[s].read) \intersect Of(Refused(s)),
                                       !.final = op[s].final])
  /\ UNCHANGED <<claimVars, storageVars, gateVars, chainVars, tracked, bounds>>

CommitFirst(s) ==
  /\ At(s, "validate") /\ op[s].check = {} /\ Refused(s) = {} /\ ~op[s].final
  /\ Update(s, Step(s, "sign"))
  /\ UNCHANGED <<claimVars, storageVars, gateVars, chainVars, tracked, bounds>>

\* beginEffect and the broadcast: its receipt, if it came, decides the outcome
Broadcast(s, outcome) ==
  /\ At(s, "validate") /\ op[s].check = {} /\ Refused(s) = {} /\ op[s].final
  /\ Len(rows) < MaxSends
  /\ rows' = Append(rows, [calls |-> ToSet(op[s].read), status |-> "processing"])
  /\ sent' = [r \in Requests |-> sent[r] + Times(r, op[s].read)]
  /\ Update(s, [Step(s, IF outcome = "reverted" THEN "history" ELSE "results")
                  EXCEPT !.outcome = outcome, !.todo = ToSet(op[s].read)])
  /\ UNCHANGED <<claimVars, storageVars, gateVars, tracked, bounds>>

-----------------------------------------------------------------------------
(* publishCrossDappBatchShipResult                                           *)

\* eth_sendTransaction requests are told the hash first.
PublishHash(s, r) ==
  /\ At(s, "results") /\ r \in op[s].todo \ Bundles
  /\ Answer(r, "sent")
  /\ Update(s, [op[s] EXCEPT !.todo = @ \ {r}])
  /\ UNCHANGED <<claimVars, prompts, batch, outside>>

\* Only one confirmation runs at a time: its row is the last.
UpdateHistory(s) ==
  /\ At(s, "history") \/ (At(s, "results") /\ op[s].todo \subseteq Bundles)
  /\ rows' = [rows EXCEPT ![Len(rows)].status =
                CASE op[s].outcome = "pending" -> "pending"
                  [] op[s].outcome = "success" -> "success"
                  [] op[s].outcome = "reverted" -> "failed"]
  /\ Update(s, [op[s] EXCEPT !.pc = "publish"])
  /\ UNCHANGED <<claimVars, storageVars, gateVars, sent, tracked, bounds>>

\* Mutant: the status of the row is passed on as it is.
ToldRaw(outcome) == outcome

\* Mutant: a bundle is confirmed by the broadcast.
ConfirmedAtOnce(outcome) ==
  CASE outcome = "pending" -> "confirmed"
    [] outcome = "success" -> "confirmed"
    [] outcome = "reverted" -> "reverted"
    [] outcome = "failed" -> "failed"

\* The fan-out to the bundles, and to all the requests of a failure
Told(outcome) ==
  CASE outcome = "pending" -> "submitted"
    [] outcome = "success" -> "confirmed"
    [] outcome = "reverted" -> "reverted"
    [] outcome = "failed" -> "failed"

FanOut(s, r) ==
  /\ At(s, "publish") /\ r \in op[s].todo
  /\ Answer(r, Told(op[s].outcome))
  /\ Update(s, [op[s] EXCEPT !.todo = @ \ {r}])
  /\ UNCHANGED <<claimVars, prompts, batch, outside>>

\* startReceiptPolling and trackCrossDappBatchCompletion for a pending row, then
\* clearCrossDappBatch
Clear(s) ==
  /\ At(s, "publish") /\ op[s].todo = {}
  /\ tracked' = IF op[s].outcome = "pending" THEN tracked \union {Len(rows)} ELSE tracked
  /\ batch' = <<>>
  /\ Return(s)
  /\ UNCHANGED <<prompts, answer, permission, gateVars, chainVars, bounds>>

\* A row is polled once its confirmation started to; a restart resumes it.
Polled(i) == \A s \in Surfaces : op[s].outcome = "pending" => i < Len(rows)

\* The receipt poller settles the row (TransactionReceipts has the detail).
Receipt(i) ==
  /\ rows[i].status = "pending" /\ Polled(i)
  /\ \E status \in {"success", "failed"} : rows' = [rows EXCEPT ![i].status = status]
  /\ UNCHANGED <<claimVars, storageVars, gateVars, sent, tracked, op, bounds>>

\* trackCrossDappBatchCompletion: mirrors the row, or gives up after ten minutes
Track(i) ==
  /\ i \in tracked
  /\ tracked' = tracked \ {i}
  /\ answer' = [r \in Requests |->
       IF r \notin rows[i].calls \intersect Bundles THEN answer[r]
       ELSE CASE rows[i].status = "success" -> "confirmed"
              [] rows[i].status = "failed" -> "reverted"
              [] OTHER -> answer[r]]
  /\ UNCHANGED <<claimVars, prompts, batch, permission, gateVars, chainVars, op, bounds>>

-----------------------------------------------------------------------------
(* handleRevokeDappPermission                                                *)

Revoke(site) ==
  /\ Idle(Revoker) /\ site \in permission /\ epoch[site] < MaxRevocations
  /\ revoking' = revoking \union {site}
  /\ epoch' = [epoch EXCEPT ![site] = @ + 1]
  /\ Update(Revoker, [IdleOp EXCEPT !.pc = "delete", !.bad = {site}])
  /\ UNCHANGED <<claimVars, storageVars, chainVars, tracked, bounds>>

DeletePermission ==
  /\ At(Revoker, "delete")
  /\ permission' = permission \ op[Revoker].bad
  /\ Update(Revoker, [op[Revoker] EXCEPT !.pc = "claim"])
  /\ UNCHANGED <<claimVars, prompts, batch, answer, gateVars, chainVars, tracked, bounds>>

\* Mutant: the cancellation does not ask for the claims.
CancelUnclaimed ==
  /\ At(Revoker, "claim")
  /\ LET mine == {k \in prompts : SiteOf[k] \in op[Revoker].bad} \union {Active} IN
       /\ Update(Revoker, [op[Revoker] EXCEPT
            !.pc = "drop", !.read = batch, !.check = {},
            !.going = ToSet(batch) \intersect Of(op[Revoker].bad)])
       /\ prompts' = prompts \ mine
       /\ answer' = [r \in Requests |-> IF r \in mine THEN "failed" ELSE answer[r]]
  /\ UNCHANGED <<claimVars, batch, permission, gateVars, chainVars, tracked, bounds>>

\* cancelPendingRequestsForDappOrigin: the site's prompts and its entries of the
\* batch; what is claimed by another call is left to that call.  A prompt is
\* removed and answered in one step here (TransactionRequest has the detail).
Cancel ==
  /\ At(Revoker, "claim")
  /\ LET mine == {k \in prompts : SiteOf[k] \in op[Revoker].bad /\ CanResolve({k})} IN
       /\ prompts' = prompts \ mine
       /\ answer' = [r \in Requests |-> IF r \in mine THEN "failed" ELSE answer[r]]
  /\ IF CanResolve({Active})
       THEN /\ InstallClaims(Revoker, {Active})
            /\ Update(Revoker, [op[Revoker] EXCEPT !.pc = "drop", !.read = batch,
                                  !.going = ToSet(batch) \intersect Of(op[Revoker].bad)])
       ELSE Update(Revoker, [op[Revoker] EXCEPT !.pc = "finish"]) /\ UNCHANGED claimVars
  /\ UNCHANGED <<batch, permission, gateVars, chainVars, tracked, bounds>>

FinishRevocation ==
  /\ At(Revoker, "finish") \/ (At(Revoker, "dropAnswer") /\ op[Revoker].todo = {})
  /\ revoking' = revoking \ op[Revoker].bad
  /\ Return(Revoker)
  /\ UNCHANGED <<storageVars, epoch, chainVars, tracked, bounds>>

\* The user connects the site again.
Reconnect(site) ==
  /\ site \notin permission \union revoking
  /\ permission' = permission \union {site}
  /\ UNCHANGED <<claimVars, prompts, batch, answer, gateVars, chainVars, tracked, op, bounds>>

-----------------------------------------------------------------------------
\* The requests about which an actor has done one of two writes
Interrupted(a) ==
  CASE At(a, "addRemove") -> op[a].going
    [] At(a, "dismiss") -> op[a].going \ op[a].todo
    [] At(a, "dropAnswer") -> op[a].todo
    [] op[a].outcome = "failed" -> ToSet(op[a].read) \ op[a].todo
    [] op[a].outcome \in {"pending", "success", "reverted"} -> ToSet(op[a].read)
    [] OTHER -> {}

\* The service worker dies and starts again: its memory is gone.
Restart ==
  /\ restarts < MaxRestarts
  /\ restarts' = restarts + 1
  /\ torn' = torn \union UNION {Interrupted(a) : a \in Actors}
  /\ LoseClaims
  /\ revoking' = {} /\ epoch' = [s \in Sites |-> 0]
  /\ tracked' = {}
  /\ op' = [a \in Actors |-> IdleOp]
  /\ UNCHANGED <<storageVars, chainVars>>

Move(s) == AddSet(s) \/ AddRemove(s) \/ \E r \in Requests : ClaimMove(s, r)
DecidePrompt(s) == \E r \in Requests : DirectConfirm(s, r) \/ DirectReject(s, r)
DismissEntries(s) ==
  RejectBatch(s) \/ DismissWrite(s) \/ \E r \in Requests : RemoveEntry(s, r) \/ DismissAnswer(s, r)
ConfirmBatch(s) ==
  \/ Confirm(s) \/ Retryable(s) \/ ShipFails(s) \/ Capture(s)
  \/ \E site \in Sites : Validate(s, site)
  \/ CommitRefused(s) \/ CommitFirst(s) \/ DropDone(s)
  \/ \E outcome \in {"pending", "success", "reverted"} : Broadcast(s, outcome)
Publish(s) ==
  UpdateHistory(s) \/ Clear(s) \/ \E r \in Requests : PublishHash(s, r) \/ FanOut(s, r)
Revocation ==
  DeletePermission \/ Cancel \/ FinishRevocation \/ \E site \in Sites : Revoke(site) \/ Reconnect(site)

Next ==
  \/ \E s \in Surfaces : Move(s) \/ DecidePrompt(s) \/ DismissEntries(s) \/ ConfirmBatch(s) \/ Publish(s)
  \/ \E a \in Actors : DropWrite(a) \/ \E r \in Requests : DropAnswer(a, r)
  \/ \E i \in 1..Len(rows) : Receipt(i) \/ Track(i)
  \/ Revocation
  \/ Restart

Spec == Init /\ [][Next]_vars

-----------------------------------------------------------------------------
\* A request is broadcast only while its site is connected and is not being
\* revoked, whatever else was validated meanwhile (lifecycle.ts:254-271, the
\* second commit of local.ts:169).
AuthorizedSend ==
  [][\A r \in Requests : sent'[r] > sent[r] => SiteOf[r] \in permission \ revoking]_vars

\* A request is sent at most once, by its prompt or by the batch, unless a
\* restart fell between two writes about it (intake.ts:132, completion.ts:198).
SentOnce == \A r \in Requests \ torn : sent[r] <= 1

\* What a site was told is what happened: a failure was never sent, a confirmed
\* or reverted bundle was in a batch that settled that way.
AnswerIsTrue ==
  \A r \in Requests \ torn :
    /\ answer[r] = "failed" => sent[r] = 0
    /\ answer[r] = "confirmed" =>
         \E i \in 1..Len(rows) : r \in rows[i].calls /\ rows[i].status = "success"
    /\ answer[r] = "reverted" =>
         \E i \in 1..Len(rows) : r \in rows[i].calls /\ rows[i].status = "failed"

\* A terminal answer never changes (README.md: the source promise receives
\* exactly one terminal outcome).
AnswerIsFinal ==
  [][\A r \in Requests \ torn' : answer[r] \in Terminal => answer'[r] = answer[r]]_vars

\* A request nobody answered is at its prompt, in the batch, or in the hands of
\* the call that removed it: no read-modify-write of the batch loses one.
NothingLost ==
  \A r \in Requests \ torn : answer[r] = "none" =>
    \/ r \in prompts \union ToSet(batch)
    \/ \E a \in Actors : r \in op[a].todo
=============================================================================
