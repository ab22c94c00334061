----------------------------- MODULE SplitBundle -----------------------------
(***************************************************************************)
(* A wallet_sendCalls bundle the user split into single transactions: the  *)
(* calls are queued one at a time, each as a prompt of its own, and the    *)
(* outcome of a call decides whether the next one is queued                *)
(* (forceInclusion/splitBatchSequencer.ts).  The bundle's status is what   *)
(* wallet_getCallsStatus reports.                                          *)
(***************************************************************************)
EXTENDS TransactionReceipts

CONSTANTS NumCalls,       \* calls of the bundle
          MaxSends        \* bound: broadcasts of one call

ASSUME SplitAssumption ==
  /\ NumCalls \in Nat \ {0}
  /\ Txs = 0..NumCalls - 1
  /\ MaxSends \in Nat \ {0}

VARIABLES
  bundle,        \* chrome.storage.local: the BundleStatus
  batchPrompt,   \* chrome.storage.local: the batch prompt is still stored
  prompts,       \* chrome.storage.local: calls queued as single prompts
  sent           \* outside the wallet: broadcasts of each call

bundleVars == <<bundle, batchPrompt, prompts, sent>>
vars == <<receiptVars, bundleVars>>

Calls == 0..NumCalls - 1

Failures == {"offchainFailure", "reverted", "partialRevert"}
BundleType ==
  [status : {"pending", "confirmed"} \union Failures,
   split : BOOLEAN,               \* splitMode
   next : 0..NumCalls,            \* splitNextIndex
   hashes : SUBSET Calls]         \* the calls whose hash is in txHashes

WorkerSteps ==
  ObserverSteps \union {"idle", "split", "splitRemove", "enqueue", "save", "finalizeRead",
                        "finalize", "advanceWrite", "process", "broadcast", "posted", "cancel"}
WorkerType ==
  [pc : WorkerSteps,
   tx : Calls \union {-1},        \* the call it works on
   call : Calls \union {-1},      \* the call it queues
   poll : BOOLEAN,                \* it is the poller's call
   outcome : Outcomes \union {"none"},
   seen : SUBSET Calls]           \* txHashes read before the update
IdleWorker ==
  [pc |-> "idle", tx |-> -1, call |-> -1, poll |-> FALSE, outcome |-> "none", seen |-> {}]

TypeOK ==
  /\ ReceiptsTypeOK
  /\ worker \in [Workers -> WorkerType]
  /\ bundle \in BundleType
  /\ batchPrompt \in BOOLEAN
  /\ prompts \subseteq Calls
  /\ sent \in [Calls -> 0..MaxSends]

Init ==
  /\ ReceiptsInit
  /\ worker = [w \in Workers |-> IdleWorker]
  /\ bundle = [status |-> "pending", split |-> FALSE, next |-> 0, hashes |-> {}]
  /\ batchPrompt = TRUE
  /\ prompts = {}
  /\ sent = [i \in Calls |-> 0]

\* A step that touches the worker's own record and no receipt state.
receiptFrame == <<chain, row, uncertain, notFound, startup, overlapped>>
Done(w) == Return(w, IdleWorker)

-----------------------------------------------------------------------------
(* Splitting the batch, and queueing a call                                  *)

\* handleSplitBatchIntoIndividualTxs, under the claim of the batch prompt
Split(w) ==
  /\ Idle(w) /\ batchPrompt
  /\ \A v \in Workers : worker[v].pc \notin {"split", "splitRemove"}
  /\ Goto(w, "split")
  /\ UNCHANGED <<receiptFrame, pollers, incidents, bundleVars>>

SplitStatus(w) ==
  /\ At(w, "split")
  /\ bundle' = [bundle EXCEPT !.split = TRUE, !.next = 0]
  /\ Goto(w, "splitRemove")
  /\ UNCHANGED <<receiptFrame, pollers, incidents, batchPrompt, prompts, sent>>

\* removePendingBatchTxRequest; the answer to the page that asked follows.
SplitRemove(w) ==
  /\ At(w, "splitRemove")
  /\ batchPrompt' = FALSE
  /\ Goto(w, "enqueue")
  /\ UNCHANGED <<receiptFrame, pollers, incidents, bundle, prompts, sent>>

\* enqueueNextSplitCall reads the bundle.
Enqueue(w) ==
  /\ At(w, "enqueue")
  /\ worker' = IF bundle.next >= NumCalls
               THEN [worker EXCEPT ![w].pc = "finalizeRead"]
               ELSE [worker EXCEPT ![w].pc = "save", ![w].call = bundle.next]
  /\ UNCHANGED <<receiptFrame, pollers, incidents, bundleVars>>

\* savePendingTxRequest throws when the prompt is already queued.
Save(w) ==
  /\ At(w, "save")
  /\ prompts' = prompts \union {worker[w].call}
  /\ Done(w)
  /\ UNCHANGED <<receiptFrame, incidents, bundle, batchPrompt, sent>>

\* ... and when the site or the wallet has too many prompts queued.
SaveRefused(w) ==
  /\ At(w, "save")
  /\ Done(w)
  /\ Incident
  /\ UNCHANGED <<receiptFrame, bundleVars>>

\* finalizeSplitBundle
FinalizeRead(w) ==
  /\ At(w, "finalizeRead")
  /\ IF bundle.status = "pending" THEN Goto(w, "finalize") /\ UNCHANGED pollers ELSE Done(w)
  /\ UNCHANGED <<receiptFrame, incidents, bundleVars>>

Finalize(w) ==
  /\ At(w, "finalize")
  /\ bundle' = [bundle EXCEPT !.status = "confirmed"]
  /\ Done(w)
  /\ UNCHANGED <<receiptFrame, incidents, batchPrompt, prompts, sent>>

-----------------------------------------------------------------------------
(* advanceSplitBundle: a call has an outcome                                 *)

\* The guard against duplicate finalizations is evaluated on this read.
AdvanceRead(w) ==
  /\ At(w, "advance")
  /\ IF bundle.split /\ bundle.next <= Tx(w)
     THEN /\ worker' = [worker EXCEPT ![w].pc = "advanceWrite", ![w].seen = bundle.hashes]
          /\ UNCHANGED pollers
     ELSE Done(w)
  /\ UNCHANGED <<receiptFrame, incidents, bundleVars>>

\* A rejected call has no hash.
HashesAfter(w) ==
  IF worker[w].outcome = "rejected" THEN worker[w].seen ELSE worker[w].seen \union {Tx(w)}

AdvanceSuccess(w) ==
  /\ At(w, "advanceWrite") /\ worker[w].outcome = "success"
  /\ bundle' = [bundle EXCEPT !.next = Tx(w) + 1, !.hashes = HashesAfter(w)]
  /\ Goto(w, "enqueue")
  /\ UNCHANGED <<receiptFrame, pollers, incidents, batchPrompt, prompts, sent>>

\* Mutant: a revert is reported without a look at the earlier calls.
FinalStatusAlone(outcome, anyPriorSuccess) ==
  CASE outcome = "rejected" -> "offchainFailure"
    [] outcome = "dropped" -> IF anyPriorSuccess THEN "partialRevert" ELSE "offchainFailure"
    [] outcome = "reverted" -> "reverted"

FinalStatus(outcome, anyPriorSuccess) ==
  IF outcome = "rejected" THEN "offchainFailure"
  ELSE IF anyPriorSuccess THEN "partialRevert"
  ELSE IF outcome = "dropped" THEN "offchainFailure" ELSE "reverted"

AdvanceFailure(w) ==
  /\ At(w, "advanceWrite") /\ worker[w].outcome # "success"
  /\ bundle' = [bundle EXCEPT !.status = FinalStatus(worker[w].outcome, worker[w].seen # {}),
                              !.hashes = HashesAfter(w)]
  /\ Done(w)
  /\ UNCHANGED <<receiptFrame, incidents, batchPrompt, prompts, sent>>

-----------------------------------------------------------------------------
(* The user, and the processor of a confirmed call                           *)

\* useSplitPriorTxState: Confirm is enabled once the previous row is a success.
PriorReady(i) == i # 0 => row[i - 1] = "success"

\* Mutant: the confirmed prompt stays stored.
KeepPrompt(i) == prompts

\* The processor is started once the prompt is removed.
TakePrompt(i) == prompts \ {i}

Confirm(w, i) ==
  /\ Idle(w) /\ i \in prompts
  /\ PriorReady(i)
  /\ prompts' = TakePrompt(i)
  /\ worker' = [worker EXCEPT ![w].pc = "process", ![w].tx = i]
  /\ UNCHANGED <<receiptFrame, pollers, incidents, bundle, batchPrompt, sent>>

\* Mutant: the sequencer is not told of a rejection.
RejectSilently(w, i) ==
  /\ Idle(w) /\ i \in prompts
  /\ prompts' = prompts \ {i}
  /\ UNCHANGED <<receiptFrame, pollers, worker, incidents, bundle, batchPrompt, sent>>

\* handleRejectTransaction
Reject(w, i) ==
  /\ Idle(w) /\ i \in prompts
  /\ prompts' = prompts \ {i}
  /\ worker' = [worker EXCEPT ![w].pc = "advance", ![w].tx = i, ![w].outcome = "rejected"]
  /\ UNCHANGED <<receiptFrame, pollers, incidents, bundle, batchPrompt, sent>>

\* A denied or revoked prompt is removed by terminalizeUnauthorizedPendingRequest or
\* by the revocation, which do not tell the sequencer.
Revoke(i) ==
  /\ i \in prompts
  /\ prompts' = prompts \ {i}
  /\ Incident
  /\ UNCHANGED <<receiptFrame, pollers, worker, bundle, batchPrompt, sent>>

\* processLocalTransactionInBackground: addTxToHistory keeps a row that exists.
AddRow(w) ==
  /\ At(w, "process")
  /\ row' = [row EXCEPT ![Tx(w)] = IF @ = "none" THEN "processing" ELSE @]
  /\ Goto(w, "broadcast")
  /\ UNCHANGED <<chain, uncertain, pollers, notFound, startup, overlapped,
                 incidents, bundleVars>>

\* An error without a hash: handleTransactionFailure
FailBeforeSend(w) ==
  /\ At(w, "broadcast")
  /\ worker' = [worker EXCEPT ![w].pc = "record", ![w].outcome = "rejected"]
  /\ UNCHANGED <<receiptFrame, pollers, incidents, bundleVars>>

\* The node takes the transaction, answers with its receipt, or does not answer.
\* A call sent twice has succeeded when either of its transactions has.
Broadcast(w) ==
  /\ At(w, "broadcast") /\ sent[Tx(w)] < MaxSends
  /\ sent' = [sent EXCEPT ![Tx(w)] = @ + 1]
  /\ \E s \in {"mempool", "unsent"} \union Mined, answered \in BOOLEAN :
       /\ s = "unsent" => ~answered
       /\ chain' = [chain EXCEPT ![Tx(w)] = IF @ = "success" THEN @ ELSE s]
       /\ uncertain' = IF answered THEN uncertain ELSE uncertain \union {Tx(w)}
       /\ IF answered THEN UNCHANGED incidents ELSE Incident
       /\ worker' = [worker EXCEPT ![w].pc = IF answered /\ s \in Mined THEN "record" ELSE "posted",
                                   ![w].outcome = IF answered /\ s \in Mined THEN s ELSE "none"]
  /\ UNCHANGED <<row, pollers, notFound, startup, overlapped, bundle,
                 batchPrompt, prompts>>

\* Without a receipt the row becomes pending and a poller is started.
Posted(w) ==
  /\ At(w, "posted")
  /\ UpdateRow(Tx(w), "pending")
  /\ StartPolling(Tx(w))
  /\ worker' = [worker EXCEPT ![w] = IdleWorker]
  /\ UNCHANGED <<chain, uncertain, notFound, startup, overlapped, incidents,
                 bundleVars>>

\* handleCancelProcessingTx reads the row ...
CancelRead(w, i) ==
  /\ Idle(w) /\ row[i] = "processing"
  /\ worker' = [worker EXCEPT ![w].pc = "cancel", ![w].tx = i]
  /\ UNCHANGED <<receiptFrame, pollers, incidents, bundleVars>>

\* ... and writes it after an await; the processor goes on.
CancelWrite(w) ==
  /\ At(w, "cancel")
  /\ UpdateRow(Tx(w), "failed")
  /\ Done(w)
  /\ UNCHANGED <<chain, uncertain, notFound, startup, overlapped, incidents,
                 bundleVars>>

-----------------------------------------------------------------------------

ObserverStep(w) ==
  /\ \/ FetchReceipt(w)
     \/ LookupTx(w, IdleWorker)
     \/ \E nonceKnown, old \in BOOLEAN : EvaluateMissing(w, nonceKnown, old, IdleWorker)
     \/ RpcError(w, IdleWorker)
  /\ UNCHANGED bundleVars

\* The steps of a call under way that wait for storage only.
StorageStep(w) ==
  \/ SplitStatus(w) \/ SplitRemove(w) \/ Enqueue(w) \/ Save(w)
  \/ FinalizeRead(w) \/ Finalize(w) \/ AdvanceRead(w) \/ AdvanceSuccess(w) \/ AdvanceFailure(w)
  \/ AddRow(w) \/ Posted(w) \/ CancelWrite(w)
  \/ RecordOutcome(w) /\ UNCHANGED bundleVars

Answer(w) == \E i \in Calls : Confirm(w, i) \/ Reject(w, i)

Recovery ==
  /\ CleanupRead \/ ResumePollers \/ \E t \in Calls : CleanupWrite(t)
  /\ UNCHANGED bundleVars

Environment ==
  \/ Restart(IdleWorker) /\ UNCHANGED bundleVars
  \/ \E t \in Calls : (Mine(t) \/ PollerExpires(t)) /\ UNCHANGED bundleVars
  \/ \E t \in Calls : Revoke(t)

Next ==
  \/ \E w \in Workers :
       \/ Split(w) \/ Answer(w) \/ StorageStep(w) \/ ObserverStep(w) \/ SaveRefused(w)
       \/ FailBeforeSend(w) \/ Broadcast(w)
       \/ \E i \in Calls :
            \/ (PollTick(w, i) \/ UiCheck(w, i)) /\ UNCHANGED bundleVars
            \/ CancelRead(w, i)
  \/ Recovery
  \/ Environment

Spec == Init /\ [][Next]_vars

\* The RPC node answers again and again, with the account's nonce.
RpcAnswers ==
  /\ SF_vars(\E w \in Workers : FetchReceipt(w) /\ UNCHANGED bundleVars)
  /\ SF_vars(\E w \in Workers : LookupTx(w, IdleWorker) /\ UNCHANGED bundleVars)
  /\ SF_vars(\E w \in Workers, old \in BOOLEAN :
               EvaluateMissing(w, TRUE, old, IdleWorker) /\ UNCHANGED bundleVars)

Fairness ==
  /\ \A w \in Workers : WF_vars(StorageStep(w))
  /\ \A w \in Workers : WF_vars(FailBeforeSend(w) \/ Broadcast(w))
  /\ \A t \in Calls : WF_vars(\E w \in Workers : PollTick(w, t) /\ UNCHANGED bundleVars)
  /\ \A t \in Calls : WF_vars(Mine(t) /\ UNCHANGED bundleVars)
  /\ WF_vars(\E w \in Workers : Answer(w))
  /\ RpcAnswers

FairSpec == Spec /\ Fairness

-----------------------------------------------------------------------------
(* Properties                                                                *)

\* A call is broadcast only after every earlier call of the bundle was mined and
\* succeeded, whatever observers overlap, rows are cancelled or the worker restarts:
\* it is queued after the success of the one before, and what counts as a success is
\* the receipt's status.  (The Confirm button checks the row again.)
InOrder == \A i \in Calls : sent[i] > 0 => \A j \in 0..i - 1 : chain[j] = "success"

\* What wallet_getCallsStatus reports of a finished bundle is what happened on chain:
\* confirmed means every call succeeded; reverted means the first one did and nothing
\* executed; a partial revert means that something did execute.  An off-chain failure
\* means less than its name and ERC5792.md say (see OffchainMeansNothingExecuted): the
\* calls before the one that stopped the bundle executed, the calls after it never left
\* the wallet, and neither did that call itself unless it is the first and was dropped.
StatusIsTrue ==
  /\ bundle.status = "confirmed" => \A i \in Calls : chain[i] = "success"
  /\ ~overlapped =>
       /\ bundle.status = "reverted" => chain[0] = "reverted"
       /\ bundle.status = "partialRevert" => chain[0] = "success"
       /\ bundle.status = "confirmed" => bundle.hashes = Calls
       /\ bundle.status = "offchainFailure" =>
            /\ \A i \in 0..bundle.next - 1 : chain[i] = "success"
            /\ \A i \in Calls : i > 0 /\ i >= bundle.next => sent[i] = 0

\* ERC5792.md: an off-chain failure is reported only when no earlier call of the bundle
\* succeeded, a partial revert otherwise.  The code breaks it: see the findings.
OffchainMeansNothingExecuted == bundle.status = "offchainFailure" => bundle.next = 0

\* As long as no two observers of one transaction ran at once, no call of the bundle
\* is broadcast twice and no prompt of a finished bundle is left to confirm, through
\* restarts, cancellations, revocations and wrongly dropped rows.
NothingRepeated ==
  ~overlapped => /\ \A i \in Calls : sent[i] <= 1
                 /\ bundle.status # "pending" => prompts = {}

\* A finished bundle stays as the page was told, unless two observers overlapped.
TerminalIsFinal ==
  [][bundle.status # "pending" /\ ~overlapped => bundle'.status = bundle.status]_vars

\* A split bundle is finished in the end, when the worker is not restarted, the site
\* is not revoked, no prompt is refused, no broadcast stays unanswered and no polling
\* window closes.
Finishes == [](incidents = 0) => (bundle.split ~> bundle.status # "pending")

=============================================================================
