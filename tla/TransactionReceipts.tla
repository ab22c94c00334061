------------------------ MODULE TransactionReceipts ------------------------
(***************************************************************************)
(* How the wallet learns what became of a transaction it broadcast: the    *)
(* history row, the receipt poller of the service worker, the receipt      *)
(* checks the Activity pages ask for, and the start-up recovery.           *)
(*                                                                         *)
(* A call of one of these handlers is a worker.  Each action is the code   *)
(* between two awaits of that call; what follows the written row ("advance"*)
(* and later) belongs to the module that extends this one.                 *)
(***************************************************************************)
EXTENDS Integers, FiniteSets

CONSTANTS Txs,             \* the transactions
          Workers,         \* handler calls that can be under way at once
          MissThreshold,   \* DROPPED_NOT_FOUND_THRESHOLD
          MaxIncidents     \* bound: restarts, expired pollers, refusals, revocations, ...

ASSUME ReceiptsAssumption ==
  /\ MissThreshold \in Nat \ {0}
  /\ MaxIncidents \in Nat

VARIABLES
  chain,        \* outside the wallet: what the network knows of a transaction
  row,          \* history database: the row's status
  uncertain,    \* history database: rows flagged broadcastUncertain
  pollers,      \* memory: activePollers
  notFound,     \* memory: notFoundCounts
  startup,      \* memory: what is left of startRecoveryLifecycle
  worker,       \* memory: the calls under way
  overlapped,   \* history variable: two observers of one transaction ran at once
  incidents     \* bound: how often something happened that may end a sequence

receiptVars == <<chain, row, uncertain, pollers, notFound, startup, worker,
                 overlapped, incidents>>

Mined == {"success", "reverted"}
Outcomes == {"success", "reverted", "dropped", "rejected"}
ObserverSteps == {"receipt", "lookup", "evaluate", "record", "advance"}

ReceiptsTypeOK ==
  /\ chain \in [Txs -> {"unsent", "mempool", "replaced"} \union Mined]
  /\ row \in [Txs -> {"none", "processing", "pending", "success", "failed", "dropped"}]
  /\ uncertain \subseteq Txs /\ pollers \subseteq Txs
  /\ notFound \in [Txs -> 0..MissThreshold - 1]
  /\ startup \in [cleanup : BOOLEAN, stale : SUBSET Txs, resume : BOOLEAN]
  /\ overlapped \in BOOLEAN /\ incidents \in 0..MaxIncidents

\* Every step after the last restart is done.
NoStartup == [cleanup |-> FALSE, stale |-> {}, resume |-> FALSE]

ReceiptsInit ==
  /\ chain = [t \in Txs |-> "unsent"]
  /\ row = [t \in Txs |-> "none"]
  /\ uncertain = {} /\ pollers = {}
  /\ notFound = [t \in Txs |-> 0]
  /\ startup = NoStartup
  /\ overlapped = FALSE /\ incidents = 0

Incident == incidents < MaxIncidents /\ incidents' = incidents + 1

Idle(w) == worker[w].pc = "idle"
At(w, pc) == worker[w].pc = pc
Tx(w) == worker[w].tx
Goto(w, pc) == worker' = [worker EXCEPT ![w].pc = pc]

\* updateTxInHistory: a locked merge; without a row it does nothing.
UpdateRow(t, status) == row' = [row EXCEPT ![t] = IF @ = "none" THEN @ ELSE status]

\* The workers on transaction t that may still write its outcome.
Observers(t) == {w \in Workers : Tx(w) = t /\ worker[w].pc \in ObserverSteps}
StartsBeside(t) == overlapped' = (overlapped \/ Observers(t) # {})

\* Mutant: only a success ends the polling.
ReturnAndPoll(w, idle) ==
  /\ worker' = [worker EXCEPT ![w] = idle]
  /\ pollers' = IF worker[w].poll /\ worker[w].outcome = "success"
                THEN pollers \ {Tx(w)} ELSE pollers

\* The call returns; a poller that has seen an outcome is deregistered.
Return(w, idle) ==
  /\ worker' = [worker EXCEPT ![w] = idle]
  /\ pollers' = IF worker[w].poll /\ worker[w].outcome # "none"
                THEN pollers \ {Tx(w)} ELSE pollers

-----------------------------------------------------------------------------
(* receiptPolling.ts                                                         *)

\* startReceiptPolling
StartPolling(t) == pollers' = pollers \union {t}

\* The poller wakes from its sleep and calls checkAndFinalizeReceipt.
PollTick(w, t) ==
  /\ Idle(w) /\ t \in pollers
  /\ \A v \in Workers : Tx(v) = t => ~worker[v].poll
  /\ worker' = [worker EXCEPT ![w].pc = "receipt", ![w].tx = t, ![w].poll = TRUE]
  /\ StartsBeside(t)
  /\ UNCHANGED <<chain, row, uncertain, pollers, notFound, startup, incidents>>

\* The polling window closes without an outcome; the row stays pending.
PollerExpires(t) ==
  /\ t \in pollers
  /\ \A v \in Workers : Tx(v) = t => ~worker[v].poll
  /\ pollers' = pollers \ {t}
  /\ notFound' = [notFound EXCEPT ![t] = 0]
  /\ Incident
  /\ UNCHANGED <<chain, row, uncertain, startup, worker, overlapped>>

\* checkPendingTxReceipt, sent every 5 s for the rows an open page shows as pending.
UiCheck(w, t) ==
  /\ Idle(w) /\ row[t] = "pending" /\ t \notin pollers
  /\ worker' = [worker EXCEPT ![w].pc = "receipt", ![w].tx = t]
  /\ StartsBeside(t)
  /\ UNCHANGED <<chain, row, uncertain, pollers, notFound, startup, incidents>>

-----------------------------------------------------------------------------
(* receiptFinalizer.ts                                                       *)

observeFrame == <<chain, row, startup, overlapped, incidents>>

\* Mutant: a receipt is taken for a success.
AnyReceipt(t) == "success"

\* What the receipt's status field says.
ReceiptOutcome(t) == chain[t]

\* eth_getTransactionReceipt answers.
FetchReceipt(w) ==
  /\ At(w, "receipt")
  /\ IF chain[Tx(w)] \in Mined
     THEN /\ worker' = [worker EXCEPT ![w].pc = "record", ![w].outcome = ReceiptOutcome(Tx(w))]
          /\ notFound' = [notFound EXCEPT ![Tx(w)] = 0]
     ELSE Goto(w, "lookup") /\ UNCHANGED notFound
  /\ UNCHANGED <<observeFrame, uncertain, pollers>>

\* eth_getTransactionByHash answers.  A node need not show what is in its mempool.
LookupTx(w, idle) ==
  /\ At(w, "lookup")
  /\ \/ /\ chain[Tx(w)] \in Mined \union {"mempool"}
        /\ notFound' = [notFound EXCEPT ![Tx(w)] = 0]
        /\ uncertain' = uncertain \ {Tx(w)}
        /\ Return(w, idle)
     \/ /\ chain[Tx(w)] \notin Mined
        /\ Goto(w, "evaluate")
        /\ UNCHANGED <<uncertain, pollers, notFound>>
  /\ UNCHANGED observeFrame

Drop(w) ==
  /\ worker' = [worker EXCEPT ![w].pc = "record", ![w].outcome = "dropped"]
  /\ UNCHANGED pollers

\* Mutant: one miss too many is tolerated.
TolerateOneMore(misses) == misses <= MissThreshold

\* How many checks in a row may miss an old transaction.
Tolerate(misses) == misses < MissThreshold

NonceConsumed(t) == chain[t] \in Mined \union {"replaced"}

\* evaluateMissingTransaction; without the account nonce (an RPC error) only the
\* row's age and the count of misses decide.
EvaluateMissing(w, nonceKnown, old, idle) ==
  /\ At(w, "evaluate")
  /\ LET t == Tx(w)
         misses == notFound[t] + 1
     IN \/ /\ t \in uncertain
           /\ notFound' = [notFound EXCEPT ![t] = 0]
           /\ Return(w, idle)
        \/ /\ t \notin uncertain /\ nonceKnown /\ NonceConsumed(t)
           /\ Drop(w) /\ UNCHANGED notFound
        \/ /\ t \notin uncertain /\ ~(nonceKnown /\ NonceConsumed(t))
           /\ IF ~old THEN Return(w, idle) /\ UNCHANGED notFound
              ELSE IF Tolerate(misses)
              THEN Return(w, idle) /\ notFound' = [notFound EXCEPT ![t] = misses]
              ELSE Drop(w) /\ notFound' = [notFound EXCEPT ![t] = 0]
  /\ UNCHANGED <<observeFrame, uncertain>>

\* An RPC call throws: the check returns null.
RpcError(w, idle) ==
  /\ worker[w].pc \in {"receipt", "lookup"}
  /\ Return(w, idle)
  /\ UNCHANGED <<observeFrame, uncertain, notFound>>

RowOf(outcome) == CASE outcome = "success" -> "success"
                    [] outcome = "reverted" -> "failed"
                    [] outcome = "dropped" -> "dropped"
                    [] outcome = "rejected" -> "failed"

\* applyReceiptToHistory, markTransactionDropped, handleTransactionFailure: the row
\* is written whatever it holds; mirrors and the notification follow.
RecordOutcome(w) ==
  /\ At(w, "record")
  /\ UpdateRow(Tx(w), RowOf(worker[w].outcome))
  /\ uncertain' = IF worker[w].outcome \in Mined THEN uncertain \ {Tx(w)} ELSE uncertain
  /\ Goto(w, "advance")
  /\ UNCHANGED <<chain, pollers, notFound, startup, overlapped, incidents>>

-----------------------------------------------------------------------------
(* The network and start-up recovery                                         *)

\* A pending transaction is mined, or another one takes its nonce.
Mine(t) ==
  /\ chain[t] = "mempool"
  /\ \E s \in Mined \union {"replaced"} : chain' = [chain EXCEPT ![t] = s]
  /\ UNCHANGED <<row, uncertain, pollers, notFound, startup, worker,
                 overlapped, incidents>>

\* The service worker restarts: its memory is lost, recovery is due.
Restart(idle) ==
  /\ Incident
  /\ worker' = [w \in Workers |-> idle]
  /\ pollers' = {} /\ notFound' = [t \in Txs |-> 0]
  /\ startup' = [cleanup |-> TRUE, stale |-> {}, resume |-> TRUE]
  /\ UNCHANGED <<chain, row, uncertain, overlapped>>

startupFrame == <<chain, uncertain, notFound, worker, incidents>>

\* cleanupStaleProcessingTxs reads the rows; a row's age is that of its prompt.
CleanupRead ==
  /\ startup.cleanup
  /\ \E old \in SUBSET {t \in Txs : row[t] = "processing"} :
       startup' = [startup EXCEPT !.cleanup = FALSE, !.stale = old]
  /\ UNCHANGED <<startupFrame, row, pollers, overlapped>>

CleanupWrite(t) ==
  /\ t \in startup.stale
  /\ startup' = [startup EXCEPT !.stale = @ \ {t}]
  /\ UpdateRow(t, "failed")
  /\ UNCHANGED <<startupFrame, pollers, overlapped>>

\* resumePendingPollers
ResumePollers ==
  /\ startup.resume
  /\ startup' = [startup EXCEPT !.resume = FALSE]
  /\ LET pending == {t \in Txs : row[t] = "pending"}
     IN /\ pollers' = pollers \union pending
        /\ overlapped' = (overlapped \/ \E t \in pending : Observers(t) # {})
  /\ UNCHANGED <<startupFrame, row>>

=============================================================================
