-------------------------- MODULE SplitBundleProofs --------------------------
(***************************************************************************)
(* For any number of calls and of handler calls under way: a split bundle  *)
(* broadcasts its calls in order, and what it reports is what happened.    *)
(***************************************************************************)
EXTENDS SplitBundle, TLAPS

WatchSteps == {"receipt", "lookup", "evaluate"}
SettleSteps == {"record", "advance", "advanceWrite"}
RunSteps == {"process", "broadcast", "posted"}
QueueSteps == {"enqueue", "save", "finalizeRead", "finalize"}
SplitSteps == {"split", "splitRemove"}
CallSteps == WatchSteps \union SettleSteps \union RunSteps

\* The worker may carry the sequence on.
Active(w) == worker[w].pc \in CallSteps \union QueueSteps
\* Somebody will look for a receipt of the call.
Open(i) == row[i] = "pending" \/ i \in pollers

\* What the record of a worker says at each step.
ShapeOf(o) ==
  /\ o.pc = "idle" => o = IdleWorker
  /\ o.pc \in CallSteps \union {"cancel"} => o.tx \in Calls
  /\ o.pc = "save" => o.call \in Calls
  /\ o.pc \in SettleSteps => o.outcome # "none"
  /\ o.poll => o.pc \in WatchSteps \union SettleSteps \union QueueSteps
  /\ o.poll /\ o.pc \in QueueSteps => o.outcome # "none"
Shape == \A w \in Workers : ShapeOf(worker[w])

\* Whatever was reached came after successes, whoever observed them.
Earlier(i) == \A j \in 0..i - 1 : chain[j] = "success"
OrderOf(o) ==
  /\ o.tx \in Calls => Earlier(o.tx)
  /\ o.call \in Calls => Earlier(o.call)
  /\ o.outcome = "success" => o.tx \in Calls /\ chain[o.tx] = "success"
  /\ o.pc \in {"finalizeRead", "finalize"} => Earlier(NumCalls)
\* The call was queued, recorded, polled or broadcast.
Reached(i) == i \in prompts \/ i \in pollers \/ row[i] # "none" \/ sent[i] > 0
Order ==
  /\ Earlier(bundle.next)
  /\ \A i \in Calls : Reached(i) => Earlier(i)
  /\ \A w \in Workers : OrderOf(worker[w])
  /\ bundle.status = "confirmed" => Earlier(NumCalls)
  /\ \A i \in Calls : sent[i] = 0 => chain[i] = "unsent"

\* Until the batch prompt is removed nothing else has begun.
Unsplit ==
  /\ \A w \in Workers : worker[w].pc \in SplitSteps => batchPrompt
  /\ \A v, w \in Workers : worker[v].pc \in SplitSteps /\ worker[w].pc \in SplitSteps => v = w
  /\ batchPrompt =>
       /\ bundle.next = 0 /\ bundle.hashes = {} /\ bundle.status = "pending" /\ prompts = {}
       /\ \A w \in Workers : ~Active(w)
       /\ \A i \in Calls : sent[i] = 0 /\ ~Open(i)

\* One thing at a time carries the sequence on: a worker, a queued prompt or the
\* receipt that is awaited.
AloneOf(o) ==
  /\ prompts = {}
  /\ \A i \in Calls : Open(i) => o.tx = i /\ (o.pc \in WatchSteps \union SettleSteps \/ o.poll)
  /\ o.pc \in QueueSteps \union {"advance", "advanceWrite"} => \A i \in Calls : row[i] # "pending"
  /\ ~o.poll => o.tx \notin pollers
OneAtATime ==
  /\ \A v, w \in Workers : Active(v) /\ Active(w) => v = w
  /\ \A w \in Workers : Active(w) => AloneOf(worker[w])
  /\ \A i, j \in prompts : i = j
  /\ \A i \in Calls : Open(i) => prompts = {}
  /\ \A i, j \in Calls : Open(i) /\ Open(j) => i = j

\* Where it stands: the call at splitNextIndex, which was not broadcast before.
PlaceOf(o) ==
  /\ o.pc \in CallSteps => o.tx = bundle.next
  /\ o.pc \in {"process", "broadcast"} => sent[o.tx] = 0
  /\ o.pc = "enqueue" /\ bundle.next < NumCalls => sent[bundle.next] = 0
  /\ o.pc = "save" => o.call = bundle.next /\ sent[o.call] = 0
  /\ o.pc \in {"finalizeRead", "finalize"} => bundle.next = NumCalls
  /\ o.pc = "advanceWrite" => o.seen = bundle.hashes
  /\ o.pc \in SettleSteps /\ o.outcome = "reverted" => chain[o.tx] = "reverted"
  /\ o.pc \in SettleSteps /\ o.outcome = "rejected" => sent[o.tx] = 0
Place ==
  /\ \A i \in Calls : sent[i] <= 1 /\ (i > bundle.next => sent[i] = 0)
  /\ \A i \in prompts : i = bundle.next /\ sent[i] = 0
  /\ \A w \in Workers : PlaceOf(worker[w])
  /\ \A i \in Calls : Open(i) =>
       i = bundle.next \/ \E w \in Workers : worker[w].pc \in QueueSteps

\* What is reported of a bundle, and that nothing is left of a finished one.
Report ==
  /\ bundle.status = "pending" => bundle.hashes = 0..bundle.next - 1
  /\ bundle.status # "pending" =>
       /\ prompts = {}
       /\ \A w \in Workers : ~Active(w)
       /\ \A i \in Calls : ~Open(i)
  /\ bundle.status = "reverted" => chain[0] = "reverted"
  /\ bundle.status = "partialRevert" => chain[0] = "success"
  /\ bundle.status = "confirmed" => bundle.hashes = Calls
  /\ bundle.status = "offchainFailure" =>
       \A i \in Calls : i > 0 /\ i >= bundle.next => sent[i] = 0

\* What no observers that overlap can break, and what holds until they do.
Safe == TypeOK /\ Shape /\ Order /\ Unsplit
Alone == OneAtATime /\ Place /\ Report
IInv == Safe /\ (~overlapped => Alone)

USE SplitAssumption, ReceiptsAssumption DEF Calls

-----------------------------------------------------------------------------
(* The record of a worker                                                    *)

\* Only the record of one worker changes, to this one.
Becomes(w, pc, tx, call, poll, outcome, seen) ==
  /\ worker' \in [Workers -> WorkerType]
  /\ \A v \in Workers \ {w} : worker'[v] = worker[v]
  /\ worker'[w] = [pc |-> pc, tx |-> tx, call |-> call, poll |-> poll,
                   outcome |-> outcome, seen |-> seen]

\* A worker's record has a record's fields.
LEMMA Fields ==
  ASSUME TypeOK, NEW w \in Workers
  PROVE  LET o == worker[w] IN
         /\ o \in WorkerType
         /\ o.pc \in WorkerSteps /\ o.tx \in Calls \union {-1} /\ o.call \in Calls \union {-1}
         /\ o.poll \in BOOLEAN /\ o.outcome \in Outcomes \union {"none"} /\ o.seen \subseteq Calls
         /\ o = [pc |-> o.pc, tx |-> o.tx, call |-> o.call, poll |-> o.poll,
                 outcome |-> o.outcome, seen |-> o.seen]
<1>1. worker[w] \in WorkerType  BY DEF TypeOK
<1>2. QED  BY <1>1 DEF WorkerType

\* The record of one worker is set.
LEMMA SetRecord ==
  ASSUME TypeOK, NEW w \in Workers, NEW r \in WorkerType, worker' = [worker EXCEPT ![w] = r]
  PROVE  Becomes(w, r.pc, r.tx, r.call, r.poll, r.outcome, r.seen)
<1>1. worker \in [Workers -> WorkerType]  BY DEF TypeOK
<1>2. /\ worker' \in [Workers -> WorkerType] /\ worker'[w] = r
      /\ \A v \in Workers \ {w} : worker'[v] = worker[v]
  BY <1>1
<1>3. r = [pc |-> r.pc, tx |-> r.tx, call |-> r.call, poll |-> r.poll,
           outcome |-> r.outcome, seen |-> r.seen]
  BY DEF WorkerType
<1>4. QED  BY <1>2, <1>3 DEF Becomes

\* The changes the actions make to a record.
LEMMA SetPc ==
  ASSUME TypeOK, NEW w \in Workers, NEW pc \in WorkerSteps,
         Goto(w, pc)
  PROVE  Becomes(w, pc, worker[w].tx, worker[w].call, worker[w].poll, worker[w].outcome,
                 worker[w].seen)
<1> DEFINE r == [worker[w] EXCEPT !.pc = pc]
<1>1. r \in WorkerType /\ Becomes(w, r.pc, r.tx, r.call, r.poll, r.outcome, r.seen)
  <2>1. r \in WorkerType  BY Fields DEF WorkerType
  <2>2. worker' = [worker EXCEPT ![w] = r]  BY DEF Goto
  <2> HIDE DEF r
  <2>3. QED  BY <2>1, <2>2, SetRecord
<1>2. QED  BY <1>1, Fields

LEMMA SetPcTx ==
  ASSUME TypeOK, NEW w \in Workers, NEW pc \in WorkerSteps, NEW tx \in Calls,
         worker' = [worker EXCEPT ![w].pc = pc, ![w].tx = tx]
  PROVE  Becomes(w, pc, tx, worker[w].call, worker[w].poll, worker[w].outcome, worker[w].seen)
<1> DEFINE r == [worker[w] EXCEPT !.pc = pc, !.tx = tx]
<1>1. r \in WorkerType /\ Becomes(w, r.pc, r.tx, r.call, r.poll, r.outcome, r.seen)
  <2>1. r \in WorkerType  BY Fields DEF WorkerType
  <2>2. worker' = [worker EXCEPT ![w] = r]  BY DEF TypeOK
  <2> HIDE DEF r
  <2>3. QED  BY <2>1, <2>2, SetRecord
<1>2. QED  BY <1>1, Fields

LEMMA SetPcCall ==
  ASSUME TypeOK, NEW w \in Workers, NEW pc \in WorkerSteps, NEW call \in Calls,
         worker' = [worker EXCEPT ![w].pc = pc, ![w].call = call]
  PROVE  Becomes(w, pc, worker[w].tx, call, worker[w].poll, worker[w].outcome, worker[w].seen)
<1> DEFINE r == [worker[w] EXCEPT !.pc = pc, !.call = call]
<1>1. r \in WorkerType /\ Becomes(w, r.pc, r.tx, r.call, r.poll, r.outcome, r.seen)
  <2>1. r \in WorkerType  BY Fields DEF WorkerType
  <2>2. worker' = [worker EXCEPT ![w] = r]  BY DEF TypeOK
  <2> HIDE DEF r
  <2>3. QED  BY <2>1, <2>2, SetRecord
<1>2. QED  BY <1>1, Fields

LEMMA SetPcSeen ==
  ASSUME TypeOK, NEW w \in Workers, NEW pc \in WorkerSteps, NEW seen \in SUBSET Calls,
         worker' = [worker EXCEPT ![w].pc = pc, ![w].seen = seen]
  PROVE  Becomes(w, pc, worker[w].tx, worker[w].call, worker[w].poll, worker[w].outcome, seen)
<1> DEFINE r == [worker[w] EXCEPT !.pc = pc, !.seen = seen]
<1>1. r \in WorkerType /\ Becomes(w, r.pc, r.tx, r.call, r.poll, r.outcome, r.seen)
  <2>1. r \in WorkerType  BY Fields DEF WorkerType
  <2>2. worker' = [worker EXCEPT ![w] = r]  BY DEF TypeOK
  <2> HIDE DEF r
  <2>3. QED  BY <2>1, <2>2, SetRecord
<1>2. QED  BY <1>1, Fields

LEMMA SetPcOutcome ==
  ASSUME TypeOK, NEW w \in Workers, NEW pc \in WorkerSteps,
         NEW outcome \in Outcomes \union {"none"},
         worker' = [worker EXCEPT ![w].pc = pc, ![w].outcome = outcome]
  PROVE  Becomes(w, pc, worker[w].tx, worker[w].call, worker[w].poll, outcome, worker[w].seen)
<1> DEFINE r == [worker[w] EXCEPT !.pc = pc, !.outcome = outcome]
<1>1. r \in WorkerType /\ Becomes(w, r.pc, r.tx, r.call, r.poll, r.outcome, r.seen)
  <2>1. r \in WorkerType  BY Fields DEF WorkerType
  <2>2. worker' = [worker EXCEPT ![w] = r]  BY DEF TypeOK
  <2> HIDE DEF r
  <2>3. QED  BY <2>1, <2>2, SetRecord
<1>2. QED  BY <1>1, Fields

LEMMA SetPcTxOutcome ==
  ASSUME TypeOK, NEW w \in Workers, NEW pc \in WorkerSteps, NEW tx \in Calls,
         NEW outcome \in Outcomes,
         worker' = [worker EXCEPT ![w].pc = pc, ![w].tx = tx, ![w].outcome = outcome]
  PROVE  Becomes(w, pc, tx, worker[w].call, worker[w].poll, outcome, worker[w].seen)
<1> DEFINE r == [worker[w] EXCEPT !.pc = pc, !.tx = tx, !.outcome = outcome]
<1>1. r \in WorkerType /\ Becomes(w, r.pc, r.tx, r.call, r.poll, r.outcome, r.seen)
  <2>1. r \in WorkerType  BY Fields DEF WorkerType
  <2>2. worker' = [worker EXCEPT ![w] = r]  BY DEF TypeOK
  <2> HIDE DEF r
  <2>3. QED  BY <2>1, <2>2, SetRecord
<1>2. QED  BY <1>1, Fields

LEMMA SetPcTxPoll ==
  ASSUME TypeOK, NEW w \in Workers, NEW pc \in WorkerSteps, NEW tx \in Calls, NEW poll \in BOOLEAN,
         worker' = [worker EXCEPT ![w].pc = pc, ![w].tx = tx, ![w].poll = poll]
  PROVE  Becomes(w, pc, tx, worker[w].call, poll, worker[w].outcome, worker[w].seen)
<1> DEFINE r == [worker[w] EXCEPT !.pc = pc, !.tx = tx, !.poll = poll]
<1>1. r \in WorkerType /\ Becomes(w, r.pc, r.tx, r.call, r.poll, r.outcome, r.seen)
  <2>1. r \in WorkerType  BY Fields DEF WorkerType
  <2>2. worker' = [worker EXCEPT ![w] = r]  BY DEF TypeOK
  <2> HIDE DEF r
  <2>3. QED  BY <2>1, <2>2, SetRecord
<1>2. QED  BY <1>1, Fields

LEMMA SetIdle ==
  ASSUME TypeOK, NEW w \in Workers, worker' = [worker EXCEPT ![w] = IdleWorker]
  PROVE  Becomes(w, "idle", -1, -1, FALSE, "none", {})
<1>1. IdleWorker \in WorkerType  BY DEF IdleWorker, WorkerType, WorkerSteps
<1>2. QED  BY <1>1, SetRecord DEF IdleWorker

-----------------------------------------------------------------------------
(* What has to be shown of a step                                            *)

\* A bounded count of incidents, and a row that is written.
LEMMA IncidentType == ASSUME TypeOK, Incident PROVE incidents' \in 0..MaxIncidents
BY DEF TypeOK, ReceiptsTypeOK, Incident

LEMMA RowType ==
  ASSUME TypeOK, NEW t \in Calls, NEW status \in {"pending", "success", "failed", "dropped"},
         UpdateRow(t, status)
  PROVE  /\ row' \in [Txs -> {"none", "processing", "pending", "success", "failed", "dropped"}]
         /\ \A i \in Calls : row'[i] # "none" => row[i] # "none"
         /\ \A i \in Calls : row'[i] = "pending" =>
              row[i] = "pending" \/ (i = t /\ status = "pending")
         /\ \A i \in Calls : i # t => row'[i] = row[i]
         /\ row'[t] = IF row[t] = "none" THEN "none" ELSE status
BY DEF TypeOK, ReceiptsTypeOK, UpdateRow

\* Successes stay, so what came after them stays after them.
Keeps == \A j \in Calls : chain[j] = "success" => chain'[j] = "success"

LEMMA EarlierStays ==
  ASSUME Keeps, NEW i \in 0..NumCalls, Earlier(i)
  PROVE  Earlier(i)'
BY DEF Keeps, Earlier

LEMMA OrderOfStays ==
  ASSUME Keeps, NEW o \in WorkerType, OrderOf(o)
  PROVE  OrderOf(o)'
<1>1. /\ o.tx \in Calls => Earlier(o.tx)'
      /\ o.call \in Calls => Earlier(o.call)'
      /\ Earlier(NumCalls) => Earlier(NumCalls)'
  BY EarlierStays DEF OrderOf
<1>2. o.outcome = "success" => o.tx \in Calls /\ chain'[o.tx] = "success"
  BY DEF OrderOf, Keeps
<1>3. QED  BY <1>1, <1>2 DEF OrderOf

LEMMA OrderGrows ==
  ASSUME TypeOK, TypeOK', Order, Keeps,
         Earlier(bundle'.next),
         \A i \in Calls : Reached(i)' => Reached(i) \/ Earlier(i),
         \A w \in Workers : worker'[w] = worker[w] \/ OrderOf(worker[w])',
         bundle'.status = "confirmed" => bundle.status = "confirmed" \/ Earlier(NumCalls),
         \A i \in Calls : sent'[i] = 0 => chain'[i] = "unsent"
  PROVE  Order'
<1>1. Earlier(bundle.next)'
  <2>1. bundle'.next \in 0..NumCalls  BY DEF TypeOK, BundleType
  <2> DEFINE n == bundle'.next
  <2>2. \A j \in 0..n - 1 : chain[j] = "success"  BY DEF Earlier
  <2>3. \A j \in 0..n - 1 : chain'[j] = "success"  BY <2>1, <2>2 DEF Keeps
  <2>4. QED  BY <2>3 DEF Earlier
<1>2. \A i \in Calls : Reached(i)' => Earlier(i)'  BY EarlierStays DEF Order
<1>3. \A w \in Workers : OrderOf(worker[w])'
  <2> SUFFICES ASSUME NEW w \in Workers, worker'[w] = worker[w] PROVE OrderOf(worker[w])'
    OBVIOUS
  <2>1. PICK o : o = worker[w]  OBVIOUS
  <2>2. o \in WorkerType /\ OrderOf(o)  BY <2>1, Fields DEF Order
  <2>3. OrderOf(o)'  BY <2>2, OrderOfStays
  <2>4. QED  BY <2>1, <2>3 DEF OrderOf, Earlier
<1>4. bundle'.status = "confirmed" => Earlier(NumCalls)'  BY EarlierStays DEF Order
<1>5. QED  BY <1>1, <1>2, <1>3, <1>4 DEF Order

\* The same for a step that broadcasts nothing.
LEMMA OrderStays ==
  ASSUME TypeOK, TypeOK', Order, UNCHANGED <<chain, sent>>,
         bundle'.next = bundle.next \/ Earlier(bundle'.next),
         \A i \in Calls : Reached(i)' => Reached(i) \/ Earlier(i),
         \A w \in Workers : worker'[w] = worker[w] \/ OrderOf(worker'[w]),
         bundle'.status = "confirmed" => bundle.status = "confirmed" \/ Earlier(NumCalls)
  PROVE  Order'
<1>1. Keeps  BY DEF Keeps
<1>2. \A w \in Workers : worker'[w] = worker[w] \/ OrderOf(worker[w])'
  BY DEF OrderOf, Earlier
<1>3. Earlier(bundle'.next)  BY DEF Order
<1>4. \A i \in Calls : sent'[i] = 0 => chain'[i] = "unsent"  BY DEF Order
<1>5. QED  BY <1>1, <1>2, <1>3, <1>4, OrderGrows

\* One worker moves on: the others keep their records.
LEMMA ShapeMoves ==
  ASSUME Shape, NEW w \in Workers, \A v \in Workers \ {w} : worker'[v] = worker[v],
         ShapeOf(worker'[w])
  PROVE  Shape'
<1>1. \A v \in Workers : ShapeOf(worker'[v])  BY DEF Shape
<1>2. QED  BY <1>1 DEF Shape, ShapeOf

\* Nothing but the three steps of the split depends on the batch prompt.
LEMMA UnsplitStays ==
  ASSUME Unsplit, batchPrompt' = batchPrompt,
         \A w \in Workers : worker'[w].pc \in SplitSteps => worker[w].pc \in SplitSteps,
         \/ ~batchPrompt
         \/ /\ UNCHANGED <<bundle, prompts, sent>>
            /\ \A w \in Workers : Active(w)' => Active(w)
            /\ \A i \in Calls : Open(i)' => Open(i)
  PROVE  Unsplit'
<1>1. CASE ~batchPrompt  BY <1>1 DEF Unsplit
<1>2. CASE batchPrompt
  <2>1. /\ UNCHANGED <<bundle, prompts, sent>>
        /\ \A w \in Workers : Active(w)' => Active(w)
        /\ \A i \in Calls : Open(i)' => Open(i)
    BY <1>2
  <2>2. bundle' = bundle /\ prompts' = prompts /\ sent' = sent  BY <2>1
  <2>3. \A w \in Workers : ~Active(w)'  BY <1>2, <2>1 DEF Unsplit
  <2>4. \A i \in Calls : sent'[i] = 0 /\ ~Open(i)'  BY <1>2, <2>1, <2>2 DEF Unsplit
  <2>5. QED  BY <1>2, <2>2, <2>3, <2>4 DEF Unsplit
<1>3. QED  BY <1>1, <1>2

\* Once something of the bundle has begun, the batch prompt is gone.
LEMMA Begun ==
  ASSUME Unsplit
  PROVE  /\ \A w \in Workers : Active(w) => ~batchPrompt
         /\ \A i \in prompts : ~batchPrompt
         /\ \A i \in Calls : Open(i) => ~batchPrompt
BY DEF Unsplit

-----------------------------------------------------------------------------
(* No step leaves Safe: every action but those of the sequencer              *)

LEMMA SSave == ASSUME Safe, NEW w \in Workers, Save(w) PROVE Safe'
<1>1. TypeOK /\ Shape /\ Order /\ Unsplit  BY DEF Safe
<1>2. Becomes(w, "idle", -1, -1, FALSE, "none", {})
  BY <1>1, Fields, SetIdle DEF Save, Done, Return
<1>3. worker[w].call \in Calls  BY <1>1 DEF Shape, ShapeOf, Save, At
<1>4. TypeOK'
  BY <1>1, <1>2, <1>3 DEF TypeOK, ReceiptsTypeOK, receiptFrame, Done, Return, Tx, At, Save,
     Becomes
<1>5. Shape'
  <2>1. ShapeOf(worker'[w])
    BY <1>1, <1>2, <1>3, Fields DEF Shape, ShapeOf, IdleWorker, Becomes, CallSteps, WatchSteps,
       SettleSteps, RunSteps, QueueSteps, SplitSteps, ObserverSteps, Outcomes, Save, At
  <2>2. QED  BY <1>1, <1>2, <2>1, ShapeMoves DEF Becomes
<1>6. Order'
  <2>1. OrderOf(worker'[w])
    BY <1>1, <1>2, <1>3, Fields DEF Order, OrderOf, Earlier, Reached, IdleWorker, Becomes, Save,
       At, Tx
  <2>2. \A v \in Workers : worker'[v] = worker[v] \/ OrderOf(worker'[v])
    BY <1>2, <2>1 DEF Becomes
  <2>3. \A j \in Calls : Reached(j)' => Reached(j) \/ Earlier(j)
    BY <1>1, <1>2, <1>3 DEF Order, OrderOf, Reached, Save, receiptFrame, Done, Return, Tx, At
  <2>4. /\ UNCHANGED <<chain, sent>> /\ (bundle'.next = bundle.next \/ Earlier(bundle'.next))
        /\ bundle'.status = "confirmed" => bundle.status = "confirmed" \/ Earlier(NumCalls)
    BY <1>1, <1>2, <1>3 DEF Save, receiptFrame
  <2>5. QED  BY <1>1, <1>4, <2>2, <2>3, <2>4, OrderStays
<1>7. Unsplit'
  <2>1. batchPrompt' = batchPrompt  BY DEF Save
  <2>2. \A v \in Workers : worker'[v].pc \in SplitSteps => worker[v].pc \in SplitSteps
    BY <1>2 DEF Becomes, SplitSteps
  <2>3. ~batchPrompt
    BY <1>1, Begun DEF Active, CallSteps, WatchSteps, SettleSteps, RunSteps, QueueSteps, At, Save
  <2>4. QED  BY <1>1, <2>1, <2>2, <2>3, UnsplitStays
<1>8. QED  BY <1>4, <1>5, <1>6, <1>7 DEF Safe

LEMMA SSaveRefused == ASSUME Safe, NEW w \in Workers, SaveRefused(w) PROVE Safe'
<1>1. TypeOK /\ Shape /\ Order /\ Unsplit  BY DEF Safe
<1>2. Becomes(w, "idle", -1, -1, FALSE, "none", {})
  BY <1>1, Fields, SetIdle DEF SaveRefused, Done, Return
<1>3. TypeOK'
  <2>1. incidents' \in 0..MaxIncidents  BY <1>1, IncidentType DEF SaveRefused
  <2>2. QED
    BY <1>1, <1>2, <2>1 DEF TypeOK, ReceiptsTypeOK, bundleVars, receiptFrame, Done, Return, Tx,
       At, SaveRefused, Becomes
<1>4. Shape'
  <2>1. ShapeOf(worker'[w])
    BY <1>1, <1>2, Fields DEF Shape, ShapeOf, IdleWorker, Becomes, CallSteps, WatchSteps,
       SettleSteps, RunSteps, QueueSteps, SplitSteps, ObserverSteps, Outcomes, SaveRefused, At
  <2>2. QED  BY <1>1, <1>2, <2>1, ShapeMoves DEF Becomes
<1>5. Order'
  <2>1. OrderOf(worker'[w])
    BY <1>1, <1>2, Fields DEF Order, OrderOf, Earlier, Reached, IdleWorker, Becomes, SaveRefused,
       At, Tx
  <2>2. \A v \in Workers : worker'[v] = worker[v] \/ OrderOf(worker'[v])
    BY <1>2, <2>1 DEF Becomes
  <2>3. \A j \in Calls : Reached(j)' => Reached(j) \/ Earlier(j)
    BY <1>1, <1>2 DEF Order, OrderOf, Reached, SaveRefused, bundleVars, receiptFrame, Done,
       Return, Tx, At
  <2>4. /\ UNCHANGED <<chain, sent>> /\ (bundle'.next = bundle.next \/ Earlier(bundle'.next))
        /\ bundle'.status = "confirmed" => bundle.status = "confirmed" \/ Earlier(NumCalls)
    BY <1>1, <1>2 DEF SaveRefused, bundleVars, receiptFrame
  <2>5. QED  BY <1>1, <1>3, <2>2, <2>3, <2>4, OrderStays
<1>6. Unsplit'
  <2>1. batchPrompt' = batchPrompt  BY DEF SaveRefused, bundleVars
  <2>2. \A v \in Workers : worker'[v].pc \in SplitSteps => worker[v].pc \in SplitSteps
    BY <1>2 DEF Becomes, SplitSteps
  <2>3. ~batchPrompt
    BY <1>1, Begun DEF Active, CallSteps, WatchSteps, SettleSteps, RunSteps, QueueSteps, At,
       SaveRefused
  <2>4. QED  BY <1>1, <2>1, <2>2, <2>3, UnsplitStays
<1>7. QED  BY <1>3, <1>4, <1>5, <1>6 DEF Safe

LEMMA SFinalize == ASSUME Safe, NEW w \in Workers, Finalize(w) PROVE Safe'
<1>1. TypeOK /\ Shape /\ Order /\ Unsplit  BY DEF Safe
<1>2. Becomes(w, "idle", -1, -1, FALSE, "none", {})
  BY <1>1, Fields, SetIdle DEF Finalize, Done, Return
<1>3. TypeOK'
  <2>1. bundle' \in BundleType
    BY <1>1, <1>2, Fields DEF TypeOK, BundleType, Failures, Finalize, At, Tx
  <2>2. QED
    BY <1>1, <1>2, <2>1 DEF TypeOK, ReceiptsTypeOK, receiptFrame, Done, Return, Tx, At, Finalize,
       Becomes
<1>4. Shape'
  <2>1. ShapeOf(worker'[w])
    BY <1>1, <1>2, Fields DEF Shape, ShapeOf, IdleWorker, Becomes, CallSteps, WatchSteps,
       SettleSteps, RunSteps, QueueSteps, SplitSteps, ObserverSteps, Outcomes, Finalize, At
  <2>2. QED  BY <1>1, <1>2, <2>1, ShapeMoves DEF Becomes
<1>5. Order'
  <2>1. OrderOf(worker'[w])
    BY <1>1, <1>2, Fields DEF Order, OrderOf, Earlier, Reached, IdleWorker, Becomes, Finalize,
       At, Tx
  <2>2. \A v \in Workers : worker'[v] = worker[v] \/ OrderOf(worker'[v])
    BY <1>2, <2>1 DEF Becomes
  <2>3. \A j \in Calls : Reached(j)' => Reached(j) \/ Earlier(j)
    BY <1>1, <1>2 DEF Order, OrderOf, Reached, Finalize, receiptFrame, Done, Return, Tx, At
  <2>4. /\ UNCHANGED <<chain, sent>> /\ (bundle'.next = bundle.next \/ Earlier(bundle'.next))
        /\ bundle'.status = "confirmed" => bundle.status = "confirmed" \/ Earlier(NumCalls)
    BY <1>1, <1>2 DEF Finalize, receiptFrame, TypeOK, BundleType, Order, OrderOf, Earlier, At,
       Tx, FinalStatus, HashesAfter
  <2>5. QED  BY <1>1, <1>3, <2>2, <2>3, <2>4, OrderStays
<1>6. Unsplit'
  <2>1. batchPrompt' = batchPrompt  BY DEF Finalize
  <2>2. \A v \in Workers : worker'[v].pc \in SplitSteps => worker[v].pc \in SplitSteps
    BY <1>2 DEF Becomes, SplitSteps
  <2>3. ~batchPrompt
    BY <1>1, Begun DEF Active, CallSteps, WatchSteps, SettleSteps, RunSteps, QueueSteps, At,
       Finalize
  <2>4. QED  BY <1>1, <2>1, <2>2, <2>3, UnsplitStays
<1>7. QED  BY <1>3, <1>4, <1>5, <1>6 DEF Safe

LEMMA SAdvanceSuccess == ASSUME Safe, NEW w \in Workers, AdvanceSuccess(w) PROVE Safe'
<1>1. TypeOK /\ Shape /\ Order /\ Unsplit  BY DEF Safe
<1>2. Becomes(w, "enqueue", worker[w].tx, worker[w].call, worker[w].poll, worker[w].outcome,
              worker[w].seen)
  BY <1>1, Fields, SetPc DEF AdvanceSuccess, WorkerSteps
<1>3. worker[w].tx \in Calls
  BY <1>1 DEF Shape, ShapeOf, AdvanceSuccess, At, CallSteps, WatchSteps, SettleSteps, RunSteps
<1>4. TypeOK'
  <2>1. bundle' \in BundleType
    <3>1. worker[w].tx + 1 \in 0..NumCalls  BY <1>3
    <3>2. HashesAfter(w) \subseteq Calls  BY <1>1, <1>3, Fields DEF HashesAfter, Tx
    <3>3. /\ bundle \in BundleType
          /\ bundle' = [bundle EXCEPT !.next = worker[w].tx + 1, !.hashes = HashesAfter(w)]
      BY <1>1 DEF TypeOK, AdvanceSuccess, Tx
    <3> HIDE DEF HashesAfter
    <3>4. QED  BY <3>1, <3>2, <3>3 DEF BundleType
  <2>2. QED
    BY <1>1, <1>2, <1>3, <2>1 DEF TypeOK, ReceiptsTypeOK, receiptFrame, Tx, At, AdvanceSuccess,
       Becomes
<1>5. Shape'
  <2>1. ShapeOf(worker'[w])
    BY <1>1, <1>2, <1>3, Fields DEF Shape, ShapeOf, Becomes, CallSteps, WatchSteps, SettleSteps,
       RunSteps, QueueSteps, SplitSteps, ObserverSteps, Outcomes, AdvanceSuccess, At
  <2>2. QED  BY <1>1, <1>2, <2>1, ShapeMoves DEF Becomes
<1>6. Order'
  <2>1. OrderOf(worker'[w])
    BY <1>1, <1>2, <1>3, Fields DEF Order, OrderOf, Earlier, Reached, Becomes, AdvanceSuccess,
       At, Tx
  <2>2. \A v \in Workers : worker'[v] = worker[v] \/ OrderOf(worker'[v])
    BY <1>2, <2>1 DEF Becomes
  <2>3. \A j \in Calls : Reached(j)' => Reached(j) \/ Earlier(j)
    BY <1>1, <1>2, <1>3 DEF Order, OrderOf, Reached, AdvanceSuccess, receiptFrame, Tx, At
  <2>4. /\ UNCHANGED <<chain, sent>> /\ (bundle'.next = bundle.next \/ Earlier(bundle'.next))
        /\ bundle'.status = "confirmed" => bundle.status = "confirmed" \/ Earlier(NumCalls)
    BY <1>1, <1>2, <1>3 DEF AdvanceSuccess, receiptFrame, TypeOK, BundleType, Order, OrderOf,
       Earlier, At, Tx, FinalStatus, HashesAfter
  <2>5. QED  BY <1>1, <1>4, <2>2, <2>3, <2>4, OrderStays
<1>7. Unsplit'
  <2>1. batchPrompt' = batchPrompt  BY DEF AdvanceSuccess
  <2>2. \A v \in Workers : worker'[v].pc \in SplitSteps => worker[v].pc \in SplitSteps
    BY <1>2 DEF Becomes, SplitSteps
  <2>3. ~batchPrompt
    BY <1>1, Begun DEF Active, CallSteps, WatchSteps, SettleSteps, RunSteps, QueueSteps, At,
       AdvanceSuccess
  <2>4. QED  BY <1>1, <2>1, <2>2, <2>3, UnsplitStays
<1>8. QED  BY <1>4, <1>5, <1>6, <1>7 DEF Safe

LEMMA SAdvanceFailure == ASSUME Safe, NEW w \in Workers, AdvanceFailure(w) PROVE Safe'
<1>1. TypeOK /\ Shape /\ Order /\ Unsplit  BY DEF Safe
<1>2. Becomes(w, "idle", -1, -1, FALSE, "none", {})
  BY <1>1, Fields, SetIdle DEF AdvanceFailure, Done, Return
<1>3. worker[w].tx \in Calls
  BY <1>1 DEF Shape, ShapeOf, AdvanceFailure, At, CallSteps, WatchSteps, SettleSteps, RunSteps
<1>4. TypeOK'
  <2>1. bundle' \in BundleType
    BY <1>1, <1>2, <1>3, Fields DEF TypeOK, BundleType, Failures, AdvanceFailure, At, Tx,
       HashesAfter, FinalStatus, Outcomes
  <2>2. QED
    BY <1>1, <1>2, <1>3, <2>1 DEF TypeOK, ReceiptsTypeOK, receiptFrame, Done, Return, Tx, At,
       AdvanceFailure, Becomes
<1>5. Shape'
  <2>1. ShapeOf(worker'[w])
    BY <1>1, <1>2, <1>3, Fields DEF Shape, ShapeOf, IdleWorker, Becomes, CallSteps, WatchSteps,
       SettleSteps, RunSteps, QueueSteps, SplitSteps, ObserverSteps, Outcomes, AdvanceFailure, At
  <2>2. QED  BY <1>1, <1>2, <2>1, ShapeMoves DEF Becomes
<1>6. Order'
  <2>1. OrderOf(worker'[w])
    BY <1>1, <1>2, <1>3, Fields DEF Order, OrderOf, Earlier, Reached, IdleWorker, Becomes,
       AdvanceFailure, At, Tx
  <2>2. \A v \in Workers : worker'[v] = worker[v] \/ OrderOf(worker'[v])
    BY <1>2, <2>1 DEF Becomes
  <2>3. \A j \in Calls : Reached(j)' => Reached(j) \/ Earlier(j)
    BY <1>1, <1>2, <1>3 DEF Order, OrderOf, Reached, AdvanceFailure, receiptFrame, Done, Return,
       Tx, At
  <2>4. /\ UNCHANGED <<chain, sent>> /\ (bundle'.next = bundle.next \/ Earlier(bundle'.next))
        /\ bundle'.status = "confirmed" => bundle.status = "confirmed" \/ Earlier(NumCalls)
    BY <1>1, <1>2, <1>3 DEF AdvanceFailure, receiptFrame, TypeOK, BundleType, Order, OrderOf,
       Earlier, At, Tx, FinalStatus, HashesAfter
  <2>5. QED  BY <1>1, <1>4, <2>2, <2>3, <2>4, OrderStays
<1>7. Unsplit'
  <2>1. batchPrompt' = batchPrompt  BY DEF AdvanceFailure
  <2>2. \A v \in Workers : worker'[v].pc \in SplitSteps => worker[v].pc \in SplitSteps
    BY <1>2 DEF Becomes, SplitSteps
  <2>3. ~batchPrompt
    BY <1>1, Begun DEF Active, CallSteps, WatchSteps, SettleSteps, RunSteps, QueueSteps, At,
       AdvanceFailure
  <2>4. QED  BY <1>1, <2>1, <2>2, <2>3, UnsplitStays
<1>8. QED  BY <1>4, <1>5, <1>6, <1>7 DEF Safe

LEMMA SConfirm == ASSUME Safe, NEW w \in Workers, NEW i \in Calls, Confirm(w, i) PROVE Safe'
<1>1. TypeOK /\ Shape /\ Order /\ Unsplit  BY DEF Safe
<1>2. Becomes(w, "process", i, worker[w].call, worker[w].poll, worker[w].outcome, worker[w].seen)
  BY <1>1, Fields, SetPcTx DEF Confirm, WorkerSteps
<1>3. worker[w] = IdleWorker  BY <1>1 DEF Shape, ShapeOf, Idle, Confirm
<1>4. TypeOK'
  BY <1>1, <1>2, <1>3 DEF TypeOK, ReceiptsTypeOK, receiptFrame, Confirm, TakePrompt, Becomes
<1>5. Shape'
  <2>1. ShapeOf(worker'[w])
    BY <1>2, <1>3 DEF Becomes, IdleWorker, ShapeOf, CallSteps, WatchSteps, SettleSteps, RunSteps,
       QueueSteps, SplitSteps, ObserverSteps
  <2>2. QED  BY <1>1, <1>2, <2>1, ShapeMoves DEF Becomes
<1>6. Order'
  <2>1. OrderOf(worker'[w])
    BY <1>1, <1>2, <1>3, Fields DEF Order, OrderOf, Earlier, Reached, IdleWorker, Becomes,
       Confirm, Idle
  <2>2. \A v \in Workers : worker'[v] = worker[v] \/ OrderOf(worker'[v])
    BY <1>2, <2>1 DEF Becomes
  <2>3. \A j \in Calls : Reached(j)' => Reached(j) \/ Earlier(j)
    BY <1>1, <1>2, <1>3 DEF Order, OrderOf, Reached, Confirm, receiptFrame, TakePrompt
  <2>4. /\ UNCHANGED <<chain, sent>> /\ (bundle'.next = bundle.next \/ Earlier(bundle'.next))
        /\ bundle'.status = "confirmed" => bundle.status = "confirmed" \/ Earlier(NumCalls)
    BY <1>1, <1>2, <1>3 DEF Confirm, receiptFrame
  <2>5. QED  BY <1>1, <1>4, <2>2, <2>3, <2>4, OrderStays
<1>7. Unsplit'
  <2>1. batchPrompt' = batchPrompt  BY DEF Confirm
  <2>2. \A v \in Workers : worker'[v].pc \in SplitSteps => worker[v].pc \in SplitSteps
    BY <1>2 DEF Becomes, SplitSteps
  <2>3. ~batchPrompt  BY <1>1, Begun DEF Confirm
  <2>4. QED  BY <1>1, <2>1, <2>2, <2>3, UnsplitStays
<1>8. QED  BY <1>4, <1>5, <1>6, <1>7 DEF Safe

LEMMA SReject == ASSUME Safe, NEW w \in Workers, NEW i \in Calls, Reject(w, i) PROVE Safe'
<1>1. TypeOK /\ Shape /\ Order /\ Unsplit  BY DEF Safe
<1>2. Becomes(w, "advance", i, worker[w].call, worker[w].poll, "rejected", worker[w].seen)
  BY <1>1, Fields, SetPcTxOutcome DEF Reject, WorkerSteps, ObserverSteps, Outcomes
<1>3. worker[w] = IdleWorker  BY <1>1 DEF Shape, ShapeOf, Idle, Reject
<1>4. TypeOK'
  BY <1>1, <1>2, <1>3 DEF TypeOK, ReceiptsTypeOK, receiptFrame, Reject, Becomes
<1>5. Shape'
  <2>1. ShapeOf(worker'[w])
    BY <1>1, <1>2, <1>3, Fields DEF Shape, ShapeOf, IdleWorker, Becomes, CallSteps, WatchSteps,
       SettleSteps, RunSteps, QueueSteps, SplitSteps, ObserverSteps, Outcomes, Reject
  <2>2. QED  BY <1>1, <1>2, <2>1, ShapeMoves DEF Becomes
<1>6. Order'
  <2>1. OrderOf(worker'[w])
    BY <1>1, <1>2, <1>3, Fields DEF Order, OrderOf, Earlier, Reached, IdleWorker, Becomes,
       Reject, Idle
  <2>2. \A v \in Workers : worker'[v] = worker[v] \/ OrderOf(worker'[v])
    BY <1>2, <2>1 DEF Becomes
  <2>3. \A j \in Calls : Reached(j)' => Reached(j) \/ Earlier(j)
    BY <1>1, <1>2, <1>3 DEF Order, OrderOf, Reached, Reject, receiptFrame
  <2>4. /\ UNCHANGED <<chain, sent>> /\ (bundle'.next = bundle.next \/ Earlier(bundle'.next))
        /\ bundle'.status = "confirmed" => bundle.status = "confirmed" \/ Earlier(NumCalls)
    BY <1>1, <1>2, <1>3 DEF Reject, receiptFrame
  <2>5. QED  BY <1>1, <1>4, <2>2, <2>3, <2>4, OrderStays
<1>7. Unsplit'
  <2>1. batchPrompt' = batchPrompt  BY DEF Reject
  <2>2. \A v \in Workers : worker'[v].pc \in SplitSteps => worker[v].pc \in SplitSteps
    BY <1>2 DEF Becomes, SplitSteps
  <2>3. ~batchPrompt  BY <1>1, Begun DEF Reject
  <2>4. QED  BY <1>1, <2>1, <2>2, <2>3, UnsplitStays
<1>8. QED  BY <1>4, <1>5, <1>6, <1>7 DEF Safe

LEMMA SRevoke == ASSUME Safe, NEW i \in Calls, Revoke(i) PROVE Safe'
<1>1. TypeOK /\ Shape /\ Order /\ Unsplit  BY DEF Safe
<1>2. TypeOK'
  <2>1. incidents' \in 0..MaxIncidents  BY <1>1, IncidentType DEF Revoke
  <2>2. QED  BY <1>1, <2>1 DEF TypeOK, ReceiptsTypeOK, receiptFrame, Revoke
<1>3. Shape'
  BY <1>1 DEF Shape, ShapeOf, CallSteps, WatchSteps, SettleSteps, RunSteps, QueueSteps,
     SplitSteps, ObserverSteps, Revoke
<1>4. Order'
  <2>1. \A v \in Workers : worker'[v] = worker[v]  BY DEF Revoke
  <2>2. \A j \in Calls : Reached(j)' => Reached(j) \/ Earlier(j)
    BY <1>1 DEF Order, OrderOf, Reached, Revoke, receiptFrame
  <2>3. /\ UNCHANGED <<chain, sent>> /\ (bundle'.next = bundle.next \/ Earlier(bundle'.next))
        /\ bundle'.status = "confirmed" => bundle.status = "confirmed" \/ Earlier(NumCalls)
    BY <1>1 DEF Revoke, receiptFrame
  <2>4. QED  BY <1>1, <1>2, <2>1, <2>2, <2>3, OrderStays
<1>5. Unsplit'
  <2>1. batchPrompt' = batchPrompt  BY DEF Revoke
  <2>2. \A v \in Workers : worker'[v].pc \in SplitSteps => worker[v].pc \in SplitSteps
    BY DEF Revoke, SplitSteps
  <2>3. ~batchPrompt  BY <1>1, Begun DEF Revoke
  <2>4. QED  BY <1>1, <2>1, <2>2, <2>3, UnsplitStays
<1>6. QED  BY <1>2, <1>3, <1>4, <1>5 DEF Safe

LEMMA SAddRow == ASSUME Safe, NEW w \in Workers, AddRow(w) PROVE Safe'
<1>1. TypeOK /\ Shape /\ Order /\ Unsplit  BY DEF Safe
<1>2. Becomes(w, "broadcast", worker[w].tx, worker[w].call, worker[w].poll, worker[w].outcome,
              worker[w].seen)
  BY <1>1, Fields, SetPc DEF AddRow, WorkerSteps
<1>3. worker[w].tx \in Calls
  BY <1>1 DEF Shape, ShapeOf, AddRow, At, CallSteps, WatchSteps, SettleSteps, RunSteps
<1>4. TypeOK'
  <2>1. row' \in [Txs -> {"none", "processing", "pending", "success", "failed", "dropped"}]
    BY <1>1, <1>2, <1>3 DEF TypeOK, ReceiptsTypeOK, AddRow, Tx
  <2>2. QED
    BY <1>1, <1>2, <1>3, <2>1 DEF TypeOK, ReceiptsTypeOK, bundleVars, Tx, At, AddRow, Becomes
<1>5. Shape'
  <2>1. ShapeOf(worker'[w])
    BY <1>1, <1>2, <1>3, Fields DEF Shape, ShapeOf, Becomes, CallSteps, WatchSteps, SettleSteps,
       RunSteps, QueueSteps, SplitSteps, ObserverSteps, Outcomes, AddRow, At
  <2>2. QED  BY <1>1, <1>2, <2>1, ShapeMoves DEF Becomes
<1>6. Order'
  <2>1. OrderOf(worker'[w])
    BY <1>1, <1>2, <1>3, Fields DEF Order, OrderOf, Earlier, Reached, Becomes, AddRow, At, Tx
  <2>2. \A v \in Workers : worker'[v] = worker[v] \/ OrderOf(worker'[v])
    BY <1>2, <2>1 DEF Becomes
  <2>3. \A j \in Calls : Reached(j)' => Reached(j) \/ Earlier(j)
    BY <1>1, <1>2, <1>3 DEF Order, OrderOf, Reached, AddRow, bundleVars, Tx, At
  <2>4. /\ UNCHANGED <<chain, sent>> /\ (bundle'.next = bundle.next \/ Earlier(bundle'.next))
        /\ bundle'.status = "confirmed" => bundle.status = "confirmed" \/ Earlier(NumCalls)
    BY <1>1, <1>2, <1>3 DEF AddRow, bundleVars
  <2>5. QED  BY <1>1, <1>4, <2>2, <2>3, <2>4, OrderStays
<1>7. Unsplit'
  <2>1. batchPrompt' = batchPrompt  BY DEF AddRow, bundleVars
  <2>2. \A v \in Workers : worker'[v].pc \in SplitSteps => worker[v].pc \in SplitSteps
    BY <1>2 DEF Becomes, SplitSteps
  <2>3. ~batchPrompt
    BY <1>1, Begun DEF Active, CallSteps, WatchSteps, SettleSteps, RunSteps, QueueSteps, At,
       AddRow
  <2>4. QED  BY <1>1, <2>1, <2>2, <2>3, UnsplitStays
<1>8. QED  BY <1>4, <1>5, <1>6, <1>7 DEF Safe

LEMMA SFailBeforeSend == ASSUME Safe, NEW w \in Workers, FailBeforeSend(w) PROVE Safe'
<1>1. TypeOK /\ Shape /\ Order /\ Unsplit  BY DEF Safe
<1>2. Becomes(w, "record", worker[w].tx, worker[w].call, worker[w].poll, "rejected", worker[w].seen)
  BY <1>1, Fields, SetPcOutcome DEF FailBeforeSend, WorkerSteps, ObserverSteps, Outcomes
<1>3. worker[w].tx \in Calls
  BY <1>1 DEF Shape, ShapeOf, FailBeforeSend, At, CallSteps, WatchSteps, SettleSteps, RunSteps
<1>4. TypeOK'
  BY <1>1, <1>2, <1>3 DEF TypeOK, ReceiptsTypeOK, bundleVars, receiptFrame, At, FailBeforeSend,
     Becomes
<1>5. Shape'
  <2>1. ShapeOf(worker'[w])
    BY <1>1, <1>2, <1>3, Fields DEF Shape, ShapeOf, Becomes, CallSteps, WatchSteps, SettleSteps,
       RunSteps, QueueSteps, SplitSteps, ObserverSteps, Outcomes, FailBeforeSend, At
  <2>2. QED  BY <1>1, <1>2, <2>1, ShapeMoves DEF Becomes
<1>6. Order'
  <2>1. OrderOf(worker'[w])
    BY <1>1, <1>2, <1>3, Fields DEF Order, OrderOf, Earlier, Reached, Becomes, FailBeforeSend, At
  <2>2. \A v \in Workers : worker'[v] = worker[v] \/ OrderOf(worker'[v])
    BY <1>2, <2>1 DEF Becomes
  <2>3. \A j \in Calls : Reached(j)' => Reached(j) \/ Earlier(j)
    BY <1>1, <1>2, <1>3 DEF Order, OrderOf, Reached, FailBeforeSend, bundleVars, receiptFrame, At
  <2>4. /\ UNCHANGED <<chain, sent>> /\ (bundle'.next = bundle.next \/ Earlier(bundle'.next))
        /\ bundle'.status = "confirmed" => bundle.status = "confirmed" \/ Earlier(NumCalls)
    BY <1>1, <1>2, <1>3 DEF FailBeforeSend, bundleVars, receiptFrame
  <2>5. QED  BY <1>1, <1>4, <2>2, <2>3, <2>4, OrderStays
<1>7. Unsplit'
  <2>1. batchPrompt' = batchPrompt  BY DEF FailBeforeSend, bundleVars
  <2>2. \A v \in Workers : worker'[v].pc \in SplitSteps => worker[v].pc \in SplitSteps
    BY <1>2 DEF Becomes, SplitSteps
  <2>3. ~batchPrompt
    BY <1>1, Begun DEF Active, CallSteps, WatchSteps, SettleSteps, RunSteps, QueueSteps, At,
       FailBeforeSend
  <2>4. QED  BY <1>1, <2>1, <2>2, <2>3, UnsplitStays
<1>8. QED  BY <1>4, <1>5, <1>6, <1>7 DEF Safe

LEMMA SPosted == ASSUME Safe, NEW w \in Workers, Posted(w) PROVE Safe'
<1>1. TypeOK /\ Shape /\ Order /\ Unsplit  BY DEF Safe
<1>2. Becomes(w, "idle", -1, -1, FALSE, "none", {})
  BY <1>1, Fields, SetIdle DEF Posted, WorkerSteps
<1>3. worker[w].tx \in Calls
  BY <1>1 DEF Shape, ShapeOf, Posted, At, CallSteps, WatchSteps, SettleSteps, RunSteps
<1>4. TypeOK'
  <2>1. row' \in [Txs -> {"none", "processing", "pending", "success", "failed", "dropped"}]
    BY <1>1, <1>2, <1>3, RowType DEF Posted, Tx
  <2>2. QED
    BY <1>1, <1>2, <1>3, <2>1 DEF TypeOK, ReceiptsTypeOK, bundleVars, Tx, At, Posted,
       StartPolling, Becomes
<1>5. Shape'
  <2>1. ShapeOf(worker'[w])
    BY <1>1, <1>2, <1>3, Fields DEF Shape, ShapeOf, IdleWorker, Becomes, CallSteps, WatchSteps,
       SettleSteps, RunSteps, QueueSteps, SplitSteps, ObserverSteps, Outcomes, Posted, At
  <2>2. QED  BY <1>1, <1>2, <2>1, ShapeMoves DEF Becomes
<1>6. Order'
  <2>1. OrderOf(worker'[w])
    BY <1>1, <1>2, <1>3, Fields DEF Order, OrderOf, Earlier, Reached, IdleWorker, Becomes,
       Posted, At, Tx
  <2>2. \A v \in Workers : worker'[v] = worker[v] \/ OrderOf(worker'[v])
    BY <1>2, <2>1 DEF Becomes
  <2>3. \A j \in Calls : row'[j] # "none" => row[j] # "none"
    BY <1>1, <1>2, <1>3, RowType DEF Posted, Tx
  <2>4. \A j \in Calls : Reached(j)' => Reached(j) \/ Earlier(j)
    BY <1>1, <1>2, <1>3, <2>3 DEF Order, OrderOf, Reached, Posted, bundleVars, Tx, At,
       StartPolling
  <2>5. /\ UNCHANGED <<chain, sent>> /\ (bundle'.next = bundle.next \/ Earlier(bundle'.next))
        /\ bundle'.status = "confirmed" => bundle.status = "confirmed" \/ Earlier(NumCalls)
    BY <1>1, <1>2, <1>3 DEF Posted, bundleVars
  <2>6. QED  BY <1>1, <1>4, <2>2, <2>4, <2>5, OrderStays
<1>7. Unsplit'
  <2>1. batchPrompt' = batchPrompt  BY DEF Posted, bundleVars
  <2>2. \A v \in Workers : worker'[v].pc \in SplitSteps => worker[v].pc \in SplitSteps
    BY <1>2 DEF Becomes, SplitSteps
  <2>3. ~batchPrompt
    BY <1>1, Begun DEF Active, CallSteps, WatchSteps, SettleSteps, RunSteps, QueueSteps, At,
       Posted
  <2>4. QED  BY <1>1, <2>1, <2>2, <2>3, UnsplitStays
<1>8. QED  BY <1>4, <1>5, <1>6, <1>7 DEF Safe

LEMMA SCancelRead == ASSUME Safe, NEW w \in Workers, NEW i \in Calls, CancelRead(w, i) PROVE Safe'
<1>1. TypeOK /\ Shape /\ Order /\ Unsplit  BY DEF Safe
<1>2. Becomes(w, "cancel", i, worker[w].call, worker[w].poll, worker[w].outcome, worker[w].seen)
  BY <1>1, Fields, SetPcTx DEF CancelRead, WorkerSteps
<1>3. worker[w] = IdleWorker  BY <1>1 DEF Shape, ShapeOf, Idle, CancelRead
<1>4. TypeOK'
  BY <1>1, <1>2, <1>3 DEF TypeOK, ReceiptsTypeOK, bundleVars, receiptFrame, CancelRead, Becomes
<1>5. Shape'
  <2>1. ShapeOf(worker'[w])
    BY <1>2, <1>3 DEF Becomes, IdleWorker, ShapeOf, CallSteps, WatchSteps, SettleSteps, RunSteps,
       QueueSteps, SplitSteps, ObserverSteps
  <2>2. QED  BY <1>1, <1>2, <2>1, ShapeMoves DEF Becomes
<1>6. Order'
  <2>1. OrderOf(worker'[w])
    BY <1>1, <1>2, <1>3, Fields DEF Order, OrderOf, Earlier, Reached, IdleWorker, Becomes,
       CancelRead, Idle
  <2>2. \A v \in Workers : worker'[v] = worker[v] \/ OrderOf(worker'[v])
    BY <1>2, <2>1 DEF Becomes
  <2>3. \A j \in Calls : Reached(j)' => Reached(j) \/ Earlier(j)
    BY <1>1, <1>2, <1>3 DEF Order, OrderOf, Reached, CancelRead, bundleVars, receiptFrame
  <2>4. /\ UNCHANGED <<chain, sent>> /\ (bundle'.next = bundle.next \/ Earlier(bundle'.next))
        /\ bundle'.status = "confirmed" => bundle.status = "confirmed" \/ Earlier(NumCalls)
    BY <1>1, <1>2, <1>3 DEF CancelRead, bundleVars, receiptFrame
  <2>5. QED  BY <1>1, <1>4, <2>2, <2>3, <2>4, OrderStays
<1>7. Unsplit'
  <2>1. batchPrompt' = batchPrompt  BY DEF CancelRead, bundleVars
  <2>2. \A v \in Workers : worker'[v].pc \in SplitSteps => worker[v].pc \in SplitSteps
    BY <1>2 DEF Becomes, SplitSteps
  <2>3. /\ UNCHANGED <<bundle, prompts, sent>>
        /\ \A v \in Workers : Active(v)' => Active(v)
        /\ \A j \in Calls : Open(j)' => Open(j)
    BY <1>1, <1>2, <1>3 DEF Active, Open, CancelRead, Becomes, bundleVars, receiptFrame, Idle,
       UpdateRow, IdleWorker, CallSteps, WatchSteps, SettleSteps, RunSteps, QueueSteps,
       SplitSteps, ObserverSteps
  <2>4. QED  BY <1>1, <2>1, <2>2, <2>3, UnsplitStays
<1>8. QED  BY <1>4, <1>5, <1>6, <1>7 DEF Safe

LEMMA SCancelWrite == ASSUME Safe, NEW w \in Workers, CancelWrite(w) PROVE Safe'
<1>1. TypeOK /\ Shape /\ Order /\ Unsplit  BY DEF Safe
<1>2. Becomes(w, "idle", -1, -1, FALSE, "none", {})
  BY <1>1, Fields, SetIdle DEF CancelWrite, Done, Return
<1>3. worker[w].tx \in Calls
  BY <1>1 DEF Shape, ShapeOf, CancelWrite, At, CallSteps, WatchSteps, SettleSteps, RunSteps
<1>4. TypeOK'
  <2>1. row' \in [Txs -> {"none", "processing", "pending", "success", "failed", "dropped"}]
    BY <1>1, <1>2, <1>3, RowType DEF CancelWrite, Tx
  <2>2. QED
    BY <1>1, <1>2, <1>3, <2>1 DEF TypeOK, ReceiptsTypeOK, bundleVars, Done, Return, Tx, At,
       CancelWrite, Becomes
<1>5. Shape'
  <2>1. ShapeOf(worker'[w])
    BY <1>1, <1>2, <1>3, Fields DEF Shape, ShapeOf, IdleWorker, Becomes, CallSteps, WatchSteps,
       SettleSteps, RunSteps, QueueSteps, SplitSteps, ObserverSteps, Outcomes, CancelWrite, At
  <2>2. QED  BY <1>1, <1>2, <2>1, ShapeMoves DEF Becomes
<1>6. Order'
  <2>1. OrderOf(worker'[w])
    BY <1>1, <1>2, <1>3, Fields DEF Order, OrderOf, Earlier, Reached, IdleWorker, Becomes,
       CancelWrite, At, Tx
  <2>2. \A v \in Workers : worker'[v] = worker[v] \/ OrderOf(worker'[v])
    BY <1>2, <2>1 DEF Becomes
  <2>3. \A j \in Calls : row'[j] # "none" => row[j] # "none"
    BY <1>1, <1>2, <1>3, RowType DEF CancelWrite, Tx
  <2>4. \A j \in Calls : Reached(j)' => Reached(j) \/ Earlier(j)
    BY <1>1, <1>2, <1>3, <2>3 DEF Order, OrderOf, Reached, CancelWrite, bundleVars, Done, Return,
       Tx, At
  <2>5. /\ UNCHANGED <<chain, sent>> /\ (bundle'.next = bundle.next \/ Earlier(bundle'.next))
        /\ bundle'.status = "confirmed" => bundle.status = "confirmed" \/ Earlier(NumCalls)
    BY <1>1, <1>2, <1>3 DEF CancelWrite, bundleVars
  <2>6. QED  BY <1>1, <1>4, <2>2, <2>4, <2>5, OrderStays
<1>7. Unsplit'
  <2>1. batchPrompt' = batchPrompt  BY DEF CancelWrite, bundleVars
  <2>2. \A v \in Workers : worker'[v].pc \in SplitSteps => worker[v].pc \in SplitSteps
    BY <1>2 DEF Becomes, SplitSteps
  <2>3. /\ UNCHANGED <<bundle, prompts, sent>>
        /\ \A v \in Workers : Active(v)' => Active(v)
        /\ \A j \in Calls : Open(j)' => Open(j)
    BY <1>1, <1>2, <1>3 DEF Active, Open, CancelWrite, Becomes, bundleVars, Done, Return, Tx, At,
       UpdateRow, IdleWorker, CallSteps, WatchSteps, SettleSteps, RunSteps, QueueSteps,
       SplitSteps, ObserverSteps
  <2>4. QED  BY <1>1, <2>1, <2>2, <2>3, UnsplitStays
<1>8. QED  BY <1>4, <1>5, <1>6, <1>7 DEF Safe

LEMMA SRpcError ==
  ASSUME Safe, NEW w \in Workers, RpcError(w, IdleWorker), UNCHANGED bundleVars
  PROVE  Safe'
<1>1. TypeOK /\ Shape /\ Order /\ Unsplit  BY DEF Safe
<1>2. Becomes(w, "idle", -1, -1, FALSE, "none", {})
  BY <1>1, Fields, SetIdle DEF RpcError, Return
<1>3. worker[w].tx \in Calls
  BY <1>1 DEF Shape, ShapeOf, RpcError, CallSteps, WatchSteps, SettleSteps, RunSteps
<1>4. TypeOK'
  BY <1>1, <1>2, <1>3 DEF TypeOK, ReceiptsTypeOK, bundleVars, Return, Tx, observeFrame, RpcError,
     Becomes
<1>5. Shape'
  <2>1. ShapeOf(worker'[w])
    BY <1>1, <1>2, <1>3, Fields DEF Shape, ShapeOf, IdleWorker, Becomes, CallSteps, WatchSteps,
       SettleSteps, RunSteps, QueueSteps, SplitSteps, ObserverSteps, Outcomes, RpcError
  <2>2. QED  BY <1>1, <1>2, <2>1, ShapeMoves DEF Becomes
<1>6. Order'
  <2>1. OrderOf(worker'[w])
    BY <1>1, <1>2, <1>3, Fields DEF Order, OrderOf, Earlier, Reached, IdleWorker, Becomes,
       RpcError, Tx
  <2>2. \A v \in Workers : worker'[v] = worker[v] \/ OrderOf(worker'[v])
    BY <1>2, <2>1 DEF Becomes
  <2>3. \A j \in Calls : Reached(j)' => Reached(j) \/ Earlier(j)
    BY <1>1, <1>2, <1>3 DEF Order, OrderOf, Reached, RpcError, bundleVars, Return, Tx,
       observeFrame
  <2>4. /\ UNCHANGED <<chain, sent>> /\ (bundle'.next = bundle.next \/ Earlier(bundle'.next))
        /\ bundle'.status = "confirmed" => bundle.status = "confirmed" \/ Earlier(NumCalls)
    BY <1>1, <1>2, <1>3 DEF RpcError, bundleVars, observeFrame
  <2>5. QED  BY <1>1, <1>4, <2>2, <2>3, <2>4, OrderStays
<1>7. Unsplit'
  <2>1. batchPrompt' = batchPrompt  BY DEF RpcError, bundleVars
  <2>2. \A v \in Workers : worker'[v].pc \in SplitSteps => worker[v].pc \in SplitSteps
    BY <1>2 DEF Becomes, SplitSteps
  <2>3. ~batchPrompt
    BY <1>1, Begun DEF Active, CallSteps, WatchSteps, SettleSteps, RunSteps, QueueSteps, RpcError
  <2>4. QED  BY <1>1, <2>1, <2>2, <2>3, UnsplitStays
<1>8. QED  BY <1>4, <1>5, <1>6, <1>7 DEF Safe

LEMMA SRecordOutcome ==
  ASSUME Safe, NEW w \in Workers, RecordOutcome(w), UNCHANGED bundleVars
  PROVE  Safe'
<1>1. TypeOK /\ Shape /\ Order /\ Unsplit  BY DEF Safe
<1>2. Becomes(w, "advance", worker[w].tx, worker[w].call, worker[w].poll, worker[w].outcome,
              worker[w].seen)
  BY <1>1, Fields, SetPc DEF RecordOutcome, WorkerSteps, ObserverSteps
<1>3. worker[w].tx \in Calls
  BY <1>1 DEF Shape, ShapeOf, RecordOutcome, At, CallSteps, WatchSteps, SettleSteps, RunSteps
<1>4. RowOf(worker[w].outcome) \in {"pending", "success", "failed", "dropped"}
  BY <1>1, Fields DEF RowOf, Outcomes, RecordOutcome, At, Shape, ShapeOf, SettleSteps
<1>5. TypeOK'
  <2>1. row' \in [Txs -> {"none", "processing", "pending", "success", "failed", "dropped"}]
    BY <1>1, <1>2, <1>3, <1>4, RowType DEF RecordOutcome, Tx
  <2>2. QED
    BY <1>1, <1>2, <1>3, <2>1 DEF TypeOK, ReceiptsTypeOK, bundleVars, Tx, At, RecordOutcome,
       Becomes
<1>6. Shape'
  <2>1. ShapeOf(worker'[w])
    BY <1>1, <1>2, <1>3, Fields DEF Shape, ShapeOf, Becomes, CallSteps, WatchSteps, SettleSteps,
       RunSteps, QueueSteps, SplitSteps, ObserverSteps, Outcomes, RecordOutcome, At
  <2>2. QED  BY <1>1, <1>2, <2>1, ShapeMoves DEF Becomes
<1>7. Order'
  <2>1. OrderOf(worker'[w])
    BY <1>1, <1>2, <1>3, Fields DEF Order, OrderOf, Earlier, Reached, Becomes, RecordOutcome, At,
       Tx
  <2>2. \A v \in Workers : worker'[v] = worker[v] \/ OrderOf(worker'[v])
    BY <1>2, <2>1 DEF Becomes
  <2>3. \A j \in Calls : row'[j] # "none" => row[j] # "none"
    BY <1>1, <1>2, <1>3, <1>4, RowType DEF RecordOutcome, Tx
  <2>4. \A j \in Calls : Reached(j)' => Reached(j) \/ Earlier(j)
    BY <1>1, <1>2, <1>3, <2>3 DEF Order, OrderOf, Reached, RecordOutcome, bundleVars, Tx, At
  <2>5. /\ UNCHANGED <<chain, sent>> /\ (bundle'.next = bundle.next \/ Earlier(bundle'.next))
        /\ bundle'.status = "confirmed" => bundle.status = "confirmed" \/ Earlier(NumCalls)
    BY <1>1, <1>2, <1>3 DEF RecordOutcome, bundleVars
  <2>6. QED  BY <1>1, <1>5, <2>2, <2>4, <2>5, OrderStays
<1>8. Unsplit'
  <2>1. batchPrompt' = batchPrompt  BY DEF RecordOutcome, bundleVars
  <2>2. \A v \in Workers : worker'[v].pc \in SplitSteps => worker[v].pc \in SplitSteps
    BY <1>2 DEF Becomes, SplitSteps
  <2>3. ~batchPrompt
    BY <1>1, Begun DEF Active, CallSteps, WatchSteps, SettleSteps, RunSteps, QueueSteps, At,
       RecordOutcome
  <2>4. QED  BY <1>1, <2>1, <2>2, <2>3, UnsplitStays
<1>9. QED  BY <1>5, <1>6, <1>7, <1>8 DEF Safe

LEMMA SPollTick ==
  ASSUME Safe, NEW w \in Workers, NEW i \in Calls, PollTick(w, i), UNCHANGED bundleVars
  PROVE  Safe'
<1>1. TypeOK /\ Shape /\ Order /\ Unsplit  BY DEF Safe
<1>2. Becomes(w, "receipt", i, worker[w].call, TRUE, worker[w].outcome, worker[w].seen)
  BY <1>1, Fields, SetPcTxPoll DEF PollTick, WorkerSteps, ObserverSteps
<1>3. worker[w] = IdleWorker  BY <1>1 DEF Shape, ShapeOf, Idle, PollTick
<1>4. TypeOK'
  BY <1>1, <1>2, <1>3 DEF TypeOK, ReceiptsTypeOK, bundleVars, Tx, StartsBeside, PollTick, Becomes
<1>5. Shape'
  <2>1. ShapeOf(worker'[w])
    BY <1>1, <1>2, <1>3, Fields DEF Shape, ShapeOf, IdleWorker, Becomes, CallSteps, WatchSteps,
       SettleSteps, RunSteps, QueueSteps, SplitSteps, ObserverSteps, Outcomes, PollTick
  <2>2. QED  BY <1>1, <1>2, <2>1, ShapeMoves DEF Becomes
<1>6. Order'
  <2>1. OrderOf(worker'[w])
    BY <1>1, <1>2, <1>3, Fields DEF Order, OrderOf, Earlier, Reached, IdleWorker, Becomes,
       PollTick, Tx, Idle
  <2>2. \A v \in Workers : worker'[v] = worker[v] \/ OrderOf(worker'[v])
    BY <1>2, <2>1 DEF Becomes
  <2>3. \A j \in Calls : Reached(j)' => Reached(j) \/ Earlier(j)
    BY <1>1, <1>2, <1>3 DEF Order, OrderOf, Reached, PollTick, bundleVars, Tx
  <2>4. /\ UNCHANGED <<chain, sent>> /\ (bundle'.next = bundle.next \/ Earlier(bundle'.next))
        /\ bundle'.status = "confirmed" => bundle.status = "confirmed" \/ Earlier(NumCalls)
    BY <1>1, <1>2, <1>3 DEF PollTick, bundleVars
  <2>5. QED  BY <1>1, <1>4, <2>2, <2>3, <2>4, OrderStays
<1>7. Unsplit'
  <2>1. batchPrompt' = batchPrompt  BY DEF PollTick, bundleVars
  <2>2. \A v \in Workers : worker'[v].pc \in SplitSteps => worker[v].pc \in SplitSteps
    BY <1>2 DEF Becomes, SplitSteps
  <2>3. ~batchPrompt  BY <1>1, Begun DEF Open, PollTick
  <2>4. QED  BY <1>1, <2>1, <2>2, <2>3, UnsplitStays
<1>8. QED  BY <1>4, <1>5, <1>6, <1>7 DEF Safe

LEMMA SUiCheck ==
  ASSUME Safe, NEW w \in Workers, NEW i \in Calls, UiCheck(w, i), UNCHANGED bundleVars
  PROVE  Safe'
<1>1. TypeOK /\ Shape /\ Order /\ Unsplit  BY DEF Safe
<1>2. Becomes(w, "receipt", i, worker[w].call, worker[w].poll, worker[w].outcome, worker[w].seen)
  BY <1>1, Fields, SetPcTx DEF UiCheck, WorkerSteps, ObserverSteps
<1>3. worker[w] = IdleWorker  BY <1>1 DEF Shape, ShapeOf, Idle, UiCheck
<1>4. TypeOK'
  BY <1>1, <1>2, <1>3 DEF TypeOK, ReceiptsTypeOK, bundleVars, Tx, StartsBeside, UiCheck, Becomes
<1>5. Shape'
  <2>1. ShapeOf(worker'[w])
    BY <1>1, <1>2, <1>3, Fields DEF Shape, ShapeOf, IdleWorker, Becomes, CallSteps, WatchSteps,
       SettleSteps, RunSteps, QueueSteps, SplitSteps, ObserverSteps, Outcomes, UiCheck
  <2>2. QED  BY <1>1, <1>2, <2>1, ShapeMoves DEF Becomes
<1>6. Order'
  <2>1. OrderOf(worker'[w])
    BY <1>1, <1>2, <1>3, Fields DEF Order, OrderOf, Earlier, Reached, IdleWorker, Becomes,
       UiCheck, Tx, Idle
  <2>2. \A v \in Workers : worker'[v] = worker[v] \/ OrderOf(worker'[v])
    BY <1>2, <2>1 DEF Becomes
  <2>3. \A j \in Calls : Reached(j)' => Reached(j) \/ Earlier(j)
    BY <1>1, <1>2, <1>3 DEF Order, OrderOf, Reached, UiCheck, bundleVars, Tx
  <2>4. /\ UNCHANGED <<chain, sent>> /\ (bundle'.next = bundle.next \/ Earlier(bundle'.next))
        /\ bundle'.status = "confirmed" => bundle.status = "confirmed" \/ Earlier(NumCalls)
    BY <1>1, <1>2, <1>3 DEF UiCheck, bundleVars
  <2>5. QED  BY <1>1, <1>4, <2>2, <2>3, <2>4, OrderStays
<1>7. Unsplit'
  <2>1. batchPrompt' = batchPrompt  BY DEF UiCheck, bundleVars
  <2>2. \A v \in Workers : worker'[v].pc \in SplitSteps => worker[v].pc \in SplitSteps
    BY <1>2 DEF Becomes, SplitSteps
  <2>3. ~batchPrompt  BY <1>1, Begun DEF Open, UiCheck
  <2>4. QED  BY <1>1, <2>1, <2>2, <2>3, UnsplitStays
<1>8. QED  BY <1>4, <1>5, <1>6, <1>7 DEF Safe

LEMMA SPollerExpires ==
  ASSUME Safe, NEW i \in Calls, PollerExpires(i), UNCHANGED bundleVars
  PROVE  Safe'
<1>1. TypeOK /\ Shape /\ Order /\ Unsplit  BY DEF Safe
<1>2. TypeOK'
  <2>1. incidents' \in 0..MaxIncidents  BY <1>1, IncidentType DEF PollerExpires
  <2>2. notFound' \in [Txs -> 0..MissThreshold - 1]
    BY <1>1 DEF TypeOK, ReceiptsTypeOK, PollerExpires
  <2>3. QED  BY <1>1, <2>1, <2>2 DEF TypeOK, ReceiptsTypeOK, bundleVars, Tx, PollerExpires
<1>3. Shape'
  BY <1>1 DEF Shape, ShapeOf, CallSteps, WatchSteps, SettleSteps, RunSteps, QueueSteps,
     SplitSteps, ObserverSteps, PollerExpires
<1>4. Order'
  <2>1. \A v \in Workers : worker'[v] = worker[v]  BY DEF PollerExpires
  <2>2. \A j \in Calls : Reached(j)' => Reached(j) \/ Earlier(j)
    BY <1>1 DEF Order, OrderOf, Reached, PollerExpires, bundleVars, Tx
  <2>3. /\ UNCHANGED <<chain, sent>> /\ (bundle'.next = bundle.next \/ Earlier(bundle'.next))
        /\ bundle'.status = "confirmed" => bundle.status = "confirmed" \/ Earlier(NumCalls)
    BY <1>1 DEF PollerExpires, bundleVars
  <2>4. QED  BY <1>1, <1>2, <2>1, <2>2, <2>3, OrderStays
<1>5. Unsplit'
  <2>1. batchPrompt' = batchPrompt  BY DEF PollerExpires, bundleVars
  <2>2. \A v \in Workers : worker'[v].pc \in SplitSteps => worker[v].pc \in SplitSteps
    BY DEF PollerExpires, SplitSteps
  <2>3. /\ UNCHANGED <<bundle, prompts, sent>>
        /\ \A v \in Workers : Active(v)' => Active(v)
        /\ \A j \in Calls : Open(j)' => Open(j)
    BY <1>1 DEF Active, Open, PollerExpires, Becomes, bundleVars, Tx, UpdateRow, CallSteps,
       WatchSteps, SettleSteps, RunSteps, QueueSteps, SplitSteps, ObserverSteps
  <2>4. QED  BY <1>1, <2>1, <2>2, <2>3, UnsplitStays
<1>6. QED  BY <1>2, <1>3, <1>4, <1>5 DEF Safe

LEMMA SCleanupRead == ASSUME Safe, CleanupRead, UNCHANGED bundleVars PROVE Safe'
<1>1. TypeOK /\ Shape /\ Order /\ Unsplit  BY DEF Safe
<1>2. TypeOK'
  BY <1>1 DEF TypeOK, ReceiptsTypeOK, bundleVars, startupFrame, CleanupRead
<1>3. Shape'
  BY <1>1 DEF Shape, ShapeOf, startupFrame, CallSteps, WatchSteps, SettleSteps, RunSteps,
     QueueSteps, SplitSteps, ObserverSteps, CleanupRead
<1>4. Order'
  <2>1. \A v \in Workers : worker'[v] = worker[v]  BY DEF CleanupRead, startupFrame
  <2>2. \A j \in Calls : Reached(j)' => Reached(j) \/ Earlier(j)
    BY <1>1 DEF Order, OrderOf, Reached, CleanupRead, bundleVars, startupFrame
  <2>3. /\ UNCHANGED <<chain, sent>> /\ (bundle'.next = bundle.next \/ Earlier(bundle'.next))
        /\ bundle'.status = "confirmed" => bundle.status = "confirmed" \/ Earlier(NumCalls)
    BY <1>1 DEF CleanupRead, bundleVars, startupFrame
  <2>4. QED  BY <1>1, <1>2, <2>1, <2>2, <2>3, OrderStays
<1>5. Unsplit'
  <2>1. batchPrompt' = batchPrompt  BY DEF CleanupRead, bundleVars
  <2>2. \A v \in Workers : worker'[v].pc \in SplitSteps => worker[v].pc \in SplitSteps
    BY DEF CleanupRead, SplitSteps, startupFrame
  <2>3. /\ UNCHANGED <<bundle, prompts, sent>>
        /\ \A v \in Workers : Active(v)' => Active(v)
        /\ \A j \in Calls : Open(j)' => Open(j)
    BY <1>1 DEF Active, Open, CleanupRead, Becomes, bundleVars, startupFrame, UpdateRow,
       CallSteps, WatchSteps, SettleSteps, RunSteps, QueueSteps, SplitSteps, ObserverSteps
  <2>4. QED  BY <1>1, <2>1, <2>2, <2>3, UnsplitStays
<1>6. QED  BY <1>2, <1>3, <1>4, <1>5 DEF Safe

LEMMA SCleanupWrite ==
  ASSUME Safe, NEW i \in Calls, CleanupWrite(i), UNCHANGED bundleVars
  PROVE  Safe'
<1>1. TypeOK /\ Shape /\ Order /\ Unsplit  BY DEF Safe
<1>2. TypeOK'
  <2>1. row' \in [Txs -> {"none", "processing", "pending", "success", "failed", "dropped"}]
    BY <1>1, RowType DEF CleanupWrite
  <2>2. QED  BY <1>1, <2>1 DEF TypeOK, ReceiptsTypeOK, bundleVars, startupFrame, CleanupWrite
<1>3. Shape'
  BY <1>1 DEF Shape, ShapeOf, startupFrame, CallSteps, WatchSteps, SettleSteps, RunSteps,
     QueueSteps, SplitSteps, ObserverSteps, CleanupWrite
<1>4. Order'
  <2>1. \A v \in Workers : worker'[v] = worker[v]  BY DEF CleanupWrite, startupFrame
  <2>2. \A j \in Calls : row'[j] # "none" => row[j] # "none"
    BY <1>1, RowType DEF CleanupWrite
  <2>3. \A j \in Calls : Reached(j)' => Reached(j) \/ Earlier(j)
    BY <1>1, <2>2 DEF Order, OrderOf, Reached, CleanupWrite, bundleVars, startupFrame
  <2>4. /\ UNCHANGED <<chain, sent>> /\ (bundle'.next = bundle.next \/ Earlier(bundle'.next))
        /\ bundle'.status = "confirmed" => bundle.status = "confirmed" \/ Earlier(NumCalls)
    BY <1>1 DEF CleanupWrite, bundleVars, startupFrame
  <2>5. QED  BY <1>1, <1>2, <2>1, <2>3, <2>4, OrderStays
<1>5. Unsplit'
  <2>1. batchPrompt' = batchPrompt  BY DEF CleanupWrite, bundleVars
  <2>2. \A v \in Workers : worker'[v].pc \in SplitSteps => worker[v].pc \in SplitSteps
    BY DEF CleanupWrite, SplitSteps, startupFrame
  <2>3. /\ UNCHANGED <<bundle, prompts, sent>>
        /\ \A v \in Workers : Active(v)' => Active(v)
        /\ \A j \in Calls : Open(j)' => Open(j)
    BY <1>1 DEF Active, Open, CleanupWrite, Becomes, bundleVars, startupFrame, UpdateRow,
       CallSteps, WatchSteps, SettleSteps, RunSteps, QueueSteps, SplitSteps, ObserverSteps
  <2>4. QED  BY <1>1, <2>1, <2>2, <2>3, UnsplitStays
<1>6. QED  BY <1>2, <1>3, <1>4, <1>5 DEF Safe

LEMMA SRestart == ASSUME Safe, Restart(IdleWorker), UNCHANGED bundleVars PROVE Safe'
<1>1. TypeOK /\ Shape /\ Order /\ Unsplit  BY DEF Safe
<1>2. TypeOK'
  <2>1. incidents' \in 0..MaxIncidents  BY <1>1, IncidentType DEF Restart
  <2>2. notFound' \in [Txs -> 0..MissThreshold - 1]  BY <1>1 DEF TypeOK, ReceiptsTypeOK, Restart
  <2>3. worker' \in [Workers -> WorkerType]  BY DEF Restart, IdleWorker, WorkerType, WorkerSteps
  <2>4. QED  BY <1>1, <2>1, <2>2, <2>3 DEF TypeOK, ReceiptsTypeOK, bundleVars, Restart
<1>3. Shape'
  BY <1>1 DEF Shape, ShapeOf, IdleWorker, CallSteps, WatchSteps, SettleSteps, RunSteps,
     QueueSteps, SplitSteps, ObserverSteps, Restart
<1>4. Order'
  <2>1. \A v \in Workers : worker'[v] = worker[v] \/ OrderOf(worker'[v])
    BY DEF Restart, IdleWorker, OrderOf
  <2>2. \A j \in Calls : Reached(j)' => Reached(j) \/ Earlier(j)
    BY <1>1 DEF Order, OrderOf, Reached, Restart, bundleVars
  <2>3. /\ UNCHANGED <<chain, sent>> /\ (bundle'.next = bundle.next \/ Earlier(bundle'.next))
        /\ bundle'.status = "confirmed" => bundle.status = "confirmed" \/ Earlier(NumCalls)
    BY <1>1 DEF Restart, bundleVars
  <2>4. QED  BY <1>1, <1>2, <2>1, <2>2, <2>3, OrderStays
<1>5. Unsplit'
  <2>1. batchPrompt' = batchPrompt  BY DEF Restart, bundleVars
  <2>2. \A v \in Workers : worker'[v].pc \in SplitSteps => worker[v].pc \in SplitSteps
    BY DEF Restart, SplitSteps, IdleWorker
  <2>3. /\ UNCHANGED <<bundle, prompts, sent>>
        /\ \A v \in Workers : Active(v)' => Active(v)
        /\ \A j \in Calls : Open(j)' => Open(j)
    BY <1>1 DEF Active, Open, Restart, Becomes, bundleVars, UpdateRow, IdleWorker, CallSteps,
       WatchSteps, SettleSteps, RunSteps, QueueSteps, SplitSteps, ObserverSteps
  <2>4. QED  BY <1>1, <2>1, <2>2, <2>3, UnsplitStays
<1>6. QED  BY <1>2, <1>3, <1>4, <1>5 DEF Safe

-----------------------------------------------------------------------------
(* ... the sequencer                                                         *)

\* A step that moves one worker on and leaves the bundle and the rows alone.
LEMMA SafeMoves ==
  ASSUME Safe, TypeOK', NEW w \in Workers, Active(w), UNCHANGED <<chain, row, bundleVars>>,
         pollers' \subseteq pollers, \A v \in Workers \ {w} : worker'[v] = worker[v],
         ShapeOf(worker'[w]), OrderOf(worker'[w]), worker'[w].pc \notin SplitSteps
  PROVE  Safe'
<1>1. TypeOK /\ Shape /\ Order /\ Unsplit  BY DEF Safe
<1>2. Shape'  BY <1>1, ShapeMoves
<1>3. Order'
  <2>1. \A j \in Calls : Reached(j)' => Reached(j)  BY DEF Reached, bundleVars
  <2>2. UNCHANGED <<chain, sent, bundle>>  BY DEF bundleVars
  <2>3. QED  BY <1>1, <2>1, <2>2, OrderStays
<1>4. Unsplit'
  <2>1. ~batchPrompt /\ batchPrompt' = batchPrompt  BY <1>1, Begun DEF bundleVars
  <2>2. \A v \in Workers : worker'[v].pc \in SplitSteps => worker[v].pc \in SplitSteps
    OBVIOUS
  <2>3. QED  BY <1>1, <2>1, <2>2, UnsplitStays
<1>5. QED  BY <1>1, <1>2, <1>3, <1>4 DEF Safe

\* A call that returns.
LEMMA SafeRetires ==
  ASSUME Safe, TypeOK', NEW w \in Workers, Active(w), UNCHANGED <<chain, row, bundleVars>>,
         Return(w, IdleWorker)
  PROVE  Safe'
<1>1. TypeOK  BY DEF Safe
<1>2. Becomes(w, "idle", -1, -1, FALSE, "none", {})  BY <1>1, SetIdle DEF Return
<1>3. ShapeOf(worker'[w]) /\ OrderOf(worker'[w]) /\ worker'[w].pc \notin SplitSteps
  BY <1>2 DEF Becomes, ShapeOf, OrderOf, IdleWorker, CallSteps, WatchSteps, SettleSteps,
     RunSteps, QueueSteps, SplitSteps
<1>4. pollers' \subseteq pollers  BY DEF Return
<1>5. QED  BY <1>2, <1>3, <1>4, SafeMoves DEF Becomes

LEMMA SEnqueue == ASSUME Safe, NEW w \in Workers, Enqueue(w) PROVE Safe'
<1>1. TypeOK /\ Shape /\ Order /\ Unsplit  BY DEF Safe
<1>2. worker[w].pc = "enqueue" /\ UNCHANGED <<receiptFrame, pollers, incidents, bundleVars>>
  BY DEF Enqueue, At
<1>3. Active(w)  BY <1>2 DEF Active, QueueSteps
<1>4. CASE bundle.next >= NumCalls
  <2>1. Goto(w, "finalizeRead")  BY <1>4 DEF Enqueue, Goto
  <2>2. Becomes(w, "finalizeRead", worker[w].tx, worker[w].call, worker[w].poll,
                worker[w].outcome, worker[w].seen)
    BY <1>1, <2>1, SetPc DEF WorkerSteps
  <2>3. TypeOK'  BY <1>1, <1>2, <2>2 DEF TypeOK, ReceiptsTypeOK, receiptFrame, bundleVars, Becomes
  <2>4. ShapeOf(worker'[w])
    BY <1>1, <1>2, <2>2 DEF Shape, ShapeOf, Becomes, CallSteps, WatchSteps, SettleSteps,
       RunSteps, QueueSteps
  <2>5. Earlier(NumCalls)  BY <1>1, <1>4 DEF Order, TypeOK, BundleType
  <2>6. OrderOf(worker'[w])  BY <1>1, <2>2, <2>5 DEF Order, OrderOf, Becomes
  <2>7. worker'[w].pc \notin SplitSteps  BY <2>2 DEF Becomes, SplitSteps
  <2>8. QED  BY <1>2, <1>3, <2>2, <2>3, <2>4, <2>6, <2>7, SafeMoves DEF Becomes, receiptFrame
<1>5. CASE bundle.next < NumCalls
  <2>1. bundle.next \in Calls  BY <1>1, <1>5 DEF TypeOK, BundleType
  <2>2. Becomes(w, "save", worker[w].tx, bundle.next, worker[w].poll,
                worker[w].outcome, worker[w].seen)
    <3>1. worker' = [worker EXCEPT ![w].pc = "save", ![w].call = bundle.next]
      BY <1>5, <2>1 DEF Enqueue
    <3>2. QED  BY <1>1, <2>1, <3>1, SetPcCall DEF WorkerSteps
  <2>3. TypeOK'  BY <1>1, <1>2, <2>2 DEF TypeOK, ReceiptsTypeOK, receiptFrame, bundleVars, Becomes
  <2>4. ShapeOf(worker'[w])
    BY <1>1, <1>2, <2>1, <2>2 DEF Shape, ShapeOf, Becomes, CallSteps, WatchSteps, SettleSteps,
       RunSteps, QueueSteps
  <2>5. OrderOf(worker'[w])  BY <1>1, <2>2 DEF Order, OrderOf, Becomes
  <2>6. worker'[w].pc \notin SplitSteps  BY <2>2 DEF Becomes, SplitSteps
  <2>7. QED  BY <1>2, <1>3, <2>2, <2>3, <2>4, <2>5, <2>6, SafeMoves DEF Becomes, receiptFrame
<1>6. QED  BY <1>1, <1>4, <1>5 DEF TypeOK, BundleType

LEMMA SFinalizeRead == ASSUME Safe, NEW w \in Workers, FinalizeRead(w) PROVE Safe'
<1>1. TypeOK /\ Shape /\ Order /\ Unsplit  BY DEF Safe
<1>2. worker[w].pc = "finalizeRead" /\ UNCHANGED <<receiptFrame, incidents, bundleVars>>
  BY DEF FinalizeRead, At
<1>3. Active(w)  BY <1>2 DEF Active, QueueSteps
<1>4. CASE bundle.status = "pending"
  <2>1. Goto(w, "finalize") /\ UNCHANGED pollers  BY <1>4 DEF FinalizeRead
  <2>2. Becomes(w, "finalize", worker[w].tx, worker[w].call, worker[w].poll,
                worker[w].outcome, worker[w].seen)
    BY <1>1, <2>1, SetPc DEF WorkerSteps
  <2>3. TypeOK'
    BY <1>1, <1>2, <2>1, <2>2 DEF TypeOK, ReceiptsTypeOK, receiptFrame, bundleVars, Becomes
  <2>4. ShapeOf(worker'[w])
    BY <1>1, <1>2, <2>2 DEF Shape, ShapeOf, Becomes, CallSteps, WatchSteps, SettleSteps,
       RunSteps, QueueSteps
  <2>5. OrderOf(worker'[w])  BY <1>1, <1>2, <2>2 DEF Order, OrderOf, Becomes
  <2>6. worker'[w].pc \notin SplitSteps  BY <2>2 DEF Becomes, SplitSteps
  <2>7. QED  BY <1>2, <1>3, <2>1, <2>2, <2>3, <2>4, <2>5, <2>6, SafeMoves
             DEF Becomes, receiptFrame
<1>5. CASE bundle.status # "pending"
  <2>1. Return(w, IdleWorker)  BY <1>5 DEF FinalizeRead, Done
  <2>2. Becomes(w, "idle", -1, -1, FALSE, "none", {})  BY <1>1, <2>1, SetIdle DEF Return
  <2>3. TypeOK'
    BY <1>1, <1>2, <2>1, <2>2 DEF TypeOK, ReceiptsTypeOK, receiptFrame, bundleVars, Becomes,
       Return
  <2>4. QED  BY <1>2, <1>3, <2>1, <2>3, SafeRetires DEF receiptFrame
<1>6. QED  BY <1>4, <1>5

LEMMA SAdvanceRead == ASSUME Safe, NEW w \in Workers, AdvanceRead(w) PROVE Safe'
<1>1. TypeOK /\ Shape /\ Order /\ Unsplit  BY DEF Safe
<1>2. worker[w].pc = "advance" /\ UNCHANGED <<receiptFrame, incidents, bundleVars>>
  BY DEF AdvanceRead, At
<1>3. Active(w)  BY <1>2 DEF Active, CallSteps, SettleSteps
<1>4. CASE bundle.split /\ bundle.next <= Tx(w)
  <2>1. bundle.hashes \in SUBSET Calls /\ UNCHANGED pollers
    BY <1>1, <1>4 DEF TypeOK, BundleType, AdvanceRead
  <2>2. Becomes(w, "advanceWrite", worker[w].tx, worker[w].call, worker[w].poll,
                worker[w].outcome, bundle.hashes)
    BY <1>1, <1>4, <2>1, SetPcSeen DEF WorkerSteps, AdvanceRead
  <2>3. TypeOK'
    BY <1>1, <1>2, <2>1, <2>2 DEF TypeOK, ReceiptsTypeOK, receiptFrame, bundleVars, Becomes
  <2>4. ShapeOf(worker'[w])
    BY <1>1, <1>2, <2>2 DEF Shape, ShapeOf, Becomes, CallSteps, WatchSteps, SettleSteps,
       RunSteps, QueueSteps
  <2>5. OrderOf(worker'[w])  BY <1>1, <1>2, <2>2 DEF Order, OrderOf, Becomes
  <2>6. worker'[w].pc \notin SplitSteps  BY <2>2 DEF Becomes, SplitSteps
  <2>7. QED  BY <1>2, <1>3, <2>1, <2>2, <2>3, <2>4, <2>5, <2>6, SafeMoves
             DEF Becomes, receiptFrame
<1>5. CASE ~(bundle.split /\ bundle.next <= Tx(w))
  <2>1. Return(w, IdleWorker)  BY <1>5 DEF AdvanceRead, Done
  <2>2. Becomes(w, "idle", -1, -1, FALSE, "none", {})  BY <1>1, <2>1, SetIdle DEF Return
  <2>3. TypeOK'
    BY <1>1, <1>2, <2>1, <2>2 DEF TypeOK, ReceiptsTypeOK, receiptFrame, bundleVars, Becomes,
       Return
  <2>4. QED  BY <1>2, <1>3, <2>1, <2>3, SafeRetires DEF receiptFrame
<1>6. QED  BY <1>4, <1>5

-----------------------------------------------------------------------------
(* ... the receipt checks                                                    *)

LEMMA SFetchReceipt ==
  ASSUME Safe, NEW w \in Workers, FetchReceipt(w), UNCHANGED bundleVars PROVE Safe'
<1>1. TypeOK /\ Shape /\ Order /\ Unsplit  BY DEF Safe
<1>2. /\ worker[w].pc = "receipt" /\ worker[w].tx \in Calls
      /\ UNCHANGED <<observeFrame, uncertain, pollers>>
  BY <1>1 DEF FetchReceipt, At, Shape, ShapeOf, CallSteps, WatchSteps
<1>3. Active(w)  BY <1>2 DEF Active, CallSteps, WatchSteps
<1>4. CASE chain[Tx(w)] \in Mined
  <2>1. PICK outcome : outcome = chain[Tx(w)]  OBVIOUS
  <2>2. outcome \in Outcomes \union {"none"} /\ outcome \in {"success", "reverted"}
    BY <1>4, <2>1 DEF Mined, Outcomes
  <2>3. worker' = [worker EXCEPT ![w].pc = "record", ![w].outcome = outcome]
    BY <1>4, <2>1 DEF FetchReceipt, ReceiptOutcome
  <2>4. Becomes(w, "record", worker[w].tx, worker[w].call, worker[w].poll, outcome, worker[w].seen)
    BY <1>1, <2>2, <2>3, SetPcOutcome DEF WorkerSteps, ObserverSteps
  <2>5. notFound' \in [Txs -> 0..MissThreshold - 1]
    BY <1>1, <1>4 DEF TypeOK, ReceiptsTypeOK, FetchReceipt
  <2>6. TypeOK'
    BY <1>1, <1>2, <2>4, <2>5 DEF TypeOK, ReceiptsTypeOK, observeFrame, bundleVars, Becomes
  <2>7. ShapeOf(worker'[w])
    BY <1>1, <1>2, <2>2, <2>4 DEF Shape, ShapeOf, Becomes, CallSteps, WatchSteps, SettleSteps,
       RunSteps, QueueSteps
  <2>8. OrderOf(worker'[w])  BY <1>1, <1>2, <2>1, <2>4 DEF Order, OrderOf, Becomes, Tx
  <2>9. worker'[w].pc \notin SplitSteps  BY <2>4 DEF Becomes, SplitSteps
  <2>10. QED  BY <1>2, <1>3, <2>4, <2>6, <2>7, <2>8, <2>9, SafeMoves DEF Becomes, observeFrame
<1>5. CASE chain[Tx(w)] \notin Mined
  <2>1. Goto(w, "lookup") /\ UNCHANGED notFound  BY <1>5 DEF FetchReceipt
  <2>2. Becomes(w, "lookup", worker[w].tx, worker[w].call, worker[w].poll,
                worker[w].outcome, worker[w].seen)
    BY <1>1, <2>1, SetPc DEF WorkerSteps, ObserverSteps
  <2>3. TypeOK'
    BY <1>1, <1>2, <2>1, <2>2 DEF TypeOK, ReceiptsTypeOK, observeFrame, bundleVars, Becomes
  <2>4. ShapeOf(worker'[w])
    BY <1>1, <1>2, <2>2 DEF Shape, ShapeOf, Becomes, CallSteps, WatchSteps, SettleSteps,
       RunSteps, QueueSteps
  <2>5. OrderOf(worker'[w])  BY <1>1, <1>2, <2>2 DEF Order, OrderOf, Becomes
  <2>6. worker'[w].pc \notin SplitSteps  BY <2>2 DEF Becomes, SplitSteps
  <2>7. QED  BY <1>2, <1>3, <2>2, <2>3, <2>4, <2>5, <2>6, SafeMoves DEF Becomes, observeFrame
<1>6. QED  BY <1>4, <1>5

LEMMA SLookupTx ==
  ASSUME Safe, NEW w \in Workers, LookupTx(w, IdleWorker), UNCHANGED bundleVars PROVE Safe'
<1>1. TypeOK /\ Shape /\ Order /\ Unsplit  BY DEF Safe
<1>2. /\ worker[w].pc = "lookup" /\ worker[w].tx \in Calls
      /\ UNCHANGED observeFrame
  BY <1>1 DEF LookupTx, At, Shape, ShapeOf, CallSteps, WatchSteps
<1>3. Active(w)  BY <1>2 DEF Active, CallSteps, WatchSteps
<1>4. CASE Return(w, IdleWorker) /\ notFound' = [notFound EXCEPT ![Tx(w)] = 0]
           /\ uncertain' = uncertain \ {Tx(w)}
  <2>1. Becomes(w, "idle", -1, -1, FALSE, "none", {})  BY <1>1, <1>4, SetIdle DEF Return
  <2>2. notFound' \in [Txs -> 0..MissThreshold - 1]
    <3>1. notFound \in [Txs -> 0..MissThreshold - 1]  BY <1>1 DEF TypeOK, ReceiptsTypeOK
    <3>2. QED  BY <1>2, <1>4, <3>1 DEF Tx
  <2>3. TypeOK'
    BY <1>1, <1>2, <1>4, <2>1, <2>2 DEF TypeOK, ReceiptsTypeOK, observeFrame, bundleVars,
       Becomes, Return
  <2>4. QED  BY <1>2, <1>3, <1>4, <2>3, SafeRetires DEF observeFrame
<1>5. CASE Goto(w, "evaluate") /\ UNCHANGED <<uncertain, pollers, notFound>>
  <2>1. Becomes(w, "evaluate", worker[w].tx, worker[w].call, worker[w].poll,
                worker[w].outcome, worker[w].seen)
    BY <1>1, <1>5, SetPc DEF WorkerSteps, ObserverSteps
  <2>2. TypeOK'
    BY <1>1, <1>2, <1>5, <2>1 DEF TypeOK, ReceiptsTypeOK, observeFrame, bundleVars, Becomes
  <2>3. ShapeOf(worker'[w])
    BY <1>1, <1>2, <2>1 DEF Shape, ShapeOf, Becomes, CallSteps, WatchSteps, SettleSteps,
       RunSteps, QueueSteps
  <2>4. OrderOf(worker'[w])  BY <1>1, <1>2, <2>1 DEF Order, OrderOf, Becomes
  <2>5. worker'[w].pc \notin SplitSteps  BY <2>1 DEF Becomes, SplitSteps
  <2>6. QED
    BY <1>2, <1>3, <1>5, <2>1, <2>2, <2>3, <2>4, <2>5, SafeMoves DEF Becomes, observeFrame
<1>6. QED  BY <1>4, <1>5 DEF LookupTx

\* A check of a missing transaction returns, or takes it for dropped.
LEMMA Evaluated ==
  ASSUME TypeOK, NEW w \in Workers, NEW nonceKnown \in BOOLEAN, NEW old \in BOOLEAN,
         worker[w].tx \in Calls, EvaluateMissing(w, nonceKnown, old, IdleWorker)
  PROVE  /\ worker[w].pc = "evaluate" /\ UNCHANGED <<observeFrame, uncertain>>
         /\ notFound' \in [Txs -> 0..MissThreshold - 1]
         /\ Return(w, IdleWorker) \/ Drop(w)
<1>1. worker[w].pc = "evaluate" /\ UNCHANGED <<observeFrame, uncertain>>
  BY DEF EvaluateMissing, At
<1> DEFINE t == Tx(w)  misses == notFound[t] + 1
<1>2. \/ Return(w, IdleWorker) /\ notFound' = [notFound EXCEPT ![t] = 0]
      \/ Return(w, IdleWorker) /\ notFound' = notFound
      \/ /\ Return(w, IdleWorker) /\ notFound' = [notFound EXCEPT ![t] = misses]
         /\ misses < MissThreshold
      \/ Drop(w) /\ notFound' = notFound
      \/ Drop(w) /\ notFound' = [notFound EXCEPT ![t] = 0]
  BY DEF EvaluateMissing, Tolerate
<1>3. t \in Txs /\ notFound \in [Txs -> 0..MissThreshold - 1]  BY DEF Tx, TypeOK, ReceiptsTypeOK
<1>4. misses < MissThreshold => misses \in 0..MissThreshold - 1  BY <1>3
<1>5. notFound' \in [Txs -> 0..MissThreshold - 1]
  <2> HIDE DEF misses, t
  <2>1. CASE notFound' = [notFound EXCEPT ![t] = 0]  BY <1>3, <2>1
  <2>2. CASE notFound' = [notFound EXCEPT ![t] = misses] /\ misses < MissThreshold
    BY <1>3, <1>4, <2>2
  <2>3. QED  BY <1>2, <1>3, <2>1, <2>2
<1>6. QED  BY <1>1, <1>2, <1>5

LEMMA SEvaluateMissing ==
  ASSUME Safe, NEW w \in Workers, NEW nonceKnown \in BOOLEAN, NEW old \in BOOLEAN,
         EvaluateMissing(w, nonceKnown, old, IdleWorker), UNCHANGED bundleVars
  PROVE  Safe'
<1>1. TypeOK /\ Shape /\ Order /\ Unsplit  BY DEF Safe
<1>2. worker[w].tx \in Calls
  BY <1>1 DEF EvaluateMissing, At, Shape, ShapeOf, CallSteps, WatchSteps
<1>3. /\ worker[w].pc = "evaluate" /\ UNCHANGED <<observeFrame, uncertain>>
      /\ notFound' \in [Txs -> 0..MissThreshold - 1]
      /\ Return(w, IdleWorker) \/ Drop(w)
  BY <1>1, <1>2, Evaluated
<1>4. Active(w)  BY <1>3 DEF Active, CallSteps, WatchSteps
<1>5. CASE Return(w, IdleWorker)
  <2>1. Becomes(w, "idle", -1, -1, FALSE, "none", {})  BY <1>1, <1>5, SetIdle DEF Return
  <2>2. TypeOK'
    BY <1>1, <1>3, <1>5, <2>1 DEF TypeOK, ReceiptsTypeOK, observeFrame, bundleVars,
       Becomes, Return
  <2>3. QED  BY <1>3, <1>4, <1>5, <2>2, SafeRetires DEF observeFrame
<1>6. CASE Drop(w)
  <2>1. Becomes(w, "record", worker[w].tx, worker[w].call, worker[w].poll, "dropped",
                worker[w].seen) /\ UNCHANGED pollers
    BY <1>1, <1>6, SetPcOutcome DEF Drop, WorkerSteps, ObserverSteps, Outcomes
  <2>2. TypeOK'
    BY <1>1, <1>3, <2>1 DEF TypeOK, ReceiptsTypeOK, observeFrame, bundleVars, Becomes
  <2>3. ShapeOf(worker'[w])
    BY <1>1, <1>2, <1>3, <2>1 DEF Shape, ShapeOf, Becomes, CallSteps, WatchSteps, SettleSteps,
       RunSteps, QueueSteps
  <2>4. OrderOf(worker'[w])  BY <1>1, <1>3, <2>1 DEF Order, OrderOf, Becomes
  <2>5. worker'[w].pc \notin SplitSteps  BY <2>1 DEF Becomes, SplitSteps
  <2>6. QED  BY <1>3, <1>4, <2>1, <2>2, <2>3, <2>4, <2>5, SafeMoves DEF Becomes, observeFrame
<1>7. QED  BY <1>3, <1>5, <1>6

-----------------------------------------------------------------------------
(* ... the split itself, the network and the broadcast                       *)

LEMMA SSplit == ASSUME Safe, NEW w \in Workers, Split(w) PROVE Safe'
<1>1. TypeOK /\ Shape /\ Order /\ Unsplit  BY DEF Safe
<1>2. Becomes(w, "split", worker[w].tx, worker[w].call, worker[w].poll, worker[w].outcome,
              worker[w].seen)
  BY <1>1, SetPc DEF Split, WorkerSteps
<1>3. worker[w] = IdleWorker  BY <1>1 DEF Shape, ShapeOf, Idle, Split
<1>4. UNCHANGED <<receiptFrame, pollers, incidents, bundleVars>>  BY DEF Split
<1>5. TypeOK'  BY <1>1, <1>2, <1>4 DEF TypeOK, ReceiptsTypeOK, receiptFrame, bundleVars, Becomes
<1>6. Shape'
  <2>1. ShapeOf(worker'[w])
    BY <1>2, <1>3 DEF ShapeOf, IdleWorker, Becomes, CallSteps, WatchSteps, SettleSteps, RunSteps,
       QueueSteps
  <2>2. QED  BY <1>1, <1>2, <2>1, ShapeMoves DEF Becomes
<1>7. Order'
  <2>1. OrderOf(worker'[w])  BY <1>2, <1>3 DEF OrderOf, IdleWorker, Becomes
  <2>2. \A v \in Workers : worker'[v] = worker[v] \/ OrderOf(worker'[v])
    BY <1>2, <2>1 DEF Becomes
  <2>3. \A j \in Calls : Reached(j)' => Reached(j)
    BY <1>4 DEF Reached, bundleVars, receiptFrame
  <2>4. UNCHANGED <<chain, sent, bundle>>  BY <1>4 DEF bundleVars, receiptFrame
  <2>5. QED  BY <1>1, <1>5, <2>2, <2>3, <2>4, OrderStays
<1>8. Unsplit'
  <2>1. batchPrompt /\ \A v \in Workers : worker[v].pc \notin SplitSteps
    BY DEF Split, SplitSteps
  <2>2. /\ bundle' = bundle /\ prompts' = prompts /\ sent' = sent /\ batchPrompt' = batchPrompt
        /\ row' = row /\ pollers' = pollers
    BY <1>4 DEF bundleVars, receiptFrame
  <2>3. \A v, u \in Workers : worker'[v].pc \in SplitSteps /\ worker'[u].pc \in SplitSteps => v = u
    BY <1>2, <2>1 DEF Becomes
  <2>4. \A v \in Workers : ~Active(v)'
    BY <1>1, <1>2, <2>1 DEF Unsplit, Active, Becomes, CallSteps, WatchSteps, SettleSteps,
       RunSteps,
       QueueSteps
  <2>5. \A j \in Calls : sent'[j] = 0 /\ ~Open(j)'  BY <1>1, <2>1, <2>2 DEF Unsplit, Open
  <2>6. QED  BY <1>1, <2>1, <2>2, <2>3, <2>4, <2>5 DEF Unsplit
<1>9. QED  BY <1>5, <1>6, <1>7, <1>8 DEF Safe

LEMMA SSplitStatus == ASSUME Safe, NEW w \in Workers, SplitStatus(w) PROVE Safe'
<1>1. TypeOK /\ Shape /\ Order /\ Unsplit  BY DEF Safe
<1>2. Becomes(w, "splitRemove", worker[w].tx, worker[w].call, worker[w].poll, worker[w].outcome,
              worker[w].seen)
  BY <1>1, SetPc DEF SplitStatus, WorkerSteps
<1>3. /\ worker[w].pc = "split" /\ UNCHANGED <<receiptFrame, pollers, incidents>>
      /\ batchPrompt' = batchPrompt /\ prompts' = prompts /\ sent' = sent
  BY DEF SplitStatus, At
<1>4. batchPrompt  BY <1>1, <1>3 DEF Unsplit, SplitSteps
<1>5. /\ bundle' \in BundleType /\ bundle'.next = 0 /\ bundle'.hashes = {}
      /\ bundle'.status = "pending"
  BY <1>1, <1>4 DEF TypeOK, Unsplit, BundleType, SplitStatus
<1>6. TypeOK'  BY <1>1, <1>2, <1>3, <1>5 DEF TypeOK, ReceiptsTypeOK, receiptFrame, Becomes
<1>7. Shape'
  <2>1. ShapeOf(worker'[w])
    BY <1>1, <1>2, <1>3 DEF Shape, ShapeOf, Becomes, CallSteps, WatchSteps, SettleSteps,
       RunSteps, QueueSteps
  <2>2. QED  BY <1>1, <1>2, <2>1, ShapeMoves DEF Becomes
<1>8. Order'
  <2>1. OrderOf(worker'[w])  BY <1>1, <1>2 DEF Order, OrderOf, Becomes
  <2>2. \A v \in Workers : worker'[v] = worker[v] \/ OrderOf(worker'[v])
    BY <1>2, <2>1 DEF Becomes
  <2>3. \A j \in Calls : Reached(j)' => Reached(j)  BY <1>3 DEF Reached, receiptFrame
  <2>4. UNCHANGED <<chain, sent>> /\ Earlier(bundle'.next)
    BY <1>3, <1>5 DEF Earlier, receiptFrame
  <2>5. QED  BY <1>1, <1>5, <1>6, <2>2, <2>3, <2>4, OrderStays
<1>9. Unsplit'
  <2>1. \A v \in Workers : worker'[v].pc \in SplitSteps => worker[v].pc \in SplitSteps
    BY <1>2, <1>3 DEF Becomes, SplitSteps
  <2>2. \A v \in Workers : ~Active(v)'
    BY <1>1, <1>2, <1>4 DEF Unsplit, Active, Becomes, CallSteps, WatchSteps, SettleSteps,
       RunSteps,
       QueueSteps
  <2>3. \A j \in Calls : sent'[j] = 0 /\ ~Open(j)'
    BY <1>1, <1>3, <1>4 DEF Unsplit, Open, receiptFrame
  <2>4. QED  BY <1>1, <1>3, <1>4, <1>5, <2>1, <2>2, <2>3 DEF Unsplit
<1>10. QED  BY <1>6, <1>7, <1>8, <1>9 DEF Safe

LEMMA SSplitRemove == ASSUME Safe, NEW w \in Workers, SplitRemove(w) PROVE Safe'
<1>1. TypeOK /\ Shape /\ Order /\ Unsplit  BY DEF Safe
<1>2. Becomes(w, "enqueue", worker[w].tx, worker[w].call, worker[w].poll, worker[w].outcome,
              worker[w].seen)
  BY <1>1, SetPc DEF SplitRemove, WorkerSteps
<1>3. /\ worker[w].pc = "splitRemove" /\ UNCHANGED <<receiptFrame, pollers, incidents>>
      /\ batchPrompt' = FALSE /\ bundle' = bundle /\ prompts' = prompts /\ sent' = sent
  BY DEF SplitRemove, At
<1>4. TypeOK'  BY <1>1, <1>2, <1>3 DEF TypeOK, ReceiptsTypeOK, receiptFrame, Becomes
<1>5. Shape'
  <2>1. ShapeOf(worker'[w])
    BY <1>1, <1>2, <1>3 DEF Shape, ShapeOf, Becomes, CallSteps, WatchSteps, SettleSteps,
       RunSteps, QueueSteps
  <2>2. QED  BY <1>1, <1>2, <2>1, ShapeMoves DEF Becomes
<1>6. Order'
  <2>1. OrderOf(worker'[w])  BY <1>1, <1>2 DEF Order, OrderOf, Becomes
  <2>2. \A v \in Workers : worker'[v] = worker[v] \/ OrderOf(worker'[v])
    BY <1>2, <2>1 DEF Becomes
  <2>3. \A j \in Calls : Reached(j)' => Reached(j)  BY <1>3 DEF Reached, receiptFrame
  <2>4. UNCHANGED <<chain, sent, bundle>>  BY <1>3 DEF receiptFrame
  <2>5. QED  BY <1>1, <1>4, <2>2, <2>3, <2>4, OrderStays
<1>7. Unsplit'
  <2>1. \A v \in Workers : worker'[v].pc \notin SplitSteps
    BY <1>1, <1>2, <1>3 DEF Unsplit, Becomes, SplitSteps
  <2>2. QED  BY <1>3, <2>1 DEF Unsplit
<1>8. QED  BY <1>4, <1>5, <1>6, <1>7 DEF Safe

LEMMA SMine == ASSUME Safe, NEW i \in Calls, Mine(i), UNCHANGED bundleVars PROVE Safe'
<1>1. TypeOK /\ Shape /\ Order /\ Unsplit  BY DEF Safe
<1>2. /\ chain[i] = "mempool" /\ row' = row /\ pollers' = pollers /\ worker' = worker
      /\ UNCHANGED <<uncertain, notFound, startup, overlapped, incidents>>
      /\ bundle' = bundle /\ batchPrompt' = batchPrompt /\ prompts' = prompts /\ sent' = sent
  BY DEF Mine, bundleVars
<1>3. PICK s \in Mined \union {"replaced"} : chain' = [chain EXCEPT ![i] = s]  BY DEF Mine
<1>4. chain \in [Txs -> {"unsent", "mempool", "replaced"} \union Mined]
  BY <1>1 DEF TypeOK, ReceiptsTypeOK
<1>5. chain' \in [Txs -> {"unsent", "mempool", "replaced"} \union Mined]  BY <1>3, <1>4
<1>6. TypeOK'  BY <1>1, <1>2, <1>5 DEF TypeOK, ReceiptsTypeOK
<1>7. Shape'  BY <1>1, <1>2 DEF Shape, ShapeOf
<1>8. Order'
  <2>1. Keeps  BY <1>2, <1>3, <1>4 DEF Keeps
  <2>2. Earlier(bundle'.next)  BY <1>1, <1>2 DEF Order
  <2>3. \A j \in Calls : Reached(j)' => Reached(j)  BY <1>2 DEF Reached
  <2>4. \A j \in Calls : sent'[j] = 0 => chain'[j] = "unsent"
    BY <1>1, <1>2, <1>3, <1>4 DEF Order
  <2>5. QED  BY <1>1, <1>2, <1>6, <2>1, <2>2, <2>3, <2>4, OrderGrows
<1>9. Unsplit'  BY <1>1, <1>2 DEF Unsplit, Active, Open
<1>10. QED  BY <1>6, <1>7, <1>8, <1>9 DEF Safe

LEMMA SResumePollers == ASSUME Safe, ResumePollers, UNCHANGED bundleVars PROVE Safe'
<1>1. TypeOK /\ Shape /\ Order /\ Unsplit  BY DEF Safe
<1>2. /\ row' = row /\ worker' = worker /\ UNCHANGED <<chain, uncertain, notFound, incidents>>
      /\ bundle' = bundle /\ batchPrompt' = batchPrompt /\ prompts' = prompts /\ sent' = sent
      /\ startup' = [startup EXCEPT !.resume = FALSE]
      /\ pollers' = pollers \union {t \in Txs : row[t] = "pending"} /\ overlapped' \in BOOLEAN
  BY <1>1 DEF ResumePollers, startupFrame, bundleVars, TypeOK, ReceiptsTypeOK
<1>3. TypeOK'  BY <1>1, <1>2 DEF TypeOK, ReceiptsTypeOK
<1>4. Shape'  BY <1>1, <1>2 DEF Shape, ShapeOf
<1>5. Order'
  <2>1. \A j \in Calls : Reached(j)' => Reached(j)  BY <1>2 DEF Reached
  <2>2. QED  BY <1>1, <1>2, <1>3, <2>1, OrderStays
<1>6. Unsplit'
  <2>1. \A j \in Calls : Open(j)' => Open(j)  BY <1>2 DEF Open
  <2>2. \A v \in Workers : Active(v)' => Active(v)  BY <1>2 DEF Active
  <2>3. QED  BY <1>1, <1>2, <2>1, <2>2, UnsplitStays
<1>7. QED  BY <1>3, <1>4, <1>5, <1>6 DEF Safe

LEMMA SBroadcast == ASSUME Safe, NEW w \in Workers, Broadcast(w) PROVE Safe'
<1>1. TypeOK /\ Shape /\ Order /\ Unsplit  BY DEF Safe
<1>2. /\ worker[w].pc = "broadcast" /\ worker[w].tx \in Calls /\ sent[worker[w].tx] < MaxSends
      /\ UNCHANGED <<row, pollers, notFound, startup, overlapped>>
      /\ bundle' = bundle /\ batchPrompt' = batchPrompt /\ prompts' = prompts
      /\ sent' = [sent EXCEPT ![worker[w].tx] = @ + 1]
  BY <1>1 DEF Broadcast, At, Tx, Shape, ShapeOf, CallSteps, RunSteps
<1>3. PICK i \in Calls : i = worker[w].tx  BY <1>2
<1>4. PICK s \in {"mempool", "unsent"} \union Mined, answered \in BOOLEAN :
        /\ s = "unsent" => ~answered
        /\ chain' = [chain EXCEPT ![i] = IF @ = "success" THEN @ ELSE s]
        /\ uncertain' = IF answered THEN uncertain ELSE uncertain \union {i}
        /\ IF answered THEN UNCHANGED incidents ELSE Incident
        /\ worker' = [worker EXCEPT
                        ![w].pc = IF answered /\ s \in Mined THEN "record" ELSE "posted",
                        ![w].outcome = IF answered /\ s \in Mined THEN s ELSE "none"]
  BY <1>3 DEF Broadcast, Tx
<1> DEFINE pc == IF answered /\ s \in Mined THEN "record" ELSE "posted"
           outcome == IF answered /\ s \in Mined THEN s ELSE "none"
<1>5. pc \in WorkerSteps /\ outcome \in Outcomes \union {"none"}
  BY DEF WorkerSteps, ObserverSteps, Mined, Outcomes
<1>6. Becomes(w, pc, i, worker[w].call, worker[w].poll, outcome, worker[w].seen)
  <2>1. worker' = [worker EXCEPT ![w].pc = pc, ![w].outcome = outcome]  BY <1>4
  <2> HIDE DEF pc, outcome
  <2>2. QED  BY <1>1, <1>3, <1>5, <2>1, SetPcOutcome
<1>7. /\ chain \in [Txs -> {"unsent", "mempool", "replaced"} \union Mined]
      /\ sent \in [Calls -> 0..MaxSends]
  BY <1>1 DEF TypeOK, ReceiptsTypeOK
<1>8. TypeOK'
  <2>1. chain' \in [Txs -> {"unsent", "mempool", "replaced"} \union Mined]  BY <1>4, <1>7
  <2>2. sent' \in [Calls -> 0..MaxSends]  BY <1>2, <1>7
  <2>3. incidents' \in 0..MaxIncidents
    BY <1>1, <1>4, IncidentType DEF TypeOK, ReceiptsTypeOK
  <2>4. uncertain' \subseteq Txs  BY <1>1, <1>4 DEF TypeOK, ReceiptsTypeOK
  <2>5. worker' \in [Workers -> WorkerType]  BY <1>6 DEF Becomes
  <2>6. QED  BY <1>1, <1>2, <2>1, <2>2, <2>3, <2>4, <2>5 DEF TypeOK, ReceiptsTypeOK
<1>9. /\ worker[w].poll = FALSE
      /\ worker'[w].pc \in {"record", "posted"} /\ worker'[w].tx = i
      /\ worker'[w].call = worker[w].call
      /\ worker'[w].poll = worker[w].poll
      /\ worker'[w].pc = "record" => worker'[w].outcome \in Mined
      /\ worker'[w].outcome = "success" => s = "success"
  BY <1>1, <1>2, <1>6, Fields DEF Becomes, Mined, Shape, ShapeOf, WatchSteps, SettleSteps,
     QueueSteps
<1>10. Shape'
  <2>1. ShapeOf(worker'[w])
    BY <1>9 DEF ShapeOf, CallSteps, WatchSteps, SettleSteps, RunSteps, QueueSteps, Mined
  <2>2. QED  BY <1>1, <1>6, <2>1, ShapeMoves DEF Becomes
<1>11. Order'
  <2>1. Keeps  BY <1>4, <1>7 DEF Keeps
  <2>2. Earlier(i) /\ (worker[w].call \in Calls => Earlier(worker[w].call))
    BY <1>1, <1>3 DEF Order, OrderOf
  <2>3. Earlier(i)' /\ (worker[w].call \in Calls => Earlier(worker[w].call)')
    <3>1. PICK c : c = worker[w].call  OBVIOUS
    <3>2. Earlier(i)' /\ (c \in Calls => Earlier(c)')  BY <2>1, <2>2, <3>1, EarlierStays
    <3>3. \A j \in 0..c - 1 : c \in Calls => chain'[j] = "success"  BY <3>2 DEF Earlier
    <3>4. QED  BY <1>9, <3>1, <3>2, <3>3 DEF Earlier
  <2>4. OrderOf(worker[w])'
    <3>1. worker'[w].tx \in Calls => Earlier(worker[w].tx)'  BY <1>9, <2>3 DEF Earlier
    <3>2. worker'[w].call \in Calls => Earlier(worker[w].call)'  BY <1>9, <2>3 DEF Earlier
    <3>3. worker'[w].outcome = "success" => i \in Calls /\ chain'[i] = "success"
      BY <1>4, <1>7, <1>9
    <3>4. QED  BY <1>9, <3>1, <3>2, <3>3 DEF OrderOf
  <2>5. Earlier(bundle'.next)  BY <1>1, <1>2 DEF Order
  <2>6. \A j \in Calls : Reached(j)' => Reached(j) \/ Earlier(j)
    BY <1>2, <1>3, <1>7, <2>2 DEF Reached
  <2>7. \A j \in Calls : sent'[j] = 0 => chain'[j] = "unsent"
    BY <1>1, <1>2, <1>3, <1>4, <1>7 DEF Order
  <2>8. \A v \in Workers : worker'[v] = worker[v] \/ OrderOf(worker[v])'
    BY <1>6, <2>4 DEF Becomes
  <2>9. QED  BY <1>1, <1>2, <1>8, <2>1, <2>5, <2>6, <2>7, <2>8, OrderGrows
<1>12. Unsplit'
  <2>1. ~batchPrompt  BY <1>1, <1>2, Begun DEF Active, CallSteps, RunSteps
  <2>2. \A v \in Workers : worker'[v].pc \in SplitSteps => worker[v].pc \in SplitSteps
    BY <1>6, <1>9 DEF Becomes, SplitSteps
  <2>3. QED  BY <1>1, <1>2, <2>1, <2>2, UnsplitStays
<1>13. QED  BY <1>8, <1>10, <1>11, <1>12 DEF Safe

-----------------------------------------------------------------------------
(* What has to be shown of a step while no two observers overlapped          *)

\* The one worker that carries the sequence on.
LEMMA AloneFacts ==
  ASSUME Alone, NEW w \in Workers, Active(w)
  PROVE  /\ \A v \in Workers \ {w} : ~Active(v)
         /\ AloneOf(worker[w]) /\ PlaceOf(worker[w])
         /\ bundle.status = "pending" /\ bundle.hashes = 0..bundle.next - 1
         /\ \A i, j \in Calls : Open(i) /\ Open(j) => i = j
         /\ \A i \in Calls : sent[i] <= 1 /\ (i > bundle.next => sent[i] = 0)
         /\ \A i \in Calls : Open(i) => i = bundle.next \/ worker[w].pc \in QueueSteps
<1>1. \A v \in Workers \ {w} : ~Active(v)  BY DEF Alone, OneAtATime
<1>2. AloneOf(worker[w]) /\ PlaceOf(worker[w])  BY DEF Alone, OneAtATime, Place
<1>3. bundle.status = "pending" /\ bundle.hashes = 0..bundle.next - 1  BY DEF Alone, Report
<1>4. \A i, j \in Calls : Open(i) /\ Open(j) => i = j  BY DEF Alone, OneAtATime
<1>5. \A i \in Calls : sent[i] <= 1 /\ (i > bundle.next => sent[i] = 0)  BY DEF Alone, Place
<1>6. \A i \in Calls : Open(i) => i = bundle.next \/ worker[w].pc \in QueueSteps
  BY <1>1 DEF Alone, Place, Active
<1>7. QED  BY <1>1, <1>2, <1>3, <1>4, <1>5, <1>6

\* A worker that is not active is subject to none of it.
LEMMA InactiveNext == ASSUME NEW w \in Workers, ~Active(w)' PROVE PlaceOf(worker[w])'
BY DEF Active, PlaceOf, CallSteps, WatchSteps, SettleSteps, RunSteps, QueueSteps

\* A worker carries the sequence on.
LEMMA Proceeds ==
  ASSUME NEW w \in Workers, worker'[w].pc \in CallSteps \union QueueSteps,
         \A v \in Workers \ {w} : ~Active(v)',
         AloneOf(worker[w])', PlaceOf(worker[w])',
         \A i, j \in Calls : Open(i)' /\ Open(j)' => i = j,
         \A i \in Calls : sent'[i] <= 1 /\ (i > bundle'.next => sent'[i] = 0),
         \A i \in Calls : Open(i)' => i = bundle'.next \/ worker'[w].pc \in QueueSteps,
         bundle'.status = "pending", bundle'.hashes = 0..bundle'.next - 1
  PROVE  Alone'
<1>1. prompts' = {}  BY DEF AloneOf
<1>2. OneAtATime'  BY <1>1 DEF OneAtATime
<1>3. \A v \in Workers : PlaceOf(worker[v])'  BY InactiveNext
<1>4. Place'  BY <1>1, <1>3 DEF Place
<1>5. Report'  BY DEF Report
<1>6. QED  BY <1>2, <1>4, <1>5 DEF Alone

\* Nobody carries it on: a prompt or a receipt is awaited, or nothing.
LEMMA Rests ==
  ASSUME \A v \in Workers : ~Active(v)',
         \A i, j \in prompts' : i = j,
         \A i, j \in Calls : Open(i)' /\ Open(j)' => i = j,
         \A i \in Calls : Open(i)' =>
           i = bundle'.next /\ prompts' = {} /\ bundle'.status = "pending",
         \A i \in prompts' : i = bundle'.next /\ sent'[i] = 0,
         \A i \in Calls : sent'[i] <= 1 /\ (i > bundle'.next => sent'[i] = 0),
         bundle'.status = "pending" => bundle'.hashes = 0..bundle'.next - 1,
         bundle'.status # "pending" => prompts' = {},
         bundle'.status = "reverted" => chain'[0] = "reverted",
         bundle'.status = "partialRevert" => chain'[0] = "success",
         bundle'.status = "confirmed" => bundle'.hashes = Calls,
         bundle'.status = "offchainFailure" =>
           \A i \in Calls : i > 0 /\ i >= bundle'.next => sent'[i] = 0
  PROVE  Alone'
<1>1. OneAtATime'  BY DEF OneAtATime
<1>2. Place'  BY InactiveNext DEF Place
<1>3. Report'  BY DEF Report
<1>4. QED  BY <1>1, <1>2, <1>3 DEF Alone

\* A step of somebody else, which at most takes something away.
LEMMA Shrinks ==
  ASSUME Alone, bundle'.next = bundle.next, bundle'.status = bundle.status,
         bundle'.hashes = bundle.hashes, sent' = sent, prompts' \subseteq prompts,
         \A i \in Calls : chain[i] \in Mined => chain'[i] = chain[i],
         \A w \in Workers : worker'[w].pc \in CallSteps \union QueueSteps =>
           /\ worker'[w] = worker[w] /\ pollers' \subseteq pollers
           /\ worker[w].pc \in SettleSteps => worker[w].tx \in Calls
           /\ \A i \in Calls : row'[i] = "pending" => row[i] = "pending",
         \A i \in Calls : Open(i)' =>
           Open(i) /\ (i = bundle.next \/ \E w \in Workers : worker'[w].pc \in QueueSteps)
  PROVE  Alone'
<1>1. \A w \in Workers : Active(w)' => Active(w) /\ worker'[w] = worker[w]  BY DEF Active
<1>2. OneAtATime'
  <2>1. \A w \in Workers : Active(w)' => AloneOf(worker[w])'
    BY <1>1 DEF Alone, OneAtATime, AloneOf, Active
  <2>2. QED  BY <1>1, <2>1 DEF Alone, OneAtATime
<1>3. Place'
  <2>1. \A w \in Workers : Active(w)' => PlaceOf(worker[w])'
    BY <1>1 DEF Alone, Place, PlaceOf, Active, Mined
  <2>2. \A w \in Workers : PlaceOf(worker[w])'  BY <2>1, InactiveNext
  <2>3. QED  BY <2>2 DEF Alone, Place
<1>4. Report'
  <2>1. chain[0] \in Mined => chain'[0] = chain[0]  OBVIOUS
  <2>2. QED  BY <1>1, <2>1 DEF Alone, Report, Mined
<1>5. QED  BY <1>2, <1>3, <1>4 DEF Alone

\* A call that is under way leaves at most its own transaction awaited.
LEMMA WatchesOwn ==
  ASSUME Shape, Alone, NEW w \in Workers, Active(w)
  PROVE  /\ worker[w].pc \in RunSteps => \A i \in Calls : ~Open(i)
         /\ worker[w].pc \in QueueSteps \union {"advance", "advanceWrite"} =>
              \A i \in Calls : Open(i) =>
                i = worker[w].tx /\ worker[w].poll /\ worker[w].outcome # "none"
<1>1. AloneOf(worker[w])  BY DEF Alone, OneAtATime
<1>2. ShapeOf(worker[w])  BY DEF Shape
<1>3. QED  BY <1>1, <1>2 DEF AloneOf, ShapeOf, Open, WatchSteps, SettleSteps, RunSteps, QueueSteps

\* Whoever carries the sequence on while a row is pending is an observer of it.
LEMMA Watched ==
  ASSUME Shape, Alone, NEW t \in Calls, row[t] = "pending", Observers(t) = {}
  PROVE  \A w \in Workers : ~Active(w)
<1> SUFFICES ASSUME NEW w \in Workers, Active(w) PROVE FALSE
  OBVIOUS
<1>1. AloneOf(worker[w]) /\ ShapeOf(worker[w])  BY DEF Alone, OneAtATime, Shape
<1>2. worker[w].tx = t /\ worker[w].pc \in {"receipt", "lookup", "evaluate", "record"}
  BY <1>1 DEF Active, AloneOf, ShapeOf, Open, CallSteps, WatchSteps, SettleSteps, RunSteps,
     QueueSteps
<1>3. w \in Observers(t)  BY <1>2 DEF Observers, Tx, ObserverSteps
<1>4. QED  BY <1>3

\* The worker looks for its transaction, or takes a result to record.
LEMMA Moves ==
  ASSUME Safe, Alone, NEW w \in Workers, Active(w), worker[w].pc \in WatchSteps \union RunSteps,
         \A v \in Workers \ {w} : worker'[v] = worker[v],
         worker'[w].pc \in WatchSteps \union {"record"},
         worker'[w].tx = worker[w].tx, worker'[w].poll = worker[w].poll,
         worker'[w].pc = "record" /\ worker'[w].outcome = "reverted" =>
           chain[worker[w].tx] = "reverted",
         worker'[w].pc = "record" /\ worker'[w].outcome = "rejected" =>
           sent[worker[w].tx] = 0,
         UNCHANGED <<chain, row, sent, prompts, bundle, pollers>>
  PROVE  Alone'
<1>1. /\ \A v \in Workers \ {w} : ~Active(v)'
      /\ \A i \in Calls : Open(i)' <=> Open(i)
  BY AloneFacts DEF Active, Open
<1>2. AloneOf(worker[w]) /\ PlaceOf(worker[w])  BY AloneFacts
<1>3. AloneOf(worker[w])'
  BY <1>1, <1>2 DEF AloneOf, WatchSteps, SettleSteps, RunSteps, QueueSteps
<1>4. PlaceOf(worker[w])'
  BY <1>2 DEF PlaceOf, CallSteps, WatchSteps, SettleSteps, RunSteps, QueueSteps
<1>5. worker'[w].pc \in CallSteps \union QueueSteps  BY DEF CallSteps, SettleSteps
<1>6. \A i \in Calls : Open(i)' => i = bundle'.next
  BY <1>1, AloneFacts DEF WatchSteps, RunSteps, QueueSteps
<1>7. QED  BY <1>1, <1>3, <1>4, <1>5, <1>6, AloneFacts, Proceeds

\* The worker goes on in the sequencer, with the bundle as it is.
LEMMA Queues ==
  ASSUME Safe, Alone, NEW w \in Workers, Active(w),
         worker[w].pc \in QueueSteps \union {"advance"},
         \A v \in Workers \ {w} : worker'[v] = worker[v],
         \/ worker'[w].pc \in QueueSteps /\ worker[w].pc \in QueueSteps
         \/ worker'[w].pc = "advanceWrite" /\ worker[w].pc = "advance",
         worker'[w].tx = worker[w].tx, worker'[w].poll = worker[w].poll,
         PlaceOf(worker[w])', UNCHANGED <<chain, row, sent, prompts, bundle, pollers>>
  PROVE  Alone'
<1>1. /\ \A v \in Workers \ {w} : ~Active(v)'
      /\ \A i \in Calls : Open(i)' <=> Open(i)
  BY AloneFacts DEF Active, Open
<1>2. AloneOf(worker[w])  BY AloneFacts
<1>3. AloneOf(worker[w])'
  BY <1>1, <1>2 DEF AloneOf, WatchSteps, SettleSteps, RunSteps, QueueSteps
<1>4. worker'[w].pc \in CallSteps \union QueueSteps  BY DEF CallSteps, SettleSteps
<1>5. \A i \in Calls : Open(i)' => i = bundle'.next \/ worker'[w].pc \in QueueSteps
  BY <1>1, AloneFacts DEF QueueSteps
<1>6. QED  BY <1>1, <1>3, <1>4, <1>5, AloneFacts, Proceeds

-----------------------------------------------------------------------------
(* No step leaves Alone: the steps of somebody else                          *)

LEMMA AShrinks ==
  ASSUME Safe, Alone, UNCHANGED <<chain, sent, worker, bundle>>,
         row' = row \/ (\E t \in Calls, s \in {"success", "failed"} : UpdateRow(t, s)),
         pollers' \subseteq pollers, prompts' \subseteq prompts
  PROVE  Alone'
<1>1. TypeOK /\ Shape  BY DEF Safe
<1>2. \A i \in Calls : row'[i] = "pending" => row[i] = "pending"  BY <1>1, RowType
<1>3. \A i \in Calls : Open(i)' => Open(i)  BY <1>2 DEF Open
<1>4. \A w \in Workers : worker[w].pc \in SettleSteps => worker[w].tx \in Calls
  BY <1>1 DEF Shape, ShapeOf, CallSteps
<1>5. \A i \in Calls : Open(i) => i = bundle.next \/ \E w \in Workers : worker[w].pc \in QueueSteps
  BY DEF Alone, Place
<1>6. QED  BY <1>2, <1>3, <1>4, <1>5, Shrinks

LEMMA ARevoke == ASSUME Safe, Alone, NEW i \in Calls, Revoke(i) PROVE Alone'
BY AShrinks DEF Revoke, receiptFrame

LEMMA ACleanupRead == ASSUME Safe, Alone, CleanupRead, UNCHANGED bundleVars PROVE Alone'
BY AShrinks DEF CleanupRead, startupFrame, bundleVars

LEMMA ACleanupWrite ==
  ASSUME Safe, Alone, NEW i \in Calls, CleanupWrite(i), UNCHANGED bundleVars PROVE Alone'
BY AShrinks DEF CleanupWrite, startupFrame, bundleVars

LEMMA APollerExpires ==
  ASSUME Safe, Alone, NEW i \in Calls, PollerExpires(i), UNCHANGED bundleVars PROVE Alone'
BY AShrinks DEF PollerExpires, bundleVars

\* A worker that was not active and is not afterwards.
LEMMA ABeside ==
  ASSUME Safe, Alone, NEW w \in Workers, ~Active(w),
         worker'[w].pc \notin CallSteps \union QueueSteps,
         \A v \in Workers \ {w} : worker'[v] = worker[v],
         UNCHANGED <<chain, sent, prompts>>, pollers' \subseteq pollers,
         row' = row \/ (\E t \in Calls, s \in {"success", "failed"} : UpdateRow(t, s)),
         bundle'.next = bundle.next, bundle'.status = bundle.status, bundle'.hashes = bundle.hashes
  PROVE  Alone'
<1>1. TypeOK /\ Shape  BY DEF Safe
<1>2. \A i \in Calls : row'[i] = "pending" => row[i] = "pending"  BY <1>1, RowType
<1>3. \A i \in Calls : Open(i)' => Open(i)  BY <1>2 DEF Open
<1>4. \A v \in Workers : worker[v].pc \in SettleSteps => worker[v].tx \in Calls
  BY <1>1 DEF Shape, ShapeOf, CallSteps
<1>5. \A i \in Calls : Open(i) => i = bundle.next \/ \E v \in Workers : worker'[v].pc \in QueueSteps
  BY DEF Alone, Place, Active
<1>6. \A v \in Workers : worker'[v].pc \in CallSteps \union QueueSteps => worker'[v] = worker[v]
  OBVIOUS
<1>7. QED  BY <1>2, <1>3, <1>4, <1>5, <1>6, Shrinks

LEMMA ASplit == ASSUME Safe, Alone, NEW w \in Workers, Split(w) PROVE Alone'
<1>1. Becomes(w, "split", worker[w].tx, worker[w].call, worker[w].poll, worker[w].outcome,
              worker[w].seen)
  BY SetPc DEF Split, WorkerSteps, Safe
<1>2. ~Active(w)
  BY DEF Split, Idle, Active, CallSteps, WatchSteps, SettleSteps, RunSteps, QueueSteps
<1>3. QED
  BY <1>1, <1>2, ABeside DEF Split, Becomes, CallSteps, WatchSteps, SettleSteps, RunSteps,
     QueueSteps,
     receiptFrame, bundleVars

LEMMA ASplitStatus == ASSUME Safe, Alone, NEW w \in Workers, SplitStatus(w) PROVE Alone'
<1>1. Becomes(w, "splitRemove", worker[w].tx, worker[w].call, worker[w].poll, worker[w].outcome,
              worker[w].seen)
  BY SetPc DEF SplitStatus, WorkerSteps, Safe
<1>2. ~Active(w)
  BY DEF SplitStatus, At, Active, CallSteps, WatchSteps, SettleSteps, RunSteps, QueueSteps
<1>3. batchPrompt  BY DEF SplitStatus, At, Safe, Unsplit, SplitSteps
<1>4. bundle'.next = bundle.next /\ bundle'.status = bundle.status /\ bundle'.hashes = bundle.hashes
  BY <1>3 DEF SplitStatus, Safe, TypeOK, Unsplit, BundleType
<1>5. QED
  BY <1>1, <1>2, <1>4, ABeside DEF SplitStatus, Becomes, CallSteps, WatchSteps, SettleSteps,
     RunSteps,
     QueueSteps, receiptFrame

LEMMA ACancelRead ==
  ASSUME Safe, Alone, NEW w \in Workers, NEW i \in Calls, CancelRead(w, i)
  PROVE  Alone'
<1>1. Becomes(w, "cancel", i, worker[w].call, worker[w].poll, worker[w].outcome, worker[w].seen)
  BY SetPcTx DEF CancelRead, WorkerSteps, Safe
<1>2. ~Active(w)
  BY DEF CancelRead, Idle, Active, CallSteps, WatchSteps, SettleSteps, RunSteps, QueueSteps
<1>3. QED
  BY <1>1, <1>2, ABeside DEF CancelRead, Becomes, CallSteps, WatchSteps, SettleSteps, RunSteps,
     QueueSteps, receiptFrame, bundleVars

LEMMA ACancelWrite == ASSUME Safe, Alone, NEW w \in Workers, CancelWrite(w) PROVE Alone'
<1>1. Becomes(w, "idle", -1, -1, FALSE, "none", {})
  BY SetIdle DEF CancelWrite, Done, Return, Safe
<1>2. ~Active(w)
  BY DEF CancelWrite, At, Active, CallSteps, WatchSteps, SettleSteps, RunSteps, QueueSteps
<1>3. worker[w].tx \in Calls /\ UpdateRow(worker[w].tx, "failed")
  BY DEF CancelWrite, At, Tx, Safe, Shape, ShapeOf
<1>4. QED
  BY <1>1, <1>2, <1>3, ABeside DEF CancelWrite, Done, Return, Becomes, CallSteps, WatchSteps,
     SettleSteps,
     RunSteps, QueueSteps, bundleVars

LEMMA AMine == ASSUME Safe, Alone, NEW i \in Calls, Mine(i), UNCHANGED bundleVars PROVE Alone'
<1>1. TypeOK /\ Shape  BY DEF Safe
<1>2. \A j \in Calls : chain[j] \in Mined => chain'[j] = chain[j]
  BY <1>1 DEF Mine, TypeOK, ReceiptsTypeOK, Mined
<1>3. \A w \in Workers : worker[w].pc \in SettleSteps => worker[w].tx \in Calls
  BY <1>1 DEF Shape, ShapeOf, CallSteps
<1>4. \A j \in Calls : Open(j) => j = bundle.next \/ \E w \in Workers : worker[w].pc \in QueueSteps
  BY DEF Alone, Place
<1>5. \A j \in Calls : Open(j)' => Open(j)  BY DEF Open, Mine
<1>6. QED  BY <1>2, <1>3, <1>4, <1>5, Shrinks DEF Mine, bundleVars

LEMMA ARestart == ASSUME Safe, Alone, Restart(IdleWorker), UNCHANGED bundleVars PROVE Alone'
<1>1. TypeOK /\ Shape  BY DEF Safe
<1>2. \A w \in Workers : worker'[w].pc \notin CallSteps \union QueueSteps
  BY DEF Restart, IdleWorker, CallSteps, WatchSteps, SettleSteps, RunSteps, QueueSteps
<1>3. \A i \in Calls : Open(i)' => row[i] = "pending"  BY DEF Open, Restart
<1>4. \A i \in Calls : row[i] = "pending" => Open(i) /\ i = bundle.next
  <2> SUFFICES ASSUME NEW i \in Calls, row[i] = "pending" PROVE i = bundle.next
    BY DEF Open
  <2>1. \A w \in Workers : worker[w].pc \notin QueueSteps
    BY DEF Alone, OneAtATime, AloneOf, Active
  <2>2. QED  BY <2>1 DEF Alone, Place, Open
<1>5. QED  BY <1>2, <1>3, <1>4, Shrinks DEF Restart, bundleVars

LEMMA AResumePollers ==
  ASSUME Safe, Alone, ~overlapped', ResumePollers, UNCHANGED bundleVars PROVE Alone'
<1>1. TypeOK /\ Shape  BY DEF Safe
<1>2. CASE \A t \in Calls : row[t] # "pending"
  <2>1. pollers' = pollers  BY <1>2 DEF ResumePollers
  <2>2. QED  BY <2>1, AShrinks DEF ResumePollers, startupFrame, bundleVars
<1>3. CASE \E t \in Calls : row[t] = "pending"
  <2>1. PICK t \in Calls : row[t] = "pending"  BY <1>3
  <2>2. Observers(t) = {}  BY <2>1 DEF ResumePollers
  <2>3. \A w \in Workers : ~Active(w)  BY <1>1, <2>1, <2>2, Watched
  <2>4. \A i \in Calls : Open(i)' => Open(i)  BY DEF Open, ResumePollers
  <2>5. \A i \in Calls : Open(i) => i = bundle.next  BY <2>3 DEF Alone, Place, Active
  <2>6. QED
    BY <2>3, <2>4, <2>5, Shrinks DEF ResumePollers, startupFrame, bundleVars, Active
<1>4. QED  BY <1>2, <1>3

-----------------------------------------------------------------------------
(* ... the receipt checks                                                    *)

\* A call that returns without an outcome to report.
LEMMA ARetires ==
  ASSUME Safe, Alone, NEW w \in Workers, Active(w), Return(w, IdleWorker),
         UNCHANGED <<chain, row, sent, prompts, bundle>>
  PROVE  Alone'
<1>1. TypeOK /\ Shape  BY DEF Safe
<1>2. Becomes(w, "idle", -1, -1, FALSE, "none", {})  BY <1>1, SetIdle DEF Return
<1>3. worker'[w].pc \notin CallSteps \union QueueSteps
  BY <1>2 DEF Becomes, CallSteps, WatchSteps, SettleSteps, RunSteps, QueueSteps
<1>4. \A v \in Workers : ~Active(v)'  BY <1>2, <1>3, AloneFacts DEF Becomes, Active
<1>5. \A i \in Calls : Open(i)' => Open(i)  BY DEF Open, Return
<1>6. worker[w].pc \in QueueSteps => \A i \in Calls : ~Open(i)'
  <2> SUFFICES ASSUME worker[w].pc \in QueueSteps, NEW i \in Calls PROVE ~Open(i)'
    OBVIOUS
  <2>1. row[i] # "pending"  BY AloneFacts DEF AloneOf
  <2>2. Open(i) => i = worker[w].tx /\ worker[w].poll /\ worker[w].outcome # "none"
    BY <1>1, WatchesOwn
  <2>3. QED  BY <2>1, <2>2 DEF Open, Return, Tx
<1>7. \A i \in Calls : Open(i)' => i = bundle.next  BY <1>5, <1>6, AloneFacts
<1>8. prompts = {} /\ bundle.status = "pending"  BY AloneFacts DEF AloneOf
<1>9. QED  BY <1>3, <1>4, <1>5, <1>7, <1>8, Shrinks DEF Active

LEMMA ASaveRefused == ASSUME Safe, Alone, NEW w \in Workers, SaveRefused(w) PROVE Alone'
BY ARetires DEF SaveRefused, At, Active, QueueSteps, Done, receiptFrame, bundleVars

LEMMA ALookupTx ==
  ASSUME Safe, Alone, NEW w \in Workers, LookupTx(w, IdleWorker), UNCHANGED bundleVars PROVE Alone'
<1>1. Active(w) /\ worker[w].pc = "lookup"  BY DEF LookupTx, At, Active, CallSteps, WatchSteps
<1>2. UNCHANGED <<chain, row, sent, prompts, bundle>>  BY DEF LookupTx, observeFrame, bundleVars
<1>3. CASE Return(w, IdleWorker)  BY <1>1, <1>2, <1>3, ARetires
<1>4. CASE Goto(w, "evaluate") /\ UNCHANGED pollers
  <2>1. Becomes(w, "evaluate", worker[w].tx, worker[w].call, worker[w].poll, worker[w].outcome,
                worker[w].seen)
    BY <1>4, SetPc DEF Safe, WorkerSteps, ObserverSteps
  <2>2. QED  BY <1>1, <1>2, <1>4, <2>1, Moves DEF Becomes, WatchSteps
<1>5. QED  BY <1>3, <1>4 DEF LookupTx

LEMMA ARpcError ==
  ASSUME Safe, Alone, NEW w \in Workers, RpcError(w, IdleWorker), UNCHANGED bundleVars PROVE Alone'
BY ARetires DEF RpcError, Active, CallSteps, WatchSteps, observeFrame, bundleVars

LEMMA AEvaluateMissing ==
  ASSUME Safe, Alone, NEW w \in Workers, NEW nonceKnown \in BOOLEAN, NEW old \in BOOLEAN,
         EvaluateMissing(w, nonceKnown, old, IdleWorker), UNCHANGED bundleVars
  PROVE  Alone'
<1>1. TypeOK /\ Shape  BY DEF Safe
<1>2. worker[w].tx \in Calls
  BY <1>1 DEF EvaluateMissing, At, Shape, ShapeOf, CallSteps, WatchSteps
<1>3. worker[w].pc = "evaluate" /\ UNCHANGED observeFrame /\ (Return(w, IdleWorker) \/ Drop(w))
  BY <1>1, <1>2, Evaluated
<1>4. Active(w)  BY <1>3 DEF Active, CallSteps, WatchSteps
<1>5. UNCHANGED <<chain, row, sent, prompts, bundle>>  BY <1>3 DEF observeFrame, bundleVars
<1>6. CASE Return(w, IdleWorker)  BY <1>4, <1>5, <1>6, ARetires
<1>7. CASE Drop(w)
  <2>1. /\ Becomes(w, "record", worker[w].tx, worker[w].call, worker[w].poll, "dropped",
                   worker[w].seen)
        /\ UNCHANGED pollers
    BY <1>1, <1>7, SetPcOutcome DEF Drop, WorkerSteps, ObserverSteps, Outcomes
  <2>2. QED  BY <1>3, <1>4, <1>5, <2>1, Moves DEF Becomes, WatchSteps
<1>8. QED  BY <1>3, <1>6, <1>7

LEMMA AFetchReceipt ==
  ASSUME Safe, Alone, NEW w \in Workers, FetchReceipt(w), UNCHANGED bundleVars PROVE Alone'
<1>1. TypeOK /\ Shape  BY DEF Safe
<1>2. worker[w].pc = "receipt" /\ worker[w].tx \in Calls
  BY <1>1 DEF FetchReceipt, At, Shape, ShapeOf, CallSteps, WatchSteps
<1>3. Active(w)  BY <1>2 DEF Active, CallSteps, WatchSteps
<1>4. UNCHANGED <<chain, row, sent, prompts, bundle, pollers>>
  BY DEF FetchReceipt, observeFrame, bundleVars
<1>5. CASE chain[Tx(w)] \in Mined
  <2>1. PICK outcome : outcome = chain[worker[w].tx]  OBVIOUS
  <2>2. outcome \in Outcomes \union {"none"} /\ outcome # "rejected"
    BY <1>5, <2>1 DEF Mined, Outcomes, Tx
  <2>3. worker' = [worker EXCEPT ![w].pc = "record", ![w].outcome = outcome]
    BY <1>5, <2>1 DEF FetchReceipt, ReceiptOutcome, Tx
  <2>4. Becomes(w, "record", worker[w].tx, worker[w].call, worker[w].poll, outcome, worker[w].seen)
    BY <1>1, <2>2, <2>3, SetPcOutcome DEF WorkerSteps, ObserverSteps
  <2>5. QED  BY <1>2, <1>3, <1>4, <2>1, <2>2, <2>4, Moves DEF Becomes, WatchSteps
<1>6. CASE chain[Tx(w)] \notin Mined
  <2>1. Goto(w, "lookup")  BY <1>6 DEF FetchReceipt
  <2>2. Becomes(w, "lookup", worker[w].tx, worker[w].call, worker[w].poll, worker[w].outcome,
                worker[w].seen)
    BY <1>1, <2>1, SetPc DEF WorkerSteps, ObserverSteps
  <2>3. QED  BY <1>2, <1>3, <1>4, <2>2, Moves DEF Becomes, WatchSteps
<1>7. QED  BY <1>5, <1>6

LEMMA AFailBeforeSend == ASSUME Safe, Alone, NEW w \in Workers, FailBeforeSend(w) PROVE Alone'
<1>1. Becomes(w, "record", worker[w].tx, worker[w].call, worker[w].poll, "rejected", worker[w].seen)
  BY SetPcOutcome DEF Safe, FailBeforeSend, WorkerSteps, ObserverSteps, Outcomes
<1>2. Active(w) /\ worker[w].pc \in RunSteps
  BY DEF FailBeforeSend, At, Active, CallSteps, RunSteps
<1>3. UNCHANGED <<chain, row, sent, prompts, bundle, pollers>>
  BY DEF FailBeforeSend, receiptFrame, bundleVars
<1>4. sent[worker[w].tx] = 0  BY <1>2, AloneFacts DEF PlaceOf, FailBeforeSend, At
<1>5. QED  BY <1>1, <1>2, <1>3, <1>4, Moves DEF Becomes

-----------------------------------------------------------------------------
(* ... the sequencer                                                         *)

\* What is left when a call in one of the queueing steps, or at the end of the
\* sequencer's update, returns: its own transaction is not awaited any more.
LEMMA NothingAwaited ==
  ASSUME Shape, Alone, NEW w \in Workers,
         worker[w].pc \in QueueSteps \union {"advance", "advanceWrite"},
         Return(w, IdleWorker), row' = row
  PROVE  \A i \in Calls : ~Open(i)'
<1> SUFFICES ASSUME NEW i \in Calls PROVE ~Open(i)'
  OBVIOUS
<1>1. Active(w)  BY DEF Active, CallSteps, SettleSteps
<1>2. row[i] # "pending"  BY <1>1, AloneFacts DEF AloneOf
<1>3. Open(i) => i = worker[w].tx /\ worker[w].poll /\ worker[w].outcome # "none"
  BY <1>1, WatchesOwn
<1>4. QED  BY <1>2, <1>3 DEF Open, Return, Tx

LEMMA ASave == ASSUME Safe, Alone, NEW w \in Workers, Save(w) PROVE Alone'
<1>1. TypeOK /\ Shape  BY DEF Safe
<1>2. worker[w].pc = "save" /\ Active(w)  BY DEF Save, At, Active, QueueSteps
<1>3. Becomes(w, "idle", -1, -1, FALSE, "none", {})  BY <1>1, SetIdle DEF Save, Done, Return
<1>4. /\ chain' = chain /\ row' = row /\ sent' = sent /\ bundle' = bundle
      /\ prompts' = prompts \union {worker[w].call} /\ Return(w, IdleWorker)
  BY DEF Save, receiptFrame, Done
<1>5. \A v \in Workers : ~Active(v)'
  BY <1>2, <1>3, AloneFacts DEF Becomes, Active, CallSteps, WatchSteps, SettleSteps, RunSteps,
     QueueSteps
<1>6. \A i \in Calls : ~Open(i)'  BY <1>1, <1>2, <1>4, NothingAwaited DEF QueueSteps
<1>7. prompts' = {bundle.next} /\ sent'[bundle.next] = 0
  BY <1>2, <1>4, AloneFacts DEF AloneOf, PlaceOf
<1>8. QED  BY <1>2, <1>4, <1>5, <1>6, <1>7, AloneFacts, Rests

LEMMA AFinalizeRead == ASSUME Safe, Alone, NEW w \in Workers, FinalizeRead(w) PROVE Alone'
<1>1. worker[w].pc = "finalizeRead" /\ Active(w)  BY DEF FinalizeRead, At, Active, QueueSteps
<1>2. Goto(w, "finalize") /\ pollers' = pollers  BY <1>1, AloneFacts DEF FinalizeRead
<1>3. Becomes(w, "finalize", worker[w].tx, worker[w].call, worker[w].poll, worker[w].outcome,
              worker[w].seen)
  BY <1>2, SetPc DEF Safe, WorkerSteps
<1>4. UNCHANGED <<chain, row, sent, prompts, bundle, pollers>>
  BY <1>2 DEF FinalizeRead, receiptFrame, bundleVars
<1>5. PlaceOf(worker[w])'
  BY <1>1, <1>3, <1>4, AloneFacts DEF PlaceOf, Becomes, CallSteps, WatchSteps, SettleSteps,
     RunSteps,
     QueueSteps
<1>6. QED  BY <1>1, <1>3, <1>4, <1>5, Queues DEF Becomes, QueueSteps

LEMMA AEnqueue == ASSUME Safe, Alone, NEW w \in Workers, Enqueue(w) PROVE Alone'
<1>1. worker[w].pc = "enqueue" /\ Active(w) /\ bundle.next \in 0..NumCalls
  BY DEF Enqueue, At, Active, QueueSteps, Safe, TypeOK, BundleType
<1>2. UNCHANGED <<chain, row, sent, prompts, bundle, pollers>>
  BY DEF Enqueue, receiptFrame, bundleVars
<1>3. CASE bundle.next >= NumCalls
  <2>1. Goto(w, "finalizeRead")  BY <1>3 DEF Enqueue, Goto
  <2>2. Becomes(w, "finalizeRead", worker[w].tx, worker[w].call, worker[w].poll, worker[w].outcome,
                worker[w].seen)
    BY <2>1, SetPc DEF Safe, WorkerSteps
  <2>3. PlaceOf(worker[w])'
    BY <1>1, <1>2, <1>3, <2>2 DEF PlaceOf, Becomes, CallSteps, WatchSteps, SettleSteps, RunSteps,
       QueueSteps
  <2>4. QED  BY <1>1, <1>2, <2>2, <2>3, Queues DEF Becomes, QueueSteps
<1>4. CASE bundle.next < NumCalls
  <2>1. bundle.next \in Calls  BY <1>1, <1>4
  <2>2. worker' = [worker EXCEPT ![w].pc = "save", ![w].call = bundle.next]
    BY <1>4, <2>1 DEF Enqueue
  <2>3. Becomes(w, "save", worker[w].tx, bundle.next, worker[w].poll, worker[w].outcome,
                worker[w].seen)
    BY <2>1, <2>2, SetPcCall DEF Safe, WorkerSteps
  <2>4. sent[bundle.next] = 0  BY <1>1, <1>4, AloneFacts DEF PlaceOf
  <2>5. PlaceOf(worker[w])'
    BY <1>1, <1>2, <2>3, <2>4 DEF PlaceOf, Becomes, CallSteps, WatchSteps, SettleSteps, RunSteps,
       QueueSteps
  <2>6. QED  BY <1>1, <1>2, <2>3, <2>5, Queues DEF Becomes, QueueSteps
<1>5. QED  BY <1>1, <1>3, <1>4

LEMMA AAdvanceRead == ASSUME Safe, Alone, NEW w \in Workers, AdvanceRead(w) PROVE Alone'
<1>1. worker[w].pc = "advance" /\ Active(w)
  BY DEF AdvanceRead, At, Active, CallSteps, SettleSteps
<1>2. UNCHANGED <<chain, row, sent, prompts, bundle>>
  BY DEF AdvanceRead, receiptFrame, bundleVars
<1>3. CASE bundle.split /\ bundle.next <= Tx(w)
  <2>1. bundle.hashes \in SUBSET Calls /\ pollers' = pollers
    BY <1>3 DEF Safe, TypeOK, BundleType, AdvanceRead
  <2>2. Becomes(w, "advanceWrite", worker[w].tx, worker[w].call, worker[w].poll,
                worker[w].outcome, bundle.hashes)
    BY <1>3, <2>1, SetPcSeen DEF Safe, WorkerSteps, AdvanceRead
  <2>3. PlaceOf(worker[w])'
    BY <1>1, <1>2, <2>2, AloneFacts DEF PlaceOf, Becomes, CallSteps, WatchSteps, SettleSteps,
       RunSteps,
       QueueSteps
  <2>4. QED  BY <1>1, <1>2, <2>1, <2>2, <2>3, Queues DEF Becomes
<1>4. CASE ~(bundle.split /\ bundle.next <= Tx(w))
  <2>1. Return(w, IdleWorker)  BY <1>4 DEF AdvanceRead, Done
  <2>2. QED  BY <1>1, <1>2, <2>1, ARetires
<1>5. QED  BY <1>3, <1>4

LEMMA AFinalize == ASSUME Safe, Alone, NEW w \in Workers, Finalize(w) PROVE Alone'
<1>1. TypeOK /\ Shape  BY DEF Safe
<1>2. worker[w].pc = "finalize" /\ Active(w)  BY DEF Finalize, At, Active, QueueSteps
<1>3. Becomes(w, "idle", -1, -1, FALSE, "none", {})  BY <1>1, SetIdle DEF Finalize, Done, Return
<1>4. /\ chain' = chain /\ row' = row /\ sent' = sent /\ prompts' = prompts /\ Return(w, IdleWorker)
      /\ bundle'.status = "confirmed" /\ bundle'.next = bundle.next
      /\ bundle'.hashes = bundle.hashes
  BY <1>1 DEF Finalize, receiptFrame, Done, TypeOK, BundleType
<1>5. \A v \in Workers : ~Active(v)'
  BY <1>2, <1>3, AloneFacts DEF Becomes, Active, CallSteps, WatchSteps, SettleSteps, RunSteps,
     QueueSteps
<1>6. \A i \in Calls : ~Open(i)'  BY <1>1, <1>2, <1>4, NothingAwaited DEF QueueSteps
<1>7. prompts = {} /\ bundle.next = NumCalls  BY <1>2, AloneFacts DEF AloneOf, PlaceOf
<1>8. bundle.hashes = Calls  BY <1>2, <1>7, AloneFacts
<1>9. QED  BY <1>2, <1>4, <1>5, <1>6, <1>7, <1>8, AloneFacts, Rests

LEMMA AAdvanceFailure == ASSUME Safe, Alone, NEW w \in Workers, AdvanceFailure(w) PROVE Alone'
<1>1. TypeOK /\ Shape /\ Order  BY DEF Safe
<1>2. /\ worker[w].pc = "advanceWrite" /\ Active(w) /\ worker[w].outcome # "success"
      /\ worker[w].outcome # "none" /\ worker[w].outcome \in Outcomes \union {"none"}
  BY <1>1, Fields DEF AdvanceFailure, At, Active, CallSteps, SettleSteps, Shape, ShapeOf
<1>3. Becomes(w, "idle", -1, -1, FALSE, "none", {})
  BY <1>1, SetIdle DEF AdvanceFailure, Done, Return
<1>4. /\ chain' = chain /\ row' = row /\ sent' = sent /\ prompts' = prompts /\ Return(w, IdleWorker)
      /\ bundle'.status = FinalStatus(worker[w].outcome, worker[w].seen # {})
      /\ bundle'.next = bundle.next
  BY <1>1 DEF AdvanceFailure, receiptFrame, Done, TypeOK, BundleType
<1>5. \A v \in Workers : ~Active(v)'
  BY <1>2, <1>3, AloneFacts DEF Becomes, Active, CallSteps, WatchSteps, SettleSteps, RunSteps,
     QueueSteps
<1>6. \A i \in Calls : ~Open(i)'  BY <1>1, <1>2, <1>4, NothingAwaited
<1>7. /\ prompts = {} /\ worker[w].tx = bundle.next /\ worker[w].seen = 0..bundle.next - 1
      /\ worker[w].outcome = "reverted" => chain[worker[w].tx] = "reverted"
  BY <1>2, AloneFacts DEF AloneOf, PlaceOf, CallSteps, SettleSteps
<1>8. bundle.next \in 0..NumCalls /\ Earlier(bundle.next)  BY <1>1 DEF TypeOK, BundleType, Order
<1>9. bundle'.status \in {"offchainFailure", "partialRevert", "reverted"}
  BY <1>2, <1>4 DEF FinalStatus, Outcomes
<1>10. ASSUME bundle'.status = "reverted" PROVE chain'[0] = "reverted"
  <2>1. worker[w].outcome = "reverted" /\ worker[w].seen = {}
    BY <1>2, <1>4, <1>10 DEF FinalStatus, Outcomes
  <2>2. bundle.next = 0
    <3>1. bundle.next > 0 => 0 \in 0..bundle.next - 1  BY <1>8
    <3>2. 0..bundle.next - 1 = {}  BY <1>7, <2>1
    <3>3. ~(bundle.next > 0)  BY <3>1, <3>2
    <3>4. QED  BY <1>8, <3>3
  <2>3. QED  BY <1>4, <1>7, <2>1, <2>2
<1>11. ASSUME bundle'.status = "partialRevert" PROVE chain'[0] = "success"
  <2>1. worker[w].seen # {}  BY <1>4, <1>11 DEF FinalStatus
  <2>2. bundle.next > 0  BY <1>7, <1>8, <2>1
  <2>3. QED  BY <1>4, <1>8, <2>2 DEF Earlier
<1>12. \A i \in Calls : sent[i] <= 1 /\ (i > bundle.next => sent[i] = 0)  BY <1>2, AloneFacts
<1>13. ASSUME bundle'.status = "offchainFailure", NEW i \in Calls, i > 0, i >= bundle'.next
       PROVE  sent'[i] = 0
  <2>1. CASE worker[w].outcome = "rejected"
    <3>1. sent[worker[w].tx] = 0  BY <1>2, <2>1, AloneFacts DEF PlaceOf, SettleSteps
    <3>2. QED  BY <1>4, <1>7, <1>8, <1>12, <1>13, <3>1 DEF Calls
  <2>2. CASE worker[w].outcome # "rejected"
    <3>1. worker[w].seen = {}  BY <1>4, <1>13, <2>2 DEF FinalStatus
    <3>2. bundle.next > 0 => 0 \in 0..bundle.next - 1  BY <1>8
    <3>3. ~(bundle.next > 0)  BY <1>7, <3>1, <3>2
    <3>4. QED  BY <1>4, <1>8, <1>12, <1>13, <3>3 DEF Calls
  <2>3. QED  BY <2>1, <2>2
<1>14. QED
  BY <1>2, <1>4, <1>5, <1>6, <1>7, <1>9, <1>10, <1>11, <1>12, <1>13, AloneFacts, Rests

LEMMA APosted == ASSUME Safe, Alone, NEW w \in Workers, Posted(w) PROVE Alone'
<1>1. TypeOK /\ Shape  BY DEF Safe
<1>2. worker[w].pc = "posted" /\ Active(w)  BY DEF Posted, At, Active, CallSteps, RunSteps
<1>3. Becomes(w, "idle", -1, -1, FALSE, "none", {})  BY <1>1, SetIdle DEF Posted
<1>4. /\ chain' = chain /\ sent' = sent /\ prompts' = prompts /\ bundle' = bundle
      /\ pollers' = pollers \union {worker[w].tx} /\ UpdateRow(worker[w].tx, "pending")
  BY DEF Posted, StartPolling, bundleVars, Tx
<1>5. \A v \in Workers : ~Active(v)'
  BY <1>2, <1>3, AloneFacts DEF Becomes, Active, CallSteps, WatchSteps, SettleSteps, RunSteps,
     QueueSteps
<1>6. worker[w].tx \in Calls /\ worker[w].tx = bundle.next /\ prompts = {}
  BY <1>1, <1>2, AloneFacts DEF Shape, ShapeOf, PlaceOf, AloneOf, CallSteps, RunSteps
<1>7. \A i \in Calls : Open(i)' => i = bundle.next
  <2>1. \A i \in Calls : ~Open(i)  BY <1>1, <1>2, WatchesOwn DEF RunSteps
  <2>2. \A i \in Calls : row'[i] = "pending" => row[i] = "pending" \/ i = worker[w].tx
    BY <1>1, <1>4, <1>6, RowType
  <2>3. QED  BY <1>4, <1>6, <2>1, <2>2 DEF Open
<1>8. QED  BY <1>2, <1>4, <1>5, <1>6, <1>7, AloneFacts, Rests

LEMMA AAdvanceSuccess == ASSUME Safe, Alone, NEW w \in Workers, AdvanceSuccess(w) PROVE Alone'
<1>1. TypeOK /\ Shape  BY DEF Safe
<1>2. /\ worker[w].pc = "advanceWrite" /\ Active(w) /\ worker[w].outcome = "success"
      /\ worker[w].tx \in Calls
  BY <1>1 DEF AdvanceSuccess, At, Active, CallSteps, SettleSteps, Shape, ShapeOf
<1>3. Becomes(w, "enqueue", worker[w].tx, worker[w].call, worker[w].poll, worker[w].outcome,
              worker[w].seen)
  BY <1>1, SetPc DEF AdvanceSuccess, WorkerSteps
<1>4. worker[w].tx = bundle.next /\ worker[w].seen = 0..bundle.next - 1 /\ AloneOf(worker[w])
  BY <1>2, AloneFacts DEF PlaceOf, CallSteps, SettleSteps
<1>5. /\ row' = row /\ sent' = sent /\ pollers' = pollers /\ prompts' = prompts
      /\ bundle'.status = bundle.status /\ bundle'.next = bundle.next + 1
      /\ bundle'.hashes = 0..bundle'.next - 1
  <2>1. HashesAfter(w) = 0..bundle.next  BY <1>2, <1>4 DEF HashesAfter, Tx
  <2>2. bundle \in BundleType  BY <1>1 DEF TypeOK
  <2>3. bundle' = [bundle EXCEPT !.next = bundle.next + 1, !.hashes = 0..bundle.next]
    BY <1>4, <2>1 DEF AdvanceSuccess, Tx
  <2>4. bundle.next \in 0..NumCalls  BY <2>2 DEF BundleType
  <2>5. /\ bundle'.status = bundle.status /\ bundle'.next = bundle.next + 1
        /\ bundle'.hashes = 0..bundle.next
    BY <2>2, <2>3 DEF BundleType
  <2>6. bundle'.next - 1 = bundle.next  BY <2>4, <2>5
  <2>7. QED  BY <2>5, <2>6 DEF AdvanceSuccess, receiptFrame
<1>6. \A v \in Workers \ {w} : ~Active(v)'  BY <1>2, <1>3, AloneFacts DEF Active, Becomes
<1>7. \A i \in Calls : Open(i)' <=> Open(i)  BY <1>5 DEF Open
<1>8. AloneOf(worker[w])'
  <2>1. \A i \in Calls : Open(i) => i = worker[w].tx /\ worker[w].poll
    BY <1>1, <1>2, WatchesOwn
  <2>2. QED  BY <1>2, <1>3, <1>4, <1>5, <1>7, <2>1 DEF AloneOf, Becomes
<1>9. /\ bundle.next \in Calls
      /\ \A i \in Calls : sent'[i] <= 1 /\ (i > bundle'.next => sent'[i] = 0)
      /\ bundle'.next < NumCalls => sent'[bundle'.next] = 0
  BY <1>2, <1>4, <1>5, AloneFacts
<1>10. PlaceOf(worker[w])'
  BY <1>3, <1>9 DEF PlaceOf, Becomes, CallSteps, WatchSteps, SettleSteps, RunSteps, QueueSteps
<1>11. worker'[w].pc \in QueueSteps  BY <1>3 DEF Becomes, QueueSteps
<1>12. QED  BY <1>2, <1>5, <1>6, <1>7, <1>8, <1>9, <1>10, <1>11, AloneFacts, Proceeds

LEMMA AAddRow == ASSUME Safe, Alone, NEW w \in Workers, AddRow(w) PROVE Alone'
<1>1. TypeOK /\ Shape  BY DEF Safe
<1>2. worker[w].pc = "process" /\ Active(w)  BY DEF AddRow, At, Active, CallSteps, RunSteps
<1>3. Becomes(w, "broadcast", worker[w].tx, worker[w].call, worker[w].poll, worker[w].outcome,
              worker[w].seen)
  BY <1>1, SetPc DEF AddRow, WorkerSteps
<1>4. /\ chain' = chain /\ sent' = sent /\ pollers' = pollers /\ prompts' = prompts
      /\ bundle' = bundle
      /\ row' = [row EXCEPT ![worker[w].tx] = IF @ = "none" THEN "processing" ELSE @]
  BY DEF AddRow, bundleVars, Tx
<1>5. \A v \in Workers \ {w} : ~Active(v)'  BY <1>2, <1>3, AloneFacts DEF Active, Becomes
<1>6. \A i \in Calls : ~Open(i)'
  <2>1. \A i \in Calls : ~Open(i)  BY <1>1, <1>2, WatchesOwn DEF RunSteps
  <2>2. \A i \in Calls : row'[i] = "pending" => row[i] = "pending"
    BY <1>1, <1>4 DEF TypeOK, ReceiptsTypeOK
  <2>3. QED  BY <1>4, <2>1, <2>2 DEF Open
<1>7. AloneOf(worker[w]) /\ PlaceOf(worker[w])  BY <1>2, AloneFacts
<1>8. AloneOf(worker[w])'  BY <1>3, <1>4, <1>6, <1>7 DEF AloneOf, Becomes, QueueSteps
<1>9. PlaceOf(worker[w])'
  BY <1>2, <1>3, <1>4, <1>7 DEF PlaceOf, Becomes, CallSteps, WatchSteps, SettleSteps, RunSteps,
     QueueSteps
<1>10. worker'[w].pc \in CallSteps  BY <1>3 DEF Becomes, CallSteps, RunSteps
<1>11. QED  BY <1>2, <1>4, <1>5, <1>6, <1>8, <1>9, <1>10, AloneFacts, Proceeds

LEMMA ARecordOutcome ==
  ASSUME Safe, Alone, NEW w \in Workers, RecordOutcome(w), UNCHANGED bundleVars PROVE Alone'
<1>1. TypeOK /\ Shape  BY DEF Safe
<1>2. worker[w].pc = "record" /\ Active(w) /\ worker[w].tx \in Calls
  BY <1>1 DEF RecordOutcome, At, Active, CallSteps, SettleSteps, Shape, ShapeOf
<1>3. Becomes(w, "advance", worker[w].tx, worker[w].call, worker[w].poll, worker[w].outcome,
              worker[w].seen)
  BY <1>1, SetPc DEF RecordOutcome, WorkerSteps, ObserverSteps
<1>4. /\ chain' = chain /\ sent' = sent /\ pollers' = pollers /\ prompts' = prompts
      /\ bundle' = bundle
      /\ UpdateRow(worker[w].tx, RowOf(worker[w].outcome))
  BY DEF RecordOutcome, bundleVars, Tx
<1>5. RowOf(worker[w].outcome) \in {"success", "failed", "dropped"}
  BY <1>1, <1>2, Fields DEF RowOf, Outcomes, Shape, ShapeOf, SettleSteps
<1>6. /\ \A i \in Calls : row'[i] = "pending" => row[i] = "pending"
      /\ row'[worker[w].tx] # "pending"
  BY <1>1, <1>2, <1>4, <1>5, RowType
<1>7. \A v \in Workers \ {w} : ~Active(v)'  BY <1>2, <1>3, AloneFacts DEF Active, Becomes
<1>8. \A i \in Calls : Open(i)' => Open(i)  BY <1>4, <1>6 DEF Open
<1>9. AloneOf(worker[w]) /\ PlaceOf(worker[w])  BY <1>2, AloneFacts
<1>10. AloneOf(worker[w])'
  <2>1. \A i \in Calls : row'[i] # "pending"  BY <1>6, <1>9 DEF AloneOf, Open
  <2>2. QED  BY <1>3, <1>4, <1>8, <1>9, <2>1 DEF AloneOf, Becomes, SettleSteps
<1>11. PlaceOf(worker[w])'
  BY <1>2, <1>3, <1>4, <1>9 DEF PlaceOf, Becomes, CallSteps, WatchSteps, SettleSteps, RunSteps,
     QueueSteps
<1>12. worker'[w].pc \in CallSteps  BY <1>3 DEF Becomes, CallSteps, SettleSteps
<1>13. \A i \in Calls : Open(i)' => i = bundle'.next
  BY <1>2, <1>4, <1>8, AloneFacts DEF QueueSteps
<1>14. QED  BY <1>2, <1>4, <1>7, <1>8, <1>10, <1>11, <1>12, <1>13, AloneFacts, Proceeds

-----------------------------------------------------------------------------
(* ... the broadcast, the user and the beginning of a check                  *)

LEMMA ABroadcast == ASSUME Safe, Alone, NEW w \in Workers, Broadcast(w) PROVE Alone'
<1>1. TypeOK /\ Shape /\ Order  BY DEF Safe
<1>2. worker[w].pc = "broadcast" /\ Active(w) /\ worker[w].tx \in Calls
  BY <1>1 DEF Broadcast, At, Active, Shape, ShapeOf, CallSteps, RunSteps
<1>3. /\ row' = row /\ pollers' = pollers /\ prompts' = prompts /\ bundle' = bundle
      /\ sent' = [sent EXCEPT ![worker[w].tx] = @ + 1]
  BY DEF Broadcast, Tx
<1>4. PICK i \in Calls : i = worker[w].tx  BY <1>2
<1>5. PICK s \in {"mempool", "unsent"} \union Mined, answered \in BOOLEAN :
        /\ chain' = [chain EXCEPT ![i] = IF @ = "success" THEN @ ELSE s]
        /\ worker' = [worker EXCEPT
                        ![w].pc = IF answered /\ s \in Mined THEN "record" ELSE "posted",
                        ![w].outcome = IF answered /\ s \in Mined THEN s ELSE "none"]
  BY <1>4 DEF Broadcast, Tx
<1> DEFINE pc == IF answered /\ s \in Mined THEN "record" ELSE "posted"
           outcome == IF answered /\ s \in Mined THEN s ELSE "none"
<1>6. Becomes(w, pc, i, worker[w].call, worker[w].poll, outcome, worker[w].seen)
  <2>1. pc \in WorkerSteps /\ outcome \in Outcomes \union {"none"}
    BY DEF WorkerSteps, ObserverSteps, Mined, Outcomes
  <2>2. worker' = [worker EXCEPT ![w].pc = pc, ![w].outcome = outcome]  BY <1>5
  <2> HIDE DEF pc, outcome
  <2>3. QED  BY <1>1, <1>4, <2>1, <2>2, SetPcOutcome
<1>7. /\ worker'[w].pc \in {"record", "posted"} /\ worker'[w].tx = i
      /\ worker'[w].poll = worker[w].poll
      /\ worker'[w].pc = "record" /\ worker'[w].outcome = "reverted" => s = "reverted"
      /\ worker'[w].pc = "record" => worker'[w].outcome # "rejected"
  BY <1>6 DEF Becomes, Mined
<1>8. i = bundle.next /\ sent[i] = 0 /\ AloneOf(worker[w])
  BY <1>2, <1>4, AloneFacts DEF PlaceOf, CallSteps, RunSteps
<1>9. s = "reverted" => chain'[i] = "reverted"
  BY <1>1, <1>5, <1>8 DEF Order, TypeOK, ReceiptsTypeOK
<1>10. \A v \in Workers \ {w} : ~Active(v)'  BY <1>2, <1>6, AloneFacts DEF Active, Becomes
<1>11. \A j \in Calls : ~Open(j)'
  <2>1. \A j \in Calls : ~Open(j)  BY <1>1, <1>2, WatchesOwn DEF RunSteps
  <2>2. QED  BY <1>3, <2>1 DEF Open
<1>12. AloneOf(worker[w])'
  BY <1>3, <1>4, <1>7, <1>8, <1>11 DEF AloneOf, QueueSteps
<1>13. PlaceOf(worker[w])'
  BY <1>3, <1>7, <1>8, <1>9 DEF PlaceOf, SettleSteps
<1>14. \A j \in Calls : sent'[j] <= 1 /\ (j > bundle'.next => sent'[j] = 0)
  <2>1. sent \in [Calls -> 0..MaxSends]  BY <1>1 DEF TypeOK
  <2>2. \A j \in Calls : sent[j] <= 1 /\ (j > bundle.next => sent[j] = 0)  BY <1>2, AloneFacts
  <2>3. QED  BY <1>3, <1>4, <1>8, <2>1, <2>2
<1>15. worker'[w].pc \in CallSteps  BY <1>7 DEF CallSteps, SettleSteps, RunSteps
<1>16. QED  BY <1>2, <1>3, <1>10, <1>11, <1>12, <1>13, <1>14, <1>15, AloneFacts, Proceeds

\* A prompt waits alone: no worker and no receipt carries the sequence on.
LEMMA PromptAlone ==
  ASSUME Alone, NEW i \in prompts
  PROVE  /\ \A v \in Workers : ~Active(v)
         /\ \A j \in Calls : ~Open(j)
         /\ i = bundle.next /\ sent[i] = 0 /\ prompts \ {i} = {}
         /\ bundle.status = "pending" /\ bundle.hashes = 0..bundle.next - 1
         /\ \A j \in Calls : sent[j] <= 1 /\ (j > bundle.next => sent[j] = 0)
BY DEF Alone, OneAtATime, AloneOf, Place, Report

LEMMA AConfirm ==
  ASSUME Safe, Alone, NEW w \in Workers, NEW i \in Calls, Confirm(w, i)
  PROVE  Alone'
<1>1. TypeOK /\ Shape  BY DEF Safe
<1>2. worker[w] = IdleWorker /\ i \in prompts  BY <1>1 DEF Confirm, Idle, Shape, ShapeOf
<1>3. Becomes(w, "process", i, worker[w].call, worker[w].poll, worker[w].outcome, worker[w].seen)
  BY <1>1, SetPcTx DEF Confirm, WorkerSteps
<1>4. /\ chain' = chain /\ row' = row /\ sent' = sent /\ pollers' = pollers /\ bundle' = bundle
      /\ prompts' = prompts \ {i}
  BY DEF Confirm, TakePrompt, receiptFrame
<1>5. \A v \in Workers \ {w} : ~Active(v)'  BY <1>2, <1>3, PromptAlone DEF Becomes, Active
<1>6. \A j \in Calls : ~Open(j)'  BY <1>2, <1>4, PromptAlone DEF Open
<1>7. AloneOf(worker[w])'
  BY <1>2, <1>3, <1>4, <1>6, PromptAlone DEF AloneOf, Becomes, QueueSteps, Open
<1>8. PlaceOf(worker[w])'
  BY <1>2, <1>3, <1>4, PromptAlone DEF PlaceOf, Becomes, SettleSteps
<1>9. worker'[w].pc \in CallSteps  BY <1>3 DEF Becomes, CallSteps, RunSteps
<1>10. QED  BY <1>2, <1>4, <1>5, <1>6, <1>7, <1>8, <1>9, PromptAlone, Proceeds

LEMMA AReject == ASSUME Safe, Alone, NEW w \in Workers, NEW i \in Calls, Reject(w, i) PROVE Alone'
<1>1. TypeOK /\ Shape  BY DEF Safe
<1>2. worker[w] = IdleWorker /\ i \in prompts  BY <1>1 DEF Reject, Idle, Shape, ShapeOf
<1>3. Becomes(w, "advance", i, worker[w].call, worker[w].poll, "rejected", worker[w].seen)
  BY <1>1, SetPcTxOutcome DEF Reject, WorkerSteps, ObserverSteps, Outcomes
<1>4. /\ chain' = chain /\ row' = row /\ sent' = sent /\ pollers' = pollers /\ bundle' = bundle
      /\ prompts' = prompts \ {i}
  BY DEF Reject, receiptFrame
<1>5. \A v \in Workers \ {w} : ~Active(v)'  BY <1>2, <1>3, PromptAlone DEF Becomes, Active
<1>6. \A j \in Calls : ~Open(j)'  BY <1>2, <1>4, PromptAlone DEF Open
<1>7. AloneOf(worker[w])'
  BY <1>2, <1>3, <1>4, <1>6, PromptAlone DEF AloneOf, Becomes, Open
<1>8. PlaceOf(worker[w])'
  BY <1>2, <1>3, <1>4, PromptAlone DEF PlaceOf, Becomes
<1>9. worker'[w].pc \in CallSteps  BY <1>3 DEF Becomes, CallSteps, SettleSteps
<1>10. QED  BY <1>2, <1>4, <1>5, <1>6, <1>7, <1>8, <1>9, PromptAlone, Proceeds

\* A receipt is awaited alone: no prompt is queued, and the bundle is pending.
LEMMA OpenAlone ==
  ASSUME Alone, NEW i \in Calls, Open(i)
  PROVE  /\ prompts = {}
         /\ \A j \in Calls : Open(j) => j = i
         /\ (\A v \in Workers : ~Active(v)) => i = bundle.next
         /\ bundle.status = "pending" /\ bundle.hashes = 0..bundle.next - 1
         /\ \A j \in Calls : sent[j] <= 1 /\ (j > bundle.next => sent[j] = 0)
BY DEF Alone, OneAtATime, Place, Report, Active

LEMMA APollTick ==
  ASSUME Safe, Alone, ~overlapped', NEW w \in Workers, NEW i \in Calls, PollTick(w, i),
         UNCHANGED bundleVars
  PROVE  Alone'
<1>1. TypeOK /\ Shape  BY DEF Safe
<1>2. worker[w] = IdleWorker /\ Open(i) /\ i \in pollers
  BY <1>1 DEF PollTick, Idle, Shape, ShapeOf, Open
<1>3. Becomes(w, "receipt", i, worker[w].call, TRUE, worker[w].outcome, worker[w].seen)
  BY <1>1, SetPcTxPoll DEF PollTick, WorkerSteps, ObserverSteps
<1>4. /\ chain' = chain /\ row' = row /\ sent' = sent /\ pollers' = pollers /\ bundle' = bundle
      /\ prompts' = prompts
  BY DEF PollTick, bundleVars
<1>5. \A v \in Workers : ~Active(v)
  <2> SUFFICES ASSUME NEW v \in Workers, Active(v) PROVE FALSE
    OBVIOUS
  <2>1. AloneOf(worker[v])  BY AloneFacts
  <2>2. worker[v].tx = i /\ worker[v].poll = FALSE
    BY <1>1, <1>2, <2>1, Fields DEF AloneOf, PollTick, Tx
  <2>3. worker[v].pc \in {"receipt", "lookup", "evaluate", "record", "advance"}
    BY <1>2, <2>1, <2>2 DEF AloneOf, WatchSteps, SettleSteps
  <2>4. v \in Observers(i)  BY <2>2, <2>3 DEF Observers, Tx, ObserverSteps
  <2>5. QED  BY <2>4 DEF PollTick, StartsBeside
<1>6. \A v \in Workers \ {w} : ~Active(v)'  BY <1>3, <1>5 DEF Becomes, Active
<1>7. \A j \in Calls : Open(j)' => j = i  BY <1>2, <1>4, OpenAlone DEF Open
<1>8. AloneOf(worker[w])'
  BY <1>2, <1>3, <1>4, <1>7, OpenAlone DEF AloneOf, Becomes, WatchSteps, QueueSteps
<1>9. i = bundle.next  BY <1>2, <1>5, OpenAlone
<1>10. PlaceOf(worker[w])'  BY <1>3, <1>4, <1>9 DEF PlaceOf, Becomes, SettleSteps
<1>11. worker'[w].pc \in CallSteps  BY <1>3 DEF Becomes, CallSteps, WatchSteps
<1>12. QED  BY <1>2, <1>4, <1>6, <1>7, <1>8, <1>9, <1>10, <1>11, OpenAlone, Proceeds

LEMMA AUiCheck ==
  ASSUME Safe, Alone, ~overlapped', NEW w \in Workers, NEW i \in Calls, UiCheck(w, i),
         UNCHANGED bundleVars
  PROVE  Alone'
<1>1. TypeOK /\ Shape  BY DEF Safe
<1>2. worker[w] = IdleWorker /\ Open(i) /\ i \notin pollers /\ row[i] = "pending"
  BY <1>1 DEF UiCheck, Idle, Shape, ShapeOf, Open
<1>3. Becomes(w, "receipt", i, worker[w].call, worker[w].poll, worker[w].outcome, worker[w].seen)
  BY <1>1, SetPcTx DEF UiCheck, WorkerSteps, ObserverSteps
<1>4. /\ chain' = chain /\ row' = row /\ sent' = sent /\ pollers' = pollers /\ bundle' = bundle
      /\ prompts' = prompts
  BY DEF UiCheck, bundleVars
<1>5. \A v \in Workers : ~Active(v)  BY <1>1, <1>2, Watched DEF UiCheck, StartsBeside
<1>6. \A v \in Workers \ {w} : ~Active(v)'  BY <1>3, <1>5 DEF Becomes, Active
<1>7. \A j \in Calls : Open(j)' => j = i  BY <1>2, <1>4, OpenAlone DEF Open
<1>8. AloneOf(worker[w])'
  BY <1>2, <1>3, <1>4, <1>7, OpenAlone DEF AloneOf, Becomes, WatchSteps, QueueSteps
<1>9. i = bundle.next  BY <1>2, <1>5, OpenAlone
<1>10. PlaceOf(worker[w])'  BY <1>3, <1>4, <1>9 DEF PlaceOf, Becomes, SettleSteps
<1>11. worker'[w].pc \in CallSteps  BY <1>3 DEF Becomes, CallSteps, WatchSteps
<1>12. QED  BY <1>2, <1>4, <1>6, <1>7, <1>8, <1>9, <1>10, <1>11, OpenAlone, Proceeds

LEMMA ASplitRemove == ASSUME Safe, Alone, NEW w \in Workers, SplitRemove(w) PROVE Alone'
<1>1. TypeOK /\ Shape /\ Unsplit  BY DEF Safe
<1>2. worker[w].pc = "splitRemove" /\ batchPrompt
  BY <1>1 DEF SplitRemove, At, Unsplit, SplitSteps
<1>3. Becomes(w, "enqueue", worker[w].tx, worker[w].call, worker[w].poll, worker[w].outcome,
              worker[w].seen)
  BY <1>1, SetPc DEF SplitRemove, WorkerSteps
<1>4. /\ chain' = chain /\ row' = row /\ sent' = sent /\ pollers' = pollers /\ bundle' = bundle
      /\ prompts' = prompts
  BY DEF SplitRemove, receiptFrame
<1>5. /\ bundle.next = 0 /\ bundle.hashes = {} /\ bundle.status = "pending" /\ prompts = {}
      /\ \A v \in Workers : ~Active(v)
      /\ \A i \in Calls : sent[i] = 0 /\ ~Open(i)
  BY <1>1, <1>2 DEF Unsplit
<1>6. \A v \in Workers \ {w} : ~Active(v)'  BY <1>3, <1>5 DEF Becomes, Active
<1>7. \A i \in Calls : ~Open(i)' /\ row'[i] # "pending" /\ i \notin pollers'
  BY <1>4, <1>5 DEF Open
<1>8. AloneOf(worker[w])'
  BY <1>1, <1>4, <1>5, <1>7 DEF AloneOf, TypeOK, ReceiptsTypeOK
<1>9. PlaceOf(worker[w])'
  BY <1>3, <1>4, <1>5 DEF PlaceOf, Becomes, CallSteps, WatchSteps, SettleSteps, RunSteps
<1>10. worker'[w].pc \in QueueSteps  BY <1>3 DEF Becomes, QueueSteps
<1>11. QED  BY <1>4, <1>5, <1>6, <1>7, <1>8, <1>9, <1>10, Proceeds

-----------------------------------------------------------------------------
(* The invariant is inductive                                                *)

LEMMA Begins == Init => IInv
<1> SUFFICES ASSUME Init PROVE IInv
  OBVIOUS
<1>1. TypeOK
  <2>1. IdleWorker \in WorkerType  BY DEF IdleWorker, WorkerType, WorkerSteps
  <2>2. worker \in [Workers -> WorkerType]  BY <2>1 DEF Init
  <2>3. bundle \in BundleType  BY DEF Init, BundleType
  <2>4. sent \in [Calls -> 0..MaxSends]  BY DEF Init
  <2>5. ReceiptsTypeOK
    <3>1. notFound \in [Txs -> 0..MissThreshold - 1] /\ incidents \in 0..MaxIncidents
      BY DEF Init, ReceiptsInit
    <3>2. startup \in [cleanup : BOOLEAN, stale : SUBSET Txs, resume : BOOLEAN]
      BY DEF Init, ReceiptsInit, NoStartup
    <3>3. QED  BY <3>1, <3>2 DEF Init, ReceiptsInit, ReceiptsTypeOK
  <2>6. QED  BY <2>2, <2>3, <2>4, <2>5 DEF Init, TypeOK
<1>2. Shape
  BY DEF Init, Shape, ShapeOf, IdleWorker, CallSteps, WatchSteps, SettleSteps, RunSteps,
     QueueSteps
<1>3. Order
  BY DEF Init, ReceiptsInit, Order, OrderOf, Earlier, Reached, IdleWorker
<1>4. \A w \in Workers : worker[w].pc \notin SplitSteps /\ ~Active(w)
  BY DEF Init, Active, IdleWorker, SplitSteps, CallSteps, WatchSteps, SettleSteps, RunSteps,
     QueueSteps
<1>5. \A i \in Calls : ~Open(i)  BY DEF Init, ReceiptsInit, Open
<1>6. Unsplit  BY <1>4, <1>5 DEF Init, Unsplit
<1>7. OneAtATime  BY <1>4, <1>5 DEF Init, OneAtATime
<1>8. \A w \in Workers : PlaceOf(worker[w])
  BY DEF Init, PlaceOf, IdleWorker, CallSteps, WatchSteps, SettleSteps, RunSteps, QueueSteps
<1>9. Place  BY <1>5, <1>8 DEF Init, Place
<1>10. Report  BY DEF Init, Report
<1>11. QED  BY <1>1, <1>2, <1>3, <1>6, <1>7, <1>9, <1>10 DEF IInv, Safe, Alone

LEMMA Step == ASSUME IInv, Next PROVE IInv'
<1>1. ASSUME NEW w \in Workers, Split(w) PROVE IInv'
  BY <1>1, SSplit, ASplit DEF IInv, Split, receiptFrame
<1>2. ASSUME NEW w \in Workers, SplitStatus(w) PROVE IInv'
  BY <1>2, SSplitStatus, ASplitStatus DEF IInv, SplitStatus, receiptFrame
<1>3. ASSUME NEW w \in Workers, SplitRemove(w) PROVE IInv'
  BY <1>3, SSplitRemove, ASplitRemove DEF IInv, SplitRemove, receiptFrame
<1>4. ASSUME NEW w \in Workers, Enqueue(w) PROVE IInv'
  BY <1>4, SEnqueue, AEnqueue DEF IInv, Enqueue, receiptFrame
<1>5. ASSUME NEW w \in Workers, Save(w) PROVE IInv'
  BY <1>5, SSave, ASave DEF IInv, Save, receiptFrame
<1>6. ASSUME NEW w \in Workers, SaveRefused(w) PROVE IInv'
  BY <1>6, SSaveRefused, ASaveRefused DEF IInv, SaveRefused, receiptFrame
<1>7. ASSUME NEW w \in Workers, FinalizeRead(w) PROVE IInv'
  BY <1>7, SFinalizeRead, AFinalizeRead DEF IInv, FinalizeRead, receiptFrame
<1>8. ASSUME NEW w \in Workers, Finalize(w) PROVE IInv'
  BY <1>8, SFinalize, AFinalize DEF IInv, Finalize, receiptFrame
<1>9. ASSUME NEW w \in Workers, AdvanceRead(w) PROVE IInv'
  BY <1>9, SAdvanceRead, AAdvanceRead DEF IInv, AdvanceRead, receiptFrame
<1>10. ASSUME NEW w \in Workers, AdvanceSuccess(w) PROVE IInv'
  BY <1>10, SAdvanceSuccess, AAdvanceSuccess DEF IInv, AdvanceSuccess, receiptFrame
<1>11. ASSUME NEW w \in Workers, AdvanceFailure(w) PROVE IInv'
  BY <1>11, SAdvanceFailure, AAdvanceFailure DEF IInv, AdvanceFailure, receiptFrame
<1>12. ASSUME NEW w \in Workers, NEW i \in Calls, Confirm(w, i) PROVE IInv'
  BY <1>12, SConfirm, AConfirm DEF IInv, Confirm, receiptFrame
<1>13. ASSUME NEW w \in Workers, NEW i \in Calls, Reject(w, i) PROVE IInv'
  BY <1>13, SReject, AReject DEF IInv, Reject, receiptFrame
<1>14. ASSUME NEW i \in Calls, Revoke(i) PROVE IInv'
  BY <1>14, SRevoke, ARevoke DEF IInv, Revoke, receiptFrame
<1>15. ASSUME NEW w \in Workers, AddRow(w) PROVE IInv'
  BY <1>15, SAddRow, AAddRow DEF IInv, AddRow, receiptFrame
<1>16. ASSUME NEW w \in Workers, FailBeforeSend(w) PROVE IInv'
  BY <1>16, SFailBeforeSend, AFailBeforeSend DEF IInv, FailBeforeSend, receiptFrame
<1>17. ASSUME NEW w \in Workers, Broadcast(w) PROVE IInv'
  BY <1>17, SBroadcast, ABroadcast DEF IInv, Broadcast, receiptFrame
<1>18. ASSUME NEW w \in Workers, Posted(w) PROVE IInv'
  BY <1>18, SPosted, APosted DEF IInv, Posted, receiptFrame
<1>19. ASSUME NEW w \in Workers, NEW i \in Calls, CancelRead(w, i) PROVE IInv'
  BY <1>19, SCancelRead, ACancelRead DEF IInv, CancelRead, receiptFrame
<1>20. ASSUME NEW w \in Workers, CancelWrite(w) PROVE IInv'
  BY <1>20, SCancelWrite, ACancelWrite DEF IInv, CancelWrite, receiptFrame
<1>21. ASSUME NEW w \in Workers, FetchReceipt(w), UNCHANGED bundleVars PROVE IInv'
  BY <1>21, SFetchReceipt, AFetchReceipt DEF IInv, FetchReceipt, observeFrame
<1>22. ASSUME NEW w \in Workers, LookupTx(w, IdleWorker), UNCHANGED bundleVars PROVE IInv'
  BY <1>22, SLookupTx, ALookupTx DEF IInv, LookupTx, observeFrame
<1>23. ASSUME NEW w \in Workers, NEW nonceKnown \in BOOLEAN, NEW old \in BOOLEAN,
              EvaluateMissing(w, nonceKnown, old, IdleWorker), UNCHANGED bundleVars
       PROVE  IInv'
  BY <1>23, SEvaluateMissing, AEvaluateMissing DEF IInv, EvaluateMissing, observeFrame
<1>24. ASSUME NEW w \in Workers, RpcError(w, IdleWorker), UNCHANGED bundleVars PROVE IInv'
  BY <1>24, SRpcError, ARpcError DEF IInv, RpcError, observeFrame
<1>25. ASSUME NEW w \in Workers, RecordOutcome(w), UNCHANGED bundleVars PROVE IInv'
  BY <1>25, SRecordOutcome, ARecordOutcome DEF IInv, RecordOutcome, receiptFrame
<1>26. ASSUME NEW w \in Workers, NEW i \in Calls, PollTick(w, i), UNCHANGED bundleVars PROVE IInv'
  BY <1>26, SPollTick, APollTick DEF IInv, PollTick, StartsBeside
<1>27. ASSUME NEW w \in Workers, NEW i \in Calls, UiCheck(w, i), UNCHANGED bundleVars PROVE IInv'
  BY <1>27, SUiCheck, AUiCheck DEF IInv, UiCheck, StartsBeside
<1>28. ASSUME NEW i \in Calls, PollerExpires(i), UNCHANGED bundleVars PROVE IInv'
  BY <1>28, SPollerExpires, APollerExpires DEF IInv, PollerExpires
<1>29. ASSUME CleanupRead, UNCHANGED bundleVars PROVE IInv'
  BY <1>29, SCleanupRead, ACleanupRead DEF IInv, CleanupRead, startupFrame
<1>30. ASSUME NEW i \in Calls, CleanupWrite(i), UNCHANGED bundleVars PROVE IInv'
  BY <1>30, SCleanupWrite, ACleanupWrite DEF IInv, CleanupWrite, startupFrame
<1>31. ASSUME ResumePollers, UNCHANGED bundleVars PROVE IInv'
  BY <1>31, SResumePollers, AResumePollers DEF IInv, ResumePollers
<1>32. ASSUME NEW i \in Calls, Mine(i), UNCHANGED bundleVars PROVE IInv'
  BY <1>32, SMine, AMine DEF IInv, Mine
<1>33. ASSUME Restart(IdleWorker), UNCHANGED bundleVars PROVE IInv'
  BY <1>33, SRestart, ARestart DEF IInv, Restart
<1>34. QED
  BY <1>1, <1>2, <1>3, <1>4, <1>5, <1>6, <1>7, <1>8, <1>9, <1>10, <1>11, <1>12, <1>13, <1>14,
     <1>15, <1>16, <1>17, <1>18, <1>19, <1>20, <1>21, <1>22, <1>23, <1>24, <1>25, <1>26, <1>27,
     <1>28, <1>29, <1>30, <1>31, <1>32, <1>33
     DEF Next, Answer, StorageStep, ObserverStep, Recovery, Environment

LEMMA Stutters == ASSUME IInv, UNCHANGED vars PROVE IInv'
<1>1. /\ chain' = chain /\ row' = row /\ uncertain' = uncertain /\ pollers' = pollers
      /\ notFound' = notFound /\ startup' = startup /\ worker' = worker
      /\ overlapped' = overlapped /\ incidents' = incidents
      /\ bundle' = bundle /\ batchPrompt' = batchPrompt /\ prompts' = prompts /\ sent' = sent
  BY DEF vars, receiptVars, bundleVars
<1>2. TypeOK' = TypeOK  BY <1>1 DEF TypeOK, ReceiptsTypeOK
<1>3. Shape' = Shape  BY <1>1 DEF Shape, ShapeOf
<1>4. Order' = Order  BY <1>1 DEF Order, OrderOf, Earlier, Reached
<1>5. Unsplit' = Unsplit  BY <1>1 DEF Unsplit, Active, Open
<1>6. OneAtATime' = OneAtATime  BY <1>1 DEF OneAtATime, AloneOf, Active, Open
<1>7. Place' = Place  BY <1>1 DEF Place, PlaceOf, Open
<1>8. Report' = Report  BY <1>1 DEF Report, Active, Open
<1>9. QED  BY <1>1, <1>2, <1>3, <1>4, <1>5, <1>6, <1>7, <1>8 DEF IInv, Safe, Alone

\* A split bundle stays within the strengthened invariant.
THEOREM BundleInductive == Spec => []IInv
<1>1. IInv /\ [Next]_vars => IInv'  BY Step, Stutters
<1>2. QED  BY Begins, <1>1, PTL DEF Spec

\* A finished bundle keeps its status: only an active worker writes it.
LEMMA StatusStays ==
  ASSUME IInv, Next, bundle.status # "pending", ~overlapped
  PROVE  bundle'.status = bundle.status
<1>1. bundle \in BundleType /\ \A w \in Workers : ~Active(w)
  BY DEF IInv, Safe, TypeOK, Alone, Report
<1>2. \A w \in Workers : worker[w].pc \notin {"finalize", "advanceWrite"}
  BY <1>1 DEF Active, CallSteps, SettleSteps, QueueSteps
<1>3. ASSUME NEW w \in Workers, SplitStatus(w) PROVE bundle'.status = bundle.status
  BY <1>1, <1>3 DEF SplitStatus, BundleType
<1>4. ASSUME NEW w \in Workers, Finalize(w) \/ AdvanceSuccess(w) \/ AdvanceFailure(w) PROVE FALSE
  BY <1>2, <1>4 DEF Finalize, AdvanceSuccess, AdvanceFailure, At
<1>5. ASSUME NEW w \in Workers, NEW i \in Calls,
              Split(w) \/ SplitRemove(w) \/ Enqueue(w) \/ Save(w) \/ SaveRefused(w) \/
              FinalizeRead(w) \/ AdvanceRead(w) \/ Confirm(w, i) \/ Reject(w, i) \/ AddRow(w) \/
              FailBeforeSend(w) \/ Broadcast(w) \/ Posted(w) \/ CancelRead(w, i) \/ CancelWrite(w)
       PROVE  bundle' = bundle
  BY <1>5 DEF Split, SplitRemove, Enqueue, Save, SaveRefused, FinalizeRead, AdvanceRead, Confirm,
     Reject, AddRow, FailBeforeSend, Broadcast, Posted, CancelRead, CancelWrite, bundleVars
<1>6. ASSUME NEW i \in Calls, Revoke(i) PROVE bundle' = bundle  BY <1>6 DEF Revoke
<1>7. ASSUME UNCHANGED bundleVars PROVE bundle' = bundle  BY <1>7 DEF bundleVars
<1>8. 0 \in Calls  OBVIOUS
<1>9. QED
  BY <1>3, <1>4, <1>5, <1>6, <1>7, <1>8
     DEF Next, Answer, StorageStep, ObserverStep, Recovery, Environment

-----------------------------------------------------------------------------
(* The theorems                                                              *)

\* The variables of a split bundle keep their types.
THEOREM TypeCorrect == Spec => []TypeOK
<1>1. IInv => TypeOK  BY DEF IInv, Safe
<1>2. QED  BY <1>1, BundleInductive, PTL

\* A call of a split bundle is broadcast only after every earlier one was mined and
\* succeeded, for any number of calls, handler calls under way and broadcasts, whatever
\* observers overlap, rows are cancelled or restarts happen.
THEOREM CallsGoInOrder == Spec => []InOrder
<1>1. IInv => InOrder  BY DEF IInv, Safe, Order, Reached, Earlier, InOrder
<1>2. QED  BY <1>1, BundleInductive, PTL

\* The final status a page reads of a split bundle is what happened on chain.
THEOREM StatusIsAlwaysTrue == Spec => []StatusIsTrue
<1>1. IInv => StatusIsTrue
  BY DEF IInv, Safe, Order, Earlier, Alone, Report, StatusIsTrue
<1>2. QED  BY <1>1, BundleInductive, PTL

\* Unless two observers of one transaction overlapped, no call is broadcast twice and a
\* finished bundle leaves no prompt to confirm.
THEOREM NothingIsRepeated == Spec => []NothingRepeated
<1>1. IInv => NothingRepeated  BY DEF IInv, Alone, Place, Report, NothingRepeated
<1>2. QED  BY <1>1, BundleInductive, PTL

\* Unless two observers overlapped, the status a page was told of is never changed.
THEOREM TerminalStays == Spec => TerminalIsFinal
<1>1. IInv /\ [Next]_vars =>
        [bundle.status # "pending" /\ ~overlapped => bundle'.status = bundle.status]_vars
  BY StatusStays
<1>2. QED  BY <1>1, BundleInductive, PTL DEF Spec, TerminalIsFinal

=============================================================================
