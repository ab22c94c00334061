---------------------------- MODULE NonceManager ----------------------------
(***************************************************************************)
(* forceInclusion/nonceManager.ts under the background processors that use *)
(* it: the cached next nonce of one account on one chain.  A processor     *)
(* reads the cache, waits for the RPC and reserves, and others do the same *)
(* meanwhile; reviewed nonces, failures, expiry and restarts interfere.    *)
(***************************************************************************)
EXTENDS Naturals

CONSTANTS Txs,        \* transactions of the account, each sent by one processor
          MaxNonce,   \* MAX_TRANSACTION_NONCE, scaled down
          TTL,        \* NONCE_TTL_MS, in ticks
          MaxTime     \* bound: ticks of the clock

ASSUME NonceAssumption == MaxNonce \in Nat /\ TTL \in Nat /\ MaxTime \in Nat

VARIABLES cache,     \* the entry of nonceCache for this account and chain
          tx,        \* each processor: where it is, and the nonce it got
          now,       \* Date.now()
          mined,     \* the account's nonce on the chain
          accepted,  \* nonces of the transactions the network accepted
          covered    \* auxiliary: reservations that the cache entry still knows of

vars == <<cache, tx, now, mined, accepted, covered>>
chainVars == <<mined, accepted>>

EntryType == [present : BOOLEAN, value : Nat, time : Nat]
NoEntry == [present |-> FALSE, value |-> 0, time |-> 0]

TxType == [pc : {"idle", "fetch", "reserved", "sent", "failed"},
           nonce : 0..MaxNonce,
           reviewed : BOOLEAN,       \* the nonce was given, not computed
           snapshot : EntryType,     \* the entry that peekNextNonce read
           behind : SUBSET Txs]      \* auxiliary: `covered` of that entry
IdleTx == [pc |-> "idle", nonce |-> 0, reviewed |-> FALSE, snapshot |-> NoEntry, behind |-> {}]

TypeOK ==
  /\ cache \in EntryType
  /\ tx \in [Txs -> TxType]
  /\ now \in Nat /\ mined \in 0..MaxNonce /\ accepted \subseteq 0..MaxNonce
  /\ covered \subseteq Txs

Init ==
  /\ cache = NoEntry
  /\ tx = [t \in Txs |-> IdleTx]
  /\ now = 0 /\ mined = 0 /\ accepted = {}
  /\ covered = {}

-----------------------------------------------------------------------------
Fresh(entry) == entry.present /\ now < entry.time + TTL
Higher(a, b) == IF a < b THEN b ELSE a

\* The transaction count an RPC reports: "latest", "pending", or a node in between.
RpcCounts == {n \in mined..MaxNonce : \A m \in mined..MaxNonce : m < n => m \in accepted}

\* Faulty: the last reservation wins.
CacheJust(n) == cache' = [present |-> TRUE, value |-> n + 1, time |-> now]

\* A reservation never moves a fresh entry backwards.
CacheAfter(n) ==
  cache' = [present |-> TRUE, time |-> now,
            value |-> Higher(IF Fresh(cache) THEN cache.value ELSE 0, n + 1)]

\* reserveNonce, once the nonce is a valid one.
Reserve(t, n, behind) ==
  /\ CacheAfter(n)
  /\ covered' = (IF Fresh(cache) THEN covered ELSE {}) \union {t}
  /\ tx' = [tx EXCEPT ![t].pc = "reserved", ![t].nonce = n, ![t].behind = behind,
                       ![t].reviewed = (tx[t].pc = "idle")]
  /\ UNCHANGED <<now, chainVars>>

\* resetNonce, and the processor is done.
Fail(t) ==
  /\ cache' = NoEntry /\ covered' = {}
  /\ tx' = [tx EXCEPT ![t].pc = "failed"]
  /\ UNCHANGED <<now, chainVars>>

\* getNextNonce up to its RPC call.
Peek(t) ==
  /\ tx[t].pc = "idle"
  /\ tx' = [tx EXCEPT ![t].pc = "fetch", ![t].snapshot = cache, ![t].behind = covered]
  /\ UNCHANGED <<cache, covered, now, chainVars>>

\* Faulty: ignores what is reserved and not yet known to the RPC.
AnswerFromRpc(t) ==
  /\ tx[t].pc = "fetch"
  /\ \E n \in RpcCounts : Reserve(t, n, tx[t].behind)

\* Faulty: takes the cached value without looking at its range.
AnswerUnchecked(t) ==
  /\ tx[t].pc = "fetch"
  /\ \E n \in RpcCounts : Reserve(t, Higher(tx[t].snapshot.value, n), tx[t].behind)

\* The RPC answers: the entry read before the call counts if it is still fresh.
Answer(t) ==
  LET entry == tx[t].snapshot IN
  /\ tx[t].pc = "fetch"
  /\ \E n \in RpcCounts :
       \/ ~Fresh(entry) /\ Reserve(t, n, {})
       \/ Fresh(entry) /\ Higher(entry.value, n) <= MaxNonce
            /\ Reserve(t, Higher(entry.value, n), tx[t].behind)
       \/ Fresh(entry) /\ Higher(entry.value, n) > MaxNonce /\ Fail(t)

\* The RPC fails: the fresh entry is all there is.
AnswerMissing(t) ==
  LET entry == tx[t].snapshot IN
  /\ tx[t].pc = "fetch"
  /\ IF Fresh(entry) /\ entry.value <= MaxNonce THEN Reserve(t, entry.value, tx[t].behind)
                                                ELSE Fail(t)

\* A nonce the user reviewed, or the one of the transaction to be replaced.
ReserveReviewed(t, n) ==
  /\ tx[t].pc = "idle"
  /\ Reserve(t, n, {})

\* The raw send; its outcome may be unknown to the wallet.
Send(t) ==
  /\ tx[t].pc = "reserved"
  /\ tx' = [tx EXCEPT ![t].pc = "sent"]
  /\ accepted' \in {accepted, accepted \union {tx[t].nonce}}
  /\ UNCHANGED <<cache, covered, now, mined>>

\* Gas, authorization or signing fails before the send.
FailReserved(t) == tx[t].pc = "reserved" /\ Fail(t)

\* A block with the next transaction of the account.
Mine ==
  /\ mined < MaxNonce /\ mined \in accepted
  /\ mined' = mined + 1
  /\ UNCHANGED <<cache, tx, now, accepted, covered>>

Tick ==
  /\ now < MaxTime
  /\ now' = now + 1
  /\ UNCHANGED <<cache, tx, chainVars, covered>>

\* Settings; account removal and wallet reset, whose running processors go on.
ClearNonces ==
  /\ cache' = NoEntry /\ covered' = {}
  /\ UNCHANGED <<tx, now, chainVars>>

\* The service worker restarts: the cache and every running processor are gone.
WorkerRestart ==
  /\ cache' = NoEntry /\ covered' = {}
  /\ tx' = [t \in Txs |-> IF tx[t].pc \in {"fetch", "reserved"}
                            THEN [tx[t] EXCEPT !.pc = "failed"] ELSE tx[t]]
  /\ UNCHANGED <<now, chainVars>>

Next ==
  \/ \E t \in Txs : \/ Peek(t) \/ Answer(t) \/ AnswerMissing(t)
                    \/ Send(t) \/ FailReserved(t)
                    \/ \E n \in 0..MaxNonce : ReserveReviewed(t, n)
  \/ Mine \/ Tick \/ ClearNonces \/ WorkerRestart

Spec == Init /\ [][Next]_vars

-----------------------------------------------------------------------------
HasNonce(t) == tx[t].pc \in {"reserved", "sent"}

\* An automatic nonce is above every reservation that the cache knew of when
\* its processor asked, even if the RPC has not heard of any of them, and
\* although other processors reserved, failed and reset the cache during the
\* call: transactions sent quickly one after the other do not conflict.
LaterReservationIsHigher ==
  \A t \in Txs : HasNonce(t) => \A u \in tx[t].behind : tx[u].nonce < tx[t].nonce

\* Neither a lower reviewed nonce (a replacement) nor a late answer of the RPC
\* moves a fresh entry backwards; it can only be dropped as a whole.
CacheNeverMovesBackwards ==
  [][Fresh(cache) /\ cache'.present => cache'.value >= cache.value]_vars

\* Two transactions that nobody gave a nonce by hand do not hold the same one.
\* Two overlapping calls of getNextNonce break it: see the findings.
NoncesDiffer ==
  \A t, u \in {x \in Txs : HasNonce(x) /\ ~tx[x].reviewed} :
    t # u => tx[t].nonce # tx[u].nonce
=============================================================================
