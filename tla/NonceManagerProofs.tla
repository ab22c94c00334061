------------------------- MODULE NonceManagerProofs -------------------------
(***************************************************************************)
(* For any number of transactions, any nonce limit and any time to live:   *)
(* nonces that are computed one after the other do not conflict, and a     *)
(* fresh cache entry never moves backwards.                                *)
(***************************************************************************)
EXTENDS NonceManager, TLAPS

\* The transaction has its nonce and keeps it.
Settled(t) == tx[t].pc \notin {"idle", "fetch"}

\* The entry is above every reservation it accounts for.
CacheIsAhead == \A u \in covered : Settled(u) /\ tx[u].nonce < cache.value

\* So is the entry a processor read before its RPC call, whatever happened to
\* the cache since.
SnapshotsAreAhead ==
  \A t \in Txs : tx[t].pc = "fetch" =>
    \A u \in tx[t].behind : Settled(u) /\ tx[u].nonce < tx[t].snapshot.value

\* And a reserved nonce stays above them, for those have settled.
ReservationsAreOrdered ==
  \A t \in Txs : HasNonce(t) =>
    \A u \in tx[t].behind : Settled(u) /\ tx[u].nonce < tx[t].nonce

IInv == TypeOK /\ CacheIsAhead /\ SnapshotsAreAhead /\ ReservationsAreOrdered

-----------------------------------------------------------------------------
\* The higher of two numbers is a number and not below either.
LEMMA HigherFacts ==
  ASSUME NEW a \in Nat, NEW b \in Nat
  PROVE  Higher(a, b) \in Nat /\ a <= Higher(a, b) /\ b <= Higher(a, b)
BY DEF Higher

LEMMA InitInvariant == Init => IInv
<1> SUFFICES ASSUME Init PROVE IInv
  OBVIOUS
<1>1. TypeOK
  BY NonceAssumption DEF Init, TypeOK, NoEntry, IdleTx, EntryType, TxType
<1> QED BY <1>1 DEF Init, IInv, CacheIsAhead, SnapshotsAreAhead, ReservationsAreOrdered,
                    HasNonce, IdleTx

\* What a reservation does to the cache entry.
LEMMA CacheAfterFacts ==
  ASSUME TypeOK, NEW n \in 0..MaxNonce, CacheAfter(n)
  PROVE  /\ cache' \in EntryType
         /\ n < cache'.value
         /\ Fresh(cache) => cache.value <= cache'.value
<1> DEFINE old == IF Fresh(cache) THEN cache.value ELSE 0
<1>1. old \in Nat /\ n \in Nat /\ n + 1 \in Nat /\ now \in Nat
  BY NonceAssumption DEF TypeOK, EntryType
<1>2. Higher(old, n + 1) \in Nat /\ old <= Higher(old, n + 1) /\ n + 1 <= Higher(old, n + 1)
  BY <1>1, HigherFacts
<1>3. cache' = [present |-> TRUE, time |-> now, value |-> Higher(old, n + 1)]
  BY DEF CacheAfter
<1>4. cache'.value = Higher(old, n + 1) /\ cache' \in EntryType
  BY <1>1, <1>2, <1>3 DEF EntryType
<1>5. n < cache'.value
  BY <1>1, <1>2, <1>4
<1> QED BY <1>2, <1>4, <1>5

\* A reservation keeps the invariant, provided that the nonce is above those
\* its transaction was behind.
LEMMA ReserveInvariant ==
  ASSUME IInv, NEW t \in Txs, ~Settled(t), NEW n \in 0..MaxNonce, NEW behind \in SUBSET Txs,
         \A u \in behind : Settled(u) /\ tx[u].nonce < n,
         Reserve(t, n, behind)
  PROVE  IInv'
<1> USE DEF IInv
<1>1. /\ cache' \in EntryType
      /\ n < cache'.value
      /\ Fresh(cache) => cache.value <= cache'.value
  BY CacheAfterFacts DEF Reserve
<1>2. tx' = [tx EXCEPT ![t].pc = "reserved", ![t].nonce = n, ![t].behind = behind,
                       ![t].reviewed = (tx[t].pc = "idle")]
  BY DEF Reserve
<1>3. /\ tx'[t].pc = "reserved" /\ tx'[t].nonce = n /\ tx'[t].behind = behind
      /\ \A u \in Txs : u # t => tx'[u] = tx[u]
  BY <1>2 DEF TypeOK, TxType
<1>4. TypeOK'
  <2>1. tx' \in [Txs -> TxType]
    <3> DEFINE new == [tx[t] EXCEPT !.pc = "reserved", !.nonce = n, !.behind = behind,
                                    !.reviewed = (tx[t].pc = "idle")]
    <3>1. tx[t] \in TxType
      BY DEF TypeOK
    <3>2. new \in TxType
      <4>1. (tx[t].pc = "idle") \in BOOLEAN
        OBVIOUS
      <4> QED BY <3>1, <4>1 DEF TxType
    <3>3. tx' = [tx EXCEPT ![t] = new]
      BY <1>2 DEF TypeOK
    <3> QED BY <3>2, <3>3 DEF TypeOK
  <2>2. covered' \subseteq Txs
    BY DEF Reserve, TypeOK
  <2> QED BY <1>1, <2>1, <2>2 DEF Reserve, TypeOK, chainVars
<1>5. \A u \in Txs : Settled(u) => Settled(u)' /\ tx'[u] = tx[u]
  BY <1>3 DEF Settled
<1>6. Settled(t)'
  BY <1>3 DEF Settled
<1>7. CacheIsAhead'
  <2> SUFFICES ASSUME NEW u \in covered' PROVE Settled(u)' /\ tx'[u].nonce < cache'.value
    BY DEF CacheIsAhead
  <2>1. CASE u = t
    BY <1>1, <1>3, <1>6, <2>1
  <2>2. CASE u # t
    <3>1. Fresh(cache) /\ u \in covered /\ u \in Txs
      BY <2>2 DEF Reserve, TypeOK
    <3>2. tx[u].nonce < cache.value /\ tx[u].nonce \in Nat /\ cache.value \in Nat /\ cache'.value \in Nat
      BY <1>1, <3>1, NonceAssumption DEF CacheIsAhead, TypeOK, TxType, EntryType
    <3> QED BY <1>1, <1>5, <3>1, <3>2 DEF CacheIsAhead
  <2> QED BY <2>1, <2>2
<1>8. SnapshotsAreAhead'
  BY <1>3, <1>5 DEF SnapshotsAreAhead, TypeOK, TxType
<1>9. ReservationsAreOrdered'
  <2> SUFFICES ASSUME NEW s \in Txs, HasNonce(s)', NEW u \in tx'[s].behind
               PROVE  Settled(u)' /\ tx'[u].nonce < tx'[s].nonce
    BY DEF ReservationsAreOrdered
  <2>1. u \in Txs
    BY <1>4 DEF TypeOK, TxType
  <2>2. CASE s = t
    BY <1>3, <1>5, <2>1, <2>2
  <2>3. CASE s # t
    BY <1>3, <1>5, <2>1, <2>3 DEF ReservationsAreOrdered, HasNonce
  <2> QED BY <2>2, <2>3
<1> QED BY <1>4, <1>7, <1>8, <1>9

\* A step that drops the entry, or leaves it, and settles transactions without
\* giving them a nonce, keeps the invariant.
LEMMA SettlingInvariant ==
  ASSUME IInv, tx' \in [Txs -> TxType], cache' \in EntryType, covered' \subseteq Txs,
         covered' = {} \/ (covered' = covered /\ cache' = cache),
         mined' \in 0..MaxNonce, accepted' \subseteq 0..MaxNonce, now' \in Nat,
         \A t \in Txs : \/ tx'[t] = tx[t]
                        \/ /\ tx'[t].nonce = tx[t].nonce
                           /\ tx'[t].behind = tx[t].behind
                           /\ \/ tx'[t].pc = "failed"
                              \/ tx[t].pc = "reserved" /\ tx'[t].pc = "sent"
  PROVE  IInv'
<1> USE DEF IInv
<1>1. TypeOK'
  BY DEF TypeOK
<1>2. \A u \in Txs : tx'[u].nonce = tx[u].nonce /\ tx'[u].behind = tx[u].behind
  OBVIOUS
<1>3. \A u \in Txs : Settled(u) => Settled(u)'
  BY DEF Settled
<1>4. CacheIsAhead'
  BY <1>2, <1>3 DEF CacheIsAhead, TypeOK
<1>5. SnapshotsAreAhead'
  <2> SUFFICES ASSUME NEW s \in Txs, tx'[s].pc = "fetch", NEW u \in tx'[s].behind
               PROVE  Settled(u)' /\ tx'[u].nonce < tx'[s].snapshot.value
    BY DEF SnapshotsAreAhead
  <2>1. tx'[s] = tx[s]
    OBVIOUS
  <2>2. u \in Txs
    BY DEF TxType
  <2> QED BY <1>2, <1>3, <2>1, <2>2 DEF SnapshotsAreAhead
<1>6. ReservationsAreOrdered'
  <2> SUFFICES ASSUME NEW s \in Txs, HasNonce(s)', NEW u \in tx'[s].behind
               PROVE  Settled(u)' /\ tx'[u].nonce < tx'[s].nonce
    BY DEF ReservationsAreOrdered
  <2>1. HasNonce(s)
    BY DEF HasNonce
  <2>2. u \in Txs
    BY DEF TxType
  <2> QED BY <1>2, <1>3, <2>1, <2>2 DEF ReservationsAreOrdered
<1> QED BY <1>1, <1>4, <1>5, <1>6

-----------------------------------------------------------------------------
LEMMA FailInvariant ==
  ASSUME IInv, NEW t \in Txs, Fail(t)
  PROVE  IInv'
<1>1. tx' = [tx EXCEPT ![t].pc = "failed"]
  BY DEF Fail
<1>2. tx' \in [Txs -> TxType]
  BY <1>1 DEF IInv, TypeOK, TxType
<1>3. tx'[t] = [tx[t] EXCEPT !.pc = "failed"] /\ \A s \in Txs : s # t => tx'[s] = tx[s]
  BY <1>1 DEF IInv, TypeOK
<1>4. tx'[t].nonce = tx[t].nonce /\ tx'[t].behind = tx[t].behind /\ tx'[t].pc = "failed"
  BY <1>3 DEF IInv, TypeOK, TxType
<1>5. /\ cache' \in EntryType /\ covered' = {}
      /\ mined' \in 0..MaxNonce /\ accepted' \subseteq 0..MaxNonce /\ now' \in Nat
  BY DEF Fail, IInv, TypeOK, NoEntry, EntryType, chainVars
<1> QED BY <1>2, <1>3, <1>4, <1>5, SettlingInvariant

\* The entry is copied together with what it accounts for.
LEMMA PeekInvariant ==
  ASSUME IInv, NEW t \in Txs, Peek(t)
  PROVE  IInv'
<1> USE DEF IInv
<1>1. tx' = [tx EXCEPT ![t].pc = "fetch", ![t].snapshot = cache, ![t].behind = covered]
  BY DEF Peek
<1>2. TypeOK'
  <2>1. tx' \in [Txs -> TxType]
    <3>1. tx[t] \in TxType /\ cache \in EntryType /\ covered \in SUBSET Txs
      BY DEF TypeOK
    <3>2. [tx[t] EXCEPT !.pc = "fetch", !.snapshot = cache, !.behind = covered] \in TxType
      BY <3>1 DEF TxType
    <3>3. tx' = [tx EXCEPT ![t] = [tx[t] EXCEPT !.pc = "fetch", !.snapshot = cache, !.behind = covered]]
      BY <1>1 DEF TypeOK
    <3> QED BY <3>2, <3>3 DEF TypeOK
  <2> QED BY <2>1 DEF Peek, TypeOK, chainVars
<1>3. /\ tx'[t].pc = "fetch" /\ tx'[t].snapshot = cache /\ tx'[t].behind = covered
      /\ \A s \in Txs : s # t => tx'[s] = tx[s]
  BY <1>1 DEF TypeOK, TxType
<1>4. \A u \in Txs : Settled(u) => Settled(u)' /\ tx'[u] = tx[u]
  BY <1>3 DEF Peek, Settled
<1>5. CacheIsAhead'
  BY <1>4 DEF Peek, CacheIsAhead, TypeOK
<1>6. SnapshotsAreAhead'
  BY <1>3, <1>4 DEF SnapshotsAreAhead, CacheIsAhead, TypeOK, TxType
<1>7. ReservationsAreOrdered'
  BY <1>3, <1>4 DEF ReservationsAreOrdered, HasNonce, TypeOK, TxType
<1> QED BY <1>2, <1>5, <1>6, <1>7

LEMMA AnswerInvariant ==
  ASSUME IInv, NEW t \in Txs, Answer(t)
  PROVE  IInv'
<1> DEFINE entry == tx[t].snapshot
<1>1. PICK n \in RpcCounts :
        \/ ~Fresh(entry) /\ Reserve(t, n, {})
        \/ Fresh(entry) /\ Higher(entry.value, n) <= MaxNonce
             /\ Reserve(t, Higher(entry.value, n), tx[t].behind)
        \/ Fresh(entry) /\ Higher(entry.value, n) > MaxNonce /\ Fail(t)
  BY DEF Answer
<1>2. n \in 0..MaxNonce /\ n \in Nat /\ entry.value \in Nat /\ tx[t].behind \in SUBSET Txs
  BY NonceAssumption DEF RpcCounts, IInv, TypeOK, TxType, EntryType
<1>3. ~Settled(t) /\ tx[t].pc = "fetch"
  BY DEF Answer, Settled
<1>4. CASE ~Fresh(entry) /\ Reserve(t, n, {})
  BY <1>2, <1>3, <1>4, ReserveInvariant
<1>5. CASE Fresh(entry) /\ Higher(entry.value, n) <= MaxNonce
             /\ Reserve(t, Higher(entry.value, n), tx[t].behind)
  <2> DEFINE h == Higher(entry.value, n)
  <2>1. h \in 0..MaxNonce /\ entry.value <= h /\ h \in Nat
    BY <1>2, <1>5, HigherFacts, NonceAssumption
  <2>2. \A u \in tx[t].behind : Settled(u) /\ tx[u].nonce < h
    <3> SUFFICES ASSUME NEW u \in tx[t].behind PROVE Settled(u) /\ tx[u].nonce < h
      OBVIOUS
    <3>1. Settled(u) /\ tx[u].nonce < entry.value
      BY <1>3 DEF IInv, SnapshotsAreAhead
    <3>2. tx[u].nonce \in Nat
      BY <1>2, NonceAssumption DEF IInv, TypeOK, TxType
    <3> HIDE DEF h
    <3> QED BY <1>2, <2>1, <3>1, <3>2
  <2>3. Reserve(t, h, tx[t].behind)
    BY <1>5
  <2> HIDE DEF h
  <2> QED BY <1>2, <1>3, <2>1, <2>2, <2>3, ReserveInvariant
<1>6. CASE Fail(t)
  BY <1>6, FailInvariant
<1> QED BY <1>1, <1>4, <1>5, <1>6

LEMMA AnswerMissingInvariant ==
  ASSUME IInv, NEW t \in Txs, AnswerMissing(t)
  PROVE  IInv'
<1> DEFINE entry == tx[t].snapshot
<1>1. CASE Fresh(entry) /\ entry.value <= MaxNonce /\ Reserve(t, entry.value, tx[t].behind)
  <2>1. entry.value \in 0..MaxNonce /\ tx[t].behind \in SUBSET Txs
    BY <1>1, NonceAssumption DEF IInv, TypeOK, TxType, EntryType
  <2>2. ~Settled(t)
    BY DEF AnswerMissing, Settled
  <2>3. \A u \in tx[t].behind : Settled(u) /\ tx[u].nonce < entry.value
    BY DEF AnswerMissing, IInv, SnapshotsAreAhead
  <2> QED BY <1>1, <2>1, <2>2, <2>3, ReserveInvariant
<1>2. CASE Fail(t)
  BY <1>2, FailInvariant
<1> QED BY <1>1, <1>2 DEF AnswerMissing

LEMMA ReserveReviewedInvariant ==
  ASSUME IInv, NEW t \in Txs, NEW n \in 0..MaxNonce, ReserveReviewed(t, n)
  PROVE  IInv'
<1>1. ~Settled(t)
  BY DEF ReserveReviewed, Settled
<1> QED BY <1>1, ReserveInvariant DEF ReserveReviewed

LEMMA SendInvariant ==
  ASSUME IInv, NEW t \in Txs, Send(t)
  PROVE  IInv'
<1>1. tx' = [tx EXCEPT ![t].pc = "sent"] /\ tx[t].pc = "reserved"
  BY DEF Send
<1>2. tx' \in [Txs -> TxType]
  BY <1>1 DEF IInv, TypeOK, TxType
<1>3. /\ tx'[t].nonce = tx[t].nonce /\ tx'[t].behind = tx[t].behind /\ tx'[t].pc = "sent"
      /\ \A s \in Txs : s # t => tx'[s] = tx[s]
  BY <1>1 DEF IInv, TypeOK, TxType
<1>4. /\ cache' = cache /\ cache' \in EntryType /\ covered' = covered /\ covered' \subseteq Txs
      /\ mined' \in 0..MaxNonce /\ now' \in Nat
  BY DEF Send, IInv, TypeOK
<1>5. accepted' \subseteq 0..MaxNonce
  BY DEF Send, IInv, TypeOK, TxType
<1> QED BY <1>1, <1>2, <1>3, <1>4, <1>5, SettlingInvariant

LEMMA MineInvariant == IInv /\ Mine => IInv'
<1> SUFFICES ASSUME IInv, Mine PROVE IInv'
  OBVIOUS
<1>1. mined' \in 0..MaxNonce
  BY NonceAssumption DEF Mine, IInv, TypeOK
<1> QED BY <1>1, SettlingInvariant DEF Mine, IInv, TypeOK

LEMMA TickInvariant == IInv /\ Tick => IInv'
BY SettlingInvariant DEF Tick, IInv, TypeOK, chainVars

LEMMA ClearNoncesInvariant == IInv /\ ClearNonces => IInv'
<1>1. NoEntry \in EntryType
  BY DEF NoEntry, EntryType
<1> QED BY <1>1, SettlingInvariant DEF ClearNonces, IInv, TypeOK, chainVars

LEMMA WorkerRestartInvariant == IInv /\ WorkerRestart => IInv'
<1> SUFFICES ASSUME IInv, WorkerRestart PROVE IInv'
  OBVIOUS
<1>1. NoEntry \in EntryType
  BY DEF NoEntry, EntryType
<1>2. \A t \in Txs : tx'[t] = IF tx[t].pc \in {"fetch", "reserved"}
                                THEN [tx[t] EXCEPT !.pc = "failed"] ELSE tx[t]
  BY DEF WorkerRestart
<1>3. tx' \in [Txs -> TxType]
  BY DEF WorkerRestart, IInv, TypeOK, TxType
<1>4. \A t \in Txs : \/ tx'[t] = tx[t]
                     \/ /\ tx'[t].nonce = tx[t].nonce
                        /\ tx'[t].behind = tx[t].behind
                        /\ tx'[t].pc = "failed"
  BY <1>2 DEF IInv, TypeOK, TxType
<1>5. /\ cache' \in EntryType /\ covered' = {}
      /\ mined' \in 0..MaxNonce /\ accepted' \subseteq 0..MaxNonce /\ now' \in Nat
  BY <1>1 DEF WorkerRestart, IInv, TypeOK, chainVars
<1> QED BY <1>3, <1>4, <1>5, SettlingInvariant

\* Every step keeps the invariant.
LEMMA NextInvariant == IInv /\ [Next]_vars => IInv'
<1> SUFFICES ASSUME IInv, [Next]_vars PROVE IInv'
  OBVIOUS
<1>1. ASSUME NEW t \in Txs, NEW n \in 0..MaxNonce, ReserveReviewed(t, n) PROVE IInv'
  BY <1>1, ReserveReviewedInvariant
<1>2. ASSUME NEW t \in Txs,
             Peek(t) \/ Answer(t) \/ AnswerMissing(t) \/ Send(t) \/ FailReserved(t)
      PROVE  IInv'
  BY <1>2, PeekInvariant, AnswerInvariant, AnswerMissingInvariant, SendInvariant, FailInvariant
     DEF FailReserved
<1>3. CASE Mine \/ Tick \/ ClearNonces \/ WorkerRestart
  BY <1>3, MineInvariant, TickInvariant, ClearNoncesInvariant, WorkerRestartInvariant
<1>4. CASE UNCHANGED vars
  <2>1. UNCHANGED <<cache, tx, now, mined, accepted, covered>>
    BY <1>4 DEF vars
  <2> QED BY <2>1, SettlingInvariant DEF IInv, TypeOK
<1> QED BY <1>1, <1>2, <1>3, <1>4 DEF Next

-----------------------------------------------------------------------------
\* The entries and the snapshots of them account for what they cover.
THEOREM Invariant == Spec => []IInv
BY InitInvariant, NextInvariant, PTL DEF Spec

\* Nonces, entries and snapshots have their types: in particular no processor
\* ever holds a nonce above the limit.
THEOREM TypeCorrect == Spec => []TypeOK
<1>1. IInv => TypeOK
  BY DEF IInv
<1> QED BY <1>1, Invariant, PTL

\* Transactions sent one after the other get increasing nonces.
THEOREM LaterReservationAlwaysHigher == Spec => []LaterReservationIsHigher
<1>1. IInv => LaterReservationIsHigher
  BY DEF IInv, ReservationsAreOrdered, LaterReservationIsHigher
<1> QED BY <1>1, Invariant, PTL

\* A step never moves a fresh entry backwards.
LEMMA StepNeverMovesBackwards ==
  IInv /\ [Next]_vars => (Fresh(cache) /\ cache'.present => cache'.value >= cache.value)
<1> SUFFICES ASSUME IInv, [Next]_vars, Fresh(cache), cache'.present
             PROVE  cache'.value >= cache.value
  OBVIOUS
<1>1. cache.value \in Nat
  BY DEF IInv, TypeOK, EntryType
<1>2. CASE cache' = cache
  BY <1>1, <1>2
<1>3. CASE cache' = NoEntry
  BY <1>3 DEF NoEntry
<1>4. ASSUME NEW n \in 0..MaxNonce, CacheAfter(n) PROVE cache'.value >= cache.value
  <2>1. cache.value <= cache'.value
    BY <1>4, CacheAfterFacts DEF IInv
  <2> QED BY <2>1
<1>5. ASSUME NEW t \in Txs, Answer(t) PROVE cache'.value >= cache.value
  <2> DEFINE entry == tx[t].snapshot
  <2>1. PICK n \in RpcCounts :
          \/ Reserve(t, n, {})
          \/ Higher(entry.value, n) <= MaxNonce /\ Reserve(t, Higher(entry.value, n), tx[t].behind)
          \/ Fail(t)
    BY <1>5 DEF Answer
  <2>2. n \in 0..MaxNonce /\ n \in Nat /\ entry.value \in Nat
    BY <1>5, NonceAssumption DEF RpcCounts, IInv, TypeOK, TxType, EntryType
  <2>3. Higher(entry.value, n) \in Nat
    BY <2>2, HigherFacts
  <2> QED BY <1>3, <1>4, <2>1, <2>2, <2>3, NonceAssumption DEF Reserve, Fail
<1>6. ASSUME NEW t \in Txs, AnswerMissing(t) PROVE cache'.value >= cache.value
  <2>1. tx[t].snapshot.value \in Nat
    BY <1>6 DEF IInv, TypeOK, TxType, EntryType
  <2> QED BY <1>3, <1>4, <1>6, <2>1, NonceAssumption DEF AnswerMissing, Reserve, Fail
<1>7. ASSUME NEW t \in Txs, NEW n \in 0..MaxNonce, ReserveReviewed(t, n)
      PROVE  cache'.value >= cache.value
  BY <1>4, <1>7 DEF ReserveReviewed, Reserve
<1>8. ASSUME NEW t \in Txs, Peek(t) \/ Send(t) \/ FailReserved(t)
      PROVE  cache' = cache \/ cache' = NoEntry
  BY <1>8 DEF Peek, Send, FailReserved, Fail
<1>9. CASE Mine \/ Tick \/ ClearNonces \/ WorkerRestart \/ UNCHANGED vars
  <2>1. cache' = cache \/ cache' = NoEntry
    BY <1>9 DEF Mine, Tick, ClearNonces, WorkerRestart, vars
  <2> QED BY <1>2, <1>3, <2>1
<1> QED BY <1>2, <1>3, <1>5, <1>6, <1>7, <1>8, <1>9 DEF Next

\* Replacement nonces and late answers never move the cache backwards.
THEOREM CacheIsMonotonic == Spec => CacheNeverMovesBackwards
BY Invariant, StepNeverMovesBackwards, PTL DEF Spec, CacheNeverMovesBackwards
=============================================================================
