------------------- MODULE PendingRequestResolutionProofs -------------------
(***************************************************************************)
(* For any number of requests, surfaces, leases and restarts: the claim    *)
(* tables give every request to one owner, keep it through failures, and   *)
(* keep wallet reset apart from all of them.                               *)
(***************************************************************************)
EXTENDS PendingRequestResolution, TLAPS

\* The claim table says exactly which keys each call in progress works on.
RunsOwn ==
  /\ claims \in [Keys -> Runs \union {None}]
  /\ \A r \in Runs :
       /\ LiveRun(r) <=> run[r].keys # {}
       /\ run[r].keys \intersect SingleFlightKeys = {}
       /\ \A k \in Keys : claims[k] = r <=> k \in run[r].keys

\* The external table says exactly which lease covers each key.
LeasesOwn ==
  /\ externalClaims \in [Keys -> Leases \union {None}]
  /\ \A l \in Leases :
       /\ LiveLease(l) => lease[l].key \in Keys
       /\ \A k \in Keys : externalClaims[k] = l <=> LiveLease(l) /\ lease[l].key = k

\* TypeOK and the two ownership facts make the properties inductive: a call may
\* look at one table only, and the tables must therefore never be behind.
IInv ==
  /\ TypeOK
  /\ RunsOwn
  /\ LeasesOwn
  /\ LeaseExcludesLateActions
  /\ ResetBarrier

-----------------------------------------------------------------------------
LEMMA TokensAreDisjoint ==
  /\ \A r \in Runs : r \in Tokens /\ r \notin Leases /\ r # None
  /\ \A l \in Leases : l \in Tokens /\ l \notin Runs /\ l # None
BY TokensAssumption, DisjointAssumption, NoneIsNoToken

\* A call or a lease that is not in progress has the type of one.
LEMMA IdleTypes == IdleRun \in RunType /\ FreeLease \in LeaseType
<1>1. {} \in SUBSET Keys
  OBVIOUS
<1> QED BY <1>1 DEF IdleRun, FreeLease, RunType, RunStates, LeaseType, LeaseStates

\* At the start no call is in progress and both tables are empty.
LEMMA InitInvariant == Init => IInv
<1> SUFFICES ASSUME Init PROVE IInv
  OBVIOUS
<1> USE DEF Init, ClaimsInit
<1>1. TypeOK
  <2>1. run \in [Runs -> RunType] /\ lease \in [Leases -> LeaseType]
    BY IdleTypes
  <2>2. ClaimsTypeOK
    BY DEF ClaimsTypeOK
  <2>3. workerLife \in 0..MaxWorkerLives
    BY MaxLivesAssumption
  <2> QED BY <2>1, <2>2, <2>3 DEF TypeOK
<1>2. RunsOwn
  BY TokensAreDisjoint DEF RunsOwn, LiveRun, IdleRun
<1>3. LeasesOwn
  BY TokensAreDisjoint DEF LeasesOwn, LiveLease, FreeLease
<1>4. LeaseExcludesLateActions /\ ResetBarrier
  BY DEF LeaseExcludesLateActions, ResetBarrier, LiveLease, LiveRun, IdleRun, FreeLease
<1> QED BY <1>1, <1>2, <1>3, <1>4 DEF IInv

-----------------------------------------------------------------------------
\* The calls of a resolver.
LEMMA RunResolutionInvariant ==
  ASSUME IInv, NEW r \in Runs, NEW keys \in (SUBSET (Keys \ SingleFlightKeys)) \ {{}},
         NEW c \in BOOLEAN, RunResolution(r, keys, c)
  PROVE  IInv'
<1> USE DEF IInv, RunResolution, InstallClaims
<1>1. TypeOK'
  BY TokensAreDisjoint DEF TypeOK, ClaimsTypeOK, RunType, RunStates
<1>2. RunsOwn'
  <2>1. claims' \in [Keys -> Runs \union {None}]
    BY DEF RunsOwn
  <2>2. ASSUME NEW q \in Runs
        PROVE  /\ LiveRun(q)' <=> run'[q].keys # {}
               /\ run'[q].keys \intersect SingleFlightKeys = {}
    BY DEF RunsOwn, LiveRun, TypeOK, RunType
  <2>3. ASSUME NEW q \in Runs, NEW k \in Keys
        PROVE  claims'[k] = q <=> k \in run'[q].keys
    <3>1. run[r].keys = {}
      BY DEF RunsOwn, LiveRun
    <3>2. \A j \in keys : claims[j] = None
      BY DEF CanResolve
    <3>3. CASE q = r
      BY <3>1, <3>3 DEF RunsOwn, TypeOK
    <3>4. CASE q # r
      BY <3>2, <3>4, TokensAreDisjoint DEF RunsOwn, TypeOK
    <3> QED BY <3>3, <3>4
  <2> QED BY <2>1, <2>2, <2>3 DEF RunsOwn
<1>3. LeasesOwn'
  BY DEF LeasesOwn, LiveLease
<1>4. LeaseExcludesLateActions'
  <2> SUFFICES ASSUME NEW q \in Runs, NEW l \in Leases, LiveLease(l), lease[l].key \in run'[q].keys
               PROVE  lease[l].run = q
    BY DEF LeaseExcludesLateActions, LiveLease
  <2>1. externalClaims[lease[l].key] = l
    BY DEF LeasesOwn
  <2>2. lease[l].key \notin keys
    BY <2>1, TokensAreDisjoint DEF CanResolve
  <2> QED BY <2>2 DEF LeaseExcludesLateActions, TypeOK
<1>5. ResetBarrier'
  BY DEF ResetBarrier, CanResolve
<1> QED BY <1>1, <1>2, <1>3, <1>4, <1>5

LEMMA StartResolverInvariant ==
  ASSUME IInv, NEW r \in Runs, StartResolver(r) \/ RejectResolution(r)
  PROVE  IInv'
<1> USE DEF IInv, StartResolver, RejectResolution
<1>1. /\ \A q \in Runs : run'[q].keys = run[q].keys /\ (LiveRun(q)' <=> LiveRun(q))
      /\ run' \in [Runs -> RunType]
  BY DEF TypeOK, RunType, RunStates, LiveRun
<1>2. TypeOK' /\ RunsOwn' /\ LeasesOwn'
  BY <1>1 DEF TypeOK, ClaimsTypeOK, RunsOwn, LeasesOwn, LiveLease
<1>3. LeaseExcludesLateActions' /\ ResetBarrier'
  BY <1>1 DEF LeaseExcludesLateActions, ResetBarrier, LiveLease
<1> QED BY <1>2, <1>3

LEMMA FulfilResolutionInvariant ==
  ASSUME IInv, NEW r \in Runs, FulfilResolution(r)
  PROVE  IInv'
<1> USE DEF IInv, FulfilResolution, ReleaseClaims, IdleRun
<1>1. TypeOK'
  BY DEF TypeOK, ClaimsTypeOK, RunType, RunStates
<1>2. RunsOwn'
  <2>1. claims' \in [Keys -> Runs \union {None}]
    BY DEF RunsOwn
  <2>2. ASSUME NEW q \in Runs
        PROVE  /\ LiveRun(q)' <=> run'[q].keys # {}
               /\ run'[q].keys \intersect SingleFlightKeys = {}
    BY DEF RunsOwn, LiveRun, TypeOK
  <2>3. ASSUME NEW q \in Runs, NEW k \in Keys
        PROVE  claims'[k] = q <=> k \in run'[q].keys
    <3>1. CASE q = r
      BY <3>1, TokensAreDisjoint DEF RunsOwn, TypeOK
    <3>2. CASE q # r
      BY <3>2, TokensAreDisjoint DEF RunsOwn, TypeOK
    <3> QED BY <3>1, <3>2
  <2> QED BY <2>1, <2>2, <2>3 DEF RunsOwn
<1>3. LeasesOwn'
  BY DEF LeasesOwn, LiveLease
<1>4. LeaseExcludesLateActions'
  BY DEF LeaseExcludesLateActions, LiveLease, TypeOK
<1>5. ResetBarrier'
  BY DEF ResetBarrier, LiveRun
<1> QED BY <1>1, <1>2, <1>3, <1>4, <1>5

-----------------------------------------------------------------------------
\* Leases and single-flight claims.
\* What both callers of BeginExternal establish: the key had no lease, and no
\* resolver other than the caller can own it.
LEMMA BeginExternalInvariant ==
  ASSUME IInv, NEW l \in Leases, NEW k \in Keys, NEW q \in Runs \union {None},
         lease[l].state = "free", BeginExternal(l, k),
         \A r \in Runs : k \in run[r].keys => r = q,
         lease' = [lease EXCEPT ![l] = [state |-> "held", key |-> k, run |-> q]],
         UNCHANGED <<run, workerLife>>
  PROVE  IInv'
<1> USE DEF IInv, BeginExternal, CanBeginExternal
<1>1. TypeOK'
  BY TokensAreDisjoint DEF TypeOK, ClaimsTypeOK, LeaseType, LeaseStates
<1>2. RunsOwn'
  BY DEF RunsOwn, LiveRun
<1>3. LeasesOwn'
  <2>1. externalClaims' \in [Keys -> Leases \union {None}]
    BY DEF LeasesOwn
  <2>2. ASSUME NEW m \in Leases
        PROVE  LiveLease(m)' => lease'[m].key \in Keys
    BY DEF LeasesOwn, LiveLease, TypeOK
  <2>3. ASSUME NEW m \in Leases, NEW j \in Keys
        PROVE  externalClaims'[j] = m <=> LiveLease(m)' /\ lease'[m].key = j
    <3>1. externalClaims[k] = None /\ ~LiveLease(l)
      BY DEF LiveLease
    <3>2. CASE m = l
      BY <3>1, <3>2 DEF LeasesOwn, LiveLease, TypeOK
    <3>3. CASE m # l
      BY <3>1, <3>3, TokensAreDisjoint DEF LeasesOwn, LiveLease, TypeOK
    <3> QED BY <3>2, <3>3
  <2> QED BY <2>1, <2>2, <2>3 DEF LeasesOwn
<1>4. LeaseExcludesLateActions'
  BY DEF LeaseExcludesLateActions, LiveLease, TypeOK
<1>5. ResetBarrier'
  BY DEF ResetBarrier
<1> QED BY <1>1, <1>2, <1>3, <1>4, <1>5

LEMMA BeginEffectLeaseInvariant ==
  ASSUME IInv, NEW r \in Runs, NEW l \in Leases, NEW k \in Keys, BeginEffectLease(r, l, k)
  PROVE  IInv'
<1>1. \A q \in Runs : k \in run[q].keys => q = r
  BY DEF BeginEffectLease, IInv, RunsOwn
<1> QED BY <1>1, BeginExternalInvariant DEF BeginEffectLease

LEMMA BeginSingleFlightInvariant ==
  ASSUME IInv, NEW l \in Leases, NEW k \in Keys, BeginSingleFlight(l, k)
  PROVE  IInv'
<1>1. \A q \in Runs : k \notin run[q].keys
  BY DEF BeginSingleFlight, IInv, RunsOwn
<1> QED BY <1>1, BeginExternalInvariant DEF BeginSingleFlight

LEMMA EffectInvariant ==
  ASSUME IInv, NEW l \in Leases, BeginEffect(l) \/ SettleEffect(l)
  PROVE  IInv'
<1> USE DEF IInv, BeginEffect, SettleEffect
<1>1. /\ \A m \in Leases : /\ LiveLease(m)' <=> LiveLease(m)
                           /\ lease'[m].key = lease[m].key /\ lease'[m].run = lease[m].run
      /\ lease' \in [Leases -> LeaseType]
  BY DEF TypeOK, LeaseType, LeaseStates, LiveLease
<1>2. TypeOK' /\ RunsOwn'
  BY <1>1 DEF TypeOK, ClaimsTypeOK, RunsOwn, LiveRun
<1>3. LeasesOwn'
  BY <1>1 DEF LeasesOwn
<1>4. LeaseExcludesLateActions' /\ ResetBarrier'
  BY <1>1 DEF LeaseExcludesLateActions, ResetBarrier, LiveRun
<1> QED BY <1>2, <1>3, <1>4

LEMMA ReleaseLeaseInvariant ==
  ASSUME IInv, NEW l \in Leases, ReleaseLease(l)
  PROVE  IInv'
<1> USE DEF IInv, ReleaseLease, FinishExternal, FreeLease
<1>1. TypeOK'
  BY DEF TypeOK, ClaimsTypeOK, LeaseType, LeaseStates
<1>2. RunsOwn'
  BY DEF RunsOwn, LiveRun
<1>3. LeasesOwn'
  <2>1. externalClaims' \in [Keys -> Leases \union {None}]
    BY DEF LeasesOwn
  <2>2. ASSUME NEW m \in Leases
        PROVE  LiveLease(m)' => lease'[m].key \in Keys
    BY DEF LeasesOwn, LiveLease, TypeOK
  <2>3. ASSUME NEW m \in Leases, NEW j \in Keys
        PROVE  externalClaims'[j] = m <=> LiveLease(m)' /\ lease'[m].key = j
    <3>1. CASE m = l
      BY <3>1, TokensAreDisjoint DEF LeasesOwn, LiveLease, TypeOK
    <3>2. CASE m # l
      BY <3>2, TokensAreDisjoint DEF LeasesOwn, LiveLease, TypeOK
    <3> QED BY <3>1, <3>2
  <2> QED BY <2>1, <2>2, <2>3 DEF LeasesOwn
<1>4. LeaseExcludesLateActions'
  BY DEF LeaseExcludesLateActions, LiveLease, TypeOK
<1>5. ResetBarrier'
  BY DEF ResetBarrier, LiveLease, TypeOK
<1> QED BY <1>1, <1>2, <1>3, <1>4, <1>5

-----------------------------------------------------------------------------
\* The barrier goes up only over empty tables, hence over no work in progress.
LEMMA ResetInvariant ==
  ASSUME IInv, BeginReset \/ FulfilReset
  PROVE  IInv'
<1> USE DEF IInv, BeginReset, FulfilReset, InstallReset, FinishReset
<1>1. TypeOK' /\ RunsOwn' /\ LeasesOwn' /\ LeaseExcludesLateActions'
  <2>1. UNCHANGED <<claims, externalClaims, run, lease, workerLife>> /\ walletResetClaim' \in BOOLEAN
    OBVIOUS
  <2>2. TypeOK'
    BY <2>1 DEF TypeOK, ClaimsTypeOK
  <2>3. RunsOwn' /\ LeasesOwn' /\ LeaseExcludesLateActions'
    BY <2>1 DEF RunsOwn, LeasesOwn, LeaseExcludesLateActions, LiveRun, LiveLease
  <2> QED BY <2>2, <2>3
<1>2. ResetBarrier'
  <2>1. CASE BeginReset
    <3>1. ASSUME NEW r \in Runs PROVE run[r].keys = {}
      <4>1. run[r].keys \subseteq Keys
        BY DEF TypeOK, RunType
      <4>2. \A k \in Keys : claims[k] # r
        BY <2>1, TokensAreDisjoint DEF CanReset
      <4> QED BY <4>1, <4>2 DEF RunsOwn
    <3>2. \A l \in Leases : ~LiveLease(l)
      BY <2>1, TokensAreDisjoint DEF CanReset, LeasesOwn
    <3> QED BY <2>1, <3>1, <3>2 DEF ResetBarrier, RunsOwn, LiveRun, LiveLease
  <2>2. CASE FulfilReset
    BY <2>2 DEF ResetBarrier
  <2> QED BY <2>1, <2>2
<1> QED BY <1>1, <1>2

LEMMA WorkerRestartInvariant ==
  ASSUME IInv, WorkerRestart
  PROVE  IInv'
<1> USE DEF IInv, WorkerRestart, LoseClaims
<1>1. TypeOK'
  <2>1. run' \in [Runs -> RunType] /\ lease' \in [Leases -> LeaseType]
    BY IdleTypes
  <2>2. ClaimsTypeOK'
    BY DEF ClaimsTypeOK
  <2>3. workerLife' \in 0..MaxWorkerLives
    BY MaxLivesAssumption DEF TypeOK
  <2> QED BY <2>1, <2>2, <2>3 DEF TypeOK
<1>2. RunsOwn'
  BY TokensAreDisjoint DEF RunsOwn, LiveRun, IdleRun
<1>3. LeasesOwn'
  BY TokensAreDisjoint DEF LeasesOwn, LiveLease, FreeLease
<1>4. LeaseExcludesLateActions' /\ ResetBarrier'
  BY DEF LeaseExcludesLateActions, ResetBarrier, LiveLease, LiveRun, IdleRun, FreeLease
<1> QED BY <1>1, <1>2, <1>3, <1>4

-----------------------------------------------------------------------------
\* The inductive step, one case per action.
LEMMA StepInvariant == IInv /\ [Next]_vars => IInv'
<1> SUFFICES ASSUME IInv, [Next]_vars PROVE IInv'
  OBVIOUS
<1>1. ASSUME NEW r \in Runs, NEW keys \in (SUBSET (Keys \ SingleFlightKeys)) \ {{}},
             NEW c \in BOOLEAN, RunResolution(r, keys, c)
      PROVE  IInv'
  BY <1>1, RunResolutionInvariant
<1>2. ASSUME NEW r \in Runs, StartResolver(r) \/ RejectResolution(r)
      PROVE  IInv'
  BY <1>2, StartResolverInvariant
<1>3. ASSUME NEW r \in Runs, FulfilResolution(r)
      PROVE  IInv'
  BY <1>3, FulfilResolutionInvariant
<1>4. ASSUME NEW r \in Runs, NEW l \in Leases, NEW k \in Keys, BeginEffectLease(r, l, k)
      PROVE  IInv'
  BY <1>4, BeginEffectLeaseInvariant
<1>5. ASSUME NEW l \in Leases, NEW k \in Keys, BeginSingleFlight(l, k)
      PROVE  IInv'
  BY <1>5, BeginSingleFlightInvariant
<1>6. ASSUME NEW l \in Leases, BeginEffect(l) \/ SettleEffect(l)
      PROVE  IInv'
  BY <1>6, EffectInvariant
<1>7. ASSUME NEW l \in Leases, ReleaseLease(l)
      PROVE  IInv'
  BY <1>7, ReleaseLeaseInvariant
<1>8. CASE BeginReset \/ FulfilReset
  BY <1>8, ResetInvariant
<1>9. CASE WorkerRestart
  BY <1>9, WorkerRestartInvariant
<1>10. CASE UNCHANGED vars
  BY <1>10 DEF vars, IInv, TypeOK, ClaimsTypeOK, RunsOwn, LeasesOwn, LeaseExcludesLateActions,
               ResetBarrier, LiveRun, LiveLease
<1> QED BY <1>1, <1>2, <1>3, <1>4, <1>5, <1>6, <1>7, <1>8, <1>9, <1>10 DEF Next

THEOREM Invariant == Spec => []IInv
BY InitInvariant, StepInvariant, PTL DEF Spec

-----------------------------------------------------------------------------
\* The state of every reachable table and call is one the code can hold.
THEOREM TypeCorrect == Spec => []TypeOK
<1>1. IInv => TypeOK
  BY DEF IInv
<1> QED BY <1>1, Invariant, PTL

\* First action wins, for any number of surfaces.
THEOREM FirstActionAlwaysWins == Spec => []FirstActionWins
<1>1. IInv => FirstActionWins
  <2> SUFFICES ASSUME IInv PROVE FirstActionWins
    OBVIOUS
  <2>1. ASSUME NEW r \in Runs, NEW s \in Runs, r # s
        PROVE  run[r].keys \intersect run[s].keys = {}
    BY <2>1 DEF IInv, TypeOK, RunType, RunsOwn
  <2>2. ASSUME NEW l \in Leases, NEW m \in Leases, l # m, LiveLease(l), LiveLease(m)
        PROVE  lease[l].key # lease[m].key
    BY <2>2 DEF IInv, LeasesOwn
  <2> QED BY <2>1, <2>2 DEF FirstActionWins
<1> QED BY <1>1, Invariant, PTL

\* No late action starts beside an approved effect.
THEOREM LeaseAlwaysExcludesLateActions == Spec => []LeaseExcludesLateActions
<1>1. IInv => LeaseExcludesLateActions
  BY DEF IInv
<1> QED BY <1>1, Invariant, PTL

\* Wallet reset never overlaps a request.
THEOREM ResetNeverOverlaps == Spec => []ResetBarrier
<1>1. IInv => ResetBarrier
  BY DEF IInv
<1> QED BY <1>1, Invariant, PTL

\* A confirming resolver is never refused the lease it asks for.
THEOREM LeaseAlwaysGranted == Spec => []LeaseIsGranted
<1>1. IInv => LeaseIsGranted
  <2> SUFFICES ASSUME IInv, NEW r \in Runs, run[r].state = "running", NEW k \in run[r].keys
               PROVE  CanBeginExternal(k) \/ \E l \in Leases :
                        LiveLease(l) /\ lease[l].key = k /\ lease[l].run = r
    BY DEF LeaseIsGranted
  <2>1. k \in Keys
    BY DEF IInv, TypeOK, RunType
  <2>2. ~walletResetClaim
    BY DEF IInv, ResetBarrier, LiveRun
  <2>3. CASE externalClaims[k] = None
    BY <2>2, <2>3 DEF CanBeginExternal
  <2>4. CASE externalClaims[k] \in Leases
    <3>1. PICK l \in Leases : LiveLease(l) /\ lease[l].key = k
      BY <2>1, <2>4 DEF IInv, LeasesOwn
    <3> QED BY <3>1 DEF IInv, LeaseExcludesLateActions
  <2> QED BY <2>1, <2>3, <2>4 DEF IInv, LeasesOwn
<1> QED BY <1>1, Invariant, PTL

\* A failed call or an effect of unknown outcome keeps its request until the
\* worker restarts.
THEOREM AlwaysFailClosed == Spec => FailClosed
<1> DEFINE Kept == \A k \in Keys :
       /\ (\E r \in Runs : run[r].state = "rejected" /\ k \in run[r].keys)
            => claims'[k] = claims[k] \/ workerLife' # workerLife
       /\ (\E l \in Leases : lease[l].state = "ambiguous" /\ lease[l].key = k)
            => externalClaims'[k] = externalClaims[k] \/ workerLife' # workerLife
<1>1. IInv /\ [Next]_vars => [Kept]_vars
  <2> SUFFICES ASSUME IInv, Next PROVE Kept
    OBVIOUS
  <2>1. ASSUME NEW k \in Keys, NEW r \in Runs, run[r].state = "rejected", k \in run[r].keys
        PROVE  claims'[k] = claims[k] \/ workerLife' # workerLife
    <3>1. claims[k] = r
      BY <2>1 DEF IInv, RunsOwn
    <3>2. ASSUME NEW q \in Runs, NEW keys \in SUBSET Keys, NEW c \in BOOLEAN, RunResolution(q, keys, c)
          PROVE  claims'[k] = claims[k]
      BY <3>1, <3>2, TokensAreDisjoint DEF RunResolution, InstallClaims, CanResolve, IInv, TypeOK, ClaimsTypeOK
    <3>3. ASSUME NEW q \in Runs, FulfilResolution(q)
          PROVE  claims'[k] = claims[k]
      BY <2>1, <3>1, <3>3 DEF FulfilResolution, ReleaseClaims, IInv, TypeOK, ClaimsTypeOK
    <3>4. CASE WorkerRestart
      BY <3>4 DEF WorkerRestart, IInv, TypeOK
    <3> QED
      BY <3>2, <3>3, <3>4 DEF Next, StartResolver, RejectResolution, BeginEffectLease,
         BeginSingleFlight, BeginExternal, BeginEffect, SettleEffect, ReleaseLease,
         FinishExternal, BeginReset, InstallReset, FulfilReset, FinishReset
  <2>2. ASSUME NEW k \in Keys, NEW l \in Leases, lease[l].state = "ambiguous", lease[l].key = k
        PROVE  externalClaims'[k] = externalClaims[k] \/ workerLife' # workerLife
    <3>1. externalClaims[k] = l
      BY <2>2 DEF IInv, LeasesOwn, LiveLease
    <3>2. ASSUME NEW m \in Leases, NEW j \in Keys, BeginExternal(m, j)
          PROVE  externalClaims'[k] = externalClaims[k]
      BY <3>1, <3>2, TokensAreDisjoint DEF BeginExternal, CanBeginExternal, IInv, TypeOK, ClaimsTypeOK
    <3>3. ASSUME NEW m \in Leases, ReleaseLease(m)
          PROVE  externalClaims'[k] = externalClaims[k]
      BY <2>2, <3>1, <3>3 DEF ReleaseLease, FinishExternal, IInv, TypeOK, ClaimsTypeOK
    <3>4. CASE WorkerRestart
      BY <3>4 DEF WorkerRestart, IInv, TypeOK
    <3> QED
      BY <3>2, <3>3, <3>4 DEF Next, RunResolution, InstallClaims, StartResolver, RejectResolution,
         FulfilResolution, ReleaseClaims, BeginEffectLease, BeginSingleFlight, BeginEffect,
         SettleEffect, BeginReset, InstallReset, FulfilReset, FinishReset
  <2> QED BY <2>1, <2>2
<1> QED BY <1>1, Invariant, PTL DEF Spec, FailClosed
=============================================================================
