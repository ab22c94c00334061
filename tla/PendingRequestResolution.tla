---------------------- MODULE PendingRequestResolution ----------------------
(***************************************************************************)
(* Every way the extension uses the claim tables, with the work of the     *)
(* callers left out: resolvers that own one or more keys, effect leases    *)
(* taken by a confirming resolver and handed to a background processor,    *)
(* the single-flight of ERC-7715, wallet reset, and the restart of the     *)
(* service worker.  Any number of these overlap at their await points.     *)
(***************************************************************************)
EXTENDS PendingRequestClaims, Naturals

CONSTANTS Runs,              \* calls of runPendingRequestResolutions in progress
          Leases,            \* leases and single-flight claims in progress
          SingleFlightKeys,  \* keys that only erc7715/resolution.ts uses
          MaxWorkerLives     \* bound: restarts of the service worker

ASSUME TokensAssumption == Tokens = Runs \union Leases
ASSUME DisjointAssumption == Runs \intersect Leases = {}
ASSUME SingleFlightAssumption == SingleFlightKeys \subseteq Keys
ASSUME MaxLivesAssumption == MaxWorkerLives \in Nat

VARIABLES run,         \* what each resolver call is doing
          lease,       \* what each lease is doing
          workerLife   \* how many times the worker was restarted

vars == <<claims, externalClaims, walletResetClaim, run, lease, workerLife>>

RunStates == {"idle", "claimed", "running", "rejected"}
RunType == [state : RunStates, keys : SUBSET Keys, confirms : BOOLEAN]
IdleRun == [state |-> "idle", keys |-> {}, confirms |-> FALSE]

LeaseStates == {"free", "held", "ambiguous"}
LeaseType == [state : LeaseStates, key : Keys \union {None}, run : Runs \union {None}]
FreeLease == [state |-> "free", key |-> None, run |-> None]

TypeOK ==
  /\ ClaimsTypeOK
  /\ run \in [Runs -> RunType]
  /\ lease \in [Leases -> LeaseType]
  /\ workerLife \in 0..MaxWorkerLives

Init ==
  /\ ClaimsInit
  /\ run = [r \in Runs |-> IdleRun]
  /\ lease = [l \in Leases |-> FreeLease]
  /\ workerLife = 0

-----------------------------------------------------------------------------
\* The claims are installed before the resolver runs at all.
RunResolution(r, keys, confirms) ==
  /\ run[r].state = "idle"
  /\ InstallClaims(r, keys)
  /\ run' = [run EXCEPT ![r] = [state |-> "claimed", keys |-> keys, confirms |-> confirms]]
  /\ UNCHANGED <<lease, workerLife>>

\* The deferred microtask: options.resolve starts.
StartResolver(r) ==
  /\ run[r].state = "claimed"
  /\ run' = [run EXCEPT ![r].state = "running"]
  /\ UNCHANGED <<claims, externalClaims, walletResetClaim, lease, workerLife>>

FulfilResolution(r) ==
  /\ run[r].state = "running"
  /\ ReleaseClaims(r, run[r].keys)
  /\ run' = [run EXCEPT ![r] = IdleRun]
  /\ UNCHANGED <<lease, workerLife>>

\* An unexpected exception keeps every claim until the worker restarts.
RejectResolution(r) ==
  /\ run[r].state = "running"
  /\ run' = [run EXCEPT ![r].state = "rejected"]
  /\ UNCHANGED <<claims, externalClaims, walletResetClaim, lease, workerLife>>

\* beginPendingRequestEffectLease, called by a confirming resolver.
BeginEffectLease(r, l, k) ==
  /\ run[r].state = "running" /\ run[r].confirms
  /\ k \in run[r].keys
  /\ lease[l].state = "free"
  /\ BeginExternal(l, k)
  /\ lease' = [lease EXCEPT ![l] = [state |-> "held", key |-> k, run |-> r]]
  /\ UNCHANGED <<run, workerLife>>

\* runErc7715PermissionResolution: no resolver claim goes with it.
BeginSingleFlight(l, k) ==
  /\ k \in SingleFlightKeys
  /\ lease[l].state = "free"
  /\ BeginExternal(l, k)
  /\ lease' = [lease EXCEPT ![l] = [state |-> "held", key |-> k, run |-> None]]
  /\ UNCHANGED <<run, workerLife>>

BeginEffect(l) ==
  /\ lease[l].state = "held"
  /\ lease' = [lease EXCEPT ![l].state = "ambiguous"]
  /\ UNCHANGED <<claims, externalClaims, walletResetClaim, run, workerLife>>

SettleEffect(l) ==
  /\ lease[l].state = "ambiguous"
  /\ lease' = [lease EXCEPT ![l].state = "held"]
  /\ UNCHANGED <<claims, externalClaims, walletResetClaim, run, workerLife>>

\* Faulty: releases although the outcome of the effect is unknown.
ReleaseAnyLease(l) ==
  /\ lease[l].state # "free"
  /\ FinishExternal(l, lease[l].key)
  /\ lease' = [lease EXCEPT ![l] = FreeLease]
  /\ UNCHANGED <<run, workerLife>>

\* releaseIfSafe does nothing while an effect has an unknown outcome.
ReleaseLease(l) ==
  /\ lease[l].state = "held"
  /\ FinishExternal(l, lease[l].key)
  /\ lease' = [lease EXCEPT ![l] = FreeLease]
  /\ UNCHANGED <<run, workerLife>>

BeginReset ==
  /\ InstallReset
  /\ UNCHANGED <<run, lease, workerLife>>

\* Only a fulfilled reset comes here; a rejected one keeps the barrier.
FulfilReset ==
  /\ walletResetClaim
  /\ FinishReset
  /\ UNCHANGED <<run, lease, workerLife>>

WorkerRestart ==
  /\ workerLife < MaxWorkerLives
  /\ LoseClaims
  /\ run' = [r \in Runs |-> IdleRun]
  /\ lease' = [l \in Leases |-> FreeLease]
  /\ workerLife' = workerLife + 1

Next ==
  \/ \E r \in Runs, keys \in (SUBSET (Keys \ SingleFlightKeys)) \ {{}}, c \in BOOLEAN :
       RunResolution(r, keys, c)
  \/ \E r \in Runs : StartResolver(r) \/ FulfilResolution(r) \/ RejectResolution(r)
  \/ \E r \in Runs, l \in Leases, k \in Keys : BeginEffectLease(r, l, k)
  \/ \E l \in Leases, k \in Keys : BeginSingleFlight(l, k)
  \/ \E l \in Leases : BeginEffect(l) \/ SettleEffect(l) \/ ReleaseLease(l)
  \/ BeginReset
  \/ FulfilReset
  \/ WorkerRestart

Spec == Init /\ [][Next]_vars

-----------------------------------------------------------------------------
LiveRun(r) == run[r].state # "idle"
LiveLease(l) == lease[l].state # "free"

\* One surface owns a request: two calls in progress never share a key, and
\* two leases never cover the same request (popup, side panel and full page
\* render the same prompt).
FirstActionWins ==
  /\ \A r, s \in Runs : r # s => run[r].keys \intersect run[s].keys = {}
  /\ \A l, m \in Leases : l # m /\ LiveLease(l) /\ LiveLease(m) => lease[l].key # lease[m].key

\* While a background processor still holds the lease of a request, the only
\* resolver that can own the request is the one that took the lease: no late
\* reject, second confirm, edit or move starts beside an approved effect.
LeaseExcludesLateActions ==
  \A r \in Runs, l \in Leases :
    LiveLease(l) /\ lease[l].key \in run[r].keys => lease[l].run = r

\* Wallet reset never overlaps a resolver, a lease, an effect whose outcome is
\* unknown, or a call that failed with an exception.
ResetBarrier ==
  walletResetClaim =>
    /\ \A r \in Runs : ~LiveRun(r)
    /\ \A l \in Leases : ~LiveLease(l)

\* The lease of a request is refused only to a resolver that holds it already.
\* The confirmation handlers take it after they removed the stored prompt, and
\* answer "Wallet reset is in progress" when it is refused: the request would
\* be lost without a result, so that branch must be unreachable.
LeaseIsGranted ==
  \A r \in Runs : run[r].state = "running" =>
    \A k \in run[r].keys :
      CanBeginExternal(k) \/ \E l \in Leases : LiveLease(l) /\ lease[l].key = k /\ lease[l].run = r

\* A request whose resolver threw, or whose effect has an unknown outcome, is
\* not given away before the worker restarts: nothing may sign it again.
FailClosed ==
  [][\A k \in Keys :
       /\ (\E r \in Runs : run[r].state = "rejected" /\ k \in run[r].keys)
            => claims'[k] = claims[k] \/ workerLife' # workerLife
       /\ (\E l \in Leases : lease[l].state = "ambiguous" /\ lease[l].key = k)
            => externalClaims'[k] = externalClaims[k] \/ workerLife' # workerLife]_vars
=============================================================================
