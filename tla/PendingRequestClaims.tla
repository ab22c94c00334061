------------------------ MODULE PendingRequestClaims ------------------------
(***************************************************************************)
(* The claim tables of requests/pendingRequestResolution.ts: module-level  *)
(* maps of the service worker, and the calls that read and write them.     *)
(* Every call is synchronous up to its return, so each is one step here.   *)
(*                                                                         *)
(* A key is `family:requestId`.  A token (a Symbol in the code) is the     *)
(* identity of whoever installed the entry.                                *)
(***************************************************************************)
CONSTANTS Keys,     \* claim keys of the requests
          Tokens,   \* identities that can own an entry of a table
          None      \* no entry

ASSUME NoneIsNoToken == None \notin Tokens

VARIABLES claims,            \* Map of resolver claims, by key
          externalClaims,    \* Map of leases and single-flight claims, by key
          walletResetClaim   \* the reset barrier is installed

claimVars == <<claims, externalClaims, walletResetClaim>>

ClaimsTypeOK ==
  /\ claims \in [Keys -> Tokens \union {None}]
  /\ externalClaims \in [Keys -> Tokens \union {None}]
  /\ walletResetClaim \in BOOLEAN

ClaimsInit ==
  /\ claims = [k \in Keys |-> None]
  /\ externalClaims = [k \in Keys |-> None]
  /\ walletResetClaim = FALSE

-----------------------------------------------------------------------------
\* Faulty variants of the calls below, each with one check missing or wrong.
\* The properties must tell them from the real ones.
CanResolveBesideResolver(keys) == ~walletResetClaim /\ \A k \in keys : externalClaims[k] = None
CanResolveBesideLease(keys) == ~walletResetClaim /\ \A k \in keys : claims[k] = None
CanResetBesideResolver == ~walletResetClaim /\ \A k \in Keys : externalClaims[k] = None
CanResetBesideLease == ~walletResetClaim /\ \A k \in Keys : claims[k] = None
BeginExternalWithKey(token, k) ==
  /\ externalClaims' = [externalClaims EXCEPT ![k] = k]
  /\ UNCHANGED <<claims, walletResetClaim>>

\* No reset, and no key of the call owned by a resolver or by a lease.
CanResolve(keys) ==
  /\ ~walletResetClaim
  /\ \A k \in keys : claims[k] = None /\ externalClaims[k] = None

\* All the keys or none: the move of a request owns source and destination.
InstallClaims(token, keys) ==
  /\ CanResolve(keys)
  /\ claims' = [k \in Keys |-> IF k \in keys THEN token ELSE claims[k]]
  /\ UNCHANGED <<externalClaims, walletResetClaim>>

\* Only the entries that still carry the caller's token.
ReleaseClaims(token, keys) ==
  /\ claims' = [k \in Keys |-> IF k \in keys /\ claims[k] = token
                                 THEN None ELSE claims[k]]
  /\ UNCHANGED <<externalClaims, walletResetClaim>>

\* The call does not look at `claims`: its caller owns the claim already.
CanBeginExternal(k) == ~walletResetClaim /\ externalClaims[k] = None

BeginExternal(token, k) ==
  /\ CanBeginExternal(k)
  /\ externalClaims' = [externalClaims EXCEPT ![k] = token]
  /\ UNCHANGED <<claims, walletResetClaim>>

FinishExternal(token, k) ==
  /\ externalClaims' = [externalClaims EXCEPT ![k] = IF @ = token THEN None ELSE @]
  /\ UNCHANGED <<claims, walletResetClaim>>

CanReset ==
  /\ ~walletResetClaim
  /\ \A k \in Keys : claims[k] = None /\ externalClaims[k] = None

InstallReset ==
  /\ CanReset
  /\ walletResetClaim' = TRUE
  /\ UNCHANGED <<claims, externalClaims>>

FinishReset ==
  /\ walletResetClaim' = FALSE
  /\ UNCHANGED <<claims, externalClaims>>

\* A new service worker evaluates the module anew: the maps are empty.
LoseClaims ==
  /\ claims' = [k \in Keys |-> None]
  /\ externalClaims' = [k \in Keys |-> None]
  /\ walletResetClaim' = FALSE
=============================================================================
