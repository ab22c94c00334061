# WalletChan in TLA+

WalletChan is a browser-extension wallet (`apps/extension`, Manifest V3) with a
set of services and Solidity contracts around it. What makes it hard is its
service worker (`apps/extension/src/chrome`, about 100 000 lines of
TypeScript): many asynchronous handlers share memory that vanishes whenever the
browser stops the worker, and `chrome.storage`, which does not vanish. Pages,
several extension windows, RPC endpoints and timers call into it in any order.
A mistake in that order sends money twice, sends it after the user said no, or
tells a page something that did not happen.

This project models that concurrency. It does not model how calldata is
decoded, how keys are derived or how a screen looks.

## 1. Inventory of the system

Paths are relative to `src/apps/extension/src/chrome` unless they start with
`apps/`.

| Component | State it keeps | Operations | Interacts with | Correct when |
|---|---|---|---|---|
| Claims, leases, reset barrier (`requests/pendingRequestResolution.ts`) | three in-memory tables: resolver claims, external claims, reset claim | run a resolution over one or more keys, begin/finish an external claim, begin/settle/release an effect lease, run a wallet reset | every router that confirms, rejects, edits, splits, moves or expires a request | one owner per request; the owner keeps it through failures; reset overlaps nobody |
| Prompts (`requests/pendingTxStorage.ts` and its siblings for signatures, batches, permissions) | a list per family in `chrome.storage`, bounded in all and per origin | save, remove, read, edit | intake, surfaces, expiry, reset | a prompt is consumed once, and bounded |
| Transaction requests of local accounts (`transactions/`, `localSigning/`) | `processingTxIds`, abort controllers, `txResult:<id>`, history row | intake, confirm, reject, sign and send in the background, fail, cancel | claims, authorization, account store, operation lock, RPC, history, page | at most one send; never after a denial; the page is answered truthfully |
| Site authorization (`requests/pendingRequestLifecycle.ts`, `requests/dappPermissionStorage.ts`, `dapp/`) | permission per origin (storage), revoking set and epoch per origin (memory) | grant, revoke, validate at intake, at confirmation, in the processor and before the raw send | tabs, prompts, claims | nothing leaves for a site that lost its permission |
| Wallet reset (`background/reset`, `transactions/securityReset.ts`) | reset claim, operation lock | check, take the lock, wipe | everything | no effect and no prompt of the old wallet survives |
| Accounts (`accounts/`, `transactions/accountMutations.ts`, `vault/`) | account list and secrets in storage | add, derive, remove, convert | signing, permissions, nonce cache | nothing is signed for an account that is gone |
| History and receipts (`history/`, `forceInclusion/receiptPolling.ts`, `receiptFinalizer.ts`, `receiptHistory.ts`) | rows in IndexedDB, poller table and miss counts in memory | add, update, poll receipts, check from a page, drop a replaced transaction, startup cleanup, cancel | processors, split bundles, cross-dapp batch | a sent transaction is never recorded as failed; final statuses stay final |
| Nonce manager (`forceInclusion/nonceManager.ts`) | next nonce per account and chain, with a TTL (memory) | peek, reserve, reset, clear | all local processors | two sends do not collide, no gap is left |
| Split bundles, ERC-5792 (`forceInclusion/splitBatchSequencer.ts`, `batch/bundleStatusStorage.ts`) | bundle status, index of the next call (storage) | start, advance, terminalize | receipts, prompts | calls are queued once, in order; a terminal bundle stays terminal |
| Cross-dapp batch (`crossDappBatch/`) | staged entries of several sites (storage) | stage by move, reorder, confirm, cancel | claims, authorization epochs of several origins | no entry is lost or executed twice |
| Sessions (`auth/`, `session/`, `authTransition.ts`) | decrypted keys, open pages, cached policy, ceremony epoch (memory); the capability (`storage.session`) and its key (`storage.local`); the timeout (`storage.sync`) | unlock by password or passkey, lock, restore, page lease, change of timeout and password | pages, signing handlers, reset | no keys after a lock, after the timeout, after a new password, until the user authenticates |
| Signature requests (`signatures/`) | prompts, results | sign, reject, expire | claims, authorization | a signature is released only while still authorized |
| ERC-7715 permissions (`erc7715/`) | grants, prompts, one promise per request in flight | grant, redeem, revoke, expire | claims, authorization | one resolution per request |
| Safe proposals (`safe/`) | proposals, effects (storage) | propose, confirm, execute, reconcile nonce | claims, nonce manager | a proposal is executed once |
| WalletConnect (`walletConnect/`) | routes, durable outbox | pair, request, answer, replay | intake, results | every request gets exactly one terminal response |
| Bankr accounts (`bankr/`) | jobs | submit to a remote signer, poll | claims, history | an uncertain submission is not repeated |
| Fee payment, sponsored transfers (`feePayment/`, `sponsoredTransfers/`) | quotes, intents | quote, consume, submit | batch execution | a quote is used once |
| Privacy pools (`privacy/`) | operations, notes (IndexedDB) | shield, unshield, ragequit, track | transaction processors | an operation follows the transaction that carries it |
| Vault cryptography, passkeys, mnemonics | encrypted blobs | encrypt, decrypt, derive | sessions | out of scope: data transformations |
| Calldata decoding, simulation, clear signing, portfolio, ENS | caches | remote reads, display | user interface | out of scope: display data |
| User interface (`apps/extension/src`) | React state | sends messages | service worker | modelled only as surfaces that act at any time |
| Contracts (`apps/contracts/src`) | vault shares, reward index, drip streams | deposit, withdraw, donate, drip, swap hooks | indexers | rewards and penalties are conserved |
| Indexers, bots, RPC and MCP servers, website | their own databases | serve | contracts, wallet | out of scope |

### What is hard here

- **Interleaving at awaits.** JavaScript is single-threaded, so a handler is
  atomic between two awaits and nothing more. Popup, side panel and full-page
  windows show the same prompt; the router, a processor, an expiry and a reset
  are all suspended somewhere at the same time.
- **Values read before an await and used after it.** Permission, tab origin,
  account, cached nonce, history status, bundle index.
- **Restarts.** Chrome stops the worker at any await: the claim tables, the
  revocation gate, the locks and all running handlers are gone, the storage is
  not.
- **Effects of unknown outcome.** A lost RPC answer does not mean that the
  transaction was not accepted.
- **Exceptions half way.** Between the durable write and the badge update,
  between removing a prompt and writing its result.
- **Waiting without a timeout.** A page waits for a storage key for ever, so each
  path must write it.

`PROJECT.json` lists these as hazards, each at the line where it bites.

## 2. Modules

| Module | What it is |
|---|---|
| `PendingRequestClaims` | The three claim tables and the synchronous calls on them, one operator per call. Shared by the three modules below. |
| `PendingRequestResolution` | The tables under all their callers: resolver calls over any set of keys, leases, single-flight claims, reset, restart. The work of the callers is left out, so the module is small enough to prove about. |
| `RequestOutcome` | The abstract promise about one request: queued, approved, sent at most once or dropped, and told the truth once. |
| `TransactionRequest` | The full life of a transaction request of a private-key or seed-phrase account, composed with authorization, revocation, account removal, reset, restart and startup cleanup. Refines `RequestOutcome`. |
| `CrossDappBatch` | The one batch that collects requests of several sites: moved in, dismissed, cancelled by a revocation, confirmed under the authorization of all its sources, shipped, fanned out to the sites. |
| `NonceManager` | The cached next nonce of one account on one chain under the processors that use it. |
| `TransactionReceipts` | What becomes of a broadcast transaction: history row, poller, checks a page asks for, startup recovery. |
| `SplitBundle` | A `wallet_sendCalls` bundle cut into single prompts, on top of `TransactionReceipts`: the receipt of a call decides about the next. |
| `Session` | Keys in memory, the persisted capability and its key, the pages that keep a session alive, the auto-lock policy, and the serialized transitions over them. |
| `WCHANVault` | The staking vault: shares, assets, penalty timer, WETH rewards, with the integer rounding of the contract. |
| `DripWCHANRewards` | The contract that streams rewards into the vault, composed with it. |
| `PendingRequestResolutionProofs`, `NonceManagerProofs`, `SplitBundleProofs`, `CrossDappBatchProofs`, `SessionProofs` | Inductive invariants and theorems, checked by TLAPS. |
| `RewardsProofs` | The same for `WCHANVault` and `DripWCHANRewards`, with the sums and quotients they need. |
| `TransactionRequestProofs`, `OutcomeProofs` | The same for `TransactionRequest`: ownership and sending, then who may send and the refinement of `RequestOutcome`. |
| `MC...` | Model values and small instances for TLC. |

`TransactionRequest` takes the nonce as part of `Prepare`; `NonceManager` opens that
step up for several transactions at once. `SplitBundle` and `CrossDappBatch` take a
prompt's own decision as one step; `TransactionRequest` opens that up. `CrossDappBatch`
takes a receipt as one step; `TransactionReceipts` opens that up.

### Correspondence

*Claim tables.* `claims`, `externalClaims`, `walletResetClaim` are the variables
of the same names. A Symbol token is the identity of the call that made it. Each
call is synchronous up to its return, hence one step. `RunResolution` is the
call, `StartResolver` the deferred microtask that starts the resolver,
`FulfilResolution` and `RejectResolution` the two ways it settles.

*Transaction requests.* `pending`, `txResult`, `history`, `permission`,
`accounts` are what is stored; `processingTxIds`, `revoking`, `revocationEpoch`,
`operationLock` (the `withStorageLock` queue of
`WALLET_SECRET_OPERATION_LOCK_KEY`) and the handlers in progress are the memory
of the worker; `sent` counts distinct signed transactions given to an RPC and
`dapp` is what the page was answered. Each action is what a handler does from
one await to the next:

| Code | Actions |
|---|---|
| content script and `handleTransactionRequest` | `Ask`, `AuthorizeIntake`, `PinAccount`, `SaveRequest`, `UpdateBadge`, `Answer` |
| `handleRejectTransaction` | `Reject` (claim), `RejectRead`, `RejectRemove`, `RejectWrite` |
| `handleConfirmTransactionAsyncPK` | `Confirm` (claim), `CheckProcessing`, `ReadPending`, `Preflight`, `Consume`, authorization, `TakeLease`, `HandOff` |
| `enforcePendingRequestAuthorizationAtConfirmation` | `PassGate`, `ReadPermission`, `Decide`, `Deny`, run three times (`stage`) |
| `processLocalTransactionInBackground` | `RecordProcessing`, `Prepare`, authorization, `AcquireOperationLock`, `Sign`, `RereadAccount`, authorization, `Respond`, `PublishSent`, `WriteSuccess`, `Finally`; `ProcessorFails`, `FailHistory`, `FailResult` |
| `handleRevokeDappPermission`, `cancelPendingRequestsForDappOrigin` | `BeginRevocation`, `DeletePermission`, `SnapshotPrompts`, `ClaimPrompts`, `ExpireRemove`, `ExpireWrite`, `FinishRevocation` |
| `executeWalletReset` under `runWalletResetAgainstPendingResolutions` | `BeginReset`, `ResetChecks`, `ResetResults`, `ResetWallet`, `ResetThrows` |
| worker restart, `cleanupStaleProcessingTxs` | `WorkerRestart`, `ReadStaleHistory`, `FailStaleHistory` |

Abstractions, and why they lose nothing the properties speak of:

- One site. Requests of several sites meet in the prompt limit and in the
  operation lock, where the requests of `Keys` stand for all of them, and in the
  cross-dapp batch, which has a module of its own.
- Which calls fail is a parameter. `StorageFaults`: any storage call of a handler, a
  processor, a revocation or a reset may throw (`HandlerThrows`, `RevocationThrows`,
  `ResetThrows`, ...). `BadgeFaults`: the badge update after intake may throw; that failure has
  a parameter of its own because it alone breaks the promise to the page (section 4).
  `RevocationThrows` is the `finally` of `handleRevokeDappPermission`: the gate opens although the
  work is not done. In the claims of the expiries (`claim`) nothing throws.
- The tab may be closed or navigated at any time: its origin is a free choice in
  `Decide`.
- Retrying identical signed bytes (sync send, then async send) is one send:
  `broadcastSerializedTransaction` never prepares a second transaction.
- Removing the prompt and writing the denial (`Deny`) is one step; a restart
  between the two is covered by the one between `Consume` and the check.
- A change event can deliver a result that was overwritten since. `DenialIsFinal`
  and `KeepsPromise` therefore speak of every value `txResult` ever has, and not
  only of the one the page reads.
- Fee-token, force-inclusion, EIP-7702 and privacy branches leave the same
  skeleton (claim, consume, lease, guarded effect) and are not modelled.

*Receipts.* `row` and `uncertain` are the history row, `pollers` and `notFound` the
tables of `receiptPolling.ts` and `receiptFinalizer.ts`, `worker` the handler calls
under way, `chain` what the network knows. `PollTick` and `UiCheck` start
`checkAndFinalizeReceipt`, whose awaits separate `FetchReceipt`, `LookupTx`,
`EvaluateMissing` (tolerate, drop as replaced, or give up) and `RecordOutcome`
(`applyReceiptToHistory`). `CleanupRead`, `CleanupWrite`, `ResumePollers` are
`startRecoveryLifecycle`.

*Split bundles.* `bundle` is the stored `BundleStatus`; of its hashes the model keeps
the calls they belong to. `Split`, `SplitStatus`, `SplitRemove` are
`handleSplitBatchIntoIndividualTxs`; `Enqueue`, `Save` queue the next call;
`AdvanceRead` is the read and the index check of `advanceSplitBundle`,
`AdvanceSuccess` and `AdvanceFailure` its write, `FinalizeRead` and `Finalize` the
last success. `HashesAfter` is computed from the hashes read before the await.
`CancelRead` and `CancelWrite` are `handleCancelProcessingTx`. `PriorReady` is the check
of the Confirm button (`useSplitPriorTxState`).

*Session.* `runSerializedAuthTransition` lets one transition run at a time: `op` is
its kind and the await it stands at. `cap` stands for both halves of `SessionCapability`, the
ciphertext in `storage.session` and its key in `storage.local`: `NoCap` is no ciphertext,
`Unreadable` a ciphertext without its key (sealing a new one makes the stored key useless), and
otherwise it is a capability that `Opens`. Unlock by password or passkey revokes the old halves (`RevokeKey`,
`RevokeCipher`), stores new ones (`SetCipher`, `SetKey`) and installs the keys (`Commit`);
a restoration validates the capability (`Restorable`), installs, reads the policy again
(`Recheck`) and renews the lease. Pages are `open` (the browser), `surfaces` (the
registered ids in memory) and `ports`; the three differ between an event and its delivery.
A page id is a fresh UUID, so a name is free again only when no table holds it. The clock
moves while nothing is under way, since no handler takes as long as a timeout.
The timeout changes from a page, locked or not (`SetTimeout`), or on another device
(`SyncTimeout`, then `DeliverEvent` and `PolicyRevoke`); neither is an authentication.
`CommitFails` is a vault that does not open with the key of a passkey or of a capability: the
transition clears everything (kind `refuse`), as it does when the policy changed under it; when a
storage call of a transition fails, its `catch` clears once more and ignores what fails then
(kind `giveUp`). Three
history variables say what a property needs: `lastSeen`, when a page was last open, `changed`,
whether the setting changed since then, and
`ended`, what ended the session since the last authentication: a lock, the timeout or a new
password (a lock or a new password overrides an expiry).

*Cross-dapp batch.* `batch` is the one stored list. `op[a].read` is the list a call read
before its awaits and writes back changed. `ClaimMove` takes the claims of the request and of the
batch at once; `AddSet` and `AddRemove` are the two writes of the move. `Capture`,
`Validate`, `CommitFirst`, `CommitRefused` are
`enforceCrossDappBatchAuthorizationAtConfirmation`, which runs twice (`final`); `Broadcast` is its
second commit together with the raw send. `PublishHash`, `UpdateHistory`, `FanOut`, `Clear`
are `publishCrossDappBatchShipResult`, `Track` is the tracker of a pending batch, `Cancel`, `DropWrite`,
`DropAnswer` what a revocation does. A group of entries (one request) is one element, and
`CallsOf` says how many calls it is. The limit on the calls of the batch (`TooMany`) is asked of a
single transaction only, as in `handleAddToCrossDappBatch`; a bundle has been measured alone at its
intake, and `handleAddCallsToCrossDappBatch` lets it take the batch beyond the limit.
`torn` collects the requests of which a restart interrupted one of two writes.

*Contracts.* One action per external function, a transaction being atomic; `Snapshot` is
`_snapshotReward`, `Blended` the weighted timer of `_update`, `WithdrawTerms` the terms of
`withdraw`, `Settled` and `ToppedUp` the two halves of `configureDrip`. When `configureDrip` pays
WETH twice, for the past and for the first interval, each donation is rounded on its own
(`DonateRewards`); two donations of WCHAN are one, since nothing is divided.

## 3. Runs

| Run | Instance | Question | Result |
|---|---|---|---|
| `claims` | 3 keys (one ERC-7715), 2 calls, 2 leases, 1 restart | do the tables give a request to one owner, keep it through failures, keep reset apart, and always grant the lease? | holds |
| `tx_request` | 1 request of a page, 2 surfaces, 2 accounts, 2 revocations per worker life one after the other, 1 reset, 1 restart, storage calls throw | does a request keep the promise of `RequestOutcome` and its safety properties, and an owner whatever throws? | holds |
| `tx_liveness` | 1 request, 2 surfaces, 1 revocation, fairness | is the page answered, are lock and gate given back? | holds |
| `nonces` | 3 transactions, nonces 0 to 3, time to live 2 of 3 ticks | do nonces computed one after the other increase, does the cache ever move backwards? | holds |
| `split_bundle` | 2 calls, 2 concurrent handlers, 2 misses tolerated, 1 incident, 2 sends | are calls queued once and in order, is the bundle's status true and final, does it end? | holds |
| `session` | 2 pages, timeouts Never and 2, 3 ticks, revocations and stores may fail, the setting may change at any time | do a lock, the timeout and a new password end the session for good? | holds |
| `cross_dapp` | a transaction and a bundle of 2 calls, of two sites, a limit of 2 calls, 2 surfaces, 1 revocation per site, 1 restart | is nothing lost, sent twice or sent for a revoked site, and are the sites told the truth once? | holds |
| `rewards` | 2 stakers, 5 calls, 3 ticks, amounts 1 and 10 | are vault and drip solvent, can the maximum be withdrawn, does a share ever lose? | holds |
| `tx_restart` | 1 restart | is a sent transaction ever recorded as failed? | violated, see below |
| `nonce_overlap` | as `nonces` | do two transactions ever hold the same computed nonce? | violated, see below |
| `session_leak` | as `session`, lease writes may fail | is inactivity final? | violated, see below |
| `split_offchain` | as `split_bundle`, no incident | does an off-chain failure mean that nothing executed? | violated, see below |

### Properties

- `FirstActionWins`, `LeaseExcludesLateActions`, `ResetBarrier`, `LeaseIsGranted`,
  `FailClosed` are the contract of the claim tables that SECURITY.md calls first
  action wins. `LeaseIsGranted` says that the branch "Wallet reset is in progress"
  of the confirmation handlers is dead code; that matters because the handler has
  already removed the prompt there.
- `AtMostOneSend`, `DenialIsFinal`, `ConsumedIsCovered`, `ResetIsExclusive`,
  `NoSendAfterRevocation`, `NoSendFromRemovedAccount` are its consequences for a
  transaction. `ConsumedIsCovered` is the seam of the design: between the removal
  of the prompt and the last write of its outcome, the request is owned by the
  resolver's claim or by the lease, without a gap; a handler that throws keeps its claim for
  good, since nobody knows how far it came. `NoSendAfterRevocation` excepts what follows two
  revocations that overlapped (section 4).
- `KeepsPromise` is the refinement of `RequestOutcome`.
- `ConsumedIsAnswered` and `LocksAreReleased` are its liveness properties.
- `LaterReservationIsHigher` and `CacheNeverMovesBackwards` are what remains true of the
  nonce manager although others reserve, fail and reset during an RPC call. The
  auxiliary variable `covered` (and `behind`, its copy in a snapshot) names the
  reservations that an entry accounts for; no action depends on it.
- `InOrder`, `NothingRepeated`, `StatusIsTrue`, `TerminalIsFinal` relate what the
  sequencer stores to what the chain did, under pollers and pages that look at the same
  transaction, a cancellation beside the processor, and a restart at any await. The last three
  are stated for behaviours in which no two observers of one transaction overlapped
  (`overlapped`, section 4); `InOrder` has no such condition. What `StatusIsTrue` can say of
  `OFFCHAIN_FAILURE` is less than its name: the calls before the one that stopped the bundle
  succeeded, and no later call was sent; `OffchainMeansNothingExecuted` is what the document says,
  and the code violates it. `Finishes` is the liveness property.
- `LockIsFinal`, `InactivityIsFinal`, `RotationIsFinal` say that what ended a session ends it until
  the user authenticates again, over worker lives and with one half of the capability
  surviving. `InactivityIsFinal` excepts a setting that changed since the last sign of life
  (section 4).
- `SentOnce`, `NothingLost`, `AnswerIsTrue`, `AnswerIsFinal` say that a request moved into the
  batch stays one request with one outcome although every writer rewrites the whole list;
  `AuthorizedSend` that one stale source is enough to hold the batch back. The first four
  except the requests in `torn`.
- `RewardSolvency`, `DripSolvency`, `MaxWithdrawWorks`, `SharePriceNeverFalls` are the accounting
  of the contracts under integer division.

### Bounds

Two surfaces are enough for every race between owners: a third would find the
claim taken as the second does. Two revocations per worker life let the gate close at any
point of a request, and let the site be connected and revoked again while one check is under
way; a restart resets the epoch. There is one revoker in `tx_request`, so they do not overlap.
There is one request, so neither the limit on prompts nor a wait of one request for the
operation lock of another is reached by TLC; the theorems hold for any set of requests and
any limit. One restart can fall at any
await of any handler; a second adds no state that the first did not leave (memory is
empty, storage is one of the states already reached). One reset likewise.
Three transactions
and four nonces reach the limit on nonces and let one processor hold a snapshot
while a second reserves and a third fails. Two
accounts let one be removed while the other is left, as the code demands.

Two calls of a split bundle have a first, a next and a last; two handlers at once let two
observers, or an observer and a cancellation, meet on one call. `MaxIncidents` 1 lets one
restart, expired poller, refused prompt, revocation or unanswered send fall at any point.
The timeout of 2 ticks lets a page open and close within it; the third tick lets a session outlive it.
The bundle fills the cross-dapp batch (`MaxCalls`) and refuses the transaction, while the bundle
follows the transaction beyond the limit; they have different sites. `MaxSends` 2 lets
a second send be seen. Five calls reach deposit, transfer, donation, early withdrawal and claim in every
order; the scaled constants (`SCALE` 4, `BPS` 10, a seed of 1) make every division round, and an
amount of 10 makes a penalty of 2, of which one half is burned. The
width of `uint256` is out of reach of the amounts and not modelled.

Surfaces, pages, leases, transactions and stakers are symmetric and reduced by symmetry in
safety runs only.
`CHECK_DEADLOCK FALSE` stands where the system may really stop: after storage
faults every surface may hold a claim of a call that threw, until a restart that
the instance does not have; a bundle, a batch and the bounded calls of the contracts
come to an end; the clock does.

### Fairness

Weak fairness on the steps of handlers, processors, intake, revocation and
cleanup: a promise that was started settles, since storage calls return and RPC
calls have timeouts. Strong fairness on `AcquireOperationLock` and on the reset:
`withStorageLock` is a FIFO queue of promises, so a waiter is served even if
others keep coming. Nothing a person, a page or the browser decides (asking,
confirming, rejecting, revoking, restarting) is fair in `tx_liveness`, which has no
restart and no reset: after either, nothing in the code answers a waiting page
(section 4).

`SplitBundle` adds weak fairness on the poller's ticks (an interval timer), on mining, and
on the user's answer to a prompt; strong fairness on the answers of the RPC, which may fail
any number of times but not for ever. `Finishes` assumes that no incident happens: after
one the bundle may stay pending for good (section 4).

## 4. Findings

1. **A restart after the raw send records a failure** (`tx_restart`). The hash is
   written only after the RPC answers. `cleanupStaleProcessingTxs` marks the old
   row as failed, without a hash to poll, against SECURITY.md 2089-2091.
2. **Overlapping calls of getNextNonce return the same nonce** (`nonce_overlap`). The
   cache is read before the RPC call and written after it, outside any lock.
3. **A failed lease write keeps the session alive** (`session_leak`).
   `registerWalletUiSurface` counts the page before it writes the lease. If that write
   rejects, the port is closed by the worker, which fires no `onDisconnect` on this
   side, and the surface is never taken out; while it is counted the keys do not
   expire, against IMPLEMENTATION.md 5099-5101.
4. **An off-chain failure after an executed call** (`split_offchain`). The user rejects the second
   call of a split bundle whose first one was mined. `advanceSplitBundle` looks at
   `anyPriorSuccess` for a dropped and for a reverted call, and not for a rejected one
   (`splitBatchSequencer.ts:266`): the bundle reports `OFFCHAIN_FAILURE`, where ERC5792.md 123
   says `PARTIAL_REVERT` if any prior call succeeded.

Seen while modelling, without a run of their own:

*Transaction requests.*

- Overlapping revocations open the gate early: `revokingDappOrigins` is a set and not a
  count (`pendingRequestLifecycle.ts:251`), so the first of two calls to finish opens the gate
  while the second still runs. A check that starts then, reads a permission granted again in
  between and decides after the second deletion lets the send through. `overlapped` records that
  a revocation began while another one ran, and `NoSendAfterRevocation` excepts what follows.
- A throwing badge update denies a live prompt: the prompt is stored, `updateBadge` throws
  (`pendingTxStorage.ts:174`), the page is told of a failure (`requestIntake.ts:149`); the prompt
  can still be confirmed and sent. `DenialIsFinal` and `KeepsPromise` are therefore checked
  without `BadgeFaults`.
- A failed preparation cannot be retried (`localConfirmation.ts:160` consumed the prompt), against the
  table of IMPLEMENTATION.md 6349.
- A wallet reset removes results and prompts and publishes nothing: a page that
  waits then waits for ever, where IMPLEMENTATION.md 2542-2544 speaks of a
  terminal result of the reset lifecycle.
- A restart between `Consume` and the result leaves neither prompt nor result.
- An intake that pinned its account before a reset stores its prompt after it.
  The prompt cannot be sent (`NoSendFromRemovedAccount`), but it appears.

*Split bundles and receipts.*

- Two receipt checks asked for by pages can overlap once the poller has given up. Both pass
  the index check (`splitBatchSequencer.ts:237`) before either writes. The second then finds
  the hash of the first among the earlier ones and turns a revert into a partial
  revert, or queues a call twice. This is what `~overlapped` excludes. A poller and a
  page do not do this: the properties hold for them.
- A bundle stays pending for ever after a restart between the advance and the next prompt
  (`:250`), after a revocation or a denial at confirmation, after a refused prompt, and after the
  cleanup of a stale row: nothing tells the sequencer.
- A transaction of which the nodes lost sight can be flagged dropped and be mined later. The
  write of a cancellation may overwrite a row that was sent in between.

*Cross-dapp batch.*

- A revocation skips entries that another call has claimed; they stay until the user acts.
  They cannot be sent while the site is not connected; after it connects again they can.
- A restart between the two writes of a move leaves a request in its prompt and in the batch
  (`intake.ts:132`); IMPLEMENTATION.md 5485 holds without a restart. A restart while results are
  published leaves a batch that was sent (`completion.ts:198`).
- The tracker of a pending batch lives in memory: after a restart the bundles of the batch
  stay submitted, where 7702.md 265 says that every source bundle is updated.
- An authorization refused in the broadcast hook fails the batch as a whole, where the same
  refusal a moment earlier only drops the refused entries.

- A bundle takes the batch beyond `MAX_BATCH_CALLS` (`intake.ts:153-244` asks for no combined
  limit); only a single transaction is refused (`:78`).

*Session.*

- A changed timeout revives an expired session. Keys are cleared when somebody reads them after
  they expired, not when the time comes; until then they stay in memory, invalid. A change of the
  setting, also one that another device makes, revokes the capability and drops the hard expiry
  (`timeoutTransitions.ts:46-58`) but leaves the keys, and validity is computed from the new
  setting: under a longer one, or Never, they are valid again, and nobody authenticated.
  `session/README.md` 24 says that expiry clears the entire in-memory state.
  `InactivityIsFinal` excepts it (`changed`).
- Unlocking by password does not reset a hard expiry left by a restored session; the
  session then ends early, never late.

*Contracts.* A WETH stream topped up while nobody holds shares keeps its old time of the last
drip; its next drip pays more, within what it holds, as the source says.

## 5. Proofs

Every safety property and every action property of the passing runs is a theorem, for all values
of the constants that satisfy the stated assumptions. What is left to TLC alone is named at the
end of this section.

`PendingRequestResolutionProofs` proves, for every finite or infinite set of keys,
calls and leases and every bound on restarts, that `PendingRequestResolution`
satisfies `[]TypeOK`, `[]FirstActionWins`, `[]LeaseExcludesLateActions`,
`[]ResetBarrier`, `[]LeaseIsGranted` and the action property `FailClosed`.
Assumptions: `NoneIsNoToken`, and that tokens are the disjoint union of calls and
leases (each Symbol is fresh), that single-flight keys are keys, that the bound on
restarts is a natural number.

None of the invariants is inductive. `FirstActionWins`, for example, speaks only of
the calls in progress; nothing in it prevents a table that has forgotten one of
them, and then `RunResolution` would admit a second. `IInv` adds what links
tables and calls, in both directions:

- `RunsOwn`: a table entry names the call exactly if the call is in progress and
  owns that key;
- `LeasesOwn`: an external entry names the lease exactly if the lease is alive and
  covers that key;
- `TypeOK`, `LeaseExcludesLateActions` and `ResetBarrier` themselves.

Each action preserves `IInv` (one step per action), and the properties follow from
it. `FailClosed` follows from `IInv` step by step.

`TransactionRequestProofs` proves `[]TypeOK`, `[]ConsumedIsCovered`, `[]ResetIsExclusive` and
`[]AtMostOneSend` for any requests, surfaces and accounts and every bound, storage faults
and restarts included. Assumptions: `RequestAssumption` and `NoneIsNoToken`. `AtMostOneSend`
says nothing of a second surface that is about to send; `IInv` adds

- `Ownership`: the claim tables and the busy surfaces, revocations and reset agree, in both
  directions, so two surfaces never work on one request;
- `SendsOnce`: a request is unsent while a surface is before its send, while its prompt is
  stored, and while it is new; a new request is neither stored nor worked on;
- `SignsUnderLock`: the signing steps hold the processing lock.

A step of a surface touches only the request it owns (`SurfaceStep`). So each action shows
local facts of its own request, and `KeepsOwnership`, `KeepsSending` and `KeepsLock` carry
all the others.

`OutcomeProofs` goes on from there, first to three properties of who may send:

- `[]DenialIsFinal`, while the badge update does not throw (`BadgeFaults`; every other
  call may): a denied request is spent, and no surface stands at a step that could still send it (`DenialsHold`);
- `NoSendFromRemovedAccount`, which follows from `SignsUnderLock`: account removal waits for
  the lock, reset for the lease;
- `NoSendAfterRevocation`, for any number of revocations and any faults (`GateHolds`: as long as
  no two of them overlapped, the gate is closed while one runs, and the epoch a surface captured
  before it is out of date). With two that overlap, the first to finish opens the gate of both
  (section 4); the exception in the property is needed.

All three rest on one lemma: a surface sends, writes a denial and reads its prompt at named
steps only, and nothing but a surface sends.

It then proves `Spec => KeepsPromise`, while the badge update does not throw: the handlers
implement `RequestOutcome`. The invariant adds to the above that the prompt of a request is
stored as long as a handler may still consume it, that success is told only of what was sent,
and that a page waits only for a request it made. Each step is shown to be one step of the
promise or a stutter, one lemma per kind of step.

`NonceManagerProofs` proves `[]TypeOK`, `[]LaterReservationIsHigher` and
`CacheNeverMovesBackwards` for any set of transactions and any limits that are
natural numbers. The property alone is not inductive, since it says nothing of the
entry a processor has read and not used yet. `IInv` adds that the cache entry, and
every snapshot of it taken before an RPC call, is above all the reservations it
accounts for, and that these have settled and keep their nonces.

`SplitBundleProofs` proves `[]TypeOK`, `[]InOrder`, `[]StatusIsTrue`, `[]NothingRepeated` and
`TerminalIsFinal` for any number of calls, handler calls under way and broadcasts. Assumptions:
`SplitAssumption` and `ReceiptsAssumption`. The invariant has two halves,
`IInv == Safe /\ (~overlapped => Alone)`:

- `Safe` holds always. `Order`: whatever was reached (queued, recorded, polled, broadcast, or held
  in the record of a worker) came after successes of all earlier calls. `Shape` says what a
  worker's record holds at each step, `Unsplit` that nothing begins before the batch prompt is gone.
- `Alone` holds until two observers of one transaction overlap. `OneAtATime`: a worker, a queued
  prompt or an awaited receipt carries the sequence on, never two of them. `Place`: it stands at
  `splitNextIndex`, and nothing at or after that index was broadcast before. `Report`: what is
  stored about the bundle is what it says, and a finished bundle leaves nothing behind.

So the order of the calls is proved without any condition, and the rest under the one condition
the code needs (section 4). `OneAtATime` is not inductive without `Place`, nor the reverse.

`CrossDappBatchProofs` proves `[]TypeOK`, `[]SentOnce`, `[]AnswerIsTrue`, `[]NothingLost` and the
action properties `AuthorizedSend` and `AnswerIsFinal` for any requests, sites and surfaces. Assumption:
`BatchAssumption`. The properties see requests, batch and rows; the invariant must also say what the calls
under way are about to write:

- `Owned`: the claim of the batch, and of a moving prompt, belong to exactly the call that works
  on it, in both directions;
- `Shape`: a call that will rewrite the batch holds the list that is stored, since it read it
  under the claim; a shipped batch is the last row and not tracked yet;
- `Lives`: where a request stands that no restart tore: still a prompt, in the batch, dropped, failing,
  shipping or settled. Each place fixes how often it was sent, which rows hold it and what its page was told.
  Only the call that works on the batch, of which there is at most one, can make a place look different;
- `Gate`: an epoch captured before the checks that is still current when a call validates means that the site
  is connected and no revocation of it has begun since.

The calls that rewrite the list rest on `WithoutProperties`, an induction over the length of
the list: the filter keeps what it should, in no more copies than before.

`SessionProofs` proves `[]TypeOK`, `[]LockIsFinal`, `[]RotationIsFinal` and, as long as the write of
a lease does not fail, `[]InactivityIsFinal` (with its exception), for any set of pages
and timeouts, any bound of the clock and any set of storage calls that may fail. Assumptions
(`SessionAssumption`): timeouts are natural numbers and include "Never", the default is
one of them. The properties speak of usable keys only, and are not inductive: a transition
begun before the lock could still install the keys, and a capability that survived could be
restored. `IInv` adds

- `LockOK`: after a reported lock there are no keys, no capability opens, and no transition
  stands at a step that installs keys;
- `RotationOK`: the same after a new password, except that a capability may still open when
  it is bound to the old one;
- `StepsOK`: how the storage calls of a transition make this true. Once the removal of the
  key half is known to have succeeded nothing opens, so a lock that goes on past
  `RevokeCipher` leaves nothing that opens although one of its two removals failed; only an
  authenticated transition stores a capability.

Each action has two lemmas, one for `TypeOK` and one for the rest; `Frame` and
`BeginFrame` carry the actions that leave the capability or the transition alone.

`InactivityIsFinal` needs the clock. `Idleness` goes on top of `IInv`: no stamp lies in the future
(`Clock`), the cached policy is the stored one unless a change is under way (`Policy`), a page counts exactly as long as its
port is bound (`Counted`), and time does not pass between a sign of life and what it installs (`Recent`). So, while
a session lives, no stamp or end that keeps it alive reaches beyond the last sign of life plus the timeout
(`LiveOK`), and after it expired nothing that is left can be valid again unless the setting
changes (`ExpiredOK`). Its assumption `"lease" \notin Faults` is the one that the run
`session_leak` shows to be necessary.

`RewardsProofs` proves `[]RewardSolvency`, `[]MaxWithdrawWorks` and `SharePriceNeverFalls` of the vault
under all calls of both contracts, for any finite set of stakers and any seed, scale, rates and
amounts. Assumptions: `VaultAssumption`, `DripAssumption`. `RewardSolvency` is not inductive: it
rounds each account down, and a later donation multiplies what was rounded. `Covered` says the same
without rounding: the sum over the accounts of shares times what is not yet paid per share, plus
`SCALE` times what is unclaimed, is at most `SCALE` times the WETH held. With `StakeOK` (the
shares add up to the supply) a donation adds no more on the left than on the right; a snapshot
and a claim only round down. The price follows from one inequality per kind of call:
an entry pays at least what its shares are worth, an exit (`FairExit`) takes at most that; capped and
uncapped withdrawals are both exits of that kind. Sums over a finite set
are a recursive function; the module shows that it exists, is monotone and linear,
and agrees with the fold the model uses.

It also proves `[]DripSolvency` for any amounts, intervals, seeds and donations that are natural
numbers. `DripInv` adds that amounts and times are natural numbers and that the last drip
of a stream is not after the clock. The heart is one lemma: an elapsed share of the remaining amount, rounded down, never exceeds it.

Each inductive invariant was checked by TLC on a small instance before it was proved.

The proofs corrected the models in four places. Two `CASE` expressions had guards that
overlapped, which leaves their value open (`Track` of `CrossDappBatch`, `FinalStatus` of
`SplitBundle`); TLC takes the first arm, as the code does, the prover takes neither. A call about to be queued was found
through `splitNextIndex` instead of the value the handler had read, and a worker
stopped by a restart in the middle of an answer kept answers to give. `VaultAssumption` now says that there are finitely many stakers.

Only model-checked: the three liveness properties `ConsumedIsAnswered`, `LocksAreReleased` and
`Finishes`, since liveness under fairness and `ENABLED` are out of the prover's reach. The four
violations of section 4 are counterexamples and need no proof.

## 6. Plan

Done: the claim tables with proofs; the transaction request with authorization, revocation,
reset, restart, with proofs of its safety and of its refinement; the nonce manager with proofs; split bundles with receipts and history;
the session with proofs; the cross-dapp batch with proofs; the vault and the drip with proofs.
Next, in order of importance:

1. Weaker conditions: what remains of the split bundle's `Place` after two observers overlapped, and of
   `DenialIsFinal` when the badge update throws after the prompt was stored.
2. An abstract specification of the cross-dapp batch (each request has one life) and the proof that
   the batch implements it; `Lives` is the refinement mapping in all but name.
3. Components not modelled yet: the WalletConnect outbox, the release of signatures, Safe
   proposals, ERC-7715 grants, Bankr jobs, the consumption of fee quotes.

## 7. Not modelled

| Part | Why |
|---|---|
| Transaction requests: fee-token, force-inclusion, EIP-7702 and privacy branches | They repeat the skeleton that is modelled (claim, consume, lease, guarded effect) with other effects. |
| Session: setup and removal of passkeys, the agent password, restoration of legacy sessions, keys of the privacy vault, browsers without `storage.session` | They enter the same serialized transitions with other secrets, or take the session away altogether. |
| Cross-dapp batch: payment in tokens, WalletConnect topics, approval cleanup entries, edits of a call, reset and removal of an account | The first two belong to components below. An edit rewrites the list as `AddSet` does, under the same claim. |
| Signature requests, ERC-7715, Safe proposals, WalletConnect, Bankr, fee payment | State machines of their own, left for the plan. Of ERC-7715 the external claim is in the tables, the map of resolutions in flight is not. |
| Privacy pools | The operations follow the transactions that carry them; proofs and notes are cryptography. |
| Uniswap hooks | Their state is the pool's, which is not in the repository. |
| Cryptography, decoding, simulation, portfolio, ENS, views | Data transformations and display data: no order of events matters to them. |
| Indexers, bots, RPC and MCP servers, website | Separate services that read the chain or forward requests; most of the lines of the repository are here and in the views. |
