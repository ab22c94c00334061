------------------------------ MODULE Session ------------------------------
(***************************************************************************)
(* The unlocked session: the keys in the service worker's memory, the two  *)
(* halves of the persisted capability (a ciphertext in storage.session, its*)
(* key in storage.local), the pages that keep a session alive, the auto-   *)
(* lock policy, and the transitions that unlock, lock, restore and rotate. *)
(*                                                                         *)
(* Transitions are serialized (authTransition.ts): op is the one under     *)
(* way, each of its steps the code between two awaits that another actor   *)
(* can tell apart.  Pages, the browser, other devices and the clock go on  *)
(* meanwhile.                                                              *)
(***************************************************************************)
EXTENDS Integers

CONSTANTS Surfaces,        \* page instances (surfaceId)
          Timeouts,        \* auto-lock timeouts; 0 is "Never"
          DefaultTimeout,  \* used while the setting has not been read
          Faults,          \* storage calls that may fail: "revoke", "store", "lease"
          MaxTime          \* bound of the clock

ASSUME SessionAssumption ==
  /\ Timeouts \subseteq Nat /\ 0 \in Timeouts
  /\ DefaultTimeout \in Timeouts
  /\ Faults \subseteq {"revoke", "store", "lease"}
  /\ MaxTime \in Nat

VARIABLES
  keys,          \* memory: the decrypted keys are cached
  stamp,         \* memory: when they were last refreshed
  hardExpiry,    \* memory: authSessionHardExpiresAt
  surfaces,      \* memory: activeSurfaceIds
  ports,         \* memory: ports with a registered surface
  cachedTimeout, \* memory: cachedAutoLockTimeout
  blocked,       \* memory: manualLockRestorationBlocked
  ceremony,      \* memory and page: the WebAuthn ceremony and its epoch
  due,           \* memory: a queued revocation after a policy change
  op,            \* memory: the transition under way
  cap,           \* storage.session: the capability, its key in storage.local
  stored,        \* storage.sync: the auto-lock timeout
  passkey,       \* storage.local: a passkey unlocks the wallet
  event,         \* the browser: a change of the setting not yet delivered
  open,          \* the browser: pages that are open
  now,           \* the clock
  lastSeen,      \* history variable: when a page was last open or the user authenticated
  changed,       \* history variable: the setting has changed since then
  ended          \* history variable: what ended the session since the last authentication

sessionVars == <<keys, stamp, hardExpiry>>
surfaceVars == <<surfaces, ports>>
ghosts == <<lastSeen, changed, ended>>
vars == <<sessionVars, surfaceVars, cachedTimeout, blocked, ceremony, due, op, cap,
          stored, passkey, event, open, now, ghosts>>

Forever == -1
Unread == -1
NoEvent == -1
NoCap == [timeout |-> -1, bound |-> FALSE, ids |-> {}, last |-> 0]
\* A ciphertext whose key is not stored: what it says no longer matters.
Unreadable == [NoCap EXCEPT !.timeout = -2]
Start(kind, step) == [kind |-> kind, step |-> step, authenticated |-> FALSE, keyKept |-> FALSE,
                      timeout |-> 0, expiry |-> Forever]
NoOp == Start("none", "none")

Times == 0..MaxTime
Expiries == {Forever} \union {t + d : t \in Times, d \in Timeouts}
CapType == [timeout : Timeouts, bound : BOOLEAN, ids : SUBSET Surfaces, last : Times]
OpType == [kind : {"lock", "unlock", "passkey", "passkeyStore", "restore", "refuse", "giveUp",
                   "policy", "rotate"},
           step : {"revokeKey", "revokeCipher", "setCipher", "setKey", "commit",
                   "recheck", "lease", "clear"},
           authenticated : BOOLEAN,  \* the user proved a factor for it
           keyKept : BOOLEAN,        \* the removal of the key half failed
           timeout : Timeouts,       \* the policy it read
           expiry : Expiries]        \* restore: when the session ends

TypeOK ==
  /\ keys \in BOOLEAN /\ stamp \in Times /\ hardExpiry \in Expiries
  /\ surfaces \subseteq Surfaces /\ ports \subseteq surfaces
  /\ cachedTimeout \in Timeouts \union {Unread}
  /\ blocked \in BOOLEAN /\ due \in BOOLEAN /\ passkey \in BOOLEAN
  /\ ceremony \in {"fresh", "stale"}
  /\ op \in OpType \union {NoOp}
  /\ cap \in CapType \union {NoCap, Unreadable}
  /\ stored \in Timeouts /\ event \in Timeouts \union {NoEvent}
  /\ open \subseteq Surfaces /\ now \in Times /\ lastSeen \in Times
  /\ ended \in {"no", "locked", "expired", "rotated"} /\ changed \in BOOLEAN

Init ==
  /\ keys = FALSE /\ stamp = 0 /\ hardExpiry = Forever
  /\ surfaces = {} /\ ports = {}
  /\ cachedTimeout = Unread /\ blocked = FALSE /\ ceremony = "stale" /\ due = FALSE
  /\ op = NoOp
  /\ cap = NoCap
  /\ stored = DefaultTimeout /\ passkey = TRUE /\ event = NoEvent
  /\ open = {} /\ now = 0
  /\ lastSeen = 0 /\ ended = "no" /\ changed = FALSE

MayFail(call) == call \in Faults
\* Both halves of a capability are stored and belong together.
Opens == cap.timeout \in Timeouts
Idle == op = NoOp
At(step) == op.step = step
Ends(last, timeout) == IF timeout = 0 THEN Forever ELSE last + timeout

\* Somebody is there: of interest until the session has ended.
Seen ==
  /\ UNCHANGED ended
  /\ IF ended = "no" THEN lastSeen' = now /\ changed' = FALSE ELSE UNCHANGED <<lastSeen, changed>>
\* A lock or a new password ends the session, also one that has expired.
EndedBy(reason) == ended' = reason /\ lastSeen' = 0 /\ changed' = FALSE
Begins == ended' = "no" /\ lastSeen' = now /\ changed' = FALSE

-----------------------------------------------------------------------------
(* Memory (inMemoryExpiry.ts, inMemoryCache.ts)                              *)

EffectiveTimeout == IF cachedTimeout = Unread THEN DefaultTimeout ELSE cachedTimeout

\* isCacheEntryValid
Valid(timeout) ==
  \/ surfaces # {}
  \/ /\ hardExpiry = Forever \/ now < hardExpiry
     /\ timeout = 0 \/ now - stamp < timeout

Usable == keys /\ Valid(EffectiveTimeout)

ClearMemory == keys' = FALSE /\ stamp' = 0 /\ hardExpiry' = Forever

\* A selector finds the keys expired and clears the whole generation.
ClearIfExpired == IF keys /\ ~Usable THEN ClearMemory ELSE UNCHANGED sessionVars

ExpireOnRead ==
  /\ keys /\ ~Usable
  /\ ClearMemory
  /\ UNCHANGED <<surfaceVars, cachedTimeout, blocked, ceremony, due, op, cap,
                 stored, passkey, event, open, now, ghosts>>

\* invalidateAuthCeremonies: a running ceremony carries an old epoch.
Invalidated == "stale"

-----------------------------------------------------------------------------
(* The two halves of the capability (persistence.ts, capabilityPersistence.ts) *)

opFrame == <<surfaceVars, due, stored, passkey, event, open, now>>

\* revokeSplitSessionSecret: the durable half first ...
RevokeKey ==
  /\ At("revokeKey")
  /\ \/ /\ cap' = IF Opens THEN Unreadable ELSE cap
        /\ op' = [op EXCEPT !.step = "revokeCipher", !.keyKept = FALSE]
     \/ /\ MayFail("revoke")
        /\ op' = [op EXCEPT !.step = "revokeCipher", !.keyKept = TRUE]
        /\ UNCHANGED cap
  /\ UNCHANGED <<opFrame, sessionVars, cachedTimeout, blocked, ceremony, ghosts>>

\* ... then the ciphertext.  Only when neither could be removed does it throw.  The
\* catch of a biometric unlock or of a restoration then clears once more and gives up.
CipherRemoved == cap' = NoCap

\* What the transition does once the halves are gone.
AfterRevocation ==
  /\ op' = CASE op.kind \in {"unlock", "passkeyStore"} ->
                    [op EXCEPT !.step = "setCipher", !.keyKept = FALSE]
             [] op.kind = "passkey" -> [op EXCEPT !.kind = "passkeyStore", !.step = "revokeKey",
                                                  !.timeout = stored]
             [] OTHER -> NoOp
  /\ cachedTimeout' = IF op.kind = "passkey" THEN stored ELSE cachedTimeout
  /\ hardExpiry' = IF op.kind = "policy" THEN Forever ELSE hardExpiry
  /\ IF op.kind = "lock" THEN EndedBy("locked") ELSE UNCHANGED ghosts

RevokeCipher ==
  /\ At("revokeCipher")
  /\ \/ CipherRemoved /\ AfterRevocation
     \/ MayFail("revoke") /\ ~op.keyKept /\ AfterRevocation /\ UNCHANGED cap
     \/ /\ MayFail("revoke") /\ op.keyKept
        /\ op' = IF op.kind \in {"passkey", "passkeyStore", "refuse"}
                 THEN Start("giveUp", "revokeKey") ELSE NoOp
        /\ UNCHANGED <<cachedTimeout, hardExpiry, ghosts, cap>>
  /\ UNCHANGED <<opFrame, keys, stamp, blocked, ceremony>>

\* A failed store: the biometric unlock clears again, the password unlock only fails.
StoreFails ==
  /\ MayFail("store")
  /\ op' = IF op.kind = "unlock" THEN NoOp ELSE Start("giveUp", "revokeKey")
  /\ UNCHANGED cap

\* storeSessionCapabilityAtomic seals the capability with a fresh key.
SetCipher ==
  /\ At("setCipher")
  /\ \/ /\ cap' = Unreadable
        /\ op' = [op EXCEPT !.step = "setKey"]
     \/ StoreFails
  /\ UNCHANGED <<opFrame, sessionVars, cachedTimeout, blocked, ceremony, ghosts>>

\* With both halves stored the authentication counts, even if the worker dies now.
\* (What was sealed is still true: pages are counted between transitions.)
Authenticated == IF op.authenticated THEN Begins ELSE UNCHANGED ghosts

SetKey ==
  /\ At("setKey")
  /\ \/ /\ cap' = [timeout |-> op.timeout, bound |-> TRUE, ids |-> surfaces, last |-> now]
        /\ op' = [op EXCEPT !.step = "commit"]
        /\ Authenticated
     \/ StoreFails /\ UNCHANGED ghosts
  /\ UNCHANGED <<opFrame, sessionVars, cachedTimeout, blocked, ceremony>>

\* updateSessionCapabilityLease: without both halves it does nothing.
Leased(ids) ==
  IF Opens THEN [cap EXCEPT !.ids = ids, !.last = now] ELSE cap

-----------------------------------------------------------------------------
(* Unlocking and locking                                                     *)

\* handleUnlockWallet with the right password
BeginUnlock ==
  /\ Idle /\ open # {}
  /\ LET timeout == IF cachedTimeout = Unread THEN stored ELSE cachedTimeout
     IN /\ cachedTimeout' = timeout
        /\ op' = [Start("unlock", "revokeKey") EXCEPT !.authenticated = TRUE,
                                                      !.timeout = timeout]
  /\ UNCHANGED <<sessionVars, surfaceVars, blocked, ceremony, due, cap, stored,
                 passkey, event, open, now, ghosts>>

\* The page starts a WebAuthn ceremony with the current epoch.
StartCeremony ==
  /\ passkey /\ open # {}
  /\ ceremony' = "fresh"
  /\ UNCHANGED <<sessionVars, surfaceVars, cachedTimeout, blocked, due, op, cap,
                 stored, passkey, event, open, now, ghosts>>

\* Mutant: the epoch of the ceremony is not compared.
AnyCeremony == TRUE

\* isCurrentAuthCeremonyEpoch
CurrentCeremony == ceremony = "fresh"

\* handleUnlockWithPasskey
BeginPasskey ==
  /\ Idle /\ open # {} /\ passkey
  /\ CurrentCeremony
  /\ op' = [Start("passkey", "revokeKey") EXCEPT !.authenticated = (ceremony = "fresh")]
  /\ ClearMemory
  /\ UNCHANGED <<surfaceVars, cachedTimeout, blocked, ceremony, due, cap, stored,
                 passkey, event, open, now, ghosts>>

\* The keys are installed; the password unlock ends here.
Commit ==
  /\ At("commit")
  /\ keys' = TRUE /\ stamp' = now
  /\ IF op.kind = "unlock"
     THEN op' = NoOp /\ blocked' = FALSE /\ ceremony' = Invalidated
     ELSE op' = [op EXCEPT !.step = "recheck"] /\ UNCHANGED <<blocked, ceremony>>
  /\ UNCHANGED <<opFrame, hardExpiry, cachedTimeout, cap, ghosts>>

\* The vault does not open with the key of the ceremony or of the capability: nothing is
\* installed.  (For a password it was tried before the capability was stored.)
CommitFails ==
  /\ At("commit") /\ op.kind # "unlock"
  /\ ClearMemory
  /\ op' = Start("refuse", "revokeKey")
  /\ UNCHANGED <<opFrame, cachedTimeout, blocked, ceremony, cap, ghosts>>

\* terminateActiveAuthSession
BeginLock ==
  /\ Idle /\ open # {}
  /\ blocked' = TRUE /\ ceremony' = Invalidated
  /\ ClearMemory
  /\ op' = Start("lock", "revokeKey")
  /\ UNCHANGED <<surfaceVars, cachedTimeout, due, cap, stored, passkey, event,
                 open, now, ghosts>>

-----------------------------------------------------------------------------
(* Restoration (unifiedRestoration.ts)                                       *)

\* Mutant: a changed password does not refuse the old capability.
RestorableUnbound ==
  /\ Opens /\ cap.timeout = stored
  /\ \/ stored = 0
     \/ surfaces \intersect cap.ids # {}
     \/ now < cap.last + stored

\* The capability opens, is of this policy and of this password, and a page of its
\* lease is still open or its timeout has not passed.
Restorable ==
  /\ Opens /\ cap.timeout = stored /\ cap.bound
  /\ \/ stored = 0
     \/ surfaces \intersect cap.ids # {}
     \/ now < cap.last + stored

BeginRestore ==
  /\ Idle /\ ~blocked
  /\ cachedTimeout' = stored
  /\ IF keys /\ Valid(stored)
     THEN UNCHANGED <<sessionVars, op>>
     ELSE /\ IF keys THEN ClearMemory ELSE UNCHANGED sessionVars
          /\ op' = CASE cap = NoCap -> NoOp
                     [] cap # NoCap /\ ~Opens -> Start("giveUp", "revokeKey")
                     [] Opens /\ ~Restorable -> Start("refuse", "revokeKey")
                     [] Restorable ->
                          [Start("restore", "commit") EXCEPT
                             !.timeout = stored, !.expiry = Ends(cap.last, stored)]
  /\ UNCHANGED <<surfaceVars, blocked, ceremony, due, cap, stored, passkey,
                 event, open, now, ghosts>>

\* Mutant: a session restored without a page starts a new timeout.
RestoredForever(expiry) == Forever

\* The end of a session restored while no page is open.
RestoredExpiry(expiry) == IF surfaces # {} THEN Forever ELSE expiry

\* The policy is read again: did it change during the restoration or the unlock?
Recheck ==
  /\ At("recheck")
  /\ cachedTimeout' = stored
  /\ \/ /\ stored # op.timeout
        /\ ClearMemory
        /\ op' = Start("refuse", "revokeKey")
        /\ UNCHANGED <<blocked, ceremony>>
     \/ /\ stored = op.timeout /\ op.kind = "passkeyStore"
        /\ blocked' = FALSE /\ ceremony' = Invalidated /\ op' = NoOp
        /\ UNCHANGED sessionVars
     \/ /\ stored = op.timeout /\ op.kind = "restore"
        /\ hardExpiry' = RestoredExpiry(op.expiry)
        /\ IF surfaces # {}
           THEN op' = [op EXCEPT !.step = "lease"] /\ UNCHANGED ceremony
           ELSE op' = NoOp /\ ceremony' = Invalidated
        /\ UNCHANGED <<keys, stamp, blocked>>
  /\ UNCHANGED <<opFrame, cap, ghosts>>

RestoreLease ==
  /\ At("lease")
  /\ \/ /\ cap' = Leased(surfaces) /\ op' = NoOp /\ ceremony' = Invalidated
        /\ UNCHANGED sessionVars
     \/ /\ MayFail("store")
        /\ ClearMemory /\ op' = Start("giveUp", "revokeKey")
        /\ UNCHANGED <<cap, ceremony>>
  /\ UNCHANGED <<opFrame, cachedTimeout, blocked, ghosts>>

-----------------------------------------------------------------------------
(* Pages and their lease (uiSurfaceLease.ts, trustedUiPortProtocol.ts)       *)

pageFrame == <<cachedTimeout, blocked, ceremony, due, op, stored, passkey,
               event, open, now, ghosts>>

\* The lease is written when the session is live; a failure closes the port, and the
\* surface stays registered.
WriteLease(s, ids) ==
  \/ /\ cap' = IF Usable THEN Leased(ids) ELSE cap
     /\ ports' = ports \union {s}
  \/ /\ MayFail("lease") /\ Usable /\ Opens
     /\ ports' = ports \ {s}
     /\ UNCHANGED cap

\* registerWalletUiSurface looks at the old session before it counts the page.
Register(s) ==
  /\ Idle /\ s \in open /\ s \notin surfaces
  /\ surfaces' = surfaces \union {s}
  /\ ClearIfExpired
  /\ WriteLease(s, surfaces \union {s})
  /\ UNCHANGED pageFrame

Heartbeat(s) ==
  /\ Idle /\ s \in ports /\ s \in open
  /\ WriteLease(s, surfaces)
  /\ UNCHANGED <<pageFrame, sessionVars, surfaces>>

\* Mutant: the port of a surface that is gone stays bound.
KeepPort(s) == surfaces' = surfaces \ {s} /\ UNCHANGED ports

DropLease(s) == ports' = ports \ {s} /\ surfaces' = surfaces \ {s}

\* disconnectWalletUiSurface: the last page to close starts a fresh timeout, unless
\* the session was restored with an end of its own.
Disconnect(s) ==
  /\ Idle /\ s \in ports /\ s \notin open
  /\ DropLease(s)
  /\ LET alone == surfaces = {s}
         live == keys /\ (alone => hardExpiry = Forever \/ now < hardExpiry)
     IN /\ IF ~keys THEN UNCHANGED sessionVars
           ELSE IF ~live THEN ClearMemory
           ELSE /\ stamp' = IF alone THEN now ELSE stamp
                /\ UNCHANGED <<keys, hardExpiry>>
        /\ \/ cap' = IF live THEN Leased(surfaces \ {s}) ELSE cap
           \/ MayFail("lease") /\ live /\ UNCHANGED cap
  /\ UNCHANGED pageFrame

PageOpens(s) ==
  /\ s \notin open \union surfaces \union cap.ids      \* ids are never used again
  /\ open' = open \union {s}
  /\ Seen
  /\ UNCHANGED <<sessionVars, surfaceVars, cachedTimeout, blocked, ceremony, due, op,
                 cap, stored, passkey, event, now>>

PageCloses(s) ==
  /\ s \in open
  /\ open' = open \ {s}
  /\ Seen
  /\ UNCHANGED <<sessionVars, surfaceVars, cachedTimeout, blocked, ceremony, due, op,
                 cap, stored, passkey, event, now>>

-----------------------------------------------------------------------------
(* The policy and the password                                               *)

\* Nobody is seen by a changed setting, and it authenticates nobody.
Changed == changed' = TRUE /\ UNCHANGED <<lastSeen, ended>>

\* setAutoLockTimeout, from any page of the wallet, locked or not: only a setting that is
\* not the stored one revokes.
SetTimeout(t) ==
  /\ Idle /\ open # {}
  /\ cachedTimeout' = t
  /\ \/ t = stored /\ UNCHANGED <<stored, event, op, ghosts>>
     \/ /\ t # stored
        /\ stored' = t /\ event' = t
        /\ op' = Start("policy", "revokeKey")
        /\ Changed
  /\ UNCHANGED <<sessionVars, surfaceVars, blocked, ceremony, due, cap, passkey,
                 open, now>>

\* The setting arrives from another device.
SyncTimeout(t) ==
  /\ t # stored
  /\ stored' = t /\ event' = t
  /\ Changed
  /\ UNCHANGED <<sessionVars, surfaceVars, cachedTimeout, blocked, ceremony, due, op,
                 cap, passkey, open, now>>

\* handleAutoLockTimeoutStorageChange
DeliverEvent ==
  /\ event # NoEvent
  /\ cachedTimeout' = event /\ event' = NoEvent /\ due' = TRUE
  /\ UNCHANGED <<sessionVars, surfaceVars, blocked, ceremony, op, cap, stored,
                 passkey, open, now, ghosts>>

PolicyRevoke ==
  /\ Idle /\ due
  /\ due' = FALSE /\ op' = Start("policy", "revokeKey")
  /\ UNCHANGED <<sessionVars, surfaceVars, cachedTimeout, blocked, ceremony, cap,
                 stored, passkey, event, open, now, ghosts>>

\* handleChangePassword: one write replaces the wrappers and drops the passkey ...
Rotate ==
  /\ Idle /\ open # {}
  /\ cap' = [cap EXCEPT !.bound = FALSE]
  /\ passkey' = FALSE
  /\ op' = Start("rotate", "clear")
  /\ UNCHANGED <<sessionVars, surfaceVars, cachedTimeout, blocked, ceremony, due,
                 stored, event, open, now, ghosts>>

\* ... then the session ends; a failure to remove both halves is only logged.
RotateClear ==
  /\ At("clear")
  /\ ceremony' = Invalidated /\ EndedBy("rotated")
  /\ ClearMemory
  /\ op' = [op EXCEPT !.step = "revokeKey"]
  /\ UNCHANGED <<opFrame, cachedTimeout, blocked, cap>>

-----------------------------------------------------------------------------
(* The worker, the browser and the clock                                     *)

\* startMaintenanceLifecycle: the worker is about to be suspended.
Suspend ==
  /\ keys
  /\ ClearMemory /\ ceremony' = Invalidated
  /\ UNCHANGED <<surfaceVars, cachedTimeout, blocked, due, op, cap, stored,
                 passkey, event, open, now, ghosts>>

MemoryLost ==
  /\ ClearMemory
  /\ surfaces' = {} /\ ports' = {} /\ cachedTimeout' = Unread
  /\ blocked' = FALSE /\ due' = FALSE /\ event' = NoEvent
  /\ op' = NoOp

Restart ==
  /\ MemoryLost
  /\ ceremony' = Invalidated
  /\ IF At("clear") THEN EndedBy("rotated") ELSE UNCHANGED ghosts
  /\ UNCHANGED <<cap, stored, passkey, open, now>>

BrowserClose ==
  /\ MemoryLost
  /\ ceremony' = Invalidated /\ open' = {}
  /\ CipherRemoved
  /\ IF At("clear") THEN EndedBy("rotated") ELSE IF open # {} THEN Seen ELSE UNCHANGED ghosts
  /\ UNCHANGED <<stored, passkey, now>>

\* Time passes while no handler has work: closed ports and changed settings are
\* delivered long before a timeout passes.
Quiet == Idle /\ event = NoEvent /\ ~due /\ ports \subseteq open

Tick ==
  /\ Quiet /\ now < MaxTime
  /\ now' = now + 1
  /\ IF ended = "no" /\ open = {} /\ stored # 0 /\ now' - lastSeen >= stored
     THEN ended' = "expired" /\ lastSeen' = 0 /\ UNCHANGED changed
     ELSE /\ UNCHANGED ended
          /\ IF ended = "no" /\ open # {}
             THEN lastSeen' = now' /\ changed' = FALSE ELSE UNCHANGED <<lastSeen, changed>>
  /\ UNCHANGED <<sessionVars, surfaceVars, cachedTimeout, blocked, ceremony, due, op,
                 cap, stored, passkey, event, open>>

-----------------------------------------------------------------------------

Transition ==
  \/ BeginUnlock \/ BeginPasskey \/ BeginLock \/ BeginRestore \/ PolicyRevoke \/ Rotate
  \/ RevokeKey \/ RevokeCipher \/ SetCipher \/ SetKey \/ Commit \/ CommitFails
  \/ Recheck \/ RestoreLease \/ RotateClear
  \/ \E t \in Timeouts : SetTimeout(t)

PageStep ==
  \/ \E s \in Surfaces : PageOpens(s) \/ PageCloses(s)
  \/ \E s \in Surfaces : Register(s) \/ Heartbeat(s) \/ Disconnect(s)
  \/ StartCeremony

Environment ==
  \/ ExpireOnRead \/ Suspend \/ Restart \/ BrowserClose \/ Tick \/ DeliverEvent
  \/ \E t \in Timeouts : SyncTimeout(t)

Next == Transition \/ PageStep \/ Environment

Spec == Init /\ [][Next]_vars

-----------------------------------------------------------------------------
(* Properties                                                                *)

\* After a lock that reported success, nothing but a fresh authentication makes the
\* keys usable again: no restoration in this worker or a later one, no ceremony begun
\* before the lock, although one half of the capability may have survived.
LockIsFinal == ended = "locked" => ~Usable

\* Once no page has been open for the timeout, the keys are not usable until the user
\* authenticates: not by opening a page, by a restoration with a missed disconnect, by
\* asking again and again, or by a worker that restarts.  It holds as long as the setting
\* did not change since the last sign of life: a change drops the end of a restored session
\* and revokes the capability, but not the keys, so that the keys of an expired session
\* which nobody has read since are usable again under a longer timeout.
InactivityIsFinal == ended = "expired" /\ ~changed => ~Usable

\* After the master password was changed, no session of the old one is usable, even
\* when the worker dies right after the write or neither half could be removed.
RotationIsFinal == ended = "rotated" => ~Usable

=============================================================================
