---------------------------- MODULE SessionProofs ----------------------------
(***************************************************************************)
(* A lock, inactivity and a new master password end the session for good,  *)
(* for every set of pages and timeouts, every bound of the clock, and every *)
(* choice of storage calls that fail (inactivity: none of a lease).        *)
(***************************************************************************)
EXTENDS Session, TLAPS

USE SessionAssumption

LEMMA NoOpFields ==
  /\ NoOp.kind = "none" /\ NoOp.step = "none" /\ NoOp \notin OpType
  /\ NoOp.authenticated = FALSE /\ NoOp.keyKept = FALSE /\ NoOp.timeout = 0
BY DEF NoOp, OpType, Start

LEMMA StartType ==
  ASSUME NEW kind \in {"lock", "refuse", "giveUp", "policy", "rotate", "unlock", "passkey", "restore"},
         NEW step \in {"revokeKey", "clear", "commit"}
  PROVE  Start(kind, step) \in OpType
<1>1. Forever \in Expiries
  BY DEF Expiries
<1> QED
  BY <1>1 DEF OpType, Start

LEMMA CapTypes ==
  /\ NoCap \notin CapType /\ Unreadable \notin CapType
  /\ NoCap.bound = FALSE /\ Unreadable.bound = FALSE
  /\ NoCap.timeout \notin Timeouts /\ Unreadable.timeout \notin Timeouts
BY DEF NoCap, Unreadable, CapType

LEMMA RunningOp ==
  ASSUME TypeOK, op.step # "none"
  PROVE  op \in OpType
BY NoOpFields DEF TypeOK

LEMMA ClearMemoryType ==
  ASSUME ClearMemory PROVE keys' \in BOOLEAN /\ stamp' \in Times /\ hardExpiry' \in Expiries
<1>1. keys' \in BOOLEAN
  BY DEF ClearMemory
<1>2. 0 \in Times
  BY DEF Times
<1>3. Forever \in Expiries
  BY DEF Expiries
<1> QED
  BY <1>1, <1>2, <1>3 DEF ClearMemory

LEMMA EndsType ==
  ASSUME NEW last \in Times, NEW timeout \in Timeouts PROVE Ends(last, timeout) \in Expiries
BY DEF Ends, Expiries

LEMMA LeasedType ==
  ASSUME TypeOK, NEW ids \in SUBSET Surfaces
  PROVE  /\ Leased(ids) \in CapType \union {NoCap, Unreadable}
         /\ Leased(ids).bound = cap.bound /\ Leased(ids).timeout = cap.timeout
<1>1. CASE Opens
  <2>1. cap \in CapType
    BY <1>1, CapTypes DEF Opens, TypeOK
  <2>2. Leased(ids) = [cap EXCEPT !.ids = ids, !.last = now]
    BY <1>1 DEF Leased
  <2>3. now \in Times
    BY DEF TypeOK
  <2> QED
    BY <2>1, <2>2, <2>3 DEF CapType
<1>2. CASE ~Opens
  BY <1>2 DEF Leased, TypeOK
<1> QED
  BY <1>1, <1>2

LEMMA SeenType ==
  ASSUME TypeOK, Seen
  PROVE  lastSeen' \in Times /\ changed' \in BOOLEAN /\ ended' = ended
<1>1. changed' \in BOOLEAN
  BY DEF TypeOK, Seen
<1>2. lastSeen' \in Times
  BY DEF TypeOK, Seen
<1> QED
  BY <1>1, <1>2 DEF Seen

LEMMA ChangedType ==
  ASSUME TypeOK, Changed
  PROVE  lastSeen' \in Times /\ changed' \in BOOLEAN /\ ended' = ended
<1>1. changed' \in BOOLEAN
  BY DEF Changed
<1> QED
  BY <1>1 DEF Changed, TypeOK

LEMMA EndedType ==
  ASSUME NEW reason \in {"locked", "rotated"}, EndedBy(reason)
  PROVE  lastSeen' \in Times /\ changed' \in BOOLEAN /\ ended' = reason
<1>1. changed' \in BOOLEAN
  BY DEF EndedBy
<1> QED
  BY <1>1 DEF EndedBy, Times

LEMMA GhostsType ==
  ASSUME TypeOK, UNCHANGED ghosts
  PROVE  lastSeen' \in Times /\ changed' \in BOOLEAN /\ ended' = ended
<1>1. changed' \in BOOLEAN
  BY DEF ghosts, TypeOK
<1> QED
  BY <1>1 DEF ghosts, TypeOK

LEMMA BeginsType ==
  ASSUME TypeOK, Begins
  PROVE  lastSeen' \in Times /\ changed' \in BOOLEAN /\ ended' = "no"
<1>1. changed' \in BOOLEAN
  BY DEF Begins
<1> QED
  BY <1>1 DEF Begins, TypeOK

LEMMA TBeginUnlock == ASSUME TypeOK, BeginUnlock PROVE TypeOK'
<1> DEFINE T == IF cachedTimeout = Unread THEN stored ELSE cachedTimeout
<1>1. T \in Timeouts
  BY DEF TypeOK
<1>2. op' = [Start("unlock", "revokeKey") EXCEPT !.authenticated = TRUE, !.timeout = T]
  BY DEF BeginUnlock
<1>3. Start("unlock", "revokeKey") \in OpType
  BY StartType
<1>4. op' \in OpType
  BY <1>1, <1>2, <1>3 DEF OpType
<1> QED
  BY <1>1, <1>4 DEF BeginUnlock, TypeOK, sessionVars, surfaceVars, ghosts

LEMMA TRevokeKey == ASSUME TypeOK, RevokeKey PROVE TypeOK'
<1>1. op \in OpType
  BY RunningOp DEF RevokeKey, At
<1>2. op' \in OpType
  BY <1>1 DEF RevokeKey, OpType
<1> QED
  BY <1>2 DEF RevokeKey, TypeOK, sessionVars, surfaceVars, opFrame, pageFrame, ghosts

LEMMA TRevokeCipher == ASSUME TypeOK, RevokeCipher PROVE TypeOK'
<1>1. op \in OpType
  BY RunningOp DEF RevokeCipher, At
<1>2. stored \in Timeouts
  BY DEF TypeOK
<1>3. op' \in OpType \union {NoOp}
  <2>1. CASE AfterRevocation
    <3>1. CASE op.kind = "unlock" \/ op.kind = "passkeyStore"
      BY <2>1, <3>1, <1>1 DEF AfterRevocation, OpType
    <3>2. CASE op.kind = "passkey"
      BY <2>1, <3>2, <1>1, <1>2 DEF AfterRevocation, OpType
    <3>3. CASE op.kind \notin {"unlock", "passkey", "passkeyStore"}
      BY <2>1, <3>3 DEF AfterRevocation
    <3> QED
      BY <3>1, <3>2, <3>3
  <2>2. CASE op' \in {NoOp, Start("giveUp", "revokeKey")}
    BY <2>2, StartType
  <2> QED
    BY <2>1, <2>2 DEF RevokeCipher
<1>4. hardExpiry' \in Expiries /\ cachedTimeout' \in Timeouts \union {Unread}
  BY <1>2 DEF RevokeCipher, AfterRevocation, TypeOK, Expiries
<1>5. /\ lastSeen' \in Times /\ ended' \in {"no", "locked", "expired", "rotated"}
      /\ changed' \in BOOLEAN
  <2>1. EndedBy("locked") \/ UNCHANGED ghosts
    BY DEF RevokeCipher, AfterRevocation
  <2> QED
    BY <2>1, EndedType, GhostsType DEF TypeOK
<1>6. cap' \in CapType \union {NoCap, Unreadable}
  BY DEF RevokeCipher, CipherRemoved, TypeOK
<1> QED
  BY <1>3, <1>4, <1>5, <1>6 DEF RevokeCipher, TypeOK, opFrame, surfaceVars

LEMMA StoreFailsType ==
  ASSUME TypeOK, StoreFails PROVE op' \in OpType \union {NoOp} /\ cap' = cap
BY StartType DEF StoreFails

LEMMA TSetCipher == ASSUME TypeOK, SetCipher PROVE TypeOK'
<1>1. op \in OpType
  BY RunningOp DEF SetCipher, At
<1>2. op' \in OpType \union {NoOp} /\ cap' \in CapType \union {NoCap, Unreadable}
  <2>1. CASE StoreFails
    BY <2>1, StoreFailsType DEF TypeOK
  <2>2. CASE cap' = Unreadable /\ op' = [op EXCEPT !.step = "setKey"]
    BY <2>2, <1>1 DEF OpType
  <2> QED
    BY <2>1, <2>2 DEF SetCipher
<1> QED
  BY <1>2 DEF SetCipher, TypeOK, sessionVars, surfaceVars, opFrame, pageFrame, ghosts

LEMMA TSetKey == ASSUME TypeOK, SetKey PROVE TypeOK'
<1>1. op \in OpType
  BY RunningOp DEF SetKey, At
<1>2. op' \in OpType \union {NoOp} /\ cap' \in CapType \union {NoCap, Unreadable}
  <2>1. CASE StoreFails
    BY <2>1, StoreFailsType DEF TypeOK
  <2>2. CASE /\ op' = [op EXCEPT !.step = "commit"]
             /\ cap' = [timeout |-> op.timeout, bound |-> TRUE, ids |-> surfaces, last |-> now]
    <3>1. op' \in OpType
      BY <2>2, <1>1 DEF OpType
    <3>2. op.timeout \in Timeouts /\ surfaces \subseteq Surfaces /\ now \in Times
      BY <1>1 DEF OpType, TypeOK
    <3> QED
      BY <2>2, <3>1, <3>2 DEF CapType
  <2> QED
    BY <2>1, <2>2 DEF SetKey
<1>3. /\ lastSeen' \in Times /\ ended' \in {"no", "locked", "expired", "rotated"}
      /\ changed' \in BOOLEAN
  <2>1. Begins \/ UNCHANGED ghosts
    BY DEF SetKey, Authenticated
  <2> QED
    BY <2>1, BeginsType, GhostsType DEF TypeOK
<1> QED
  BY <1>2, <1>3 DEF SetKey, TypeOK, opFrame, sessionVars, surfaceVars

LEMMA TStartCeremony == ASSUME TypeOK, StartCeremony PROVE TypeOK'
BY DEF StartCeremony, TypeOK, sessionVars, surfaceVars, opFrame, pageFrame, ghosts

LEMMA TBeginPasskey == ASSUME TypeOK, BeginPasskey PROVE TypeOK'
<1>1. Start("passkey", "revokeKey") \in OpType
  BY StartType
<1>2. op' \in OpType
  BY <1>1 DEF BeginPasskey, OpType
<1> QED
  BY <1>2, ClearMemoryType DEF BeginPasskey, TypeOK, surfaceVars, ghosts

LEMMA TCommit == ASSUME TypeOK, Commit PROVE TypeOK'
<1>1. op \in OpType
  BY RunningOp DEF Commit, At
<1>2. op' \in OpType \union {NoOp}
  BY <1>1 DEF Commit, OpType
<1> QED
  BY <1>2 DEF Commit, TypeOK, Invalidated, opFrame, surfaceVars, ghosts

LEMMA TCommitFails == ASSUME TypeOK, CommitFails PROVE TypeOK'
BY StartType, ClearMemoryType DEF CommitFails, TypeOK, opFrame, surfaceVars, ghosts

LEMMA TBeginLock == ASSUME TypeOK, BeginLock PROVE TypeOK'
BY StartType, ClearMemoryType DEF BeginLock, TypeOK, Invalidated, surfaceVars, ghosts

LEMMA TBeginRestore == ASSUME TypeOK, BeginRestore PROVE TypeOK'
<1>1. keys' \in BOOLEAN /\ stamp' \in Times /\ hardExpiry' \in Expiries
  BY ClearMemoryType DEF BeginRestore, TypeOK, sessionVars
<1>2. op' \in OpType \union {NoOp}
  <2>1. CASE op' = [Start("restore", "commit") EXCEPT !.timeout = stored,
                                                      !.expiry = Ends(cap.last, stored)]
             /\ Restorable
    <3>1. cap \in CapType
      BY <2>1, CapTypes DEF Restorable, Opens, TypeOK
    <3>2. stored \in Timeouts /\ cap.last \in Times
      BY <3>1 DEF TypeOK, CapType
    <3>3. Ends(cap.last, stored) \in Expiries
      BY <3>2, EndsType
    <3>4. Start("restore", "commit") \in OpType
      BY StartType
    <3> QED
      BY <2>1, <3>2, <3>3, <3>4 DEF OpType
  <2>2. CASE \/ op' = NoOp \/ op' = op
             \/ op' = Start("refuse", "revokeKey") \/ op' = Start("giveUp", "revokeKey")
    BY <2>2, StartType DEF TypeOK
  <2> QED
    BY <2>1, <2>2 DEF BeginRestore
<1> QED
  BY <1>1, <1>2 DEF BeginRestore, TypeOK, surfaceVars, ghosts

LEMMA TRecheck == ASSUME TypeOK, Recheck PROVE TypeOK'
<1>1. op \in OpType
  BY RunningOp DEF Recheck, At
<1>2. op' \in OpType \union {NoOp}
  <2>1. CASE op' = [op EXCEPT !.step = "lease"]
    BY <2>1, <1>1 DEF OpType
  <2> QED
    BY <2>1, StartType DEF Recheck
<1>3. op.expiry \in Expiries
  BY <1>1 DEF OpType
<1>4. keys' \in BOOLEAN /\ stamp' \in Times /\ hardExpiry' \in Expiries
  BY <1>3, ClearMemoryType DEF Recheck, RestoredExpiry, TypeOK, sessionVars, Expiries
<1> QED
  BY <1>2, <1>4 DEF Recheck, TypeOK, Invalidated, opFrame, surfaceVars, ghosts

LEMMA TRestoreLease == ASSUME TypeOK, RestoreLease PROVE TypeOK'
<1>1. cap' \in CapType \union {NoCap, Unreadable}
  BY LeasedType DEF RestoreLease, TypeOK
<1>2. op' \in OpType \union {NoOp}
  BY StartType DEF RestoreLease
<1>3. keys' \in BOOLEAN /\ stamp' \in Times /\ hardExpiry' \in Expiries
  BY ClearMemoryType DEF RestoreLease, TypeOK, sessionVars
<1> QED
  BY <1>1, <1>2, <1>3 DEF RestoreLease, TypeOK, Invalidated, opFrame, surfaceVars, ghosts

LEMMA TRegister == ASSUME TypeOK, NEW s \in Surfaces, Register(s) PROVE TypeOK'
<1>1. cap' \in CapType \union {NoCap, Unreadable}
  BY LeasedType DEF Register, WriteLease, TypeOK
<1>2. keys' \in BOOLEAN /\ stamp' \in Times /\ hardExpiry' \in Expiries
  BY ClearMemoryType DEF Register, ClearIfExpired, TypeOK, sessionVars
<1>3. surfaces' \subseteq Surfaces /\ ports' \subseteq surfaces'
  BY DEF Register, WriteLease, TypeOK
<1> QED
  BY <1>1, <1>2, <1>3 DEF Register, TypeOK, pageFrame, ghosts

LEMMA THeartbeat == ASSUME TypeOK, NEW s \in Surfaces, Heartbeat(s) PROVE TypeOK'
<1>1. cap' \in CapType \union {NoCap, Unreadable}
  BY LeasedType DEF Heartbeat, WriteLease, TypeOK
<1>2. ports' \subseteq surfaces'
  BY DEF Heartbeat, WriteLease, TypeOK
<1> QED
  BY <1>1, <1>2 DEF Heartbeat, TypeOK, pageFrame, sessionVars, ghosts

LEMMA TDisconnect == ASSUME TypeOK, NEW s \in Surfaces, Disconnect(s) PROVE TypeOK'
<1>1. cap' \in CapType \union {NoCap, Unreadable}
  BY LeasedType DEF Disconnect, TypeOK
<1>2. keys' \in BOOLEAN /\ stamp' \in Times /\ hardExpiry' \in Expiries
  BY ClearMemoryType DEF Disconnect, TypeOK, sessionVars
<1>3. surfaces' \subseteq Surfaces /\ ports' \subseteq surfaces'
  BY DEF Disconnect, DropLease, TypeOK
<1> QED
  BY <1>1, <1>2, <1>3 DEF Disconnect, TypeOK, pageFrame, ghosts

LEMMA TPageOpens == ASSUME TypeOK, NEW s \in Surfaces, PageOpens(s) PROVE TypeOK'
BY SeenType DEF PageOpens, TypeOK, sessionVars, surfaceVars

LEMMA TPageCloses == ASSUME TypeOK, NEW s \in Surfaces, PageCloses(s) PROVE TypeOK'
BY SeenType DEF PageCloses, TypeOK, sessionVars, surfaceVars

LEMMA TSetTimeout == ASSUME TypeOK, NEW t \in Timeouts, SetTimeout(t) PROVE TypeOK'
<1>1. lastSeen' \in Times /\ changed' \in BOOLEAN /\ ended' = ended
  <2>1. CASE Changed
    BY <2>1, ChangedType
  <2>2. CASE UNCHANGED ghosts
    BY <2>2, GhostsType
  <2> QED
    BY <2>1, <2>2 DEF SetTimeout
<1> QED
  BY <1>1, StartType DEF SetTimeout, TypeOK, sessionVars, surfaceVars

LEMMA TSyncTimeout == ASSUME TypeOK, NEW t \in Timeouts, SyncTimeout(t) PROVE TypeOK'
BY ChangedType DEF SyncTimeout, TypeOK, sessionVars, surfaceVars

LEMMA TDeliverEvent == ASSUME TypeOK, DeliverEvent PROVE TypeOK'
BY DEF DeliverEvent, TypeOK, sessionVars, surfaceVars, opFrame, pageFrame, ghosts

LEMMA TPolicyRevoke == ASSUME TypeOK, PolicyRevoke PROVE TypeOK'
BY StartType DEF PolicyRevoke, TypeOK, sessionVars, surfaceVars, ghosts

LEMMA TRotate == ASSUME TypeOK, Rotate PROVE TypeOK'
<1>1. cap' \in CapType \union {NoCap, Unreadable}
  <2>1. CASE cap \in CapType
    BY <2>1 DEF Rotate, CapType
  <2>2. CASE cap \in {NoCap, Unreadable}
    <3>1. cap' = cap
      BY <2>2 DEF Rotate, NoCap, Unreadable
    <3> QED
      BY <2>2, <3>1
  <2> QED
    BY <2>1, <2>2 DEF TypeOK
<1> QED
  BY <1>1, StartType DEF Rotate, TypeOK, sessionVars, surfaceVars, ghosts

LEMMA TRotateClear == ASSUME TypeOK, RotateClear PROVE TypeOK'
<1>1. op \in OpType
  BY RunningOp DEF RotateClear, At
<1>2. op' \in OpType
  BY <1>1 DEF RotateClear, OpType
<1> QED
  BY <1>2, ClearMemoryType, EndedType DEF RotateClear, TypeOK, Invalidated, opFrame, surfaceVars

LEMMA TExpireOnRead == ASSUME TypeOK, ExpireOnRead PROVE TypeOK'
BY ClearMemoryType DEF ExpireOnRead, TypeOK, surfaceVars, ghosts

LEMMA TSuspend == ASSUME TypeOK, Suspend PROVE TypeOK'
BY ClearMemoryType DEF Suspend, TypeOK, Invalidated, surfaceVars, ghosts

LEMMA TRestart == ASSUME TypeOK, Restart PROVE TypeOK'
<1>1. /\ lastSeen' \in Times /\ ended' \in {"no", "locked", "expired", "rotated"}
      /\ changed' \in BOOLEAN
  <2>1. EndedBy("rotated") \/ UNCHANGED ghosts
    BY DEF Restart
  <2> QED
    BY <2>1, EndedType, GhostsType DEF TypeOK
<1> QED
  BY <1>1, ClearMemoryType DEF Restart, MemoryLost, TypeOK, Invalidated

LEMMA TBrowserClose == ASSUME TypeOK, BrowserClose PROVE TypeOK'
<1>1. /\ lastSeen' \in Times /\ ended' \in {"no", "locked", "expired", "rotated"}
      /\ changed' \in BOOLEAN
  <2>1. EndedBy("rotated") \/ Seen \/ UNCHANGED ghosts
    BY DEF BrowserClose
  <2> QED
    BY <2>1, EndedType, SeenType, GhostsType DEF TypeOK
<1> QED
  BY <1>1, ClearMemoryType DEF BrowserClose, MemoryLost, CipherRemoved, TypeOK, Invalidated

LEMMA TTick == ASSUME TypeOK, Tick PROVE TypeOK'
<1>1. changed' \in BOOLEAN
  BY DEF Tick, TypeOK
<1>2. /\ lastSeen' \in Times /\ now' \in Times
      /\ ended' \in {"no", "locked", "expired", "rotated"}
  BY DEF Tick, TypeOK, Times
<1> QED
  BY <1>1, <1>2 DEF Tick, TypeOK, sessionVars, surfaceVars

-----------------------------------------------------------------------------
\* Which transitions store or revoke a capability, and what they know by then.
StepsOK ==
  /\ op.kind \in {"unlock", "passkey", "passkeyStore"} => op.authenticated = TRUE
  /\ op.step \in {"setCipher", "setKey"} => op.kind \in {"unlock", "passkeyStore"}
  /\ op.step = "revokeCipher" /\ op.keyKept = FALSE => ~Opens
  /\ op.step = "clear" => cap.bound = FALSE
  /\ op.kind = "lock" => keys = FALSE /\ op.step \in {"revokeKey", "revokeCipher"}

\* Nothing that could install the keys is under way.
NothingInstalls == op.step \notin {"commit", "recheck", "lease"}

\* What a reported lock leaves behind: no keys, and no capability that opens.
LockOK == ended = "locked" => keys = FALSE /\ ~Opens /\ NothingInstalls

\* What a new password leaves behind: a capability that still opens is not bound to it.
RotationOK ==
  ended = "rotated" => keys = FALSE /\ ~(Opens /\ cap.bound = TRUE) /\ NothingInstalls

Safe == StepsOK /\ LockOK /\ RotationOK
IInv == TypeOK /\ Safe

\* A step that leaves the transition alone, installs no keys and at most renews the lease.
LEMMA Frame ==
  ASSUME Safe, op' = op, keys' = FALSE \/ keys' = keys, ended' \in {ended, "no", "expired"},
         cap'.timeout = cap.timeout, cap'.bound = cap.bound
  PROVE  Safe'
<1>1. Opens' = Opens
  BY DEF Opens
<1>2. StepsOK'
  BY <1>1 DEF Safe, StepsOK
<1>3. LockOK' /\ RotationOK'
  BY <1>1 DEF Safe, LockOK, RotationOK, NothingInstalls
<1> QED
  BY <1>2, <1>3 DEF Safe

\* A transition that begins, or ends, without touching keys, capability and ghosts.
LEMMA BeginFrame ==
  ASSUME Safe, keys' = FALSE \/ keys' = keys, ended' = ended, cap' = cap,
         op'.kind \in {"none", "policy", "refuse", "giveUp", "unlock", "passkey"},
         op'.kind \in {"unlock", "passkey"} => op'.authenticated = TRUE,
         op'.step \in {"none", "revokeKey"}
  PROVE  Safe'
<1>1. Opens' = Opens
  BY DEF Opens
<1>2. StepsOK'
  BY <1>1 DEF Safe, StepsOK
<1>3. LockOK' /\ RotationOK'
  BY <1>1 DEF Safe, LockOK, RotationOK, NothingInstalls
<1> QED
  BY <1>2, <1>3 DEF Safe

LEMMA SBeginUnlock == ASSUME IInv, BeginUnlock PROVE Safe'
<1>1. op'.kind = "unlock" /\ op'.step = "revokeKey" /\ op'.authenticated = TRUE
  BY DEF BeginUnlock, Start
<1> QED
  BY <1>1, BeginFrame DEF IInv, BeginUnlock, sessionVars, ghosts

LEMMA SBeginPasskey == ASSUME IInv, BeginPasskey PROVE Safe'
<1>1. op'.kind = "passkey" /\ op'.step = "revokeKey" /\ op'.authenticated = TRUE
  BY DEF BeginPasskey, CurrentCeremony, Start
<1> QED
  BY <1>1, BeginFrame DEF IInv, BeginPasskey, ClearMemory, ghosts

LEMMA SRevokeKey == ASSUME IInv, RevokeKey PROVE Safe'
<1>1. op \in OpType
  BY RunningOp DEF RevokeKey, At, IInv
<1>2. /\ op'.kind = op.kind /\ op'.authenticated = op.authenticated
      /\ op'.step = "revokeCipher"
  BY <1>1 DEF RevokeKey, OpType
<1>3. Opens' => Opens /\ cap' = cap /\ op'.keyKept = TRUE
  BY <1>1, CapTypes DEF RevokeKey, OpType, Opens
<1>4. StepsOK'
  BY <1>2, <1>3 DEF IInv, Safe, StepsOK, RevokeKey, sessionVars
<1>5. LockOK' /\ RotationOK'
  BY <1>2, <1>3 DEF IInv, Safe, LockOK, RotationOK, NothingInstalls, RevokeKey, sessionVars, ghosts
<1> QED
  BY <1>4, <1>5 DEF Safe

LEMMA SRevokeCipher == ASSUME IInv, RevokeCipher PROVE Safe'
<1>1. op \in OpType /\ op.step = "revokeCipher"
  BY RunningOp DEF RevokeCipher, At, IInv
<1>2. keys' = keys
  BY DEF RevokeCipher
<1>3. Opens' => Opens /\ cap' = cap
  BY CapTypes DEF RevokeCipher, CipherRemoved, Opens
<1>4. CASE AfterRevocation /\ (CipherRemoved \/ (~op.keyKept /\ UNCHANGED cap))
  <2>1. ~Opens'
    <3>1. CASE CipherRemoved
      BY <3>1, CapTypes DEF CipherRemoved, Opens
    <3>2. CASE ~op.keyKept /\ UNCHANGED cap
      <4>1. op.keyKept = FALSE
        BY <1>1, <3>2 DEF OpType
      <4>2. ~Opens
        BY <1>1, <4>1 DEF IInv, Safe, StepsOK
      <4> QED
        BY <3>2, <4>2 DEF Opens
    <3> QED
      BY <1>4, <3>1, <3>2
  <2>2. CASE op.kind \in {"unlock", "passkeyStore"}
    <3>1. op'.kind = op.kind /\ op'.step = "setCipher" /\ op'.authenticated = op.authenticated
      BY <1>1, <1>4, <2>2 DEF AfterRevocation, OpType
    <3>2. ended' = ended
      BY <1>4, <2>2 DEF AfterRevocation, ghosts
    <3> QED
      BY <1>2, <2>1, <2>2, <3>1, <3>2 DEF IInv, Safe, StepsOK, LockOK, RotationOK, NothingInstalls
  <2>3. CASE op.kind = "passkey"
    <3>1. op'.kind = "passkeyStore" /\ op'.step = "revokeKey" /\ op'.authenticated = op.authenticated
      BY <1>1, <1>4, <2>3 DEF AfterRevocation, OpType
    <3>2. ended' = ended
      BY <1>4, <2>3 DEF AfterRevocation, ghosts
    <3> QED
      BY <1>2, <2>1, <2>3, <3>1, <3>2 DEF IInv, Safe, StepsOK, LockOK, RotationOK, NothingInstalls
  <2>4. CASE op.kind \notin {"unlock", "passkey", "passkeyStore"}
    <3>1. op'.kind = "none" /\ op'.step = "none"
      BY <1>4, <2>4, NoOpFields DEF AfterRevocation
    <3>2. ended' = ended \/ (op.kind = "lock" /\ ended' = "locked")
      BY <1>4 DEF AfterRevocation, EndedBy, ghosts
    <3>3. op.kind = "lock" => keys = FALSE
      BY DEF IInv, Safe, StepsOK
    <3> QED
      BY <1>2, <2>1, <3>1, <3>2, <3>3 DEF IInv, Safe, StepsOK, LockOK, RotationOK, NothingInstalls
  <2> QED
    BY <2>2, <2>3, <2>4
<1>5. CASE /\ op' \in {NoOp, Start("giveUp", "revokeKey")}
           /\ UNCHANGED <<cachedTimeout, hardExpiry, ghosts, cap>>
  <2>1. op'.kind \in {"none", "giveUp"} /\ op'.step \in {"none", "revokeKey"}
    BY <1>5, NoOpFields DEF Start
  <2> QED
    BY <1>2, <1>5, <2>1, BeginFrame DEF IInv, ghosts
<1> QED
  BY <1>4, <1>5 DEF RevokeCipher

LEMMA SStoreFails ==
  ASSUME IInv, StoreFails, keys' = keys, ended' = ended PROVE Safe'
<1>1. op'.kind \in {"none", "giveUp"} /\ op'.step \in {"none", "revokeKey"} /\ cap' = cap
  BY NoOpFields DEF StoreFails, Start
<1> QED
  BY <1>1, BeginFrame DEF IInv

LEMMA SSetCipher == ASSUME IInv, SetCipher PROVE Safe'
<1>1. op \in OpType /\ op.step = "setCipher"
  BY RunningOp DEF SetCipher, At, IInv
<1>2. keys' = keys /\ ended' = ended
  BY DEF SetCipher, sessionVars, ghosts
<1>3. CASE StoreFails
  BY <1>2, <1>3, SStoreFails
<1>4. CASE cap' = Unreadable /\ op' = [op EXCEPT !.step = "setKey"]
  <2>1. op'.kind = op.kind /\ op'.step = "setKey" /\ op'.authenticated = op.authenticated
    BY <1>1, <1>4 DEF OpType
  <2>2. ~Opens'
    BY <1>4, CapTypes DEF Opens
  <2> QED
    BY <1>1, <1>2, <2>1, <2>2 DEF IInv, Safe, StepsOK, LockOK, RotationOK, NothingInstalls
<1> QED
  BY <1>3, <1>4 DEF SetCipher

LEMMA SSetKey == ASSUME IInv, SetKey PROVE Safe'
<1>1. op \in OpType /\ op.step = "setKey"
  BY RunningOp DEF SetKey, At, IInv
<1>2. keys' = keys
  BY DEF SetKey, sessionVars
<1>3. CASE StoreFails /\ UNCHANGED ghosts
  BY <1>2, <1>3, SStoreFails DEF ghosts
<1>4. CASE op' = [op EXCEPT !.step = "commit"] /\ Authenticated
  <2>1. op'.kind = op.kind /\ op'.step = "commit" /\ op'.authenticated = op.authenticated
    BY <1>1, <1>4 DEF OpType
  <2>2. op.kind \in {"unlock", "passkeyStore"} /\ op.authenticated = TRUE
    BY <1>1 DEF IInv, Safe, StepsOK
  <2>3. ended' = "no"
    BY <1>4, <2>2 DEF Authenticated, Begins
  <2> QED
    BY <2>1, <2>2, <2>3 DEF Safe, StepsOK, LockOK, RotationOK
<1> QED
  BY <1>3, <1>4 DEF SetKey

LEMMA SCommit == ASSUME IInv, Commit PROVE Safe'
<1>1. op \in OpType /\ op.step = "commit"
  BY RunningOp DEF Commit, At, IInv
<1>2. ended' = ended /\ cap' = cap /\ ended \notin {"locked", "rotated"}
  BY <1>1 DEF Commit, ghosts, IInv, Safe, LockOK, RotationOK, NothingInstalls
<1>3. \/ op'.kind = "none" /\ op'.step = "none"
      \/ /\ op'.kind = op.kind /\ op'.step = "recheck"
         /\ op'.authenticated = op.authenticated
  BY <1>1, NoOpFields DEF Commit, OpType
<1>4. op.kind # "lock"
  BY <1>1 DEF IInv, Safe, StepsOK
<1> QED
  BY <1>2, <1>3, <1>4 DEF IInv, Safe, StepsOK, LockOK, RotationOK

LEMMA SCommitFails == ASSUME IInv, CommitFails PROVE Safe'
<1>1. op'.kind = "refuse" /\ op'.step = "revokeKey"
  BY DEF CommitFails, Start
<1> QED
  BY <1>1, BeginFrame DEF IInv, CommitFails, ClearMemory, ghosts

LEMMA SBeginLock == ASSUME IInv, BeginLock PROVE Safe'
<1>1. op'.kind = "lock" /\ op'.step = "revokeKey"
  BY DEF BeginLock, Start
<1>2. keys' = FALSE /\ cap' = cap /\ ended' = ended /\ Opens' = Opens
  BY DEF BeginLock, ClearMemory, ghosts, Opens
<1> QED
  BY <1>1, <1>2 DEF IInv, Safe, StepsOK, LockOK, RotationOK, NothingInstalls

LEMMA SBeginRestore == ASSUME IInv, BeginRestore PROVE Safe'
<1>1. ended' = ended /\ cap' = cap /\ Opens' = Opens /\ (keys' = FALSE \/ keys' = keys)
  BY DEF BeginRestore, ClearMemory, sessionVars, ghosts, Opens
<1>2. CASE /\ op' = [Start("restore", "commit") EXCEPT !.timeout = stored,
                                                       !.expiry = Ends(cap.last, stored)]
           /\ Restorable
  <2>1. op'.kind = "restore" /\ op'.step = "commit"
    BY <1>2 DEF Start
  <2>2. ended \notin {"locked", "rotated"}
    BY <1>2 DEF Restorable, IInv, Safe, LockOK, RotationOK, TypeOK
  <2> QED
    BY <1>1, <2>1, <2>2 DEF IInv, Safe, StepsOK, LockOK, RotationOK
<1>3. CASE \/ op' = NoOp \/ op' = op
           \/ op' = Start("refuse", "revokeKey") \/ op' = Start("giveUp", "revokeKey")
  <2>1. op = NoOp
    BY DEF BeginRestore, Idle
  <2>2. op'.kind \in {"none", "refuse", "giveUp"} /\ op'.step \in {"none", "revokeKey"}
    BY <1>3, <2>1, NoOpFields DEF Start
  <2> QED
    BY <1>1, <2>2, BeginFrame DEF IInv
<1> QED
  BY <1>2, <1>3 DEF BeginRestore

LEMMA SRecheck == ASSUME IInv, Recheck PROVE Safe'
<1>1. op \in OpType /\ op.step = "recheck"
  BY RunningOp DEF Recheck, At, IInv
<1>2. /\ ended' = ended /\ cap' = cap /\ Opens' = Opens
      /\ ended \notin {"locked", "rotated"}
  BY <1>1 DEF Recheck, ghosts, Opens, IInv, Safe, LockOK, RotationOK, NothingInstalls
<1>3. \/ op'.kind \in {"none", "refuse"} /\ op'.step \in {"none", "revokeKey"}
      \/ op'.kind = "restore" /\ op'.step = "lease"
  <2>1. CASE op.kind = "restore" /\ op' = [op EXCEPT !.step = "lease"]
    BY <1>1, <2>1 DEF OpType
  <2>2. CASE op' = NoOp \/ op' = Start("refuse", "revokeKey")
    BY <2>2, NoOpFields DEF Start
  <2> QED
    BY <2>1, <2>2 DEF Recheck
<1> QED
  BY <1>2, <1>3 DEF Safe, StepsOK, LockOK, RotationOK

LEMMA SRestoreLease == ASSUME IInv, RestoreLease PROVE Safe'
<1>1. op.step = "lease"
  BY DEF RestoreLease, At
<1>2. ended' = ended /\ ended \notin {"locked", "rotated"}
  BY <1>1 DEF RestoreLease, ghosts, IInv, Safe, LockOK, RotationOK, NothingInstalls
<1>3. op'.kind \in {"none", "giveUp"} /\ op'.step \in {"none", "revokeKey"}
  BY NoOpFields DEF RestoreLease, Start
<1> QED
  BY <1>2, <1>3 DEF Safe, StepsOK, LockOK, RotationOK

LEMMA SStartCeremony == ASSUME IInv, StartCeremony PROVE Safe'
BY Frame DEF IInv, StartCeremony, sessionVars, ghosts

LEMMA LeaseWritten ==
  ASSUME TypeOK, NEW s \in Surfaces, NEW ids \in SUBSET Surfaces, WriteLease(s, ids)
  PROVE  cap'.timeout = cap.timeout /\ cap'.bound = cap.bound
BY LeasedType DEF WriteLease

LEMMA SRegister == ASSUME IInv, NEW s \in Surfaces, Register(s) PROVE Safe'
<1>1. surfaces \union {s} \in SUBSET Surfaces
  BY DEF IInv, TypeOK
<1>2. cap'.timeout = cap.timeout /\ cap'.bound = cap.bound
  BY <1>1, LeaseWritten DEF IInv, Register
<1>3. keys' = FALSE \/ keys' = keys
  BY DEF Register, ClearIfExpired, ClearMemory, sessionVars
<1> QED
  BY <1>2, <1>3, Frame DEF IInv, Register, pageFrame, ghosts

LEMMA SHeartbeat == ASSUME IInv, NEW s \in Surfaces, Heartbeat(s) PROVE Safe'
<1>1. surfaces \in SUBSET Surfaces
  BY DEF IInv, TypeOK
<1>2. cap'.timeout = cap.timeout /\ cap'.bound = cap.bound
  BY <1>1, LeaseWritten DEF IInv, Heartbeat
<1> QED
  BY <1>2, Frame DEF IInv, Heartbeat, pageFrame, sessionVars, ghosts

LEMMA SDisconnect == ASSUME IInv, NEW s \in Surfaces, Disconnect(s) PROVE Safe'
<1>1. surfaces \ {s} \in SUBSET Surfaces
  BY DEF IInv, TypeOK
<1>2. cap'.timeout = cap.timeout /\ cap'.bound = cap.bound
  BY <1>1, LeasedType DEF IInv, Disconnect
<1>3. keys' = FALSE \/ keys' = keys
  BY DEF Disconnect, ClearMemory, sessionVars
<1> QED
  BY <1>2, <1>3, Frame DEF IInv, Disconnect, pageFrame, ghosts

LEMMA SPageOpens == ASSUME IInv, NEW s \in Surfaces, PageOpens(s) PROVE Safe'
BY Frame DEF IInv, PageOpens, Seen, sessionVars

LEMMA SPageCloses == ASSUME IInv, NEW s \in Surfaces, PageCloses(s) PROVE Safe'
BY Frame DEF IInv, PageCloses, Seen, sessionVars

LEMMA SSetTimeout == ASSUME IInv, NEW t \in Timeouts, SetTimeout(t) PROVE Safe'
<1>1. CASE t = stored
  BY <1>1, Frame DEF IInv, SetTimeout, Changed, sessionVars, ghosts
<1>2. CASE t # stored
  <2>1. op'.kind = "policy" /\ op'.step = "revokeKey" /\ ended' = ended
    BY <1>2 DEF SetTimeout, Changed, Start
  <2> QED
    BY <2>1, BeginFrame DEF IInv, SetTimeout, sessionVars
<1> QED
  BY <1>1, <1>2

LEMMA SSyncTimeout == ASSUME IInv, NEW t \in Timeouts, SyncTimeout(t) PROVE Safe'
BY Frame DEF IInv, SyncTimeout, Changed, sessionVars

LEMMA SDeliverEvent == ASSUME IInv, DeliverEvent PROVE Safe'
BY Frame DEF IInv, DeliverEvent, sessionVars, ghosts

LEMMA SPolicyRevoke == ASSUME IInv, PolicyRevoke PROVE Safe'
<1>1. op'.kind = "policy" /\ op'.step = "revokeKey"
  BY DEF PolicyRevoke, Start
<1> QED
  BY <1>1, BeginFrame DEF IInv, PolicyRevoke, sessionVars, ghosts

LEMMA SRotate == ASSUME IInv, Rotate PROVE Safe'
<1>1. op'.kind = "rotate" /\ op'.step = "clear"
  BY DEF Rotate, Start
<1>2. cap'.bound = FALSE /\ cap'.timeout = cap.timeout
  <2>1. CASE cap \in CapType
    BY <2>1 DEF Rotate, CapType
  <2>2. CASE cap \in {NoCap, Unreadable}
    BY <2>2 DEF Rotate, NoCap, Unreadable
  <2> QED
    BY <2>1, <2>2 DEF IInv, TypeOK
<1>3. Opens' = Opens
  BY <1>2 DEF Opens
<1>4. keys' = keys /\ ended' = ended
  BY DEF Rotate, sessionVars, ghosts
<1> QED
  BY <1>1, <1>2, <1>3, <1>4 DEF IInv, Safe, StepsOK, LockOK, RotationOK, NothingInstalls

LEMMA SRotateClear == ASSUME IInv, RotateClear PROVE Safe'
<1>1. op \in OpType /\ op.step = "clear"
  BY RunningOp DEF RotateClear, At, IInv
<1>2. op'.kind = op.kind /\ op'.step = "revokeKey" /\ op'.authenticated = op.authenticated
  BY <1>1 DEF RotateClear, OpType
<1>3. keys' = FALSE /\ ended' = "rotated" /\ cap' = cap
  BY DEF RotateClear, ClearMemory, EndedBy
<1>4. cap'.bound = FALSE
  BY <1>1, <1>3 DEF IInv, Safe, StepsOK
<1> QED
  BY <1>2, <1>3, <1>4 DEF IInv, Safe, StepsOK, LockOK, RotationOK, NothingInstalls

LEMMA SRestart == ASSUME IInv, Restart PROVE Safe'
<1>1. op'.kind = "none" /\ op'.step = "none" /\ keys' = FALSE /\ cap' = cap
  BY NoOpFields DEF Restart, MemoryLost, ClearMemory
<1>2. Opens' = Opens
  BY <1>1 DEF Opens
<1>3. ended' = ended \/ (ended' = "rotated" /\ cap.bound = FALSE)
  BY DEF Restart, At, EndedBy, ghosts, IInv, Safe, StepsOK
<1> QED
  BY <1>1, <1>2, <1>3 DEF IInv, Safe, StepsOK, LockOK, RotationOK, NothingInstalls

LEMMA SBrowserClose == ASSUME IInv, BrowserClose PROVE Safe'
<1>1. op'.kind = "none" /\ op'.step = "none" /\ keys' = FALSE
  BY NoOpFields DEF BrowserClose, MemoryLost, ClearMemory
<1>2. ~Opens'
  BY CapTypes DEF BrowserClose, CipherRemoved, Opens
<1> QED
  BY <1>1, <1>2 DEF Safe, StepsOK, LockOK, RotationOK, NothingInstalls

LEMMA SExpireOnRead == ASSUME IInv, ExpireOnRead PROVE Safe'
BY Frame DEF IInv, ExpireOnRead, ClearMemory, ghosts

LEMMA SSuspend == ASSUME IInv, Suspend PROVE Safe'
BY Frame DEF IInv, Suspend, ClearMemory, ghosts

LEMMA STick == ASSUME IInv, Tick PROVE Safe'
BY Frame DEF IInv, Tick, sessionVars

-----------------------------------------------------------------------------
LEMMA InitInv == Init => IInv
<1> SUFFICES ASSUME Init PROVE IInv
  OBVIOUS
<1>1. 0 \in Times /\ Forever \in Expiries
  BY DEF Times, Expiries
<1>2. TypeOK
  BY <1>1 DEF Init, TypeOK
<1>3. StepsOK /\ LockOK /\ RotationOK
  BY NoOpFields DEF Init, StepsOK, LockOK, RotationOK
<1> QED
  BY <1>2, <1>3 DEF IInv, Safe

LEMMA NextInv == IInv /\ [Next]_vars => IInv'
<1> SUFFICES ASSUME IInv, [Next]_vars PROVE IInv'
  OBVIOUS
<1>1. TypeOK
  BY DEF IInv
<1>2. CASE Transition
  <2>1. CASE BeginUnlock
    BY <1>1, <2>1, TBeginUnlock, SBeginUnlock DEF IInv
  <2>2. CASE BeginPasskey
    BY <1>1, <2>2, TBeginPasskey, SBeginPasskey DEF IInv
  <2>3. CASE BeginLock
    BY <1>1, <2>3, TBeginLock, SBeginLock DEF IInv
  <2>4. CASE BeginRestore
    BY <1>1, <2>4, TBeginRestore, SBeginRestore DEF IInv
  <2>5. CASE PolicyRevoke
    BY <1>1, <2>5, TPolicyRevoke, SPolicyRevoke DEF IInv
  <2>6. CASE Rotate
    BY <1>1, <2>6, TRotate, SRotate DEF IInv
  <2>7. CASE RevokeKey
    BY <1>1, <2>7, TRevokeKey, SRevokeKey DEF IInv
  <2>8. CASE RevokeCipher
    BY <1>1, <2>8, TRevokeCipher, SRevokeCipher DEF IInv
  <2>9. CASE SetCipher
    BY <1>1, <2>9, TSetCipher, SSetCipher DEF IInv
  <2>10. CASE SetKey
    BY <1>1, <2>10, TSetKey, SSetKey DEF IInv
  <2>11. CASE Commit
    BY <1>1, <2>11, TCommit, SCommit DEF IInv
  <2>16. CASE CommitFails
    BY <1>1, <2>16, TCommitFails, SCommitFails DEF IInv
  <2>12. CASE Recheck
    BY <1>1, <2>12, TRecheck, SRecheck DEF IInv
  <2>13. CASE RestoreLease
    BY <1>1, <2>13, TRestoreLease, SRestoreLease DEF IInv
  <2>14. CASE RotateClear
    BY <1>1, <2>14, TRotateClear, SRotateClear DEF IInv
  <2>15. ASSUME NEW t \in Timeouts, SetTimeout(t) PROVE IInv'
    BY <1>1, <2>15, TSetTimeout, SSetTimeout DEF IInv
  <2> QED
    BY <1>2, <2>1, <2>2, <2>3, <2>4, <2>5, <2>6, <2>7, <2>8, <2>9, <2>10, <2>11, <2>12,
       <2>13, <2>14, <2>15, <2>16 DEF Transition
<1>3. CASE PageStep
  <2>1. ASSUME NEW s \in Surfaces, PageOpens(s) PROVE IInv'
    BY <1>1, <2>1, TPageOpens, SPageOpens DEF IInv
  <2>2. ASSUME NEW s \in Surfaces, PageCloses(s) PROVE IInv'
    BY <1>1, <2>2, TPageCloses, SPageCloses DEF IInv
  <2>3. ASSUME NEW s \in Surfaces, Register(s) PROVE IInv'
    BY <1>1, <2>3, TRegister, SRegister DEF IInv
  <2>4. ASSUME NEW s \in Surfaces, Heartbeat(s) PROVE IInv'
    BY <1>1, <2>4, THeartbeat, SHeartbeat DEF IInv
  <2>5. ASSUME NEW s \in Surfaces, Disconnect(s) PROVE IInv'
    BY <1>1, <2>5, TDisconnect, SDisconnect DEF IInv
  <2>6. CASE StartCeremony
    BY <1>1, <2>6, TStartCeremony, SStartCeremony DEF IInv
  <2> QED
    BY <1>3, <2>1, <2>2, <2>3, <2>4, <2>5, <2>6 DEF PageStep
<1>4. CASE Environment
  <2>1. CASE ExpireOnRead
    BY <1>1, <2>1, TExpireOnRead, SExpireOnRead DEF IInv
  <2>2. CASE Suspend
    BY <1>1, <2>2, TSuspend, SSuspend DEF IInv
  <2>3. CASE Restart
    BY <1>1, <2>3, TRestart, SRestart DEF IInv
  <2>4. CASE BrowserClose
    BY <1>1, <2>4, TBrowserClose, SBrowserClose DEF IInv
  <2>5. CASE Tick
    BY <1>1, <2>5, TTick, STick DEF IInv
  <2>6. CASE DeliverEvent
    BY <1>1, <2>6, TDeliverEvent, SDeliverEvent DEF IInv
  <2>7. ASSUME NEW t \in Timeouts, SyncTimeout(t) PROVE IInv'
    BY <1>1, <2>7, TSyncTimeout, SSyncTimeout DEF IInv
  <2> QED
    BY <1>4, <2>1, <2>2, <2>3, <2>4, <2>5, <2>6, <2>7 DEF Environment
<1>5. CASE UNCHANGED vars
  <2>0. UNCHANGED ghosts
    BY <1>5 DEF vars
  <2>1. TypeOK'
    BY <1>1, <1>5, <2>0, GhostsType DEF vars, sessionVars, surfaceVars, TypeOK
  <2>2. Safe'
    BY <1>5, Frame DEF IInv, vars, sessionVars, ghosts
  <2> QED
    BY <2>1, <2>2 DEF IInv
<1> QED
  BY <1>2, <1>3, <1>4, <1>5 DEF Next

LEMMA Inductive == Spec => []IInv
BY InitInv, NextInv, PTL DEF Spec

\* Every variable of the session keeps its type, whatever fails and whenever the worker
\* dies: a transition runs only through the steps of its kind, and the capability is
\* absent, unreadable or a record of pages that exist.
THEOREM TypeCorrect == Spec => []TypeOK
<1>1. IInv => TypeOK
  BY DEF IInv
<1> QED
  BY <1>1, Inductive, PTL

\* terminateActiveAuthSession: after a lock that reported success only a fresh
\* authentication makes the keys usable, for any number of pages and timeouts and
\* whichever storage calls fail.
THEOREM LockAlwaysFinal == Spec => []LockIsFinal
<1>1. IInv => LockIsFinal
  BY DEF IInv, Safe, LockOK, LockIsFinal, Usable
<1> QED
  BY <1>1, Inductive, PTL

\* handleChangePassword: no session of the old master password is usable after the write,
\* even when the worker dies right after it or no half of the capability was removed.
THEOREM RotationAlwaysFinal == Spec => []RotationIsFinal
<1>1. IInv => RotationIsFinal
  BY DEF IInv, Safe, RotationOK, RotationIsFinal, Usable
<1> QED
  BY <1>1, Inductive, PTL

-----------------------------------------------------------------------------
(* Inactivity ends the session, as long as no write of a lease fails.        *)

\* Nothing carries a time that is still to come.
Clock ==
  /\ lastSeen <= now /\ stamp <= now /\ (Opens => cap.last <= now)
  /\ op.kind = "restore" /\ op.step \in {"commit", "recheck"} /\ op.timeout # 0 =>
       op.expiry # Forever /\ op.expiry <= now + op.timeout

\* The cached policy is the stored one unless the change has not been delivered yet, and
\* whoever holds keys, or is about to, has read it.
Policy ==
  /\ event = NoEvent => cachedTimeout \in {Unread, stored}
  /\ event # NoEvent => event = stored
  /\ keys \/ op.kind \in {"unlock", "passkeyStore", "restore"} => cachedTimeout # Unread

\* A page counts exactly as long as its port is bound: this is what a failed lease breaks.
Counted ==
  /\ surfaces = ports
  /\ op.step = "lease" => surfaces # {}
  /\ op.step = "commit" => op.kind \in {"unlock", "passkeyStore", "restore"}
  /\ op.step = "recheck" => op.kind \in {"passkeyStore", "restore"}

\* The clock does not move between these and the page or the person they stem from.
Present ==
  \/ open # {} \/ surfaces # {} \/ event # NoEvent \/ due \/ op.kind = "policy"
  \/ op.kind \in {"unlock", "passkeyStore"} /\ op.step \in {"commit", "recheck"}

Recent == ended = "no" /\ ~changed /\ Present => lastSeen = now

\* An end that is no later than the timeout after the last sign of life.
Bounded(end, timeout) == end # Forever /\ end <= lastSeen + timeout

\* Between the commit of a restoration and its second look at the policy the keys have
\* a stamp of their own and no end yet.
Unbounded == op.kind = "restore" /\ op.step = "recheck"

CapLive == Opens => cap.last <= lastSeen
KeysLive == keys /\ ~Unbounded /\ stored # 0 => stamp <= lastSeen \/ Bounded(hardExpiry, stored)
RestoreLive ==
  op.kind = "restore" /\ op.step \in {"commit", "recheck"} /\ op.timeout # 0
    => Bounded(op.expiry, op.timeout)

\* While a session lives and its setting stays, nothing that keeps it alive reaches further
\* than the timeout.
LiveOK == ended = "no" /\ ~changed => CapLive /\ KeysLive /\ RestoreLive

\* What an expired session leaves behind: no change of policy under way, keys only if they
\* are invalid and no page has registered, and no capability that could be restored.
ExpiredOK ==
  ended = "expired" /\ ~changed =>
    /\ NothingInstalls /\ op.kind # "policy" /\ event = NoEvent /\ due = FALSE
    /\ stored # 0
    /\ keys => surfaces = {} /\ ~Valid(stored)
    /\ Opens /\ cap.timeout = stored => cap.last + stored <= now
    /\ (open \union surfaces) \intersect cap.ids = {}

Idleness == Clock /\ Policy /\ Counted /\ Recent /\ LiveOK /\ ExpiredOK

LEMMA NumbersOf ==
  ASSUME TypeOK
  PROVE  /\ now \in Int /\ stamp \in Int /\ lastSeen \in Int /\ stored \in Nat
         /\ stamp >= 0 /\ lastSeen >= 0 /\ now >= 0
         /\ hardExpiry \in Int /\ cachedTimeout \in Int /\ event \in Int
         /\ Opens => cap \in CapType /\ cap.last \in Int
         /\ op # NoOp => op \in OpType /\ op.expiry \in Int /\ op.timeout \in Nat
<1>1. MaxTime \in Nat /\ \A d \in Timeouts : d \in Nat
  BY SessionAssumption
<1>2. \A e \in Expiries : e \in Int
  <2> SUFFICES ASSUME NEW e \in Expiries PROVE e \in Int
    OBVIOUS
  <2>1. CASE e = Forever
    BY <2>1 DEF Forever
  <2>2. ASSUME NEW t \in Times, NEW d \in Timeouts, e = t + d PROVE e \in Int
    BY <1>1, <2>2 DEF Times
  <2> QED
    BY <2>1, <2>2 DEF Expiries
<1>3. Opens => cap \in CapType
  BY CapTypes DEF Opens, TypeOK
<1>4. \A t \in Times : t \in Int /\ t >= 0
  BY <1>1 DEF Times
<1>5. now \in Times /\ stamp \in Times /\ lastSeen \in Times /\ stored \in Timeouts
  BY DEF TypeOK
<1>6. hardExpiry \in Int /\ cachedTimeout \in Int /\ event \in Int
  BY <1>1, <1>2 DEF TypeOK, Unread, NoEvent
<1>7. Opens => cap.last \in Int
  BY <1>3, <1>4 DEF CapType
<1>8. op # NoOp => op \in OpType /\ op.expiry \in Int /\ op.timeout \in Nat
  BY <1>1, <1>2 DEF TypeOK, OpType
<1> QED
  BY <1>1, <1>3, <1>4, <1>5, <1>6, <1>7, <1>8

LEMMA SameGhosts ==
  ASSUME UNCHANGED ghosts
  PROVE  lastSeen' = lastSeen /\ ended' = ended /\ (changed' <=> changed)
<1>1. changed' <=> changed
  BY DEF ghosts
<1> QED
  BY <1>1 DEF ghosts

\* A step of a transition that installs no keys, stores no capability and lets no time pass.
LEMMA IdleFrame ==
  ASSUME TypeOK, Idleness,
         UNCHANGED <<now, ghosts, stored, event, surfaceVars, open, due>>,
         cachedTimeout' \in {cachedTimeout, stored},
         ClearMemory \/ UNCHANGED sessionVars,
         Opens' => Opens /\ cap'.last = cap.last /\ cap'.timeout = cap.timeout,
         cap'.ids \subseteq cap.ids,
         \/ op' = op
         \/ /\ op'.step \notin {"commit", "recheck", "lease"}
            /\ op'.kind = "policy" => op.kind = "policy"
            /\ op'.kind \in {"unlock", "passkeyStore", "restore"} => cachedTimeout' # Unread
            /\ Unbounded => keys' = FALSE
  PROVE  Idleness'
<1>0. /\ now' = now /\ lastSeen' = lastSeen /\ ended' = ended
      /\ (changed' <=> changed) /\ stored' = stored
      /\ event' = event /\ surfaces' = surfaces /\ ports' = ports /\ open' = open /\ due' = due
  BY SameGhosts DEF surfaceVars
<1>1. \/ keys' = FALSE /\ stamp' = 0
      \/ keys' = keys /\ stamp' = stamp /\ hardExpiry' = hardExpiry
  BY DEF ClearMemory, sessionVars
<1>2. Clock'
  BY <1>0, <1>1, NumbersOf DEF Idleness, Clock
<1>3. Policy'
  BY <1>0, <1>1, NumbersOf DEF Idleness, Policy, Unread
<1>4. Counted'
  BY <1>0 DEF Idleness, Counted
<1>5. Recent'
  BY <1>0 DEF Idleness, Recent, Present
<1>6. LiveOK'
  BY <1>0, <1>1 DEF Idleness, LiveOK, CapLive, KeysLive, RestoreLive, Bounded, Unbounded
<1>7. ExpiredOK'
  BY <1>0, <1>1 DEF Idleness, ExpiredOK, NothingInstalls, Valid
<1> QED
  BY <1>2, <1>3, <1>4, <1>5, <1>6, <1>7 DEF Idleness

LEMMA IBeginUnlock == ASSUME IInv, Idleness, BeginUnlock PROVE Idleness'
<1>1. op'.kind = "unlock" /\ op'.step = "revokeKey" /\ op = NoOp
  BY DEF BeginUnlock, Start, Idle
<1>2. cachedTimeout' \in {cachedTimeout, stored} /\ cachedTimeout' # Unread
  BY NumbersOf DEF IInv, BeginUnlock, Unread
<1> QED
  BY <1>1, <1>2, IdleFrame, NoOpFields
     DEF IInv, BeginUnlock, sessionVars, surfaceVars, ghosts, Opens, Unbounded

LEMMA IBeginPasskey == ASSUME IInv, Idleness, BeginPasskey PROVE Idleness'
<1>1. op'.kind = "passkey" /\ op'.step = "revokeKey" /\ keys' = FALSE
  BY DEF BeginPasskey, Start, ClearMemory
<1> QED
  BY <1>1, IdleFrame DEF IInv, BeginPasskey, Opens

LEMMA IBeginLock == ASSUME IInv, Idleness, BeginLock PROVE Idleness'
<1>1. op'.kind = "lock" /\ op'.step = "revokeKey" /\ keys' = FALSE
  BY DEF BeginLock, Start, ClearMemory
<1> QED
  BY <1>1, IdleFrame DEF IInv, BeginLock, Opens

LEMMA IRotate == ASSUME IInv, Idleness, Rotate PROVE Idleness'
<1>1. op'.kind = "rotate" /\ op'.step = "clear" /\ op = NoOp
  BY DEF Rotate, Start, Idle
<1>2. cap'.last = cap.last /\ cap'.timeout = cap.timeout /\ cap'.ids = cap.ids
  <2>1. CASE cap \in CapType
    BY <2>1 DEF Rotate, CapType
  <2>2. CASE cap \in {NoCap, Unreadable}
    BY <2>2 DEF Rotate, NoCap, Unreadable
  <2> QED
    BY <2>1, <2>2 DEF IInv, TypeOK
<1> QED
  BY <1>1, <1>2, IdleFrame, NoOpFields
     DEF IInv, Rotate, Opens, sessionVars, surfaceVars, ghosts, Unbounded

LEMMA IRevokeKey == ASSUME IInv, Idleness, RevokeKey PROVE Idleness'
<1>1. op \in OpType /\ op.step = "revokeKey"
  BY RunningOp DEF RevokeKey, At, IInv
<1>2. op'.kind = op.kind /\ op'.step = "revokeCipher"
  BY <1>1 DEF RevokeKey, OpType
<1>3. cap' = cap \/ cap' = Unreadable
  BY DEF RevokeKey
<1>4. cap'.ids \subseteq cap.ids /\ (Opens' => cap' = cap)
  BY <1>3, CapTypes DEF Unreadable, NoCap, Opens
<1>5. op.kind \in {"unlock", "passkeyStore", "restore"} => cachedTimeout # Unread
  BY DEF Idleness, Policy
<1> QED
  BY <1>1, <1>2, <1>4, <1>5, IdleFrame
     DEF IInv, RevokeKey, Opens, opFrame, surfaceVars, sessionVars, ghosts, Unbounded

LEMMA IStoreFails ==
  ASSUME IInv, Idleness, StoreFails, op.step \in {"setCipher", "setKey"},
         UNCHANGED <<opFrame, sessionVars, cachedTimeout, blocked, ceremony, ghosts>>
  PROVE  Idleness'
<1>1. op'.kind \in {"none", "giveUp"} /\ op'.step \in {"none", "revokeKey"} /\ cap' = cap
  BY NoOpFields DEF StoreFails, Start
<1> QED
  BY <1>1, IdleFrame DEF IInv, Opens, opFrame, surfaceVars, sessionVars, ghosts, Unbounded

LEMMA ISetCipher == ASSUME IInv, Idleness, SetCipher PROVE Idleness'
<1>1. op \in OpType /\ op.step = "setCipher"
  BY RunningOp DEF SetCipher, At, IInv
<1>2. CASE StoreFails
  BY <1>1, <1>2, IStoreFails DEF SetCipher
<1>3. CASE cap' = Unreadable /\ op' = [op EXCEPT !.step = "setKey"]
  <2>1. op'.kind = op.kind /\ op'.step = "setKey"
    BY <1>1, <1>3 DEF OpType
  <2>2. ~Opens' /\ cap'.ids = {}
    BY <1>3, CapTypes DEF Opens, Unreadable, NoCap
  <2>3. op.kind \in {"unlock", "passkeyStore", "restore"} => cachedTimeout # Unread
    BY DEF Idleness, Policy
  <2> QED
    BY <1>1, <2>1, <2>2, <2>3, IdleFrame
       DEF IInv, SetCipher, opFrame, surfaceVars, sessionVars, ghosts, Unbounded
<1> QED
  BY <1>2, <1>3 DEF SetCipher

LEMMA IStartCeremony == ASSUME IInv, Idleness, StartCeremony PROVE Idleness'
BY IdleFrame DEF IInv, StartCeremony, sessionVars, surfaceVars, ghosts, Opens

LEMMA IExpireOnRead == ASSUME IInv, Idleness, ExpireOnRead PROVE Idleness'
BY IdleFrame DEF IInv, ExpireOnRead, Opens

LEMMA ISuspend == ASSUME IInv, Idleness, Suspend PROVE Idleness'
BY IdleFrame DEF IInv, Suspend, Opens

LEMMA ISetKey == ASSUME IInv, Idleness, SetKey PROVE Idleness'
<1>1. op \in OpType /\ op.step = "setKey"
  BY RunningOp DEF SetKey, At, IInv
<1>2. CASE StoreFails /\ UNCHANGED ghosts
  BY <1>1, <1>2, IStoreFails DEF SetKey
<1>3. CASE /\ cap' = [timeout |-> op.timeout, bound |-> TRUE, ids |-> surfaces, last |-> now]
           /\ op' = [op EXCEPT !.step = "commit"] /\ Authenticated
  <2>1. op'.kind = op.kind /\ op'.step = "commit" /\ op.kind \in {"unlock", "passkeyStore"}
    BY <1>1, <1>3 DEF OpType, IInv, Safe, StepsOK
  <2>2. ended' = "no" /\ lastSeen' = now
    BY <1>3, <2>1 DEF Authenticated, Begins, IInv, Safe, StepsOK
  <2>3. /\ now' = now /\ stored' = stored /\ event' = event /\ cachedTimeout' = cachedTimeout
        /\ surfaces' = surfaces /\ ports' = ports /\ keys' = keys /\ stamp' = stamp
    BY DEF SetKey, opFrame, surfaceVars, sessionVars
  <2>4. cap'.last = now
    BY <1>3
  <2>5. Clock'
    BY <2>1, <2>2, <2>3, <2>4, NumbersOf DEF IInv, Idleness, Clock
  <2>6. Policy'
    BY <2>1, <2>3 DEF Idleness, Policy
  <2>7. Counted'
    BY <2>1, <2>3 DEF Idleness, Counted
  <2>8. LiveOK'
    BY <2>1, <2>2, <2>3, <2>4, NumbersOf
       DEF IInv, Idleness, Clock, LiveOK, CapLive, KeysLive, RestoreLive, Unbounded
  <2> QED
    BY <2>2, <2>3, <2>5, <2>6, <2>7, <2>8 DEF Idleness, Recent, ExpiredOK
<1> QED
  BY <1>2, <1>3 DEF SetKey

LEMMA ICommit == ASSUME IInv, Idleness, Commit PROVE Idleness'
<1>1. op \in OpType /\ op.step = "commit"
  BY RunningOp DEF Commit, At, IInv
<1>2. /\ ended' = ended /\ lastSeen' = lastSeen
      /\ (changed' <=> changed) /\ cap' = cap /\ Opens' = Opens /\ now' = now
      /\ stored' = stored /\ event' = event /\ surfaces' = surfaces /\ ports' = ports
      /\ cachedTimeout' = cachedTimeout /\ open' = open /\ due' = due
      /\ keys' = TRUE /\ stamp' = now
  BY SameGhosts DEF Commit, opFrame, surfaceVars, Opens
<1>3. \/ op.kind = "unlock" /\ op'.kind = "none" /\ op'.step = "none"
      \/ /\ op.kind \in {"passkeyStore", "restore"} /\ op'.kind = op.kind /\ op'.step = "recheck"
         /\ op'.timeout = op.timeout /\ op'.expiry = op.expiry
  BY <1>1, NoOpFields DEF Commit, OpType, Idleness, Counted
<1>4. ended # "expired" \/ changed
  BY <1>1 DEF Idleness, ExpiredOK, NothingInstalls
<1>5. op.kind \in {"unlock", "passkeyStore"} /\ ended = "no" /\ ~changed => lastSeen = now
  BY <1>1 DEF Idleness, Recent, Present
<1>6. Clock'
  BY <1>1, <1>2, <1>3, NumbersOf DEF IInv, Idleness, Clock
<1>7. Policy' /\ Counted'
  BY <1>2, <1>3 DEF Idleness, Policy, Counted
<1>8. Recent'
  BY <1>2, <1>3, <1>5 DEF Idleness, Recent, Present
<1>9. LiveOK'
  <2>1. CapLive' \/ ended # "no" \/ changed
    BY <1>2 DEF Idleness, LiveOK, CapLive
  <2>2. KeysLive' \/ ended # "no" \/ changed
    BY <1>2, <1>3, <1>5, NumbersOf DEF IInv, KeysLive, Unbounded
  <2>3. RestoreLive' \/ ended # "no" \/ changed
    BY <1>1, <1>2, <1>3 DEF Idleness, LiveOK, RestoreLive, Bounded
  <2> QED
    BY <1>2, <2>1, <2>2, <2>3 DEF LiveOK
<1> QED
  BY <1>2, <1>4, <1>6, <1>7, <1>8, <1>9 DEF Idleness, ExpiredOK

LEMMA ICommitFails == ASSUME IInv, Idleness, CommitFails PROVE Idleness'
<1>1. op'.kind = "refuse" /\ op'.step = "revokeKey" /\ keys' = FALSE
  BY DEF CommitFails, Start, ClearMemory
<1> QED
  BY <1>1, IdleFrame DEF IInv, CommitFails, opFrame, surfaceVars, Opens

LEMMA IBeginRestore == ASSUME IInv, Idleness, BeginRestore PROVE Idleness'
<1>1. op = NoOp /\ op.kind = "none" /\ op.step = "none"
  BY NoOpFields DEF BeginRestore, Idle
<1>2. /\ ended' = ended /\ lastSeen' = lastSeen
      /\ (changed' <=> changed) /\ cap' = cap /\ Opens' = Opens /\ now' = now
      /\ stored' = stored /\ event' = event /\ surfaces' = surfaces /\ ports' = ports
      /\ cachedTimeout' = stored /\ open' = open /\ due' = due
  BY SameGhosts DEF BeginRestore, surfaceVars, Opens
<1>3. ClearMemory \/ UNCHANGED sessionVars
  BY DEF BeginRestore
<1>4. CASE \/ op' = op \/ op' = NoOp
           \/ op' = Start("refuse", "revokeKey") \/ op' = Start("giveUp", "revokeKey")
  <2>1. op'.kind \in {"none", "refuse", "giveUp"} /\ op'.step \in {"none", "revokeKey"}
    BY <1>1, <1>4, NoOpFields DEF Start
  <2> QED
    BY <1>1, <1>2, <1>3, <2>1, IdleFrame DEF IInv, surfaceVars, ghosts, Unbounded
<1>5. CASE /\ op' = [Start("restore", "commit") EXCEPT !.timeout = stored,
                                                       !.expiry = Ends(cap.last, stored)]
           /\ Restorable /\ (keys => ~Valid(stored))
  <2>1. /\ op'.kind = "restore" /\ op'.step = "commit" /\ op'.timeout = stored
        /\ op'.expiry = Ends(cap.last, stored)
    BY <1>5 DEF Start
  <2>2. Opens /\ cap.last \in Int /\ cap.last >= 0
    BY <1>5, NumbersOf DEF Restorable, IInv, CapType, Times
  <2>3. \/ keys' = FALSE /\ stamp' = 0
        \/ keys' = keys /\ stamp' = stamp /\ hardExpiry' = hardExpiry
    BY <1>3 DEF ClearMemory, sessionVars
  <2>4. ended # "expired" \/ changed
    BY <1>5, <2>2, NumbersOf DEF IInv, Idleness, ExpiredOK, Restorable
  <2>5. Clock'
    BY <1>2, <2>1, <2>2, <2>3, NumbersOf DEF IInv, Idleness, Clock, Ends, Forever
  <2>6. Policy'
    BY <1>2, NumbersOf DEF IInv, Idleness, Policy, Unread
  <2>7. Counted' /\ Recent'
    BY <1>2, <2>1 DEF Idleness, Counted, Recent, Present
  <2>8. LiveOK'
    <3> SUFFICES ASSUME ended = "no", ~changed PROVE CapLive' /\ KeysLive' /\ RestoreLive'
      BY <1>2 DEF LiveOK
    <3>1. CapLive /\ KeysLive
      BY DEF Idleness, LiveOK
    <3>2. RestoreLive'
      BY <1>2, <2>1, <2>2, <3>1, NumbersOf
         DEF IInv, CapLive, RestoreLive, Bounded, Ends, Forever
    <3> QED
      BY <1>1, <1>2, <2>1, <2>3, <3>1, <3>2 DEF CapLive, KeysLive, Unbounded, Bounded
  <2> QED
    BY <1>2, <2>4, <2>5, <2>6, <2>7, <2>8 DEF Idleness, ExpiredOK
<1> QED
  BY <1>4, <1>5 DEF BeginRestore

LEMMA IRecheck == ASSUME IInv, Idleness, Recheck PROVE Idleness'
<1>1. op \in OpType /\ op.step = "recheck"
  BY RunningOp DEF Recheck, At, IInv
<1>2. /\ ended' = ended /\ lastSeen' = lastSeen
      /\ (changed' <=> changed) /\ cap' = cap /\ Opens' = Opens /\ now' = now
      /\ stored' = stored /\ event' = event /\ surfaces' = surfaces /\ ports' = ports
      /\ cachedTimeout' = stored /\ open' = open /\ due' = due
  BY SameGhosts DEF Recheck, opFrame, surfaceVars, Opens
<1>3. CASE ClearMemory /\ op' = Start("refuse", "revokeKey")
  <2>1. op'.kind = "refuse" /\ op'.step = "revokeKey" /\ keys' = FALSE
    BY <1>3 DEF Start, ClearMemory
  <2> QED
    BY <1>2, <1>3, <2>1, IdleFrame DEF IInv, surfaceVars, ghosts
<1>4. CASE op.kind = "passkeyStore" /\ op' = NoOp /\ UNCHANGED sessionVars
  BY <1>2, <1>4, NoOpFields, IdleFrame DEF IInv, surfaceVars, ghosts, Unbounded
<1>5. CASE /\ stored = op.timeout /\ op.kind = "restore"
           /\ hardExpiry' = RestoredExpiry(op.expiry) /\ UNCHANGED <<keys, stamp>>
           /\ IF surfaces # {} THEN op' = [op EXCEPT !.step = "lease"] ELSE op' = NoOp
  <2>1. \/ surfaces # {} /\ op'.kind = "restore" /\ op'.step = "lease"
        \/ surfaces = {} /\ op'.kind = "none" /\ op'.step = "none"
    BY <1>1, <1>5, NoOpFields DEF OpType
  <2>2. ended # "expired" \/ changed
    BY <1>1 DEF Idleness, ExpiredOK, NothingInstalls
  <2>3. Clock'
    BY <1>2, <1>5, <2>1 DEF Idleness, Clock
  <2>4. Policy'
    BY <1>2, NumbersOf DEF IInv, Idleness, Policy, Unread
  <2>5. Counted' /\ Recent'
    BY <1>2, <2>1 DEF Idleness, Counted, Recent, Present
  <2>6. LiveOK'
    <3> SUFFICES ASSUME ended = "no", ~changed PROVE CapLive' /\ KeysLive' /\ RestoreLive'
      BY <1>2 DEF LiveOK
    <3>1. CapLive' /\ RestoreLive'
      BY <1>2, <2>1 DEF Idleness, LiveOK, CapLive, RestoreLive
    <3>2. CASE surfaces # {}
      <4>1. lastSeen = now
        BY <3>2 DEF Idleness, Recent, Present
      <4> QED
        BY <1>2, <1>5, <3>1, <4>1, NumbersOf DEF IInv, Idleness, Clock, KeysLive
    <3>3. CASE surfaces = {} /\ stored # 0
      <4>1. Bounded(op.expiry, stored)
        BY <1>1, <1>5, <3>3 DEF Idleness, LiveOK, RestoreLive
      <4> QED
        BY <1>2, <1>5, <3>1, <3>3, <4>1 DEF KeysLive, Bounded, RestoredExpiry
    <3> QED
      BY <1>2, <3>1, <3>2, <3>3 DEF KeysLive
  <2> QED
    BY <1>2, <2>2, <2>3, <2>4, <2>5, <2>6 DEF Idleness, ExpiredOK
<1> QED
  BY <1>3, <1>4, <1>5 DEF Recheck

LEMMA IRestoreLease == ASSUME IInv, Idleness, RestoreLease PROVE Idleness'
<1>1. op.step = "lease" /\ surfaces # {} /\ ~Unbounded
  BY DEF RestoreLease, At, Idleness, Counted, Unbounded
<1>2. /\ UNCHANGED <<now, ghosts, stored, event, surfaceVars, open, due>>
      /\ cachedTimeout' = cachedTimeout
  BY DEF RestoreLease, opFrame, ghosts, surfaceVars
<1>3. op'.kind \in {"none", "giveUp"} /\ op'.step \in {"none", "revokeKey"}
  BY NoOpFields DEF RestoreLease, Start
<1>4. CASE ClearMemory /\ UNCHANGED cap
  BY <1>1, <1>2, <1>3, <1>4, IdleFrame DEF IInv, Opens
<1>5. CASE cap' = Leased(surfaces) /\ UNCHANGED sessionVars
  <2>1. ended # "expired" \/ changed
    BY <1>1 DEF Idleness, ExpiredOK, NothingInstalls
  <2>2. Opens' = Opens /\ (Opens => cap'.last = now)
    <3>1. CASE Opens
      BY <1>5, <3>1, NumbersOf DEF IInv, Leased, Opens, CapType
    <3>2. CASE ~Opens
      BY <1>5, <3>2 DEF Leased, Opens
    <3> QED
      BY <3>1, <3>2
  <2>3. ended = "no" /\ ~changed => lastSeen = now
    BY <1>1 DEF Idleness, Recent, Present
  <2>4. /\ now' = now /\ lastSeen' = lastSeen /\ ended' = ended
        /\ (changed' <=> changed) /\ stored' = stored
        /\ event' = event /\ surfaces' = surfaces /\ ports' = ports /\ open' = open
        /\ due' = due /\ keys' = keys /\ stamp' = stamp /\ hardExpiry' = hardExpiry
    BY <1>2, <1>5, SameGhosts DEF surfaceVars, sessionVars
  <2>5. Clock'
    BY <1>3, <2>2, <2>4, NumbersOf DEF IInv, Idleness, Clock
  <2>6. Policy' /\ Counted' /\ Recent'
    BY <1>2, <1>3, <2>4 DEF Idleness, Policy, Counted, Recent, Present
  <2>7. LiveOK'
    BY <1>1, <1>3, <2>2, <2>3, <2>4, NumbersOf
       DEF IInv, Idleness, LiveOK, CapLive, KeysLive, RestoreLive, Bounded
  <2> QED
    BY <2>1, <2>4, <2>5, <2>6, <2>7 DEF Idleness, ExpiredOK
<1> QED
  BY <1>4, <1>5 DEF RestoreLease

\* A lock or a new password that is reported: the ghosts start afresh.
LEMMA EndFrame ==
  ASSUME IInv, Idleness, ended' \in {"locked", "rotated"}, lastSeen' = 0,
         UNCHANGED <<now, stored, event, surfaceVars, cachedTimeout>>,
         \/ keys' = FALSE /\ stamp' = 0
         \/ keys' = keys /\ stamp' = stamp,
         Opens' => Opens /\ cap'.last = cap.last,
         op'.kind \in {"none", op.kind}, op'.step \in {"none", "revokeKey"}
  PROVE  Idleness'
<1>1. Clock'
  BY NumbersOf DEF IInv, Idleness, Clock
<1>2. Policy' /\ Counted'
  BY DEF Idleness, Policy, Counted, surfaceVars
<1> QED
  BY <1>1, <1>2 DEF Idleness, Recent, LiveOK, ExpiredOK

LEMMA IRevokeCipher == ASSUME IInv, Idleness, RevokeCipher PROVE Idleness'
<1>1. op \in OpType /\ op.step = "revokeCipher"
  BY RunningOp DEF RevokeCipher, At, IInv
<1>2. /\ keys' = keys /\ stamp' = stamp /\ now' = now /\ stored' = stored /\ event' = event
      /\ surfaces' = surfaces /\ ports' = ports /\ open' = open /\ due' = due
      /\ UNCHANGED surfaceVars
  BY DEF RevokeCipher, opFrame, surfaceVars
<1>3. /\ Opens' => Opens /\ cap'.last = cap.last /\ cap'.timeout = cap.timeout
      /\ cap'.ids \subseteq cap.ids
  <2>1. cap' = cap \/ cap' = NoCap
    BY DEF RevokeCipher, CipherRemoved
  <2> QED
    BY <2>1, CapTypes DEF Opens, NoCap
<1>4. CASE /\ op' \in {NoOp, Start("giveUp", "revokeKey")}
           /\ UNCHANGED <<cachedTimeout, hardExpiry, ghosts, cap>>
  <2>1. op'.kind \in {"none", "giveUp"} /\ op'.step \in {"none", "revokeKey"}
    BY <1>4, NoOpFields DEF Start
  <2> QED
    BY <1>1, <1>2, <1>3, <1>4, <2>1, IdleFrame DEF IInv, sessionVars, Unbounded
<1>5. CASE AfterRevocation
  <2>1. CASE op.kind \in {"unlock", "passkeyStore"}
    <3>1. op'.kind = op.kind /\ op'.step = "setCipher"
      BY <1>1, <1>5, <2>1 DEF AfterRevocation, OpType
    <3>2. cachedTimeout # Unread
      BY <2>1 DEF Idleness, Policy
    <3> QED
      BY <1>1, <1>2, <1>3, <1>5, <2>1, <3>1, <3>2, IdleFrame
         DEF IInv, AfterRevocation, sessionVars, ghosts, Unbounded
  <2>2. CASE op.kind = "passkey"
    <3>1. op'.kind = "passkeyStore" /\ op'.step = "revokeKey"
      BY <1>1, <1>5, <2>2 DEF AfterRevocation, OpType
    <3>2. cachedTimeout' = stored /\ stored # Unread
      BY <1>5, <2>2, NumbersOf DEF IInv, AfterRevocation, Unread
    <3> QED
      BY <1>1, <1>2, <1>3, <1>5, <2>2, <3>1, <3>2, IdleFrame
         DEF IInv, AfterRevocation, sessionVars, ghosts, Unbounded
  <2>3. CASE op.kind \notin {"unlock", "passkey", "passkeyStore"}
    <3>1. op'.kind = "none" /\ op'.step = "none" /\ cachedTimeout' = cachedTimeout
      BY <1>5, <2>3, NoOpFields DEF AfterRevocation
    <3>2. CASE op.kind = "lock"
      BY <1>2, <1>3, <1>5, <2>3, <3>1, <3>2, EndFrame DEF AfterRevocation, EndedBy
    <3>3. CASE op.kind = "policy"
      <4>1. ended' = ended /\ lastSeen' = lastSeen /\ (changed' <=> changed) /\ hardExpiry' = Forever
        BY <1>5, <3>3, SameGhosts DEF AfterRevocation
      <4>2. changed \/ (ended # "expired" /\ (ended = "no" => lastSeen = now))
        BY <3>3 DEF Idleness, ExpiredOK, Recent, Present
      <4>3. Clock'
        BY <1>2, <1>3, <3>1, <4>1 DEF Idleness, Clock
      <4>4. Policy' /\ Counted' /\ Recent'
        BY <1>2, <3>1, <4>1, <4>2 DEF Idleness, Policy, Counted, Recent, Present
      <4>5. LiveOK'
        BY <1>2, <1>3, <3>1, <4>1, <4>2 DEF Idleness, Clock, LiveOK, CapLive, KeysLive, RestoreLive
      <4> QED
        BY <4>1, <4>2, <4>3, <4>4, <4>5 DEF Idleness, ExpiredOK
    <3>4. CASE op.kind \notin {"lock", "policy"}
      BY <1>1, <1>2, <1>3, <1>5, <2>3, <3>1, <3>4, IdleFrame
         DEF IInv, AfterRevocation, sessionVars, ghosts, Unbounded
    <3> QED
      BY <3>2, <3>3, <3>4
  <2> QED
    BY <2>1, <2>2, <2>3
<1> QED
  BY <1>4, <1>5 DEF RevokeCipher

LEMMA IRotateClear == ASSUME IInv, Idleness, RotateClear PROVE Idleness'
<1>1. op \in OpType
  BY RunningOp DEF RotateClear, At, IInv
<1>2. op'.kind = op.kind /\ op'.step = "revokeKey"
  BY <1>1 DEF RotateClear, OpType
<1>3. keys' = FALSE /\ stamp' = 0 /\ ended' = "rotated" /\ lastSeen' = 0
  BY DEF RotateClear, ClearMemory, EndedBy
<1>4. UNCHANGED <<now, stored, event, surfaceVars, cachedTimeout>> /\ cap' = cap
  BY DEF RotateClear, opFrame
<1> QED
  BY <1>2, <1>3, <1>4, EndFrame DEF Opens

\* The worker dies: its tables are empty, the pages that were open are still there.
LEMMA IMemoryLost ==
  ASSUME IInv, Idleness, MemoryLost, UNCHANGED <<now, stored>>,
         Opens' => Opens /\ cap'.last = cap.last /\ cap'.timeout = cap.timeout,
         cap'.ids \subseteq cap.ids, open' \subseteq open,
         \/ UNCHANGED ghosts
         \/ ended' = "rotated" /\ lastSeen' = 0
         \/ Seen /\ open' = {}
  PROVE  Idleness'
<1>1. /\ keys' = FALSE /\ stamp' = 0 /\ surfaces' = {} /\ ports' = {} /\ due' = FALSE
      /\ cachedTimeout' = Unread /\ event' = NoEvent
      /\ op'.kind = "none" /\ op'.step = "none"
  BY NoOpFields DEF MemoryLost, ClearMemory
<1>2. \/ ended' = ended /\ lastSeen' = lastSeen /\ (changed' <=> changed)
      \/ ended' = "rotated" /\ lastSeen' = 0
      \/ ended' = ended /\ open' = {} /\ lastSeen' = IF ended = "no" THEN now ELSE lastSeen
  BY SameGhosts DEF Seen
<1>3. ended' = "expired" => (changed' <=> changed)
  <2>1. CASE UNCHANGED ghosts
    BY <2>1, SameGhosts
  <2>2. CASE Seen
    <3>1. ended' = "expired" => changed' = changed
      BY <2>2 DEF Seen
    <3> QED
      BY <3>1
  <2> QED
    BY <2>1, <2>2
<1>4. Clock'
  BY <1>1, <1>2, NumbersOf DEF IInv, Idleness, Clock
<1>5. Policy' /\ Counted'
  BY <1>1 DEF Policy, Counted
<1>6. Recent'
  BY <1>1, <1>2 DEF Idleness, Recent, Present
<1>7. LiveOK'
  <2> SUFFICES ASSUME ended' = "no", ~changed' PROVE CapLive' /\ KeysLive' /\ RestoreLive'
    BY DEF LiveOK
  <2>1. KeysLive' /\ RestoreLive'
    BY <1>1 DEF KeysLive, RestoreLive
  <2>2. CapLive'
    BY <1>1, <1>2 DEF Idleness, Clock, LiveOK, CapLive
  <2> QED
    BY <2>1, <2>2
<1>8. ExpiredOK'
  BY <1>1, <1>2, <1>3 DEF Idleness, ExpiredOK, NothingInstalls
<1> QED
  BY <1>4, <1>5, <1>6, <1>7, <1>8 DEF Idleness

LEMMA IRestart == ASSUME IInv, Idleness, Restart PROVE Idleness'
BY IMemoryLost DEF Restart, EndedBy, Opens

LEMMA IBrowserClose == ASSUME IInv, Idleness, BrowserClose PROVE Idleness'
<1>1. ~Opens' /\ cap'.ids = {}
  BY CapTypes DEF BrowserClose, CipherRemoved, Opens, NoCap
<1> QED
  BY <1>1, IMemoryLost DEF BrowserClose, EndedBy

\* The page that registers, beats or is gone was there when the clock last moved.
LEMMA PresentNow ==
  ASSUME Idleness, ended = "no", ~changed, open # {} \/ surfaces # {} PROVE lastSeen = now
BY DEF Idleness, Recent, Present

\* A lease can only say "now", and only of a session whose keys are usable.
LEMMA LeasedFields ==
  ASSUME TypeOK, NEW ids \in SUBSET Surfaces
  PROVE  /\ Leased(ids).timeout = cap.timeout
         /\ Opens => Leased(ids).last = now
         /\ ~Opens => Leased(ids) = cap
<1>1. CASE Opens
  <2>1. cap \in CapType
    BY <1>1, NumbersOf
  <2> QED
    BY <1>1, <2>1 DEF Leased, CapType
<1>2. CASE ~Opens
  BY <1>2 DEF Leased
<1> QED
  BY <1>1, <1>2

\* What a page event leaves: the tables of the pages, and perhaps a fresh lease or stamp.
LEMMA PageFrame ==
  ASSUME IInv, Idleness, UNCHANGED pageFrame, surfaces' = ports',
         open # {} \/ surfaces # {},
         op = NoOp, surfaces' \subseteq surfaces \union open,
         \/ ClearMemory
         \/ UNCHANGED sessionVars
         \/ keys' = keys /\ stamp' \in {stamp, now} /\ hardExpiry' = hardExpiry,
         cap' = cap \/ (cap'.timeout = cap.timeout /\ (Opens => cap'.last = now)),
         ended = "expired" /\ ~changed => UNCHANGED cap /\ keys' = FALSE
  PROVE  Idleness'
<1>0. /\ op' = op /\ op.kind = "none" /\ op.step = "none"
      /\ now' = now /\ lastSeen' = lastSeen /\ ended' = ended
      /\ (changed' <=> changed) /\ stored' = stored
      /\ event' = event /\ open' = open /\ due' = due /\ cachedTimeout' = cachedTimeout
  BY NoOpFields, SameGhosts DEF pageFrame
<1>1. Opens' = Opens /\ (Opens => cap'.last \in {cap.last, now})
  BY DEF Opens
<1>2. \/ keys' = FALSE /\ stamp' = 0
      \/ keys' = keys /\ stamp' \in {stamp, now} /\ hardExpiry' = hardExpiry
  BY DEF ClearMemory, sessionVars
<1>3. ended = "no" /\ ~changed => lastSeen = now
  BY PresentNow
<1>4. Clock'
  BY <1>0, <1>1, <1>2, NumbersOf DEF IInv, Idleness, Clock
<1>5. Policy' /\ Counted'
  BY <1>0, <1>2 DEF Idleness, Policy, Counted
<1>6. Recent'
  BY <1>0, <1>3 DEF Recent
<1>7. LiveOK'
  BY <1>0, <1>1, <1>2, <1>3, NumbersOf
     DEF IInv, Idleness, Clock, LiveOK, CapLive, KeysLive, RestoreLive
<1>8. ExpiredOK'
  <2> SUFFICES ASSUME ended = "expired", ~changed PROVE ExpiredOK'
    BY <1>0 DEF ExpiredOK
  <2>1. cap' = cap /\ keys' = FALSE
    OBVIOUS
  <2> QED
    BY <1>0, <1>1, <2>1 DEF Idleness, ExpiredOK, NothingInstalls
<1> QED
  BY <1>4, <1>5, <1>6, <1>7, <1>8 DEF Idleness

\* No page makes the keys of an expired session usable.
LEMMA ExpiredUnusable ==
  ASSUME IInv, Idleness, ended = "expired", ~changed PROVE ~Usable
<1>1. keys => surfaces = {} /\ ~Valid(stored)
  BY DEF Idleness, ExpiredOK
<1>2. keys => EffectiveTimeout = stored
  BY NumbersOf DEF IInv, Idleness, ExpiredOK, Policy, EffectiveTimeout
<1> QED
  BY <1>1, <1>2 DEF Usable

LEMMA IRegister ==
  ASSUME IInv, Idleness, "lease" \notin Faults, NEW s \in Surfaces, Register(s)
  PROVE  Idleness'
<1>1. /\ UNCHANGED pageFrame /\ open # {} /\ op = NoOp
      /\ surfaces' = surfaces \union {s} /\ ports' = ports \union {s}
      /\ cap' = IF Usable THEN Leased(surfaces \union {s}) ELSE cap
  BY DEF Register, Idle, WriteLease, MayFail
<1>2. ClearMemory \/ UNCHANGED sessionVars
  BY DEF Register, ClearIfExpired
<1>3. surfaces \union {s} \in SUBSET Surfaces
  BY DEF IInv, TypeOK
<1>4. cap' = cap \/ (cap'.timeout = cap.timeout /\ (Opens => cap'.last = now))
  BY <1>1, <1>3, LeasedFields DEF IInv
<1>5. ended = "expired" /\ ~changed => UNCHANGED cap /\ keys' = FALSE
  BY <1>1, ExpiredUnusable DEF Register, ClearIfExpired, ClearMemory, sessionVars, IInv, TypeOK
<1>6. surfaces' = ports' /\ surfaces' \subseteq surfaces \union open
  BY <1>1 DEF Idleness, Counted, Register
<1> QED
  BY <1>1, <1>2, <1>4, <1>5, <1>6, PageFrame

LEMMA IHeartbeat ==
  ASSUME IInv, Idleness, "lease" \notin Faults, NEW s \in Surfaces, Heartbeat(s)
  PROVE  Idleness'
<1>1. /\ UNCHANGED pageFrame /\ open # {} /\ op = NoOp /\ s \in ports
      /\ surfaces' = surfaces /\ ports' = ports \union {s} /\ UNCHANGED sessionVars
      /\ cap' = IF Usable THEN Leased(surfaces) ELSE cap
  BY DEF Heartbeat, Idle, WriteLease, MayFail
<1>2. surfaces \in SUBSET Surfaces
  BY DEF IInv, TypeOK
<1>3. cap' = cap \/ (cap'.timeout = cap.timeout /\ (Opens => cap'.last = now))
  BY <1>1, <1>2, LeasedFields DEF IInv
<1>4. surfaces' = ports' /\ surfaces # {}
  BY <1>1 DEF Idleness, Counted
<1>5. ended = "expired" /\ ~changed => UNCHANGED cap /\ keys' = FALSE
  BY <1>1, <1>4, ExpiredUnusable DEF sessionVars, IInv, TypeOK, Idleness, ExpiredOK
<1> QED
  BY <1>1, <1>3, <1>4, <1>5, PageFrame

LEMMA IDisconnect ==
  ASSUME IInv, Idleness, NEW s \in Surfaces, Disconnect(s)
  PROVE  Idleness'
<1>1. /\ UNCHANGED pageFrame /\ op = NoOp /\ s \in surfaces
      /\ surfaces' = surfaces \ {s} /\ ports' = ports \ {s}
  BY DEF Disconnect, Idle, DropLease, IInv, TypeOK
<1>2. \/ ClearMemory
      \/ UNCHANGED sessionVars
      \/ keys' = keys /\ stamp' \in {stamp, now} /\ hardExpiry' = hardExpiry
  BY DEF Disconnect
<1>3. surfaces \ {s} \in SUBSET Surfaces
  BY DEF IInv, TypeOK
<1>4. cap' = cap \/ (cap'.timeout = cap.timeout /\ (Opens => cap'.last = now))
  BY <1>3, LeasedFields DEF Disconnect, IInv
<1>5. ended = "expired" /\ ~changed => UNCHANGED cap /\ keys' = FALSE
  <2> SUFFICES ASSUME ended = "expired", ~changed PROVE UNCHANGED cap /\ keys' = FALSE
    OBVIOUS
  <2>1. keys = FALSE
    BY <1>1 DEF Idleness, ExpiredOK, IInv, TypeOK
  <2> QED
    BY <2>1 DEF Disconnect, sessionVars
<1>6. surfaces' = ports'
  BY <1>1 DEF Idleness, Counted
<1> QED
  BY <1>1, <1>2, <1>4, <1>5, <1>6, PageFrame

\* Somebody is seen; nothing else of the session moves.
LEMMA SeenFrame ==
  ASSUME IInv, Idleness, Seen,
         UNCHANGED <<sessionVars, surfaceVars, cachedTimeout, due, op, cap, stored, event, now>>,
         \A s \in open' : s \in open \/ s \notin cap.ids
  PROVE  Idleness'
<1>0. /\ now' = now /\ ended' = ended /\ stored' = stored /\ event' = event /\ due' = due
      /\ cachedTimeout' = cachedTimeout /\ op' = op /\ cap' = cap /\ Opens' = Opens
      /\ surfaces' = surfaces /\ ports' = ports /\ keys' = keys /\ stamp' = stamp
      /\ hardExpiry' = hardExpiry
      /\ lastSeen' = IF ended = "no" THEN now ELSE lastSeen
  BY DEF Seen, sessionVars, surfaceVars, Opens
<1>5. ended # "no" => (changed' <=> changed)
  BY DEF Seen
<1>1. Clock'
  BY <1>0, NumbersOf DEF IInv, Idleness, Clock
<1>2. Policy' /\ Counted' /\ Recent'
  BY <1>0 DEF Idleness, Policy, Counted, Recent
<1>3. LiveOK'
  <2> SUFFICES ASSUME ended = "no" PROVE CapLive' /\ KeysLive' /\ RestoreLive'
    BY <1>0 DEF LiveOK
  <2>1. CapLive' /\ KeysLive'
    BY <1>0 DEF Idleness, Clock, CapLive, KeysLive
  <2>2. RestoreLive'
    BY <1>0 DEF Idleness, Clock, RestoreLive, Bounded
  <2> QED
    BY <2>1, <2>2
<1>4. ExpiredOK'
  BY <1>0, <1>5 DEF Idleness, ExpiredOK, NothingInstalls, Valid
<1> QED
  BY <1>1, <1>2, <1>3, <1>4 DEF Idleness

LEMMA IPageOpens ==
  ASSUME IInv, Idleness, NEW s \in Surfaces, PageOpens(s) PROVE Idleness'
BY SeenFrame DEF PageOpens

LEMMA IPageCloses ==
  ASSUME IInv, Idleness, NEW s \in Surfaces, PageCloses(s) PROVE Idleness'
BY SeenFrame DEF PageCloses

\* A new setting: what is left to keep is what does not speak of inactivity.
LEMMA ChangeFrame ==
  ASSUME IInv, Idleness, Changed, NEW t \in Timeouts,
         UNCHANGED <<sessionVars, surfaceVars, cap, now>>,
         stored' = t, event' = t,
         \/ UNCHANGED <<op, cachedTimeout>>
         \/ op' = Start("policy", "revokeKey") /\ cachedTimeout' = t
  PROVE  Idleness'
<1>1. /\ now' = now /\ cap' = cap /\ Opens' = Opens /\ lastSeen' = lastSeen
      /\ surfaces' = surfaces /\ ports' = ports /\ keys' = keys /\ stamp' = stamp
  BY DEF Changed, sessionVars, surfaceVars, Opens
<1>2. changed'
  BY DEF Changed
<1>3. t \in Nat
  BY SessionAssumption
<1>4. \/ op' = op /\ cachedTimeout' = cachedTimeout
      \/ op'.kind = "policy" /\ op'.step = "revokeKey" /\ cachedTimeout' = t
  BY DEF Start
<1>5. Clock'
  BY <1>1, <1>4 DEF Idleness, Clock
<1>6. Policy' /\ Counted'
  BY <1>1, <1>3, <1>4 DEF Idleness, Policy, Counted, Unread, NoEvent
<1>7. Recent' /\ LiveOK' /\ ExpiredOK'
  BY <1>2 DEF Recent, LiveOK, ExpiredOK
<1> QED
  BY <1>5, <1>6, <1>7 DEF Idleness

LEMMA ISetTimeout ==
  ASSUME IInv, Idleness, NEW t \in Timeouts, SetTimeout(t) PROVE Idleness'
<1>1. CASE t = stored /\ UNCHANGED <<stored, event, op, ghosts>>
  BY <1>1, IdleFrame DEF IInv, SetTimeout, Opens
<1>2. CASE stored' = t /\ event' = t /\ op' = Start("policy", "revokeKey") /\ Changed
  BY <1>2, ChangeFrame DEF SetTimeout
<1> QED
  BY <1>1, <1>2 DEF SetTimeout

LEMMA ISyncTimeout ==
  ASSUME IInv, Idleness, NEW t \in Timeouts, SyncTimeout(t) PROVE Idleness'
BY ChangeFrame DEF SyncTimeout

LEMMA IDeliverEvent == ASSUME IInv, Idleness, DeliverEvent PROVE Idleness'
<1>1. /\ event # NoEvent /\ cachedTimeout' = event /\ event' = NoEvent /\ due' = TRUE
      /\ op' = op /\ now' = now /\ lastSeen' = lastSeen /\ ended' = ended
      /\ (changed' <=> changed) /\ cap' = cap
      /\ Opens' = Opens /\ surfaces' = surfaces /\ ports' = ports /\ stored' = stored
      /\ keys' = keys /\ stamp' = stamp /\ hardExpiry' = hardExpiry
  BY SameGhosts DEF DeliverEvent, sessionVars, surfaceVars, Opens
<1>2. (changed \/ (ended # "expired" /\ (ended = "no" => lastSeen = now))) /\ event = stored
  BY <1>1 DEF Idleness, ExpiredOK, Recent, Present, Policy
<1>3. Clock' /\ Recent' /\ LiveOK'
  BY <1>1, <1>2
     DEF Idleness, Clock, Recent, LiveOK, CapLive, KeysLive, RestoreLive, Bounded, Unbounded
<1>4. Policy' /\ Counted'
  BY <1>1, <1>2, NumbersOf DEF IInv, Idleness, Policy, Counted, Unread
<1> QED
  BY <1>1, <1>2, <1>3, <1>4 DEF Idleness, ExpiredOK

LEMMA IPolicyRevoke == ASSUME IInv, Idleness, PolicyRevoke PROVE Idleness'
<1>1. /\ due /\ due' = FALSE /\ op = NoOp /\ op'.kind = "policy" /\ op'.step = "revokeKey"
      /\ event' = event /\ cachedTimeout' = cachedTimeout
      /\ now' = now /\ lastSeen' = lastSeen /\ ended' = ended
      /\ (changed' <=> changed) /\ cap' = cap
      /\ Opens' = Opens /\ surfaces' = surfaces /\ ports' = ports /\ stored' = stored
      /\ keys' = keys /\ stamp' = stamp /\ hardExpiry' = hardExpiry
  BY SameGhosts DEF PolicyRevoke, Idle, Start, sessionVars, surfaceVars, Opens
<1>2. changed \/ (ended # "expired" /\ (ended = "no" => lastSeen = now))
  BY <1>1 DEF Idleness, ExpiredOK, Recent, Present
<1>3. Clock' /\ Recent' /\ Policy' /\ Counted'
  BY <1>1, <1>2 DEF Idleness, Clock, Recent, Policy, Counted
<1>4. LiveOK'
  BY <1>1, <1>2 DEF Idleness, Clock, LiveOK, CapLive, KeysLive, RestoreLive
<1> QED
  BY <1>1, <1>2, <1>3, <1>4 DEF Idleness, ExpiredOK

LEMMA ITick == ASSUME IInv, Idleness, Tick PROVE Idleness'
<1>1. /\ op = NoOp /\ op.kind = "none" /\ op.step = "none" /\ event = NoEvent /\ ~due
      /\ surfaces \subseteq open /\ now' = now + 1
      /\ op' = op /\ event' = event /\ due' = due /\ cachedTimeout' = cachedTimeout
      /\ cap' = cap /\ Opens' = Opens /\ surfaces' = surfaces /\ ports' = ports /\ open' = open
      /\ stored' = stored /\ keys' = keys /\ stamp' = stamp /\ hardExpiry' = hardExpiry
  BY NoOpFields
     DEF Tick, Quiet, Idle, sessionVars, surfaceVars, Opens, Idleness, Counted
<1>2. Policy' /\ Counted'
  BY <1>1 DEF Idleness, Policy, Counted
<1>3. CASE ended = "no" /\ open = {} /\ stored # 0 /\ now' - lastSeen >= stored
  <2>1. ended' = "expired" /\ lastSeen' = 0
    BY <1>3 DEF Tick
  <2>7. changed' <=> changed
    BY <1>3 DEF Tick
  <2>2. Clock'
    BY <1>1, <2>1, NumbersOf DEF IInv, Idleness, Clock
  <2>3. ~changed => CapLive /\ KeysLive
    BY <1>3 DEF Idleness, LiveOK
  <2>4. ~changed /\ keys => ~Valid(stored)'
    <3> SUFFICES ASSUME ~changed, keys PROVE ~Valid(stored)'
      OBVIOUS
    <3>1. stamp <= lastSeen \/ (hardExpiry # Forever /\ hardExpiry <= lastSeen + stored)
      BY <1>1, <1>3, <2>3 DEF KeysLive, Unbounded, Bounded
    <3> QED
      BY <1>1, <1>3, <3>1, NumbersOf DEF IInv, Valid
  <2>5. ~changed /\ Opens => cap.last + stored <= now'
    BY <1>1, <1>3, <2>3, NumbersOf DEF IInv, CapLive
  <2>6. ExpiredOK'
    BY <1>1, <1>3, <2>4, <2>5, <2>7 DEF ExpiredOK, NothingInstalls
  <2> QED
    BY <1>2, <2>1, <2>2, <2>6 DEF Idleness, Recent, LiveOK
<1>4. CASE ~(ended = "no" /\ open = {} /\ stored # 0 /\ now' - lastSeen >= stored)
  <2>1. /\ ended' = ended
        /\ lastSeen' = IF ended = "no" /\ open # {} THEN now' ELSE lastSeen
    BY <1>4 DEF Tick
  <2>6. ended # "no" \/ open = {} => (changed' <=> changed)
    BY <1>4 DEF Tick
  <2>2. Clock'
    BY <1>1, <2>1, NumbersOf DEF IInv, Idleness, Clock
  <2>3. Recent'
    BY <1>1, <2>1 DEF Recent, Present
  <2>4. LiveOK'
    <3> SUFFICES ASSUME ended = "no", ~changed' PROVE CapLive' /\ KeysLive' /\ RestoreLive'
      BY <2>1 DEF LiveOK
    <3>1. RestoreLive'
      BY <1>1 DEF RestoreLive
    <3>2. CASE open # {}
      <4>1. lastSeen' = now + 1
        BY <1>1, <2>1, <3>2
      <4>2. CapLive'
        BY <1>1, <4>1, NumbersOf DEF IInv, Idleness, Clock, CapLive
      <4>3. KeysLive'
        BY <1>1, <4>1, NumbersOf DEF IInv, Idleness, Clock, KeysLive
      <4> QED
        BY <3>1, <4>2, <4>3
    <3>3. CASE open = {}
      <4>2. ~changed
        BY <2>6, <3>3
      <4>1. CapLive /\ KeysLive
        BY <4>2 DEF Idleness, LiveOK
      <4> QED
        BY <1>1, <2>1, <3>1, <3>3, <4>1 DEF CapLive, KeysLive, Bounded, Unbounded
    <3> QED
      BY <3>1, <3>2, <3>3
  <2>5. ExpiredOK'
    <3> SUFFICES ASSUME ended = "expired", ~changed PROVE ExpiredOK'
      BY <2>1, <2>6 DEF ExpiredOK
    <3>1. keys => ~Valid(stored)'
      BY <1>1, NumbersOf DEF IInv, Idleness, ExpiredOK, Valid
    <3>2. Opens /\ cap.timeout = stored => cap.last + stored <= now'
      BY <1>1, NumbersOf DEF IInv, Idleness, ExpiredOK
    <3> QED
      BY <1>1, <3>1, <3>2 DEF Idleness, ExpiredOK, NothingInstalls
  <2> QED
    BY <1>2, <2>2, <2>3, <2>4, <2>5 DEF Idleness
<1> QED
  BY <1>3, <1>4

-----------------------------------------------------------------------------
LEMMA InitIdle == Init => Idleness
<1> SUFFICES ASSUME Init PROVE Idleness
  OBVIOUS
<1>1. ~Opens /\ op.kind = "none" /\ op.step = "none"
  BY CapTypes, NoOpFields DEF Init, Opens
<1>2. Clock
  BY <1>1 DEF Init, Clock
<1>3. Policy /\ Counted /\ Recent
  BY <1>1 DEF Init, Policy, Counted, Recent, Present
<1>4. LiveOK /\ ExpiredOK
  BY <1>1 DEF Init, LiveOK, CapLive, KeysLive, RestoreLive, ExpiredOK
<1> QED
  BY <1>2, <1>3, <1>4 DEF Idleness

LEMMA NextIdle ==
  ASSUME "lease" \notin Faults, IInv, Idleness, [Next]_vars PROVE Idleness'
<1>1. CASE Transition
  <2>1. CASE BeginUnlock \/ BeginPasskey \/ BeginLock \/ BeginRestore \/ PolicyRevoke \/ Rotate
    BY <2>1, IBeginUnlock, IBeginPasskey, IBeginLock, IBeginRestore, IPolicyRevoke, IRotate
  <2>2. CASE RevokeKey \/ RevokeCipher \/ SetCipher \/ SetKey
    BY <2>2, IRevokeKey, IRevokeCipher, ISetCipher, ISetKey
  <2>5. CASE CommitFails
    BY <2>5, ICommitFails
  <2>3. CASE Commit \/ Recheck \/ RestoreLease \/ RotateClear
    BY <2>3, ICommit, IRecheck, IRestoreLease, IRotateClear
  <2>4. CASE \E t \in Timeouts : SetTimeout(t)
    BY <2>4, ISetTimeout
  <2> QED
    BY <1>1, <2>1, <2>2, <2>3, <2>4, <2>5 DEF Transition
<1>2. CASE PageStep
  <2>1. ASSUME NEW s \in Surfaces, PageOpens(s) \/ PageCloses(s) PROVE Idleness'
    BY <2>1, IPageOpens, IPageCloses
  <2>2. ASSUME NEW s \in Surfaces, Register(s) \/ Heartbeat(s) \/ Disconnect(s) PROVE Idleness'
    BY <2>2, IRegister, IHeartbeat, IDisconnect
  <2>3. CASE StartCeremony
    BY <2>3, IStartCeremony
  <2> QED
    BY <1>2, <2>1, <2>2, <2>3 DEF PageStep
<1>3. CASE Environment
  <2>1. CASE ExpireOnRead \/ Suspend \/ Restart \/ BrowserClose \/ Tick \/ DeliverEvent
    BY <2>1, IExpireOnRead, ISuspend, IRestart, IBrowserClose, ITick, IDeliverEvent
  <2>2. CASE \E t \in Timeouts : SyncTimeout(t)
    BY <2>2, ISyncTimeout
  <2> QED
    BY <1>3, <2>1, <2>2 DEF Environment
<1>4. CASE UNCHANGED vars
  BY <1>4, IdleFrame DEF IInv, vars, sessionVars, surfaceVars, ghosts, Opens
<1> QED
  BY <1>1, <1>2, <1>3, <1>4 DEF Next

\* isCacheEntryValid, unifiedRestoration.ts, disconnectWalletUiSurface: once no page has been
\* open for the timeout, and the setting did not change since the last sign of life, the keys
\* stay unusable until the user authenticates, for any pages, timeouts, restarts and missed
\* disconnects, as long as the write of a lease does not fail (the run session_leak shows
\* that then they may not).
THEOREM InactivityAlwaysFinal ==
  ASSUME "lease" \notin Faults
  PROVE  Spec => []InactivityIsFinal
<1>1. IInv /\ Idleness => InactivityIsFinal
  BY ExpiredUnusable DEF InactivityIsFinal
<1>2. IInv /\ Idleness /\ [Next]_vars => Idleness'
  BY NextIdle
<1> QED
  BY <1>1, <1>2, InitIdle, Inductive, PTL DEF Spec

=============================================================================
