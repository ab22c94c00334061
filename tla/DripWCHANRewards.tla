-------------------------- MODULE DripWCHANRewards --------------------------
(***************************************************************************)
(* The drip of rewards into the vault                                      *)
(* (apps/contracts/src/DripWCHANRewards.sol): the owner funds a stream per *)
(* token with an end, anyone may call drip, which pays the vault in        *)
(* proportion to the time since the last drip and drains at the end.       *)
(***************************************************************************)
EXTENDS WCHANVault

CONSTANTS Intervals,   \* values of minDripInterval; the first is 1 hour, scaled down
          FirstInterval

ASSUME DripAssumption ==
  Intervals \subseteq Nat /\ FirstInterval \in Intervals

VARIABLES
  stream,        \* wchanStream and wethStream
  held,          \* balance of the contract in each token
  interval       \* minDripInterval

dripVars == <<stream, held, interval>>
vars == <<vaultVars, dripVars>>

Tokens == {"wchan", "weth"}
StreamType == [start : 0..MaxTime, end : 0..MaxTime + 1, last : 0..MaxTime, remaining : Nat]

TypeOK ==
  /\ VaultTypeOK
  /\ stream \in [Tokens -> StreamType]
  /\ \A t \in Tokens : stream[t].last <= now
  /\ held \in [Tokens -> Nat]
  /\ interval \in Intervals

Init ==
  /\ VaultInit
  /\ stream = [t \in Tokens |-> [start |-> 0, end |-> 0, last |-> 0, remaining |-> 0]]
  /\ held = [t \in Tokens |-> 0]
  /\ interval = FirstInterval

-----------------------------------------------------------------------------
\* _computeDripAmount
DripAmount(s, checkInterval) ==
  IF s.remaining = 0 THEN 0
  ELSE IF now >= s.end THEN s.remaining
  ELSE IF checkInterval /\ now - s.last < interval THEN 0
  ELSE (s.remaining * (now - s.last)) \div (s.end - s.last)

\* vault.donate and vault.donateReward; nothing is donated when there is nothing to pay
PayWchan(x) == IF x > 0 THEN Donate(x) ELSE UNCHANGED stakeVars
PayWeth(x, y) == IF x + y > 0 THEN DonateRewards(x, y) ELSE UNCHANGED rewardVars

\* WETH is skipped while nobody holds shares.
Skipped(t) == t = "weth" /\ supply = 0

\* A stream after a payment
Paid(s, amount) ==
  [start |-> s.start, end |-> s.end, last |-> now, remaining |-> s.remaining - amount]

\* _settleDrip: the stream after the settlement
Settled(t) ==
  LET amount == DripAmount(stream[t], FALSE) IN
  IF amount = 0 \/ Skipped(t) THEN stream[t]
  ELSE Paid(stream[t], amount)

\* configureDrip: the settled stream with the amount and the end added
ToppedUp(t, amount, end) ==
  LET s == Settled(t) IN
  [start |-> IF s.remaining = 0 THEN now ELSE s.start,
   last |-> IF s.remaining = 0 THEN now ELSE s.last,
   remaining |-> s.remaining + amount,
   end |-> IF end > s.end THEN end ELSE s.end]

\* The first interval of a fresh stream is paid at once.
FirstDrip(t, s) ==
  IF Settled(t).remaining /= 0 \/ Skipped(t) THEN 0
  ELSE IF s.end - now <= interval THEN s.remaining
  ELSE (s.remaining * interval) \div (s.end - now)

ConfigureDrip(t, amount, end) ==
  LET s == ToppedUp(t, amount, end)
      settlement == stream[t].remaining - Settled(t).remaining
      first == FirstDrip(t, s) IN
  /\ end > now
  /\ held' = [held EXCEPT ![t] = @ + amount - settlement - first]
  /\ stream' = [stream EXCEPT ![t] = [s EXCEPT !.remaining = @ - first]]
  /\ IF t = "wchan" THEN PayWchan(settlement + first) /\ UNCHANGED rewardVars
                    ELSE PayWeth(settlement, first) /\ UNCHANGED stakeVars
  /\ UNCHANGED interval

Drip ==
  LET wchan == DripAmount(stream["wchan"], TRUE)
      wethAmount == IF Skipped("weth") THEN 0 ELSE DripAmount(stream["weth"], TRUE)
      amount == [t \in Tokens |-> IF t = "wchan" THEN wchan ELSE wethAmount] IN
  /\ wchan > 0 \/ DripAmount(stream["weth"], TRUE) > 0
  /\ stream' = [t \in Tokens |->
       IF amount[t] = 0 THEN stream[t]
       ELSE Paid(stream[t], amount[t])]
  /\ held' = [t \in Tokens |-> held[t] - amount[t]]
  /\ PayWchan(wchan) /\ PayWeth(wethAmount, 0)
  /\ UNCHANGED interval

\* Mutant: the stream is not told.
RecoverUntold(t, amount) ==
  /\ amount <= held[t]
  /\ held' = [held EXCEPT ![t] = @ - amount]
  /\ UNCHANGED <<stakeVars, rewardVars, stream, interval>>

RecoverTokens(t, amount) ==
  /\ amount <= held[t]
  /\ held' = [held EXCEPT ![t] = @ - amount]
  /\ stream' = [stream EXCEPT ![t].remaining = IF @ < amount THEN 0 ELSE @ - amount]
  /\ UNCHANGED <<stakeVars, rewardVars, interval>>

SetMinDripInterval(n) == interval' = n /\ UNCHANGED <<stakeVars, rewardVars, stream, held>>

\* Anyone may send tokens to the contract.
SendTokens(t, amount) ==
  /\ held' = [held EXCEPT ![t] = @ + amount]
  /\ UNCHANGED <<stakeVars, rewardVars, stream, interval>>

\* Anyone may donate to the vault.
DonateToVault(x) ==
  /\ \/ Donate(x) /\ UNCHANGED rewardVars
     \/ DonateReward(x) /\ UNCHANGED stakeVars
  /\ UNCHANGED dripVars

VaultCall == UNCHANGED dripVars /\ \E a \in Stakers : StakerCall(a)
Time == Tick /\ UNCHANGED dripVars
OwnerCall ==
  \/ \E t \in Tokens, amount \in Amounts :
       RecoverTokens(t, amount) \/ \E end \in 1..MaxTime : ConfigureDrip(t, amount, end)
  \/ \E n \in Intervals : SetMinDripInterval(n)

AnyoneCall ==
  Drip \/ \E x \in Amounts : DonateToVault(x) \/ \E t \in Tokens : SendTokens(t, x)

Next ==
  \/ Time
  \/ Call /\ (VaultCall \/ OwnerCall \/ AnyoneCall)

Spec == Init /\ [][Next]_vars

-----------------------------------------------------------------------------
\* The contract holds what its streams still owe, after every settlement, first
\* drip, recovery and top-up.
DripSolvency == \A t \in Tokens : held[t] >= stream[t].remaining
=============================================================================
