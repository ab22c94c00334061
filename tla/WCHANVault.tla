----------------------------- MODULE WCHANVault -----------------------------
(***************************************************************************)
(* The staking vault (apps/contracts/src/WCHANVault.sol): ERC-4626 shares  *)
(* of WCHAN, a penalty for early withdrawal that decays over time, and     *)
(* WETH rewards accounted per share.  One action per external function: a  *)
(* call runs to its end before the next one.                               *)
(*                                                                         *)
(* Amounts are exact naturals; the width of a word is never reached.  The  *)
(* share arithmetic of OpenZeppelin's ERC4626 (offset 0) is external.      *)
(***************************************************************************)
EXTENDS Integers, FiniteSetsExt

CONSTANTS Stakers,          \* accounts
          BURN_ADDRESS,     \* holds the seed shares
          Seed,             \* seedAmount_ of the constructor
          SCALE,            \* 1e18, scaled down
          BPS,              \* 10 000, scaled down
          MAX_PENALTY_BPS,  \* 2 000, scaled down
          PENALTY_DURATION, \* seven days, in ticks
          Amounts,          \* amounts of a call
          MaxCalls,         \* bound: calls, of any function of the contracts
          MaxTime           \* bound of the clock

ASSUME VaultAssumption ==
  /\ BURN_ADDRESS \notin Stakers /\ IsFiniteSet(Stakers)
  /\ {Seed, MAX_PENALTY_BPS, MaxCalls, MaxTime} \subseteq Nat
  /\ SCALE \in Nat \ {0} /\ BPS \in Nat \ {0} /\ PENALTY_DURATION \in Nat \ {0}
  /\ MAX_PENALTY_BPS < BPS
  /\ Amounts \subseteq Nat \ {0}

VARIABLES
  assets,        \* WCHAN.balanceOf(vault), which is totalAssets()
  supply,        \* totalSupply()
  shares,        \* balanceOf
  depositTime,   \* lastDepositTimestamp; 0 when there was no deposit
  perShare,      \* rewardPerShareStored
  paid,          \* userRewardPerSharePaid
  unclaimed,     \* unclaimedRewards
  weth,          \* rewardToken.balanceOf(vault)
  now,           \* block.timestamp
  calls          \* bound

stakeVars == <<assets, supply, shares, depositTime>>
rewardVars == <<perShare, paid, unclaimed, weth>>
vaultVars == <<stakeVars, rewardVars, now, calls>>

Accounts == Stakers \union {BURN_ADDRESS}

VaultTypeOK ==
  /\ assets \in Nat /\ supply \in Nat
  /\ shares \in [Accounts -> Nat]
  /\ depositTime \in [Accounts -> 0..now]
  /\ perShare \in Nat
  /\ paid \in [Accounts -> 0..perShare] /\ unclaimed \in [Accounts -> Nat]
  /\ weth \in Nat
  /\ now \in 1..MaxTime /\ calls \in 0..MaxCalls

\* The constructor mints the seed to the burn address.
VaultInit ==
  /\ assets = Seed /\ supply = Seed
  /\ shares = [a \in Accounts |-> IF a = BURN_ADDRESS THEN Seed ELSE 0]
  /\ depositTime = [a \in Accounts |-> IF a = BURN_ADDRESS /\ Seed > 0 THEN 1 ELSE 0]
  /\ perShare = 0
  /\ paid = [a \in Accounts |-> 0] /\ unclaimed = [a \in Accounts |-> 0]
  /\ weth = 0
  /\ now = 1 /\ calls = 0

-----------------------------------------------------------------------------
CeilDiv(n, d) == (n + d - 1) \div d

\* _convertToAssets and _convertToShares with their rounding
AssetsFloor(n) == (n * (assets + 1)) \div (supply + 1)
AssetsCeil(n) == CeilDiv(n * (assets + 1), supply + 1)
SharesFloor(n) == (n * (supply + 1)) \div (assets + 1)
SharesCeil(n) == CeilDiv(n * (supply + 1), assets + 1)

PenaltyBps(a) ==
  LET elapsed == now - depositTime[a] IN
  IF depositTime[a] = 0 \/ elapsed >= PENALTY_DURATION THEN 0
  ELSE (MAX_PENALTY_BPS * (PENALTY_DURATION - elapsed)) \div PENALTY_DURATION

\* _applyPenalty and _grossFromNet
Penalty(gross, a) == (gross * PenaltyBps(a)) \div BPS
GrossFromNet(net, a) == CeilDiv(net * BPS, BPS - PenaltyBps(a))

MaxWithdraw(a) ==
  LET gross == AssetsFloor(shares[a]) IN gross - Penalty(gross, a)

Earned(a) == (shares[a] * (perShare - paid[a])) \div SCALE + unclaimed[a]

\* Mutant: an account without shares yet is not snapshotted.
SnapshotHolders(changed) ==
  LET holders == {a \in changed : shares[a] > 0} IN
  /\ unclaimed' = [a \in Accounts |-> IF a \in holders THEN Earned(a) ELSE unclaimed[a]]
  /\ paid' = [a \in Accounts |-> IF a \in holders THEN perShare ELSE paid[a]]
  /\ UNCHANGED <<perShare, weth>>

\* _snapshotReward for both sides of a balance change, before the change
Snapshot(changed) ==
  /\ unclaimed' = [a \in Accounts |-> IF a \in changed THEN Earned(a) ELSE unclaimed[a]]
  /\ paid' = [a \in Accounts |-> IF a \in changed THEN perShare ELSE paid[a]]
  /\ UNCHANGED <<perShare, weth>>

\* _update: the timer of an account that receives n shares
Blended(a, n) ==
  IF shares[a] > 0 /\ depositTime[a] > 0
    THEN (depositTime[a] * shares[a] + now * n) \div (shares[a] + n)
    ELSE now

MintTo(a, n) ==
  /\ Snapshot({a})
  /\ shares' = [shares EXCEPT ![a] = @ + n]
  /\ supply' = supply + n
  /\ depositTime' = IF n > 0 THEN [depositTime EXCEPT ![a] = Blended(a, n)] ELSE depositTime

-----------------------------------------------------------------------------
\* deposit and mint of ERC4626
Deposit(a, x) ==
  /\ assets' = assets + x
  /\ MintTo(a, SharesFloor(x))

MintShares(a, n) ==
  /\ assets' = assets + AssetsCeil(n)
  /\ MintTo(a, n)

\* _executeWithdraw: half of the penalty leaves the vault, the rest stays
ExecuteWithdraw(a, net, penalty, n) ==
  /\ Snapshot({a})
  /\ shares' = [shares EXCEPT ![a] = @ - n]
  /\ supply' = supply - n
  /\ assets' = assets - net - penalty \div 2
  /\ UNCHANGED depositTime

Redeem(a, n) ==
  /\ n <= shares[a]
  /\ LET gross == AssetsFloor(n) IN
       ExecuteWithdraw(a, gross - Penalty(gross, a), Penalty(gross, a), n)

\* Mutant: no cap at the owner's balance.
UncappedTerms(a, x) ==
  LET gross == GrossFromNet(x, a) IN [n |-> SharesCeil(gross), penalty |-> gross - x]

\* Mutant: the shares of a withdrawal are rounded down.
FlooredTerms(a, x) ==
  LET gross == GrossFromNet(x, a) IN [n |-> SharesFloor(gross), penalty |-> gross - x]

\* withdraw: the shares it burns and the penalty it takes; capped at the balance
WithdrawTerms(a, x) ==
  LET gross == GrossFromNet(x, a) IN
  IF SharesCeil(gross) > shares[a]
    THEN [n |-> shares[a], penalty |-> AssetsFloor(shares[a]) - x]
    ELSE [n |-> SharesCeil(gross), penalty |-> gross - x]

Withdraw(a, x) ==
  /\ x <= MaxWithdraw(a)
  /\ ExecuteWithdraw(a, x, WithdrawTerms(a, x).penalty, WithdrawTerms(a, x).n)

Transfer(a, b, n) ==
  /\ n <= shares[a]
  /\ Snapshot({a, b})
  /\ shares' = [shares EXCEPT ![a] = @ - n, ![b] = @ + n]
  /\ depositTime' = [depositTime EXCEPT ![b] = Blended(b, n)]
  /\ UNCHANGED <<assets, supply>>

\* donate and donateReward revert without stakers
Donate(x) ==
  /\ supply > 0
  /\ assets' = assets + x
  /\ UNCHANGED <<supply, shares, depositTime>>

Gain(x) == (x * SCALE) \div supply

DonateReward(x) ==
  /\ supply > 0
  /\ weth' = weth + x
  /\ perShare' = perShare + Gain(x)
  /\ UNCHANGED <<paid, unclaimed>>

\* Two donations in one transaction, each rounded on its own.
DonateRewards(x, y) ==
  /\ supply > 0
  /\ weth' = weth + x + y
  /\ perShare' = perShare + Gain(x) + Gain(y)
  /\ UNCHANGED <<paid, unclaimed>>

ClaimRewards(a) ==
  /\ Earned(a) > 0
  /\ weth' = weth - Earned(a)
  /\ unclaimed' = [unclaimed EXCEPT ![a] = 0]
  /\ paid' = [paid EXCEPT ![a] = perShare]
  /\ UNCHANGED <<stakeVars, perShare>>

Tick == now < MaxTime /\ now' = now + 1 /\ UNCHANGED <<stakeVars, rewardVars, calls>>

\* One more call, in the same block or a later one.
Call == calls < MaxCalls /\ calls' = calls + 1 /\ UNCHANGED now

StakerCall(a) ==
  \/ ClaimRewards(a)
  \/ \E x \in Amounts : Deposit(a, x) \/ MintShares(a, x) \/ Redeem(a, x) \/ Withdraw(a, x)
  \/ \E b \in Accounts, n \in Amounts : Transfer(a, b, n)

-----------------------------------------------------------------------------
\* The vault holds all the WETH its accounts have earned, whatever was rounded
\* and whoever the shares moved to (rewardPerShareStored, _snapshotReward).
RewardSolvency == weth >= MapThenSumSet(Earned, Accounts)

\* Whoever withdraws maxWithdraw burns no more shares than owned, is charged no
\* negative penalty and no more than the withdrawn shares are worth
\* (WCHANVault.sol:260-269).
MaxWithdrawWorks ==
  \A a \in Stakers : LET x == MaxWithdraw(a)
                         terms == WithdrawTerms(a, x) IN
    /\ terms.n <= shares[a]
    /\ terms.penalty >= 0
    /\ x + terms.penalty <= AssetsFloor(shares[a])

\* No call makes a share worth less, to the virtual share and asset of ERC4626:
\* not a deposit, an early withdrawal, or the rounding of either.
SharePriceNeverFalls == [][(assets' + 1) * (supply + 1) >= (assets + 1) * (supply' + 1)]_vaultVars
=============================================================================
