------------------------ MODULE CrossDappBatchProofs ------------------------
(***************************************************************************)
(* For any requests, sites and surfaces: what the batch does with a        *)
(* request is done once, under the authorization of its site, and told     *)
(* truly.                                                                  *)
(***************************************************************************)
EXTENDS CrossDappBatch, FiniteSetTheorems, WellFoundedInduction, TLAPS

ShipSteps == {"results", "history", "publish"}
SurfaceSteps == {"idle", "addSet", "addRemove", "dismiss", "prepare", "sign", "validate", "drop",
                 "dropAnswer"} \union ShipSteps
RevokerSteps == {"idle", "delete", "claim", "drop", "dropAnswer", "finish"}
Shipped == {"pending", "success", "reverted"}

\* The actor works on the batch.
Busy(a) == IF a = Revoker THEN op[a].pc \in {"drop", "dropAnswer"} ELSE op[a].pc # "idle"
Moves(a, r) == a # Revoker /\ op[a].pc \in {"addSet", "addRemove"} /\ r \in op[a].going

\* The claim tables say who works on the batch and who moves a prompt into it.
Owned ==
  \A a \in Actors :
    /\ claims[Active] = a <=> Busy(a)
    /\ \A r \in Requests : claims[r] = a <=> Moves(a, r)

\* What the call of an actor knows about the batch and the rows.
RowOfOutcome == [pending |-> "pending", success |-> "success", reverted |-> "failed"]
Shape(a) ==
  LET o == op[a] IN
  /\ o.pc \in IF a = Revoker THEN RevokerSteps ELSE SurfaceSteps
  /\ o.pc \in {"addSet", "dismiss", "prepare", "sign", "validate", "drop"} => o.read = batch
  /\ o.pc \in {"addSet", "addRemove"} => \E r \in Requests : o.going = {r}
  /\ o.pc = "addSet" => o.going \subseteq prompts
  /\ o.pc = "addRemove" => o.going \subseteq ToSet(batch)
  /\ o.pc \in {"dismiss", "drop"} => o.going \subseteq ToSet(batch)
  /\ o.pc = "dropAnswer" =>
       o.going \intersect ToSet(batch) = {} /\ ToSet(o.read) = ToSet(batch) \union o.going
  /\ o.pc \in {"dismiss", "dropAnswer"} => o.todo \subseteq o.going
  /\ o.outcome # "none" <=> o.pc \in ShipSteps
  /\ o.outcome = "failed" => o.pc = "publish" /\ ToSet(batch) \subseteq ToSet(o.read)
  /\ o.outcome # "none" => o.todo \subseteq ToSet(o.read)
  /\ o.pc = "results" => o.outcome # "reverted"
  /\ o.pc = "history" => o.outcome = "reverted"
  /\ o.pc \notin {"dismiss", "dropAnswer"} \union ShipSteps => o.todo = {}
  /\ o.outcome \in Shipped =>
       /\ o.read = batch /\ rows # <<>> /\ Len(rows) \notin tracked
       /\ rows[Len(rows)].calls = ToSet(o.read)
       /\ rows[Len(rows)].status =
            IF o.pc = "publish" THEN RowOfOutcome[o.outcome] ELSE "processing"

\* The life of a request that no restart tore; o is the call at work on the batch.
Once(r, entries) ==
  \A i, j \in 1..Len(entries) : entries[i] = r /\ entries[j] = r => i = j
Unsent(r) == sent[r] = 0 /\ \A i \in 1..Len(rows) : r \notin rows[i].calls

AtPrompt(o, r) ==
  r \in prompts =>
    /\ answer[r] = "none" /\ Unsent(r)
    /\ r \in ToSet(batch) => o.pc = "addRemove" /\ r \in o.going

InBatch(o, r) ==
  r \in ToSet(batch) =>
    /\ Once(r, batch)
    /\ o.outcome \notin Shipped => Unsent(r)
    /\ answer[r] # "none" => o.outcome # "none" \/ (o.pc = "dismiss" /\ r \in o.going)

ToldOf(o, r) ==
  IF r \notin Bundles /\ o.outcome # "reverted" THEN "sent" ELSE Told(o.outcome)
Dropped(o, r) ==
  o.pc \in {"dismiss", "dropAnswer"} /\ r \in o.going =>
    /\ r \notin prompts /\ Unsent(r)
    /\ answer[r] = IF r \in o.todo THEN "none" ELSE "failed"
Failing(o, r) ==
  o.outcome = "failed" /\ r \in ToSet(o.read) =>
    /\ r \notin prompts /\ Unsent(r)
    /\ answer[r] = IF r \in o.todo /\ r \in ToSet(batch) THEN "none" ELSE "failed"
Shipping(o, r) ==
  o.outcome \in Shipped /\ r \in ToSet(o.read) =>
    /\ r \notin prompts /\ sent[r] = 1
    /\ \A i \in 1..Len(rows) - 1 : r \notin rows[i].calls
    /\ answer[r] = IF r \in o.todo THEN "none" ELSE ToldOf(o, r)
    /\ r \notin o.todo => r \notin Bundles \/ o.pc = "publish"
    /\ o.pc = "publish" /\ o.outcome # "reverted" /\ r \in o.todo => r \in Bundles

Settled(o, r) ==
  /\ sent[r] <= 1
  /\ answer[r] = "failed" => Unsent(r)
  /\ \A i, j \in 1..Len(rows) : r \in rows[i].calls /\ r \in rows[j].calls => i = j
  /\ \A i \in tracked : r \in rows[i].calls \intersect Bundles => answer[r] = "submitted"
  /\ answer[r] = "confirmed" =>
       \E i \in 1..Len(rows) : r \in rows[i].calls /\ rows[i].status = "success"
  /\ answer[r] = "reverted" =>
       \E i \in 1..Len(rows) : r \in rows[i].calls /\ rows[i].status = "failed"
  /\ answer[r] = "none" => r \in prompts \union ToSet(batch) \union o.todo

Life(o, r) ==
  /\ AtPrompt(o, r) /\ InBatch(o, r) /\ Settled(o, r)
  /\ Dropped(o, r) /\ Failing(o, r) /\ Shipping(o, r)

\* At most one actor is at work on the batch, and its call says how far it got.
Alone(a) == \A b \in Actors \ {a} : ~Busy(b)
Lives == \A a \in Actors : Alone(a) => \A r \in Requests \ torn : Life(op[a], r)

\* What a validated snapshot proves.
Gate ==
  /\ op[Revoker].pc # "idle" => op[Revoker].bad \subseteq revoking
  /\ \A a \in Actors, site \in Sites : At(a, "validate") =>
       /\ op[a].snap[site] <= epoch[site]
       /\ site \in revoking \ op[a].gated => op[a].snap[site] < epoch[site]
       /\ /\ site \in {SiteOf[r] : r \in ToSet(op[a].read)}
          /\ site \notin op[a].check \union op[a].bad \union op[a].gated
          /\ op[a].snap[site] = epoch[site]
          => site \in permission

IInv == TypeOK /\ Owned /\ Gate /\ Lives /\ \A a \in Actors : Shape(a)

-----------------------------------------------------------------------------
(* Induction over the natural numbers, from the least-number principle, and  *)
(* what the filter of a batch leaves.                                        *)

Below == {p \in Nat \X Nat : p[1] < p[2]}

LEMMA BelowIsWellFounded == IsWellFoundedOn(Below, Nat)
<1>1. Below = OpToRel(<, Nat)
  BY DEF Below, OpToRel
<1> QED
  BY <1>1, NatLessThanWellFounded

LEMMA NatSetInduction ==
  ASSUME NEW S \in SUBSET Nat, 0 \in S, \A n \in S : n + 1 \in S
  PROVE  S = Nat
<1> SUFFICES ASSUME Nat \ S # {} PROVE FALSE
  OBVIOUS
<1>1. PICK n \in Nat \ S : \A m \in Nat \ S : ~ (<<m, n>> \in Below)
  BY BelowIsWellFounded, WFMin
<1>2. n # 0 /\ n - 1 \in Nat /\ n = (n - 1) + 1
  OBVIOUS
<1>3. <<n - 1, n>> \in Nat \X Nat /\ <<n - 1, n>>[1] = n - 1 /\ <<n - 1, n>>[2] = n
  BY <1>2
<1>4. n - 1 \in S
  BY <1>1, <1>2, <1>3 DEF Below
<1> QED
  BY <1>2, <1>4

LEMMA WithoutStep ==
  ASSUME NEW entries \in Seq(Requests), NEW gone
  PROVE  \E f :
           /\ f[0] = <<>>
           /\ \A i \in 1..Len(entries) :
                f[i] = IF entries[i] \in gone THEN f[i - 1] ELSE Append(f[i - 1], entries[i])
           /\ Without(entries, gone) = f[Len(entries)]
<1> DEFINE Rest(f, i) ==
      IF i = 0 THEN <<>>
      ELSE IF entries[i] \in gone THEN f[i - 1] ELSE Append(f[i - 1], entries[i])
<1> DEFINE Solved(n) == n <= Len(entries) =>
      \E f \in [0..n -> Seq(Requests)] : \A i \in 0..n : f[i] = Rest(f, i)
<1> DEFINE Defined == {n \in Nat : Solved(n)}
<1>1. Solved(0)
  <2> DEFINE f == [i \in 0..0 |-> <<>>]
  <2>1. f \in [0..0 -> Seq(Requests)] /\ \A i \in 0..0 : f[i] = Rest(f, i)
    OBVIOUS
  <2> QED
    BY <2>1
<1>2. ASSUME NEW n \in Nat, Solved(n) PROVE Solved(n + 1)
  <2> SUFFICES ASSUME n + 1 <= Len(entries)
               PROVE  \E f \in [0..n + 1 -> Seq(Requests)] : \A i \in 0..n + 1 : f[i] = Rest(f, i)
    OBVIOUS
  <2>0. Len(entries) \in Nat /\ n <= Len(entries)
    OBVIOUS
  <2>1. PICK f \in [0..n -> Seq(Requests)] : \A i \in 0..n : f[i] = Rest(f, i)
    <3> HIDE DEF Rest
    <3> QED
      BY <1>2, <2>0
  <2> DEFINE g == [i \in 0..n + 1 |-> IF i = n + 1 THEN Rest(f, i) ELSE f[i]]
  <2>2. entries[n + 1] \in Requests /\ f[n] \in Seq(Requests)
    OBVIOUS
  <2>3. Rest(f, n + 1) \in Seq(Requests)
    BY <2>2
  <2>4. g \in [0..n + 1 -> Seq(Requests)]
    BY <2>3
  <2>5. ASSUME NEW i \in 0..n + 1 PROVE g[i] = Rest(g, i)
    <3>1. CASE i = n + 1
      <4>1. g[i] = Rest(f, i) /\ i - 1 \in 0..n + 1 /\ i - 1 # n + 1
        BY <3>1
      <4>2. g[i - 1] = f[i - 1]
        BY <4>1
      <4> QED
        BY <4>1, <4>2
    <3>2. CASE i # n + 1
      <4>1. g[i] = f[i] /\ i \in 0..n
        BY <3>2
      <4>2. CASE i = 0
        BY <4>1, <4>2, <2>1
      <4>3. CASE i # 0
        <5>1. i - 1 \in 0..n + 1 /\ i - 1 # n + 1
          BY <4>1, <4>3
        <5>2. g[i - 1] = f[i - 1]
          BY <5>1
        <5> QED
          BY <4>1, <4>3, <5>2, <2>1
      <4> QED
        BY <4>2, <4>3
    <3> QED
      BY <3>1, <3>2
  <2> HIDE DEF g, Rest
  <2> QED
    BY <2>4, <2>5
<1>3. Defined = Nat
  <2> HIDE DEF Solved
  <2>1. Defined \in SUBSET Nat /\ 0 \in Defined /\ \A n \in Defined : n + 1 \in Defined
    BY <1>1, <1>2
  <2> QED
    BY <2>1, NatSetInduction
<1>4. PICK f \in [0..Len(entries) -> Seq(Requests)] : \A i \in 0..Len(entries) : f[i] = Rest(f, i)
  <2>1. Len(entries) \in Nat
    OBVIOUS
  <2>2. Solved(Len(entries))
    BY <1>3, <2>1
  <2> QED
    BY <2>1, <2>2
<1> DEFINE Whole(g) == [i \in 0..Len(entries) |->
      IF i = 0 THEN <<>>
      ELSE IF entries[i] \in gone THEN g[i - 1] ELSE Append(g[i - 1], entries[i])]
<1> DEFINE rest == CHOOSE g : g = Whole(g)
<1>5. Without(entries, gone) = rest[Len(entries)]
  BY DEF Without
<1>6. f = Whole(f)
  BY <1>4
<1>7. rest = Whole(rest)
  <2> HIDE DEF Whole
  <2> QED
    BY <1>6
<1>8. \A i \in 0..Len(entries) :
        rest[i] = IF i = 0 THEN <<>>
                  ELSE IF entries[i] \in gone THEN rest[i - 1] ELSE Append(rest[i - 1], entries[i])
  <2> HIDE DEF rest
  <2> QED
    BY <1>7
<1> HIDE DEF rest
<1>9. /\ rest[0] = <<>>
      /\ \A i \in 1..Len(entries) :
           rest[i] = IF entries[i] \in gone THEN rest[i - 1] ELSE Append(rest[i - 1], entries[i])
  BY <1>8
<1> QED
  BY <1>5, <1>9

LEMMA WithoutProperties ==
  ASSUME NEW entries \in Seq(Requests), NEW gone
  PROVE  /\ Without(entries, gone) \in Seq(Requests)
         /\ Len(Without(entries, gone)) <= Len(entries)
         /\ ToSet(Without(entries, gone)) = ToSet(entries) \ gone
         /\ \A r : Once(r, entries) => Once(r, Without(entries, gone))
<1>1. PICK f :
        /\ f[0] = <<>>
        /\ \A i \in 1..Len(entries) :
             f[i] = IF entries[i] \in gone THEN f[i - 1] ELSE Append(f[i - 1], entries[i])
        /\ Without(entries, gone) = f[Len(entries)]
  BY WithoutStep
<1> DEFINE Seen(n) == {entries[j] : j \in 1..n}
<1> DEFINE Filtered(n) == n <= Len(entries) =>
      /\ f[n] \in Seq(Requests) /\ Len(f[n]) <= n
      /\ ToSet(f[n]) = Seen(n) \ gone
      /\ \A r : Once(r, entries) => Once(r, f[n])
<1>2. Filtered(0)
  BY <1>1 DEF ToSet, Once
<1>3. ASSUME NEW n \in Nat, Filtered(n) PROVE Filtered(n + 1)
  <2> SUFFICES ASSUME n + 1 <= Len(entries) PROVE Filtered(n + 1)
    OBVIOUS
  <2>1. /\ Len(entries) \in Nat /\ n <= Len(entries) /\ n + 1 \in 1..Len(entries)
        /\ entries[n + 1] \in Requests /\ (n + 1) - 1 = n
    OBVIOUS
  <2>2. /\ f[n] \in Seq(Requests) /\ Len(f[n]) <= n
        /\ ToSet(f[n]) = Seen(n) \ gone
        /\ \A r : Once(r, entries) => Once(r, f[n])
    BY <1>3, <2>1
  <2>3. f[n + 1] = IF entries[n + 1] \in gone THEN f[n] ELSE Append(f[n], entries[n + 1])
    BY <1>1, <2>1
  <2>4. Seen(n + 1) = Seen(n) \union {entries[n + 1]}
    <3>1. 1..n + 1 = (1..n) \union {n + 1}
      OBVIOUS
    <3> QED
      BY <3>1
  <2> HIDE DEF Seen
  <2>5. CASE entries[n + 1] \in gone
    BY <2>1, <2>2, <2>3, <2>4, <2>5
  <2>6. CASE entries[n + 1] \notin gone
    <3> DEFINE q == Append(f[n], entries[n + 1])
    <3>1. /\ q \in Seq(Requests) /\ Len(q) = Len(f[n]) + 1 /\ q[Len(q)] = entries[n + 1]
          /\ \A i \in 1..Len(f[n]) : q[i] = f[n][i]
      BY <2>1, <2>2
    <3> HIDE DEF q
    <3>2. ToSet(q) = ToSet(f[n]) \union {entries[n + 1]}
      <4>1. DOMAIN q = 1..Len(f[n]) + 1 /\ DOMAIN f[n] = 1..Len(f[n])
        BY <2>2, <3>1
      <4>2. 1..Len(f[n]) + 1 = (1..Len(f[n])) \union {Len(f[n]) + 1} /\ Len(f[n]) \in Nat
        BY <2>2
      <4> QED
        BY <4>1, <4>2, <3>1 DEF ToSet
    <3>3. ASSUME NEW r, Once(r, entries) PROVE Once(r, q)
      <4>1. Once(r, f[n])
        BY <2>2, <3>3
      <4>2. r = entries[n + 1] => r \notin Seen(n)
        BY <3>3, <2>1 DEF Once, Seen
      <4>3. r = entries[n + 1] => r \notin ToSet(f[n])
        BY <4>2, <2>2
      <4>4. \A i \in 1..Len(f[n]) : f[n][i] \in ToSet(f[n])
        BY <2>2 DEF ToSet
      <4>5. Len(f[n]) \in Nat
        BY <2>2
      <4> SUFFICES ASSUME NEW i \in 1..Len(q), NEW j \in 1..Len(q), q[i] = r, q[j] = r
                   PROVE  i = j
        BY DEF Once
      <4>6. i \in 1..Len(f[n]) \/ i = Len(q)
        BY <3>1, <4>5
      <4>7. j \in 1..Len(f[n]) \/ j = Len(q)
        BY <3>1, <4>5
      <4> QED
        BY <4>1, <4>3, <4>4, <4>6, <4>7, <3>1 DEF Once
    <3>4. f[n + 1] = q
      BY <2>3, <2>6 DEF q
    <3> QED
      BY <2>1, <2>2, <2>4, <2>6, <3>1, <3>2, <3>3, <3>4
  <2> QED
    BY <2>5, <2>6
<1> DEFINE Done == {n \in Nat : Filtered(n)}
<1> HIDE DEF Filtered
<1>4. Done \in SUBSET Nat /\ 0 \in Done /\ \A n \in Done : n + 1 \in Done
  BY <1>2, <1>3
<1>5. Len(entries) \in Nat /\ Done = Nat
  <2>1. Done = Nat
    <3> HIDE DEF Done
    <3> QED
      BY <1>4, NatSetInduction
  <2> QED
    BY <2>1
<1>6. Filtered(Len(entries))
  BY <1>5
<1>7. Seen(Len(entries)) = ToSet(entries)
  BY DEF ToSet
<1> QED
  BY <1>1, <1>5, <1>6, <1>7 DEF Filtered

-----------------------------------------------------------------------------
(* Who works on the batch                                                    *)

USE BatchAssumption, NoneIsNoToken

LEMMA Names ==
  /\ Active \in Keys /\ Active \notin Requests /\ Requests \subseteq Keys
  /\ Actors = Tokens /\ None \notin Actors /\ Surfaces \subseteq Actors
  /\ Revoker \in Actors /\ Revoker \notin Surfaces
  /\ \A a \in Actors : a # Revoker => a \in Surfaces
  /\ MaxCalls \in Nat /\ MaxSends \in Nat /\ MaxRevocations \in Nat /\ MaxRestarts \in Nat
  /\ \A r \in Requests : SiteOf[r] \in Sites
BY DEF Actors

LEMMA IdleFields ==
  /\ IdleOp \in OpType
  /\ IdleOp.pc = "idle" /\ IdleOp.read = <<>> /\ IdleOp.going = {} /\ IdleOp.todo = {}
  /\ IdleOp.final = FALSE /\ IdleOp.gated = {} /\ IdleOp.check = {} /\ IdleOp.bad = {}
  /\ IdleOp.outcome = "none" /\ IdleOp.snap = [s \in Sites |-> 0]
<1>1. [s \in Sites |-> 0] \in [Sites -> 0..MaxRevocations]
  BY Names
<1> QED
  BY <1>1 DEF IdleOp, OpType

LEMMA OneBusy ==
  ASSUME Owned, NEW a \in Actors, NEW b \in Actors, Busy(a), Busy(b)
  PROVE  a = b
BY DEF Owned

LEMMA BusyIsAlone ==
  ASSUME Owned, NEW a \in Actors, Busy(a)
  PROVE  Alone(a)
BY OneBusy DEF Alone

\* A free batch: nobody is busy.
LEMMA FreeIsAlone ==
  ASSUME Owned, claims[Active] = None
  PROVE  \A a \in Actors : ~Busy(a) /\ Alone(a)
BY Names DEF Owned, Alone

LEMMA SomeoneAlone ==
  ASSUME Owned
  PROVE  \E a \in Actors : Alone(a)
BY Names, BusyIsAlone DEF Alone

\* A call that has nothing half done.
Calm(o) ==
  o.pc \notin {"addRemove", "dismiss", "dropAnswer"} /\ o.outcome = "none" /\ o.todo = {}

LEMMA QuietIsCalm ==
  ASSUME NEW a \in Actors, Shape(a), ~Busy(a)
  PROVE  Calm(op[a]) /\ (a # Revoker => op[a].pc = "idle")
BY DEF Shape, Busy, Calm, RevokerSteps, SurfaceSteps, ShipSteps

LEMMA CalmLife ==
  ASSUME NEW o, NEW p, NEW r, Calm(o), Calm(p), Life(o, r)
  PROVE  Life(p, r)
BY DEF Calm, Life, AtPrompt, InBatch, Settled, Dropped, Failing, Shipping, Shipped

\* The call of an actor that is not busy says nothing of the batch.
LEMMA QuietStays ==
  ASSUME NEW a \in Actors, Shape(a), ~Busy(a), op'[a] = op[a]
  PROVE  Shape(a)' /\ ~Busy(a)'
BY DEF Shape, Busy, RevokerSteps, SurfaceSteps, ShipSteps, Shipped

\* A step of the actor at work: the others stay out of it.
LEMMA Frame ==
  ASSUME NEW a \in Actors, Alone(a)', TypeOK', Owned', Gate', \A b \in Actors : Shape(b)',
         \A r \in Requests \ torn' : Life(op[a], r)'
  PROVE  IInv'
<1> SUFFICES ASSUME NEW b \in Actors, Alone(b)', NEW r \in Requests \ torn'
             PROVE  Life(op[b], r)'
  BY DEF IInv, Lives
<1>1. CASE b = a
  BY <1>1
<1>2. CASE b # a
  <2>1. ~Busy(a)' /\ ~Busy(b)'
    BY <1>2 DEF Alone
  <2>2. Calm(op[a])' /\ Calm(op[b])'
    BY <2>1, QuietIsCalm DEF Shape, Busy, Calm, RevokerSteps, SurfaceSteps, ShipSteps
  <2>3. Life(op[a], r)'
    OBVIOUS
  <2> QED
    BY <2>2, <2>3 DEF Calm, Life, AtPrompt, InBatch, Settled, Dropped, Failing, Shipping, Shipped
<1> QED
  BY <1>1, <1>2

LEMMA AloneStep ==
  ASSUME IInv, NEW a \in Actors, Alone(a), \A b \in Actors \ {a} : op'[b] = op[b],
         TypeOK', Owned', Gate', Shape(a)', torn' = torn,
         \A r \in Requests \ torn : Life(op[a], r) => Life(op[a], r)'
  PROVE  IInv'
<1>1. ASSUME NEW b \in Actors \ {a} PROVE Shape(b)' /\ ~Busy(b)'
  BY QuietStays DEF IInv, Alone
<1>2. Alone(a)' /\ \A b \in Actors : Shape(b)'
  BY <1>1 DEF Alone
<1>3. \A r \in Requests \ torn' : Life(op[a], r)'
  BY DEF IInv, Lives
<1> QED
  BY <1>2, <1>3, Frame

LEMMA OwnedStays ==
  ASSUME Owned, UNCHANGED claimVars,
         \A a \in Actors : Busy(a)' <=> Busy(a),
         \A a \in Actors, r \in Requests : Moves(a, r)' <=> Moves(a, r)
  PROVE  Owned'
BY DEF Owned, claimVars

LEMMA OwnedReturn ==
  ASSUME TypeOK, Owned, NEW a \in Actors, Return(a)
  PROVE  Owned' /\ ClaimsTypeOK'
<1>1. /\ op'[a] = IdleOp /\ \A b \in Actors \ {a} : op'[b] = op[b]
      /\ \A k \in Keys : claims'[k] = IF claims[k] = a THEN None ELSE claims[k]
  BY DEF Return, Update, ReleaseClaims, TypeOK
<1>2. ASSUME NEW b \in Actors
      PROVE  /\ claims'[Active] = b <=> Busy(b)'
             /\ \A r \in Requests : claims'[r] = b <=> Moves(b, r)'
  <2>1. CASE b = a
    BY <1>1, <2>1, Names, IdleFields DEF Busy, Moves
  <2>2. CASE b # a
    <3>1. (Busy(b)' <=> Busy(b)) /\ \A r \in Requests : Moves(b, r)' <=> Moves(b, r)
      BY <1>1, <2>2 DEF Busy, Moves
    <3> QED
      BY <1>1, <2>2, <3>1, Names DEF Owned
  <2> QED
    BY <2>1, <2>2
<1>3. ClaimsTypeOK'
  BY Names DEF TypeOK, ClaimsTypeOK, Return, ReleaseClaims
<1> QED
  BY <1>2, <1>3 DEF Owned

LEMMA OwnedTake ==
  ASSUME TypeOK, Owned, NEW a \in Actors, NEW keys \in SUBSET Keys, Active \in keys,
         InstallClaims(a, keys), \A b \in Actors \ {a} : op'[b] = op[b], Busy(a)',
         \A r \in Requests : Moves(a, r)' <=> r \in keys, \A r \in Requests : ~Moves(a, r)
  PROVE  Owned' /\ ClaimsTypeOK' /\ Alone(a) /\ ~Busy(a)
<1>1. /\ \A k \in Keys : claims'[k] = IF k \in keys THEN a ELSE claims[k]
      /\ \A k \in keys : claims[k] = None
  BY DEF InstallClaims, CanResolve
<1>2. ASSUME NEW b \in Actors
      PROVE  /\ claims'[Active] = b <=> Busy(b)'
             /\ \A r \in Requests : claims'[r] = b <=> Moves(b, r)'
  <2>1. CASE b = a
    BY <1>1, <2>1, Names DEF Owned
  <2>2. CASE b # a
    <3>1. (Busy(b)' <=> Busy(b)) /\ \A r \in Requests : Moves(b, r)' <=> Moves(b, r)
      BY <2>2 DEF Busy, Moves
    <3> QED
      BY <1>1, <2>2, <3>1, Names DEF Owned
  <2> QED
    BY <2>1, <2>2
<1>3. ClaimsTypeOK'
  BY Names DEF TypeOK, ClaimsTypeOK, InstallClaims
<1>4. Alone(a) /\ ~Busy(a)
  BY <1>1, Names, FreeIsAlone
<1> QED
  BY <1>2, <1>3, <1>4 DEF Owned

LEMMA GateStays ==
  ASSUME Gate, UNCHANGED <<permission, gateVars>>,
         \A a \in Actors : op'[a].pc = "validate" => op'[a] = op[a],
         op'[Revoker].pc # "idle" => op[Revoker].pc # "idle" /\ op'[Revoker].bad = op[Revoker].bad
  PROVE  Gate'
BY DEF Gate, At, gateVars

\* A surface that works on the batch, or takes it, is the one.
LEMMA SurfaceAlone ==
  ASSUME IInv, NEW s \in Surfaces, op[s].pc # "idle"
  PROVE  s \in Actors /\ s # Revoker /\ Busy(s) /\ Alone(s)
BY Names, BusyIsAlone DEF Busy, IInv

-----------------------------------------------------------------------------
(* Steps that change the call alone                                          *)

\* Neither storage nor the chain changes, nor who owns what.
stillVars == <<storageVars, gateVars, chainVars, tracked, bounds>>

LEMMA StillType ==
  ASSUME TypeOK, UNCHANGED stillVars, ClaimsTypeOK', op' \in [Actors -> OpType]
  PROVE  TypeOK'
BY DEF TypeOK, stillVars, storageVars, gateVars, chainVars, bounds

LEMMA StillCalm ==
  ASSUME NEW a \in Actors, UNCHANGED <<prompts, batch, answer, rows, sent, tracked>>,
         Calm(op[a]), Calm(op[a])', NEW r, Life(op[a], r)
  PROVE  Life(op[a], r)'
BY DEF Calm, Life, AtPrompt, InBatch, Settled, Dropped, Failing, Shipping, Shipped, Unsent, Once

LEMMA ClaimMoveInv ==
  ASSUME IInv, NEW s \in Surfaces, NEW r \in Requests, ClaimMove(s, r)
  PROVE  IInv'
<1> DEFINE p == [IdleOp EXCEPT !.pc = "addSet", !.read = batch, !.going = {r}]
<1>1. s \in Actors /\ s # Revoker /\ TypeOK /\ Owned
  BY Names DEF IInv
<1>2. /\ p \in OpType /\ p.pc = "addSet" /\ p.read = batch /\ p.going = {r}
      /\ p.todo = {} /\ p.outcome = "none"
  BY <1>1, IdleFields DEF OpType, TypeOK
<1> HIDE DEF p
<1>3. op'[s] = p /\ (\A b \in Actors \ {s} : op'[b] = op[b]) /\ op' \in [Actors -> OpType]
  BY <1>1, <1>2 DEF ClaimMove, Update, TypeOK, p
<1>4. op[s].pc = "idle" /\ r \in prompts /\ InstallClaims(s, {r, Active}) /\ UNCHANGED stillVars
  BY DEF ClaimMove, Idle, At, stillVars
<1>5. Owned' /\ ClaimsTypeOK' /\ Alone(s) /\ ~Busy(s)
  <2>1. Busy(s)' /\ (\A q \in Requests : Moves(s, q)' <=> q \in {r, Active})
        /\ \A q \in Requests : ~Moves(s, q)
    BY <1>1, <1>2, <1>3, <1>4, Names DEF Busy, Moves
  <2> QED
    BY <1>1, <1>3, <1>4, <2>1, Names, OwnedTake
<1>6. TypeOK'
  BY <1>1, <1>3, <1>4, <1>5, StillType
<1>7. Shape(s)'
  BY <1>1, <1>2, <1>3, <1>4
     DEF Shape, SurfaceSteps, ShipSteps, Shipped, stillVars, storageVars
<1>8. Gate'
  BY <1>1, <1>2, <1>3, <1>4, GateStays DEF IInv, stillVars, storageVars, Actors
<1>9. Calm(op[s]) /\ Calm(op[s])'
  BY <1>1, <1>2, <1>3, <1>5, QuietIsCalm DEF Calm, IInv
<1> QED
  BY <1>1, <1>3, <1>4, <1>5, <1>6, <1>7, <1>8, <1>9, AloneStep, StillCalm
     DEF stillVars, storageVars, chainVars, bounds

\* A call that owns the batch already goes on.
LEMMA WorkStep ==
  ASSUME IInv, NEW a \in Actors, Busy(a), NEW p \in OpType, Update(a, p), UNCHANGED claimVars,
         p.pc # "idle", a = Revoker => p.pc \in {"drop", "dropAnswer"},
         a # Revoker => /\ op[a].pc \notin {"addSet", "addRemove"}
                        /\ p.pc \notin {"addSet", "addRemove"}
  PROVE  /\ Owned' /\ ClaimsTypeOK' /\ Alone(a) /\ op' \in [Actors -> OpType]
         /\ op'[a] = p /\ \A b \in Actors \ {a} : op'[b] = op[b]
<1>1. /\ op' \in [Actors -> OpType]
      /\ op'[a] = p /\ \A b \in Actors \ {a} : op'[b] = op[b]
  BY DEF Update, IInv, TypeOK
<1>2. Busy(a)' /\ \A b \in Actors : Busy(b)' <=> Busy(b)
  BY <1>1 DEF Busy
<1>3. \A b \in Actors, r \in Requests : Moves(b, r)' <=> Moves(b, r)
  BY <1>1 DEF Moves
<1>4. Owned' /\ Alone(a)
  BY <1>2, <1>3, OwnedStays, BusyIsAlone DEF IInv
<1>5. ClaimsTypeOK'
  BY DEF IInv, TypeOK, ClaimsTypeOK, claimVars
<1> QED
  BY <1>1, <1>4, <1>5

LEMMA DismissInv ==
  ASSUME IInv, NEW s \in Surfaces, NEW gone \in SUBSET ToSet(batch), Dismiss(s, gone)
  PROVE  IInv'
<1> DEFINE p == [IdleOp EXCEPT !.pc = "dismiss", !.read = batch, !.going = gone, !.todo = gone]
<1>1. s \in Actors /\ s # Revoker /\ TypeOK /\ Owned
  BY Names DEF IInv
<1>2. gone \subseteq Requests
  BY <1>1 DEF TypeOK, ToSet
<1>3. /\ p \in OpType /\ p.pc = "dismiss" /\ p.read = batch /\ p.going = gone
      /\ p.todo = gone /\ p.outcome = "none"
  BY <1>1, <1>2, IdleFields DEF OpType, TypeOK
<1> HIDE DEF p
<1>4. op'[s] = p /\ (\A b \in Actors \ {s} : op'[b] = op[b]) /\ op' \in [Actors -> OpType]
  BY <1>1, <1>3 DEF Dismiss, Update, TypeOK, p
<1>5. op[s].pc = "idle" /\ InstallClaims(s, {Active}) /\ UNCHANGED stillVars
  BY DEF Dismiss, Idle, At, stillVars
<1>6. Owned' /\ ClaimsTypeOK' /\ Alone(s) /\ ~Busy(s)
  <2>1. Busy(s)' /\ (\A q \in Requests : Moves(s, q)' <=> q \in {Active})
        /\ \A q \in Requests : ~Moves(s, q)
    BY <1>1, <1>3, <1>4, <1>5, Names DEF Busy, Moves
  <2> QED
    BY <1>1, <1>4, <1>5, <2>1, Names, OwnedTake
<1>7. TypeOK'
  BY <1>1, <1>4, <1>5, <1>6, StillType
<1>8. Shape(s)'
  BY <1>1, <1>3, <1>4, <1>5 DEF Shape, SurfaceSteps, ShipSteps, Shipped, stillVars, storageVars
<1>9. Gate'
  BY <1>1, <1>3, <1>4, <1>5, GateStays DEF IInv, stillVars, storageVars, Actors
<1>10. ASSUME NEW r \in Requests \ torn, Life(op[s], r) PROVE Life(op[s], r)'
  <2>1. Calm(op[s]) /\ op[s].pc = "idle" /\ UNCHANGED <<prompts, batch, answer, rows, sent, tracked>>
    BY <1>1, <1>5, <1>6, QuietIsCalm DEF IInv, stillVars, storageVars, chainVars
  <2> QED
    BY <1>3, <1>4, <1>10, <2>1
       DEF Calm, Life, AtPrompt, InBatch, Settled, Dropped, Failing, Shipping, Shipped, Unsent, Once
<1> QED
  BY <1>1, <1>4, <1>5, <1>6, <1>7, <1>8, <1>9, <1>10, AloneStep
     DEF stillVars, storageVars, chainVars, bounds

LEMMA ConfirmInv ==
  ASSUME IInv, NEW s \in Surfaces, Confirm(s)
  PROVE  IInv'
<1> DEFINE p == [IdleOp EXCEPT !.pc = "prepare", !.read = batch]
<1>1. s \in Actors /\ s # Revoker /\ TypeOK /\ Owned
  BY Names DEF IInv
<1>2. /\ p \in OpType /\ p.pc = "prepare" /\ p.read = batch /\ p.todo = {} /\ p.outcome = "none"
  BY <1>1, IdleFields DEF OpType, TypeOK
<1> HIDE DEF p
<1>3. op'[s] = p /\ (\A b \in Actors \ {s} : op'[b] = op[b]) /\ op' \in [Actors -> OpType]
  BY <1>1, <1>2 DEF Confirm, Update, TypeOK, p
<1>4. op[s].pc = "idle" /\ InstallClaims(s, {Active}) /\ UNCHANGED stillVars
  BY DEF Confirm, Idle, At, stillVars
<1>5. Owned' /\ ClaimsTypeOK' /\ Alone(s) /\ ~Busy(s)
  <2>1. Busy(s)' /\ (\A q \in Requests : Moves(s, q)' <=> q \in {Active})
        /\ \A q \in Requests : ~Moves(s, q)
    BY <1>1, <1>2, <1>3, <1>4, Names DEF Busy, Moves
  <2> QED
    BY <1>1, <1>3, <1>4, <2>1, Names, OwnedTake
<1>6. TypeOK'
  BY <1>1, <1>3, <1>4, <1>5, StillType
<1>7. Shape(s)'
  BY <1>1, <1>2, <1>3, <1>4 DEF Shape, SurfaceSteps, ShipSteps, Shipped, stillVars, storageVars
<1>8. Gate'
  BY <1>1, <1>2, <1>3, <1>4, GateStays DEF IInv, stillVars, storageVars, Actors
<1>9. Calm(op[s]) /\ Calm(op[s])'
  BY <1>1, <1>2, <1>3, <1>5, QuietIsCalm DEF Calm, IInv
<1> QED
  BY <1>1, <1>3, <1>4, <1>5, <1>6, <1>7, <1>8, <1>9, AloneStep, StillCalm
     DEF stillVars, storageVars, chainVars, bounds

LEMMA RetryableInv ==
  ASSUME IInv, NEW s \in Surfaces, Retryable(s)
  PROVE  IInv'
<1>1. s \in Actors /\ s # Revoker /\ TypeOK /\ Owned
  BY Names DEF IInv
<1>2. /\ op[s].pc = "prepare" /\ UNCHANGED stillVars
      /\ op'[s] = IdleOp /\ (\A b \in Actors \ {s} : op'[b] = op[b]) /\ op' \in [Actors -> OpType]
  BY <1>1, IdleFields
     DEF Retryable, Return, Update, At, TypeOK, stillVars, storageVars, outside
<1>3. Owned' /\ ClaimsTypeOK'
  BY <1>1, OwnedReturn DEF Retryable
<1>4. Alone(s)
  BY <1>2, SurfaceAlone
<1>5. TypeOK'
  BY <1>1, <1>2, <1>3, StillType
<1>6. Shape(s)'
  BY <1>1, <1>2, IdleFields DEF Shape, SurfaceSteps, ShipSteps, Shipped
<1>7. Gate'
  BY <1>1, <1>2, IdleFields, GateStays DEF IInv, stillVars, storageVars, Actors
<1>8. Calm(op[s]) /\ Calm(op[s])'
  BY <1>1, <1>2, IdleFields DEF Calm, IInv, Shape, ShipSteps
<1> QED
  BY <1>1, <1>2, <1>3, <1>4, <1>5, <1>6, <1>7, <1>8, AloneStep, StillCalm
     DEF stillVars, storageVars, chainVars, bounds

LEMMA StepFields ==
  ASSUME TypeOK, NEW a \in Actors,
         NEW pc \in {"sign", "drop", "publish", "history", "results"}
  PROVE  /\ Step(a, pc) \in OpType
         /\ Step(a, pc).pc = pc /\ Step(a, pc).read = op[a].read /\ Step(a, pc).going = {}
         /\ Step(a, pc).todo = {} /\ Step(a, pc).outcome = "none"
BY IdleFields DEF Step, TypeOK, OpType

\* The error is told to every entry that was read.
LEMMA FailFields ==
  ASSUME TypeOK, NEW a \in Actors
  PROVE  LET p == [Step(a, "publish") EXCEPT !.outcome = "failed", !.todo = ToSet(op[a].read)]
         IN  /\ p \in OpType /\ p.pc = "publish" /\ p.read = op[a].read
             /\ p.todo = ToSet(op[a].read) /\ p.outcome = "failed"
<1> DEFINE base == Step(a, "publish")
<1> DEFINE p == [base EXCEPT !.outcome = "failed", !.todo = ToSet(op[a].read)]
<1>1. ToSet(op[a].read) \subseteq Requests
  BY DEF TypeOK, OpType, ToSet
<1>2. base \in OpType /\ base.read = op[a].read /\ base.pc = "publish"
  BY StepFields
<1> HIDE DEF base
<1>3. /\ p \in OpType /\ p.pc = "publish" /\ p.read = op[a].read
      /\ p.todo = ToSet(op[a].read) /\ p.outcome = "failed"
  BY <1>1, <1>2 DEF OpType
<1> QED
  BY <1>3 DEF base

LEMMA ShipFailsInv ==
  ASSUME IInv, NEW s \in Surfaces, ShipFails(s)
  PROVE  IInv'
<1> DEFINE p == [Step(s, "publish") EXCEPT !.outcome = "failed", !.todo = ToSet(op[s].read)]
<1>1. s \in Actors /\ s # Revoker /\ TypeOK /\ Busy(s) /\ op[s].pc \in {"prepare", "sign"}
  BY SurfaceAlone DEF IInv, ShipFails, At
<1>2. /\ p \in OpType /\ p.pc = "publish" /\ p.read = op[s].read
      /\ p.todo = ToSet(op[s].read) /\ p.outcome = "failed"
  BY <1>1, FailFields
<1> HIDE DEF p
<1>3. UNCHANGED claimVars /\ UNCHANGED stillVars /\ Update(s, p)
  BY DEF ShipFails, Fail, stillVars, p
<1>4. /\ Owned' /\ ClaimsTypeOK' /\ Alone(s) /\ op' \in [Actors -> OpType]
      /\ op'[s] = p /\ \A b \in Actors \ {s} : op'[b] = op[b]
  BY <1>1, <1>2, <1>3, WorkStep
<1>5. TypeOK'
  BY <1>1, <1>3, <1>4, StillType
<1>6. op[s].read = batch /\ Calm(op[s])
  BY <1>1 DEF IInv, Shape, Calm, ShipSteps
<1>7. Shape(s)'
  BY <1>1, <1>2, <1>3, <1>4, <1>6 DEF Shape, SurfaceSteps, ShipSteps, Shipped, stillVars, storageVars
<1>8. Gate'
  BY <1>1, <1>2, <1>3, <1>4, GateStays DEF IInv, stillVars, storageVars, Actors
<1>9. ASSUME NEW r \in Requests \ torn, Life(op[s], r) PROVE Life(op[s], r)'
  <2>1. UNCHANGED <<prompts, batch, answer, rows, sent, tracked>>
    BY <1>3 DEF stillVars, storageVars, chainVars
  <2> QED
    BY <1>1, <1>2, <1>4, <1>6, <1>9, <2>1
       DEF Calm, Life, AtPrompt, InBatch, Settled, Dropped, Failing, Shipping, Shipped, Unsent, Once
<1> QED
  BY <1>1, <1>3, <1>4, <1>5, <1>7, <1>8, <1>9, AloneStep DEF stillVars, bounds

LEMMA CaptureInv ==
  ASSUME IInv, NEW s \in Surfaces, Capture(s)
  PROVE  IInv'
<1> DEFINE sources == {SiteOf[r] : r \in ToSet(op[s].read)}
<1> DEFINE p == [op[s] EXCEPT !.pc = "validate", !.snap = epoch, !.gated = revoking,
                              !.check = sources, !.final = At(s, "sign")]
<1>1. s \in Actors /\ s # Revoker /\ TypeOK /\ Busy(s) /\ op[s].pc \in {"prepare", "sign"}
  BY SurfaceAlone DEF IInv, Capture, At
<1>2. sources \subseteq Sites /\ At(s, "sign") \in BOOLEAN
  BY <1>1, Names DEF TypeOK, OpType, ToSet, At
<1>3. /\ p \in OpType /\ p.pc = "validate" /\ p.read = op[s].read /\ p.todo = op[s].todo
      /\ p.outcome = op[s].outcome /\ p.snap = epoch /\ p.gated = revoking /\ p.check = sources
  <2>1. op[s] \in OpType /\ epoch \in [Sites -> 0..MaxRevocations] /\ revoking \subseteq Sites
    BY <1>1 DEF TypeOK
  <2> HIDE DEF sources
  <2> QED
    BY <1>2, <2>1 DEF OpType
<1>4. UNCHANGED claimVars /\ UNCHANGED stillVars /\ Update(s, p)
  BY DEF Capture, stillVars
<1> HIDE DEF p
<1>5. /\ Owned' /\ ClaimsTypeOK' /\ Alone(s) /\ op' \in [Actors -> OpType]
      /\ op'[s] = p /\ \A b \in Actors \ {s} : op'[b] = op[b]
  BY <1>1, <1>3, <1>4, WorkStep
<1>6. TypeOK'
  BY <1>1, <1>4, <1>5, StillType
<1>7. op[s].read = batch /\ Calm(op[s])
  BY <1>1 DEF IInv, Shape, Calm, ShipSteps
<1>8. Shape(s)'
  BY <1>1, <1>3, <1>4, <1>5, <1>7 DEF Calm, Shape, SurfaceSteps, ShipSteps, Shipped, stillVars, storageVars
<1>9. Gate'
  <2>1. UNCHANGED <<permission, revoking, epoch>> /\ op'[Revoker] = op[Revoker]
    BY <1>1, <1>4, <1>5, Names DEF stillVars, storageVars, gateVars
  <2>2. epoch \in [Sites -> 0..MaxRevocations] /\ MaxRevocations \in Nat
    BY <1>1, Names DEF TypeOK
  <2>3. ASSUME NEW a \in Actors, NEW site \in Sites, op'[a].pc = "validate"
        PROVE  /\ op'[a].snap[site] <= epoch[site]
               /\ site \in revoking \ op'[a].gated => op'[a].snap[site] < epoch[site]
               /\ /\ site \in {SiteOf[r] : r \in ToSet(op'[a].read)}
                  /\ site \notin op'[a].check \union op'[a].bad \union op'[a].gated
                  /\ op'[a].snap[site] = epoch[site]
                  => site \in permission
    <3>1. CASE a = s
      BY <1>3, <1>5, <2>2, <3>1
    <3>2. CASE a # s
      BY <1>5, <2>3, <3>2 DEF IInv, Gate, At
    <3> QED
      BY <3>1, <3>2
  <2> QED
    BY <2>1, <2>3 DEF IInv, Gate, At
<1>10. Calm(op[s])'
  BY <1>3, <1>5, <1>7 DEF Calm
<1> QED
  BY <1>1, <1>4, <1>5, <1>6, <1>7, <1>8, <1>9, <1>10, AloneStep, StillCalm
     DEF stillVars, storageVars, chainVars, bounds

LEMMA ValidateInv ==
  ASSUME IInv, NEW s \in Surfaces, NEW site \in Sites, Validate(s, site)
  PROVE  IInv'
<1>1. s \in Actors /\ s # Revoker /\ TypeOK /\ Busy(s) /\ op[s].pc = "validate"
  BY SurfaceAlone DEF IInv, Validate, At
<1>2. PICK p \in OpType :
        /\ Update(s, p) /\ p.pc = "validate" /\ p.read = op[s].read /\ p.todo = op[s].todo
        /\ p.outcome = op[s].outcome /\ p.snap = op[s].snap /\ p.gated = op[s].gated
        /\ p.check = op[s].check \ {site}
        /\ \/ site \in permission \ revoking /\ p.bad = op[s].bad
           \/ p.bad = op[s].bad \union {site}
  <2> DEFINE good == [op[s] EXCEPT !.check = @ \ {site}]
  <2> DEFINE bad == [op[s] EXCEPT !.check = @ \ {site}, !.bad = @ \union {site}]
  <2>1. op[s] \in OpType
    BY <1>1 DEF TypeOK
  <2>2. CASE site \in permission \ revoking /\ Update(s, good)
    <3>1. /\ good \in OpType /\ good.pc = "validate" /\ good.read = op[s].read
          /\ good.todo = op[s].todo /\ good.outcome = op[s].outcome /\ good.snap = op[s].snap
          /\ good.gated = op[s].gated /\ good.check = op[s].check \ {site}
          /\ good.bad = op[s].bad
      BY <1>1, <2>1 DEF OpType
    <3> HIDE DEF good
    <3> QED
      BY <2>2, <3>1
  <2>3. CASE Update(s, bad)
    <3>1. /\ bad \in OpType /\ bad.pc = "validate" /\ bad.read = op[s].read
          /\ bad.todo = op[s].todo /\ bad.outcome = op[s].outcome /\ bad.snap = op[s].snap
          /\ bad.gated = op[s].gated /\ bad.check = op[s].check \ {site}
          /\ bad.bad = op[s].bad \union {site}
      BY <1>1, <2>1 DEF OpType
    <3> HIDE DEF bad
    <3> QED
      BY <2>3, <3>1
  <2> QED
    BY <2>2, <2>3 DEF Validate
<1>3. UNCHANGED claimVars /\ UNCHANGED stillVars
  BY DEF Validate, stillVars
<1>4. /\ Owned' /\ ClaimsTypeOK' /\ Alone(s) /\ op' \in [Actors -> OpType]
      /\ op'[s] = p /\ \A b \in Actors \ {s} : op'[b] = op[b]
  BY <1>1, <1>2, <1>3, WorkStep
<1>5. TypeOK'
  BY <1>1, <1>3, <1>4, StillType
<1>6. op[s].read = batch /\ Calm(op[s])
  BY <1>1 DEF IInv, Shape, Calm, ShipSteps
<1>7. Shape(s)'
  BY <1>1, <1>2, <1>3, <1>4, <1>6 DEF Calm, Shape, SurfaceSteps, ShipSteps, Shipped, stillVars, storageVars
<1>8. Gate'
  <2>1. UNCHANGED <<permission, revoking, epoch>> /\ op'[Revoker] = op[Revoker]
    BY <1>1, <1>3, <1>4, Names DEF stillVars, storageVars, gateVars
  <2>2. ASSUME NEW a \in Actors, NEW x \in Sites, op'[a].pc = "validate"
        PROVE  /\ op'[a].snap[x] <= epoch[x]
               /\ x \in revoking \ op'[a].gated => op'[a].snap[x] < epoch[x]
               /\ /\ x \in {SiteOf[r] : r \in ToSet(op'[a].read)}
                  /\ x \notin op'[a].check \union op'[a].bad \union op'[a].gated
                  /\ op'[a].snap[x] = epoch[x]
                  => x \in permission
    <3>1. CASE a = s
      BY <1>1, <1>2, <1>4, <3>1 DEF IInv, Gate, At
    <3>2. CASE a # s
      BY <1>4, <2>2, <3>2 DEF IInv, Gate, At
    <3> QED
      BY <3>1, <3>2
  <2> QED
    BY <2>1, <2>2 DEF IInv, Gate, At
<1>9. Calm(op[s])'
  BY <1>2, <1>4, <1>6 DEF Calm
<1> QED
  BY <1>1, <1>3, <1>4, <1>5, <1>6, <1>7, <1>8, <1>9, AloneStep, StillCalm
     DEF stillVars, storageVars, chainVars, bounds

LEMMA CommitRefusedInv ==
  ASSUME IInv, NEW s \in Surfaces, CommitRefused(s)
  PROVE  IInv'
<1> DEFINE gone == ToSet(op[s].read) \intersect Of(Refused(s))
<1> DEFINE base == Step(s, "drop")
<1> DEFINE p == [base EXCEPT !.going = gone, !.final = op[s].final]
<1>1. s \in Actors /\ s # Revoker /\ TypeOK /\ Busy(s) /\ op[s].pc = "validate"
  BY SurfaceAlone DEF IInv, CommitRefused, At
<1>2. gone \subseteq Requests /\ gone \subseteq ToSet(op[s].read) /\ op[s].final \in BOOLEAN
  BY <1>1 DEF Of, TypeOK, OpType
<1>3. /\ base \in OpType /\ base.pc = "drop" /\ base.read = op[s].read
      /\ base.todo = {} /\ base.outcome = "none"
  BY <1>1, StepFields
<1>4. UNCHANGED claimVars /\ UNCHANGED stillVars /\ Update(s, p)
  BY DEF CommitRefused, stillVars
<1> HIDE DEF base, gone
<1>5. /\ p \in OpType /\ p.pc = "drop" /\ p.read = op[s].read /\ p.going = gone
      /\ p.todo = {} /\ p.outcome = "none"
  BY <1>2, <1>3 DEF OpType
<1> HIDE DEF p
<1>6. /\ Owned' /\ ClaimsTypeOK' /\ Alone(s) /\ op' \in [Actors -> OpType]
      /\ op'[s] = p /\ \A b \in Actors \ {s} : op'[b] = op[b]
  BY <1>1, <1>4, <1>5, WorkStep
<1>7. TypeOK'
  BY <1>1, <1>4, <1>6, StillType
<1>8. op[s].read = batch /\ Calm(op[s]) /\ Calm(op[s])'
  BY <1>1, <1>5, <1>6 DEF IInv, Shape, Calm, ShipSteps
<1>9. Shape(s)'
  BY <1>1, <1>2, <1>4, <1>5, <1>6, <1>8
     DEF Shape, SurfaceSteps, ShipSteps, Shipped, stillVars, storageVars
<1>10. Gate'
  BY <1>1, <1>4, <1>5, <1>6, GateStays DEF IInv, stillVars, storageVars, Actors
<1> QED
  BY <1>1, <1>4, <1>6, <1>7, <1>8, <1>9, <1>10, AloneStep, StillCalm
     DEF stillVars, storageVars, chainVars, bounds

LEMMA CommitFirstInv ==
  ASSUME IInv, NEW s \in Surfaces, CommitFirst(s)
  PROVE  IInv'
<1> DEFINE p == Step(s, "sign")
<1>1. s \in Actors /\ s # Revoker /\ TypeOK /\ Busy(s) /\ op[s].pc = "validate"
  BY SurfaceAlone DEF IInv, CommitFirst, At
<1>2. p \in OpType /\ p.pc = "sign" /\ p.read = op[s].read /\ p.todo = {} /\ p.outcome = "none"
  BY <1>1, StepFields
<1>3. UNCHANGED claimVars /\ UNCHANGED stillVars /\ Update(s, p)
  BY DEF CommitFirst, stillVars
<1> HIDE DEF p
<1>4. /\ Owned' /\ ClaimsTypeOK' /\ Alone(s) /\ op' \in [Actors -> OpType]
      /\ op'[s] = p /\ \A b \in Actors \ {s} : op'[b] = op[b]
  BY <1>1, <1>2, <1>3, WorkStep
<1>5. TypeOK'
  BY <1>1, <1>3, <1>4, StillType
<1>6. op[s].read = batch /\ Calm(op[s]) /\ Calm(op[s])'
  BY <1>1, <1>2, <1>4 DEF IInv, Shape, Calm, ShipSteps
<1>7. Shape(s)'
  BY <1>1, <1>2, <1>3, <1>4, <1>6 DEF Shape, SurfaceSteps, ShipSteps, Shipped, stillVars, storageVars
<1>8. Gate'
  BY <1>1, <1>2, <1>3, <1>4, GateStays DEF IInv, stillVars, storageVars, Actors
<1> QED
  BY <1>1, <1>3, <1>4, <1>5, <1>6, <1>7, <1>8, AloneStep, StillCalm
     DEF stillVars, storageVars, chainVars, bounds

\* The refused sources are out: the confirmation ends, or fails as a whole.
LEMMA DropDoneInv ==
  ASSUME IInv, NEW s \in Surfaces, DropDone(s)
  PROVE  IInv'
<1>1. /\ s \in Actors /\ s # Revoker /\ TypeOK /\ Owned /\ Busy(s) /\ Alone(s)
      /\ op[s].pc = "dropAnswer" /\ op[s].todo = {} /\ UNCHANGED stillVars
  BY SurfaceAlone DEF IInv, DropDone, At, stillVars, storageVars, outside
<1>2. CASE op[s].final
  <2> DEFINE p == [Step(s, "publish") EXCEPT !.outcome = "failed", !.todo = ToSet(op[s].read)]
  <2>1. /\ p \in OpType /\ p.pc = "publish" /\ p.read = op[s].read
        /\ p.todo = ToSet(op[s].read) /\ p.outcome = "failed"
    BY <1>1, FailFields
  <2> HIDE DEF p
  <2>2. UNCHANGED claimVars /\ Update(s, p)
    BY <1>2 DEF DropDone, Fail, p
  <2>3. /\ Owned' /\ ClaimsTypeOK' /\ Alone(s) /\ op' \in [Actors -> OpType]
        /\ op'[s] = p /\ \A b \in Actors \ {s} : op'[b] = op[b]
    BY <1>1, <2>1, <2>2, WorkStep
  <2>4. TypeOK'
    BY <1>1, <2>3, StillType
  <2>5. /\ ToSet(op[s].read) = ToSet(batch) \union op[s].going
        /\ op[s].going \intersect ToSet(batch) = {} /\ op[s].outcome = "none"
    BY <1>1 DEF IInv, Shape, ShipSteps
  <2>6. Shape(s)'
    BY <1>1, <2>1, <2>3, <2>5 DEF Shape, SurfaceSteps, ShipSteps, Shipped, stillVars, storageVars
  <2>7. Gate'
    BY <1>1, <2>1, <2>3, GateStays DEF IInv, stillVars, storageVars, Actors
  <2>8. ASSUME NEW r \in Requests \ torn, Life(op[s], r) PROVE Life(op[s], r)'
    <3>1. UNCHANGED <<prompts, batch, answer, rows, sent, tracked>>
      BY <1>1 DEF stillVars, storageVars, chainVars
    <3>2. r \in ToSet(batch) => answer[r] = "none" /\ r \notin prompts /\ Unsent(r)
      BY <1>1, <2>5, <2>8 DEF Life, AtPrompt, InBatch, Shipped
    <3>3. r \in op[s].going => answer[r] = "failed" /\ r \notin prompts /\ Unsent(r)
      BY <1>1, <2>8 DEF Life, Dropped
    <3> QED
      BY <1>1, <2>1, <2>3, <2>5, <2>8, <3>1, <3>2, <3>3
         DEF Life, AtPrompt, InBatch, Settled, Dropped, Failing, Shipping, Shipped, Unsent, Once
  <2> QED
    BY <1>1, <2>3, <2>4, <2>6, <2>7, <2>8, AloneStep DEF stillVars, bounds
<1>3. CASE ~op[s].final
  <2>1. op'[s] = IdleOp /\ (\A b \in Actors \ {s} : op'[b] = op[b]) /\ op' \in [Actors -> OpType]
    BY <1>1, <1>3, IdleFields DEF DropDone, Return, Update, TypeOK
  <2>2. Owned' /\ ClaimsTypeOK'
    BY <1>1, <1>3, OwnedReturn DEF DropDone
  <2>3. TypeOK'
    BY <1>1, <2>1, <2>2, StillType
  <2>4. Shape(s)'
    BY <1>1, <2>1, IdleFields DEF Shape, SurfaceSteps, ShipSteps, Shipped
  <2>5. Gate'
    BY <1>1, <2>1, IdleFields, GateStays DEF IInv, stillVars, storageVars, Actors
  <2>6. ASSUME NEW r \in Requests \ torn, Life(op[s], r) PROVE Life(op[s], r)'
    <3>1. UNCHANGED <<prompts, batch, answer, rows, sent, tracked>>
      BY <1>1 DEF stillVars, storageVars, chainVars
    <3>2. op[s].outcome = "none"
      BY <1>1 DEF IInv, Shape, ShipSteps
    <3> QED
      BY <1>1, <2>1, <2>6, <3>1, <3>2, IdleFields
         DEF Life, AtPrompt, InBatch, Settled, Dropped, Failing, Shipping, Shipped, Unsent, Once
  <2> QED
    BY <1>1, <2>1, <2>2, <2>3, <2>4, <2>5, <2>6, AloneStep DEF stillVars, bounds
<1> QED
  BY <1>2, <1>3

-----------------------------------------------------------------------------
(* Steps that write the batch                                                *)

LEMMA BatchType ==
  ASSUME TypeOK, UNCHANGED <<prompts, answer, outside>>, ClaimsTypeOK',
         op' \in [Actors -> OpType], batch' \in Seq(Requests)
  PROVE  TypeOK'
BY DEF TypeOK, outside, gateVars, chainVars, bounds

LEMMA SingleSeq ==
  ASSUME NEW r
  PROVE  SetToSeq({r}) = <<r>>
<1>1. IsFiniteSet({r}) /\ Cardinality({r}) = 1
  BY FS_Singleton
<1>2. <<r>> \in [1..1 -> {r}] /\ IsInjective(<<r>>)
  BY DEF IsInjective
<1>3. \A f \in [1..1 -> {r}] : f = <<r>>
  OBVIOUS
<1> QED
  BY <1>1, <1>2, <1>3 DEF SetToSeq

LEMMA AddedEntry ==
  ASSUME NEW entries \in Seq(Requests), NEW r \in Requests
  PROVE  LET more == entries \o <<r>> IN
         /\ more \in Seq(Requests) /\ Len(more) = Len(entries) + 1
         /\ ToSet(more) = ToSet(entries) \union {r}
         /\ \A q : Once(q, entries) /\ (q = r => q \notin ToSet(entries)) => Once(q, more)
<1> DEFINE more == entries \o <<r>>
<1>1. /\ more \in Seq(Requests) /\ Len(more) = Len(entries) + 1 /\ more[Len(more)] = r
      /\ (\A i \in 1..Len(entries) : more[i] = entries[i]) /\ Len(entries) \in Nat
  OBVIOUS
<1> HIDE DEF more
<1>2. ToSet(more) = ToSet(entries) \union {r}
  <2>1. DOMAIN more = 1..Len(entries) + 1 /\ DOMAIN entries = 1..Len(entries)
    BY <1>1
  <2>2. 1..Len(entries) + 1 = (1..Len(entries)) \union {Len(entries) + 1}
    BY <1>1
  <2> QED
    BY <2>1, <2>2, <1>1 DEF ToSet
<1>3. ASSUME NEW q, Once(q, entries), q = r => q \notin ToSet(entries) PROVE Once(q, more)
  <2>1. \A i \in 1..Len(entries) : entries[i] \in ToSet(entries)
    BY DEF ToSet
  <2> SUFFICES ASSUME NEW i \in 1..Len(more), NEW j \in 1..Len(more), more[i] = q, more[j] = q
               PROVE  i = j
    BY DEF Once
  <2>2. (i \in 1..Len(entries) \/ i = Len(more)) /\ (j \in 1..Len(entries) \/ j = Len(more))
    BY <1>1
  <2> QED
    BY <1>1, <1>3, <2>1, <2>2 DEF Once
<1> QED
  BY <1>1, <1>2, <1>3 DEF more

LEMMA AddSetInv ==
  ASSUME IInv, NEW s \in Surfaces, AddSet(s)
  PROVE  IInv'
<1>1. /\ s \in Actors /\ s # Revoker /\ TypeOK /\ Owned /\ Busy(s) /\ Alone(s)
      /\ op[s].pc = "addSet" /\ UNCHANGED <<prompts, answer, outside>>
  BY SurfaceAlone DEF IInv, AddSet, At
<1>2. /\ op[s].read = batch /\ op[s].going \subseteq prompts /\ Calm(op[s])
      /\ \E r \in Requests : op[s].going = {r}
  BY <1>1 DEF IInv, Shape, Calm, ShipSteps
<1>3. CASE /\ batch' = op[s].read \o SetToSeq(op[s].going)
           /\ UNCHANGED claimVars
           /\ Update(s, [IdleOp EXCEPT !.pc = "addRemove", !.going = op[s].going])
  <2> DEFINE p == [IdleOp EXCEPT !.pc = "addRemove", !.going = op[s].going]
  <2>1. PICK r \in Requests : op[s].going = {r}
    BY <1>2
  <2>2. batch \in Seq(Requests) /\ batch' = batch \o <<r>>
    BY <1>1, <1>2, <1>3, <2>1, SingleSeq DEF TypeOK
  <2>3. /\ batch' \in Seq(Requests) /\ Len(batch') = Len(batch) + 1
        /\ ToSet(batch') = ToSet(batch) \union {r}
        /\ \A q : Once(q, batch) /\ (q = r => q \notin ToSet(batch)) => Once(q, batch')
    BY <2>2, AddedEntry
  <2>4. /\ p \in OpType /\ p.pc = "addRemove" /\ p.going = {r} /\ p.todo = {}
        /\ p.outcome = "none"
    BY <2>1, IdleFields DEF OpType
  <2>5. UNCHANGED claimVars /\ Update(s, p)
    BY <1>3
  <2> HIDE DEF p
  <2>6. op'[s] = p /\ (\A b \in Actors \ {s} : op'[b] = op[b]) /\ op' \in [Actors -> OpType]
    BY <1>1, <2>4, <2>5 DEF Update, TypeOK
  <2>7. /\ Busy(s)' /\ \A b \in Actors : Busy(b)' <=> Busy(b)
        /\ \A b \in Actors, q \in Requests : Moves(b, q)' <=> Moves(b, q)
    BY <1>1, <2>1, <2>4, <2>6 DEF Busy, Moves
  <2>8. Owned' /\ ClaimsTypeOK'
    BY <1>1, <2>5, <2>7, OwnedStays DEF TypeOK, ClaimsTypeOK, claimVars
  <2>9. TypeOK'
    BY <1>1, <2>3, <2>6, <2>8, BatchType
  <2>10. Shape(s)'
    BY <1>1, <1>2, <2>1, <2>3, <2>4, <2>6 DEF Shape, SurfaceSteps, ShipSteps, Shipped
  <2>11. Gate'
    BY <1>1, <2>4, <2>6, GateStays DEF IInv, outside, Actors
  <2>12. ASSUME NEW q \in Requests \ torn, Life(op[s], q) PROVE Life(op[s], q)'
    <3>1. UNCHANGED <<prompts, answer, rows, sent, tracked>>
      BY <1>1 DEF outside, chainVars
    <3>2. (q \in prompts => q \notin ToSet(batch)) /\ r \in prompts
      BY <1>1, <1>2, <2>1, <2>12 DEF Life, AtPrompt
    <3>3. AtPrompt(op[s], q)'
      BY <1>2, <2>1, <2>3, <2>4, <2>6, <2>12, <3>1, <3>2 DEF Life, AtPrompt, Unsent
    <3>4. q \in ToSet(batch) => Once(q, batch)
      BY <2>12 DEF Life, InBatch
    <3>5. q \in ToSet(batch') => Once(q, batch')
      <4>1. q \notin ToSet(batch) => Once(q, batch)
        BY <2>2 DEF Once, ToSet
      <4> QED
        BY <2>3, <3>2, <3>4, <4>1
    <3>6. InBatch(op[s], q)'
      BY <1>2, <2>1, <2>3, <2>4, <2>6, <2>12, <3>1, <3>2, <3>5
         DEF Calm, Life, AtPrompt, InBatch, Unsent, Shipped
    <3>7. Settled(op[s], q)'
      BY <1>2, <2>3, <2>4, <2>6, <2>12, <3>1 DEF Calm, Life, Settled, Unsent
    <3> QED
      BY <2>4, <2>6, <3>3, <3>5, <3>6, <3>7 DEF Life, Dropped, Failing, Shipping, Shipped
  <2> QED
    BY <1>1, <2>6, <2>8, <2>9, <2>10, <2>11, <2>12, AloneStep DEF outside, bounds
<1>4. CASE Return(s) /\ UNCHANGED batch
  <2>1. op'[s] = IdleOp /\ (\A b \in Actors \ {s} : op'[b] = op[b]) /\ op' \in [Actors -> OpType]
    BY <1>1, <1>4, IdleFields DEF Return, Update, TypeOK
  <2>2. Owned' /\ ClaimsTypeOK'
    BY <1>1, <1>4, OwnedReturn
  <2>3. TypeOK'
    BY <1>1, <1>4, <2>1, <2>2, BatchType DEF TypeOK
  <2>4. Shape(s)'
    BY <1>1, <2>1, IdleFields DEF Shape, SurfaceSteps, ShipSteps, Shipped
  <2>5. Gate'
    BY <1>1, <2>1, IdleFields, GateStays DEF IInv, outside, Actors
  <2>6. Calm(op[s])'
    BY <2>1, IdleFields DEF Calm
  <2> QED
    BY <1>1, <1>2, <1>4, <2>1, <2>2, <2>3, <2>4, <2>5, <2>6, AloneStep, StillCalm
       DEF outside, chainVars, bounds
<1> QED
  BY <1>3, <1>4 DEF AddSet

\* The results are written, the entries go.
LEMMA DismissWriteInv ==
  ASSUME IInv, NEW s \in Surfaces, DismissWrite(s)
  PROVE  IInv'
<1>1. /\ s \in Actors /\ s # Revoker /\ TypeOK /\ Owned /\ Busy(s) /\ Alone(s)
      /\ op[s].pc = "dismiss" /\ op[s].todo = {} /\ UNCHANGED <<prompts, answer, outside>>
      /\ Return(s) /\ batch' = Without(op[s].read, op[s].going)
  BY SurfaceAlone DEF IInv, DismissWrite, At
<1>2. op[s].read = batch /\ batch \in Seq(Requests) /\ op[s].outcome = "none"
  BY <1>1 DEF IInv, Shape, TypeOK, ShipSteps
<1>3. /\ batch' \in Seq(Requests) /\ Len(batch') <= Len(batch)
      /\ ToSet(batch') = ToSet(batch) \ op[s].going
      /\ \A r : Once(r, batch) => Once(r, batch')
  BY <1>1, <1>2, WithoutProperties
<1>4. op'[s] = IdleOp /\ (\A b \in Actors \ {s} : op'[b] = op[b]) /\ op' \in [Actors -> OpType]
  BY <1>1, IdleFields DEF Return, Update, TypeOK
<1>5. Owned' /\ ClaimsTypeOK'
  BY <1>1, OwnedReturn
<1>6. TypeOK'
  BY <1>1, <1>3, <1>4, <1>5, BatchType
<1>7. Shape(s)'
  BY <1>1, <1>4, IdleFields DEF Shape, SurfaceSteps, ShipSteps, Shipped
<1>8. Gate'
  BY <1>1, <1>4, IdleFields, GateStays DEF IInv, outside, Actors
<1>9. ASSUME NEW r \in Requests \ torn, Life(op[s], r) PROVE Life(op[s], r)'
  <2>1. UNCHANGED <<prompts, answer, rows, sent, tracked>>
    BY <1>1 DEF outside, chainVars
  <2>2. AtPrompt(op[s], r)' /\ InBatch(op[s], r)'
    BY <1>1, <1>2, <1>3, <1>4, <1>9, <2>1, IdleFields
       DEF Life, AtPrompt, InBatch, Shipped, Unsent
  <2>3. r \in op[s].going => answer[r] = "failed"
    BY <1>1, <1>9 DEF Life, Dropped
  <2>4. Settled(op[s], r)'
    BY <1>1, <1>2, <1>3, <1>4, <1>9, <2>1, <2>3, IdleFields DEF Life, Settled, Unsent
  <2> QED
    BY <1>4, <2>2, <2>4, IdleFields DEF Life, Dropped, Failing, Shipping, Shipped
<1> QED
  BY <1>1, <1>4, <1>5, <1>6, <1>7, <1>8, <1>9, AloneStep DEF outside, bounds

\* The entries go, their results are still to be written.
LEMMA DropWriteInv ==
  ASSUME IInv, NEW a \in Actors, DropWrite(a)
  PROVE  IInv'
<1> DEFINE p == [op[a] EXCEPT !.pc = "dropAnswer", !.todo = op[a].going]
<1>1. /\ TypeOK /\ Owned /\ Busy(a) /\ op[a].pc = "drop"
      /\ UNCHANGED <<prompts, answer, outside>> /\ UNCHANGED claimVars /\ Update(a, p)
      /\ batch' = Without(op[a].read, op[a].going)
  BY Names DEF IInv, DropWrite, At, Busy
<1>2. /\ op[a].read = batch /\ batch \in Seq(Requests) /\ op[a].outcome = "none"
      /\ op[a].going \subseteq ToSet(batch) /\ op[a].todo = {}
  BY <1>1 DEF IInv, Shape, TypeOK, ShipSteps
<1>3. /\ batch' \in Seq(Requests) /\ Len(batch') <= Len(batch)
      /\ ToSet(batch') = ToSet(batch) \ op[a].going
      /\ \A r : Once(r, batch) => Once(r, batch')
  BY <1>1, <1>2, WithoutProperties
<1>4. /\ p \in OpType /\ p.pc = "dropAnswer" /\ p.read = op[a].read /\ p.going = op[a].going
      /\ p.todo = op[a].going /\ p.outcome = "none" /\ p.bad = op[a].bad
  <2>1. op[a] \in OpType
    BY <1>1 DEF TypeOK
  <2> QED
    BY <1>2, <2>1 DEF OpType
<1> HIDE DEF p
<1>5. /\ Owned' /\ ClaimsTypeOK' /\ Alone(a) /\ op' \in [Actors -> OpType]
      /\ op'[a] = p /\ \A b \in Actors \ {a} : op'[b] = op[b]
  BY <1>1, <1>4, WorkStep
<1>6. TypeOK'
  BY <1>1, <1>3, <1>5, BatchType
<1>7. Shape(a)'
  BY <1>1, <1>2, <1>3, <1>4, <1>5 DEF Shape, SurfaceSteps, RevokerSteps, ShipSteps, Shipped
<1>8. Gate'
  BY <1>1, <1>4, <1>5, GateStays DEF IInv, outside, Actors
<1>9. ASSUME NEW r \in Requests \ torn, Life(op[a], r) PROVE Life(op[a], r)'
  <2>1. UNCHANGED <<prompts, answer, rows, sent, tracked>>
    BY <1>1 DEF outside, chainVars
  <2>2. AtPrompt(op[a], r)' /\ InBatch(op[a], r)'
    BY <1>1, <1>2, <1>3, <1>4, <1>5, <1>9, <2>1 DEF Life, AtPrompt, InBatch, Shipped, Unsent
  <2>3. r \in op[a].going => r \notin prompts /\ Unsent(r) /\ answer[r] = "none"
    BY <1>1, <1>2, <1>9 DEF Life, AtPrompt, InBatch, Shipped
  <2>4. Dropped(op[a], r)'
    BY <1>4, <1>5, <2>1, <2>3 DEF Dropped, Unsent
  <2>5. Settled(op[a], r)'
    BY <1>1, <1>2, <1>3, <1>4, <1>5, <1>9, <2>1 DEF Life, Settled, Unsent
  <2> QED
    BY <1>4, <1>5, <2>2, <2>4, <2>5 DEF Life, Failing, Shipping, Shipped
<1> QED
  BY <1>1, <1>5, <1>6, <1>7, <1>8, <1>9, AloneStep DEF outside, bounds

\* The confirmation told everyone: the batch is empty again.
LEMMA ClearInv ==
  ASSUME IInv, NEW s \in Surfaces, Clear(s)
  PROVE  IInv'
<1>1. /\ s \in Actors /\ s # Revoker /\ TypeOK /\ Owned /\ Busy(s) /\ Alone(s)
      /\ op[s].pc = "publish" /\ op[s].todo = {} /\ batch' = <<>> /\ Return(s)
      /\ tracked' = IF op[s].outcome = "pending" THEN tracked \union {Len(rows)} ELSE tracked
      /\ UNCHANGED <<prompts, answer, permission, gateVars, chainVars, bounds>>
  BY SurfaceAlone DEF IInv, Clear, At
<1>2. op'[s] = IdleOp /\ (\A b \in Actors \ {s} : op'[b] = op[b]) /\ op' \in [Actors -> OpType]
  BY <1>1, IdleFields DEF Return, Update, TypeOK
<1>3. Owned' /\ ClaimsTypeOK'
  BY <1>1, OwnedReturn
<1>4. /\ op[s].outcome \in {"failed"} \union Shipped /\ op[s].pc \in ShipSteps
      /\ op[s].outcome = "failed" => ToSet(batch) \subseteq ToSet(op[s].read)
      /\ op[s].outcome \in Shipped =>
           /\ op[s].read = batch /\ rows # <<>> /\ rows[Len(rows)].calls = ToSet(op[s].read)
           /\ rows[Len(rows)].status = RowOfOutcome[op[s].outcome]
  <2>1. op[s].outcome \in {"none", "failed", "pending", "success", "reverted"}
    BY <1>1 DEF TypeOK, OpType
  <2>2. op[s].outcome # "none"
    BY <1>1 DEF IInv, Shape, ShipSteps
  <2> QED
    BY <1>1, <2>1, <2>2 DEF IInv, Shape, ShipSteps, Shipped
<1>5. TypeOK'
  <2>1. rows # <<>> => Len(rows) \in 1..Len(rows)
    BY <1>1 DEF TypeOK
  <2>2. tracked' \subseteq 1..Len(rows)
    BY <1>1, <1>4, <2>1 DEF TypeOK, Shipped
  <2>3. <<>> \in Seq(Requests)
    OBVIOUS
  <2> QED
    BY <1>1, <1>2, <1>3, <2>2, <2>3 DEF TypeOK, gateVars, chainVars, bounds
<1>6. Shape(s)'
  BY <1>1, <1>2, IdleFields DEF Shape, SurfaceSteps, ShipSteps, Shipped
<1>7. Gate'
  BY <1>1, <1>2, IdleFields, GateStays DEF IInv, Actors
<1>8. ASSUME NEW r \in Requests \ torn, Life(op[s], r) PROVE Life(op[s], r)'
  <2>1. UNCHANGED <<prompts, answer, rows, sent>> /\ ToSet(batch') = {}
    BY <1>1 DEF chainVars, ToSet
  <2>2. AtPrompt(op[s], r)' /\ InBatch(op[s], r)'
    BY <1>8, <2>1 DEF Life, AtPrompt, InBatch, Unsent
  <2>3. r \in ToSet(batch) => answer[r] # "none"
    BY <1>1, <1>4, <1>8 DEF Life, Failing, Shipping, ToldOf, Told, Shipped
  <2>4. ASSUME NEW i \in tracked', r \in rows[i].calls \intersect Bundles
        PROVE  answer[r] = "submitted"
    <3>1. CASE i \in tracked
      BY <1>8, <2>4, <3>1 DEF Life, Settled
    <3>2. CASE i \notin tracked
      <4>1. op[s].outcome = "pending" /\ i = Len(rows)
        BY <1>1, <2>4, <3>2
      <4>2. r \in ToSet(op[s].read)
        BY <1>4, <2>4, <4>1 DEF Shipped
      <4> QED
        BY <1>1, <1>8, <2>4, <4>1, <4>2 DEF Life, Shipping, ToldOf, Told, Shipped
    <3> QED
      BY <3>1, <3>2
  <2>5. Settled(op[s], r)'
    BY <1>1, <1>2, <1>8, <2>1, <2>3, <2>4 DEF Life, Settled, Unsent
  <2> QED
    BY <1>2, <2>2, <2>5, IdleFields DEF Life, Dropped, Failing, Shipping, Shipped
<1> QED
  BY <1>1, <1>2, <1>3, <1>5, <1>6, <1>7, <1>8, AloneStep DEF bounds

-----------------------------------------------------------------------------
(* Steps that write the prompts                                              *)

\* The moved request is in the batch, its prompt goes.
LEMMA AddRemoveInv ==
  ASSUME IInv, NEW s \in Surfaces, AddRemove(s)
  PROVE  IInv'
<1>1. /\ s \in Actors /\ s # Revoker /\ TypeOK /\ Owned /\ Busy(s) /\ Alone(s)
      /\ op[s].pc = "addRemove" /\ UNCHANGED <<batch, answer, outside>> /\ Return(s)
      /\ prompts' = prompts \ op[s].going
  BY SurfaceAlone DEF IInv, AddRemove, At
<1>2. op[s].going \subseteq ToSet(batch) /\ op[s].todo = {} /\ op[s].outcome = "none"
  BY <1>1 DEF IInv, Shape, ShipSteps
<1>3. op'[s] = IdleOp /\ (\A b \in Actors \ {s} : op'[b] = op[b]) /\ op' \in [Actors -> OpType]
  BY <1>1, IdleFields DEF Return, Update, TypeOK
<1>4. Owned' /\ ClaimsTypeOK'
  BY <1>1, OwnedReturn
<1>5. TypeOK'
  BY <1>1, <1>3, <1>4 DEF TypeOK, outside, gateVars, chainVars, bounds
<1>6. Shape(s)'
  BY <1>1, <1>3, IdleFields DEF Shape, SurfaceSteps, ShipSteps, Shipped
<1>7. Gate'
  BY <1>1, <1>3, IdleFields, GateStays DEF IInv, outside, Actors
<1>8. ASSUME NEW r \in Requests \ torn, Life(op[s], r) PROVE Life(op[s], r)'
  <2>1. UNCHANGED <<batch, answer, rows, sent, tracked>>
    BY <1>1 DEF outside, chainVars
  <2>2. AtPrompt(op[s], r)' /\ InBatch(op[s], r)'
    BY <1>1, <1>2, <1>3, <1>8, <2>1, IdleFields DEF Life, AtPrompt, InBatch, Shipped, Unsent, Once
  <2>3. Settled(op[s], r)'
    BY <1>1, <1>2, <1>3, <1>8, <2>1, IdleFields DEF Life, Settled, Unsent
  <2> QED
    BY <1>3, <2>2, <2>3, IdleFields DEF Life, Dropped, Failing, Shipping, Shipped
<1> QED
  BY <1>1, <1>3, <1>4, <1>5, <1>6, <1>7, <1>8, AloneStep DEF outside, bounds

\* Prompts that nobody moves are decided, whoever works on the batch.
LEMMA GoneUnmoved ==
  ASSUME IInv, NEW gone \in SUBSET prompts, \A r \in gone : claims[r] = None, NEW a \in Actors
  PROVE  op[a].pc \in {"addSet", "addRemove"} => op[a].going \intersect gone = {}
<1>1. a = Revoker => op[a].pc \notin {"addSet", "addRemove"}
  BY DEF IInv, Shape, RevokerSteps
<1>2. gone \subseteq Requests /\ Owned
  BY DEF IInv, TypeOK
<1>3. \A r \in gone : ~Moves(a, r)
  BY <1>2, Names DEF Owned
<1> QED
  BY <1>1, <1>3 DEF Moves

LEMMA GoneLife ==
  ASSUME IInv, NEW gone \in SUBSET prompts, \A r \in gone : claims[r] = None,
         NEW a \in Actors, Alone(a), NEW o, o = op[a],
         prompts' = prompts \ gone, UNCHANGED <<batch, rows, tracked>>,
         \A r \in Requests \ gone : sent'[r] = sent[r] /\ answer'[r] = answer[r],
         \A r \in gone : \/ answer'[r] = "failed" /\ sent'[r] = sent[r]
                         \/ answer'[r] \in {"sent", "submitted"} /\ sent'[r] = sent[r] + 1,
         NEW r \in Requests \ torn
  PROVE  Life(o, r)'
<1>1. Life(o, r)
  BY DEF IInv, Lives
<1>2. CASE r \notin gone
  BY <1>1, <1>2
     DEF Life, AtPrompt, InBatch, Settled, Dropped, Failing, Shipping, Unsent, Once, ToldOf
<1>3. CASE r \in gone
  <2>1. o.pc = "addRemove" => r \notin o.going
    BY <1>3, GoneUnmoved
  <2>2. r \in prompts /\ answer[r] = "none" /\ Unsent(r) /\ r \notin ToSet(batch) /\ r \notin prompts'
    BY <1>1, <1>3, <2>1 DEF Life, AtPrompt
  <2>3. /\ ~(o.pc \in {"dismiss", "dropAnswer"} /\ r \in o.going)
        /\ ~(o.outcome = "failed" /\ r \in ToSet(o.read))
        /\ ~(o.outcome \in Shipped /\ r \in ToSet(o.read))
    BY <1>1, <2>2 DEF Life, Dropped, Failing, Shipping
  <2>4. Dropped(o, r)' /\ Failing(o, r)' /\ Shipping(o, r)'
    BY <2>3 DEF Dropped, Failing, Shipping
  <2>5. AtPrompt(o, r)' /\ InBatch(o, r)'
    BY <2>2 DEF AtPrompt, InBatch
  <2>6. sent[r] = 0 /\ \A i \in 1..Len(rows) : r \notin rows[i].calls
    BY <2>2 DEF Unsent
  <2>7. tracked \subseteq 1..Len(rows)
    BY DEF IInv, TypeOK
  <2>8. Settled(o, r)'
    BY <1>3, <2>6, <2>7 DEF Settled, Unsent
  <2> QED
    BY <2>4, <2>5, <2>8 DEF Life
<1> QED
  BY <1>2, <1>3

LEMMA PromptGone ==
  ASSUME IInv, NEW gone \in SUBSET prompts, \A r \in gone : claims[r] = None,
         prompts' = prompts \ gone,
         UNCHANGED <<claimVars, batch, permission, gateVars, rows, tracked, op, bounds>>,
         sent' \in [Requests -> Nat], answer' \in [Requests -> Answers],
         \A r \in Requests \ gone : sent'[r] = sent[r] /\ answer'[r] = answer[r],
         \A r \in gone : \/ answer'[r] = "failed" /\ sent'[r] = sent[r]
                         \/ answer'[r] \in {"sent", "submitted"} /\ sent'[r] = sent[r] + 1
  PROVE  IInv'
<1>1. TypeOK /\ Owned
  BY DEF IInv
<1>2. TypeOK'
  BY <1>1 DEF TypeOK, ClaimsTypeOK, claimVars, gateVars, bounds
<1>3. \A a \in Actors : (Busy(a)' <=> Busy(a)) /\ \A r \in Requests : Moves(a, r)' <=> Moves(a, r)
  BY DEF Busy, Moves
<1>4. Owned'
  BY <1>1, <1>3, OwnedStays
<1>5. Gate'
  BY GateStays DEF IInv, gateVars
<1>6. ASSUME NEW a \in Actors PROVE Shape(a)'
  <2>1. op[a].pc = "addSet" => op[a].going \intersect gone = {}
    BY GoneUnmoved
  <2> QED
    BY <2>1 DEF IInv, Shape
<1>7. PICK a \in Actors : Alone(a)
  BY <1>1, SomeoneAlone
<1>8. Alone(a)'
  BY <1>3, <1>7 DEF Alone
<1>9. \A r \in Requests \ torn' : Life(op[a], r)'
  <2>1. PICK o : o = op[a]
    OBVIOUS
  <2>2. op'[a] = o /\ torn' = torn
    BY <2>1 DEF bounds
  <2>3. \A r \in Requests \ torn : Life(o, r)'
    BY <1>7, <2>1, GoneLife
  <2> QED
    BY <2>2, <2>3
       DEF Life, AtPrompt, InBatch, Settled, Dropped, Failing, Shipping, Unsent, Once, ToldOf
<1> QED
  BY <1>2, <1>4, <1>5, <1>6, <1>8, <1>9, Frame

LEMMA DirectConfirmInv ==
  ASSUME IInv, NEW s \in Surfaces, NEW r \in Requests, DirectConfirm(s, r)
  PROVE  IInv'
<1>1. sent \in [Requests -> Nat] /\ answer \in [Requests -> Answers]
  BY DEF IInv, TypeOK
<1>2. /\ sent' \in [Requests -> Nat] /\ answer' \in [Requests -> Answers]
      /\ \A q \in Requests \ {r} : sent'[q] = sent[q] /\ answer'[q] = answer[q]
      /\ answer'[r] \in {"sent", "submitted"} /\ sent'[r] = sent[r] + 1
  BY <1>1 DEF DirectConfirm, Answer, Answers
<1>3. /\ {r} \in SUBSET prompts /\ claims[r] = None /\ prompts' = prompts \ {r}
      /\ UNCHANGED <<claimVars, batch, permission, gateVars, rows, tracked, op, bounds>>
  BY DEF DirectConfirm, CanResolve
<1> QED
  BY <1>2, <1>3, PromptGone

LEMMA DirectRejectInv ==
  ASSUME IInv, NEW s \in Surfaces, NEW r \in Requests, DirectReject(s, r)
  PROVE  IInv'
<1>1. sent \in [Requests -> Nat] /\ answer \in [Requests -> Answers]
  BY DEF IInv, TypeOK
<1>2. /\ sent' \in [Requests -> Nat] /\ answer' \in [Requests -> Answers]
      /\ \A q \in Requests : sent'[q] = sent[q] /\ (q # r => answer'[q] = answer[q])
      /\ answer'[r] = "failed"
  BY <1>1 DEF DirectReject, Answer, Answers, outside, chainVars
<1>3. /\ {r} \in SUBSET prompts /\ claims[r] = None /\ prompts' = prompts \ {r}
      /\ UNCHANGED <<claimVars, batch, permission, gateVars, rows, tracked, op, bounds>>
  BY DEF DirectReject, CanResolve, outside, chainVars
<1> QED
  BY <1>2, <1>3, PromptGone

-----------------------------------------------------------------------------
(* Steps that answer a request                                               *)

\* The actor at work answers one request of its list.
LEMMA TellInv ==
  ASSUME IInv, NEW a \in Actors, Busy(a), op[a].pc \notin {"addSet", "addRemove"},
         NEW r \in Requests, r \in op[a].todo, NEW v \in Answers, Answer(r, v),
         Update(a, [op[a] EXCEPT !.todo = @ \ {r}]),
         UNCHANGED <<claimVars, prompts, batch, outside>>,
         r \notin torn /\ Life(op[a], r) => Life(op[a], r)'
  PROVE  IInv'
<1> DEFINE p == [op[a] EXCEPT !.todo = @ \ {r}]
<1>1. TypeOK /\ op[a] \in OpType
  BY DEF IInv, TypeOK
<1>2. /\ p \in OpType /\ p.pc = op[a].pc /\ p.read = op[a].read /\ p.going = op[a].going
      /\ p.outcome = op[a].outcome /\ p.bad = op[a].bad /\ p.todo = op[a].todo \ {r}
      /\ p.snap = op[a].snap /\ p.gated = op[a].gated /\ p.check = op[a].check
  BY <1>1 DEF OpType
<1>3. Update(a, p)
  OBVIOUS
<1> HIDE DEF p
<1>4. op[a].pc # "idle" /\ (a = Revoker => op[a].pc \in {"drop", "dropAnswer"})
  BY DEF Busy
<1>5. /\ Owned' /\ ClaimsTypeOK' /\ Alone(a) /\ op' \in [Actors -> OpType]
      /\ op'[a] = p /\ \A b \in Actors \ {a} : op'[b] = op[b]
  BY <1>2, <1>3, <1>4, WorkStep
<1>6. /\ answer' \in [Requests -> Answers] /\ answer'[r] = v
      /\ \A q \in Requests \ {r} : answer'[q] = answer[q]
  BY <1>1 DEF Answer, TypeOK
<1>7. UNCHANGED <<prompts, batch, rows, sent, tracked, torn>>
  BY DEF outside, chainVars, bounds
<1>8. TypeOK'
  BY <1>1, <1>5, <1>6 DEF TypeOK, outside, gateVars, chainVars, bounds
<1>9. Shape(a)'
  BY <1>2, <1>5, <1>7 DEF IInv, Shape, Shipped
<1>10. Gate'
  <2>1. op[a].pc # "validate"
    BY DEF IInv, Shape, ShipSteps
  <2> QED
    BY <1>2, <1>4, <1>5, <2>1, GateStays DEF IInv, outside, Actors
<1>11. ASSUME NEW q \in Requests \ torn, Life(op[a], q) PROVE Life(op[a], q)'
  <2>1. CASE q = r
    BY <1>11, <2>1
  <2>2. CASE q # r
    <3>1. answer'[q] = answer[q] /\ (q \in p.todo <=> q \in op[a].todo)
      BY <1>2, <1>6, <2>2
    <3> QED
      BY <1>2, <1>5, <1>7, <1>11, <3>1
         DEF Life, AtPrompt, InBatch, Settled, Dropped, Failing, Shipping, Unsent, Once, ToldOf
  <2> QED
    BY <2>1, <2>2
<1> QED
  BY <1>5, <1>7, <1>8, <1>9, <1>10, <1>11, AloneStep

\* The fields of the call that answers, and what stays.
LEMMA TellFields ==
  ASSUME IInv, NEW a \in Actors, NEW r, Update(a, [op[a] EXCEPT !.todo = @ \ {r}])
  PROVE  /\ op'[a].pc = op[a].pc /\ op'[a].read = op[a].read /\ op'[a].going = op[a].going
         /\ op'[a].outcome = op[a].outcome /\ op'[a].todo = op[a].todo \ {r}
<1>1. op \in [Actors -> OpType]
  BY DEF IInv, TypeOK
<1> QED
  BY <1>1 DEF Update, OpType

\* A dropped or dismissed request is told a failure.
LEMMA RefuseInv ==
  ASSUME IInv, NEW a \in Actors, Busy(a), op[a].pc \in {"dismiss", "dropAnswer"},
         NEW r \in Requests, r \in op[a].todo, Answer(r, "failed"),
         Update(a, [op[a] EXCEPT !.todo = @ \ {r}]),
         UNCHANGED <<claimVars, prompts, batch, outside>>
  PROVE  IInv'
<1>1. r \in op[a].going /\ op[a].outcome = "none"
  BY DEF IInv, Shape, ShipSteps
<1>2. /\ answer'[r] = "failed" /\ UNCHANGED <<prompts, batch, rows, sent, tracked>>
      /\ tracked \subseteq 1..Len(rows)
      /\ op'[a].pc = op[a].pc /\ op'[a].read = op[a].read /\ op'[a].going = op[a].going
      /\ op'[a].outcome = op[a].outcome /\ op'[a].todo = op[a].todo \ {r}
  BY TellFields DEF IInv, TypeOK, Answer, outside, chainVars
<1>3. ASSUME Life(op[a], r) PROVE Life(op[a], r)'
  <2>1. r \notin prompts /\ Unsent(r)
    BY <1>1, <1>3 DEF Life, Dropped
  <2>2. AtPrompt(op[a], r)' /\ Dropped(op[a], r)' /\ Failing(op[a], r)' /\ Shipping(op[a], r)'
    BY <1>1, <1>2, <2>1 DEF AtPrompt, Dropped, Failing, Shipping, Shipped, Unsent
  <2>3. InBatch(op[a], r)'
    <3>1. op[a].pc = "dismiss" \/ r \notin ToSet(batch)
      BY <1>1 DEF IInv, Shape
    <3> QED
      BY <1>1, <1>2, <1>3, <2>1, <3>1 DEF Life, InBatch, Unsent, Once
  <2>4. Settled(op[a], r)'
    BY <1>2, <1>3, <2>1 DEF Life, Settled, Unsent
  <2> QED
    BY <2>2, <2>3, <2>4 DEF Life
<1>4. "failed" \in Answers
  BY DEF Answers
<1> QED
  BY <1>3, <1>4, TellInv

LEMMA DismissAnswerInv ==
  ASSUME IInv, NEW s \in Surfaces, NEW r \in Requests, DismissAnswer(s, r)
  PROVE  IInv'
BY SurfaceAlone, RefuseInv DEF DismissAnswer, At

LEMMA DropAnswerInv ==
  ASSUME IInv, NEW a \in Actors, NEW r \in Requests, DropAnswer(a, r)
  PROVE  IInv'
BY RefuseInv DEF DropAnswer, At, Busy

LEMMA PublishHashInv ==
  ASSUME IInv, NEW s \in Surfaces, NEW r \in Requests, PublishHash(s, r)
  PROVE  IInv'
<1>1. /\ s \in Actors /\ s # Revoker /\ Busy(s) /\ op[s].pc = "results" /\ r \in op[s].todo
      /\ r \notin Bundles /\ Answer(r, "sent") /\ Update(s, [op[s] EXCEPT !.todo = @ \ {r}])
      /\ UNCHANGED <<claimVars, prompts, batch, outside>>
  BY SurfaceAlone DEF PublishHash, At
<1>2. op[s].outcome \in Shipped /\ op[s].outcome # "reverted" /\ r \in ToSet(op[s].read)
  <2>1. op[s].outcome \in {"none", "failed", "pending", "success", "reverted"}
    BY <1>1 DEF IInv, TypeOK, OpType
  <2> QED
    BY <1>1, <2>1 DEF IInv, Shape, ShipSteps, Shipped
<1>3. /\ answer'[r] = "sent" /\ UNCHANGED <<prompts, batch, rows, sent, tracked>>
      /\ op'[s].pc = op[s].pc /\ op'[s].read = op[s].read /\ op'[s].going = op[s].going
      /\ op'[s].outcome = op[s].outcome /\ op'[s].todo = op[s].todo \ {r}
  BY <1>1, TellFields DEF IInv, TypeOK, Answer, outside, chainVars
<1>4. ASSUME Life(op[s], r) PROVE Life(op[s], r)'
  <2>1. /\ r \notin prompts /\ sent[r] = 1
        /\ \A i \in 1..Len(rows) - 1 : r \notin rows[i].calls
    BY <1>2, <1>4 DEF Life, Shipping
  <2>2. AtPrompt(op[s], r)' /\ InBatch(op[s], r)' /\ Dropped(op[s], r)' /\ Failing(op[s], r)'
    BY <1>1, <1>2, <1>3, <1>4, <2>1
       DEF Life, AtPrompt, InBatch, Dropped, Failing, Shipped, Unsent, Once
  <2>3. Shipping(op[s], r)'
    BY <1>1, <1>2, <1>3, <2>1 DEF Shipping, ToldOf, Shipped
  <2>4. Settled(op[s], r)'
    BY <1>1, <1>3, <1>4 DEF Life, Settled, Unsent
  <2> QED
    BY <2>2, <2>3, <2>4 DEF Life
<1>5. "sent" \in Answers
  BY DEF Answers
<1> QED
  BY <1>1, <1>4, <1>5, TellInv

LEMMA FanOutInv ==
  ASSUME IInv, NEW s \in Surfaces, NEW r \in Requests, FanOut(s, r)
  PROVE  IInv'
<1>1. /\ s \in Actors /\ s # Revoker /\ Busy(s) /\ op[s].pc = "publish" /\ r \in op[s].todo
      /\ Answer(r, Told(op[s].outcome)) /\ Update(s, [op[s] EXCEPT !.todo = @ \ {r}])
      /\ UNCHANGED <<claimVars, prompts, batch, outside>>
  BY SurfaceAlone DEF FanOut, At
<1>2. /\ op[s].outcome = "failed" \/ op[s].outcome \in Shipped
      /\ r \in ToSet(op[s].read) /\ Told(op[s].outcome) \in Answers
      /\ op[s].outcome \in Shipped =>
           /\ rows # <<>> /\ Len(rows) \notin tracked /\ rows[Len(rows)].calls = ToSet(op[s].read)
           /\ rows[Len(rows)].status = RowOfOutcome[op[s].outcome]
  <2>1. op[s].outcome \in {"none", "failed", "pending", "success", "reverted"}
    BY <1>1 DEF IInv, TypeOK, OpType
  <2> QED
    BY <1>1, <2>1 DEF IInv, Shape, ShipSteps, Shipped, Told, Answers
<1>3. /\ answer'[r] = Told(op[s].outcome) /\ UNCHANGED <<prompts, batch, rows, sent, tracked>>
      /\ tracked \subseteq 1..Len(rows) /\ rows \in Seq(RowType)
      /\ op'[s].pc = op[s].pc /\ op'[s].read = op[s].read /\ op'[s].going = op[s].going
      /\ op'[s].outcome = op[s].outcome /\ op'[s].todo = op[s].todo \ {r}
  BY <1>1, TellFields DEF IInv, TypeOK, Answer, outside, chainVars
<1>4. ASSUME Life(op[s], r) PROVE Life(op[s], r)'
  <2>1. CASE op[s].outcome = "failed"
    <3>1. r \notin prompts /\ Unsent(r) /\ answer'[r] = "failed"
      BY <1>2, <1>3, <1>4, <2>1 DEF Life, Failing, Told
    <3>2. AtPrompt(op[s], r)' /\ InBatch(op[s], r)' /\ Dropped(op[s], r)' /\ Failing(op[s], r)'
      BY <1>1, <1>3, <1>4, <2>1, <3>1
         DEF Life, AtPrompt, InBatch, Dropped, Failing, Shipped, Unsent, Once
    <3>3. Shipping(op[s], r)'
      BY <1>3, <2>1 DEF Shipping, Shipped
    <3>4. Settled(op[s], r)'
      BY <1>1, <1>3, <1>4, <3>1 DEF Life, Settled, Unsent
    <3> QED
      BY <3>2, <3>3, <3>4 DEF Life
  <2>2. CASE op[s].outcome \in Shipped
    <3>1. /\ r \notin prompts /\ sent[r] = 1 /\ r \in rows[Len(rows)].calls
          /\ \A i \in 1..Len(rows) - 1 : r \notin rows[i].calls
          /\ op[s].outcome # "reverted" => r \in Bundles
      BY <1>1, <1>2, <1>4, <2>2 DEF Life, Shipping
    <3>2. AtPrompt(op[s], r)' /\ InBatch(op[s], r)' /\ Dropped(op[s], r)' /\ Failing(op[s], r)'
      BY <1>1, <1>3, <1>4, <2>2, <3>1
         DEF Life, AtPrompt, InBatch, Dropped, Failing, Shipped, Unsent, Once
    <3>3. Shipping(op[s], r)'
      BY <1>1, <1>2, <1>3, <2>2, <3>1 DEF Shipping, ToldOf, Shipped
    <3>4. /\ Len(rows) \in 1..Len(rows)
          /\ \A i \in 1..Len(rows) : i = Len(rows) \/ i \in 1..Len(rows) - 1
      BY <1>2, <1>3, <2>2
    <3>5. /\ answer'[r] # "failed" /\ answer'[r] # "none"
          /\ answer'[r] = "confirmed" => rows[Len(rows)].status = "success"
          /\ answer'[r] = "reverted" => rows[Len(rows)].status = "failed"
      BY <1>2, <1>3, <2>2 DEF Told, Shipped, RowOfOutcome
    <3>6. \A i \in tracked : r \notin rows[i].calls
      BY <1>2, <1>3, <2>2, <3>1, <3>4
    <3>7. Settled(op[s], r)'
      BY <1>1, <1>3, <1>4, <3>1, <3>4, <3>5, <3>6 DEF Life, Settled, Unsent
    <3> QED
      BY <3>2, <3>3, <3>7 DEF Life
  <2> QED
    BY <1>2, <2>1, <2>2
<1> QED
  BY <1>1, <1>2, <1>4, TellInv

-----------------------------------------------------------------------------
(* Steps that write the rows                                                 *)

LEMMA HowManyTimes ==
  ASSUME NEW entries \in Seq(Requests), NEW r
  PROVE  /\ Times(r, entries) \in Nat
         /\ r \notin ToSet(entries) => Times(r, entries) = 0
         /\ r \in ToSet(entries) /\ Once(r, entries) => Times(r, entries) = 1
<1> DEFINE places == {i \in 1..Len(entries) : entries[i] = r}
<1>1. IsFiniteSet(places)
  <2>1. IsFiniteSet(1..Len(entries))
    BY FS_Interval
  <2> QED
    BY <2>1, FS_Subset
<1>2. Cardinality(places) \in Nat
  BY <1>1, FS_CardinalityType
<1>3. r \notin ToSet(entries) => places = {}
  BY DEF ToSet
<1>4. ASSUME r \in ToSet(entries), Once(r, entries) PROVE Cardinality(places) = 1
  <2>1. PICK i \in 1..Len(entries) : entries[i] = r
    BY <1>4 DEF ToSet
  <2>2. places = {i}
    BY <1>4, <2>1 DEF Once
  <2> QED
    BY <2>2, FS_Singleton
<1> QED
  BY <1>2, <1>3, <1>4, FS_EmptySet DEF Times

LEMMA BroadcastInv ==
  ASSUME IInv, NEW s \in Surfaces, NEW outcome \in Shipped, Broadcast(s, outcome)
  PROVE  IInv'
<1> DEFINE all == ToSet(op[s].read)
<1> DEFINE row == [calls |-> all, status |-> "processing"]
<1> DEFINE pc == IF outcome = "reverted" THEN "history" ELSE "results"
<1> DEFINE base == Step(s, pc)
<1> DEFINE p == [base EXCEPT !.outcome = outcome, !.todo = all]
<1>1. /\ s \in Actors /\ s # Revoker /\ TypeOK /\ Busy(s) /\ op[s].pc = "validate"
      /\ UNCHANGED claimVars /\ UNCHANGED <<storageVars, gateVars, tracked, bounds>>
      /\ Update(s, p) /\ rows' = Append(rows, row) /\ Len(rows) < MaxSends
      /\ sent' = [r \in Requests |-> sent[r] + Times(r, op[s].read)]
  BY SurfaceAlone DEF IInv, Broadcast, At
<1>2. /\ op[s].read = batch /\ Calm(op[s]) /\ batch \in Seq(Requests) /\ all \subseteq Requests
      /\ rows \in Seq(RowType) /\ tracked \subseteq 1..Len(rows) /\ Len(rows) \in Nat
      /\ sent \in [Requests -> Nat]
  <2>1. op[s].read = batch /\ Calm(op[s]) /\ batch \in Seq(Requests)
    BY <1>1 DEF IInv, Shape, Calm, ShipSteps, TypeOK
  <2>2. all \subseteq Requests
    BY <2>1 DEF ToSet
  <2> QED
    BY <1>1, <2>1, <2>2 DEF TypeOK
<1>3. /\ base \in OpType /\ base.pc = pc /\ base.read = op[s].read
  BY <1>1, StepFields
<1>4. row \in RowType /\ row.calls = all /\ row.status = "processing"
  BY <1>2 DEF RowType
<1> HIDE DEF base, all, row
<1>5. /\ p \in OpType /\ p.pc = pc /\ p.read = op[s].read /\ p.todo = all /\ p.outcome = outcome
  BY <1>2, <1>3 DEF OpType, Shipped
<1> HIDE DEF p
<1>6. pc \in {"history", "results"} /\ (pc = "history" <=> outcome = "reverted")
  OBVIOUS
<1> HIDE DEF pc
<1>7. /\ Owned' /\ ClaimsTypeOK' /\ Alone(s) /\ op' \in [Actors -> OpType]
      /\ op'[s] = p /\ \A b \in Actors \ {s} : op'[b] = op[b]
  BY <1>1, <1>5, <1>6, WorkStep
<1>8. /\ Len(rows') = Len(rows) + 1 /\ rows'[Len(rows')] = row /\ rows' \in Seq(RowType)
      /\ \A i \in 1..Len(rows) : rows'[i] = rows[i]
      /\ rows' # <<>>
  BY <1>1, <1>2, <1>4
<1>9. TypeOK'
  <2>1. sent' \in [Requests -> Nat]
    BY <1>1, <1>2, HowManyTimes
  <2>2. Len(rows') <= MaxSends /\ tracked' \subseteq 1..Len(rows')
    BY <1>1, <1>2, <1>8, Names
  <2> QED
    BY <1>1, <1>7, <1>8, <2>1, <2>2 DEF TypeOK, storageVars, gateVars, bounds
<1>10. Shape(s)'
  <2>1. Len(rows') \notin tracked'
    BY <1>1, <1>2, <1>8
  <2>2. op'[s].read = batch' /\ ToSet(op'[s].read) = all
    BY <1>1, <1>2, <1>5, <1>7 DEF storageVars, all
  <2> QED
    BY <1>1, <1>4, <1>5, <1>6, <1>7, <1>8, <2>1, <2>2 DEF Shape, SurfaceSteps, ShipSteps, Shipped
<1>11. Gate'
  BY <1>1, <1>5, <1>6, <1>7, GateStays DEF IInv, storageVars, Actors
<1>12. ASSUME NEW r \in Requests \ torn, Life(op[s], r) PROVE Life(op[s], r)'
  <2>1. UNCHANGED <<prompts, batch, answer, tracked>>
    BY <1>1 DEF storageVars
  <2>2. \A i \in 1..Len(rows') : i \in 1..Len(rows) \/ i = Len(rows')
    BY <1>2, <1>8
  <2>3. CASE r \in all
    <3>1. r \in ToSet(batch) /\ r \in ToSet(op[s].read)
      BY <1>2, <2>3 DEF all
    <3>2. answer[r] = "none" /\ Unsent(r) /\ Once(r, batch) /\ r \notin prompts
      BY <1>1, <1>2, <1>12, <3>1 DEF Life, AtPrompt, InBatch, Calm, Shipped
    <3>3. sent'[r] = 1
      BY <1>1, <1>2, <3>1, <3>2, HowManyTimes DEF Unsent
    <3>4. \A i \in 1..Len(rows') - 1 : r \notin rows'[i].calls
      BY <1>2, <1>8, <3>2 DEF Unsent
    <3>5. AtPrompt(op[s], r)' /\ Dropped(op[s], r)' /\ Failing(op[s], r)'
      BY <1>5, <1>6, <1>7, <2>1, <3>2 DEF AtPrompt, Dropped, Failing, Shipped
    <3>6. InBatch(op[s], r)'
      BY <1>5, <1>7, <2>1, <3>2 DEF InBatch, Once
    <3>7. Shipping(op[s], r)'
      BY <1>5, <1>6, <1>7, <2>1, <2>3, <3>2, <3>3, <3>4 DEF Shipping, Shipped
    <3>8. \A i \in 1..Len(rows') : r \in rows'[i].calls => i = Len(rows')
      BY <1>8, <2>2, <3>2 DEF Unsent
    <3>9. \A i \in tracked : r \notin rows'[i].calls
      BY <1>2, <1>8, <3>2 DEF Unsent
    <3>10. Settled(op[s], r)'
      BY <2>1, <3>1, <3>2, <3>3, <3>8, <3>9 DEF Settled
    <3> QED
      BY <3>5, <3>6, <3>7, <3>10 DEF Life
  <2>4. CASE r \notin all
    <3>1. r \notin ToSet(batch) /\ sent'[r] = sent[r]
      <4>1. r \notin ToSet(batch)
        BY <1>2, <2>4 DEF all
      <4> QED
        BY <1>1, <1>2, <4>1, HowManyTimes
    <3>2. \A i \in 1..Len(rows') : r \in rows'[i].calls =>
            i \in 1..Len(rows) /\ rows'[i] = rows[i]
      BY <1>4, <1>8, <2>2, <2>4
    <3>3. Unsent(r) => Unsent(r)'
      BY <3>1, <3>2 DEF Unsent
    <3>4. AtPrompt(op[s], r)' /\ InBatch(op[s], r)'
      BY <1>1, <1>12, <2>1, <3>1, <3>3 DEF Life, AtPrompt, InBatch
    <3>5. Dropped(op[s], r)' /\ Failing(op[s], r)' /\ Shipping(op[s], r)'
      BY <1>2, <1>5, <1>6, <1>7, <2>4 DEF Dropped, Failing, Shipping, Shipped, all
    <3>6. /\ sent'[r] <= 1 /\ (answer'[r] = "failed" => Unsent(r)')
          /\ answer'[r] = "none" => r \in prompts' \union ToSet(batch') \union op'[s].todo
      BY <1>2, <1>12, <2>1, <3>1, <3>3 DEF Life, Settled, Calm
    <3>7. \A i, j \in 1..Len(rows') : r \in rows'[i].calls /\ r \in rows'[j].calls => i = j
      BY <1>12, <3>2 DEF Life, Settled
    <3>8. \A i \in tracked' : r \in rows'[i].calls \intersect Bundles => answer'[r] = "submitted"
      BY <1>2, <1>8, <1>12, <2>1 DEF Life, Settled
    <3>9. \A i \in 1..Len(rows) : i \in 1..Len(rows') /\ rows'[i] = rows[i]
      BY <1>2, <1>8
    <3>10. /\ answer'[r] = "confirmed" =>
                \E i \in 1..Len(rows') : r \in rows'[i].calls /\ rows'[i].status = "success"
           /\ answer'[r] = "reverted" =>
                \E i \in 1..Len(rows') : r \in rows'[i].calls /\ rows'[i].status = "failed"
      BY <1>12, <2>1, <3>9 DEF Life, Settled
    <3>11. Settled(op[s], r)'
      BY <3>6, <3>7, <3>8, <3>10 DEF Settled
    <3> QED
      BY <3>4, <3>5, <3>11 DEF Life
  <2> QED
    BY <2>3, <2>4
<1> QED
  BY <1>1, <1>7, <1>9, <1>10, <1>11, <1>12, AloneStep DEF bounds

\* An open row gets a status: its calls stay, and so do the settled rows.
LEMMA RowMoves ==
  ASSUME TypeOK, NEW k \in 1..Len(rows), rows[k].status \in {"processing", "pending"},
         NEW v \in {"pending", "success", "failed"}, rows' = [rows EXCEPT ![k].status = v],
         UNCHANGED <<prompts, batch, answer, sent, tracked>>
  PROVE  /\ rows' \in Seq(RowType) /\ Len(rows') = Len(rows) /\ rows'[k].status = v
         /\ \A i \in 1..Len(rows) : rows'[i].calls = rows[i].calls /\ (i # k => rows'[i] = rows[i])
         /\ \A r : Unsent(r) <=> Unsent(r)'
         /\ \A o, p, r : Settled(o, r) /\ p.todo = o.todo => Settled(p, r)'
<1>1. rows \in Seq(RowType) /\ rows[k] \in RowType /\ Len(rows) \in Nat
  BY DEF TypeOK
<1>2. [rows[k] EXCEPT !.status = v] \in RowType
  BY <1>1 DEF RowType
<1>3. rows' = [rows EXCEPT ![k] = [rows[k] EXCEPT !.status = v]]
  OBVIOUS
<1>4. /\ Len(rows') = Len(rows) /\ rows'[k] = [rows[k] EXCEPT !.status = v]
      /\ \A i \in 1..Len(rows) : i # k => rows'[i] = rows[i]
  BY <1>1, <1>3
<1>5. rows' \in Seq(RowType)
  BY <1>1, <1>2, <1>3
<1>6. rows'[k].status = v /\ rows'[k].calls = rows[k].calls
  BY <1>1, <1>4 DEF RowType
<1>7. \A i \in 1..Len(rows) : rows'[i].calls = rows[i].calls
  BY <1>4, <1>6
<1>8. \A r : Unsent(r) <=> Unsent(r)'
  BY <1>4, <1>7 DEF Unsent
<1>9. ASSUME NEW o, NEW p, NEW r, Settled(o, r), p.todo = o.todo PROVE Settled(p, r)'
  <2>1. \A i \in 1..Len(rows) : rows[i].status \in {"success", "failed"} => rows'[i] = rows[i]
    BY <1>4
  <2>2. tracked \subseteq 1..Len(rows)
    BY DEF TypeOK
  <2>3. /\ answer'[r] = "confirmed" =>
             \E i \in 1..Len(rows') : r \in rows'[i].calls /\ rows'[i].status = "success"
        /\ answer'[r] = "reverted" =>
             \E i \in 1..Len(rows') : r \in rows'[i].calls /\ rows'[i].status = "failed"
    BY <1>4, <1>9, <2>1 DEF Settled
  <2>4. /\ \A i, j \in 1..Len(rows') : r \in rows'[i].calls /\ r \in rows'[j].calls => i = j
        /\ \A i \in tracked' : r \in rows'[i].calls \intersect Bundles => answer'[r] = "submitted"
    BY <1>4, <1>7, <1>9, <2>2 DEF Settled
  <2>5. /\ sent'[r] <= 1 /\ (answer'[r] = "failed" => Unsent(r)')
        /\ answer'[r] = "none" => r \in prompts' \union ToSet(batch') \union p.todo
    BY <1>8, <1>9 DEF Settled
  <2> QED
    BY <2>3, <2>4, <2>5 DEF Settled
<1> QED
  BY <1>4, <1>5, <1>6, <1>7, <1>8, <1>9

LEMMA UpdateHistoryInv ==
  ASSUME IInv, NEW s \in Surfaces, UpdateHistory(s)
  PROVE  IInv'
<1> DEFINE o == op[s]
<1> DEFINE p == [o EXCEPT !.pc = "publish"]
<1> DEFINE k == Len(rows)
<1> DEFINE v == CASE o.outcome = "pending" -> "pending"
                  [] o.outcome = "success" -> "success"
                  [] o.outcome = "reverted" -> "failed"
<1>1. /\ s \in Actors /\ s # Revoker /\ TypeOK /\ Busy(s) /\ o.pc \in {"history", "results"}
      /\ o.pc = "results" => o.todo \subseteq Bundles
      /\ UNCHANGED claimVars /\ UNCHANGED <<storageVars, gateVars, sent, tracked, bounds>>
      /\ Update(s, p) /\ rows' = [rows EXCEPT ![k].status = v] /\ o \in OpType
  <2>1. /\ UNCHANGED claimVars /\ UNCHANGED <<storageVars, gateVars, sent, tracked, bounds>>
        /\ Update(s, p) /\ rows' = [rows EXCEPT ![k].status = v]
        /\ o.pc \in {"history", "results"} /\ (o.pc = "results" => o.todo \subseteq Bundles)
    BY DEF UpdateHistory, At
  <2> QED
    BY <2>1, SurfaceAlone DEF IInv, TypeOK
<1>2. /\ o.outcome \in Shipped /\ o.read = batch /\ rows # <<>> /\ k \notin tracked
      /\ rows[k].calls = ToSet(o.read) /\ rows[k].status = "processing"
      /\ o.pc = "history" <=> o.outcome = "reverted"
      /\ o.todo \subseteq ToSet(o.read)
  <2>1. o.outcome \in {"none", "failed", "pending", "success", "reverted"}
    BY <1>1 DEF OpType
  <2>2. o.outcome \in Shipped
    BY <1>1, <2>1 DEF IInv, Shape, ShipSteps, Shipped
  <2> QED
    BY <1>1, <2>2 DEF IInv, Shape, ShipSteps, Shipped
<1>3. v = RowOfOutcome[o.outcome] /\ v \in {"pending", "success", "failed"}
  BY <1>2 DEF Shipped, RowOfOutcome
<1> HIDE DEF v
<1>4. k \in 1..Len(rows)
  BY <1>1, <1>2 DEF TypeOK
<1>5. UNCHANGED <<prompts, batch, answer, sent, tracked>>
  BY <1>1 DEF storageVars
<1>6. /\ rows' \in Seq(RowType) /\ Len(rows') = k /\ rows'[k].status = v
      /\ \A i \in 1..k : rows'[i].calls = rows[i].calls /\ (i # k => rows'[i] = rows[i])
      /\ \A r : Unsent(r) <=> Unsent(r)'
      /\ \A x, y, r : Settled(x, r) /\ y.todo = x.todo => Settled(y, r)'
  BY <1>1, <1>2, <1>3, <1>4, <1>5, RowMoves
<1>7. /\ p \in OpType /\ p.pc = "publish" /\ p.read = o.read /\ p.todo = o.todo
      /\ p.outcome = o.outcome
  BY <1>1 DEF OpType
<1> HIDE DEF p
<1>8. /\ Owned' /\ ClaimsTypeOK' /\ Alone(s) /\ op' \in [Actors -> OpType]
      /\ op'[s] = p /\ \A b \in Actors \ {s} : op'[b] = op[b]
  BY <1>1, <1>7, WorkStep
<1>9. TypeOK'
  BY <1>1, <1>6, <1>8 DEF TypeOK, storageVars, gateVars, bounds
<1>10. Shape(s)'
  BY <1>1, <1>2, <1>3, <1>4, <1>5, <1>6, <1>7, <1>8 DEF Shape, SurfaceSteps, ShipSteps, Shipped
<1>11. Gate'
  BY <1>1, <1>7, <1>8, GateStays DEF IInv, storageVars, Actors
<1>12. ASSUME NEW r \in Requests \ torn, Life(o, r) PROVE Life(op[s], r)'
  <2>1. r \in ToSet(batch) =>
          /\ r \notin prompts /\ sent[r] = 1
          /\ \A i \in 1..k - 1 : r \notin rows[i].calls
          /\ answer[r] = IF r \in o.todo THEN "none" ELSE ToldOf(o, r)
          /\ r \notin o.todo => r \notin Bundles
    BY <1>1, <1>2, <1>12 DEF Life, Shipping
  <2>2. AtPrompt(op[s], r)' /\ InBatch(op[s], r)' /\ Dropped(op[s], r)' /\ Failing(op[s], r)'
    BY <1>1, <1>2, <1>5, <1>6, <1>7, <1>8, <1>12, <2>1
       DEF Life, AtPrompt, InBatch, Dropped, Failing, Shipped, Once
  <2>3. \A i \in 1..k - 1 : rows'[i].calls = rows[i].calls
    BY <1>4, <1>6
  <2>4. ToldOf(o, r) = ToldOf(p, r)
    BY <1>7 DEF ToldOf
  <2>5. r \in ToSet(batch) /\ o.outcome # "reverted" /\ r \in o.todo => r \in Bundles
    BY <1>1, <1>2
  <2>6. Shipping(op[s], r)'
    BY <1>2, <1>5, <1>6, <1>7, <1>8, <2>1, <2>3, <2>4, <2>5 DEF Shipping
  <2>7. Settled(o, r)
    BY <1>12 DEF Life
  <2>8. Settled(op[s], r)'
    BY <1>6, <1>7, <1>8, <2>7 DEF Settled, Unsent
  <2> QED
    BY <2>2, <2>6, <2>8 DEF Life
<1> QED
  BY <1>1, <1>8, <1>9, <1>10, <1>11, <1>12, AloneStep DEF bounds

LEMMA ReceiptInv ==
  ASSUME IInv, NEW i \in 1..Len(rows), Receipt(i)
  PROVE  IInv'
<1>1. TypeOK /\ Owned
  BY DEF IInv
<1>2. PICK v \in {"success", "failed"} : rows' = [rows EXCEPT ![i].status = v]
  BY DEF Receipt
<1>3. /\ rows[i].status = "pending" /\ Polled(i)
      /\ UNCHANGED <<claimVars, storageVars, gateVars, sent, tracked, op, bounds>>
  BY DEF Receipt
<1>4. UNCHANGED <<prompts, batch, answer, sent, tracked>>
  BY <1>3 DEF storageVars
<1>5. /\ rows' \in Seq(RowType) /\ Len(rows') = Len(rows)
      /\ \A j \in 1..Len(rows) : rows'[j].calls = rows[j].calls /\ (j # i => rows'[j] = rows[j])
      /\ \A r : Unsent(r) <=> Unsent(r)'
      /\ \A x, y, r : Settled(x, r) /\ y.todo = x.todo => Settled(y, r)'
  BY <1>1, <1>2, <1>3, <1>4, RowMoves
<1>6. TypeOK'
  BY <1>1, <1>3, <1>5 DEF TypeOK, ClaimsTypeOK, claimVars, storageVars, gateVars, bounds
<1>7. \A a \in Actors : (Busy(a)' <=> Busy(a)) /\ \A r \in Requests : Moves(a, r)' <=> Moves(a, r)
  BY <1>3 DEF Busy, Moves
<1>8. Owned'
  BY <1>1, <1>3, <1>7, OwnedStays
<1>9. Gate'
  BY <1>3, GateStays DEF IInv, storageVars, gateVars
<1>10. ASSUME NEW a \in Actors PROVE Shape(a)'
  <2>1. CASE op[a].outcome \in Shipped
    <3>1. /\ rows # <<>> /\ op[a].outcome = "pending" => i < Len(rows)
          /\ rows[Len(rows)].status =
               IF op[a].pc = "publish" THEN RowOfOutcome[op[a].outcome] ELSE "processing"
      <4>1. a \in Surfaces
        <5>1. a # Revoker
          BY <2>1 DEF IInv, Shape, RevokerSteps, ShipSteps, Shipped
        <5> QED
          BY <5>1, Names
      <4> QED
        BY <1>3, <2>1, <4>1 DEF IInv, Shape, Polled
    <3>2. Len(rows) \in 1..Len(rows)
      BY <1>1, <3>1 DEF TypeOK
    <3>3. i # Len(rows)
      BY <1>3, <2>1, <3>1, <3>2 DEF Shipped, RowOfOutcome
    <3>4. rows'[Len(rows)] = rows[Len(rows)] /\ rows' # <<>>
      BY <1>5, <3>2, <3>3
    <3> QED
      BY <1>3, <1>4, <1>5, <3>4 DEF IInv, Shape
  <2>2. CASE op[a].outcome \notin Shipped
    BY <1>3, <1>4, <2>2 DEF IInv, Shape
  <2> QED
    BY <2>1, <2>2
<1>11. PICK a \in Actors : Alone(a)
  BY <1>1, SomeoneAlone
<1>12. Alone(a)'
  BY <1>7, <1>11 DEF Alone
<1>13. ASSUME NEW r \in Requests \ torn' PROVE Life(op[a], r)'
  <2>1. Life(op[a], r) /\ UNCHANGED op
    BY <1>3, <1>11, <1>13 DEF IInv, Lives, bounds
  <2>2. AtPrompt(op[a], r)' /\ InBatch(op[a], r)' /\ Dropped(op[a], r)' /\ Failing(op[a], r)'
    BY <1>4, <1>5, <2>1 DEF Life, AtPrompt, InBatch, Dropped, Failing, Once
  <2>3. \A j \in 1..Len(rows) - 1 : rows'[j].calls = rows[j].calls
    BY <1>1, <1>5 DEF TypeOK
  <2>4. Shipping(op[a], r)'
    BY <1>4, <1>5, <2>1, <2>3 DEF Life, Shipping, ToldOf
  <2>5. Settled(op[a], r)'
    BY <1>5, <2>1 DEF Life, Settled, Unsent
  <2> QED
    BY <2>2, <2>4, <2>5 DEF Life
<1> QED
  BY <1>6, <1>8, <1>9, <1>10, <1>12, <1>13, Frame

\* The outcome of a tracked row reaches its bundles.
LEMMA TrackInv ==
  ASSUME IInv, NEW i \in 1..Len(rows), Track(i)
  PROVE  IInv'
<1>1. /\ TypeOK /\ Owned /\ i \in tracked /\ tracked' = tracked \ {i}
      /\ UNCHANGED <<claimVars, prompts, batch, permission, gateVars, chainVars, op, bounds>>
  BY DEF IInv, Track
<1>2. answer' = [r \in Requests |->
       IF r \notin rows[i].calls \intersect Bundles THEN answer[r]
       ELSE CASE rows[i].status = "success" -> "confirmed"
              [] rows[i].status = "failed" -> "reverted"
              [] OTHER -> answer[r]]
  BY DEF Track
<1>3. \A r \in Requests :
        \/ answer'[r] = answer[r]
        \/ /\ r \in rows[i].calls \intersect Bundles
           /\ \/ rows[i].status = "success" /\ answer'[r] = "confirmed"
              \/ rows[i].status = "failed" /\ answer'[r] = "reverted"
  <2>1. ASSUME NEW r \in Requests
        PROVE  \/ answer'[r] = answer[r]
               \/ /\ r \in rows[i].calls \intersect Bundles
                  /\ \/ rows[i].status = "success" /\ answer'[r] = "confirmed"
                     \/ rows[i].status = "failed" /\ answer'[r] = "reverted"
    BY <1>2
  <2> QED
    BY <2>1
<1>4. answer' \in [Requests -> Answers]
  <2>1. answer \in [Requests -> Answers]
    BY <1>1 DEF TypeOK
  <2> QED
    BY <1>2, <2>1 DEF Answers
<1>5. TypeOK'
  BY <1>1, <1>4 DEF TypeOK, ClaimsTypeOK, claimVars, gateVars, chainVars, bounds
<1>6. \A a \in Actors : (Busy(a)' <=> Busy(a)) /\ \A r \in Requests : Moves(a, r)' <=> Moves(a, r)
  BY <1>1 DEF Busy, Moves
<1>7. Owned'
  BY <1>1, <1>6, OwnedStays
<1>8. Gate'
  BY <1>1, GateStays DEF IInv
<1>9. \A a \in Actors : Shape(a)'
  BY <1>1 DEF IInv, Shape, chainVars
<1>10. PICK a \in Actors : Alone(a)
  BY <1>1, SomeoneAlone
<1>11. Alone(a)'
  BY <1>6, <1>10 DEF Alone
<1>12. ASSUME NEW r \in Requests \ torn' PROVE Life(op[a], r)'
  <2>1. Life(op[a], r) /\ UNCHANGED <<prompts, batch, rows, sent, op>>
    BY <1>1, <1>10, <1>12 DEF IInv, Lives, chainVars, bounds
  <2>2. CASE answer'[r] = answer[r]
    BY <1>1, <2>1, <2>2
       DEF Life, AtPrompt, InBatch, Settled, Dropped, Failing, Shipping, Unsent, Once, ToldOf
  <2>3. CASE answer'[r] # answer[r]
    <3>1. /\ r \in rows[i].calls \intersect Bundles
          /\ \/ rows[i].status = "success" /\ answer'[r] = "confirmed"
             \/ rows[i].status = "failed" /\ answer'[r] = "reverted"
      BY <1>3, <2>3
    <3>2. answer[r] = "submitted" /\ ~Unsent(r)
      BY <1>1, <2>1, <3>1 DEF Life, Settled, Unsent
    <3>3. ~(op[a].outcome \in Shipped /\ r \in ToSet(op[a].read))
      <4> SUFFICES ASSUME op[a].outcome \in Shipped, r \in ToSet(op[a].read) PROVE FALSE
        OBVIOUS
      <4>1. Len(rows) \notin tracked /\ \A j \in 1..Len(rows) - 1 : r \notin rows[j].calls
        BY <2>1 DEF IInv, Shape, Life, Shipping
      <4> QED
        BY <1>1, <3>1, <4>1 DEF TypeOK
    <3>4. AtPrompt(op[a], r)' /\ InBatch(op[a], r)'
      BY <2>1, <3>2 DEF Life, AtPrompt, InBatch, Once, Unsent
    <3>5. Dropped(op[a], r)' /\ Failing(op[a], r)' /\ Shipping(op[a], r)'
      BY <2>1, <3>2, <3>3 DEF Life, Dropped, Failing, Shipping, Unsent
    <3>6. \A j \in tracked' : r \notin rows[j].calls
      BY <1>1, <2>1, <3>1 DEF Life, Settled, TypeOK
    <3>7. Settled(op[a], r)'
      BY <2>1, <3>1, <3>6 DEF Life, Settled, Unsent
    <3> QED
      BY <3>4, <3>5, <3>7 DEF Life
  <2> QED
    BY <2>2, <2>3
<1> QED
  BY <1>5, <1>7, <1>8, <1>9, <1>11, <1>12, Frame

-----------------------------------------------------------------------------
(* The revocation                                                            *)

\* The revoker away from the batch: whoever is at work there goes on.
LEMMA QuietRevoker ==
  ASSUME IInv, \A b \in Actors \ {Revoker} : op'[b] = op[b],
         ~Busy(Revoker), ~Busy(Revoker)', Shape(Revoker)', TypeOK', Gate',
         UNCHANGED <<claimVars, prompts, batch, answer, chainVars, tracked, torn>>
  PROVE  IInv'
<1>1. Owned /\ TypeOK
  BY DEF IInv
<1>2. \A b \in Actors : Busy(b)' <=> Busy(b)
  BY DEF Busy
<1>3. \A b \in Actors, r \in Requests : Moves(b, r)' <=> Moves(b, r)
  BY DEF Moves
<1>4. Owned'
  BY <1>1, <1>2, <1>3, OwnedStays
<1>5. ASSUME NEW b \in Actors PROVE Shape(b)'
  <2>1. CASE b = Revoker
    BY <2>1
  <2>2. CASE b # Revoker
    BY <2>2 DEF IInv, Shape, chainVars
  <2> QED
    BY <2>1, <2>2
<1>6. PICK a \in Actors : Alone(a)
  BY <1>1, SomeoneAlone
<1>7. Alone(a)'
  BY <1>2, <1>6 DEF Alone
<1>8. ASSUME NEW r \in Requests \ torn' PROVE Life(op[a], r)'
  <2>1. Life(op[a], r) /\ UNCHANGED <<prompts, batch, answer, rows, sent, tracked>>
    BY <1>6, <1>8 DEF IInv, Lives, chainVars
  <2>2. CASE a # Revoker
    BY <2>1, <2>2
       DEF Life, AtPrompt, InBatch, Settled, Dropped, Failing, Shipping, Unsent, Once, ToldOf
  <2>3. CASE a = Revoker
    <3>1. Calm(op[a]) /\ Calm(op[a])'
      BY <2>3, Names DEF IInv, Shape, Calm, Busy, RevokerSteps, ShipSteps
    <3> QED
      BY <2>1, <3>1, StillCalm
  <2> QED
    BY <2>2, <2>3
<1> QED
  BY <1>4, <1>5, <1>7, <1>8, Frame

LEMMA RevokeInv ==
  ASSUME IInv, NEW site \in Sites, Revoke(site)
  PROVE  IInv'
<1> DEFINE p == [IdleOp EXCEPT !.pc = "delete", !.bad = {site}]
<1>1. /\ TypeOK /\ op[Revoker].pc = "idle" /\ Update(Revoker, p)
      /\ site \in permission /\ epoch[site] < MaxRevocations
      /\ revoking' = revoking \union {site} /\ epoch' = [epoch EXCEPT ![site] = @ + 1]
      /\ UNCHANGED <<claimVars, storageVars, chainVars, tracked, bounds>>
  BY DEF IInv, Revoke, Idle, At
<1>2. p \in OpType /\ p.pc = "delete" /\ p.bad = {site} /\ p.todo = {} /\ p.outcome = "none"
  BY IdleFields DEF OpType
<1> HIDE DEF p
<1>3. /\ op'[Revoker] = p /\ (\A b \in Actors \ {Revoker} : op'[b] = op[b])
      /\ op' \in [Actors -> OpType]
  BY <1>1, <1>2, Names DEF Update, TypeOK
<1>4. /\ epoch \in [Sites -> 0..MaxRevocations] /\ epoch' \in [Sites -> 0..MaxRevocations]
      /\ epoch'[site] = epoch[site] + 1 /\ \A x \in Sites \ {site} : epoch'[x] = epoch[x]
  <2>1. epoch \in [Sites -> 0..MaxRevocations] /\ epoch[site] + 1 \in 0..MaxRevocations
    BY <1>1, Names DEF TypeOK
  <2> QED
    BY <1>1, <2>1
<1>5. TypeOK'
  BY <1>1, <1>3, <1>4
     DEF TypeOK, ClaimsTypeOK, claimVars, storageVars, chainVars, bounds
<1>6. Shape(Revoker)' /\ ~Busy(Revoker) /\ ~Busy(Revoker)'
  BY <1>1, <1>2, <1>3 DEF Shape, RevokerSteps, ShipSteps, Shipped, Busy
<1>7. Gate'
  <2>1. ASSUME NEW a \in Actors, NEW x \in Sites, op'[a].pc = "validate"
        PROVE  /\ op'[a].snap[x] <= epoch'[x]
               /\ x \in revoking' \ op'[a].gated => op'[a].snap[x] < epoch'[x]
               /\ /\ x \in {SiteOf[r] : r \in ToSet(op'[a].read)}
                  /\ x \notin op'[a].check \union op'[a].bad \union op'[a].gated
                  /\ op'[a].snap[x] = epoch'[x]
                  => x \in permission
    <3>1. a # Revoker
      BY <1>2, <1>3, <2>1
    <3>2. op'[a] = op[a]
      BY <1>3, <3>1
    <3>3. op[a].snap[x] \in Nat /\ epoch[x] \in Nat
      BY <1>1, Names DEF TypeOK, OpType
    <3> QED
      BY <1>1, <1>4, <2>1, <3>2, <3>3 DEF IInv, Gate, At
  <2> QED
    BY <1>1, <1>2, <1>3, <2>1 DEF Gate, At, storageVars
<1> QED
  BY <1>1, <1>3, <1>5, <1>6, <1>7, QuietRevoker DEF storageVars, bounds

LEMMA DeletePermissionInv ==
  ASSUME IInv, DeletePermission
  PROVE  IInv'
<1> DEFINE o == op[Revoker]
<1> DEFINE p == [o EXCEPT !.pc = "claim"]
<1>1. /\ TypeOK /\ o.pc = "delete" /\ Update(Revoker, p) /\ o \in OpType
      /\ permission' = permission \ o.bad
      /\ UNCHANGED <<claimVars, prompts, batch, answer, gateVars, chainVars, tracked, bounds>>
  BY Names DEF IInv, TypeOK, DeletePermission, At
<1>2. p \in OpType /\ p.pc = "claim" /\ p.bad = o.bad /\ p.todo = o.todo /\ p.outcome = o.outcome
  BY <1>1 DEF OpType
<1> HIDE DEF p
<1>3. /\ op'[Revoker] = p /\ (\A b \in Actors \ {Revoker} : op'[b] = op[b])
      /\ op' \in [Actors -> OpType]
  BY <1>1, <1>2, Names DEF Update, TypeOK
<1>4. TypeOK'
  BY <1>1, <1>3 DEF TypeOK, ClaimsTypeOK, claimVars, gateVars, chainVars, bounds
<1>5. o.todo = {} /\ o.outcome = "none" /\ o.bad \subseteq revoking
  BY <1>1, Names DEF IInv, Shape, ShipSteps, Gate
<1>6. Shape(Revoker)' /\ ~Busy(Revoker) /\ ~Busy(Revoker)'
  BY <1>1, <1>2, <1>3, <1>5 DEF Shape, RevokerSteps, ShipSteps, Shipped, Busy
<1>7. Gate'
  <2>1. UNCHANGED <<revoking, epoch>>
    BY <1>1 DEF gateVars
  <2>2. ASSUME NEW a \in Actors, NEW x \in Sites, op'[a].pc = "validate"
        PROVE  /\ op'[a].snap[x] <= epoch[x]
               /\ x \in revoking \ op'[a].gated => op'[a].snap[x] < epoch[x]
               /\ /\ x \in {SiteOf[r] : r \in ToSet(op'[a].read)}
                  /\ x \notin op'[a].check \union op'[a].bad \union op'[a].gated
                  /\ op'[a].snap[x] = epoch[x]
                  => x \in permission'
    <3>1. a # Revoker
      BY <1>2, <1>3, <2>2
    <3>2. op'[a] = op[a]
      BY <1>3, <3>1
    <3>3. op[a].snap[x] \in Nat /\ epoch[x] \in Nat
      BY <1>1, Names DEF TypeOK, OpType
    <3> QED
      BY <1>1, <1>5, <2>2, <3>2, <3>3 DEF IInv, Gate, At
  <2> QED
    BY <1>2, <1>3, <1>5, <2>1, <2>2 DEF Gate, At
<1> QED
  BY <1>1, <1>3, <1>4, <1>6, <1>7, QuietRevoker DEF bounds

LEMMA ReconnectInv ==
  ASSUME IInv, NEW site \in Sites, Reconnect(site)
  PROVE  IInv'
<1>1. /\ TypeOK /\ permission' = permission \union {site}
      /\ UNCHANGED <<claimVars, prompts, batch, answer, gateVars, chainVars, tracked, op, bounds>>
  BY DEF IInv, Reconnect
<1>2. TypeOK'
  BY <1>1 DEF TypeOK, ClaimsTypeOK, claimVars, gateVars, chainVars, bounds
<1>3. Owned'
  BY <1>1 DEF IInv, Owned, Busy, Moves, claimVars
<1>4. Gate'
  BY <1>1 DEF IInv, Gate, At, gateVars
<1>5. \A a \in Actors : Shape(a)'
  BY <1>1 DEF IInv, Shape, chainVars
<1>6. Lives'
  BY <1>1 DEF IInv, Lives, Alone, Busy, chainVars, bounds, Life, AtPrompt, InBatch, Settled,
              Dropped, Failing, Shipping, Unsent, Once, ToldOf
<1> QED
  BY <1>2, <1>3, <1>4, <1>5, <1>6 DEF IInv

LEMMA FinishRevocationInv ==
  ASSUME IInv, FinishRevocation
  PROVE  IInv'
<1> DEFINE a == Revoker
<1>1. /\ TypeOK /\ Owned
      /\ op[a].pc = "finish" \/ (op[a].pc = "dropAnswer" /\ op[a].todo = {})
      /\ revoking' = revoking \ op[a].bad /\ Return(a) /\ a \in Actors
      /\ UNCHANGED <<storageVars, epoch, chainVars, tracked, bounds>>
  BY Names DEF IInv, FinishRevocation, At
<1>2. op'[a] = IdleOp /\ (\A b \in Actors \ {a} : op'[b] = op[b]) /\ op' \in [Actors -> OpType]
  BY <1>1, IdleFields DEF Return, Update, TypeOK
<1>3. Owned' /\ ClaimsTypeOK'
  BY <1>1, OwnedReturn
<1>4. TypeOK'
  BY <1>1, <1>2, <1>3 DEF TypeOK, storageVars, chainVars, bounds
<1>5. Shape(a)'
  BY <1>1, <1>2, IdleFields DEF Shape, RevokerSteps, ShipSteps, Shipped
<1>6. Gate'
  <2>1. ASSUME NEW b \in Actors, op'[b].pc = "validate" PROVE op'[b] = op[b]
    BY <1>2, <2>1, IdleFields
  <2> QED
    BY <1>1, <1>2, <2>1, IdleFields DEF IInv, Gate, At, storageVars
<1>7. op[a].todo = {} /\ op[a].outcome = "none"
  BY <1>1 DEF IInv, Shape, ShipSteps
<1>8. UNCHANGED <<prompts, batch, answer, rows, sent, tracked, torn>>
  BY <1>1 DEF storageVars, chainVars, bounds
<1>9. CASE op[a].pc = "dropAnswer"
  <2>1. Alone(a)
    BY <1>1, <1>9, BusyIsAlone DEF Busy
  <2>2. ASSUME NEW r \in Requests \ torn, Life(op[a], r) PROVE Life(op[a], r)'
    BY <1>2, <1>7, <1>8, <1>9, <2>2, IdleFields
       DEF Life, AtPrompt, InBatch, Settled, Dropped, Failing, Shipping, Shipped, Unsent, Once
  <2> QED
    BY <1>1, <1>2, <1>3, <1>4, <1>5, <1>6, <1>8, <2>1, <2>2, AloneStep
<1>10. CASE op[a].pc = "finish"
  <2>1. ~Busy(a) /\ ~Busy(a)'
    BY <1>2, <1>10, IdleFields DEF Busy
  <2>2. UNCHANGED claimVars
    <3>1. \A k \in Keys : claims[k] # a
      <4>1. \A k \in Keys : k = Active \/ k \in Requests
        OBVIOUS
      <4> QED
        BY <1>1, <2>1, <4>1 DEF Owned, Moves
    <3>2. claims \in [Keys -> Tokens \union {None}]
      BY <1>1 DEF TypeOK, ClaimsTypeOK
    <3> QED
      BY <1>1, <3>1, <3>2 DEF Return, ReleaseClaims, claimVars
  <2> QED
    BY <1>1, <1>2, <1>4, <1>5, <1>6, <1>8, <2>1, <2>2, QuietRevoker DEF chainVars
<1> QED
  BY <1>1, <1>9, <1>10

\* The site's prompts are answered; its entries of the batch next, if it is free.
LEMMA CancelInv ==
  ASSUME IInv, Cancel
  PROVE  IInv'
<1> DEFINE o == op[Revoker]
<1> DEFINE mine == {k \in prompts : SiteOf[k] \in o.bad /\ CanResolve({k})}
<1>1. /\ TypeOK /\ Owned /\ o.pc = "claim" /\ o \in OpType
      /\ prompts' = prompts \ mine
      /\ answer' = [r \in Requests |-> IF r \in mine THEN "failed" ELSE answer[r]]
      /\ UNCHANGED <<batch, permission, gateVars, chainVars, tracked, bounds>>
      /\ UNCHANGED <<rows, sent, torn>>
  BY Names DEF IInv, TypeOK, Cancel, At, chainVars, bounds
<1>2. mine \in SUBSET prompts /\ (\A r \in mine : claims[r] = None) /\ mine \subseteq Requests
  BY <1>1 DEF CanResolve, TypeOK
<1> HIDE DEF mine
<1>3. answer' \in [Requests -> Answers]
  <2>1. answer \in [Requests -> Answers] /\ "failed" \in Answers
    BY <1>1 DEF TypeOK, Answers
  <2> QED
    BY <1>1, <2>1
<1>4. \A r \in Requests \ mine : sent'[r] = sent[r] /\ answer'[r] = answer[r]
  BY <1>1
<1>5. \A r \in mine : answer'[r] = "failed" /\ sent'[r] = sent[r]
  BY <1>1, <1>2
<1>6. o.todo = {} /\ o.outcome = "none" /\ ~Busy(Revoker) /\ Calm(o)
  BY <1>1, Names DEF IInv, Shape, ShipSteps, Busy, Calm
<1>7. CASE /\ CanResolve({Active}) /\ InstallClaims(Revoker, {Active})
           /\ Update(Revoker, [o EXCEPT !.pc = "drop", !.read = batch,
                                        !.going = ToSet(batch) \intersect Of(o.bad)])
  <2> DEFINE gone == ToSet(batch) \intersect Of(o.bad)
  <2> DEFINE p == [o EXCEPT !.pc = "drop", !.read = batch, !.going = gone]
  <2>1. gone \subseteq Requests /\ gone \subseteq ToSet(batch) /\ batch \in Seq(Requests)
    BY <1>1 DEF Of, TypeOK
  <2> HIDE DEF gone
  <2>2. /\ p \in OpType /\ p.pc = "drop" /\ p.read = batch /\ p.going = gone
        /\ p.todo = o.todo /\ p.outcome = o.outcome /\ p.bad = o.bad
    BY <1>1, <2>1 DEF OpType
  <2>3. Update(Revoker, p)
    BY <1>7 DEF gone
  <2> HIDE DEF p
  <2>4. /\ op'[Revoker] = p /\ (\A b \in Actors \ {Revoker} : op'[b] = op[b])
        /\ op' \in [Actors -> OpType]
    BY <1>1, <2>2, <2>3, Names DEF Update, TypeOK
  <2>5. Owned' /\ ClaimsTypeOK' /\ Alone(Revoker)
    <3>1. Busy(Revoker)' /\ (\A q \in Requests : Moves(Revoker, q)' <=> q \in {Active})
          /\ \A q \in Requests : ~Moves(Revoker, q)
      BY <2>2, <2>4, Names DEF Busy, Moves
    <3> QED
      BY <1>1, <1>7, <2>4, <3>1, Names, OwnedTake
  <2>6. TypeOK'
    BY <1>1, <1>3, <2>4, <2>5 DEF TypeOK, gateVars, chainVars, bounds
  <2>7. Gate'
    BY <1>1, <2>2, <2>4, GateStays DEF IInv
  <2>8. ASSUME NEW a \in Actors PROVE Shape(a)'
    <3>1. CASE a = Revoker
      BY <1>1, <1>6, <2>1, <2>2, <2>4, <3>1 DEF Shape, RevokerSteps, ShipSteps, Shipped
    <3>2. CASE a # Revoker
      <4>1. Shape(a) /\ ~Busy(a) /\ op'[a] = op[a]
        BY <2>4, <2>5, <3>2 DEF IInv, Alone
      <4> QED
        BY <4>1, QuietStays
    <3> QED
      BY <3>1, <3>2
  <2>9. Alone(Revoker)'
    BY <2>4, <2>5 DEF Alone, Busy
  <2>10. ASSUME NEW r \in Requests \ torn' PROVE Life(op[Revoker], r)'
    <3>1. PICK x : x = o
      OBVIOUS
    <3>2. Life(x, r)'
      <4>1. r \in Requests \ torn /\ UNCHANGED <<batch, rows, tracked>>
        BY <1>1, <2>10
      <4> QED
        BY <1>1, <1>2, <1>4, <1>5, <2>5, <3>1, <4>1, GoneLife, Names
    <3>3. Calm(x) /\ Calm(op'[Revoker])
      BY <1>6, <2>2, <2>4, <3>1 DEF Calm
    <3> QED
      BY <3>2, <3>3
         DEF Calm, Life, AtPrompt, InBatch, Settled, Dropped, Failing, Shipping, Shipped, Unsent, Once
  <2> QED
    BY <2>5, <2>6, <2>7, <2>8, <2>9, <2>10, Names, Frame
<1>8. CASE Update(Revoker, [o EXCEPT !.pc = "finish"]) /\ UNCHANGED claimVars
  <2> DEFINE p == [o EXCEPT !.pc = "finish"]
  <2>1. /\ p \in OpType /\ p.pc = "finish" /\ p.todo = o.todo /\ p.outcome = o.outcome
        /\ p.bad = o.bad
    BY <1>1 DEF OpType
  <2>2. Update(Revoker, p)
    BY <1>8
  <2> HIDE DEF p
  <2>3. /\ op'[Revoker] = p /\ (\A b \in Actors \ {Revoker} : op'[b] = op[b])
        /\ op' \in [Actors -> OpType]
    BY <1>1, <2>1, <2>2, Names DEF Update, TypeOK
  <2>4. /\ \A b \in Actors : Busy(b)' <=> Busy(b)
        /\ \A b \in Actors, q \in Requests : Moves(b, q)' <=> Moves(b, q)
    BY <1>1, <2>1, <2>3 DEF Busy, Moves
  <2>5. Owned'
    BY <1>1, <1>8, <2>4, OwnedStays
  <2>6. TypeOK'
    BY <1>1, <1>3, <1>8, <2>3
       DEF TypeOK, ClaimsTypeOK, claimVars, gateVars, chainVars, bounds
  <2>7. Gate'
    BY <1>1, <2>1, <2>3, GateStays DEF IInv
  <2>8. ASSUME NEW a \in Actors PROVE Shape(a)'
    <3>1. CASE a = Revoker
      BY <1>6, <2>1, <2>3, <3>1 DEF Shape, RevokerSteps, ShipSteps, Shipped
    <3>2. CASE a # Revoker
      <4>1. op[a].pc = "addSet" => op[a].going \intersect mine = {}
        BY <1>2, GoneUnmoved
      <4> QED
        BY <1>1, <2>3, <3>2, <4>1 DEF IInv, Shape
    <3> QED
      BY <3>1, <3>2
  <2>9. PICK a \in Actors : Alone(a)
    BY <1>1, SomeoneAlone
  <2>10. Alone(a)'
    BY <2>4, <2>9 DEF Alone
  <2>11. ASSUME NEW r \in Requests \ torn' PROVE Life(op[a], r)'
    <3>1. PICK x : x = op[a]
      OBVIOUS
    <3>2. Life(x, r)'
      <4>1. r \in Requests \ torn /\ UNCHANGED <<batch, rows, tracked>>
        BY <1>1, <2>11
      <4> QED
        BY <1>1, <1>2, <1>4, <1>5, <2>9, <3>1, <4>1, GoneLife
    <3>3. op'[a] = x \/ (Calm(x) /\ Calm(op'[a]))
      BY <1>6, <2>1, <2>3, <3>1 DEF Calm
    <3> QED
      BY <3>2, <3>3
         DEF Calm, Life, AtPrompt, InBatch, Settled, Dropped, Failing, Shipping, Shipped, Unsent,
             Once, ToldOf
  <2> QED
    BY <2>5, <2>6, <2>7, <2>8, <2>10, <2>11, Frame
<1> QED
  BY <1>7, <1>8 DEF Cancel, InstallClaims

-----------------------------------------------------------------------------
(* The restart, and the induction                                            *)

LEMMA IdleAll ==
  ASSUME op = [a \in Actors |-> IdleOp], claims = [k \in Keys |-> None]
  PROVE  Owned /\ \A a \in Actors : Shape(a) /\ Alone(a) /\ op[a] = IdleOp
<1>1. \A a \in Actors : op[a] = IdleOp /\ ~Busy(a) /\ \A r \in Requests : ~Moves(a, r)
  BY IdleFields DEF Busy, Moves
<1>2. Owned
  BY <1>1, Names DEF Owned
<1>3. \A a \in Actors : Shape(a) /\ Alone(a)
  BY <1>1, IdleFields DEF Shape, Alone, SurfaceSteps, RevokerSteps, ShipSteps, Shipped
<1> QED
  BY <1>1, <1>2, <1>3

LEMMA RestartInv ==
  ASSUME IInv, Restart
  PROVE  IInv'
<1>1. /\ TypeOK /\ Owned /\ op' = [a \in Actors |-> IdleOp] /\ claims' = [k \in Keys |-> None]
      /\ UNCHANGED <<prompts, batch, answer, rows, sent, permission>>
      /\ revoking' = {} /\ epoch' = [s \in Sites |-> 0] /\ tracked' = {}
      /\ torn' = torn \union UNION {Interrupted(a) : a \in Actors}
  BY DEF IInv, Restart, LoseClaims, storageVars, chainVars
<1>2. /\ Owned' /\ \A a \in Actors : Shape(a)' /\ Alone(a)' /\ op'[a] = IdleOp
  <2>1. \A a \in Actors :
          op'[a] = IdleOp /\ ~Busy(a)' /\ \A r \in Requests : ~Moves(a, r)'
    BY <1>1, IdleFields DEF Busy, Moves
  <2>2. Owned'
    BY <1>1, <2>1, Names DEF Owned
  <2>3. \A a \in Actors : Shape(a)' /\ Alone(a)'
    BY <2>1, IdleFields DEF Shape, Alone, SurfaceSteps, RevokerSteps, ShipSteps, Shipped
  <2> QED
    BY <2>1, <2>2, <2>3
<1>3. TypeOK'
  <2>1. \A a \in Actors : Interrupted(a) \subseteq Requests
    <3>1. ASSUME NEW a \in Actors PROVE Interrupted(a) \subseteq Requests
      <4>1. op[a] \in OpType
        BY <1>1 DEF TypeOK
      <4>2. ToSet(op[a].read) \subseteq Requests /\ op[a].going \subseteq Requests
            /\ op[a].todo \subseteq Requests
        BY <4>1 DEF OpType, ToSet
      <4> QED
        BY <4>2 DEF Interrupted
    <3> QED
      BY <3>1
  <2>2. torn' \subseteq Requests
    BY <1>1, <2>1 DEF TypeOK
  <2>3. restarts' \in 0..MaxRestarts
    BY <1>1, Names DEF Restart, TypeOK
  <2>4. ClaimsTypeOK'
    BY Names DEF Restart, LoseClaims, ClaimsTypeOK
  <2>5. epoch' \in [Sites -> 0..MaxRevocations] /\ op' \in [Actors -> OpType]
    BY <1>1, Names, IdleFields
  <2> QED
    BY <1>1, <2>2, <2>3, <2>4, <2>5 DEF TypeOK
<1>4. Gate'
  BY <1>2, Names, IdleFields DEF Gate, At
<1>5. ASSUME NEW r \in Requests \ torn' PROVE Life(op[Revoker], r)'
  <2>1. PICK b \in Actors : Alone(b)
    BY <1>1, SomeoneAlone
  <2> DEFINE o == op[b]
  <2>2. Life(o, r) /\ Shape(b) /\ r \notin Interrupted(b) /\ o \in OpType
    BY <1>1, <1>5, <2>1 DEF IInv, Lives, TypeOK
  <2>3. /\ o.pc = "addRemove" => r \notin o.going
        /\ o.pc = "dismiss" => r \notin o.going \/ r \in o.todo
        /\ o.pc = "dropAnswer" => r \notin o.todo
        /\ o.outcome = "failed" => r \notin ToSet(o.read) \/ r \in o.todo
        /\ o.outcome \in Shipped => r \notin ToSet(o.read)
    BY <2>2 DEF Interrupted, At, Shape, Shipped, ShipSteps
  <2>4. op'[Revoker] = IdleOp
    BY <1>2, Names
  <2>5. /\ o.outcome = "none" \/ o.outcome = "failed" \/ o.outcome \in Shipped
        /\ o.outcome \in Shipped => o.read = batch
        /\ o.outcome = "failed" => ToSet(batch) \subseteq ToSet(o.read)
        /\ o.outcome # "none" <=> o.pc \in ShipSteps
        /\ o.outcome # "none" => o.todo \subseteq ToSet(o.read)
        /\ o.pc = "dismiss" => o.going \subseteq ToSet(batch) /\ o.todo \subseteq o.going
        /\ o.pc \notin {"dismiss", "dropAnswer"} \union ShipSteps => o.todo = {}
    BY <2>2 DEF Shape, Shipped, OpType
  <2> HIDE DEF o
  <2>6. AtPrompt(IdleOp, r)'
    BY <1>1, <2>2, <2>3 DEF Life, AtPrompt, Unsent
  <2>7. InBatch(IdleOp, r)'
    <3>1. r \in ToSet(batch) => Once(r, batch) /\ Unsent(r)
      BY <2>2, <2>3, <2>5 DEF Life, InBatch
    <3>2. r \in ToSet(batch) => answer[r] = "none"
      BY <2>2, <2>3, <2>5 DEF Life, InBatch, Dropped, Failing
    <3> QED
      BY <1>1, <3>1, <3>2 DEF InBatch, Once, Unsent
  <2>8. answer[r] = "none" => r \in prompts \union ToSet(batch)
    BY <2>2, <2>3, <2>5 DEF Life, Settled, Failing, ShipSteps
  <2>9. Settled(IdleOp, r)'
    BY <1>1, <2>2, <2>8 DEF Life, Settled, Unsent
  <2>10. Dropped(IdleOp, r)' /\ Failing(IdleOp, r)' /\ Shipping(IdleOp, r)'
    BY IdleFields DEF Dropped, Failing, Shipping, Shipped
  <2>11. Life(IdleOp, r)'
    BY <2>6, <2>7, <2>9, <2>10 DEF Life
  <2> QED
    BY <2>4, <2>11
       DEF Life, AtPrompt, InBatch, Settled, Dropped, Failing, Shipping, Unsent, Once, ToldOf
<1> QED
  BY <1>2, <1>3, <1>4, <1>5, Names, Frame

LEMMA InitInv == Init => IInv
<1> SUFFICES ASSUME Init PROVE IInv
  OBVIOUS
<1>1. Owned /\ \A a \in Actors : Shape(a) /\ Alone(a) /\ op[a] = IdleOp
  BY IdleAll DEF Init, ClaimsInit
<1>2. TypeOK
  <2>1. ClaimsTypeOK
    BY Names DEF Init, ClaimsInit, ClaimsTypeOK
  <2>2. op \in [Actors -> OpType] /\ answer \in [Requests -> Answers]
    BY IdleFields DEF Init, Answers
  <2>3. epoch \in [Sites -> 0..MaxRevocations] /\ restarts \in 0..MaxRestarts
        /\ sent \in [Requests -> Nat]
    BY Names DEF Init
  <2>4. /\ batch \in Seq(Requests)
        /\ rows \in Seq(RowType) /\ Len(rows) <= MaxSends
    BY Names DEF Init
  <2> QED
    BY <2>1, <2>2, <2>3, <2>4 DEF Init, TypeOK
<1>3. Gate
  BY <1>1, Names, IdleFields DEF Gate, At
<1>4. ASSUME NEW r \in Requests PROVE Life(IdleOp, r)
  <2>1. ToSet(batch) = {} /\ Len(rows) = 0
    BY DEF Init, ToSet
  <2> QED
    BY <2>1, IdleFields
       DEF Init, Life, AtPrompt, InBatch, Settled, Dropped, Failing, Shipping, Shipped, Unsent
<1>5. Lives
  BY <1>1, <1>4 DEF Lives
<1> QED
  BY <1>1, <1>2, <1>3, <1>5 DEF IInv

LEMMA StutterInv ==
  ASSUME IInv, UNCHANGED vars
  PROVE  IInv'
BY DEF vars, claimVars, storageVars, gateVars, chainVars, IInv, TypeOK, ClaimsTypeOK, Owned, Busy,
       Moves, Gate, At, Shape, Lives, Alone, Life, AtPrompt, InBatch, Settled, Dropped, Failing,
       Shipping, Unsent, Once, ToldOf

LEMMA NextInv ==
  ASSUME IInv, [Next]_vars
  PROVE  IInv'
<1>1. ASSUME NEW s \in Surfaces, Move(s) \/ DecidePrompt(s) PROVE IInv'
  BY <1>1, AddSetInv, AddRemoveInv, ClaimMoveInv, DirectConfirmInv, DirectRejectInv
     DEF Move, DecidePrompt
<1>2. ASSUME NEW s \in Surfaces, DismissEntries(s) PROVE IInv'
  <2>1. CASE RejectBatch(s)
    BY <2>1, DismissInv DEF RejectBatch
  <2>2. ASSUME NEW r \in Requests, RemoveEntry(s, r) PROVE IInv'
    <3>1. {r} \in SUBSET ToSet(batch) /\ Dismiss(s, {r})
      BY <2>2 DEF RemoveEntry
    <3> QED
      BY <3>1, DismissInv
  <2> QED
    BY <1>2, <2>1, <2>2, DismissWriteInv, DismissAnswerInv DEF DismissEntries
<1>3. ASSUME NEW s \in Surfaces, ConfirmBatch(s) PROVE IInv'
  <2>1. ASSUME NEW outcome \in {"pending", "success", "reverted"}, Broadcast(s, outcome) PROVE IInv'
    BY <2>1, BroadcastInv DEF Shipped
  <2> QED
    BY <1>3, <2>1, ConfirmInv, RetryableInv, ShipFailsInv, CaptureInv, ValidateInv,
       CommitRefusedInv, CommitFirstInv, DropDoneInv
       DEF ConfirmBatch
<1>4. ASSUME NEW s \in Surfaces, Publish(s) PROVE IInv'
  BY <1>4, UpdateHistoryInv, ClearInv, PublishHashInv, FanOutInv DEF Publish
<1>5. ASSUME NEW a \in Actors, DropWrite(a) \/ \E r \in Requests : DropAnswer(a, r) PROVE IInv'
  BY <1>5, DropWriteInv, DropAnswerInv
<1>6. ASSUME NEW i \in 1..Len(rows), Receipt(i) \/ Track(i) PROVE IInv'
  BY <1>6, ReceiptInv, TrackInv
<1>7. CASE Revocation
  BY <1>7, DeletePermissionInv, CancelInv, FinishRevocationInv, RevokeInv, ReconnectInv DEF Revocation
<1> QED
  BY <1>1, <1>2, <1>3, <1>4, <1>5, <1>6, <1>7, RestartInv, StutterInv DEF Next

LEMMA Inductive == Spec => []IInv
<1> QED
  BY InitInv, NextInv, PTL DEF Spec

-----------------------------------------------------------------------------
\* The claims, the batch and the calls have their types for any constants: the
\* stored batch never exceeds the limit (MAX_BATCH_CALLS, intake.ts).
THEOREM TypeCorrect == Spec => []TypeOK
<1>1. IInv => TypeOK
  BY DEF IInv
<1> QED
  BY <1>1, Inductive, PTL

LEMMA SettledRequests ==
  ASSUME IInv, NEW r \in Requests \ torn
  PROVE  \E a \in Actors : Settled(op[a], r)
BY SomeoneAlone DEF IInv, Lives, Life

\* A request is broadcast at most once, by its prompt or by one batch, however
\* moves, dismissals, confirmations and a revocation interleave.
THEOREM AlwaysSentOnce == Spec => []SentOnce
<1>1. IInv => SentOnce
  BY SettledRequests DEF Settled, SentOnce
<1> QED
  BY <1>1, Inductive, PTL

\* A failure was told of nothing that was sent, an outcome of a bundle is the
\* outcome of a row that holds it.
THEOREM AnswersAlwaysTrue == Spec => []AnswerIsTrue
<1>1. IInv => AnswerIsTrue
  BY SettledRequests DEF Settled, AnswerIsTrue, Unsent
<1> QED
  BY <1>1, Inductive, PTL

\* No read-modify-write of the stored batch loses a request that nobody answered.
THEOREM NothingEverLost == Spec => []NothingLost
<1>1. IInv => NothingLost
  BY SettledRequests DEF Settled, NothingLost
<1> QED
  BY <1>1, Inductive, PTL

\* The second commit and the broadcast are one step: a source whose snapshot is
\* current is still connected and is not being revoked.
LEMMA BroadcastAuthorized ==
  ASSUME IInv, NEW s \in Surfaces, NEW outcome \in Shipped, Broadcast(s, outcome),
         NEW r \in Requests, sent'[r] > sent[r]
  PROVE  SiteOf[r] \in permission \ revoking
<1>1. /\ s \in Actors /\ op[s].pc = "validate" /\ op[s].check = {} /\ Refused(s) = {}
      /\ sent'[r] = sent[r] + Times(r, op[s].read)
      /\ op[s].read \in Seq(Requests) /\ sent[r] \in Nat
  <2>1. s \in Actors /\ op[s].pc = "validate"
    BY SurfaceAlone DEF Broadcast, At
  <2>2. op[s].read \in Seq(Requests) /\ sent[r] \in Nat
    BY <2>1 DEF IInv, TypeOK, OpType
  <2> QED
    BY <2>1, <2>2 DEF Broadcast
<1>2. r \in ToSet(op[s].read)
  BY <1>1, HowManyTimes
<1>3. op[s].bad = {} /\ Stale(s) = {}
  BY <1>1 DEF Refused
<1>4. SiteOf[r] \in {SiteOf[q] : q \in ToSet(op[s].read)} /\ SiteOf[r] \in Sites
  BY <1>2, Names
<1>5. SiteOf[r] \notin revoking \union op[s].gated /\ epoch[SiteOf[r]] = op[s].snap[SiteOf[r]]
  BY <1>3, <1>4 DEF Stale
<1> QED
  BY <1>1, <1>3, <1>4, <1>5 DEF IInv, Gate, At

\* Nothing is sent for a site that is not connected, or whose revocation began
\* and is not over (lifecycle.ts, local.ts).
THEOREM SendsAuthorized == Spec => AuthorizedSend
<1>1. ASSUME IInv, [Next]_vars, NEW r \in Requests, sent'[r] > sent[r]
      PROVE  SiteOf[r] \in permission \ revoking
  <2>1. sent \in [Requests -> Nat]
    BY <1>1 DEF IInv, TypeOK
  <2>2. sent' # sent
    BY <1>1, <2>1
  <2>3. ASSUME NEW s \in Surfaces, NEW q \in Requests, DirectConfirm(s, q)
        PROVE  SiteOf[r] \in permission \ revoking
    BY <1>1, <2>1, <2>3 DEF DirectConfirm
  <2>4. ASSUME NEW s \in Surfaces, NEW outcome \in {"pending", "success", "reverted"},
               Broadcast(s, outcome)
        PROVE  SiteOf[r] \in permission \ revoking
    BY <1>1, <2>4, BroadcastAuthorized DEF Shipped
  <2>5. \/ \E s \in Surfaces, q \in Requests : DirectConfirm(s, q)
        \/ \E s \in Surfaces, outcome \in {"pending", "success", "reverted"} : Broadcast(s, outcome)
    BY <1>1, <2>2 DEF Next, vars, chainVars, outside, Move, AddSet, AddRemove, ClaimMove,
       DecidePrompt, DirectReject, DismissEntries, RejectBatch, RemoveEntry, Dismiss, DismissWrite,
       DismissAnswer, ConfirmBatch, Confirm, Retryable, ShipFails, Capture, Validate, CommitRefused,
       CommitFirst, DropDone, Publish, UpdateHistory, Clear, PublishHash, FanOut, DropWrite,
       DropAnswer, Receipt, Track, Revocation, DeletePermission, Cancel, FinishRevocation, Revoke,
       Reconnect, Restart
  <2> QED
    BY <2>3, <2>4, <2>5
<1>2. IInv /\ [Next]_vars =>
        [\A r \in Requests : sent'[r] > sent[r] => SiteOf[r] \in permission \ revoking]_vars
  BY <1>1
<1> QED
  BY <1>2, Inductive, PTL DEF Spec, AuthorizedSend

\* A request in the hands of the actor at work has no terminal answer yet, or
\* the failure it is told again.
LEMMA ToldWhileOpen ==
  ASSUME IInv, NEW a \in Actors, Busy(a), NEW r \in Requests \ torn, r \in op[a].todo
  PROVE  /\ op[a].pc \in {"dismiss", "dropAnswer"} => answer[r] = "none"
         /\ op[a].pc = "results" => answer[r] = "none"
         /\ op[a].pc = "publish" =>
              answer[r] = "none" \/ (op[a].outcome = "failed" /\ answer[r] = "failed")
<1>1. Life(op[a], r) /\ Shape(a)
  BY BusyIsAlone DEF IInv, Lives
<1>2. op[a].outcome \in {"none", "failed"} \union Shipped
  BY DEF IInv, TypeOK, OpType, Shipped
<1> QED
  BY <1>1, <1>2 DEF Shape, Life, Dropped, Failing, Shipping, ShipSteps

\* A terminal answer is final, whichever calls meet at a request: the source
\* promise receives exactly one terminal outcome (README.md).
THEOREM AnswersFinal == Spec => AnswerIsFinal
<1>1. ASSUME IInv, [Next]_vars, NEW r \in Requests \ torn', answer[r] \in Terminal
      PROVE  answer'[r] = answer[r]
  <2>1. /\ answer \in [Requests -> Answers] /\ r \in Requests \ torn
        /\ answer[r] # "none" /\ answer[r] # "submitted"
    <3>1. torn \subseteq torn'
      BY <1>1 DEF Next, vars, chainVars, outside, bounds, Move, AddSet, AddRemove, ClaimMove,
         DecidePrompt, DirectConfirm, DirectReject, DismissEntries, RejectBatch, RemoveEntry,
         Dismiss, DismissWrite, DismissAnswer, ConfirmBatch, Confirm, Retryable, ShipFails, Capture,
         Validate, CommitRefused, CommitFirst, Broadcast, DropDone, Publish, UpdateHistory, Clear,
         PublishHash, FanOut, DropWrite, DropAnswer, Receipt, Track, Revocation, DeletePermission,
         Cancel, FinishRevocation, Revoke, Reconnect, Restart
    <3> QED
      BY <1>1, <3>1 DEF IInv, TypeOK, Terminal
  <2>2. r \notin prompts
    <3>1. PICK a \in Actors : Life(op[a], r)
      BY <1>1, <2>1, SomeoneAlone DEF IInv, Lives
    <3> QED
      BY <2>1, <3>1 DEF Life, AtPrompt
  <2>3. ASSUME NEW s \in Surfaces, NEW q \in Requests, DirectConfirm(s, q) \/ DirectReject(s, q)
        PROVE  answer'[r] = answer[r]
    BY <2>1, <2>2, <2>3 DEF DirectConfirm, DirectReject, Answer
  <2>4. ASSUME Cancel PROVE answer'[r] = answer[r]
    BY <2>1, <2>2, <2>4 DEF Cancel
  <2>5. ASSUME NEW a \in Actors, NEW q \in Requests,
               DropAnswer(a, q) \/ (a \in Surfaces /\ DismissAnswer(a, q))
        PROVE  answer'[r] = answer[r]
    <3>1. Busy(a) /\ op[a].pc \in {"dismiss", "dropAnswer"} /\ q \in op[a].todo /\ Answer(q, "failed")
      BY <2>5, Names DEF DropAnswer, DismissAnswer, At, Busy
    <3> QED
      BY <1>1, <2>1, <3>1, ToldWhileOpen DEF Answer
  <2>6. ASSUME NEW s \in Surfaces, NEW q \in Requests, PublishHash(s, q)
        PROVE  answer'[r] = answer[r]
    <3>1. s \in Actors /\ Busy(s) /\ op[s].pc = "results" /\ q \in op[s].todo /\ Answer(q, "sent")
      BY <1>1, <2>6, SurfaceAlone DEF PublishHash, At
    <3> QED
      BY <1>1, <2>1, <3>1, ToldWhileOpen DEF Answer
  <2>7. ASSUME NEW s \in Surfaces, NEW q \in Requests, FanOut(s, q)
        PROVE  answer'[r] = answer[r]
    <3>1. /\ s \in Actors /\ Busy(s) /\ op[s].pc = "publish" /\ q \in op[s].todo
          /\ Answer(q, Told(op[s].outcome))
      BY <1>1, <2>7, SurfaceAlone DEF FanOut, At
    <3>2. q = r => op[s].outcome = "failed" /\ answer[r] = "failed"
      BY <1>1, <2>1, <3>1, ToldWhileOpen
    <3> QED
      BY <2>1, <3>1, <3>2 DEF Answer, Told
  <2>8. ASSUME NEW i \in 1..Len(rows), Track(i) PROVE answer'[r] = answer[r]
    <3>1. PICK a \in Actors : Settled(op[a], r)
      BY <1>1, <2>1, SettledRequests
    <3>2. r \notin rows[i].calls \intersect Bundles
      BY <2>1, <2>8, <3>1 DEF Track, Settled
    <3> QED
      BY <2>1, <2>8, <3>2 DEF Track
  <2>9. \/ answer' = answer
        \/ \E s \in Surfaces, q \in Requests : DirectConfirm(s, q) \/ DirectReject(s, q)
        \/ Cancel
        \/ \E a \in Actors, q \in Requests :
             DropAnswer(a, q) \/ (a \in Surfaces /\ DismissAnswer(a, q))
        \/ \E s \in Surfaces, q \in Requests : PublishHash(s, q) \/ FanOut(s, q)
        \/ \E i \in 1..Len(rows) : Track(i)
    BY <1>1, Names DEF Next, vars, storageVars, Move, AddSet, AddRemove, ClaimMove, DecidePrompt,
       DismissEntries, RejectBatch, RemoveEntry, Dismiss, DismissWrite, ConfirmBatch, Confirm,
       Retryable, ShipFails, Capture, Validate, CommitRefused, CommitFirst, Broadcast, DropDone,
       Publish, UpdateHistory, Clear, DropWrite, Receipt, Revocation, DeletePermission,
       FinishRevocation, Revoke, Reconnect, Restart
  <2> QED
    BY <2>3, <2>4, <2>5, <2>6, <2>7, <2>8, <2>9
<1>2. IInv /\ [Next]_vars =>
        [\A r \in Requests \ torn' : answer[r] \in Terminal => answer'[r] = answer[r]]_vars
  BY <1>1
<1> QED
  BY <1>2, Inductive, PTL DEF Spec, AnswerIsFinal

=============================================================================
