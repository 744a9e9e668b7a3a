----------------------------- MODULE HealProofs -----------------------------
(***************************************************************************)
(* Theorems about Heal, for any chain, any answers of the explorer, and    *)
(* any interleaving with the sync, its failures and its own.               *)
(*                                                                         *)
(* The bisection is a recursive function; that it has a value, and what it *)
(* returns, is shown by induction on the length of the interval.  The rest *)
(* is about territory: once there is a cursor, the healer's horizon stays  *)
(* below it and the sync books nothing below it.                           *)
(***************************************************************************)
EXTENDS Heal, FiniteSetTheorems, WellFoundedInduction, TLAPS

Active == mode \in {"search", "legs", "fees", "judge"}
Healing == mode \in {"legs", "fees", "judge"}

\* What holds of the healer whatever the sync does.
TurnInv ==
  /\ TypeOK
  /\ \A e \in ledger : e = Synced(e.leg) \/ e = Healed(e.leg)
  /\ \A t \in todo : done[t] = Unfinished /\ \E e \in ledger : Chain[e.leg].token = t
  /\ Active => token \in Tokens /\ token \notin todo /\ done[token] = Unfinished
  /\ Healing => /\ rounds < MaxRounds
                /\ gap <= horizon
                /\ \A l \in batch : /\ l \in Legs \ Silent
                                    /\ Chain[l].block = gap /\ Chain[l].token = token

\* The expectation agrees with the chain below the interval that is searched.
SearchInv == (mode = "search" => Agrees(known) \/ Agrees(horizon)) /\ BisectionIsSound

\* Who books which blocks: the sync from the cursor on, the healer below it, except
\* for the tokens it took when there was none.
TerritoryInv ==
  /\ \A l \in fetched : Chain[l].block >= cursor
  /\ Active => token \in early \/ horizon < cursor
  /\ \A t \in Tokens : done[t] # Unfinished => t \in early \/ done[t] < cursor
  /\ mode = "legs" => token \in overtaken \/ \A e \in ledger : e.leg \notin batch
  /\ \A e \in ledger :
       e = Synced(e.leg) \/ Chain[e.leg].block < cursor \/ e.leg \in orphans
  /\ NeverTwice

Below(events) == {e \in events : e.leg \in Upto(Legs, token, horizon)}

\* What the healer expects is what the ledger has, but for the two exceptions.
ExpectInv ==
  /\ mode \in {"search", "legs"} =>
       token \in overtaken \/ Crowded(token, horizon) \/ Below(steps) = Below(ledger)
  /\ mode \in {"fees", "judge"} =>
       \/ token \in overtaken
       \/ Crowded(token, horizon)
       \/ Below(steps \cup {Healed(l) : l \in batch}) = Below(ledger)
  /\ ReportIsTrue

-----------------------------------------------------------------------------
(* Least and greatest numbers *)

\* A non-empty set of naturals has a least element.
LEMMA LeastNat ==
  ASSUME NEW T \in SUBSET Nat, T # {}
  PROVE  \E x \in T : \A y \in T : x <= y
<1>1. \E x \in T : \A y \in T : ~ (<<y, x>> \in OpToRel(<, Nat))
  BY NatLessThanWellFounded, WFMin
<1>2. PICK x \in T : \A y \in T : ~ (<<y, x>> \in OpToRel(<, Nat))
  BY <1>1
<1>3. ASSUME NEW y \in T PROVE x <= y
  <2>1. ~ (<<y, x>> \in {ss \in Nat \X Nat : ss[1] < ss[2]})
    BY <1>2 DEF OpToRel
  <2>2. QED
    BY <2>1
<1>4. QED
  BY <1>3

LEMMA HasMin ==
  ASSUME NEW S \in SUBSET Nat, S # {}
  PROVE  Min(S) \in S /\ \A x \in S : Min(S) <= x
  BY LeastNat DEF Min

LEMMA HasMax ==
  ASSUME NEW n \in Nat, NEW S \in SUBSET (0..n), S # {}
  PROVE  Max(S) \in S /\ \A x \in S : x <= Max(S)
<1> DEFINE T == {k \in Nat : n - k \in S}
<1>1. T \in SUBSET Nat /\ T # {}
  <2>1. PICK x \in S : TRUE
    OBVIOUS
  <2>2. n - x \in T
    BY <2>1
  <2>3. QED
    BY <2>2
<1>2. PICK k \in T : \A y \in T : k <= y
  BY <1>1, LeastNat
<1>3. n - k \in S /\ \A x \in S : n - x \in T
  OBVIOUS
<1>4. \A x \in S : x <= n - k
  <2>1. ASSUME NEW x \in S PROVE x <= n - k
    <3>1. k <= n - x /\ x \in Int /\ k \in Int
      BY <1>2, <1>3
    <3>2. QED
      BY <3>1
  <2>2. QED
    BY <2>1
<1>5. QED
  BY <1>3, <1>4 DEF Max

-----------------------------------------------------------------------------
(* The bisection *)

\* One round of the bisection, given the rest.
Halve(search, w) ==
  LET mid == (w[1] + w[2]) \div 2
  IN  IF w[2] - w[1] <= 1 THEN w[2]
      ELSE IF Agrees(mid) THEN search[<<mid, w[2]>>] ELSE search[<<w[1], mid>>]

Solves(search, w) == search[w] = Halve(search, w)

\* Both halves of a stretch are shorter stretches.
LEMMA Halves ==
  ASSUME MaxHead \in Nat, NEW w \in Stretch, w[2] - w[1] > 1
  PROVE  LET mid == (w[1] + w[2]) \div 2
         IN  /\ w[1] < mid /\ mid < w[2]
             /\ <<mid, w[2]>> \in Stretch /\ <<w[1], mid>> \in Stretch
<1>1. w[1] \in -1..MaxHead /\ w[2] \in 0..MaxHead
  BY DEF Stretch
<1> DEFINE mid == (w[1] + w[2]) \div 2
<1>2. mid \in Int /\ w[1] < mid /\ mid < w[2]
  BY <1>1
<1> HIDE DEF mid
<1>3. mid \in 0..MaxHead /\ mid \in -1..MaxHead
  BY <1>1, <1>2
<1>4. <<mid, w[2]>> \in Stretch /\ <<w[1], mid>> \in Stretch
  BY <1>1, <1>3 DEF Stretch
<1>5. QED
  BY <1>2, <1>4 DEF mid

\* The recursion has a solution: one that is right for stretches up to some length
\* yields one that is right for those of the next length.
LEMMA SearchExists ==
  ASSUME MaxHead \in Nat
  PROVE  \E search : search = [w \in Stretch |-> Halve(search, w)]
<1> DEFINE Right(f, k) == \A w \in Stretch : w[2] - w[1] <= k => Solves(f, w)
           Good(k) == \E f : f = [w \in Stretch |-> f[w]] /\ Right(f, k)
<1>1. \A w \in Stretch : w[1] \in -1..MaxHead /\ w[2] \in 0..MaxHead
  BY DEF Stretch
<1>2. Good(0)
  <2> DEFINE f == [w \in Stretch |-> w[2]]
  <2>1. Right(f, 0)
    BY <1>1 DEF Solves, Halve
  <2>2. QED
    BY <2>1
<1>3. ASSUME NEW k \in Nat, Good(k) PROVE Good(k + 1)
  <2>1. PICK f : f = [w \in Stretch |-> f[w]] /\ Right(f, k)
    BY <1>3
  <2> DEFINE g == [w \in Stretch |-> Halve(f, w)]
  <2>2. ASSUME NEW w \in Stretch, w[2] - w[1] <= k + 1 PROVE g[w] = Halve(g, w)
    <3>1. g[w] = Halve(f, w)
      OBVIOUS
    <3>2. CASE w[2] - w[1] <= 1
      BY <3>1, <3>2 DEF Halve
    <3>3. CASE ~(w[2] - w[1] <= 1)
      <4> DEFINE mid == (w[1] + w[2]) \div 2
      <4>1. w[1] < mid /\ mid < w[2] /\ <<mid, w[2]>> \in Stretch /\ <<w[1], mid>> \in Stretch
        <5>1. w[2] - w[1] > 1
          BY <1>1, <3>3
        <5>2. QED
          BY <5>1, Halves
      <4> DEFINE upper == <<mid, w[2]>>
                 lower == <<w[1], mid>>
      <4>2. mid \in Int /\ w[1] \in Int /\ w[2] \in Int
        BY <1>1, <4>1 DEF Stretch
      <4> HIDE DEF mid
      <4>3. upper[2] - upper[1] <= k /\ lower[2] - lower[1] <= k
        BY <2>2, <4>1, <4>2
      <4>4. f[upper] = Halve(f, upper) /\ f[lower] = Halve(f, lower)
        BY <2>1, <4>1, <4>3 DEF Solves
      <4>5. g[upper] = f[upper] /\ g[lower] = f[lower]
        BY <4>1, <4>4
      <4> HIDE DEF g
      <4>6. QED
        BY <3>1, <3>3, <4>5 DEF Halve, mid
    <3>4. QED
      BY <3>2, <3>3
  <2>3. Right(g, k + 1)
    BY <2>2 DEF Solves
  <2>4. g = [w \in Stretch |-> g[w]]
    OBVIOUS
  <2> HIDE DEF g
  <2>5. QED
    BY <2>3, <2>4
<1>4. \A k \in Nat : Good(k)
  <2> DEFINE Bad == {k \in Nat : ~Good(k)}
  <2> SUFFICES ASSUME Bad # {} PROVE FALSE
    OBVIOUS
  <2>1. Bad \in SUBSET Nat
    OBVIOUS
  <2>2. PICK k \in Bad : \A j \in Bad : k <= j
    BY <2>1, LeastNat
  <2> HIDE DEF Good
  <2>3. k # 0
    BY <1>2
  <2>4. k - 1 \in Nat /\ ~(k <= k - 1)
    BY <2>3
  <2>5. Good(k - 1)
    BY <2>2, <2>4
  <2>6. Good(k - 1 + 1)
    BY <1>3, <2>4, <2>5
  <2>7. k - 1 + 1 = k
    OBVIOUS
  <2>8. QED
    BY <2>6, <2>7
<1>5. Good(MaxHead + 1)
  <2> HIDE DEF Good
  <2>1. MaxHead + 1 \in Nat
    OBVIOUS
  <2>2. QED
    BY <1>4, <2>1
<1>6. PICK f : f = [w \in Stretch |-> f[w]] /\ Right(f, MaxHead + 1)
  BY <1>5
<1>7. \A w \in Stretch : f[w] = Halve(f, w)
  BY <1>1, <1>6 DEF Solves
<1>8. f = [w \in Stretch |-> Halve(f, w)]
  BY <1>6, <1>7
<1>9. QED
  BY <1>8

\* Divergence is what a solution returns.
LEMMA DivergenceSolved ==
  ASSUME MaxHead \in Nat
  PROVE  \E search : /\ search = [w \in Stretch |-> Halve(search, w)]
                     /\ Divergence = search[<<known, horizon>>]
<1> DEFINE search == CHOOSE f : f = [w \in Stretch |-> Halve(f, w)]
<1>1. search = [w \in Stretch |-> Halve(search, w)]
  BY SearchExists
<1>2. Divergence = search[<<known, horizon>>]
  BY DEF Divergence, Halve
<1>3. QED
  BY <1>1, <1>2

\* What a solution returns for a stretch that ends in disagreement: a block of it,
\* which disagrees, and if it starts in agreement the block before it agrees.
LEMMA SolutionFinds ==
  ASSUME MaxHead \in Nat, NEW search, search = [w \in Stretch |-> Halve(search, w)],
         NEW w \in Stretch
  PROVE  /\ w[1] >= w[2] => search[w] = w[2]
         /\ w[1] < w[2] => search[w] \in (w[1] + 1)..w[2]
         /\ w[1] < w[2] /\ Agrees(w[1]) /\ ~Agrees(w[2]) =>
              Agrees(search[w] - 1) /\ ~Agrees(search[w])
<1> DEFINE Found(v) ==
             /\ v[1] >= v[2] => search[v] = v[2]
             /\ v[1] < v[2] => search[v] \in (v[1] + 1)..v[2]
             /\ v[1] < v[2] /\ Agrees(v[1]) /\ ~Agrees(v[2]) =>
                  Agrees(search[v] - 1) /\ ~Agrees(search[v])
           Bad == {k \in Nat : \E v \in Stretch : ~Found(v) /\ (v[2] - v[1] <= k)}
<1>0. ASSUME NEW v \in Stretch PROVE v[1] \in -1..MaxHead /\ v[2] \in 0..MaxHead /\ v = <<v[1], v[2]>>
  BY DEF Stretch
<1>1. SUFFICES ASSUME Bad # {} PROVE FALSE
  <2>1. ASSUME ~Found(w) PROVE MaxHead + 1 \in Bad
    <3>1. MaxHead + 1 \in Nat /\ w[2] - w[1] <= MaxHead + 1
      BY <1>0
    <3> HIDE DEF Found
    <3>2. QED
      BY <2>1, <3>1
  <2> HIDE DEF Bad
  <2>2. QED
    BY <2>1
<1>2. PICK k \in Bad : \A j \in Bad : k <= j
  BY <1>1, LeastNat
<1>3. PICK v \in Stretch : ~Found(v) /\ v[2] - v[1] <= k
  OBVIOUS
<1>4. \A u \in Stretch : u[2] - u[1] < v[2] - v[1] /\ v[2] - v[1] > 1 => Found(u)
  <2> SUFFICES ASSUME NEW u \in Stretch, u[2] - u[1] < v[2] - v[1], v[2] - v[1] > 1, ~Found(u)
               PROVE  FALSE
    OBVIOUS
  <2> HIDE DEF Found
  <2>1. k - 1 \in Nat /\ u[2] - u[1] <= k - 1 /\ ~(k <= k - 1)
    BY <1>0, <1>3
  <2>2. k - 1 \in Bad
    BY <2>1
  <2>3. QED
    BY <1>2, <2>1, <2>2
<1>5. search[v] = Halve(search, v)
  OBVIOUS
<1>6. CASE v[2] - v[1] <= 1
  <2>1. search[v] = v[2]
    BY <1>5, <1>6 DEF Halve
  <2>2. v[1] < v[2] => v[1] = v[2] - 1 /\ v[2] \in (v[1] + 1)..v[2]
    BY <1>0, <1>6
  <2>3. QED
    BY <1>3, <2>1, <2>2
<1>7. CASE ~(v[2] - v[1] <= 1)
  <2> DEFINE mid == (v[1] + v[2]) \div 2
             upper == <<mid, v[2]>>
             lower == <<v[1], mid>>
  <2>1. v[2] - v[1] > 1 /\ v[1] \in Int /\ v[2] \in Int
    BY <1>0, <1>7
  <2>2. v[1] < mid /\ mid < v[2] /\ upper \in Stretch /\ lower \in Stretch
    BY <2>1, Halves
  <2>3. mid \in Int
    BY <2>1
  <2>4. search[v] = IF Agrees(mid) THEN search[upper] ELSE search[lower]
    BY <1>5, <1>7 DEF Halve
  <2> HIDE DEF mid
  <2>5. Found(upper) /\ Found(lower)
    <3> HIDE DEF Found
    <3>1. upper[2] - upper[1] < v[2] - v[1] /\ lower[2] - lower[1] < v[2] - v[1]
      BY <2>1, <2>2, <2>3
    <3>2. QED
      BY <1>4, <2>1, <2>2, <3>1
  <2>6. CASE Agrees(mid)
    BY <1>3, <2>1, <2>2, <2>3, <2>4, <2>5, <2>6
  <2>7. CASE ~Agrees(mid)
    BY <1>3, <2>1, <2>2, <2>3, <2>4, <2>5, <2>7
  <2>8. QED
    BY <2>6, <2>7
<1>8. QED
  BY <1>6, <1>7

\* The bisection lands within the stretch, on a block that disagrees while the one
\* before it agrees, if the stretch is from agreement to disagreement.
LEMMA DivergenceFinds ==
  ASSUME MaxHead \in Nat, known \in -1..MaxHead, horizon \in 0..MaxHead
  PROVE  /\ Divergence \in 0..horizon
         /\ known < horizon /\ Agrees(known) /\ ~Agrees(horizon) =>
              Agrees(Divergence - 1) /\ ~Agrees(Divergence)
<1>1. PICK search : /\ search = [w \in Stretch |-> Halve(search, w)]
                    /\ Divergence = search[<<known, horizon>>]
  BY DivergenceSolved
<1> DEFINE w == <<known, horizon>>
<1>2. w \in Stretch /\ w[1] = known /\ w[2] = horizon
  BY DEF Stretch
<1> HIDE DEF w
<1>3. /\ w[1] >= w[2] => search[w] = w[2]
      /\ w[1] < w[2] => search[w] \in (w[1] + 1)..w[2]
      /\ w[1] < w[2] /\ Agrees(w[1]) /\ ~Agrees(w[2]) =>
           Agrees(search[w] - 1) /\ ~Agrees(search[w])
  BY <1>1, <1>2, SolutionFinds
<1>4. Divergence = search[w]
  BY <1>1 DEF w
<1>5. Divergence \in 0..horizon
  BY <1>2, <1>3, <1>4
<1>6. QED
  BY <1>2, <1>3, <1>4, <1>5

-----------------------------------------------------------------------------
(* The actions' values *)

LEMMA Bounds == MaxHead \in Nat /\ MaxFaults \in Nat /\ MaxRounds \in Nat
  BY HealAssumption

\* A leg's place is a number.
LEMMA OrdinalTyped ==
  ASSUME NEW legs \in SUBSET Legs, NEW l \in Legs
  PROVE  Ordinal(legs, l) \in Nat
<1> DEFINE S == {k \in legs : k < l /\ Chain[k].tx = Chain[l].tx}
<1>1. l \in Nat /\ legs \subseteq Nat
  BY HealAssumption
<1>2. S \in SUBSET (0..l) /\ IsFiniteSet(0..l)
  <2>1. IsFiniteSet(0..l)
    BY <1>1, FS_Interval
  <2>2. \A k \in S : k \in 0..l
    BY <1>1
  <2>3. QED
    BY <2>1, <2>2
<1>3. IsFiniteSet(S)
  BY <1>2, FS_Subset
<1>4. Cardinality(S) \in Nat
  BY <1>3, FS_CardinalityType
<1>5. QED
  BY <1>4 DEF Ordinal

\* The two forms of an event.
LEMMA EventsTyped ==
  ASSUME TypeOK, NEW l \in Legs
  PROVE  /\ Synced(l) \in [leg : Legs, index : Nat] /\ Synced(l).leg = l
         /\ Healed(l) \in [leg : Legs, index : Nat] /\ Healed(l).leg = l
<1>1. Ordinal(indexed, l) \in Nat
  BY OrdinalTyped DEF TypeOK
<1>2. Chain[l].log \in Nat
  BY HealAssumption
<1>3. QED
  BY <1>1, <1>2 DEF Synced, Healed

\* The explorer does not change its mind, so neither does the sync.
LEMMA SyncedFixed == [Next]_vars => indexed' = indexed
  BY DEF Next, vars, worldVars, HealStep, SyncStep, Mine, Fetch, SyncLegs, SyncFees, SetCursor,
         SyncDies, Begin, TakeToken, Stop, Locate, BookLegs, BookFees, Judge, Interrupted, Finish

\* What a sync leaves alone.
LEMMA SyncKeeps ==
  ASSUME SyncStep
  PROVE  UNCHANGED <<head, healVars, early, orphans, mended, unread>>
  BY DEF SyncStep, Fetch, SyncLegs, SyncFees, SetCursor, SyncDies, worldVars, ghosts

\* A sync fetches from the cursor on, and sets it above what it fetched.
LEMMA SyncReaches ==
  ASSUME TypeOK, SyncStep
  PROVE  /\ cursor' \in 0..(MaxHead + 1)
         /\ (\A l \in fetched : Chain[l].block >= cursor) =>
              cursor <= cursor' /\ \A l \in fetched' : Chain[l].block >= cursor'
<1>0. /\ cursor \in 0..(MaxHead + 1) /\ head \in 0..MaxHead /\ MaxHead \in Nat
      /\ fetched \in SUBSET Legs /\ (sync # "idle" => fetched # {}) /\ indexed \in SUBSET Legs
  BY Bounds DEF TypeOK
<1>1. CASE Fetch
  <2>1. cursor' = cursor /\ fetched' = ToSync
    BY <1>1 DEF Fetch, worldVars
  <2>2. \A l \in ToSync : Chain[l].block \in cursor..head
    BY DEF ToSync
  <2>3. QED
    BY <1>0, <2>1, <2>2
<1>2. CASE SetCursor
  <2> DEFINE S == {Chain[l].block : l \in fetched}
  <2>1. \A l \in fetched : Chain[l].block \in 1..MaxHead
    BY <1>0, HealAssumption
  <2>2. S \in SUBSET (0..MaxHead) /\ S # {} /\ \A l \in fetched : Chain[l].block \in S
    BY <1>0, <1>2, <2>1 DEF SetCursor
  <2>3. Max(S) \in S /\ \A x \in S : x <= Max(S)
    BY <1>0, <2>2, HasMax
  <2>4. cursor' = Max(S) + 1 /\ fetched' = {}
    BY <1>2 DEF SetCursor
  <2>5. PICK l \in fetched : Max(S) = Chain[l].block
    BY <2>3
  <2>6. QED
    BY <1>0, <2>1, <2>4, <2>5
<1>3. CASE SyncLegs \/ SyncFees \/ SyncDies
  <2>1. cursor' = cursor /\ fetched' \in {fetched, {}}
    BY <1>3 DEF SyncLegs, SyncFees, SyncDies, worldVars
  <2>2. QED
    BY <1>0, <2>1
<1>4. QED
  BY <1>1, <1>2, <1>3 DEF SyncStep

\* What a sync puts into the ledger, and what that overtakes.
LEMMA SyncPuts ==
  ASSUME TypeOK, SyncStep
  PROVE  /\ ledger \subseteq ledger'
         /\ overtaken \subseteq overtaken' /\ overtaken' \subseteq early
         /\ \A e \in ledger' \ ledger :
              /\ e.leg \in fetched /\ e = Synced(e.leg)
              /\ Chain[e.leg].token \in early => Chain[e.leg].token \in overtaken'
<1>1. \A l \in fetched : l \in Legs /\ Synced(l).leg = l
  BY EventsTyped DEF TypeOK
<1>2. CASE SyncLegs
  <2>1. PICK l \in fetched : ledger' = Put({Synced(k) : k \in {m \in fetched : m <= l}})
    BY <1>2 DEF SyncLegs
  <2>2. overtaken' = overtaken \cup (early \cap {Chain[e.leg].token : e \in ledger' \ ledger})
    BY <1>2 DEF SyncLegs
  <2>3. QED
    BY <1>1, <2>1, <2>2 DEF Put, TypeOK
<1>3. CASE Fetch \/ SyncFees \/ SetCursor \/ SyncDies
  BY <1>3 DEF Fetch, SyncFees, SetCursor, SyncDies, ghosts, TypeOK
<1>4. QED
  BY <1>2, <1>3 DEF SyncStep

\* What the healer puts into the ledger.
LEMMA HealPuts ==
  ASSUME TypeOK, HealStep
  PROVE  /\ ledger \subseteq ledger'
         /\ orphans \subseteq orphans' /\ orphans' \subseteq Legs
         /\ \A e \in ledger' \ ledger :
              /\ mode = "legs" /\ e.leg \in batch /\ e = Healed(e.leg)
              /\ \A old \in ledger : Key(old) # Key(e)
              /\ token \in early => e.leg \in orphans'
<1>1. \A l \in batch : l \in Legs /\ Healed(l).leg = l
  BY EventsTyped DEF TypeOK
<1>2. \A legs \in SUBSET batch : Book(legs) =>
        /\ ledger \subseteq ledger'
        /\ orphans \subseteq orphans' /\ orphans' \subseteq Legs
        /\ \A e \in ledger' \ ledger :
             /\ e.leg \in batch /\ e = Healed(e.leg)
             /\ \A old \in ledger : Key(old) # Key(e)
             /\ token \in early => e.leg \in orphans'
  BY <1>1 DEF Book, Put, TypeOK
<1>3. CASE BookLegs
  BY <1>2, <1>3 DEF BookLegs
<1>4. CASE Interrupted
  <2>1. CASE UNCHANGED <<ledger, orphans>>
    BY <2>1 DEF TypeOK
  <2>2. CASE mode = "legs" /\ \E l \in batch : Book({k \in batch : k < l})
    BY <1>2, <2>2
  <2>3. QED
    BY <1>4, <2>1, <2>2 DEF Interrupted
<1>5. CASE Begin \/ TakeToken \/ Stop \/ Locate \/ BookFees \/ Judge \/ Finish
  BY <1>5 DEF Begin, TakeToken, Stop, Locate, BookFees, Judge, Finish, ghosts, TypeOK
<1>6. QED
  BY <1>3, <1>4, <1>5 DEF HealStep

\* The horizon is a block that is there, and below the cursor if there is one.
LEMMA HorizonTyped ==
  ASSUME TypeOK
  PROVE  Horizon \in 0..latest /\ (cursor > 0 => Horizon < cursor)
  BY HealAssumption DEF TypeOK, Horizon

\* A token that is taken has legs, and the block before the first is a block.
LEMMA TakeTokenValues ==
  ASSUME TurnInv, TakeToken
  PROVE  /\ token' \in todo /\ todo' = todo \ {token'}
         /\ horizon' = Horizon
         /\ steps' = {e \in ledger : Chain[e.leg].token = token'}
         /\ known' \in 0..MaxHead
         /\ \A e \in steps' : Chain[e.leg].block > known'
         /\ \/ Leave(FALSE)
            \/ /\ mode' = "search" /\ done' = done
               /\ Balance(token', known') = 0 \/ Balance(token', horizon') = Net(steps', token', horizon')
<1>1. PICK t \in todo :
        /\ todo' = todo \ {t}
        /\ token' = t
        /\ horizon' = Horizon
        /\ steps' = {e \in ledger : Chain[e.leg].token = t}
        /\ known' = Min({Chain[e.leg].block : e \in steps'}) - 1
        /\ IF Balance(t, known') # 0 /\ Balance(t, horizon') # Net(steps', t, horizon')
           THEN Leave(FALSE)
           ELSE mode' = "search" /\ UNCHANGED done
  BY DEF TakeToken
<1> DEFINE S == {Chain[e.leg].block : e \in steps'}
<1>2. \A e \in ledger : Chain[e.leg].block \in 1..MaxHead
  BY HealAssumption DEF TurnInv, TypeOK
<1>3. S \in SUBSET Nat /\ S # {} /\ S \subseteq 1..MaxHead
  <2>1. \A e \in steps' : Chain[e.leg].block \in 1..MaxHead
    BY <1>1, <1>2
  <2>2. \E e \in steps' : TRUE
    BY <1>1 DEF TurnInv
  <2>3. QED
    BY <2>1, <2>2, Bounds
<1>4. Min(S) \in S /\ \A x \in S : Min(S) <= x
  BY <1>3, HasMin
<1> DEFINE m == Min(S)
<1>5. m \in 1..MaxHead /\ known' = m - 1
           /\ \A e \in steps' : Chain[e.leg].block \in 1..MaxHead /\ Chain[e.leg].block >= m
  BY <1>1, <1>3, <1>4
<1> HIDE DEF m, S
<1>6. known' \in 0..MaxHead /\ \A e \in steps' : Chain[e.leg].block > known'
  BY <1>5, Bounds
<1>7. QED
  BY <1>1, <1>6

\* A token that is left is noted, or claimed up to the horizon; no other is touched.
LEMMA LeaveValues ==
  ASSUME TypeOK, NEW claimed \in BOOLEAN, Leave(claimed), token' \in Tokens, horizon' \in 0..MaxHead
  PROVE  /\ mode' = "next"
         /\ done' \in [Tokens -> 0..MaxHead \cup {Unfinished}]
         /\ done'[token'] = IF claimed THEN horizon' ELSE Unfinished
         /\ \A t \in Tokens : t # token' => done'[t] = done[t]
  BY DEF Leave, TypeOK

-----------------------------------------------------------------------------
(* The healer's turns *)

\* The ledger grows by events of the two forms.
LEMMA LedgerForm ==
  ASSUME TurnInv, Next
  PROVE  /\ ledger \subseteq ledger'
         /\ ledger' \subseteq [leg : Legs, index : Nat]
         /\ \A e \in ledger' : (e = Synced(e.leg) \/ e = Healed(e.leg))'
<1>1. indexed' = indexed
  BY SyncedFixed
<1>2. \A l \in Legs : Synced(l)' = Synced(l) /\ Healed(l)' = Healed(l)
  BY <1>1 DEF Synced, Healed
<1>3. CASE Mine
  BY <1>2, <1>3 DEF Mine, TurnInv, TypeOK
<1>4. CASE SyncStep
  <2>1. \A e \in ledger' \ ledger : e.leg \in Legs /\ e = Synced(e.leg)
    BY <1>4, SyncPuts DEF TurnInv, TypeOK
  <2>2. \A e \in ledger' \ ledger : e \in [leg : Legs, index : Nat]
    BY <2>1, EventsTyped DEF TurnInv
  <2>3. QED
    BY <1>2, <1>4, <2>1, <2>2, SyncPuts DEF TurnInv, TypeOK
<1>5. CASE HealStep
  <2>1. \A e \in ledger' \ ledger : e.leg \in Legs /\ e = Healed(e.leg)
    BY <1>5, HealPuts DEF TurnInv, TypeOK
  <2>2. \A e \in ledger' \ ledger : e \in [leg : Legs, index : Nat]
    BY <2>1, EventsTyped DEF TurnInv
  <2>3. QED
    BY <1>2, <1>5, <2>1, <2>2, HealPuts DEF TurnInv, TypeOK
<1>6. QED
  BY <1>3, <1>4, <1>5 DEF Next

\* Fees are of the wallet's own transactions.
LEMMA FeesTyped == ASSUME NEW legs PROVE FeesOwed(legs) \subseteq Own
  BY DEF FeesOwed

\* What the sync holds, the fees, and the history keep their types.
LEMMA HistoryTyped ==
  ASSUME TurnInv, Next
  PROVE  /\ sync' \in {"idle", "legs", "fees", "cursor"}
         /\ fetched' \subseteq Legs /\ (sync' # "idle" => fetched' # {})
         /\ fees' \subseteq Own
         /\ overtaken' \subseteq early' /\ early' \subseteq Tokens
         /\ orphans' \subseteq Legs /\ mended' \subseteq Legs /\ unread' \subseteq Own
<1>0. TypeOK
  BY DEF TurnInv
<1>t. /\ sync \in {"idle", "legs", "fees", "cursor"}
      /\ fetched \subseteq Legs /\ (sync # "idle" => fetched # {})
      /\ fees \subseteq Own /\ indexed \subseteq Legs /\ batch \subseteq Legs
      /\ overtaken \subseteq early /\ early \subseteq Tokens /\ todo \subseteq Tokens
      /\ orphans \subseteq Legs /\ mended \subseteq Legs /\ unread \subseteq Own
  BY <1>0 DEF TypeOK
<1>1. CASE SyncStep
  <2>1. /\ UNCHANGED <<early, orphans, mended, unread>>
        /\ overtaken' \subseteq early
    BY <1>0, <1>1, SyncKeeps, SyncPuts
  <2>2. /\ sync' \in {"idle", "legs", "fees", "cursor"}
        /\ fetched' \subseteq Legs /\ (sync' # "idle" => fetched' # {})
    BY <1>t, <1>1 DEF SyncStep, Fetch, SyncLegs, SyncFees, SetCursor, SyncDies, ToSync
  <2>3. fees' \subseteq Own
    BY <1>t, <1>1, FeesTyped DEF SyncStep, Fetch, SyncLegs, SyncFees, SetCursor, SyncDies
  <2>4. QED
    BY <1>t, <2>1, <2>2, <2>3
<1>2. CASE HealStep
  <2>1. UNCHANGED <<sync, fetched>>
    BY <1>2 DEF HealStep, Begin, TakeToken, Stop, Locate, BookLegs, BookFees, Judge, Interrupted,
           Finish, syncVars
  <2>2. fees' \subseteq Own /\ unread' \subseteq Own /\ mended' \subseteq Legs
    BY <1>t, <1>2, FeesTyped DEF HealStep, Begin, TakeToken, Stop, Locate, BookLegs, BookFees, Judge,
           Interrupted, Finish, ghosts
  <2>3. overtaken' \subseteq early' /\ early' \subseteq Tokens
    <3>1. CASE TakeToken
      <4>1. token' \in todo /\ overtaken' = overtaken /\ early' \in {early, early \cup {token'}}
        BY <3>1, TakeTokenValues DEF TakeToken
      <4>2. QED
        BY <1>t, <4>1
    <3>2. CASE ~TakeToken
      BY <1>t, <1>2, <3>2 DEF HealStep, Begin, Stop, Locate, BookLegs, BookFees, Judge,
             Interrupted, Finish, ghosts
    <3>3. QED
      BY <3>1, <3>2
  <2>4. orphans' \subseteq Legs
    BY <1>0, <1>2, HealPuts
  <2>5. QED
    BY <1>t, <2>1, <2>2, <2>3, <2>4
<1>3. CASE Mine
  BY <1>t, <1>3 DEF Mine, ghosts, syncVars
<1>4. QED
  BY <1>1, <1>2, <1>3 DEF Next

LEMMA TurnStep == TurnInv /\ [Next]_vars => TurnInv'
<1> SUFFICES ASSUME TurnInv, Next PROVE TurnInv'
  <2>1. CASE UNCHANGED vars
    BY <2>1 DEF vars, worldVars, healVars, tokenVars, syncVars, ghosts, TurnInv, TypeOK, Synced, Healed,
           Active, Healing
  <2>2. QED
    BY <2>1
<1> USE Bounds
<1>0. TypeOK
  BY DEF TurnInv
<1>l. /\ ledger \subseteq ledger'
      /\ ledger' \subseteq [leg : Legs, index : Nat]
      /\ \A e \in ledger' : (e = Synced(e.leg) \/ e = Healed(e.leg))'
      /\ indexed' = indexed
  BY LedgerForm, SyncedFixed
<1>h. /\ sync' \in {"idle", "legs", "fees", "cursor"}
      /\ fetched' \subseteq Legs /\ (sync' # "idle" => fetched' # {})
      /\ fees' \subseteq Own
      /\ overtaken' \subseteq early' /\ early' \subseteq Tokens
      /\ orphans' \subseteq Legs /\ mended' \subseteq Legs /\ unread' \subseteq Own
  BY HistoryTyped
<1>t. /\ head \in 0..MaxHead /\ latest \in 0..head /\ horizon \in 0..latest /\ horizon \in 0..MaxHead
      /\ todo \subseteq Tokens /\ faults \in 0..MaxFaults /\ gap \in 0..MaxHead /\ known \in 0..MaxHead
  BY <1>0 DEF TypeOK
<1>1. CASE Mine
  <2>1. head' \in 0..MaxHead /\ head <= head' /\ UNCHANGED <<indexed, cursor, ledger, healVars, faults>>
    BY <1>1, <1>t DEF Mine
  <2>2. TypeOK'
    BY <1>0, <1>h, <1>t, <2>1 DEF TypeOK, healVars, tokenVars
  <2>3. QED
    BY <1>l, <2>1, <2>2 DEF TurnInv, healVars, tokenVars, Active, Healing
<1>2. CASE SyncStep
  <2>1. UNCHANGED <<head, healVars>> /\ cursor' \in 0..(MaxHead + 1)
    BY <1>0, <1>2, SyncKeeps, SyncReaches
  <2>2. faults' \in 0..MaxFaults
    <3>1. faults' = faults \/ (faults < MaxFaults /\ faults' = faults + 1)
      BY <1>2 DEF SyncStep, Fetch, SyncLegs, SyncFees, SetCursor, SyncDies
    <3>2. QED
      BY <1>t, <3>1
  <2>3. TypeOK'
    BY <1>0, <1>h, <1>l, <2>1, <2>2 DEF TypeOK, healVars, tokenVars
  <2>4. QED
    BY <1>l, <2>1, <2>3 DEF TurnInv, healVars, tokenVars, Active, Healing
<1>4. CASE Begin
  <2>1. /\ mode' = "next" /\ latest' = head /\ todo' = UsedTokens
        /\ done' = [t \in Tokens |-> Unfinished]
        /\ UNCHANGED <<head, indexed, cursor, ledger, tokenVars, faults>>
    BY <1>4 DEF Begin, worldVars
  <2>2. \A t \in todo' : t \in Tokens /\ \E e \in ledger : Chain[e.leg].token = t
    BY <1>0, <2>1 DEF UsedTokens, TypeOK, Tokens
  <2>3. TypeOK'
    BY <1>0, <1>h, <1>t, <2>1, <2>2 DEF TypeOK, tokenVars, Mode
  <2>4. QED
    BY <1>l, <2>1, <2>2, <2>3 DEF TurnInv, tokenVars, Active, Healing
<1>5. CASE TakeToken
  <2>1. /\ token' \in todo /\ todo' = todo \ {token'} /\ token' \in Tokens
        /\ steps' = {e \in ledger : Chain[e.leg].token = token'}
        /\ known' \in 0..MaxHead
        /\ Leave(FALSE) \/ (mode' = "search" /\ done' = done)
    BY <1>5, <1>t, TakeTokenValues
  <2>2. /\ rounds' = 0 /\ gap' = 0 /\ batch' = {}
        /\ UNCHANGED <<head, indexed, cursor, ledger, latest, faults>>
    BY <1>5 DEF TakeToken, worldVars
  <2>3. horizon' \in 0..latest /\ horizon' \in 0..MaxHead
    <3>1. horizon' \in 0..latest
      BY <1>0, <1>5, HorizonTyped, TakeTokenValues
    <3>2. QED
      BY <1>t, <3>1
  <2>4. /\ done' \in [Tokens -> 0..MaxHead \cup {Unfinished}] /\ mode' \in {"next", "search"}
        /\ done'[token'] = Unfinished
        /\ \A t \in Tokens : t # token' => done'[t] = done[t]
    <3>1. CASE Leave(FALSE)
      BY <1>0, <2>1, <2>3, <3>1, LeaveValues
    <3>2. CASE mode' = "search" /\ done' = done
      BY <1>0, <2>1, <3>2 DEF TurnInv, TypeOK
    <3>3. QED
      BY <2>1, <3>1, <3>2
  <2>5. TypeOK'
    BY <1>0, <1>h, <1>l, <2>1, <2>2, <2>3, <2>4 DEF TypeOK, Mode
  <2>6. QED
    BY <1>l, <1>t, <2>1, <2>2, <2>4, <2>5 DEF TurnInv, Active, Healing
<1>6. CASE Stop
  <2>1. mode = "search" /\ UNCHANGED <<head, indexed, cursor, ledger, latest, todo, tokenVars, faults>>
    BY <1>6 DEF Stop, worldVars
  <2>2. token \in Tokens /\ token \notin todo
    BY <2>1 DEF TurnInv, Active
  <2>3. /\ mode' = "next" /\ done' \in [Tokens -> 0..MaxHead \cup {Unfinished}]
        /\ \A t \in Tokens : t # token => done'[t] = done[t]
    <3>1. Leave(~Exhausted) /\ (~Exhausted) \in BOOLEAN
      BY <1>6 DEF Stop, Exhausted
    <3>2. token' = token /\ horizon' = horizon
      BY <2>1 DEF tokenVars
    <3>3. QED
      BY <1>0, <1>t, <2>2, <3>1, <3>2, LeaveValues
  <2>4. TypeOK'
    BY <1>0, <1>h, <2>1, <2>3 DEF TypeOK, tokenVars, Mode
  <2>5. QED
    BY <1>l, <1>t, <2>1, <2>2, <2>3, <2>4 DEF TurnInv, tokenVars, Active, Healing
<1>7. CASE Locate
  <2>1. /\ mode = "search" /\ ~Exhausted /\ gap' = Divergence /\ batch' = MissingLegs(gap')
        /\ UNCHANGED <<head, indexed, cursor, ledger, latest, todo, token, horizon, steps,
                       known, rounds, faults>>
        /\ Leave(FALSE) \/ (mode' = "legs" /\ done' = done)
    BY <1>7 DEF Locate, worldVars
  <2>2. gap' \in 0..horizon
    BY <1>t, <2>1, DivergenceFinds
  <2>3. token \in Tokens /\ token \notin todo /\ done[token] = Unfinished
    BY <2>1 DEF TurnInv, Active
  <2>4. /\ done' \in [Tokens -> 0..MaxHead \cup {Unfinished}] /\ mode' \in {"next", "legs"}
        /\ done'[token] = Unfinished
        /\ \A t \in Tokens : t # token => done'[t] = done[t]
    <3>1. CASE Leave(FALSE)
      BY <1>0, <1>t, <2>1, <2>3, <3>1, LeaveValues
    <3>2. CASE mode' = "legs" /\ done' = done
      BY <1>0, <2>3, <3>2 DEF TypeOK
    <3>3. QED
      BY <2>1, <3>1, <3>2
  <2>5. \A l \in batch' : l \in Legs \ Silent /\ Chain[l].block = gap' /\ Chain[l].token = token
    BY <2>1 DEF MissingLegs
  <2>6. rounds < MaxRounds
    BY <1>0, <2>1 DEF Exhausted, TypeOK
  <2>7. gap' \in 0..MaxHead
    BY <1>t, <2>2
  <2>8. TypeOK'
    BY <1>0, <1>h, <2>1, <2>4, <2>5, <2>7 DEF TypeOK, Mode
  <2>9. QED
    BY <1>l, <1>t, <2>1, <2>2, <2>3, <2>4, <2>5, <2>6, <2>8 DEF TurnInv, Active, Healing
<1>8. CASE BookLegs
  <2>1. /\ mode = "legs" /\ mode' \in {"fees", "judge"}
        /\ UNCHANGED <<head, indexed, cursor, latest, todo, tokenVars, done, faults>>
    BY <1>8 DEF BookLegs, worldVars
  <2>2. TypeOK'
    BY <1>0, <1>h, <1>l, <2>1 DEF TypeOK, tokenVars, Mode
  <2>3. QED
    BY <1>l, <2>1, <2>2 DEF TurnInv, tokenVars, Active, Healing
<1>9. CASE BookFees
  <2>1. /\ mode = "fees" /\ mode' = "judge"
        /\ UNCHANGED <<head, indexed, cursor, ledger, latest, todo, tokenVars, done, faults>>
    BY <1>9 DEF BookFees, worldVars
  <2>2. TypeOK'
    BY <1>0, <1>h, <1>l, <2>1 DEF TypeOK, tokenVars, Mode
  <2>3. QED
    BY <1>l, <2>1, <2>2 DEF TurnInv, tokenVars, Active, Healing
<1>10. CASE Judge
  <2>1. /\ mode = "judge" /\ steps' = steps \cup {Healed(l) : l \in batch}
        /\ UNCHANGED <<head, indexed, cursor, ledger, latest, todo, token, horizon, gap, batch, faults>>
        /\ \/ rounds' = rounds + 1 /\ known' = gap /\ mode' = "search" /\ done' = done
           \/ rounds' = rounds /\ known' = known /\ Leave(FALSE)
    BY <1>10 DEF Judge, worldVars
  <2>2. token \in Tokens /\ token \notin todo /\ done[token] = Unfinished /\ rounds < MaxRounds
    BY <2>1 DEF TurnInv, Active, Healing
  <2>3. steps' \subseteq [leg : Legs, index : Nat]
    BY <1>0, <2>1, EventsTyped DEF TypeOK
  <2>4. rounds' \in 0..MaxRounds /\ known' \in 0..MaxHead
    <3>1. rounds \in 0..MaxRounds /\ rounds + 1 \in 0..MaxRounds
      BY <1>0, <2>2 DEF TypeOK
    <3>2. rounds' \in {rounds, rounds + 1} /\ known' \in {known, gap}
      BY <2>1
    <3>3. QED
      BY <1>t, <3>1, <3>2
  <2>5. /\ done' \in [Tokens -> 0..MaxHead \cup {Unfinished}] /\ mode' \in {"next", "search"}
        /\ done'[token] = Unfinished
        /\ \A t \in Tokens : t # token => done'[t] = done[t]
    <3>1. CASE Leave(FALSE)
      BY <1>0, <1>t, <2>1, <2>2, <3>1, LeaveValues
    <3>2. CASE mode' = "search" /\ done' = done
      BY <1>0, <2>2, <3>2 DEF TypeOK
    <3>3. QED
      BY <2>1, <3>1, <3>2
  <2>6. TypeOK'
    BY <1>0, <1>h, <2>1, <2>3, <2>4, <2>5 DEF TypeOK, Mode
  <2>7. QED
    BY <1>l, <1>t, <2>1, <2>2, <2>5, <2>6 DEF TurnInv, Active, Healing
<1>11. CASE Interrupted
  <2>1. /\ mode \in {"search", "legs", "fees"} /\ faults' \in 0..MaxFaults
        /\ UNCHANGED <<head, indexed, cursor, latest, tokenVars>>
        /\ \/ Leave(FALSE) /\ todo' = todo
           \/ mode' = "idle" /\ todo' = {} /\ done' = done
    <3>1. faults < MaxFaults /\ faults' = faults + 1
      BY <1>11 DEF Interrupted
    <3>2. faults' \in 0..MaxFaults
      BY <1>t, <3>1
    <3>3. UNCHANGED <<head, indexed, cursor, latest, tokenVars>>
      BY <1>11 DEF Interrupted, worldVars
    <3>4. QED
      BY <1>11, <3>2, <3>3, Zenon DEF Interrupted
  <2>2. token \in Tokens /\ token \notin todo /\ done[token] = Unfinished
    BY <2>1 DEF TurnInv, Active
  <2>3. /\ done' \in [Tokens -> 0..MaxHead \cup {Unfinished}] /\ mode' \in {"next", "idle"}
        /\ todo' \subseteq todo
        /\ \A t \in Tokens : t # token => done'[t] = done[t]
    <3>1. CASE Leave(FALSE) /\ todo' = todo
      <4>1. token' = token /\ horizon' = horizon
        BY <2>1 DEF tokenVars
      <4>2. QED
        BY <1>0, <1>t, <2>2, <3>1, <4>1, LeaveValues
    <3>2. CASE mode' = "idle" /\ todo' = {} /\ done' = done
      BY <1>0, <3>2 DEF TypeOK
    <3>3. QED
      BY <2>1, <3>1, <3>2
  <2>4. TypeOK'
    BY <1>0, <1>h, <1>l, <2>1, <2>3 DEF TypeOK, tokenVars, Mode
  <2>5. QED
    BY <1>l, <1>t, <2>1, <2>2, <2>3, <2>4 DEF TurnInv, tokenVars, Active, Healing
<1>12. CASE Finish
  <2>1. mode' = "idle" /\ UNCHANGED <<head, indexed, cursor, ledger, latest, todo, tokenVars, done, faults>>
    BY <1>12 DEF Finish, worldVars
  <2>2. TypeOK'
    BY <1>0, <1>h, <2>1 DEF TypeOK, tokenVars, Mode
  <2>3. QED
    BY <1>l, <2>1, <2>2 DEF TurnInv, tokenVars, Active, Healing
<1>13. QED
  BY <1>1, <1>2, <1>4, <1>5, <1>6, <1>7, <1>8, <1>9, <1>10, <1>11, <1>12 DEF Next, HealStep

-----------------------------------------------------------------------------
(* The bisection, in its place *)

\* Nothing adds up to nothing.
LEMMA TotalOfNone == Total({}) = 0
<1> DEFINE Sum(iter, s) == IF s = {} THEN 0
                           ELSE LET x == CHOOSE x \in s : TRUE
                                IN  Amount(x.leg) + iter[s \ {x}]
           zero == [s \in SUBSET {} |-> 0]
<1>1. zero = [s \in SUBSET {} |-> Sum(zero, s)]
  <2>1. \A s \in SUBSET {} : s = {}
    OBVIOUS
  <2>2. QED
    BY <2>1
<1>2. PICK iter : /\ iter = [s \in SUBSET {} |-> Sum(iter, s)]
                  /\ Total({}) = iter[{}]
  <2> DEFINE fold == CHOOSE iter : iter = [s \in SUBSET {} |-> Sum(iter, s)]
  <2>1. fold = [s \in SUBSET {} |-> Sum(fold, s)]
    BY <1>1
  <2>2. Total({}) = fold[{}]
    BY DEF Total, MapThenSumSet, MapThenFoldSet
  <2>3. QED
    BY <2>1, <2>2
<1>3. QED
  BY <1>2

\* The chain does not change, and the expectation only with the token and its legs.
LEMMA AgreesSame ==
  ASSUME token' = token, steps' = steps, NEW b
  PROVE  Agrees(b)' <=> Agrees(b)
  BY DEF Agrees, Expected

\* A balance that does not predate the first leg agrees with the expectation there.
LEMMA SearchStarts ==
  ASSUME TurnInv, TakeToken, mode' = "search"
  PROVE  Agrees(known)' \/ Agrees(horizon)'
<1>1. /\ known' \in 0..MaxHead
      /\ \A e \in steps' : Chain[e.leg].block > known'
      /\ \/ Leave(FALSE)
         \/ Balance(token', known') = 0 \/ Balance(token', horizon') = Net(steps', token', horizon')
      /\ steps' \subseteq [leg : Legs, index : Nat]
  BY TakeTokenValues DEF TurnInv, TypeOK
<1>2. Net(steps', token', known') = 0
  <2>1. \A e \in steps' : Chain[e.leg].block \in 1..MaxHead
    BY <1>1, HealAssumption
  <2>2. {e \in steps' : e.leg \in Upto(Legs, token', known')} = {}
    BY <1>1, <2>1, Bounds DEF Upto
  <2>3. QED
    BY <2>2, TotalOfNone DEF Net
<1>3. ~Leave(FALSE)
  BY DEF Leave
<1>4. QED
  BY <1>1, <1>2, <1>3 DEF Agrees, Expected

\* Every step of the healer, and of the sync, keeps the search sound.
LEMMA SearchStep == TurnInv /\ SearchInv /\ [Next]_vars => SearchInv'
<1> SUFFICES ASSUME TurnInv, SearchInv, [Next]_vars PROVE SearchInv'
  OBVIOUS
<1>0. TypeOK
  BY DEF TurnInv
<1>1. CASE UNCHANGED <<mode, tokenVars>>
  BY <1>1, AgreesSame DEF tokenVars, SearchInv, BisectionIsSound
<1>2. CASE TakeToken
  <2>1. mode' \in {"next", "search"}
    BY <1>2 DEF TakeToken, Leave
  <2>2. QED
    BY <1>2, <2>1, SearchStarts DEF SearchInv, BisectionIsSound
<1>3. CASE Locate
  <2>1. /\ ~Agrees(horizon) /\ gap' = Divergence /\ mode' \in {"next", "legs"} /\ mode = "search"
        /\ UNCHANGED <<token, steps, known, horizon>>
    BY <1>3 DEF Locate, Leave
  <2>2. Agrees(known)
    BY <2>1 DEF SearchInv
  <2>3. known \in -1..MaxHead /\ horizon \in 0..MaxHead
    BY <1>0, Bounds DEF TypeOK
  <2>4. known < horizon => Agrees(gap' - 1) /\ ~Agrees(gap')
    BY <2>1, <2>2, <2>3, Bounds, DivergenceFinds
  <2>5. QED
    BY <2>1, <2>4 DEF SearchInv, BisectionIsSound, Agrees, Expected
<1>4. CASE Judge
  <2>1. \/ mode' = "next"
        \/ mode' = "search" /\ known' = gap /\ token' = token /\ Balance(token, gap) = Net(steps', token, gap)
    BY <1>4 DEF Judge, Leave
  <2>2. QED
    BY <2>1 DEF SearchInv, BisectionIsSound, Agrees, Expected
<1>5. CASE BookLegs \/ BookFees
  <2>1. /\ mode \in {"legs", "fees"} /\ mode' \in {"fees", "judge"}
        /\ UNCHANGED <<token, steps, known, horizon, gap>>
    BY <1>5 DEF BookLegs, BookFees, tokenVars
  <2>2. QED
    BY <2>1 DEF SearchInv, BisectionIsSound, Agrees, Expected
<1>6. CASE mode' \in {"idle", "next"}
  BY <1>6 DEF SearchInv, BisectionIsSound
<1>7. CASE Mine \/ SyncStep \/ UNCHANGED vars
  BY <1>1, <1>7, SyncKeeps DEF Mine, vars, healVars
<1>8. CASE Begin \/ Stop \/ Interrupted \/ Finish
  BY <1>6, <1>8 DEF Begin, Stop, Interrupted, Finish, Leave
<1>9. QED
  BY <1>2, <1>3, <1>4, <1>5, <1>7, <1>8 DEF Next, HealStep

-----------------------------------------------------------------------------
(* Fees *)

\* The fees owed for legs are those of their outgoing transactions that are the
\* wallet's own.
LEMMA FeesOfLegs ==
  ASSUME NEW legs, NEW l \in legs, Out(l), Chain[l].tx \in Own
  PROVE  Chain[l].tx \in FeesOwed(legs)
  BY DEF FeesOwed

LEMMA FeeStep == TurnInv /\ FeesFollow /\ [Next]_vars => FeesFollow'
<1> SUFFICES ASSUME TurnInv, FeesFollow, [Next]_vars PROVE FeesFollow'
  OBVIOUS
<1> DEFINE Paid(l) == Chain[l].tx \in fees \cup unread
<1>1. CASE BookLegs
  <2>1. /\ mode = "legs" /\ UNCHANGED <<fees, unread, batch>> /\ mended' = mended \cup batch
        /\ mode' = IF \E l \in batch : Out(l) THEN "fees" ELSE "judge"
    BY <1>1 DEF BookLegs, tokenVars
  <2>2. \A l \in mended : Out(l) /\ Chain[l].tx \in Own => Paid(l)
    BY <2>1 DEF FeesFollow
  <2>3. \A l \in batch : Out(l) => mode' = "fees" /\ l \in batch'
    BY <2>1
  <2>4. QED
    BY <2>1, <2>2, <2>3 DEF FeesFollow
<1>2. CASE BookFees
  <2>1. UNCHANGED <<mended, batch>> /\ mode = "fees"
    BY <1>2 DEF BookFees, tokenVars
  <2>2. FeesOwed(batch) \subseteq fees' \cup unread' /\ fees \cup unread \subseteq fees' \cup unread'
    BY <1>2 DEF BookFees
  <2>3. QED
    BY <2>1, <2>2, FeesOfLegs DEF FeesFollow
<1>3. CASE Interrupted
  <2>1. UNCHANGED <<fees, unread>> /\ mended' = IF mode = "fees" THEN mended \ batch ELSE mended
    BY <1>3 DEF Interrupted
  <2>2. QED
    BY <2>1 DEF FeesFollow
<1>4. CASE SyncStep
  <2>1. UNCHANGED <<mode, batch, mended, unread>>
    BY <1>4, SyncKeeps DEF healVars, tokenVars
  <2>2. fees \subseteq fees'
    BY <1>4 DEF SyncStep, Fetch, SyncLegs, SyncFees, SetCursor, SyncDies
  <2>3. QED
    BY <2>1, <2>2 DEF FeesFollow
<1>5. CASE Mine \/ Begin \/ TakeToken \/ Stop \/ Locate \/ Judge \/ Finish \/ UNCHANGED vars
  <2>1. UNCHANGED <<fees, mended, unread>> /\ (mode = "fees" => mode' = mode /\ batch' = batch)
    BY <1>5 DEF Mine, Begin, TakeToken, Stop, Locate, Judge, Finish, vars, healVars, tokenVars, ghosts
  <2>2. QED
    BY <2>1 DEF FeesFollow
<1>6. QED
  BY <1>1, <1>2, <1>3, <1>4, <1>5 DEF Next, HealStep

-----------------------------------------------------------------------------
(* Territory *)

\* A missing leg is not in the ledger.
LEMMA MissingIsMissing ==
  ASSUME TypeOK, NEW b, NEW l \in MissingLegs(b), NEW e \in ledger
  PROVE  e.leg # l
  BY DEF MissingLegs, AlreadyLedgered

\* Where numbers are compared, they are numbers.
LEMMA Numbers ==
  ASSUME TypeOK
  PROVE  /\ cursor \in Nat /\ horizon \in 0..MaxHead /\ horizon \in Nat /\ gap \in Nat
         /\ MaxHead \in Nat
         /\ \A l \in Legs : Chain[l].block \in Nat
         /\ \A e \in ledger : e.leg \in Legs
         /\ \A t \in Tokens : done[t] \in Int
<1>1. -1 \in Int /\ 0..MaxHead \subseteq Int
  BY Bounds
<1>2. \A t \in Tokens : done[t] \in 0..MaxHead \cup {-1}
  BY DEF TypeOK, Unfinished
<1>3. horizon \in 0..MaxHead
  BY Bounds DEF TypeOK
<1>4. QED
  BY <1>1, <1>2, <1>3, Bounds, HealAssumption DEF TypeOK

LEMMA TerritoryStep == TurnInv /\ TerritoryInv /\ [Next]_vars => TerritoryInv'
<1> SUFFICES ASSUME TurnInv, TerritoryInv, Next PROVE TerritoryInv'
  <2>1. CASE UNCHANGED vars
    BY <2>1 DEF vars, worldVars, healVars, tokenVars, syncVars, ghosts, TerritoryInv, Active, NeverTwice,
           Synced
  <2>2. QED
    BY <2>1
<1>0. TypeOK
  BY DEF TurnInv
<1>t. /\ cursor \in Nat /\ horizon \in Nat /\ gap \in Nat
      /\ \A l \in Legs : Chain[l].block \in Nat
      /\ \A e \in ledger : e.leg \in Legs
      /\ \A t \in Tokens : done[t] \in Int
      /\ fetched \subseteq Legs /\ overtaken \subseteq early
  BY <1>0, Numbers DEF TypeOK
<1>s. \A l \in Legs : Synced(l)' = Synced(l)
  BY SyncedFixed DEF Synced
<1>f. \A e \in ledger' : e.leg \in Legs
  BY LedgerForm
<1>1. CASE SyncStep
  <2>1. /\ ledger \subseteq ledger' /\ overtaken \subseteq overtaken'
        /\ \A e \in ledger' \ ledger :
             /\ e.leg \in fetched /\ e = Synced(e.leg)
             /\ Chain[e.leg].token \in early => Chain[e.leg].token \in overtaken'
    BY <1>0, <1>1, SyncPuts
  <2>2. UNCHANGED <<healVars, early, orphans>>
    BY <1>1, SyncKeeps
  <2>3. cursor' \in Nat /\ cursor <= cursor' /\ \A l \in fetched' : Chain[l].block >= cursor'
    BY <1>0, <1>1, SyncReaches, Bounds DEF TerritoryInv
  <2>4. \A l \in fetched : l \in Legs /\ Chain[l].block >= cursor
    BY <1>t DEF TerritoryInv
  <2>5. /\ Active' => token' \in early' \/ horizon' < cursor'
        /\ \A t \in Tokens : done'[t] # Unfinished => t \in early' \/ done'[t] < cursor'
    BY <1>t, <2>2, <2>3 DEF TerritoryInv, Active, healVars, tokenVars
  <2>6. mode' = "legs" => token' \in overtaken' \/ \A e \in ledger' : e.leg \notin batch'
    <3> SUFFICES ASSUME mode = "legs", token \notin overtaken', NEW e \in ledger' \ ledger, e.leg \in batch
                 PROVE  FALSE
      BY <2>1, <2>2 DEF TerritoryInv, healVars, tokenVars
    <3>1. Chain[e.leg].block = gap /\ gap <= horizon /\ Chain[e.leg].token = token
      BY DEF TurnInv, Healing
    <3>2. token \notin early
      BY <2>1, <3>1
    <3>3. horizon < cursor
      BY <3>2 DEF TerritoryInv, Active
    <3>4. Chain[e.leg].block >= cursor
      BY <2>1, <2>4
    <3>5. QED
      BY <1>t, <3>1, <3>3, <3>4
  <2>7. \A e \in ledger' : (e = Synced(e.leg) \/ Chain[e.leg].block < cursor \/ e.leg \in orphans)'
    <3> SUFFICES ASSUME NEW e \in ledger'
                 PROVE  e = Synced(e.leg) \/ Chain[e.leg].block < cursor' \/ e.leg \in orphans
      BY <1>s, <1>f, <2>2
    <3>1. CASE e \in ledger
      BY <1>t, <2>3, <3>1 DEF TerritoryInv
    <3>2. CASE e \notin ledger
      BY <2>1, <3>2
    <3>3. QED
      BY <3>1, <3>2
  <2>8. NeverTwice'
    <3> SUFFICES ASSUME NEW e \in ledger', NEW f \in ledger', e.leg = f.leg, e.leg \notin orphans
                 PROVE  e = f
      BY <2>2 DEF NeverTwice
    <3>1. \A g \in ledger' : g.leg \in fetched /\ g.leg \notin orphans => g = Synced(g.leg)
      <4> SUFFICES ASSUME NEW g \in ledger, g.leg \in fetched, g.leg \notin orphans
                   PROVE  g = Synced(g.leg)
        BY <2>1
      <4>1. ~(Chain[g.leg].block < cursor)
        BY <1>t, <2>4
      <4>2. QED
        BY <4>1 DEF TerritoryInv
    <3>2. CASE e.leg \in fetched
      BY <3>1, <3>2
    <3>3. CASE e.leg \notin fetched
      BY <2>1, <3>3 DEF TerritoryInv, NeverTwice
    <3>4. QED
      BY <3>2, <3>3
  <2>9. QED
    BY <2>3, <2>5, <2>6, <2>7, <2>8 DEF TerritoryInv
<1>2. CASE BookLegs \/ Interrupted
  <2>1. /\ ledger \subseteq ledger' /\ orphans \subseteq orphans'
        /\ \A e \in ledger' \ ledger :
             /\ mode = "legs" /\ e.leg \in batch /\ e = Healed(e.leg)
             /\ token \in early => e.leg \in orphans'
    BY <1>0, <1>2, HealPuts DEF HealStep
  <2>2. /\ mode \in {"search", "legs", "fees"} /\ mode' # "legs"
        /\ mode' \in {"next", "idle"} \/ Active'
        /\ UNCHANGED <<cursor, fetched, early, overtaken, token, horizon>>
    BY <1>2 DEF BookLegs, Interrupted, Leave, worldVars, tokenVars, syncVars, Active
  <2>3. token \in early \/ horizon < cursor
    BY <2>2 DEF TerritoryInv, Active
  <2>4. \A e \in ledger' : (e = Synced(e.leg) \/ Chain[e.leg].block < cursor \/ e.leg \in orphans)'
    <3> SUFFICES ASSUME NEW e \in ledger'
                 PROVE  e = Synced(e.leg) \/ Chain[e.leg].block < cursor \/ e.leg \in orphans'
      BY <1>s, <1>f, <2>2
    <3>1. CASE e \notin ledger
      <4>1. Chain[e.leg].block = gap /\ gap <= horizon
        BY <2>1, <3>1 DEF TurnInv, Healing
      <4>2. QED
        BY <1>t, <2>1, <2>3, <3>1, <4>1
    <3>2. QED
      BY <2>1, <3>1 DEF TerritoryInv
  <2>5. NeverTwice'
    <3> SUFFICES ASSUME NEW e \in ledger', NEW f \in ledger', e.leg = f.leg, e.leg \notin orphans'
                 PROVE  e = f
      BY DEF NeverTwice
    <3>1. CASE e \in ledger /\ f \in ledger
      BY <2>1, <3>1 DEF TerritoryInv, NeverTwice
    <3>2. CASE ~(e \in ledger /\ f \in ledger)
      <4>1. mode = "legs" /\ e.leg \in batch /\ token \notin early
        BY <2>1, <3>2
      <4>2. \A g \in ledger : g.leg \notin batch
        BY <1>t, <4>1 DEF TerritoryInv
      <4>3. QED
        BY <2>1, <4>1, <4>2
    <3>3. QED
      BY <3>1, <3>2
  <2>6. \A t \in Tokens : done'[t] \in {done[t], Unfinished}
    <3>1. CASE Leave(FALSE)
      BY <1>0, <3>1 DEF Leave, TypeOK
    <3>2. QED
      BY <1>2, <3>1 DEF BookLegs, Interrupted
  <2>7. QED
    BY <2>2, <2>3, <2>4, <2>5, <2>6 DEF TerritoryInv
<1>3. CASE TakeToken
  <2>1. /\ token' \in todo /\ horizon' = Horizon /\ mode' # "legs"
        /\ early' = IF cursor = 0 THEN early \cup {token'} ELSE early
        /\ Leave(FALSE) \/ done' = done
    BY <1>3, TakeTokenValues DEF TakeToken, Leave
  <2>2. UNCHANGED <<indexed, cursor, ledger, fetched, overtaken, orphans>>
    BY <1>3 DEF TakeToken, worldVars, syncVars
  <2>3. token' \in early' \/ horizon' < cursor
    BY <1>0, <1>t, <2>1, HorizonTyped
  <2>4. \A t \in Tokens : done'[t] \in {done[t], Unfinished}
    BY <1>0, <2>1 DEF Leave, TypeOK
  <2>5. QED
    BY <1>s, <1>t, <2>1, <2>2, <2>3, <2>4 DEF TerritoryInv, NeverTwice
<1>4. CASE Locate
  <2>1. /\ mode = "search" /\ batch' = MissingLegs(gap')
        /\ UNCHANGED <<indexed, cursor, ledger, horizon, token, fetched, early, overtaken, orphans>>
        /\ Leave(FALSE) \/ done' = done
    BY <1>4 DEF Locate, worldVars, syncVars, ghosts
  <2>2. \A e \in ledger : e.leg \notin batch'
    BY <1>0, <2>1, MissingIsMissing
  <2>3. \A t \in Tokens : done'[t] \in {done[t], Unfinished}
    BY <1>0, <2>1 DEF Leave, TypeOK
  <2>4. QED
    BY <1>s, <1>t, <2>1, <2>2, <2>3 DEF TerritoryInv, NeverTwice, Active
<1>5. CASE Stop
  <2>1. /\ mode = "search" /\ mode' = "next" /\ Leave(~Exhausted)
        /\ UNCHANGED <<indexed, cursor, ledger, horizon, token, fetched, early, overtaken, orphans>>
    BY <1>5 DEF Stop, Leave, worldVars, tokenVars, syncVars, ghosts
  <2>2. token \in early \/ horizon < cursor
    BY <2>1 DEF TerritoryInv, Active
  <2>3. \A t \in Tokens : \/ done'[t] \in {done[t], Unfinished}
                          \/ t = token /\ done'[t] = horizon
    <3>1. token \in Tokens /\ horizon \in 0..MaxHead /\ (~Exhausted) \in BOOLEAN
      BY <1>0, <2>1, Numbers DEF TurnInv, Active, Exhausted
    <3>2. QED
      BY <1>0, <2>1, <3>1, LeaveValues
  <2>4. QED
    BY <1>s, <1>t, <2>1, <2>2, <2>3 DEF TerritoryInv, NeverTwice, Active
<1>6. CASE Begin
  <2>1. /\ mode' = "next" /\ done' = [t \in Tokens |-> Unfinished]
        /\ UNCHANGED <<indexed, cursor, ledger, fetched, orphans>>
    BY <1>6 DEF Begin, worldVars, syncVars
  <2>2. QED
    BY <1>s, <1>t, <2>1 DEF TerritoryInv, NeverTwice, Active
<1>7. CASE Mine \/ BookFees \/ Judge \/ Finish
  <2>1. /\ UNCHANGED <<indexed, cursor, ledger, fetched, early, overtaken, orphans>>
        /\ \/ mode' = mode /\ horizon' = horizon /\ token' = token /\ batch' = batch
           \/ mode' \in {"idle", "next"}
           \/ Active /\ mode' # "legs" /\ horizon' = horizon /\ token' = token
        /\ Leave(FALSE) \/ done' = done
    BY <1>7 DEF Mine, BookFees, Judge, Finish, Leave, healVars, tokenVars, worldVars, syncVars, ghosts,
           Active
  <2>2. \A t \in Tokens : done'[t] \in {done[t], Unfinished}
    BY <1>0, <2>1 DEF Leave, TypeOK
  <2>3. QED
    BY <1>s, <1>t, <2>1, <2>2 DEF TerritoryInv, NeverTwice, Active
<1>8. QED
  BY <1>1, <1>2, <1>3, <1>4, <1>5, <1>6, <1>7 DEF Next, HealStep

-----------------------------------------------------------------------------
(* The report *)

\* What is booked of other tokens, or later, does not change a balance.
LEMMA NetKeeps ==
  ASSUME NEW more, NEW less, less \subseteq more, NEW t, NEW b,
         \A e \in more \ less : e.leg \notin Upto(Legs, t, b)
  PROVE  Net(more, t, b) = Net(less, t, b)
<1>1. {e \in more : e.leg \in Upto(Legs, t, b)} = {e \in less : e.leg \in Upto(Legs, t, b)}
  OBVIOUS
<1>2. QED
  BY <1>1 DEF Net

\* A leg whose key is taken.
Taken(l) == (\E e \in ledger : Key(e) = Key(Healed(l))) /\ \A e \in ledger : e.leg # l

\* It stays so, unless the sync books it: the healer books no leg whose key is taken.
LEMMA TakenStays ==
  ASSUME NEW l, Taken(l), ledger \subseteq ledger',
         \A e \in ledger' \ ledger :
           e.leg # l \/ (e = Healed(e.leg) /\ \A old \in ledger : Key(old) # Key(e))
  PROVE  Taken(l)'
<1>1. PICK old \in ledger : Key(old) = Key(Healed(l))
  BY DEF Taken
<1>2. \A e \in ledger' : e.leg # l
  BY <1>1 DEF Taken
<1>3. old \in ledger' /\ (Key(old) = Key(Healed(l)))'
  BY <1>1 DEF Key, Healed
<1>4. QED
  BY <1>2, <1>3 DEF Taken

LEMMA CrowdedIsTaken ==
  ASSUME NEW t, NEW b
  PROVE  Crowded(t, b) <=> \E l \in Upto(Legs \ Silent, t, b) : Taken(l)
  BY DEF Crowded, Taken

\* What the healer books of a batch, it either books or finds its key taken.
LEMMA BatchIsBooked ==
  ASSUME TurnInv, TerritoryInv, BookLegs, token \notin overtaken
  PROVE  \/ ledger' = ledger \cup {Healed(l) : l \in batch}
         \/ \E l \in batch : Taken(l)'
<1>1. ledger' = Put({Healed(l) : l \in batch}) /\ mode = "legs"
  BY DEF BookLegs, Book
<1>2. \A l \in batch : Healed(l).leg = l
  BY DEF Healed
<1>3. \A e \in ledger : e.leg \notin batch
  BY <1>1 DEF TerritoryInv
<1>4. CASE \A l \in batch : \A old \in ledger : Key(old) # Key(Healed(l))
  BY <1>1, <1>4 DEF Put
<1>5. ASSUME NEW l \in batch, NEW old \in ledger, Key(old) = Key(Healed(l))
      PROVE  Taken(l)'
  <2>1. ledger \subseteq ledger' /\ \A e \in ledger' \ ledger :
          (\E k \in batch : e = Healed(k)) /\ Key(old) # Key(e)
    BY <1>1 DEF Put
  <2>2. \A e \in ledger' : e.leg # l
    BY <1>2, <1>3, <1>5, <2>1
  <2>3. old \in ledger' /\ (Key(old) = Key(Healed(l)))'
    BY <1>5, <2>1 DEF Key, Healed
  <2>4. QED
    BY <2>2, <2>3 DEF Taken
<1>6. QED
  BY <1>4, <1>5

\* How a token that is left is explained.
Explained(t, b) == Balance(t, b) = Net(ledger, t, b) \/ t \in overtaken \/ Crowded(t, b)

LEMMA ReportIsExplained ==
  ReportIsTrue <=> \A t \in Tokens : done[t] # Unfinished => Explained(t, done[t])
  BY DEF ReportIsTrue, Explained

\* The same after a step.
ExplainedNext(t, b) ==
  \/ Balance(t, b) = Net(ledger', t, b)
  \/ t \in overtaken'
  \/ \E l \in Upto(Legs \ Silent, t, b) : Taken(l)'

LEMMA ReportNext ==
  ASSUME \A t \in Tokens : done'[t] # Unfinished => ExplainedNext(t, done'[t])
  PROVE  ReportIsTrue'
  BY DEF ReportIsTrue, ExplainedNext, Crowded, Taken

\* An explanation stays one, as long as what is booked is of other tokens, or later.
LEMMA ExplainedStays ==
  ASSUME NEW t, NEW b, Explained(t, b), ledger \subseteq ledger',
         t \in overtaken => t \in overtaken',
         \A e \in ledger' \ ledger : e.leg \notin Upto(Legs, t, b)
  PROVE  ExplainedNext(t, b)
<1>1. CASE Balance(t, b) = Net(ledger, t, b)
  BY <1>1, NetKeeps DEF ExplainedNext
<1>2. CASE t \in overtaken
  BY <1>2 DEF ExplainedNext
<1>3. CASE Crowded(t, b)
  <2>1. PICK l \in Upto(Legs \ Silent, t, b) : Taken(l)
    BY <1>3, CrowdedIsTaken
  <2>2. l \in Upto(Legs, t, b)
    BY DEF Upto
  <2>3. Taken(l)'
    BY <2>1, <2>2, TakenStays
  <2>4. QED
    BY <2>3 DEF ExplainedNext
<1>4. QED
  BY <1>1, <1>2, <1>3 DEF Explained

\* A token claimed explained is: what the healer expects is what the ledger has.
LEMMA ClaimIsTrue ==
  ASSUME TurnInv, ExpectInv, mode = "search", Agrees(horizon)
  PROVE  Explained(token, horizon)
  BY DEF ExpectInv, Explained, Below, Agrees, Expected, Net

LEMMA ExpectStep == TurnInv /\ TerritoryInv /\ ExpectInv /\ [Next]_vars => ExpectInv'
<1> SUFFICES ASSUME TurnInv, TerritoryInv, ExpectInv, Next PROVE ExpectInv'
  <2>1. CASE UNCHANGED vars
    BY <2>1 DEF vars, worldVars, healVars, tokenVars, ghosts, ExpectInv, ReportIsTrue, Below, Healed,
           Crowded, Key
  <2>2. QED
    BY <2>1
<1>0. TypeOK
  BY DEF TurnInv
<1>t. /\ cursor \in Nat /\ horizon \in 0..MaxHead /\ horizon \in Int /\ gap \in Nat
      /\ MaxHead \in Nat
      /\ \A l \in Legs : Chain[l].block \in Nat
      /\ \A t \in Tokens : done[t] \in Int
      /\ fetched \subseteq Legs
  BY <1>0, Numbers DEF TypeOK
<1>e. \A t \in Tokens : done[t] # Unfinished => Explained(t, done[t])
  BY ReportIsExplained DEF ExpectInv
<1>1. CASE SyncStep
  <2>1. /\ ledger \subseteq ledger' /\ overtaken \subseteq overtaken'
        /\ \A e \in ledger' \ ledger :
             /\ e.leg \in Legs /\ Chain[e.leg].block >= cursor
             /\ Chain[e.leg].token \in early => Chain[e.leg].token \in overtaken'
    BY <1>0, <1>1, <1>t, SyncPuts DEF TerritoryInv
  <2>2. UNCHANGED healVars
    BY <1>1, SyncKeeps
  <2>3. ASSUME NEW t, NEW b \in Int, t \in early \/ b < cursor, t \notin overtaken'
        PROVE  \A e \in ledger' \ ledger : e.leg \notin Upto(Legs, t, b)
    BY <1>t, <2>1, <2>3 DEF Upto
  <2>4. ReportIsTrue'
    <3>1. ASSUME NEW t \in Tokens, done'[t] # Unfinished
          PROVE  ExplainedNext(t, done[t])
      <4>1. t \in early \/ done[t] < cursor
        BY <2>2, <3>1 DEF TerritoryInv, healVars
      <4>2. CASE t \in overtaken'
        BY <4>2 DEF ExplainedNext
      <4>3. CASE t \notin overtaken'
        <5>1. \A e \in ledger' \ ledger : e.leg \notin Upto(Legs, t, done[t])
          BY <1>t, <2>3, <4>1, <4>3
        <5>2. Explained(t, done[t])
          BY <1>e, <2>2, <3>1 DEF healVars
        <5>3. QED
          BY <2>1, <5>1, <5>2, ExplainedStays
      <4>4. QED
        BY <4>2, <4>3
    <3>2. QED
      BY <2>2, <3>1, ReportNext DEF healVars
  <2>5. ASSUME Active, token \notin overtaken'
        PROVE  \A e \in ledger' \ ledger : e.leg \notin Upto(Legs, token, horizon)
    <3>1. token \in early \/ horizon < cursor
      BY <2>5 DEF TerritoryInv
    <3>2. QED
      BY <1>t, <2>3, <2>5, <3>1
  <2>6. ASSUME Active, token \notin overtaken', ~Crowded(token, horizon)'
        PROVE  ~Crowded(token, horizon) /\ Below(ledger)' = Below(ledger)
    <3>1. \A l \in Upto(Legs \ Silent, token, horizon) : Taken(l) => Taken(l)'
      <4>1. \A l \in Upto(Legs \ Silent, token, horizon) : \A e \in ledger' \ ledger : e.leg # l
        BY <2>5, <2>6 DEF Upto
      <4>2. QED
        BY <2>1, <4>1, TakenStays
    <3>2. \A l \in Upto(Legs \ Silent, token, horizon) : ~Taken(l)'
      BY <2>2, <2>6 DEF Crowded, Taken, healVars, tokenVars
    <3>3. ~Crowded(token, horizon)
      BY <3>1, <3>2, CrowdedIsTaken
    <3>4. Below(ledger)' = Below(ledger)
      BY <2>1, <2>2, <2>5, <2>6 DEF Below, healVars, tokenVars
    <3>5. QED
      BY <3>3, <3>4
  <2>7. UNCHANGED <<mode, token, horizon, steps, batch>>
    BY <2>2 DEF healVars, tokenVars
  <2>8. (mode \in {"search", "legs"} =>
           token \in overtaken \/ Crowded(token, horizon) \/ Below(steps) = Below(ledger))'
    <3> SUFFICES ASSUME mode \in {"search", "legs"}, token \notin overtaken', ~Crowded(token, horizon)'
                 PROVE  (Below(steps) = Below(ledger))'
      BY <2>7
    <3>1. Below(steps) = Below(ledger) /\ Below(ledger)' = Below(ledger)
      BY <2>1, <2>6 DEF ExpectInv, Active
    <3>2. QED
      BY <2>7, <3>1 DEF Below
  <2>9. (mode \in {"fees", "judge"} =>
           \/ token \in overtaken
           \/ Crowded(token, horizon)
           \/ Below(steps \cup {Healed(l) : l \in batch}) = Below(ledger))'
    <3> SUFFICES ASSUME mode \in {"fees", "judge"}, token \notin overtaken', ~Crowded(token, horizon)'
                 PROVE  (Below(steps \cup {Healed(l) : l \in batch}) = Below(ledger))'
      BY <2>7
    <3>1. /\ Below(steps \cup {Healed(l) : l \in batch}) = Below(ledger)
          /\ Below(ledger)' = Below(ledger)
      BY <2>1, <2>6 DEF ExpectInv, Active
    <3>2. QED
      BY <2>7, <3>1 DEF Below, Healed
  <2>10. QED
    BY <2>4, <2>8, <2>9 DEF ExpectInv
<1>2. CASE BookLegs \/ Interrupted
  <2>1. /\ ledger \subseteq ledger'
        /\ \A e \in ledger' \ ledger :
             /\ mode = "legs" /\ e.leg \in batch /\ e = Healed(e.leg)
             /\ \A old \in ledger : Key(old) # Key(e)
    BY <1>0, <1>2, HealPuts DEF HealStep
  <2>2. mode \in {"search", "legs", "fees"} /\ UNCHANGED <<tokenVars, overtaken>>
    BY <1>2 DEF BookLegs, Interrupted
  <2>3. token \in Tokens /\ done[token] = Unfinished
    BY <2>2 DEF TurnInv, Active
  <2>4. \A t \in Tokens : done'[t] \in {done[t], Unfinished}
    <3>1. CASE Leave(FALSE)
      BY <1>0, <3>1 DEF Leave, TypeOK
    <3>2. QED
      BY <1>2, <3>1 DEF BookLegs, Interrupted
  <2>5. ReportIsTrue'
    <3>1. ASSUME NEW t \in Tokens, done'[t] # Unfinished
          PROVE  ExplainedNext(t, done'[t])
      <4>1. t # token /\ done'[t] = done[t]
        BY <2>3, <2>4, <3>1
      <4>2. \A e \in ledger' \ ledger : Chain[e.leg].token = token
        BY <2>1 DEF TurnInv, Healing
      <4>3. \A e \in ledger' \ ledger : e.leg \notin Upto(Legs, t, done[t])
        BY <4>1, <4>2 DEF Upto
      <4>4. Explained(t, done[t])
        BY <1>e, <3>1, <4>1
      <4>5. ExplainedNext(t, done[t])
        BY <2>1, <2>2, <4>3, <4>4, ExplainedStays
      <4>6. QED
        BY <4>1, <4>5
    <3>2. QED
      BY <3>1, ReportNext
  <2>6. CASE Interrupted
    <3>1. mode' \in {"next", "idle"}
      BY <2>6 DEF Interrupted, Leave
    <3>2. QED
      BY <2>5, <3>1 DEF ExpectInv
  <2>7. CASE BookLegs
    <3>1. /\ mode = "legs" /\ mode' \in {"fees", "judge"}
          /\ UNCHANGED <<token, horizon, steps, batch, overtaken>>
      BY <2>7 DEF BookLegs, tokenVars
    <3> DEFINE new == {Healed(l) : l \in batch}
    <3>2. ASSUME token \notin overtaken, ~Crowded(token, horizon)'
          PROVE  Below(steps \cup new)' = Below(ledger)'
      <4>1. \A l \in Upto(Legs \ Silent, token, horizon) : ~Taken(l)'
        BY <3>1, <3>2 DEF Crowded, Taken
      <4>2. batch \subseteq Upto(Legs \ Silent, token, horizon)
        BY <3>1 DEF TurnInv, Healing, Upto
      <4>3. ledger' = ledger \cup new
        BY <2>7, <3>2, <4>1, <4>2, BatchIsBooked
      <4>4. ~Crowded(token, horizon)
        <5>1. \A l \in Upto(Legs \ Silent, token, horizon) : Taken(l) => Taken(l)'
          BY <2>1, TakenStays
        <5>2. QED
          BY <4>1, <5>1, CrowdedIsTaken
      <4>5. Below(steps) = Below(ledger)
        BY <3>1, <3>2, <4>4 DEF ExpectInv
      <4>6. Below(steps \cup new) = Below(ledger \cup new)
        <5> HIDE DEF new
        <5>1. \A events : Below(events \cup new) = Below(events) \cup Below(new)
          BY DEF Below
        <5>2. QED
          BY <4>5, <5>1
      <4>7. Below(steps \cup new)' = Below(steps \cup new) /\ Below(ledger)' = Below(ledger')
        BY <3>1 DEF Healed, Below
      <4>8. QED
        BY <4>3, <4>6, <4>7
    <3>3. QED
      BY <2>5, <3>1, <3>2 DEF ExpectInv
  <2>8. QED
    BY <1>2, <2>6, <2>7
<1>3. CASE TakeToken
  <2>1. /\ token' \in todo /\ token' \in Tokens
        /\ steps' = {e \in ledger : Chain[e.leg].token = token'}
        /\ Leave(FALSE) \/ (mode' = "search" /\ done' = done)
    BY <1>0, <1>3, TakeTokenValues DEF TypeOK
  <2>2. UNCHANGED <<ledger, overtaken>>
    BY <1>3 DEF TakeToken
  <2>3. Below(steps)' = Below(ledger)'
    BY <2>1, <2>2 DEF Below, Upto
  <2>4. mode' \in {"next", "search"} /\ \A t \in Tokens : done'[t] \in {done[t], Unfinished}
    <3>1. CASE Leave(FALSE)
      BY <1>0, <3>1 DEF Leave, TypeOK
    <3>2. QED
      BY <2>1, <3>1
  <2>5. ReportIsTrue'
    BY <2>2, <2>4 DEF ExpectInv, ReportIsTrue, Crowded, Key, Healed
  <2>6. QED
    BY <2>3, <2>4, <2>5 DEF ExpectInv
<1>4. CASE Stop
  <2>1. mode = "search" /\ Leave(~Exhausted) /\ UNCHANGED <<ledger, tokenVars, overtaken>>
        /\ (Exhausted \/ Agrees(horizon))
    BY <1>4 DEF Stop, ghosts
  <2>2. token \in Tokens
    BY <2>1 DEF TurnInv, Active
  <2>3. /\ mode' = "next"
        /\ done'[token] = IF ~Exhausted THEN horizon ELSE Unfinished
        /\ \A t \in Tokens : t # token => done'[t] = done[t]
    <3>1. (~Exhausted) \in BOOLEAN /\ token' = token /\ horizon' = horizon
      BY <2>1 DEF tokenVars, Exhausted
    <3>2. QED
      BY <1>0, <1>t, <2>1, <2>2, <3>1, LeaveValues
  <2>4. ~Exhausted => Explained(token, horizon)
    BY <2>1, ClaimIsTrue
  <2>5. ReportIsTrue'
    <3>1. ASSUME NEW t \in Tokens, done'[t] # Unfinished
          PROVE  ExplainedNext(t, done'[t])
      <4>1. Explained(t, done'[t])
        BY <1>e, <2>3, <2>4, <3>1
      <4>2. QED
        BY <2>1, <4>1 DEF Explained, ExplainedNext, Crowded, Taken, Key, Healed
    <3>2. QED
      BY <3>1, ReportNext
  <2>6. QED
    BY <2>3, <2>5 DEF ExpectInv
<1>5. CASE Locate \/ Judge
  <2>1. UNCHANGED <<ledger, token, horizon, overtaken>>
    BY <1>5 DEF Locate, Judge, ghosts
  <2>2. \A t \in Tokens : done'[t] \in {done[t], Unfinished}
    <3>1. CASE Leave(FALSE)
      BY <1>0, <3>1 DEF Leave, TypeOK
    <3>2. QED
      BY <1>5, <3>1 DEF Locate, Judge
  <2>3. \/ mode' = "next"
        \/ mode = "search" /\ mode' = "legs" /\ steps' = steps
        \/ mode = "judge" /\ mode' = "search" /\ steps' = steps \cup {Healed(l) : l \in batch}
    BY <1>5 DEF Locate, Judge, Leave
  <2>4. (mode \in {"search", "legs"} =>
           token \in overtaken \/ Crowded(token, horizon) \/ Below(steps) = Below(ledger))'
    BY <2>1, <2>3 DEF ExpectInv, Below, Crowded, Key, Healed
  <2>5. ReportIsTrue'
    BY <2>1, <2>2 DEF ExpectInv, ReportIsTrue, Crowded, Key, Healed
  <2>6. QED
    BY <2>3, <2>4, <2>5 DEF ExpectInv
<1>6. CASE BookFees
  <2>1. /\ mode = "fees" /\ mode' = "judge"
        /\ UNCHANGED <<ledger, done, overtaken, token, horizon, steps, batch>>
    BY <1>6 DEF BookFees, tokenVars
  <2>2. QED
    BY <2>1 DEF ExpectInv, ReportIsTrue, Below, Healed, Crowded, Key
<1>7. CASE Mine \/ Finish
  <2>1. /\ UNCHANGED <<ledger, done, overtaken, token, horizon, steps, batch>>
        /\ mode' = mode \/ mode' = "idle"
    BY <1>7 DEF Mine, Finish, healVars, tokenVars, ghosts
  <2>2. QED
    BY <2>1 DEF ExpectInv, ReportIsTrue, Below, Healed, Crowded, Key
<1>8. CASE Begin
  <2>1. mode' = "next" /\ done' = [t \in Tokens |-> Unfinished]
    BY <1>8 DEF Begin
  <2>2. QED
    BY <2>1 DEF ExpectInv, ReportIsTrue
<1>9. QED
  BY <1>1, <1>2, <1>3, <1>4, <1>5, <1>6, <1>7, <1>8 DEF Next, HealStep

-----------------------------------------------------------------------------

LEMMA HealInit == Init => TurnInv /\ SearchInv /\ TerritoryInv /\ ExpectInv /\ FeesFollow
<1> SUFFICES ASSUME Init PROVE TurnInv /\ SearchInv /\ TerritoryInv /\ ExpectInv /\ FeesFollow
  OBVIOUS
<1>1. TypeOK
  BY HealAssumption DEF Init, TypeOK, Mode
<1>2. TurnInv
  BY <1>1 DEF Init, TurnInv, Active, Healing
<1>3. QED
  BY <1>2 DEF Init, SearchInv, BisectionIsSound, TerritoryInv, Active, NeverTwice, ExpectInv,
              ReportIsTrue, FeesFollow

\* Every variable keeps its type: the bisection returns a block, the horizon is one
\* that is mined, and the rounds stay within their limit.
THEOREM HealTypeCorrect == Spec => []TypeOK
<1>1. TurnInv => TypeOK
  BY DEF TurnInv
<1>2. QED
  BY <1>1, HealInit, TurnStep, PTL DEF Spec

\* The bisection lands on a block that makes the difference, whatever the balances
\* do in between and however many gaps there are.
THEOREM BisectionIsSoundCorrect == Spec => []BisectionIsSound
<1>1. TurnInv /\ SearchInv => BisectionIsSound
  BY DEF SearchInv
<1>2. QED
  BY <1>1, HealInit, TurnStep, SearchStep, PTL DEF Spec

\* Of a healer that is not stopped in between, only a missing receipt keeps the fees
\* of healed legs out, whatever was stopped before.
THEOREM FeesFollowCorrect == Spec => []FeesFollow
  BY HealInit, TurnStep, FeeStep, PTL DEF Spec

\* Sync and healer never book a transfer twice, in whatever order they run and
\* wherever either stops, but for those healed when there was no cursor.
THEOREM NeverTwiceCorrect == Spec => []NeverTwice
<1>1. TerritoryInv => NeverTwice
  BY DEF TerritoryInv
<1>2. QED
  BY <1>1, HealInit, TurnStep, TerritoryStep, PTL DEF Spec

\* A token that heal leaves without a note is explained, and stays so while the sync
\* goes on, but for one healed amid a first sync and one of whose legs the key was
\* taken.
THEOREM ReportIsTrueCorrect == Spec => []ReportIsTrue
<1>1. ExpectInv => ReportIsTrue
  BY DEF ExpectInv
<1>2. QED
  BY <1>1, HealInit, TurnStep, TerritoryStep, ExpectStep, PTL DEF Spec
=============================================================================
