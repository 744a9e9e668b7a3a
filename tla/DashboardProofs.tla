-------------------------- MODULE DashboardProofs --------------------------
(***************************************************************************)
(* Theorems about the dashboard and about the tagged ledger its pages      *)
(* show.                                                                   *)
(*                                                                         *)
(* The dashboard, for any number of refresh clicks, kinds of scans, delays *)
(* and crashes: one sync in the process, one scan of a kind, and a page    *)
(* that keeps its result.                                                  *)
(*                                                                         *)
(* The ledger's tags, for any events, rules, tags set by hand and window:  *)
(* an own transfer always has its tag, and what a retag yields depends on  *)
(* the events, the manual tags and the rules alone, whatever was there     *)
(* before and however the rules got into the table; the pages agree on     *)
(* every event that nobody and no rule makes more of than it is, and the   *)
(* flows of a tidy vault count once.                                       *)
(***************************************************************************)
EXTENDS Dashboard, Reports, FiniteSetTheorems, WellFoundedInduction, TLAPS

\* A set of numbers that is not empty has a least one.
LEMMA LeastNat ==
  ASSUME NEW T \in SUBSET Nat, T # {}
  PROVE  \E x \in T : \A y \in T : x <= y
<1>1. \E x \in T : \A y \in T : ~ (<<y, x>> \in OpToRel(<, Nat))
  BY NatLessThanWellFounded, WFMin
<1>2. PICK x \in T : \A y \in T : ~ (<<y, x>> \in OpToRel(<, Nat))
  BY <1>1
<1>3. ASSUME NEW y \in T PROVE x <= y
  <2>1. ~ (<<y, x>> \in {ss \in Nat \X Nat : ss[1] < ss[2]})
    BY <1>2 DEF OpToRel
  <2>2. QED
    BY <2>1
<1>4. QED
  BY <1>3

\* One trigger at most is past the guard, the flag says whether one is, and the
\* lock is the dashboard's only while that one syncs.
GuardInv ==
  /\ at \in [Triggers -> {"out", "guard"} \cup Inside]
  /\ running \in BOOLEAN
  /\ \A t, u \in Triggers : at[t] \in Inside /\ at[u] \in Inside => t = u
  /\ running <=> \E t \in Triggers : at[t] \in Inside
  /\ holder = "dashboard" => \E t \in Triggers : at[t] = "syncing"

\* Nobody is past the guard at the start.
LEMMA GuardInit == Init => GuardInv
  BY DEF Init, GuardInv, Inside

\* Every step keeps the others out.
LEMMA GuardStep == GuardInv /\ [Next]_vars => GuardInv'
<1> SUFFICES ASSUME GuardInv, [Next]_vars PROVE GuardInv'
  OBVIOUS
<1> USE DEF GuardInv, Inside
<1>1. ASSUME NEW t \in Triggers, Refresh(t) PROVE GuardInv'
  BY <1>1 DEF Refresh
<1>2. CASE Wake
  BY <1>2 DEF Wake, Triggers
<1>3. ASSUME NEW t \in Triggers, Pass(t) PROVE GuardInv'
  BY <1>3 DEF Pass, MayEnter
<1>4. ASSUME NEW t \in Triggers, Skip(t) PROVE GuardInv'
  BY <1>4 DEF Skip
<1>5. ASSUME NEW t \in Triggers, Claim(t) PROVE GuardInv'
  BY <1>5 DEF Claim
<1>6. ASSUME NEW t \in Triggers, Busy(t) \/ Locked(t) PROVE GuardInv'
  BY <1>6 DEF Busy, Locked
<1>7. ASSUME NEW t \in Triggers, NEW good \in BOOLEAN, EndSync(t, good) PROVE GuardInv'
  BY <1>7 DEF EndSync
<1>8. ASSUME NEW t \in Triggers, Return(t) PROVE GuardInv'
  <2>1. \A u \in Triggers : at'[u] \notin Inside
    BY <1>8 DEF Return
  <2>2. holder' # "dashboard"
    BY <1>8 DEF Return
  <2>3. QED
    BY <1>8, <2>1, <2>2 DEF Return
<1>9. CASE Crash
  BY <1>9 DEF Crash
<1>10. CASE TerminalSync \/ TerminalEnd \/ TerminalCrash
  BY <1>10 DEF TerminalSync, TerminalEnd, TerminalCrash
<1>11. ASSUME UNCHANGED <<running, at, holder>> PROVE GuardInv'
  BY <1>11
<1>12. QED
  BY <1>1, <1>2, <1>3, <1>4, <1>5, <1>6, <1>7, <1>8, <1>9, <1>10, <1>11
     DEF Next, TriggerStep, Tick, Restart, ScanClick, ScanEnd, vars, syncVars

\* A scheduled run and a manual refresh never overlap in one process, and the
\* flag is down whenever nobody is inside.
THEOREM OneSyncHereCorrect == Spec => []OneSyncHere
<1>1. GuardInv => OneSyncHere
  <2> SUFFICES ASSUME GuardInv PROVE OneSyncHere
    OBVIOUS
  <2>1. InsideNow = {} \/ \E t \in Triggers : InsideNow = {t}
    BY DEF InsideNow, GuardInv
  <2>2. Cardinality(InsideNow) <= 1
    BY <2>1, FS_EmptySet, FS_Singleton
  <2>3. QED
    BY <2>2 DEF GuardInv, OneSyncHere, InsideNow
<1>2. QED
  BY <1>1, GuardInit, GuardStep, PTL DEF Spec

\* The lock's record: a live holder is never silent, and a trigger that syncs has
\* the lock, which nobody takes from it.
HolderInv ==
  /\ GuardInv
  /\ silence \in Nat
  /\ holder # "dead" => silence = 0
  /\ \A t \in Triggers : at[t] = "syncing" => holder = "dashboard"

\* Every step keeps the record with who syncs.
LEMMA HolderStep == HolderInv /\ [Next]_vars => HolderInv'
<1> SUFFICES ASSUME HolderInv, [Next]_vars PROVE HolderInv'
  OBVIOUS
<1>1. GuardInv'
  BY GuardStep DEF HolderInv
<1> USE <1>1 DEF HolderInv, GuardInv, Inside
<1>2. ASSUME NEW t \in Triggers, Claim(t) PROVE HolderInv'
  BY <1>2 DEF Claim
<1>3. ASSUME NEW t \in Triggers, NEW good \in BOOLEAN, EndSync(t, good) PROVE HolderInv'
  BY <1>3 DEF EndSync
<1>4. CASE Crash
  BY <1>4 DEF Crash
<1>5. CASE TerminalSync
  <2>1. ASSUME NEW t \in Triggers, at[t] = "syncing" PROVE FALSE
    <3>1. holder = "dashboard" /\ silence = 0
      BY <2>1
    <3>2. QED
      BY <1>5, <3>1, DashboardAssumption DEF TerminalSync, LockFree
  <2>2. QED
    BY <1>5, <2>1 DEF TerminalSync
<1>6. CASE TerminalEnd \/ TerminalCrash
  BY <1>6 DEF TerminalEnd, TerminalCrash
<1>7. CASE Tick
  BY <1>7 DEF Tick
<1>8. ASSUME UNCHANGED <<holder, silence>>,
             \A t \in Triggers : at'[t] = "syncing" => at[t] = "syncing"
      PROVE  HolderInv'
  BY <1>8
<1>9. ASSUME NEW t \in Triggers,
             Refresh(t) \/ Pass(t) \/ Skip(t) \/ Busy(t) \/ Locked(t) \/ Return(t)
      PROVE  HolderInv'
  <2>1. UNCHANGED <<holder, silence>>
    BY <1>9 DEF Refresh, Pass, Skip, Busy, Locked, Return
  <2>2. \A u \in Triggers : at'[u] = "syncing" => at[u] = "syncing"
    BY <1>9 DEF Refresh, Pass, Skip, Busy, Locked, Return
  <2>3. QED
    BY <2>1, <2>2, <1>8
<1>10. CASE Wake
  BY <1>8, <1>10 DEF Wake, Triggers
<1>11. ASSUME UNCHANGED <<at, holder, silence>> PROVE HolderInv'
  BY <1>8, <1>11
<1>12. QED
  BY <1>2, <1>3, <1>4, <1>5, <1>6, <1>7, <1>9, <1>10, <1>11
     DEF Next, TriggerStep, Restart, ScanClick, ScanEnd, vars, syncVars

\* The record is right in every behaviour.
LEMMA HolderInvCorrect == Spec => []HolderInv
<1>1. Init => HolderInv
  BY GuardInit DEF Init, HolderInv
<1>2. QED
  BY <1>1, HolderStep, PTL DEF Spec

\* Who syncs when the lock has a live holder is that holder alone, and otherwise
\* nobody does.
LEMMA SyncingAlone ==
  ASSUME HolderInv
  PROVE  /\ holder \notin {"dashboard", "terminal"} => Syncing = {}
         /\ \A t \in Triggers : at[t] = "syncing" => Syncing = {t}
         /\ holder = "terminal" => Syncing = {"terminal"}
  BY DEF HolderInv, GuardInv, Inside, Syncing

\* A lock that may be claimed is nobody's.
LEMMA FreeIsEmpty ==
  ASSUME HolderInv, LockFree
  PROVE  Syncing = {} /\ (holder # "free" => silence > StaleSeconds)
<1>1. holder # "dashboard" /\ holder # "terminal"
  BY DashboardAssumption DEF LockFree, HolderInv
<1>2. QED
  BY <1>1, SyncingAlone DEF LockFree

\* Every step of the dashboard and the terminal is a step of the lease, or none.
LEMMA LeaseStep ==
  HolderInv /\ HolderInv' /\ [Next]_vars => [Promise!Next]_(Promise!leaseVars)
<1> SUFFICES ASSUME HolderInv, HolderInv', [Next]_vars
             PROVE  Promise!Next \/ UNCHANGED <<Syncing, holder # "free", silence>>
  BY DEF Promise!leaseVars
<1> USE DEF Promise!Next
<1>1. ASSUME NEW t \in Triggers, Claim(t) PROVE Promise!Take
  <2>1. Syncing = {} /\ (holder # "free" => silence > StaleSeconds)
    BY <1>1, FreeIsEmpty DEF Claim
  <2>2. at'[t] = "syncing"
    BY <1>1 DEF Claim, HolderInv, GuardInv
  <2>3. Syncing' = {t}
    BY <2>2 DEF HolderInv, GuardInv, Inside, Syncing
  <2>4. holder' # "free" /\ silence' \in 0..StaleSeconds
    BY <1>1, DashboardAssumption DEF Claim
  <2>5. QED
    BY <2>1, <2>3, <2>4 DEF Promise!Take
<1>2. CASE TerminalSync
  <2>1. Syncing = {} /\ (holder # "free" => silence > StaleSeconds)
    BY <1>2, FreeIsEmpty DEF TerminalSync
  <2>2. Syncing' = {"terminal"}
    BY <1>2, <2>1 DEF TerminalSync, Syncing
  <2>3. holder' # "free" /\ silence' \in 0..StaleSeconds
    BY <1>2, DashboardAssumption DEF TerminalSync
  <2>4. QED
    BY <2>1, <2>2, <2>3 DEF Promise!Take
<1>3. ASSUME NEW t \in Triggers, NEW good \in BOOLEAN, EndSync(t, good) PROVE Promise!Leave
  <2>1. \A u \in Triggers : at'[u] # "syncing"
    BY <1>3 DEF EndSync, HolderInv
  <2>2. Syncing' = {} /\ ~(holder' # "free") /\ silence' = 0
    BY <1>3, <2>1 DEF EndSync, Syncing
  <2>3. QED
    BY <2>2 DEF Promise!Leave
<1>4. CASE TerminalEnd
  <2>1. Syncing' = {}
    BY <1>4, SyncingAlone DEF TerminalEnd, Syncing, HolderInv
  <2>2. ~(holder' # "free") /\ silence' = 0
    BY <1>4 DEF TerminalEnd, HolderInv
  <2>3. QED
    BY <2>1, <2>2 DEF Promise!Leave
<1>5. CASE TerminalCrash
  <2>1. Syncing' = {}
    BY <1>5, SyncingAlone DEF TerminalCrash, Syncing, HolderInv
  <2>2. UNCHANGED <<holder # "free", silence>>
    BY <1>5 DEF TerminalCrash
  <2>3. QED
    BY <2>1, <2>2 DEF Promise!Leave
<1>6. CASE Crash
  <2>1. UNCHANGED <<holder # "free", silence>>
    BY <1>6 DEF Crash
  <2>2. CASE holder = "terminal"
    <3>1. Syncing = {"terminal"} /\ Syncing' = {"terminal"}
      BY <1>6, <2>2, SyncingAlone DEF Crash, Syncing
    <3>2. QED
      BY <2>1, <3>1
  <2>3. CASE holder # "terminal"
    <3>1. Syncing' = {}
      BY <1>6, <2>3 DEF Crash, Syncing
    <3>2. QED
      BY <2>1, <3>1 DEF Promise!Leave
  <2>4. QED
    BY <2>2, <2>3
<1>7. CASE Tick
  <2>1. UNCHANGED <<Syncing, holder # "free">>
    BY <1>7 DEF Tick, Syncing
  <2>2. CASE holder = "dead" /\ silence <= StaleSeconds
    <3>1. Syncing = {}
      BY <2>2, SyncingAlone
    <3>2. holder # "free" /\ silence' = silence + 1
      BY <1>7, <2>2 DEF Tick
    <3>3. QED
      BY <2>1, <3>1, <3>2 DEF Promise!Age
  <2>3. CASE ~(holder = "dead" /\ silence <= StaleSeconds)
    BY <1>7, <2>1, <2>3 DEF Tick
  <2>4. QED
    BY <2>2, <2>3
<1>8. ASSUME NEW t \in Triggers,
             Refresh(t) \/ Pass(t) \/ Skip(t) \/ Busy(t) \/ Locked(t) \/ Return(t)
      PROVE  UNCHANGED <<Syncing, holder # "free", silence>>
  <2>1. UNCHANGED <<holder, silence>>
    BY <1>8 DEF Refresh, Pass, Skip, Busy, Locked, Return
  <2>2. \A u \in Triggers : at'[u] = "syncing" <=> at[u] = "syncing"
    BY <1>8 DEF Refresh, Pass, Skip, Busy, Locked, Return, HolderInv, GuardInv
  <2>3. QED
    BY <2>1, <2>2 DEF Syncing
<1>9. CASE Wake
  <2>1. \A u \in Triggers : at'[u] = "syncing" <=> at[u] = "syncing"
    BY <1>9 DEF Wake, HolderInv, GuardInv, Triggers
  <2>2. QED
    BY <1>9, <2>1 DEF Wake, Syncing
<1>10. ASSUME UNCHANGED <<at, holder, silence>>
       PROVE  UNCHANGED <<Syncing, holder # "free", silence>>
  BY <1>10 DEF Syncing
<1>11. QED
  BY <1>1, <1>2, <1>3, <1>4, <1>5, <1>6, <1>7, <1>8, <1>9, <1>10
     DEF Next, TriggerStep, Restart, ScanClick, ScanEnd, vars, syncVars

\* The dashboard's triggers and the terminal share the lock as a lease: one sync
\* at a time across the processes, whatever dies and is started again.
THEOREM ImplementsLeaseCorrect == Spec => ImplementsLease
<1>1. Init => Promise!Init
  BY DEF Init, Promise!Init, Syncing
<1>2. QED
  BY <1>1, LeaseStep, HolderInvCorrect, PTL DEF Spec, ImplementsLease, Promise!Spec

-----------------------------------------------------------------------------

\* A scan's flag is up exactly while its one thread is alive.
ScanInv ==
  /\ scanning \in [Scans -> BOOLEAN]
  /\ scanner \in [Scans -> Nat]
  /\ result \in [Scans -> BOOLEAN]
  /\ OneScanEach

\* Clicks, ends and crashes of scans keep flag and thread together.
LEMMA ScanStep == ScanInv /\ [Next]_vars => ScanInv'
<1> SUFFICES ASSUME ScanInv, [Next]_vars PROVE ScanInv'
  OBVIOUS
<1> USE DEF ScanInv, OneScanEach
<1>1. ASSUME NEW s \in Scans, ScanClick(s) PROVE ScanInv'
  BY <1>1 DEF ScanClick, MayScan
<1>2. ASSUME NEW s \in Scans, NEW good \in BOOLEAN, ScanEnd(s, good) PROVE ScanInv'
  <2>1. ResultAfter(s, good) \in BOOLEAN
    BY DEF ResultAfter
  <2>2. result' \in [Scans -> BOOLEAN]
    BY <1>2, <2>1 DEF ScanEnd
  <2>3. QED
    BY <1>2, <2>2 DEF ScanEnd
<1>3. CASE Crash
  BY <1>3 DEF Crash
<1>4. ASSUME UNCHANGED scanVars PROVE ScanInv'
  BY <1>4 DEF scanVars
<1>5. QED
  BY <1>1, <1>2, <1>3, <1>4
     DEF Next, TriggerStep, Refresh, Wake, Pass, Skip, Claim, Busy, Locked, EndSync, Return,
         Tick, Restart, TerminalSync, TerminalEnd, TerminalCrash, vars

\* Flag and thread are together in every behaviour.
LEMMA ScanInvCorrect == Spec => []ScanInv
<1>1. Init => ScanInv
  BY DEF Init, ScanInv, OneScanEach
<1>2. QED
  BY <1>1, ScanStep, PTL DEF Spec

\* One scan of a kind at a time, and its flag falls with its thread.
THEOREM OneScanEachCorrect == Spec => []OneScanEach
<1>1. ScanInv => OneScanEach
  BY DEF ScanInv
<1>2. QED
  BY <1>1, ScanInvCorrect, PTL

\* Only a restart clears the result a page shows.
THEOREM ResultStaysCorrect == Spec => ResultStays
<1>1. ScanInv /\ [Next]_vars => [ResultStep]_vars
  <2> SUFFICES ASSUME ScanInv, [Next]_vars, NEW s \in Scans, up', result[s]
               PROVE  result'[s]
    BY DEF ResultStep
  <2>1. ASSUME NEW q \in Scans, NEW good \in BOOLEAN, ScanEnd(q, good) PROVE result'[s]
    BY <2>1 DEF ScanEnd, ResultAfter, ScanInv
  <2>2. ~Crash
    BY DEF Crash
  <2>3. ASSUME UNCHANGED result PROVE result'[s]
    BY <2>3
  <2>4. QED
    BY <2>1, <2>2, <2>3
       DEF Next, TriggerStep, Refresh, Wake, Pass, Skip, Claim, Busy, Locked, EndSync, Return,
           Tick, Restart, TerminalSync, TerminalEnd, TerminalCrash, ScanClick, scanVars, vars
<1>2. QED
  BY <1>1, ScanInvCorrect, PTL DEF Spec, ResultStays

-----------------------------------------------------------------------------
(* Types: the scheduler's delays and its count of failures are bounded *)

\* A finite set of delays has a longest one: the one with the fewest above it.
LEMMA LongestExists ==
  ASSUME NEW S \in SUBSET Nat, S # {}, IsFiniteSet(S)
  PROVE  Max(S) \in S /\ \A x \in S : x <= Max(S)
<1> DEFINE Above(x) == {y \in S : y > x}
           counts == {Cardinality(Above(x)) : x \in S}
<1>1. \A x \in S : IsFiniteSet(Above(x)) /\ Cardinality(Above(x)) \in Nat
  <2> TAKE x \in S
  <2>1. Above(x) \in SUBSET S
    OBVIOUS
  <2>2. QED
    BY <2>1, FS_Subset, FS_CardinalityType
<1>2. counts \in SUBSET Nat /\ counts # {}
  BY <1>1
<1>3. PICK c \in counts : \A d \in counts : c <= d
  BY <1>2, LeastNat
<1>4. PICK x \in S : c = Cardinality(Above(x))
  OBVIOUS
<1>5. ASSUME NEW y \in S, y > x PROVE FALSE
  <2>1. Above(y) \in SUBSET Above(x) /\ Above(y) # Above(x)
    <3>1. \A z \in Above(y) : z \in Above(x)
      BY <1>5
    <3>2. y \in Above(x) /\ y \notin Above(y)
      BY <1>5
    <3>3. QED
      BY <3>1, <3>2
  <2>2. Cardinality(Above(y)) <= Cardinality(Above(x)) /\ Cardinality(Above(y)) # Cardinality(Above(x))
    BY <1>1, <2>1, FS_Subset
  <2>3. Cardinality(Above(y)) \in counts
    OBVIOUS
  <2> HIDE DEF Above, counts
  <2>4. Cardinality(Above(y)) < c /\ Cardinality(Above(y)) \in Nat /\ c \in Nat
    BY <1>1, <1>4, <2>2
  <2>5. c <= Cardinality(Above(y))
    BY <1>3, <2>3
  <2>6. QED
    BY <2>4, <2>5
<1>6. x \in S /\ \A y \in S : x >= y
  BY <1>5
<1>7. QED
  BY <1>6 DEF Max

\* Whatever the number of failures, the next delay is one of the given ones or
\* lies below the cap.
LEMMA DelaysBounded ==
  /\ Max(Delays) \in Nat
  /\ \A d \in Delays : d \in 0..Max(Delays)
  /\ \A f \in Nat : NextDelays(f) \subseteq 0..Max(Delays)
<1>1. Delays \in SUBSET Nat /\ Delays # {} /\ RetryCap \in Delays
  BY DashboardAssumption DEF Delays
<1>2. IsFiniteSet(Delays)
  BY DashboardAssumption, FS_Union, FS_Singleton DEF Delays
<1>3. Max(Delays) \in Nat /\ \A d \in Delays : d \in 0..Max(Delays)
  <2> DEFINE longest == Max(Delays)
  <2>1. longest \in Delays /\ \A d \in Delays : d <= longest
    BY <1>1, <1>2, LongestExists
  <2> HIDE DEF longest
  <2>2. longest \in Nat /\ \A d \in Delays : d \in Nat /\ d <= longest
    BY <1>1, <2>1
  <2>3. longest \in Nat /\ \A d \in Delays : d \in 0..longest
    BY <2>2
  <2>4. QED
    BY <2>3 DEF longest
<1>4. ASSUME NEW f \in Nat, f # 0 PROVE NextDelays(f) \subseteq 0..Max(Delays)
  <2> DEFINE delay == RetryBase * 2 ^ (f - 1)
  <2>1. IsFiniteSet(1..(f - 1)) /\ Cardinality(1..(f - 1)) = f - 1
    BY <1>4, FS_Interval
  <2>2. Cardinality(SUBSET (1..(f - 1))) \in Nat /\ Cardinality(SUBSET (1..(f - 1))) = 2 ^ (f - 1)
    BY <2>1, FS_SUBSET, FS_CardinalityType
  <2>3. \A k \in Nat : RetryBase * k \in Nat
    BY DashboardAssumption
  <2>4. delay \in Nat
    BY <2>2, <2>3
  <2> HIDE DEF delay
  <2>5. NextDelays(f) = {IF delay < RetryCap THEN delay ELSE RetryCap}
    BY <1>4 DEF NextDelays, delay
  <2>6. RetryCap \in Nat /\ RetryCap <= Max(Delays)
    BY <1>1, <1>3
  <2>7. QED
    BY <1>3, <2>4, <2>5, <2>6
<1>5. NextDelays(0) \subseteq 0..Max(Delays)
  BY <1>3 DEF NextDelays, Delays
<1>6. QED
  BY <1>3, <1>4, <1>5

\* The scheduler counts a failure only below the bound: a failed attempt began
\* below it, and nobody else counts.
CountInv ==
  /\ TypeOK
  /\ ~up => at["scheduler"] = "out"
  /\ at["scheduler"] = "claiming" => ok["scheduler"]
  /\ at["scheduler"] = "ending" /\ ~ok["scheduler"] => failures < MaxFailures

\* Every step keeps the types.
LEMMA CountInvStep == CountInv /\ [Next]_vars => CountInv'
<1> SUFFICES ASSUME CountInv, [Next]_vars PROVE CountInv'
  OBVIOUS
<1> USE DEF CountInv, TypeOK, Inside
<1>1. "scheduler" \in Triggers
  BY DEF Triggers
<1>2. {StaleSeconds, MaxFailures, MaxCrashes} \subseteq Nat
  BY DashboardAssumption
<1> USE <1>1, <1>2
<1>3. ASSUME NEW t \in Triggers, Refresh(t) \/ Pass(t) PROVE CountInv'
  <2>1. Refresh(t) => t # "scheduler"
    BY DashboardAssumption DEF Refresh
  <2>2. QED
    BY <1>3, <2>1 DEF Refresh, Pass, schedVars, scanVars
<1>4. ASSUME NEW t \in Triggers, Claim(t) PROVE CountInv'
  BY <1>4 DEF Claim, schedVars, scanVars
<1>5. ASSUME NEW t \in Triggers, Busy(t) PROVE CountInv'
  BY <1>5 DEF Busy, schedVars, scanVars
<1>6. ASSUME NEW t \in Triggers, Locked(t) PROVE CountInv'
  BY <1>6 DEF Locked, schedVars, scanVars
<1>7. CASE Wake
  BY <1>7 DEF Wake, schedVars, scanVars
<1>8. ASSUME NEW t \in Triggers, Skip(t) PROVE CountInv'
  BY <1>8, DelaysBounded DEF Skip, scanVars
<1>9. ASSUME NEW t \in Triggers, NEW good \in BOOLEAN, EndSync(t, good) PROVE CountInv'
  BY <1>9 DEF EndSync, schedVars, scanVars
<1>10. ASSUME NEW t \in Triggers, Return(t) PROVE CountInv'
  <2>1. failures' \in 0..MaxFailures
    BY <1>10 DEF Return
  <2>2. timer' \in 0..Max(Delays)
    BY <1>10, <2>1, DelaysBounded DEF Return
  <2>3. QED
    BY <1>10, <2>1, <2>2 DEF Return, scanVars
<1>11. CASE Crash
  <2>1. at' \in [Triggers -> {"out", "guard"} \cup Inside] /\ at'["scheduler"] = "out"
    BY <1>11 DEF Crash
  <2>2. crashes' \in 0..MaxCrashes
    BY <1>11 DEF Crash
  <2>3. scanner' \in [Scans -> Nat] /\ scanning' \in [Scans -> BOOLEAN] /\ result' \in [Scans -> BOOLEAN]
    BY <1>11 DEF Crash
  <2>4. UNCHANGED <<ok, silence, timer, failures>> /\ up' = FALSE /\ running' = FALSE
    BY <1>11 DEF Crash, schedVars
  <2>5. holder' \in {"free", "dashboard", "terminal", "dead"}
    BY <1>11 DEF Crash
  <2>6. QED
    BY <2>1, <2>2, <2>3, <2>4, <2>5
<1>12. CASE Restart
  <2>1. timer' \in 0..Max(Delays)
    BY <1>12, DelaysBounded DEF Restart, Delays
  <2>2. QED
    BY <1>12, <2>1 DEF Restart, syncVars, scanVars
<1>13. CASE Tick
  BY <1>13, DelaysBounded DEF Tick, scanVars
<1>14. CASE TerminalSync \/ TerminalEnd \/ TerminalCrash
  BY <1>14 DEF TerminalSync, TerminalEnd, TerminalCrash, schedVars, scanVars
<1>15. ASSUME NEW s \in Scans, ScanClick(s) PROVE CountInv'
  BY <1>15 DEF ScanClick, syncVars, schedVars
<1>16. ASSUME NEW s \in Scans, NEW good \in BOOLEAN, ScanEnd(s, good) PROVE CountInv'
  <2>1. ResultAfter(s, good) \in BOOLEAN
    BY DEF ResultAfter
  <2>2. result' \in [Scans -> BOOLEAN]
    BY <1>16, <2>1 DEF ScanEnd
  <2>3. scanning' \in [Scans -> BOOLEAN] /\ scanner' \in [Scans -> Nat]
    BY <1>16 DEF ScanEnd
  <2>4. QED
    BY <1>16, <2>2, <2>3 DEF ScanEnd, syncVars, schedVars
<1>17. CASE UNCHANGED vars
  BY <1>17 DEF vars, syncVars, schedVars, scanVars
<1> HIDE DEF CountInv
<1>18. QED
  BY <1>3, <1>4, <1>5, <1>6, <1>7, <1>8, <1>9, <1>10, <1>11, <1>12, <1>13, <1>14, <1>15, <1>16,
     <1>17 DEF Next, TriggerStep

\* Every variable keeps its type: no delay exceeds the longest of the given ones,
\* however many attempts have failed.
THEOREM DashboardTypeCorrect == Spec => []TypeOK
<1>1. Init => CountInv
  <2> SUFFICES ASSUME Init PROVE CountInv
    OBVIOUS
  <2>1. timer \in 0..Max(Delays)
    BY DelaysBounded DEF Init, Delays
  <2>2. {StaleSeconds, MaxFailures, MaxCrashes} \subseteq Nat /\ "scheduler" \in Triggers
    BY DashboardAssumption DEF Triggers
  <2>3. at \in [Triggers -> {"out", "guard"} \cup Inside] /\ ok \in [Triggers -> BOOLEAN]
    BY DEF Init
  <2>4. /\ scanning \in [Scans -> BOOLEAN] /\ result \in [Scans -> BOOLEAN]
        /\ scanner \in [Scans -> Nat]
    BY DEF Init
  <2>5. at["scheduler"] = "out"
    BY <2>2 DEF Init
  <2>6. /\ silence \in 0..(StaleSeconds + 1) /\ failures \in 0..MaxFailures
        /\ crashes \in 0..MaxCrashes
    BY <2>2 DEF Init
  <2>7. QED
    BY <2>1, <2>3, <2>4, <2>5, <2>6 DEF Init, CountInv, TypeOK
<1>2. CountInv => TypeOK
  BY DEF CountInv
<1>3. QED
  BY <1>1, <1>2, CountInvStep, PTL DEF Spec

-----------------------------------------------------------------------------
(* The tagged ledger: first, numbers and folds over sequences *)

\* A set of numbers up to N that has 0, and with a number the next, has them all.
LEMMA UpTo ==
  ASSUME NEW N \in Nat, NEW S, 0 \in S, \A k \in 0..N : k \in S /\ k < N => k + 1 \in S
  PROVE  0..N \subseteq S
<1> DEFINE Bad == {k \in 0..N : k \notin S}
<1> SUFFICES ASSUME Bad # {} PROVE FALSE
  OBVIOUS
<1>1. Bad \in SUBSET Nat
  OBVIOUS
<1>2. PICK k \in Bad : \A j \in Bad : k <= j
  BY <1>1, LeastNat
<1>3. k # 0 /\ k \in 0..N
  OBVIOUS
<1>4. k - 1 \in 0..N /\ k - 1 < N /\ k - 1 + 1 = k /\ ~(k <= k - 1)
  BY <1>3
<1>5. k - 1 \in S
  BY <1>2, <1>4
<1>6. QED
  BY <1>4, <1>5

-----------------------------------------------------------------------------
(* Folding over a sequence *)

\* The greatest of a set of numbers up to k + 1.
LEMMA MaxUpTo ==
  ASSUME NEW k \in Nat, NEW s \in SUBSET (1..(k + 1)), s # {}
  PROVE  Max(s) \in s /\ s \ {Max(s)} \in SUBSET (1..k)
<1> DEFINE T == {k + 1 - x : x \in s}
<1>1. T \in SUBSET Nat /\ T # {}
  <2>1. \A x \in s : k + 1 - x \in Nat
    OBVIOUS
  <2>2. QED
    BY <2>1
<1>2. PICK t \in T : \A y \in T : t <= y
  BY <1>1, LeastNat
<1>3. PICK x \in s : t = k + 1 - x
  OBVIOUS
<1>4. \A y \in s : x >= y
  <2> TAKE y \in s
  <2>1. k + 1 - y \in T
    OBVIOUS
  <2>2. k + 1 - x <= k + 1 - y
    BY <1>2, <1>3, <2>1
  <2> HIDE DEF T
  <2>3. QED
    BY <2>2
<1>5. Max(s) \in s /\ \A y \in s : Max(s) >= y
  BY <1>3, <1>4 DEF Max
<1> DEFINE m == Max(s)
<1>6. m \in s /\ \A y \in s : m >= y
  BY <1>5
<1> HIDE DEF m, T
<1>7. s \ {m} \in SUBSET (1..k)
  BY <1>6
<1>8. QED
  BY <1>6, <1>7 DEF m

\* The functions that solve the recursion of a fold.
Solutions(D, base, seq, F) ==
  {iter \in [SUBSET DOMAIN seq -> D] :
     \A s \in SUBSET DOMAIN seq :
       iter[s] = IF s = {} THEN base ELSE F[<<iter[s \ {Max(s)}], seq[Max(s)]>>]}

\* There is one.
LEMMA FoldSolved ==
  ASSUME NEW D, NEW base \in D, NEW R, NEW seq \in Seq(R), NEW F \in [D \X R -> D]
  PROVE  \E iter : iter \in Solutions(D, base, seq, F)
<1> DEFINE N == Len(seq)
           Subsets == SUBSET DOMAIN seq
           Next_(f, s) == IF s = {} THEN base ELSE F[<<f[s \ {Max(s)}], seq[Max(s)]>>]
           Good(k) == \E f \in [Subsets -> D] : \A s \in SUBSET (1..k) : f[s] = Next_(f, s)
<1>1. N \in Nat /\ DOMAIN seq = 1..N /\ \A i \in 1..N : seq[i] \in R
  OBVIOUS
<1> HIDE DEF N
<1>2. ASSUME NEW s \in Subsets, s # {}
      PROVE  Max(s) \in DOMAIN seq /\ s \ {Max(s)} \in Subsets
  <2>1. s \in SUBSET (1..(N + 1))
    BY <1>1, <1>2
  <2>2. Max(s) \in s
    BY <1>1, <1>2, <2>1, MaxUpTo
  <2>3. QED
    BY <2>2
<1>3. ASSUME NEW f \in [Subsets -> D] PROVE [s \in Subsets |-> Next_(f, s)] \in [Subsets -> D]
  <2>1. ASSUME NEW s \in Subsets, s # {} PROVE Next_(f, s) \in D
    <3>1. f[s \ {Max(s)}] \in D /\ seq[Max(s)] \in R
      BY <1>1, <1>2, <2>1
    <3>2. QED
      BY <2>1, <3>1
  <2>2. Next_(f, {}) \in D
    OBVIOUS
  <2> HIDE DEF Next_
  <2>3. QED
    BY <2>1, <2>2
<1>4. Good(0)
  <2> DEFINE f == [s \in Subsets |-> base]
  <2>1. \A s \in SUBSET (1..0) : s = {}
    OBVIOUS
  <2>2. f \in [Subsets -> D] /\ f[{}] = base
    OBVIOUS
  <2> HIDE DEF f
  <2>3. QED
    BY <2>1, <2>2
<1>5. ASSUME NEW k \in 0..N, k < N, Good(k) PROVE Good(k + 1)
  <2>1. PICK f \in [Subsets -> D] : \A s \in SUBSET (1..k) : f[s] = Next_(f, s)
    BY <1>5
  <2> DEFINE g == [s \in Subsets |-> Next_(f, s)]
  <2>2. g \in [Subsets -> D]
    BY <1>3
  <2>3. \A s \in SUBSET (1..k) : s \in Subsets /\ g[s] = f[s]
    <3> TAKE s \in SUBSET (1..k)
    <3>1. s \in Subsets
      BY <1>1, <1>5
    <3>2. f[s] = Next_(f, s)
      BY <2>1
    <3> HIDE DEF Next_
    <3>3. g[s] = Next_(f, s)
      BY <3>1
    <3>4. QED
      BY <3>1, <3>2, <3>3
  <2>4. ASSUME NEW s \in SUBSET (1..(k + 1)) PROVE g[s] = Next_(g, s)
    <3>1. s \in Subsets
      BY <1>1, <1>5
    <3>2. CASE s = {}
      BY <3>1, <3>2
    <3>3. CASE s # {}
      <4>1. s \ {Max(s)} \in SUBSET (1..k)
        <5>1. k \in Nat
          BY <1>1
        <5>2. QED
          BY <5>1, <3>3, MaxUpTo
      <4>2. g[s \ {Max(s)}] = f[s \ {Max(s)}]
        BY <2>3, <4>1
      <4>3. g[s] = Next_(f, s)
        BY <3>1
      <4> HIDE DEF g
      <4>4. QED
        BY <3>3, <4>2, <4>3
    <3>4. QED
      BY <3>2, <3>3
  <2> HIDE DEF g, Next_
  <2>5. QED
    BY <2>2, <2>4
<1>6. Good(N)
  <2> DEFINE S == {k \in 0..N : Good(k)}
  <2> HIDE DEF Good
  <2>1. 0 \in S /\ \A k \in 0..N : k \in S /\ k < N => k + 1 \in S
    BY <1>1, <1>4, <1>5
  <2>2. 0..N \subseteq S
    <3> HIDE DEF S
    <3>1. QED
      BY <1>1, <2>1, UpTo
  <2>3. QED
    BY <1>1, <2>2
<1>7. QED
  BY <1>1, <1>6 DEF Solutions

\* A function that follows the recursion, as far as its values have the type.
Folds(fold, D, base, seq, F) ==
  /\ fold[{}] = base
  /\ \A s \in SUBSET DOMAIN seq :
       s # {} /\ fold[s \ {Max(s)}] \in D => fold[s] = F[<<fold[s \ {Max(s)}], seq[Max(s)]>>]

\* One that takes the elements one after the other.
InTurn(fold, D, base, seq, F) ==
  /\ fold[1..0] = base
  /\ \A k \in 0..Len(seq) : fold[1..k] \in D
  /\ \A k \in 1..Len(seq) : fold[1..k] = F[<<fold[1..(k - 1)], seq[k]>>]

\* The recursion does.
LEMMA FoldInTurn ==
  ASSUME NEW D, NEW base \in D, NEW R, NEW seq \in Seq(R), NEW F \in [D \X R -> D], NEW fold,
         Folds(fold, D, base, seq, F)
  PROVE  InTurn(fold, D, base, seq, F)
<1> DEFINE N == Len(seq)
<1>1. N \in Nat /\ DOMAIN seq = 1..N /\ \A i \in 1..N : seq[i] \in R
  OBVIOUS
<1>2. fold[1..0] = base
  <2>1. 1..0 = {}
    OBVIOUS
  <2>2. QED
    BY <2>1 DEF Folds
<1> HIDE DEF N
<1>3. ASSUME NEW k \in 1..N, fold[1..(k - 1)] \in D
      PROVE  fold[1..k] = F[<<fold[1..(k - 1)], seq[k]>>] /\ fold[1..k] \in D
  <2>1. 1..k \in SUBSET DOMAIN seq /\ 1..k # {}
    <3>1. 1 \in 1..k /\ \A x \in 1..k : x \in 1..N
      BY <1>1
    <3>2. QED
      BY <1>1, <3>1
  <2>2. Max(1..k) = k
    <3>1. \A y \in 1..k : k >= y
      OBVIOUS
    <3>2. \A x \in 1..k : (\A y \in 1..k : x >= y) => x = k
      OBVIOUS
    <3>3. k \in 1..k
      OBVIOUS
    <3>4. QED
      BY <3>1, <3>2, <3>3 DEF Max
  <2>3. (1..k) \ {k} = 1..(k - 1)
    OBVIOUS
  <2>4. fold[1..k] = F[<<fold[1..(k - 1)], seq[k]>>]
    BY <1>3, <2>1, <2>2, <2>3 DEF Folds
  <2>5. QED
    BY <1>1, <1>3, <2>4
<1>4. \A k \in 0..N : fold[1..k] \in D
  <2> DEFINE S == {k \in 0..N : fold[1..k] \in D}
  <2>1. 0 \in S
    BY <1>1, <1>2
  <2>2. \A k \in 0..N : k \in S /\ k < N => k + 1 \in S
    <3> SUFFICES ASSUME NEW k \in 0..N, fold[1..k] \in D, k < N PROVE fold[1..(k + 1)] \in D
      BY <1>1
    <3> DEFINE next == k + 1
    <3>1. next \in 1..N /\ next - 1 = k
      BY <1>1
    <3> HIDE DEF next
    <3>2. fold[1..next] \in D
      BY <1>3, <3>1
    <3>3. QED
      BY <3>2 DEF next
  <2> HIDE DEF S
  <2>3. 0..N \subseteq S
    BY <1>1, <2>1, <2>2, UpTo
  <2>4. QED
    BY <2>3 DEF S
<1>5. ASSUME NEW k \in 1..N PROVE fold[1..k] = F[<<fold[1..(k - 1)], seq[k]>>]
  <2>1. k - 1 \in 0..N
    BY <1>1
  <2>2. QED
    BY <1>3, <1>4, <2>1
<1>6. QED
  BY <1>2, <1>4, <1>5 DEF N, InTurn

-----------------------------------------------------------------------------
(* What a retag does to the tables *)

\* What the column of sources can hold.
Given == {NoSource} \cup {RuleBook[r].source : r \in Rules}

\* The states a retag's steps go through: events, prices and the tags set by hand
\* are as they were.
Tables(n, p, m) ==
  [count : {n}, priced : {p}, manual : {m}, auto : SUBSET (((1..n) \X Tag) \ m),
   source : [DOMAIN Events -> Given]]

\* No step takes a tag away, or a source.
Keeps(d, d2) ==
  /\ d.auto \subseteq d2.auto
  /\ \A e \in DOMAIN Events : ~Open(d, e) => d2.source[e] = d.source[e]

\* INSERT OR IGNORE.
LEMMA AddKeeps ==
  ASSUME NEW n \in 0..Len(Events), NEW p, NEW m, NEW d \in Tables(n, p, m),
         NEW new \in SUBSET ((1..n) \X Tag)
  PROVE  /\ Add(d, new) \in Tables(n, p, m)
         /\ Add(d, new).auto = d.auto \cup (new \ m)
         /\ Add(d, new).source = d.source
         /\ Keeps(d, Add(d, new))
<1> DEFINE both == d.auto \cup (new \ m)
<1>1. d.manual = m /\ d.auto \in SUBSET (((1..n) \X Tag) \ m)
  BY DEF Tables
<1>2. both \in SUBSET (((1..n) \X Tag) \ m)
  BY <1>1
<1>3. Add(d, new) = [d EXCEPT !.auto = both]
  BY <1>1 DEF Add, Tables
<1> HIDE DEF both
<1>4. Add(d, new) \in Tables(n, p, m)
  BY <1>2, <1>3 DEF Tables
<1>5. Add(d, new).auto = both /\ Add(d, new).source = d.source
  BY <1>3 DEF Tables
<1>6. QED
  BY <1>4, <1>5 DEF Keeps, both

\* The UPDATE of sources where there is none.
LEMMA GiveKeeps ==
  ASSUME NEW n \in 0..Len(Events), NEW p, NEW m, NEW d \in Tables(n, p, m), NEW found,
         DOMAIN found \subseteq {e \in 1..n : Open(d, e)},
         \A e \in DOMAIN found : found[e] \in Given
  PROVE  /\ Give(d, found) \in Tables(n, p, m)
         /\ Give(d, found).auto = d.auto
         /\ \A e \in DOMAIN found : Give(d, found).source[e] = found[e]
         /\ \A e \in DOMAIN Events \ DOMAIN found : Give(d, found).source[e] = d.source[e]
         /\ Keeps(d, Give(d, found))
<1> DEFINE new == [e \in DOMAIN d.source |->
                     IF e \in DOMAIN found THEN found[e] ELSE d.source[e]]
<1>1. d.source \in [DOMAIN Events -> Given] /\ 1..n \subseteq DOMAIN Events
  BY TaggingAssumption DEF Tables
<1>2. /\ new \in [DOMAIN Events -> Given]
      /\ \A e \in DOMAIN found : new[e] = found[e]
      /\ \A e \in DOMAIN Events \ DOMAIN found : new[e] = d.source[e]
  BY <1>1
<1>3. Give(d, found) = [d EXCEPT !.source = new]
  BY DEF Give
<1> HIDE DEF new
<1>4. Give(d, found) \in Tables(n, p, m)
  BY <1>2, <1>3 DEF Tables
<1>5. Give(d, found).auto = d.auto /\ Give(d, found).source = new
  BY <1>3 DEF Tables
<1>6. QED
  BY <1>2, <1>4, <1>5 DEF Keeps, Open

\* Steps that keep what there is keep it together.
LEMMA KeepsOn ==
  ASSUME NEW a, NEW b, NEW c, Keeps(a, b), Keeps(b, c)
  PROVE  Keeps(a, c)
  BY DEF Keeps, Open

\* One rule: its source where there was none, for the events it fits.
LEMMA RuleKeeps ==
  ASSUME NEW n \in 0..Len(Events), NEW p, NEW m, NEW d \in Tables(n, p, m), NEW r \in Rules
  PROVE  /\ ApplyRule(d, r) \in Tables(n, p, m)
         /\ Keeps(d, ApplyRule(d, r))
         /\ \A e \in 1..n : Open(d, e) =>
              ApplyRule(d, r).source[e] =
                IF Fits(RuleBook[r].match, e) THEN RuleBook[r].source ELSE NoSource
<1> DEFINE hit == {e \in 1..n : Fits(RuleBook[r].match, e)}
           open == {e \in hit : Open(d, e)}
           d1 == Add(d, hit \X RuleBook[r].tags)
           found == [e \in open |-> RuleBook[r].source]
<1>1. Rows(d) = 1..n
  BY DEF Tables, Rows
<1>2. ApplyRule(d, r) = Give(d1, found)
  BY <1>1 DEF ApplyRule
<1>3. hit \X RuleBook[r].tags \in SUBSET ((1..n) \X Tag)
  BY DEF Tag
<1> HIDE DEF hit
<1>4. d1 \in Tables(n, p, m) /\ d1.source = d.source /\ Keeps(d, d1)
  BY <1>3, AddKeeps
<1> USE DEF hit
<1>5. DOMAIN found \subseteq {e \in 1..n : Open(d1, e)}
  BY <1>4 DEF Open
<1>6. \A e \in DOMAIN found : found[e] = RuleBook[r].source /\ found[e] \in Given
  BY DEF Given
<1>7. DOMAIN found = {e \in 1..n : Fits(RuleBook[r].match, e) /\ Open(d, e)}
  OBVIOUS
<1>8. 1..n \subseteq DOMAIN Events
  BY TaggingAssumption
<1> HIDE DEF found, d1, hit
<1>9. /\ Give(d1, found) \in Tables(n, p, m)
      /\ Keeps(d1, Give(d1, found))
      /\ \A e \in DOMAIN found : Give(d1, found).source[e] = found[e]
      /\ \A e \in DOMAIN Events \ DOMAIN found : Give(d1, found).source[e] = d1.source[e]
  BY <1>4, <1>5, <1>6, GiveKeeps
<1>10. Keeps(d, Give(d1, found))
  BY <1>4, <1>9, KeepsOn
<1>11. ASSUME NEW e \in 1..n, Open(d, e)
       PROVE  Give(d1, found).source[e] =
                IF Fits(RuleBook[r].match, e) THEN RuleBook[r].source ELSE NoSource
  BY <1>4, <1>6, <1>7, <1>8, <1>9, <1>11 DEF Open
<1>12. QED
  BY <1>2, <1>9, <1>10, <1>11

\* A row of the rule table.
Row == [rule : Rules, enabled : BOOLEAN]

-----------------------------------------------------------------------------
(* ORDER BY priority, id *)

\* Of two rules one precedes the other.
LEMMA PrecedesOrders ==
  ASSUME NEW table \in Seq(Row)
  PROVE  /\ \A i \in DOMAIN table : ~Precedes(table, i, i)
         /\ \A i, j, k \in DOMAIN table :
              Precedes(table, i, j) /\ Precedes(table, j, k) => Precedes(table, i, k)
         /\ \A i, j \in DOMAIN table : i # j => Precedes(table, i, j) \/ Precedes(table, j, i)
<1>1. DOMAIN table = 1..Len(table) /\ Len(table) \in Nat
  OBVIOUS
<1>2. \A i \in DOMAIN table : i \in Nat /\ RuleBook[table[i].rule].priority \in Nat
  <2> TAKE i \in DOMAIN table
  <2>1. table[i] \in Row
    OBVIOUS
  <2>2. table[i].rule \in Rules
    BY <2>1 DEF Row
  <2>3. QED
    BY <1>1, <2>2, TaggingAssumption
<1> DEFINE priority(i) == RuleBook[table[i].rule].priority
<1>3. \A i, j \in DOMAIN table :
        Precedes(table, i, j) <=> priority(i) < priority(j) \/ (priority(i) = priority(j) /\ i < j)
  BY DEF Precedes
<1> HIDE DEF priority
<1>4. \A i \in DOMAIN table : i \in Nat /\ priority(i) \in Nat
  BY <1>2 DEF priority
<1>5. QED
  BY <1>3, <1>4

\* The table in order: every rule has its place, and a rule that precedes another
\* comes before it.
LEMMA SortedByPriority ==
  ASSUME NEW table \in Seq(Row)
  PROVE  \E place \in [DOMAIN table -> DOMAIN table] :
           /\ ByPriority(table) = [n \in DOMAIN table |-> table[place[n]]]
           /\ \A i \in DOMAIN table : \E n \in DOMAIN table : place[n] = i
           /\ \A n, k \in DOMAIN table : n < k => Precedes(table, place[n], place[k])
<1> DEFINE Ids == DOMAIN table
           N == Len(table)
           Ahead(i) == {j \in Ids : Precedes(table, j, i)}
           rank == [i \in Ids |-> Cardinality(Ahead(i))]
           place == [n \in Ids |-> CHOOSE i \in Ids : Cardinality(Ahead(i)) = n - 1]
<1>1. Ids = 1..N /\ N \in Nat
  OBVIOUS
<1>2. IsFiniteSet(Ids) /\ Cardinality(Ids) = N
  BY <1>1, FS_Interval
<1>3. \A i \in Ids : IsFiniteSet(Ahead(i)) /\ Cardinality(Ahead(i)) \in Nat
  <2> TAKE i \in Ids
  <2>1. Ahead(i) \in SUBSET Ids
    OBVIOUS
  <2>2. IsFiniteSet(Ahead(i))
    BY <1>2, <2>1, FS_Subset
  <2> HIDE DEF Ahead
  <2>3. QED
    BY <2>2, FS_CardinalityType
<1>4. ASSUME NEW i \in Ids, NEW j \in Ids, Precedes(table, i, j)
      PROVE  Cardinality(Ahead(i)) < Cardinality(Ahead(j))
  <2>1. Ahead(i) \in SUBSET Ahead(j)
    BY <1>4, PrecedesOrders
  <2>2. i \in Ahead(j) /\ i \notin Ahead(i)
    BY <1>4, PrecedesOrders
  <2>3. Ahead(i) # Ahead(j)
    BY <2>2
  <2>4. Cardinality(Ahead(i)) <= Cardinality(Ahead(j)) /\ Cardinality(Ahead(i)) # Cardinality(Ahead(j))
    BY <1>3, <2>1, <2>3, FS_Subset
  <2> HIDE DEF Ahead
  <2>5. QED
    BY <1>3, <2>4
<1>5. \A i \in Ids : Cardinality(Ahead(i)) \in 0..(N - 1)
  <2> TAKE i \in Ids
  <2>1. Ahead(i) \in SUBSET (Ids \ {i})
    BY PrecedesOrders
  <2>2. IsFiniteSet(Ids \ {i}) /\ Cardinality(Ids \ {i}) = N - 1
    BY <1>2, FS_RemoveElement
  <2>3. Cardinality(Ahead(i)) <= N - 1
    BY <2>1, <2>2, FS_Subset
  <2> HIDE DEF Ahead
  <2>4. QED
    BY <1>1, <1>3, <2>3
<1>6. \A i, j \in Ids : rank[i] = rank[j] => i = j
  <2> SUFFICES ASSUME NEW i \in Ids, NEW j \in Ids, i # j PROVE rank[i] # rank[j]
    OBVIOUS
  <2>1. Cardinality(Ahead(i)) < Cardinality(Ahead(j)) \/ Cardinality(Ahead(j)) < Cardinality(Ahead(i))
    BY <1>4, PrecedesOrders
  <2>2. rank[i] = Cardinality(Ahead(i)) /\ rank[j] = Cardinality(Ahead(j))
    OBVIOUS
  <2> HIDE DEF Ahead, rank
  <2>3. QED
    BY <1>3, <2>1, <2>2
<1>7. rank \in Surjection(Ids, 0..(N - 1))
  <2>1. rank \in [Ids -> 0..(N - 1)]
    BY <1>5
  <2>2. rank \in Injection(Ids, 0..(N - 1))
    <3> HIDE DEF rank
    <3>1. QED
      BY <1>6, <2>1 DEF Injection, IsInjective
  <2>3. IsFiniteSet(0..(N - 1)) /\ Cardinality(0..(N - 1)) = N
    BY <1>1, FS_Interval
  <2> HIDE DEF rank
  <2>4. QED
    BY <1>2, <2>2, <2>3, FS_Injection
<1>8. ASSUME NEW n \in Ids PROVE place[n] \in Ids /\ rank[place[n]] = n - 1
  <2>1. n - 1 \in 0..(N - 1)
    BY <1>1
  <2>2. \E i \in Ids : rank[i] = n - 1
    <3> HIDE DEF rank
    <3>1. QED
      BY <1>7, <2>1 DEF Surjection
  <2>3. \E i \in Ids : Cardinality(Ahead(i)) = n - 1
    BY <2>2
  <2> HIDE DEF Ahead
  <2>4. place[n] \in Ids /\ Cardinality(Ahead(place[n])) = n - 1
    BY <2>3
  <2>5. QED
    BY <2>4
<1>9. place \in [Ids -> Ids]
  <2> DEFINE spot(n) == CHOOSE i \in Ids : Cardinality(Ahead(i)) = n - 1
  <2>1. ASSUME NEW n \in Ids PROVE spot(n) \in Ids
    BY <1>8
  <2>2. place = [n \in Ids |-> spot(n)]
    OBVIOUS
  <2> HIDE DEF place, spot
  <2>3. QED
    BY <2>1, <2>2
<1>10. ByPriority(table) = [n \in Ids |-> table[place[n]]]
  BY DEF ByPriority
<1> HIDE DEF place
<1>11. ASSUME NEW i \in Ids PROVE \E n \in Ids : place[n] = i
  <2> HIDE DEF Ahead
  <2>1. rank[i] \in 0..(N - 1)
    BY <1>5
  <2> HIDE DEF rank
  <2> DEFINE n == rank[i] + 1
  <2>2. n \in Ids
    BY <1>1, <2>1
  <2>3. n - 1 = rank[i]
    BY <2>1
  <2> HIDE DEF n
  <2>4. rank[place[n]] = rank[i] /\ place[n] \in Ids
    BY <1>8, <2>2, <2>3
  <2>5. place[n] = i
    BY <1>6, <2>4
  <2>6. QED
    BY <2>2, <2>5
<1>12. ASSUME NEW n \in Ids, NEW k \in Ids, n < k PROVE Precedes(table, place[n], place[k])
  <2>1. place[n] \in Ids /\ place[k] \in Ids /\ rank[place[n]] = n - 1 /\ rank[place[k]] = k - 1
    BY <1>8
  <2> HIDE DEF Ahead
  <2>2. Cardinality(Ahead(place[n])) = n - 1 /\ Cardinality(Ahead(place[k])) = k - 1
    BY <2>1
  <2> HIDE DEF rank
  <2>3. n \in Int /\ k \in Int
    BY <1>1
  <2>4. ~(k - 1 < n - 1) /\ n - 1 # k - 1
    BY <1>12, <2>3
  <2>5. ~Precedes(table, place[k], place[n]) /\ place[n] # place[k]
    BY <1>4, <2>1, <2>2, <2>4
  <2>6. QED
    BY <2>1, <2>5, PrecedesOrders
<1>13. QED
  BY <1>9, <1>10, <1>11, <1>12

\* The table in order has the same rows, and is in order.
LEMMA OrderIsFixed ==
  ASSUME NEW table \in Seq(Row)
  PROVE  /\ ByPriority(table) \in Seq(Row) /\ Len(ByPriority(table)) = Len(table)
         /\ ByPriority(ByPriority(table)) = ByPriority(table)
<1> DEFINE Ids == DOMAIN table
           N == Len(table)
           rows == ByPriority(table)
           Ahead(n) == {k \in Ids : Precedes(rows, k, n)}
<1>1. Ids = 1..N /\ N \in Nat /\ \A i \in Ids : table[i] \in Row
  OBVIOUS
<1>2. PICK place \in [Ids -> Ids] :
         /\ rows = [n \in Ids |-> table[place[n]]]
         /\ \A n, k \in Ids : n < k => Precedes(table, place[n], place[k])
  BY SortedByPriority
<1> HIDE DEF rows
<1>3. rows \in [1..N -> Row]
  BY <1>1, <1>2
<1>4. rows \in Seq(Row) /\ Len(rows) = N /\ DOMAIN rows = Ids
  BY <1>1, <1>3
<1>5. ASSUME NEW n \in Ids, NEW k \in Ids, k < n PROVE Precedes(rows, k, n)
  <2>1. rows[k] = table[place[k]] /\ rows[n] = table[place[n]]
    BY <1>2
  <2>2. Precedes(table, place[k], place[n])
    BY <1>2, <1>5
  <2>3. /\ RuleBook[rows[k].rule].priority \in Nat /\ RuleBook[rows[n].rule].priority \in Nat
        /\ RuleBook[rows[k].rule].priority <= RuleBook[rows[n].rule].priority
    <3>1. rows[k].rule \in Rules /\ rows[n].rule \in Rules
      BY <1>1, <1>3 DEF Row
    <3>2. RuleBook[rows[k].rule].priority \in Nat /\ RuleBook[rows[n].rule].priority \in Nat
      BY <3>1, TaggingAssumption
    <3>3. QED
      BY <2>1, <2>2, <3>2 DEF Precedes
  <2>4. QED
    BY <1>5, <2>3 DEF Precedes
<1>6. \A n \in Ids : Ahead(n) = 1..(n - 1)
  <2> TAKE n \in Ids
  <2>1. ASSUME NEW k \in Ids PROVE Precedes(rows, k, n) <=> k < n
    BY <1>1, <1>4, <1>5, PrecedesOrders
  <2>2. \A k : k \in 1..(n - 1) <=> k \in Ids /\ k < n
    BY <1>1
  <2>3. QED
    BY <2>1, <2>2
<1>7. \A n \in Ids : Cardinality(Ahead(n)) = n - 1
  <2> TAKE n \in Ids
  <2>1. n - 1 \in Nat /\ 1 \in Int
    BY <1>1
  <2>2. Cardinality(1..(n - 1)) = n - 1
    BY <2>1, FS_Interval
  <2>3. QED
    BY <1>6, <2>2
<1> HIDE DEF Ahead
<1>8. \A n \in Ids : (CHOOSE i \in Ids : Cardinality(Ahead(i)) = n - 1) = n
  <2> TAKE n \in Ids
  <2>1. ASSUME NEW i \in Ids, Cardinality(Ahead(i)) = n - 1 PROVE i = n
    <3>1. i - 1 = n - 1 /\ i \in Int /\ n \in Int
      BY <1>1, <1>7, <2>1
    <3>2. QED
      BY <3>1
  <2>2. QED
    BY <1>7, <2>1
<1>9. ByPriority(rows) = rows
  <2>1. ByPriority(rows) = [n \in Ids |-> rows[CHOOSE i \in Ids : Cardinality(Ahead(i)) = n - 1]]
    BY <1>4 DEF ByPriority, Ahead
  <2>2. rows = [n \in Ids |-> rows[n]]
    BY <1>3, <1>4
  <2>3. QED
    BY <1>8, <2>1, <2>2
<1>10. QED
  BY <1>4, <1>9 DEF rows

-----------------------------------------------------------------------------
(* The steps of a retag *)

\* The rules one after the other, as the states of the tables in between.
LEMMA RulesInTurn ==
  ASSUME NEW n \in 0..Len(Events), NEW p, NEW m, NEW d \in Tables(n, p, m), NEW table \in Seq(Row)
  PROVE  \E after \in [0..Len(table) -> Tables(n, p, m)] :
           /\ after[0] = d
           /\ \A k \in 1..Len(table) : after[k] = ApplyRow(after[k - 1], ByPriority(table)[k])
           /\ ApplyRules(d, table) = after[Len(table)]
<1> DEFINE D == Tables(n, p, m)
           rows == ByPriority(table)
           N == Len(table)
           F == [x \in D \X Row |-> ApplyRow(x[1], x[2])]
           Step(iter, s) == IF s = {} THEN d
                            ELSE ApplyRow(iter[s \ {Max(s)}], rows[Max(s)])
<1>1. N \in Nat /\ DOMAIN rows = 1..N /\ \A k \in 1..N : rows[k] \in Row
  <2>1. rows \in Seq(Row) /\ Len(rows) = N
    BY OrderIsFixed
  <2> HIDE DEF rows
  <2>2. QED
    BY <2>1
<1>2. \A x \in D, row \in Row : ApplyRow(x, row) \in D
  BY RuleKeeps DEF ApplyRow, Row
<1> HIDE DEF D
<1>3. F \in [D \X Row -> D]
  BY <1>2
<1>4. d \in D
  BY DEF D
<1>5. PICK iter \in [SUBSET DOMAIN rows -> D] :
         \A s \in SUBSET DOMAIN rows :
           iter[s] = IF s = {} THEN d ELSE F[<<iter[s \ {Max(s)}], rows[Max(s)]>>]
  <2>1. rows \in Seq(Row)
    BY OrderIsFixed
  <2> HIDE DEF rows, N, Step, F
  <2>2. PICK iter : iter \in Solutions(D, d, rows, F)
    BY <1>3, <1>4, <2>1, FoldSolved
  <2>3. QED
    BY <2>2 DEF Solutions
<1> HIDE DEF rows, N
<1>6. ASSUME NEW s \in SUBSET DOMAIN rows, s # {}
      PROVE  Max(s) \in DOMAIN rows /\ s \ {Max(s)} \in SUBSET DOMAIN rows
  <2>1. s \in SUBSET (1..(N + 1))
    BY <1>1, <1>6
  <2>2. Max(s) \in s
    BY <1>1, <1>6, <2>1, MaxUpTo
  <2>3. QED
    BY <2>2
<1>7. iter = [s \in SUBSET DOMAIN rows |-> Step(iter, s)]
  <2>1. ASSUME NEW s \in SUBSET DOMAIN rows PROVE iter[s] = Step(iter, s)
    <3>1. CASE s = {}
      BY <1>5, <3>1
    <3>2. CASE s # {}
      <4>1. <<iter[s \ {Max(s)}], rows[Max(s)]>> \in D \X Row
        BY <1>1, <1>5, <1>6, <3>2
      <4>2. QED
        BY <1>5, <3>2, <4>1
    <3>3. QED
      BY <3>1, <3>2
  <2> HIDE DEF Step
  <2>2. QED
    BY <1>5, <2>1
<1> DEFINE fold == CHOOSE f : f = [s \in SUBSET DOMAIN rows |-> Step(f, s)]
<1>8. fold = [s \in SUBSET DOMAIN rows |-> Step(fold, s)]
  BY <1>7
<1>9. ApplyRules(d, table) = fold[DOMAIN rows]
  BY DEF ApplyRules, FoldLeft, MapThenFoldSet, rows
<1>10. Folds(fold, D, d, rows, F)
  <2>1. fold[{}] = d
    BY <1>8
  <2>2. ASSUME NEW s \in SUBSET DOMAIN rows, s # {}, fold[s \ {Max(s)}] \in D
        PROVE  fold[s] = F[<<fold[s \ {Max(s)}], rows[Max(s)]>>]
    <3> HIDE DEF fold
    <3>1. fold[s] = ApplyRow(fold[s \ {Max(s)}], rows[Max(s)])
      BY <1>8, <2>2
    <3>2. rows[Max(s)] \in Row
      BY <1>1, <1>6, <2>2
    <3>3. <<fold[s \ {Max(s)}], rows[Max(s)]>> \in D \X Row
      BY <2>2, <3>2
    <3>4. QED
      BY <3>1, <3>3
  <2> HIDE DEF fold, F
  <2>3. QED
    BY <2>1, <2>2 DEF Folds
<1> HIDE DEF fold, Step
<1>11. /\ fold[1..0] = d
       /\ \A k \in 0..N : fold[1..k] \in D
       /\ \A k \in 1..N : fold[1..k] = F[<<fold[1..(k - 1)], rows[k]>>]
  <2>1. rows \in Seq(Row) /\ Len(rows) = N
    BY OrderIsFixed DEF rows, N
  <2> HIDE DEF F
  <2>2. InTurn(fold, D, d, rows, F)
    BY <1>3, <1>4, <1>10, <2>1, FoldInTurn
  <2>3. QED
    BY <2>1, <2>2 DEF InTurn
<1> DEFINE after == [k \in 0..N |-> fold[1..k]]
<1>12. after[0] = d /\ after[N] = ApplyRules(d, table) /\ after \in [0..N -> D]
  BY <1>1, <1>9, <1>11
<1>13. ASSUME NEW k \in 1..N PROVE after[k] = ApplyRow(after[k - 1], rows[k])
  <2>1. k - 1 \in 0..N /\ k \in 0..N /\ rows[k] \in Row
    BY <1>1
  <2>2. fold[1..k] = ApplyRow(fold[1..(k - 1)], rows[k])
    BY <1>11, <2>1
  <2> HIDE DEF F
  <2>3. QED
    BY <2>1, <2>2
<1>14. QED
  <2> HIDE DEF after
  <2>1. QED
    BY <1>12, <1>13 DEF N, D, rows

\* Rule i of the table has a source for the event.
HasSource(table, i, e) ==
  /\ table[i].enabled
  /\ RuleBook[table[i].rule].source # NoSource
  /\ Fits(RuleBook[table[i].rule].match, e)

\* It is the first that has.
First(table, i, e) ==
  /\ HasSource(table, i, e)
  /\ \A j \in DOMAIN table \ {i} : HasSource(table, j, e) => Precedes(table, i, j)

\* A row of the table, applied or skipped.
LEMMA RowKeeps ==
  ASSUME NEW n \in 0..Len(Events), NEW p, NEW m, NEW d \in Tables(n, p, m), NEW table \in Seq(Row),
         NEW i \in DOMAIN table
  PROVE  /\ ApplyRow(d, table[i]) \in Tables(n, p, m)
         /\ Keeps(d, ApplyRow(d, table[i]))
         /\ \A e \in 1..n : Open(d, e) =>
              ApplyRow(d, table[i]).source[e] =
                IF HasSource(table, i, e) THEN RuleBook[table[i].rule].source ELSE NoSource
<1>1. table[i] \in Row
  OBVIOUS
<1>2. table[i].rule \in Rules
  BY <1>1 DEF Row
<1>3. CASE table[i].enabled
  <2>1. ApplyRow(d, table[i]) = ApplyRule(d, table[i].rule)
    BY <1>3 DEF ApplyRow
  <2>2. QED
    BY <1>2, <1>3, <2>1, RuleKeeps DEF HasSource
<1>4. CASE ~table[i].enabled
  <2>1. ApplyRow(d, table[i]) = d
    BY <1>4 DEF ApplyRow
  <2>2. QED
    BY <1>4, <2>1 DEF HasSource, Keeps, Open
<1>5. QED
  BY <1>3, <1>4

\* The rules keep what there is, and an event without a source gets that of the
\* first rule that has one for it.
LEMMA RulesKeep ==
  ASSUME NEW n \in 0..Len(Events), NEW p, NEW m, NEW d \in Tables(n, p, m), NEW table \in Seq(Row)
  PROVE  /\ ApplyRules(d, table) \in Tables(n, p, m)
         /\ Keeps(d, ApplyRules(d, table))
         /\ \A e \in 1..n, i \in DOMAIN table :
              Open(d, e) /\ First(table, i, e) =>
                ApplyRules(d, table).source[e] = RuleBook[table[i].rule].source
<1> DEFINE rows == ByPriority(table)
           N == Len(table)
<1>1. rows \in Seq(Row) /\ Len(rows) = N /\ N \in Nat /\ DOMAIN table = 1..N
  BY OrderIsFixed
<1>2. PICK place \in [1..N -> 1..N] :
         /\ \A k \in 1..N : rows[k] = table[place[k]]
         /\ \A i \in 1..N : \E k \in 1..N : place[k] = i
         /\ \A k, l \in 1..N : k < l => Precedes(table, place[k], place[l])
  <2>1. PICK place \in [DOMAIN table -> DOMAIN table] :
           /\ rows = [k \in DOMAIN table |-> table[place[k]]]
           /\ \A i \in DOMAIN table : \E k \in DOMAIN table : place[k] = i
           /\ \A k, l \in DOMAIN table : k < l => Precedes(table, place[k], place[l])
    BY SortedByPriority
  <2> HIDE DEF rows
  <2>2. QED
    BY <1>1, <2>1
<1>3. PICK after \in [0..N -> Tables(n, p, m)] :
         /\ after[0] = d
         /\ \A k \in 1..N : after[k] = ApplyRow(after[k - 1], rows[k])
         /\ ApplyRules(d, table) = after[N]
  BY RulesInTurn
<1> HIDE DEF rows, N
<1>4. ASSUME NEW k \in 0..N, k < N
      PROVE  /\ place[k + 1] \in DOMAIN table /\ k + 1 \in 1..N
             /\ after[k] \in Tables(n, p, m)
             /\ after[k + 1] = ApplyRow(after[k], table[place[k + 1]])
  <2>1. k + 1 \in 1..N /\ k + 1 - 1 = k
    BY <1>1, <1>4
  <2>2. place[k + 1] \in 1..N
    BY <1>2, <2>1
  <2>3. after[k + 1] = ApplyRow(after[k + 1 - 1], rows[k + 1])
    BY <1>3, <2>1
  <2>4. QED
    BY <1>1, <1>2, <1>3, <2>1, <2>2, <2>3
<1>5. \A k \in 0..N : Keeps(d, after[k])
  <2> DEFINE S == {k \in 0..N : Keeps(d, after[k])}
  <2>1. 0 \in S
    BY <1>1, <1>3 DEF Keeps
  <2>2. \A k \in 0..N : k \in S /\ k < N => k + 1 \in S
    <3> SUFFICES ASSUME NEW k \in 0..N, Keeps(d, after[k]), k < N PROVE Keeps(d, after[k + 1])
      BY <1>4
    <3>1. Keeps(after[k], after[k + 1])
      BY <1>4, RowKeeps
    <3>2. QED
      BY <3>1, KeepsOn
  <2> HIDE DEF S
  <2>3. 0..N \subseteq S
    BY <1>1, <2>1, <2>2, UpTo
  <2>4. QED
    BY <2>3 DEF S
<1>6. ASSUME NEW e \in 1..n, NEW i \in DOMAIN table, Open(d, e), First(table, i, e)
      PROVE  after[N].source[e] = RuleBook[table[i].rule].source
  <2> DEFINE src == RuleBook[table[i].rule].source
  <2>1. PICK l \in 1..N : place[l] = i
    BY <1>1, <1>2, <1>6
  <2>2. l \in Nat /\ e \in DOMAIN Events
    BY <1>1, TaggingAssumption
  <2>3. src # NoSource
    BY <1>6 DEF First, HasSource
  <2>4. ASSUME NEW k \in 1..N, k < l PROVE ~HasSource(table, place[k], e)
    <3>1. Precedes(table, place[k], i) /\ place[k] \in DOMAIN table
      BY <1>1, <1>2, <2>1, <2>4
    <3>2. place[k] # i /\ ~Precedes(table, i, place[k])
      BY <3>1, PrecedesOrders
    <3>3. QED
      BY <1>6, <3>1, <3>2 DEF First
  <2> DEFINE Right(k) == IF k < l THEN Open(after[k], e) ELSE after[k].source[e] = src
             S == {k \in 0..N : Right(k)}
  <2>5. 0 \in S
    BY <1>1, <1>3, <1>6, <2>2
  <2>6. \A k \in 0..N : k \in S /\ k < N => k + 1 \in S
    <3> SUFFICES ASSUME NEW k \in 0..N, Right(k), k < N PROVE Right(k + 1)
      BY <1>4
    <3> HIDE DEF src
    <3>1. /\ Keeps(after[k], after[k + 1])
          /\ Open(after[k], e) =>
               after[k + 1].source[e] = IF HasSource(table, place[k + 1], e)
                                        THEN RuleBook[table[place[k + 1]].rule].source
                                        ELSE NoSource
      BY <1>4, RowKeeps
    <3>2. CASE k + 1 < l
      <4>1. Open(after[k], e)
        BY <2>2, <3>2
      <4>2. ~HasSource(table, place[k + 1], e)
        BY <1>4, <2>4, <3>2
      <4>3. QED
        BY <3>1, <3>2, <4>1, <4>2 DEF Open
    <3>3. CASE k + 1 = l
      <4>1. Open(after[k], e)
        BY <2>2, <3>3
      <4>2. HasSource(table, place[k + 1], e) /\ place[k + 1] = i
        BY <1>6, <2>1, <3>3 DEF First
      <4>3. after[k + 1].source[e] = src
        BY <3>1, <4>1, <4>2 DEF src
      <4>4. QED
        BY <2>2, <3>3, <4>3
    <3>4. CASE ~(k + 1 <= l)
      <4>1. ~(k < l) /\ ~(k + 1 < l)
        BY <2>2, <3>4
      <4>2. after[k].source[e] = src
        BY <4>1
      <4>3. after[k + 1].source[e] = src
        BY <2>2, <2>3, <3>1, <4>2 DEF Keeps, Open
      <4>4. QED
        BY <4>1, <4>3
    <3>5. QED
      BY <2>2, <3>2, <3>3, <3>4
  <2> HIDE DEF S
  <2>7. 0..N \subseteq S
    BY <1>1, <2>5, <2>6, UpTo
  <2>8. N \in S /\ ~(N < l)
    BY <1>1, <2>7
  <2>9. QED
    BY <2>8 DEF S
<1>7. N \in 0..N
  BY <1>1
<1>8. QED
  BY <1>3, <1>5, <1>6, <1>7

\* The tags no rule and no hand sets.
Inferred == {"own-transfer", "deposit", "withdraw", "swap", "reinvest", "venft-purchase", "spam"}

\* The tags a retag infers are among the tags.
LEMMA InferredTags == Inferred \subseteq Tag
<1> DEFINE ruled == UNION {RuleBook[r].tags : r \in Rules}
           hand == {pair[2] : pair \in HandTags}
<1>1. Tag = ruled \cup hand \cup Inferred
  BY DEF Tag, Inferred
<1> HIDE DEF ruled, hand
<1>2. QED
  BY <1>1

\* Routed legs: a tag, and the source of a share leg.
LEMMA PairKeeps ==
  ASSUME NEW n \in 0..Len(Events), NEW p, NEW m, NEW d \in Tables(n, p, m),
         NEW assetKind, NEW shareKind, NEW tag \in Tag
  PROVE  /\ Pair(d, assetKind, shareKind, tag) \in Tables(n, p, m)
         /\ Keeps(d, Pair(d, assetKind, shareKind, tag))
<1> DEFINE legs(e) == Shares(d, e, shareKind, tag)
           routed == {e \in Rows(d) :
                        /\ Events[e].kind = assetKind
                        /\ \E s \in legs(e) : Events[s].contract # Events[e].contract}
           open == {e \in routed : Open(d, e)}
           d1 == Add(d, Mark(routed, tag))
           found == [e \in open |-> d.source[CHOOSE s \in legs(e) : TRUE]]
<1>1. Rows(d) = 1..n /\ 1..n \subseteq DOMAIN Events /\ d.source \in [DOMAIN Events -> Given]
  BY TaggingAssumption DEF Tables, Rows
<1>2. Pair(d, assetKind, shareKind, tag) = Give(d1, found)
  BY DEF Pair
<1>3. \A e \in open : (CHOOSE s \in legs(e) : TRUE) \in 1..n
  <2>1. \A e \in open : legs(e) # {} /\ legs(e) \subseteq 1..n
    BY <1>1 DEF Shares
  <2> HIDE DEF legs, open
  <2>2. QED
    BY <2>1
<1>4. routed \subseteq 1..n /\ open \subseteq 1..n
  BY <1>1
<1> HIDE DEF legs
<1>5. \A e \in DOMAIN found : found[e] \in Given
  <2> HIDE DEF open
  <2>1. QED
    BY <1>1, <1>3
<1> HIDE DEF routed
<1>6. Mark(routed, tag) \in SUBSET ((1..n) \X Tag)
  BY <1>4 DEF Mark
<1>7. d1 \in Tables(n, p, m) /\ d1.source = d.source /\ Keeps(d, d1)
  BY <1>6, AddKeeps
<1> HIDE DEF d1
<1>8. DOMAIN found \subseteq {e \in 1..n : Open(d1, e)}
  BY <1>4, <1>7 DEF Open
<1> HIDE DEF found
<1>9. Give(d1, found) \in Tables(n, p, m) /\ Keeps(d1, Give(d1, found))
  BY <1>5, <1>7, <1>8, GiveKeeps
<1>10. QED
  BY <1>2, <1>7, <1>9, KeepsOn

\* Gas takes the source of its transaction.
LEMMA GasKeeps ==
  ASSUME NEW n \in 0..Len(Events), NEW p, NEW m, NEW d \in Tables(n, p, m)
  PROVE  InheritGas(d) \in Tables(n, p, m) /\ Keeps(d, InheritGas(d))
<1> DEFINE Sourced(e) == {s \in Rows(d) : Events[s].tx = Events[e].tx /\ ~Open(d, s)}
           open == {e \in Rows(d) \ TransfersOf(d) : Open(d, e) /\ Sourced(e) # {}}
           found == [e \in open |->
                       d.source[CHOOSE s \in Sourced(e) : \A q \in Sourced(e) : s <= q]]
<1>1. Rows(d) = 1..n /\ 1..n \subseteq DOMAIN Events /\ d.source \in [DOMAIN Events -> Given]
  BY TaggingAssumption DEF Tables, Rows
<1>2. InheritGas(d) = Give(d, found)
  BY DEF InheritGas
<1>3. ASSUME NEW e \in open PROVE (CHOOSE s \in Sourced(e) : \A q \in Sourced(e) : s <= q) \in 1..n
  <2>1. Sourced(e) \in SUBSET Nat /\ Sourced(e) \subseteq 1..n /\ Sourced(e) # {}
    BY <1>1
  <2> HIDE DEF Sourced
  <2>2. \E s \in Sourced(e) : \A q \in Sourced(e) : s <= q
    BY <2>1, LeastNat
  <2>3. QED
    BY <2>1, <2>2
<1>4. open \subseteq {e \in 1..n : Open(d, e)}
  BY <1>1
<1> HIDE DEF Sourced, open
<1>5. \A e \in DOMAIN found : found[e] \in Given
  BY <1>1, <1>3
<1>6. DOMAIN found \subseteq {e \in 1..n : Open(d, e)}
  BY <1>4
<1> HIDE DEF found
<1>7. Give(d, found) \in Tables(n, p, m) /\ Keeps(d, Give(d, found))
  BY <1>5, <1>6, GiveKeeps
<1>8. QED
  BY <1>2, <1>7

\* What follows from the form of transactions is added.
LEMMA PatternsKeep ==
  ASSUME NEW n \in 0..Len(Events), NEW p, NEW m, NEW d \in Tables(n, p, m)
  PROVE  MarkPatterns(d) \in Tables(n, p, m) /\ Keeps(d, MarkPatterns(d))
<1> DEFINE new == Mark(Swaps(d), "swap") \cup Mark(Reinvests(d), "reinvest")
                  \cup Mark(Purchases(d), "venft-purchase") \cup Mark(Spam(d), "spam")
<1>1. Rows(d) = 1..n /\ {"swap", "reinvest", "venft-purchase", "spam"} \subseteq Tag
  BY InferredTags DEF Tables, Rows, Inferred
<1>2. TransfersOf(d) \subseteq 1..n
  BY <1>1 DEF TransfersOf
<1>3. /\ Swaps(d) \subseteq 1..n /\ Reinvests(d) \subseteq 1..n
      /\ Purchases(d) \subseteq 1..n /\ Spam(d) \subseteq 1..n
  BY <1>2 DEF Swaps, Reinvests, Purchases, Spam
<1>4. new \in SUBSET ((1..n) \X Tag)
  BY <1>1, <1>3 DEF Mark
<1> HIDE DEF new
<1>5. Add(d, new) \in Tables(n, p, m) /\ Keeps(d, Add(d, new))
  BY <1>4, AddKeeps
<1>6. QED
  BY <1>5 DEF MarkPatterns, new

\* What a retag leaves: typed tables; the tag on every own transfer; and on every
\* event that a rule has a source for, the source of the first.
LEMMA RetagLeaves ==
  ASSUME NEW n \in 0..Len(Events), NEW p, NEW m, NEW db \in Tables(n, p, m), NEW table \in Seq(Row)
  PROVE  /\ Retagged(db, table) \in Tables(n, p, m)
         /\ \A e \in OwnTransfersOf(db) :
              <<e, "own-transfer">> \in Retagged(db, table).auto \cup m
         /\ \A e \in 1..n, i \in DOMAIN table :
              First(table, i, e) => Retagged(db, table).source[e] = RuleBook[table[i].rule].source
<1> DEFINE blank == Blank(db)
           marks == Mark(OwnTransfersOf(blank), "own-transfer")
           own == OwnTagged(blank)
           ruled == ApplyRules(own, table)
           once == Pair(ruled, "out", "in", "deposit")
           paired == PairFlows(ruled)
           gas == InheritGas(paired)
           all == MarkPatterns(gas)
<1>1. /\ blank \in Tables(n, p, m) /\ blank.count = n
      /\ \A e \in 1..n : Open(blank, e)
  <2> DEFINE none == NoSources
  <2>1. none \in [DOMAIN Events -> Given] /\ 1..n \subseteq DOMAIN Events
    BY TaggingAssumption DEF Given, NoSources
  <2>2. {} \in SUBSET (((1..n) \X Tag) \ m)
    OBVIOUS
  <2>3. \A e \in 1..n : none[e] = NoSource
    BY <2>1 DEF NoSources
  <2>4. blank = [db EXCEPT !.auto = {}, !.source = none]
    BY DEF Blank
  <2> HIDE DEF none, blank
  <2>5. blank \in Tables(n, p, m)
    BY <2>1, <2>2, <2>4 DEF Tables
  <2>6. blank.count = n /\ blank.source = none
    BY <2>4 DEF Tables
  <2>7. QED
    BY <2>3, <2>5, <2>6 DEF Open
<1> HIDE DEF blank
<1>2. OwnTransfersOf(blank) = OwnTransfersOf(db) /\ OwnTransfersOf(db) \subseteq 1..n
  <2>1. db.count = n
    BY DEF Tables
  <2>2. QED
    BY <1>1, <2>1 DEF OwnTransfersOf, Rows
<1>3. marks \in SUBSET ((1..n) \X Tag)
  BY <1>2, InferredTags DEF Mark, Inferred
<1> HIDE DEF marks
<1>4. /\ own \in Tables(n, p, m) /\ own.source = blank.source
      /\ own.auto = blank.auto \cup (marks \ m)
  BY <1>1, <1>3, AddKeeps DEF OwnTagged, marks
<1>5. \A e \in 1..n : Open(own, e)
  BY <1>1, <1>4 DEF Open
<1> HIDE DEF own
<1>6. /\ ruled \in Tables(n, p, m) /\ Keeps(own, ruled)
      /\ \A e \in 1..n, i \in DOMAIN table :
           First(table, i, e) => ruled.source[e] = RuleBook[table[i].rule].source
  BY <1>4, <1>5, RulesKeep
<1> HIDE DEF ruled
<1>7. "deposit" \in Tag /\ "withdraw" \in Tag
  BY InferredTags DEF Inferred
<1>8. once \in Tables(n, p, m) /\ Keeps(ruled, once)
  BY <1>6, <1>7, PairKeeps
<1> HIDE DEF once
<1>9. paired \in Tables(n, p, m) /\ Keeps(once, paired)
  BY <1>7, <1>8, PairKeeps DEF PairFlows, once
<1> HIDE DEF paired
<1>10. gas \in Tables(n, p, m) /\ Keeps(paired, gas)
  BY <1>9, GasKeeps
<1> HIDE DEF gas
<1>11. all \in Tables(n, p, m) /\ Keeps(gas, all)
  BY <1>10, PatternsKeep
<1>12. Keeps(ruled, all)
  <2>1. Keeps(ruled, paired)
    BY <1>8, <1>9, KeepsOn
  <2>2. Keeps(ruled, gas)
    BY <2>1, <1>10, KeepsOn
  <2> HIDE DEF all
  <2>3. QED
    BY <2>2, <1>11, KeepsOn
<1>13. Keeps(own, all)
  BY <1>6, <1>12, KeepsOn
<1>14. Retagged(db, table) = all
  BY DEF Retagged, all, gas, paired, ruled, own, blank
<1> HIDE DEF all
<1>15. ASSUME NEW e \in OwnTransfersOf(db) PROVE <<e, "own-transfer">> \in all.auto \cup m
  <2>1. <<e, "own-transfer">> \in marks
    BY <1>2 DEF marks, Mark
  <2>2. <<e, "own-transfer">> \in own.auto \cup m
    BY <1>4, <2>1
  <2>3. QED
    BY <1>13, <2>2 DEF Keeps
<1>16. ASSUME NEW e \in 1..n, NEW i \in DOMAIN table, First(table, i, e)
       PROVE  all.source[e] = RuleBook[table[i].rule].source
  <2>1. ruled.source[e] = RuleBook[table[i].rule].source /\ ~Open(ruled, e)
    BY <1>6, <1>16 DEF Open, First, HasSource
  <2>2. e \in DOMAIN Events
    BY TaggingAssumption
  <2>3. QED
    BY <1>12, <2>1, <2>2 DEF Keeps
<1>17. QED
  BY <1>11, <1>14, <1>15, <1>16

-----------------------------------------------------------------------------
(* The backup *)

\* ensure_rule appends a rule that is new.
LEMMA EnsureTyped ==
  ASSUME NEW table \in Seq(Row), NEW row \in Row
  PROVE  Ensure(table, row) \in Seq(Row)
  BY DEF Ensure

\* The rows of a file one after the other, as the tables in between.
LEMMA ImportInTurn ==
  ASSUME NEW table \in Seq(Row), NEW file \in Seq(Row)
  PROVE  \E after \in [0..Len(file) -> Seq(Row)] :
           /\ after[0] = table
           /\ \A k \in 1..Len(file) : after[k] = Ensure(after[k - 1], file[k])
           /\ ImportRules(table, file) = after[Len(file)]
<1> DEFINE D == Seq(Row)
           N == Len(file)
           F == [x \in D \X Row |-> Ensure(x[1], x[2])]
           Step(iter, s) == IF s = {} THEN table
                            ELSE Ensure(iter[s \ {Max(s)}], file[Max(s)])
<1>1. N \in Nat /\ DOMAIN file = 1..N /\ \A k \in 1..N : file[k] \in Row
  OBVIOUS
<1>2. table \in D /\ file \in Seq(Row)
  OBVIOUS
<1>3. \A t \in D, row \in Row : Ensure(t, row) \in D
  BY EnsureTyped
<1> HIDE DEF D, N
<1>4. F \in [D \X Row -> D]
  BY <1>3
<1>5. ASSUME NEW s \in SUBSET DOMAIN file, s # {}
      PROVE  Max(s) \in DOMAIN file /\ s \ {Max(s)} \in SUBSET DOMAIN file
  <2>1. s \in SUBSET (1..(N + 1))
    BY <1>1, <1>5
  <2>2. Max(s) \in s
    BY <1>1, <1>5, <2>1, MaxUpTo
  <2>3. QED
    BY <2>2
<1>6. PICK iter \in [SUBSET DOMAIN file -> D] :
         \A s \in SUBSET DOMAIN file :
           iter[s] = IF s = {} THEN table ELSE F[<<iter[s \ {Max(s)}], file[Max(s)]>>]
  <2> HIDE DEF Step, F
  <2>1. PICK iter : iter \in Solutions(D, table, file, F)
    BY <1>2, <1>4, FoldSolved
  <2>2. QED
    BY <2>1 DEF Solutions
<1>7. iter = [s \in SUBSET DOMAIN file |-> Step(iter, s)]
  <2>1. ASSUME NEW s \in SUBSET DOMAIN file PROVE iter[s] = Step(iter, s)
    <3>1. CASE s = {}
      BY <1>6, <3>1
    <3>2. CASE s # {}
      <4>1. <<iter[s \ {Max(s)}], file[Max(s)]>> \in D \X Row
        BY <1>1, <1>5, <1>6, <3>2
      <4>2. QED
        BY <1>6, <3>2, <4>1
    <3>3. QED
      BY <3>1, <3>2
  <2> HIDE DEF Step
  <2>2. QED
    BY <1>6, <2>1
<1> DEFINE fold == CHOOSE f : f = [s \in SUBSET DOMAIN file |-> Step(f, s)]
<1>8. fold = [s \in SUBSET DOMAIN file |-> Step(fold, s)]
  BY <1>7
<1>9. ImportRules(table, file) = fold[DOMAIN file]
  BY DEF ImportRules, FoldLeft, MapThenFoldSet
<1>10. Folds(fold, D, table, file, F)
  <2>1. fold[{}] = table
    BY <1>8
  <2>2. ASSUME NEW s \in SUBSET DOMAIN file, s # {}, fold[s \ {Max(s)}] \in D
        PROVE  fold[s] = F[<<fold[s \ {Max(s)}], file[Max(s)]>>]
    <3> HIDE DEF fold
    <3>1. fold[s] = Ensure(fold[s \ {Max(s)}], file[Max(s)])
      BY <1>8, <2>2
    <3>2. file[Max(s)] \in Row
      BY <1>1, <1>5, <2>2
    <3>3. <<fold[s \ {Max(s)}], file[Max(s)]>> \in D \X Row
      BY <2>2, <3>2
    <3>4. QED
      BY <3>1, <3>3
  <2> HIDE DEF fold, F
  <2>3. QED
    BY <2>1, <2>2 DEF Folds
<1> HIDE DEF fold, Step
<1>11. InTurn(fold, D, table, file, F)
  <2> HIDE DEF F
  <2>1. QED
    BY <1>2, <1>4, <1>10, FoldInTurn
<1> DEFINE after == [k \in 0..N |-> fold[1..k]]
<1>12. after \in [0..N -> D] /\ after[0] = table /\ after[N] = fold[1..N]
  BY <1>1, <1>11 DEF InTurn, N
<1>13. ASSUME NEW k \in 1..N PROVE after[k] = Ensure(after[k - 1], file[k])
  <2>1. k - 1 \in 0..N /\ k \in 0..N
    BY <1>1
  <2>2. fold[1..k] = F[<<fold[1..(k - 1)], file[k]>>] /\ fold[1..(k - 1)] \in D
    BY <1>11, <2>1 DEF InTurn, N
  <2>3. fold[1..k] = Ensure(fold[1..(k - 1)], file[k])
    BY <1>1, <2>2
  <2>4. QED
    BY <2>1, <2>3
<1> HIDE DEF after
<1>14. QED
  BY <1>1, <1>9, <1>12, <1>13 DEF D, N

\* f enumerates the numbers from 1 to N, in increasing order, in M steps.
InOrder(f, M, N) ==
  /\ \A n, k \in 1..M : n < k => f[n] < f[k]
  /\ \A a \in 1..N : \E n \in 1..M : f[n] = a

\* A strictly increasing enumeration of the numbers up to N is that of them in order.
LEMMA InOrderIsIdentity ==
  ASSUME NEW M \in Nat, NEW N \in Nat, NEW f \in [1..M -> 1..N], InOrder(f, M, N)
  PROVE  M = N /\ \A n \in 1..M : f[n] = n
<1>0. /\ \A n, k \in 1..M : n < k => f[n] < f[k]
      /\ \A a \in 1..N : \E n \in 1..M : f[n] = a
  BY DEF InOrder
<1> DEFINE S == {k \in 0..N : k <= M /\ \A n \in 1..k : f[n] = n}
<1>1. 0 \in S
  OBVIOUS
<1>2. ASSUME NEW k \in 0..N, k \in S, k < N PROVE k + 1 \in S
  <2> DEFINE next == k + 1
  <2>1. next \in 1..N /\ next \in Nat /\ k \in Nat
    BY <1>2
  <2>2. PICK n \in 1..M : f[n] = next
    BY <1>0, <2>1
  <2>3. n >= next
    <3>1. n \in 1..k => f[n] = n
      BY <1>2
    <3>2. QED
      BY <2>1, <2>2, <3>1
  <2>4. next \in 1..M
    BY <2>1, <2>3
  <2>5. f[next] <= next
    BY <1>0, <2>2, <2>3, <2>4
  <2>6. f[next] >= next
    <3>1. CASE k = 0
      BY <2>4, <3>1
    <3>2. CASE k # 0
      <4>1. k \in 1..k /\ k \in 1..M /\ k < next
        BY <2>1, <2>4, <3>2
      <4>2. f[k] = k /\ f[k] < f[next]
        BY <1>0, <1>2, <2>4, <4>1
      <4>3. QED
        BY <2>1, <2>4, <4>2
    <3>3. QED
      BY <3>1, <3>2
  <2>7. f[next] = next
    BY <2>1, <2>4, <2>5, <2>6
  <2>8. \A n2 \in 1..next : f[n2] = n2
    BY <1>2, <2>1, <2>7
  <2> HIDE DEF next
  <2>9. next \in S
    BY <2>1, <2>4, <2>8
  <2>10. QED
    BY <2>9 DEF next
<1> HIDE DEF S
<1>3. 0..N \subseteq S
  BY <1>1, <1>2, UpTo
<1>4. N \in S
  BY <1>3
<1>5. N <= M /\ \A n \in 1..N : f[n] = n
  BY <1>4 DEF S
<1>6. ~(N < M)
  <2> SUFFICES ASSUME N < M PROVE FALSE
    OBVIOUS
  <2>1. M \in 1..M /\ f[M] \in 1..N
    BY <1>5
  <2>2. f[f[M]] = f[M] /\ f[M] \in 1..M /\ f[M] < M
    BY <1>5, <2>1
  <2>3. f[f[M]] < f[M]
    BY <1>0, <2>1, <2>2
  <2>4. QED
    BY <2>1, <2>2, <2>3
<1>7. QED
  BY <1>5, <1>6

Priority(row) == RuleBook[row.rule].priority

\* No row of the file comes after one of a higher priority number.
Ascending(file) == \A a, b \in DOMAIN file : a < b => Priority(file[a]) <= Priority(file[b])

\* What holds of a table into which the first k rows of a file were imported.
Importing(table, found, file, k) ==
  /\ Len(found) <= Len(table) /\ \A i \in DOMAIN found : table[i] = found[i]
  /\ \A i \in DOMAIN table : \E a \in DOMAIN file :
       table[i] = file[a] /\ (i > Len(found) => a <= k)
  /\ \A a \in 1..k : \E i \in DOMAIN table : table[i] = file[a]
  /\ \A i, j \in DOMAIN table : i < j =>
       \A a, b \in DOMAIN file :
         /\ table[i] = file[a] /\ table[j] = file[b]
         /\ Priority(table[i]) = Priority(table[j])
         => a < b

\* It holds at first of an undisturbed table.
LEMMA ImportingFirst ==
  ASSUME NEW found \in Seq(Row), NEW file \in Seq(Row), Apart(found), Apart(file),
         Undisturbed(found, file)
  PROVE  Importing(found, found, file, 0)
<1>1. ASSUME NEW i \in DOMAIN found, NEW j \in DOMAIN found, i < j,
             NEW a \in DOMAIN file, NEW b \in DOMAIN file,
             found[i] = file[a], found[j] = file[b], Priority(found[i]) = Priority(found[j])
      PROVE  a < b
  <2>1. PICK c \in DOMAIN file :
          /\ file[c] = found[i]
          /\ \A k \in 1..(c - 1) :
               RuleBook[file[k].rule].priority = RuleBook[file[c].rule].priority =>
                 \E h \in 1..(i - 1) : found[h] = file[k]
    BY DEF Undisturbed
  <2>2. c = a
    BY <1>1, <2>1 DEF Apart, Match
  <2>3. a # b
    BY <1>1 DEF Apart, Match
  <2>4. ~(b < a)
    <3> SUFFICES ASSUME b < a PROVE FALSE
      OBVIOUS
    <3>1. b \in 1..(c - 1)
      BY <2>2
    <3>2. PICK h \in 1..(i - 1) : found[h] = file[b]
      BY <1>1, <2>1, <3>1 DEF Priority
    <3>3. h \in DOMAIN found /\ h < i
      BY <3>2
    <3>4. h = j
      BY <1>1, <3>2, <3>3 DEF Apart, Match
    <3>5. QED
      BY <1>1, <3>3, <3>4
  <2>5. QED
    BY <2>3, <2>4
<1>2. \A i \in DOMAIN found : i <= Len(found) /\ \E a \in DOMAIN file : found[i] = file[a]
  BY DEF Undisturbed
<1>3. \A i \in DOMAIN found : ~(i > Len(found))
  OBVIOUS
<1>4. Len(found) <= Len(found)
  OBVIOUS
<1>5. QED
  BY <1>1, <1>2, <1>3, <1>4 DEF Importing

\* And with every row.
LEMMA ImportingNext ==
  ASSUME NEW found \in Seq(Row), NEW file \in Seq(Row), Apart(file), Undisturbed(found, file),
         NEW k \in 1..Len(file), NEW table \in Seq(Row), Importing(table, found, file, k - 1)
  PROVE  Importing(Ensure(table, file[k]), found, file, k)
<1>1. k \in DOMAIN file /\ k - 1 < k /\ file[k] \in Row /\ DOMAIN table = 1..Len(table)
  OBVIOUS
<1>2. CASE \E i \in DOMAIN table : Match(table, i) = RuleBook[file[k].rule].match
  <2>1. Ensure(table, file[k]) = table
    BY <1>2 DEF Ensure, Match
  <2>2. PICK i \in DOMAIN table : Match(table, i) = Match(file, k)
    BY <1>2 DEF Match
  <2>3. PICK a \in DOMAIN file : table[i] = file[a]
    BY DEF Importing
  <2>4. a = k
    BY <1>1, <2>2, <2>3 DEF Apart, Match
  <2>5. \A c \in 1..k : c \in 1..(k - 1) \/ c = k
    BY <1>1
  <2>6. \A c \in 1..k : \E n \in DOMAIN table : table[n] = file[c]
    BY <2>3, <2>4, <2>5 DEF Importing
  <2>7. \A n \in DOMAIN table : \E c \in DOMAIN file :
          table[n] = file[c] /\ (n > Len(found) => c <= k)
    <3> TAKE n \in DOMAIN table
    <3>1. PICK c \in DOMAIN file : table[n] = file[c] /\ (n > Len(found) => c <= k - 1)
      BY DEF Importing
    <3>2. QED
      BY <1>1, <3>1
  <2>8. /\ Len(found) <= Len(table) /\ \A n \in DOMAIN found : table[n] = found[n]
        /\ \A n, m \in DOMAIN table : n < m =>
             \A b, c \in DOMAIN file :
               /\ table[n] = file[b] /\ table[m] = file[c]
               /\ Priority(table[n]) = Priority(table[m])
               => b < c
    BY DEF Importing
  <2>9. Importing(table, found, file, k)
    BY <2>6, <2>7, <2>8 DEF Importing
  <2>10. QED
    BY <2>1, <2>9
<1>3. CASE ~ \E i \in DOMAIN table : Match(table, i) = RuleBook[file[k].rule].match
  <2> DEFINE L == Len(table)
             then == Append(table, file[k])
  <2>1. Ensure(table, file[k]) = then
    BY <1>3 DEF Ensure, Match
  <2>2. /\ L \in Nat /\ DOMAIN then = 1..(L + 1) /\ then[L + 1] = file[k]
        /\ \A i \in 1..L : then[i] = table[i] /\ i \in DOMAIN table /\ i \in DOMAIN then
        /\ Len(then) = L + 1
    BY <1>1
  <2>3. \A i \in DOMAIN then : i \in 1..L \/ i = L + 1
    BY <2>2
  <2> HIDE DEF then
  <2>4. Len(found) <= L /\ \A i \in DOMAIN found : i \in 1..L /\ then[i] = found[i]
    BY <2>2 DEF Importing
  <2>5. ASSUME NEW i \in DOMAIN then
        PROVE  \E a \in DOMAIN file : then[i] = file[a] /\ (i > Len(found) => a <= k)
    <3>1. CASE i \in 1..L
      <4>1. PICK a \in DOMAIN file : table[i] = file[a] /\ (i > Len(found) => a <= k - 1)
        BY <2>2, <3>1 DEF Importing
      <4>2. QED
        BY <1>1, <2>2, <3>1, <4>1
    <3>2. CASE i = L + 1
      BY <1>1, <2>2, <3>2
    <3>3. QED
      BY <2>3, <3>1, <3>2
  <2>6. ASSUME NEW a \in 1..k PROVE \E i \in DOMAIN then : then[i] = file[a]
    <3>1. CASE a = k
      BY <2>2, <3>1
    <3>2. CASE a # k
      <4>1. a \in 1..(k - 1)
        BY <1>1, <3>2
      <4>2. PICK i \in DOMAIN table : table[i] = file[a]
        BY <4>1 DEF Importing
      <4>3. i \in 1..L
        BY <1>1
      <4>4. QED
        BY <2>2, <4>2, <4>3
    <3>3. QED
      BY <3>1, <3>2
  <2>7. ASSUME NEW i \in DOMAIN then, NEW j \in DOMAIN then, i < j,
               NEW a \in DOMAIN file, NEW b \in DOMAIN file,
               then[i] = file[a], then[j] = file[b], Priority(then[i]) = Priority(then[j])
        PROVE  a < b
    <3>1. CASE j \in 1..L
      <4>1. i \in 1..L
        BY <2>2, <2>7, <3>1
      <4>2. QED
        BY <2>2, <2>7, <3>1, <4>1 DEF Importing
    <3>2. CASE j = L + 1
      <4>1. i \in 1..L /\ table[i] = file[a] /\ i \in DOMAIN table
        BY <2>2, <2>7, <3>2
      <4>2. b = k
        BY <1>1, <2>2, <2>7, <3>2 DEF Apart, Match
      <4>3. a # k
        BY <1>3, <4>1 DEF Match
      <4>4. ~(k < a)
        <5> SUFFICES ASSUME k < a PROVE FALSE
          OBVIOUS
        <5>1. PICK c \in DOMAIN file : table[i] = file[c] /\ (i > Len(found) => c <= k - 1)
          BY <4>1 DEF Importing
        <5>2. c = a
          BY <4>1, <5>1 DEF Apart, Match
        <5>3. i \in DOMAIN found /\ found[i] = file[a]
          BY <2>2, <2>4, <4>1, <5>1, <5>2
        <5>4. PICK d \in DOMAIN file :
                /\ file[d] = found[i]
                /\ \A q \in 1..(d - 1) :
                     RuleBook[file[q].rule].priority = RuleBook[file[d].rule].priority =>
                       \E h \in 1..(i - 1) : found[h] = file[q]
          BY <5>3 DEF Undisturbed
        <5>5. d = a
          BY <5>3, <5>4 DEF Apart, Match
        <5>6. k \in 1..(d - 1) /\ Priority(file[k]) = Priority(file[d])
          BY <2>2, <2>7, <3>2, <5>5
        <5>7. PICK h \in 1..(i - 1) : found[h] = file[k]
          BY <5>4, <5>6 DEF Priority
        <5>8. h \in DOMAIN found
          BY <5>3, <5>7
        <5>9. h \in DOMAIN table /\ table[h] = file[k]
          BY <2>2, <2>4, <5>7, <5>8
        <5>10. QED
          BY <1>3, <5>9 DEF Match
      <4>5. QED
        BY <1>1, <4>2, <4>3, <4>4
    <3>3. QED
      BY <2>3, <3>1, <3>2
  <2>8. QED
    BY <2>1, <2>2, <2>4, <2>5, <2>6, <2>7 DEF Importing
<1>4. QED
  BY <1>2, <1>3

\* A whole file imported into an undisturbed table leaves the file's rows, in the
\* file's order where priorities are equal.
LEMMA Imported ==
  ASSUME NEW found \in Seq(Row), NEW file \in Seq(Row), Apart(found), Apart(file),
         Undisturbed(found, file)
  PROVE  /\ ImportRules(found, file) \in Seq(Row)
         /\ Importing(ImportRules(found, file), found, file, Len(file))
<1> DEFINE N == Len(file)
<1>1. PICK after \in [0..N -> Seq(Row)] :
        /\ after[0] = found
        /\ \A k \in 1..N : after[k] = Ensure(after[k - 1], file[k])
        /\ ImportRules(found, file) = after[N]
  BY ImportInTurn
<1> DEFINE S == {k \in 0..N : Importing(after[k], found, file, k)}
<1>2. N \in Nat
  OBVIOUS
<1> HIDE DEF N
<1>3. 0 \in S
  BY <1>1, <1>2, ImportingFirst
<1>4. ASSUME NEW k \in 0..N, k \in S, k < N PROVE k + 1 \in S
  <2> DEFINE next == k + 1
  <2>1. next \in 0..N /\ next \in 1..N /\ next - 1 = k
    BY <1>2, <1>4
  <2> HIDE DEF next
  <2>2. Importing(after[next - 1], found, file, next - 1) /\ after[next - 1] \in Seq(Row)
    BY <1>1, <1>4, <2>1
  <2>3. Importing(after[next], found, file, next)
    <3>1. Importing(Ensure(after[next - 1], file[next]), found, file, next)
      BY <2>1, <2>2, ImportingNext DEF N
    <3>2. QED
      BY <1>1, <2>1, <3>1
  <2>4. QED
    BY <2>1, <2>3 DEF next
<1> HIDE DEF S
<1>5. 0..N \subseteq S
  BY <1>2, <1>3, <1>4, UpTo
<1>6. N \in S
  BY <1>2, <1>5
<1>7. QED
  BY <1>1, <1>2, <1>6 DEF S, N

\* And so the rows of the file in order.
LEMMA ImportRestores ==
  ASSUME NEW found \in Seq(Row), NEW file \in Seq(Row), Apart(found), Apart(file),
         Undisturbed(found, file), Ascending(file)
  PROVE  ByPriority(ImportRules(found, file)) = file
<1> DEFINE table == ImportRules(found, file)
           M == Len(table)
           N == Len(file)
<1>1. table \in Seq(Row) /\ Importing(table, found, file, N)
  BY Imported
<1> HIDE DEF table
<1>2. /\ M \in Nat /\ DOMAIN table = 1..M /\ N \in Nat /\ DOMAIN file = 1..N
      /\ \A i \in 1..M : table[i] \in Row
      /\ \A a \in 1..N : file[a] \in Row
  BY <1>1
<1>3. /\ \A i \in 1..M : \E a \in 1..N : table[i] = file[a]
      /\ \A a \in 1..N : \E i \in 1..M : table[i] = file[a]
      /\ \A i, j \in 1..M, a, b \in 1..N :
           /\ i < j /\ table[i] = file[a] /\ table[j] = file[b]
           /\ Priority(table[i]) = Priority(table[j])
           => a < b
  <2>1. /\ \A i \in DOMAIN table : \E a \in DOMAIN file : table[i] = file[a]
        /\ \A a \in 1..N : \E i \in DOMAIN table : table[i] = file[a]
        /\ \A i, j \in DOMAIN table : i < j =>
             \A a, b \in DOMAIN file :
               /\ table[i] = file[a] /\ table[j] = file[b]
               /\ Priority(table[i]) = Priority(table[j])
               => a < b
    BY <1>1 DEF Importing
  <2> HIDE DEF M, N
  <2>2. DOMAIN table = 1..M /\ DOMAIN file = 1..N
    BY <1>2
  <2>3. QED
    BY <2>1, <2>2
<1>4. \A row \in Row : Priority(row) \in Nat
  BY TaggingAssumption DEF Row, Priority
<1>5. PICK place \in [DOMAIN table -> DOMAIN table] :
        /\ ByPriority(table) = [n \in DOMAIN table |-> table[place[n]]]
        /\ \A i \in DOMAIN table : \E n \in DOMAIN table : place[n] = i
        /\ \A n, k \in DOMAIN table : n < k => Precedes(table, place[n], place[k])
  BY <1>1, SortedByPriority
<1> HIDE DEF M, N
<1> DEFINE pos == [i \in 1..M |-> CHOOSE a \in 1..N : table[i] = file[a]]
           spot == [n \in 1..M |-> pos[place[n]]]
<1>6. \A i \in 1..M : pos[i] \in 1..N /\ table[i] = file[pos[i]]
  BY <1>3
<1>7. \A i \in 1..M, a \in 1..N : table[i] = file[a] => pos[i] = a
  BY <1>2, <1>6 DEF Apart, Match
<1> HIDE DEF pos
<1>8. ASSUME NEW i \in 1..M, NEW j \in 1..M, Precedes(table, i, j) PROVE pos[i] < pos[j]
  <2>1. \/ Priority(table[i]) < Priority(table[j])
        \/ Priority(table[i]) = Priority(table[j]) /\ i < j
    BY <1>8 DEF Precedes, Priority
  <2>2. CASE Priority(table[i]) < Priority(table[j])
    <3>1. /\ Priority(file[pos[i]]) < Priority(file[pos[j]])
          /\ Priority(file[pos[i]]) \in Nat /\ Priority(file[pos[j]]) \in Nat
      BY <1>2, <1>4, <1>6, <2>2
    <3>2. ~(pos[j] < pos[i]) /\ pos[i] # pos[j]
      <4>1. pos[i] \in DOMAIN file /\ pos[j] \in DOMAIN file
        BY <1>2, <1>6
      <4>2. pos[j] < pos[i] => Priority(file[pos[j]]) <= Priority(file[pos[i]])
        BY <4>1 DEF Ascending
      <4>3. QED
        BY <3>1, <4>2
    <3>3. QED
      BY <1>2, <1>6, <3>2
  <2>3. CASE Priority(table[i]) = Priority(table[j]) /\ i < j
    BY <1>3, <1>6, <2>3
  <2>4. QED
    BY <2>1, <2>2, <2>3
<1>9. spot \in [1..M -> 1..N] /\ \A n \in 1..M : spot[n] = pos[place[n]] /\ place[n] \in 1..M
  BY <1>2, <1>5, <1>6
<1> HIDE DEF spot
<1>10. ASSUME NEW n \in 1..M, NEW k \in 1..M, n < k PROVE spot[n] < spot[k]
  <2>1. Precedes(table, place[n], place[k])
    BY <1>2, <1>5, <1>10
  <2>2. pos[place[n]] < pos[place[k]]
    BY <1>8, <1>9, <2>1
  <2>3. QED
    BY <1>9, <2>2
<1>11. ASSUME NEW a \in 1..N PROVE \E n \in 1..M : spot[n] = a
  <2>1. PICK i \in 1..M : table[i] = file[a]
    BY <1>3
  <2>2. PICK n \in 1..M : place[n] = i
    BY <1>2, <1>5
  <2>3. QED
    BY <1>7, <1>9, <2>1, <2>2
<1>12. M = N /\ \A n \in 1..M : spot[n] = n
  <2>1. M \in Nat /\ N \in Nat /\ spot \in [1..M -> 1..N]
    BY <1>2, <1>9
  <2>2. \A n, k \in 1..M : n < k => spot[n] < spot[k]
    BY <1>10
  <2>3. \A a \in 1..N : \E n \in 1..M : spot[n] = a
    BY <1>11
  <2>4. InOrder(spot, M, N)
    BY <2>2, <2>3 DEF InOrder
  <2>5. QED
    BY <2>1, <2>4, InOrderIsIdentity
<1>13. \A n \in 1..M : table[place[n]] = file[n]
  BY <1>6, <1>9, <1>12
<1>14. ByPriority(table) = [n \in 1..N |-> file[n]]
  BY <1>2, <1>5, <1>12, <1>13
<1>15. file = [n \in 1..N |-> file[n]]
  BY <1>2
<1>16. QED
  BY <1>14, <1>15 DEF table

\* What the rules do depends on their order by priority alone.
LEMMA SameOrder ==
  ASSUME NEW table, NEW other, ByPriority(table) = ByPriority(other), NEW db
  PROVE  Retagged(db, table) = Retagged(db, other)
<1>1. \A d : ApplyRules(d, table) = ApplyRules(d, other)
  BY DEF ApplyRules, FoldLeft, MapThenFoldSet
<1>2. QED
  BY <1>1 DEF Retagged

\* And not on the tags and sources of an earlier retag.
LEMMA FromBlank ==
  ASSUME NEW db, NEW other, Blank(db) = Blank(other), NEW table
  PROVE  Retagged(db, table) = Retagged(other, table)
  BY DEF Retagged

-----------------------------------------------------------------------------
(* The invariant and its steps *)

\* The ledger's tags and sources are those of its last retag, if nothing changed.
TaggingInv ==
  /\ TaggingTypeOK
  /\ OwnTransfersTagged
  /\ HistoryFree
  /\ FirstRuleWins
  /\ Apart(rules)

\* What the last retag left is all that two of the parts speak of.
LEMMA NotFresh ==
  ASSUME fresh' = FALSE
  PROVE  HistoryFree' /\ FirstRuleWins'
  BY DEF HistoryFree, FirstRuleWins

\* The ledger as a record has the type of its columns.
LEMMA LedgerTyped ==
  ASSUME TaggingTypeOK
  PROVE  /\ count \in 0..Len(Events)
         /\ Ledger \in Tables(count, priced, manual)
  BY DEF TaggingTypeOK, Ledger, Tables, Present, Given

\* The columns of the ledger, as a record.
Columns(n, p, m, a, s) ==
  [count |-> n, priced |-> p, manual |-> m, auto |-> a, source |-> s]

\* Without tags and sources, what these were makes no difference.
LEMMA BareColumns ==
  ASSUME NEW n, NEW p, NEW m, NEW a, NEW s
  PROVE  [Columns(n, p, m, a, s) EXCEPT !.auto = {}, !.source = NoSources]
           = Columns(n, p, m, {}, NoSources)
<1>1. [Columns(n, p, m, a, s) EXCEPT !.auto = {}] = Columns(n, p, m, {}, s)
  BY DEF Columns
<1>2. [Columns(n, p, m, {}, s) EXCEPT !.source = NoSources] = Columns(n, p, m, {}, NoSources)
  BY DEF Columns
<1>3. QED
  BY <1>1, <1>2

\* Which is what a retag starts with.
LEMMA BlankColumns ==
  ASSUME NEW n, NEW p, NEW m, NEW a, NEW s
  PROVE  Blank(Columns(n, p, m, a, s)) = Columns(n, p, m, {}, NoSources)
  BY BareColumns DEF Blank

\* Nothing is in the ledger at first.
LEMMA InitTagging == TaggingInit => TaggingInv
<1> SUFFICES ASSUME TaggingInit PROVE TaggingInv
  OBVIOUS
<1>1. TaggingTypeOK
  <2>1. 0 \in 0..Len(Events) /\ count = 0 /\ priced = {} /\ manual = {} /\ auto = {} /\ ~fresh
    BY TaggingAssumption DEF TaggingInit
  <2>2. source \in [DOMAIN Events -> Given]
    BY DEF TaggingInit, NoSources, Given
  <2>3. rules \in Seq(Row)
    BY DEF TaggingInit
  <2>4. fresh \in BOOLEAN
    BY DEF TaggingInit
  <2>5. QED
    BY <2>1, <2>2, <2>3, <2>4 DEF TaggingTypeOK, Given, Row
<1>2. OwnTransfersTagged
  BY DEF TaggingInit, OwnTransfersTagged, OwnTransfersOf, Rows, Ledger
<1>3. HistoryFree /\ FirstRuleWins
  BY DEF TaggingInit, HistoryFree, FirstRuleWins
<1>4. Apart(rules)
  BY DEF TaggingInit, Apart
<1>5. QED
  BY <1>1, <1>2, <1>3, <1>4 DEF TaggingInv

\* An own transfer comes with its tag.
LEMMA IngestStep ==
  ASSUME TaggingInv, Ingest
  PROVE  TaggingInv'
<1>1. TaggingTypeOK'
  <2>1. count' \in 0..Len(Events) /\ Present' = Present \cup {count'} /\ count' \notin Present
    BY TaggingAssumption DEF TaggingInv, TaggingTypeOK, Ingest, Present
  <2>2. IngestTags(count') \subseteq {count'} \X Tag
    BY InferredTags DEF IngestTags, Inferred
  <2>3. priced' \subseteq Present' /\ manual' \subseteq Present' \X Tag
    BY <2>1 DEF TaggingInv, TaggingTypeOK, Ingest
  <2>4. auto' \subseteq (Present' \X Tag) \ manual'
    BY <2>1, <2>2 DEF TaggingInv, TaggingTypeOK, Ingest
  <2>5. QED
    BY <2>1, <2>3, <2>4 DEF TaggingInv, TaggingTypeOK, Ingest
<1>2. OwnTransfersTagged'
  <2>1. ASSUME NEW e \in OwnTransfersOf(Ledger') PROVE <<e, "own-transfer">> \in auto' \cup manual'
    <3>1. e \in 1..count' /\ Events[e].counterparty \in Tracked
      BY <2>1 DEF OwnTransfersOf, Rows, Ledger
    <3>2. CASE e = count'
      BY <3>1, <3>2 DEF Ingest, IngestTags
    <3>3. CASE e # count'
      <4>1. e \in OwnTransfersOf(Ledger)
        BY <3>1, <3>3 DEF OwnTransfersOf, Rows, Ledger, TaggingInv, TaggingTypeOK, Ingest
      <4>2. QED
        BY <4>1 DEF TaggingInv, OwnTransfersTagged, Ingest
    <3>4. QED
      BY <3>2, <3>3
  <2>2. QED
    BY <2>1 DEF OwnTransfersTagged
<1>3. HistoryFree' /\ FirstRuleWins' /\ Apart(rules')
  BY NotFresh DEF Ingest, TaggingInv
<1>4. QED
  BY <1>1, <1>2, <1>3 DEF TaggingInv

\* A retag keeps the invariant, whatever it starts from: it makes its own.
LEMMA RetagStep ==
  ASSUME TaggingInv, Retag
  PROVE  TaggingInv'
<1> DEFINE db == Retagged(Ledger, rules)
<1>1. count \in 0..Len(Events) /\ Ledger \in Tables(count, priced, manual) /\ rules \in Seq(Row)
  BY LedgerTyped DEF TaggingInv, TaggingTypeOK, Row
<1>2. /\ db \in Tables(count, priced, manual)
      /\ \A e \in OwnTransfersOf(Ledger) : <<e, "own-transfer">> \in db.auto \cup manual
      /\ \A e \in 1..count, i \in DOMAIN rules :
           First(rules, i, e) => db.source[e] = RuleBook[rules[i].rule].source
  BY <1>1, RetagLeaves
<1>3. /\ auto' = db.auto /\ source' = db.source
      /\ UNCHANGED <<count, priced, manual, rules>>
  BY DEF Retag
<1>4. Ledger' = db
  <2> HIDE DEF db
  <2>1. db = [count |-> count, priced |-> priced, manual |-> manual,
              auto |-> db.auto, source |-> db.source]
    BY <1>2 DEF Tables
  <2>2. QED
    BY <1>3, <2>1 DEF Ledger
<1>5. TaggingTypeOK'
  <2> HIDE DEF db
  <2>1. fresh' \in BOOLEAN
    BY DEF Retag
  <2>2. auto' \in SUBSET ((Present \X Tag) \ manual) /\ source' \in [DOMAIN Events -> Given]
    BY <1>2, <1>3 DEF Tables, Present
  <2>3. Present' = Present
    BY <1>3 DEF Present
  <2>4. QED
    BY <1>3, <2>1, <2>2, <2>3 DEF TaggingInv, TaggingTypeOK, Given
<1>6. OwnTransfersTagged'
  <2>1. OwnTransfersOf(Ledger') = OwnTransfersOf(Ledger)
    BY <1>3 DEF OwnTransfersOf, Rows, Ledger
  <2> HIDE DEF db
  <2>2. QED
    BY <1>2, <1>3, <2>1 DEF OwnTransfersTagged
<1>7. HistoryFree'
  <2> DEFINE bare == [Ledger' EXCEPT !.auto = {}, !.source = NoSources]
  <2>1. Blank(bare) = Blank(Ledger)
    <3> HIDE DEF db
    <3> DEFINE start == Ledger
               last == Ledger'
    <3>1. last = Columns(count, priced, manual, auto', source')
      BY <1>3 DEF Ledger, Columns
    <3>2. start = Columns(count, priced, manual, auto, source)
      BY DEF Ledger, Columns
    <3>3. bare = [last EXCEPT !.auto = {}, !.source = NoSources]
      OBVIOUS
    <3> HIDE DEF bare, start, last
    <3>4. bare = Columns(count, priced, manual, {}, NoSources)
      BY <3>1, <3>3, BareColumns
    <3>5. Blank(bare) = bare /\ Blank(start) = bare
      BY <3>2, <3>4, BlankColumns
    <3>6. QED
      BY <3>5 DEF start
  <2>2. Retagged(bare, rules) = db
    BY <2>1, FromBlank
  <2> HIDE DEF db, bare
  <2>3. Ledger' = Retagged(bare, rules')
    BY <1>3, <1>4, <2>2
  <2>4. QED
    BY <2>3 DEF HistoryFree, bare
<1>8. FirstRuleWins'
  <2> DEFINE sourced == {i \in DOMAIN rules : /\ rules[i].enabled
                                              /\ RuleBook[rules[i].rule].source # NoSource}
             matching(e) == {i \in sourced : Fits(RuleBook[rules[i].rule].match, e)}
  <2>1. ASSUME NEW e \in 1..count, NEW i \in matching(e),
               \A j \in matching(e) \ {i} : Precedes(rules, i, j)
        PROVE  source'[e] = RuleBook[rules[i].rule].source
    <3>1. i \in DOMAIN rules /\ First(rules, i, e)
      BY <2>1 DEF First, HasSource
    <3> HIDE DEF db
    <3>2. QED
      BY <1>2, <1>3, <3>1
  <2>2. QED
    BY <1>3, <2>1 DEF FirstRuleWins, Present
<1>9. QED
  BY <1>3, <1>5, <1>6, <1>7, <1>8 DEF TaggingInv

\* Prices are the ledger's business.
LEMMA PriceStep ==
  ASSUME TaggingInv, NEW e \in Present, Price(e)
  PROVE  TaggingInv'
<1>1. TaggingTypeOK'
  BY DEF TaggingInv, TaggingTypeOK, Price, Present
<1>2. OwnTransfersTagged'
  BY DEF TaggingInv, OwnTransfersTagged, OwnTransfersOf, Rows, Ledger, Price
<1>3. HistoryFree' /\ FirstRuleWins' /\ Apart(rules')
  BY NotFresh DEF Price, TaggingInv
<1>4. QED
  BY <1>1, <1>2, <1>3 DEF TaggingInv

\* A tag set by hand is no longer the rules', and no tag is lost.
LEMMA SetManualStep ==
  ASSUME TaggingInv, NEW pair \in HandTags, SetManual(pair[1], pair[2])
  PROVE  TaggingInv'
<1>1. pair[2] \in Tag
  BY DEF Tag
<1>2. TaggingTypeOK'
  <2>1. <<pair[1], pair[2]>> \in Present \X Tag
    BY <1>1 DEF SetManual
  <2>2. manual' \subseteq Present \X Tag
    BY <2>1 DEF TaggingInv, TaggingTypeOK, SetManual
  <2>3. auto' \subseteq (Present \X Tag) \ manual'
    BY DEF TaggingInv, TaggingTypeOK, SetManual
  <2>4. Present' = Present /\ UNCHANGED <<count, priced, source, rules>> /\ fresh' \in BOOLEAN
    BY DEF SetManual, Present
  <2>5. QED
    BY <2>2, <2>3, <2>4 DEF TaggingInv, TaggingTypeOK
<1>3. OwnTransfersTagged'
  BY DEF TaggingInv, OwnTransfersTagged, OwnTransfersOf, Rows, Ledger, SetManual
<1>4. HistoryFree' /\ FirstRuleWins' /\ Apart(rules')
  BY NotFresh DEF SetManual, TaggingInv
<1>5. QED
  BY <1>2, <1>3, <1>4 DEF TaggingInv

\* A rule is only added when its match is a new one.
LEMMA FindRuleStep ==
  ASSUME TaggingInv, NEW r \in Rules, FindRule(r)
  PROVE  TaggingInv'
<1> DEFINE row == [rule |-> r, enabled |-> TRUE]
<1>1. rules \in Seq(Row) /\ row \in Row
  BY DEF TaggingInv, TaggingTypeOK, Row
<1>2. rules' \in Seq(Row)
  BY <1>1, EnsureTyped DEF FindRule
<1>3. Apart(rules')
  <2>1. rules' = Append(rules, row)
    BY DEF FindRule, Ensure
  <2>2. \A i \in DOMAIN rules : Match(rules, i) # RuleBook[r].match
    BY DEF FindRule, Ensure, Match
  <2>3. /\ DOMAIN rules' = DOMAIN rules \cup {Len(rules) + 1}
        /\ \A i \in DOMAIN rules : rules'[i] = rules[i]
        /\ rules'[Len(rules) + 1] = row
    BY <1>1, <2>1
  <2>4. /\ \A i \in DOMAIN rules : Match(rules', i) = Match(rules, i)
        /\ Match(rules', Len(rules) + 1) = RuleBook[r].match
    BY <2>3 DEF Match
  <2>5. QED
    BY <2>2, <2>3, <2>4 DEF TaggingInv, Apart
<1>4. TaggingTypeOK'
  BY <1>2 DEF TaggingInv, TaggingTypeOK, FindRule, Present, Row
<1>5. OwnTransfersTagged'
  BY DEF TaggingInv, OwnTransfersTagged, OwnTransfersOf, Rows, Ledger, FindRule
<1>6. HistoryFree' /\ FirstRuleWins'
  BY NotFresh DEF FindRule
<1>7. QED
  BY <1>3, <1>4, <1>5, <1>6 DEF TaggingInv

\* A rule that is switched off keeps its match.
LEMMA SwitchOffStep ==
  ASSUME TaggingInv, NEW i \in DOMAIN rules, SwitchOff(i)
  PROVE  TaggingInv'
<1>1. rules \in Seq(Row)
  BY DEF TaggingInv, TaggingTypeOK, Row
<1>2. rules' = [rules EXCEPT ![i] = [rules[i] EXCEPT !.enabled = FALSE]]
  BY DEF SwitchOff
<1>3. rules[i] \in Row
  BY <1>1
<1>4. [rules[i] EXCEPT !.enabled = FALSE] \in Row /\ [rules[i] EXCEPT !.enabled = FALSE].rule = rules[i].rule
  BY <1>3 DEF Row
<1>5. rules' \in Seq(Row)
  BY <1>1, <1>2, <1>4
<1>6. DOMAIN rules' = DOMAIN rules /\ \A j \in DOMAIN rules : Match(rules', j) = Match(rules, j)
  BY <1>1, <1>2, <1>4 DEF Match
<1>7. Apart(rules')
  BY <1>6 DEF TaggingInv, Apart
<1>8. TaggingTypeOK'
  BY <1>5 DEF TaggingInv, TaggingTypeOK, SwitchOff, Present, Row
<1>9. OwnTransfersTagged'
  BY DEF TaggingInv, OwnTransfersTagged, OwnTransfersOf, Rows, Ledger, SwitchOff
<1>10. HistoryFree' /\ FirstRuleWins'
  BY NotFresh DEF SwitchOff
<1>11. QED
  BY <1>7, <1>8, <1>9, <1>10 DEF TaggingInv

\* Every step keeps the invariant.
LEMMA TaggingStep == TaggingInv /\ [TaggingNext]_taggingVars => TaggingInv'
<1> SUFFICES ASSUME TaggingInv, [TaggingNext]_taggingVars PROVE TaggingInv'
  OBVIOUS
<1>1. CASE Ingest
  BY <1>1, IngestStep
<1>2. CASE Retag
  BY <1>2, RetagStep
<1>3. CASE \E e \in Present : Price(e)
  BY <1>3, PriceStep
<1>4. CASE \E pair \in HandTags : SetManual(pair[1], pair[2])
  BY <1>4, SetManualStep
<1>5. CASE \E r \in Rules : FindRule(r)
  BY <1>5, FindRuleStep
<1>6. CASE \E i \in DOMAIN rules : SwitchOff(i)
  BY <1>6, SwitchOffStep
<1>7. CASE UNCHANGED taggingVars
  <2>1. UNCHANGED <<count, priced, manual, auto, source, rules, fresh>>
    BY <1>7 DEF taggingVars
  <2>2. TaggingTypeOK' /\ OwnTransfersTagged'
    BY <2>1 DEF TaggingInv, TaggingTypeOK, Present, OwnTransfersTagged, OwnTransfersOf, Rows, Ledger
  <2>3. HistoryFree' /\ FirstRuleWins'
    BY <2>1 DEF TaggingInv, HistoryFree, FirstRuleWins, Ledger, Present
  <2>4. QED
    BY <2>1, <2>2, <2>3 DEF TaggingInv
<1>8. QED
  BY <1>1, <1>2, <1>3, <1>4, <1>5, <1>6, <1>7 DEF TaggingNext

\* So it always holds.
THEOREM TaggingInvariant == TaggingSpec => []TaggingInv
<1>1. QED
  BY InitTagging, TaggingStep, PTL DEF TaggingSpec

\* An event's tags are of the known ones, once each; prices and sources are of
\* events the ledger has.
THEOREM TaggingTypeCorrect == TaggingSpec => []TaggingTypeOK
<1>1. TaggingInv => TaggingTypeOK
  BY DEF TaggingInv
<1>2. QED
  BY <1>1, TaggingInvariant, PTL

\* At no moment does an own transfer stand in the ledger without its tag
\* (ingest_transfers, retag_all).
THEOREM OwnTransfersTaggedCorrect == TaggingSpec => []OwnTransfersTagged
<1>1. TaggingInv => OwnTransfersTagged
  BY DEF TaggingInv
<1>2. QED
  BY <1>1, TaggingInvariant, PTL

\* A retag's result does not depend on earlier retags (retag_all).
THEOREM HistoryFreeCorrect == TaggingSpec => []HistoryFree
<1>1. TaggingInv => HistoryFree
  BY DEF TaggingInv
<1>2. QED
  BY <1>1, TaggingInvariant, PTL

\* The first enabled rule that fits an event and has a source gives it
\* (the COALESCE of _apply_rules, ORDER BY priority, id).
THEOREM FirstRuleWinsCorrect == TaggingSpec => []FirstRuleWins
<1>1. TaggingInv => FirstRuleWins
  BY DEF TaggingInv
<1>2. QED
  BY <1>1, TaggingInvariant, PTL

\* Rules apart in the table are apart in the order of their priorities.
LEMMA ApartInOrder ==
  ASSUME NEW table \in Seq(Row), Apart(table)
  PROVE  Apart(ByPriority(table))
<1>1. PICK place \in [DOMAIN table -> DOMAIN table] :
        /\ ByPriority(table) = [n \in DOMAIN table |-> table[place[n]]]
        /\ \A n, k \in DOMAIN table : n < k => Precedes(table, place[n], place[k])
  BY SortedByPriority
<1>2. \A i \in DOMAIN table : ~Precedes(table, i, i)
  BY PrecedesOrders
<1>3. ASSUME NEW n \in DOMAIN table, NEW k \in DOMAIN table, place[n] = place[k] PROVE n = k
  <2>1. n \in Nat /\ k \in Nat
    OBVIOUS
  <2>2. ~(n < k) /\ ~(k < n)
    BY <1>1, <1>2, <1>3
  <2>3. QED
    BY <2>1, <2>2
<1>4. DOMAIN ByPriority(table) = DOMAIN table
  BY <1>1
<1>5. \A n \in DOMAIN table : Match(ByPriority(table), n) = Match(table, place[n])
  BY <1>1 DEF Match
<1>6. QED
  BY <1>1, <1>3, <1>4, <1>5 DEF Apart

\* And its priorities ascend.
LEMMA AscendingInOrder ==
  ASSUME NEW table \in Seq(Row)
  PROVE  Ascending(ByPriority(table))
<1>1. PICK place \in [DOMAIN table -> DOMAIN table] :
        /\ ByPriority(table) = [n \in DOMAIN table |-> table[place[n]]]
        /\ \A n, k \in DOMAIN table : n < k => Precedes(table, place[n], place[k])
  BY SortedByPriority
<1>2. DOMAIN ByPriority(table) = DOMAIN table
  BY <1>1
<1>3. ASSUME NEW a \in DOMAIN table, NEW b \in DOMAIN table, a < b
      PROVE  Priority(ByPriority(table)[a]) <= Priority(ByPriority(table)[b])
  <2> DEFINE low == Priority(table[place[a]])
             high == Priority(table[place[b]])
  <2>1. low \in Nat /\ high \in Nat
    <3>1. table[place[a]] \in Row /\ table[place[b]] \in Row
      BY <1>1
    <3>2. QED
      BY <3>1, TaggingAssumption DEF Row, Priority
  <2>2. low < high \/ low = high
    BY <1>1, <1>3 DEF Precedes, Priority
  <2>3. QED
    BY <1>1, <2>1, <2>2
<1>4. QED
  BY <1>2, <1>3 DEF Ascending

\* A rebuilt ledger's rules are a table of rows.
LEMMA RebuildsTyped ==
  ASSUME NEW found \in Rebuilds
  PROVE  found \in Seq(Row) /\ Apart(found)
<1> DEFINE rows == [rule : Adapted, enabled : {TRUE}]
<1>1. found \in SeqOf(rows, Cardinality(Adapted)) /\ Apart(found)
  BY DEF Rebuilds
<1>2. rows \subseteq Row
  BY TaggingAssumption DEF Row
<1> HIDE DEF rows
<1>3. Cardinality(Adapted) \in Nat
  BY TaggingAssumption, FS_CardinalityType
<1>4. PICK m \in 0..Cardinality(Adapted) : found \in [1..m -> rows]
  BY <1>1 DEF SeqOf
<1>5. m \in Nat
  BY <1>3
<1>6. found \in Seq(rows)
  BY <1>4, <1>5
<1>7. QED
  BY <1>1, <1>2, <1>6

\* A ledger rebuilt and given the backup of its rules is retagged to what it was,
\* whatever a sync had found before, unless it was disturbed (export_local,
\* import_local, retag_all).
THEOREM BackupRestoresCorrect == TaggingSpec => []BackupRestores
<1>1. ASSUME TaggingInv PROVE BackupRestores
  <2> SUFFICES ASSUME fresh, NEW found \in Rebuilds, Undisturbed(found, ByPriority(rules))
               PROVE  Ledger = Retagged([Ledger EXCEPT !.auto = {}],
                                        ImportRules(found, ByPriority(rules)))
    BY DEF BackupRestores
  <2> DEFINE bare == [Ledger EXCEPT !.auto = {}, !.source = NoSources]
             rebuilt == [Ledger EXCEPT !.auto = {}]
             file == ByPriority(rules)
  <2>1. rules \in Seq(Row)
    BY <1>1 DEF TaggingInv, TaggingTypeOK, Row
  <2>2. Ledger = Retagged(bare, rules)
    BY <1>1 DEF TaggingInv, HistoryFree
  <2>3. Blank(bare) = Blank(rebuilt)
    BY DEF Blank, Ledger
  <2>4. file \in Seq(Row) /\ Apart(file) /\ Ascending(file)
    BY <1>1, <2>1, OrderIsFixed, ApartInOrder, AscendingInOrder DEF TaggingInv
  <2> HIDE DEF bare, rebuilt
  <2>5. Retagged(bare, rules) = Retagged(rebuilt, rules)
    BY <2>3, FromBlank
  <2> DEFINE table == ImportRules(found, file)
  <2> HIDE DEF file
  <2>6. ByPriority(table) = file
    <3>1. Undisturbed(found, file)
      BY DEF file
    <3>2. QED
      BY <2>4, <3>1, RebuildsTyped, ImportRestores
  <2> HIDE DEF table
  <2>7. Retagged(rebuilt, rules) = Retagged(rebuilt, table)
    BY <2>6, SameOrder DEF file
  <2>8. Ledger = Retagged(rebuilt, table)
    BY <2>2, <2>5, <2>7
  <2>9. QED
    BY <2>8 DEF rebuilt, table, file
<1>2. TaggingInv => BackupRestores
  BY <1>1
<1>3. QED
  BY <1>2, TaggingInvariant, PTL

-----------------------------------------------------------------------------
(* Why an event has a tag *)

\* Is there a leg in the event's transaction that may get the tag?
BesideShare(e, kind, tag) ==
  \E s \in DOMAIN Events :
    Events[s].tx = Events[e].tx /\ Events[s].kind = kind /\ MayBear(s, tag)

\* Does USDC go out for AERO?
BuysAero(e) ==
  /\ Events[e].kind = "out" /\ Events[e].token = "USDC"
  /\ \E i \in DOMAIN Events :
       Events[i].tx = Events[e].tx /\ Events[i].kind = "in" /\ Events[i].token = "AERO"

\* The reasons there are for a tag, if p are the events with a price.
Reason(p, e, tag) ==
  \/ MayBear(e, tag)
  \/ tag = "own-transfer" /\ Events[e].counterparty \in Tracked
  \/ tag = "deposit" /\ Events[e].kind = "out" /\ BesideShare(e, "in", "deposit")
  \/ tag = "withdraw" /\ Events[e].kind = "in" /\ BesideShare(e, "out", "withdraw")
  \/ tag = "swap" /\ Events[e].kind # "gas"
  \/ tag = "reinvest" /\ Events[e].kind = "out"
  \/ tag = "venft-purchase" /\ BuysAero(e)
  \/ tag = "spam" /\ Events[e].kind # "gas" /\ e \notin p

\* No tag of a set is without one.
Reasoned(p, tags) == \A e \in DOMAIN Events, tag \in Tag : <<e, tag>> \in tags => Reason(p, e, tag)

\* No tag is set by hand but those somebody may set.
Handed(m) == \A e \in DOMAIN Events, tag \in Tag : <<e, tag>> \in m => MayBear(e, tag)

\* Sources are given without a tag.
LEMMA GiveNoTag ==
  ASSUME NEW n, NEW p, NEW m, NEW d \in Tables(n, p, m), NEW found
  PROVE  Give(d, found).auto = d.auto
  BY DEF Give, Tables

\* Tags with reasons, added to tags with reasons.
LEMMA AddReasoned ==
  ASSUME NEW n \in 0..Len(Events), NEW p, NEW m, NEW d \in Tables(n, p, m),
         NEW new \in SUBSET ((1..n) \X Tag), Reasoned(p, d.auto), Reasoned(p, new)
  PROVE  Add(d, new) \in Tables(n, p, m) /\ Reasoned(p, Add(d, new).auto)
  BY AddKeeps DEF Reasoned

\* A rule is a reason for its tags.
LEMMA RuleReasons ==
  ASSUME NEW n \in 0..Len(Events), NEW p, NEW m, NEW d \in Tables(n, p, m), NEW r \in Rules,
         NEW i \in DOMAIN rules, rules[i].rule = r, Reasoned(p, d.auto)
  PROVE  Reasoned(p, ApplyRule(d, r).auto)
<1> DEFINE hit == {e \in Rows(d) : Fits(RuleBook[r].match, e)}
           open == {e \in hit : Open(d, e)}
           new == hit \X RuleBook[r].tags
           found == [e \in open |-> RuleBook[r].source]
<1>1. ApplyRule(d, r) = Give(Add(d, new), found)
  BY DEF ApplyRule
<1>2. Rows(d) = 1..n
  BY DEF Tables, Rows
<1>3. new \in SUBSET ((1..n) \X Tag)
  BY <1>2 DEF Tag
<1>4. Reasoned(p, new)
  <2>1. ASSUME NEW e \in DOMAIN Events, NEW tag \in Tag, <<e, tag>> \in new PROVE MayBear(e, tag)
    BY <2>1 DEF MayBear
  <2> HIDE DEF new
  <2>2. QED
    BY <2>1 DEF Reasoned, Reason
<1> HIDE DEF new, found
<1>5. Add(d, new) \in Tables(n, p, m) /\ Reasoned(p, Add(d, new).auto)
  BY <1>3, <1>4, AddReasoned
<1>6. QED
  BY <1>1, <1>5, GiveNoTag

\* The rows in order are rows of the table.
LEMMA RowsOfTable ==
  ASSUME NEW table \in Seq(Row)
  PROVE  \A k \in 1..Len(table) : \E i \in DOMAIN table : ByPriority(table)[k] = table[i]
<1>1. PICK place \in [DOMAIN table -> DOMAIN table] :
        ByPriority(table) = [n \in DOMAIN table |-> table[place[n]]]
  BY SortedByPriority
<1>2. QED
  BY <1>1

\* And so are the rules of the table together.
LEMMA RulesReason ==
  ASSUME NEW n \in 0..Len(Events), NEW p, NEW m, NEW d \in Tables(n, p, m), rules \in Seq(Row),
         Reasoned(p, d.auto)
  PROVE  Reasoned(p, ApplyRules(d, rules).auto)
<1> DEFINE rows == ByPriority(rules)
           N == Len(rules)
<1>1. rows \in Seq(Row) /\ Len(rows) = N /\ N \in Nat
  BY OrderIsFixed
<1>2. PICK after \in [0..N -> Tables(n, p, m)] :
         /\ after[0] = d
         /\ \A k \in 1..N : after[k] = ApplyRow(after[k - 1], rows[k])
         /\ ApplyRules(d, rules) = after[N]
  BY RulesInTurn
<1>8. \A k \in 1..N : \E i \in DOMAIN rules : rows[k] = rules[i]
  BY RowsOfTable
<1> HIDE DEF rows, N
<1> DEFINE S == {k \in 0..N : Reasoned(p, after[k].auto)}
<1>3. 0 \in S
  BY <1>1, <1>2
<1>4. ASSUME NEW k \in 0..N, k \in S, k < N PROVE k + 1 \in S
  <2> DEFINE next == k + 1
  <2>1. next \in 0..N /\ next \in 1..N /\ next - 1 = k
    BY <1>1, <1>4
  <2> HIDE DEF next
  <2>2. after[next] = ApplyRow(after[k], rows[next]) /\ rows[next] \in Row
    BY <1>1, <1>2, <2>1
  <2>3. rows[next].rule \in Rules /\ after[k] \in Tables(n, p, m) /\ Reasoned(p, after[k].auto)
    BY <1>2, <1>4, <2>2 DEF Row
  <2>6. PICK i \in DOMAIN rules : rules[i].rule = rows[next].rule
    BY <1>8, <2>1
  <2>4. Reasoned(p, after[next].auto)
    BY <2>2, <2>3, <2>6, RuleReasons DEF ApplyRow
  <2>5. QED
    BY <2>1, <2>4 DEF next
<1> HIDE DEF S
<1>5. 0..N \subseteq S
  BY <1>1, <1>3, <1>4, UpTo
<1>6. N \in S
  BY <1>1, <1>5
<1>7. QED
  BY <1>2, <1>6 DEF S

\* A routed leg has the tag of its direction.
LEMMA PairReasons ==
  ASSUME NEW n \in 0..Len(Events), NEW p, NEW m, NEW d \in Tables(n, p, m),
         NEW assetKind, NEW shareKind, NEW tag \in Tag, Reasoned(p, d.auto), Handed(m),
         \A e \in DOMAIN Events :
           Events[e].kind = assetKind /\ BesideShare(e, shareKind, tag) => Reason(p, e, tag),
         \A s \in DOMAIN Events :
           Events[s].kind = shareKind /\ Reason(p, s, tag) => MayBear(s, tag)
  PROVE  Reasoned(p, Pair(d, assetKind, shareKind, tag).auto)
<1> DEFINE legs(e) == Shares(d, e, shareKind, tag)
           routed == {e \in Rows(d) :
                        /\ Events[e].kind = assetKind
                        /\ \E s \in legs(e) : Events[s].contract # Events[e].contract}
           open == {e \in routed : Open(d, e)}
           new == Mark(routed, tag)
           found == [e \in open |-> d.source[CHOOSE s \in legs(e) : TRUE]]
<1>1. Pair(d, assetKind, shareKind, tag) = Give(Add(d, new), found)
  BY DEF Pair
<1>2. Rows(d) = 1..n /\ 1..n \subseteq DOMAIN Events /\ d.manual = m
  BY TaggingAssumption DEF Tables, Rows
<1>3. ASSUME NEW e \in routed
      PROVE  e \in 1..n /\ Events[e].kind = assetKind /\ BesideShare(e, shareKind, tag)
  <2>1. PICK s \in legs(e) : TRUE
    OBVIOUS
  <2>2. /\ s \in DOMAIN Events /\ Events[s].tx = Events[e].tx /\ Events[s].kind = shareKind
        /\ <<s, tag>> \in d.auto \cup m
    BY <1>2, <2>1 DEF Shares, Has
  <2>3. MayBear(s, tag)
    BY <2>2 DEF Reasoned, Handed
  <2>4. BesideShare(e, shareKind, tag)
    BY <2>2, <2>3 DEF BesideShare
  <2>5. QED
    BY <1>2, <2>4
<1> HIDE DEF legs, routed
<1>4. new \in SUBSET ((1..n) \X Tag)
  BY <1>3 DEF Mark
<1>5. Reasoned(p, new)
  BY <1>2, <1>3 DEF Reasoned, Mark
<1> HIDE DEF new, found
<1>6. Add(d, new) \in Tables(n, p, m) /\ Reasoned(p, Add(d, new).auto)
  BY <1>4, <1>5, AddReasoned
<1>7. QED
  BY <1>1, <1>6, GiveNoTag

\* A transaction's form is the reason for the rest, and every swap leg has its tag.
LEMMA PatternsReason ==
  ASSUME NEW n \in 0..Len(Events), NEW p, NEW m, NEW d \in Tables(n, p, m), Reasoned(p, d.auto)
  PROVE  /\ Reasoned(p, MarkPatterns(d).auto)
         /\ \A e \in Swaps(d) : <<e, "swap">> \in MarkPatterns(d).auto \cup m
<1> DEFINE new == Mark(Swaps(d), "swap") \cup Mark(Reinvests(d), "reinvest")
                  \cup Mark(Purchases(d), "venft-purchase") \cup Mark(Spam(d), "spam")
<1>1. /\ Rows(d) = 1..n /\ d.priced = p
      /\ {"swap", "reinvest", "venft-purchase", "spam"} \subseteq Tag
  BY InferredTags DEF Tables, Rows, Inferred
<1>2. \A e \in TransfersOf(d) : e \in 1..n /\ e \in DOMAIN Events /\ Events[e].kind # "gas"
  BY <1>1, TaggingAssumption DEF TransfersOf
<1>3. /\ \A e \in Swaps(d) : e \in 1..n /\ Events[e].kind # "gas"
      /\ \A e \in Reinvests(d) : e \in 1..n /\ Events[e].kind = "out"
      /\ \A e \in Purchases(d) : e \in 1..n /\ BuysAero(e)
      /\ \A e \in Spam(d) : e \in 1..n /\ Events[e].kind # "gas" /\ e \notin p
  BY <1>1, <1>2 DEF Swaps, Reinvests, Purchases, Spam, BuysAero
<1>4. new \in SUBSET ((1..n) \X Tag)
  BY <1>1, <1>3 DEF Mark
<1>5. Reasoned(p, new)
  BY <1>3 DEF Reasoned, Reason, Mark
<1>6. \A e \in Swaps(d) : <<e, "swap">> \in new
  BY DEF Mark
<1> HIDE DEF new
<1>7. Reasoned(p, Add(d, new).auto) /\ Add(d, new).auto = d.auto \cup (new \ m)
  BY <1>4, <1>5, AddReasoned, AddKeeps
<1>8. QED
  BY <1>6, <1>7 DEF MarkPatterns, new

\* After a retag every tag has a reason, and every leg of a swap its tag.
LEMMA RetagReasons ==
  ASSUME NEW n \in 0..Len(Events), NEW p, NEW m, NEW db \in Tables(n, p, m), rules \in Seq(Row),
         Handed(m)
  PROVE  /\ Reasoned(p, Retagged(db, rules).auto)
         /\ \A e \in Swaps(db) : <<e, "swap">> \in Retagged(db, rules).auto \cup m
<1> DEFINE blank == Blank(db)
           marks == Mark(OwnTransfersOf(blank), "own-transfer")
           own == OwnTagged(blank)
           ruled == ApplyRules(own, rules)
           once == Pair(ruled, "out", "in", "deposit")
           paired == PairFlows(ruled)
           gas == InheritGas(paired)
<1>1. blank \in Tables(n, p, m) /\ blank.auto = {}
  <2> DEFINE none == NoSources
  <2>1. none \in [DOMAIN Events -> Given]
    BY DEF Given, NoSources
  <2>2. {} \in SUBSET (((1..n) \X Tag) \ m)
    OBVIOUS
  <2>3. blank = [db EXCEPT !.auto = {}, !.source = none]
    BY DEF Blank
  <2> HIDE DEF none, blank
  <2>4. blank \in Tables(n, p, m)
    BY <2>1, <2>2, <2>3 DEF Tables
  <2>5. QED
    BY <2>3, <2>4 DEF Tables
<1> HIDE DEF blank
<1>2. \A e \in OwnTransfersOf(blank) : e \in 1..n /\ Events[e].counterparty \in Tracked
  BY <1>1 DEF OwnTransfersOf, Rows, Tables
<1>3. marks \in SUBSET ((1..n) \X Tag)
  BY <1>2, InferredTags DEF Mark, Inferred
<1>4. Reasoned(p, marks) /\ Reasoned(p, blank.auto)
  BY <1>1, <1>2 DEF Reasoned, Reason, Mark
<1> HIDE DEF marks
<1>5. own \in Tables(n, p, m) /\ Reasoned(p, own.auto)
  BY <1>1, <1>3, <1>4, AddReasoned DEF OwnTagged, marks
<1> HIDE DEF own
<1>6. ruled \in Tables(n, p, m) /\ Reasoned(p, ruled.auto)
  BY <1>5, RulesKeep, RulesReason
<1> HIDE DEF ruled
<1>7. "deposit" \in Tag /\ "withdraw" \in Tag
  BY InferredTags DEF Inferred
<1>8. \A e \in DOMAIN Events :
        /\ Events[e].kind = "out" /\ BesideShare(e, "in", "deposit") => Reason(p, e, "deposit")
        /\ Events[e].kind = "in" /\ BesideShare(e, "out", "withdraw") => Reason(p, e, "withdraw")
        /\ Events[e].kind = "in" /\ Reason(p, e, "deposit") => MayBear(e, "deposit")
        /\ Events[e].kind = "out" /\ Reason(p, e, "withdraw") => MayBear(e, "withdraw")
  BY DEF Reason
<1>9. once \in Tables(n, p, m) /\ Reasoned(p, once.auto)
  BY <1>6, <1>7, <1>8, PairKeeps, PairReasons
<1> HIDE DEF once
<1>10. paired \in Tables(n, p, m) /\ Reasoned(p, paired.auto)
  BY <1>7, <1>8, <1>9, PairKeeps, PairReasons DEF PairFlows, once
<1> HIDE DEF paired
<1>11. gas \in Tables(n, p, m) /\ Reasoned(p, gas.auto)
  BY <1>10, GasKeeps, GiveNoTag DEF InheritGas
<1> HIDE DEF gas
<1>12. /\ Reasoned(p, MarkPatterns(gas).auto)
       /\ \A e \in Swaps(gas) : <<e, "swap">> \in MarkPatterns(gas).auto \cup m
  BY <1>11, PatternsReason
<1>13. Swaps(gas) = Swaps(db)
  <2>1. gas.count = n /\ db.count = n
    BY <1>11 DEF Tables
  <2>2. QED
    BY <2>1 DEF Swaps, TransfersOf, Rows
<1>14. Retagged(db, rules) = MarkPatterns(gas)
  BY DEF Retagged, gas, paired, ruled, own, blank
<1>15. QED
  BY <1>12, <1>13, <1>14

\* Every tag set by hand is one somebody may set; the others have their reasons,
\* which after a retag are those of the prices there are.
ReasonInv ==
  /\ Handed(manual)
  /\ Reasoned({}, auto)
  /\ fresh => /\ Reasoned(priced, auto)
              /\ \A e \in Swaps(Ledger) : <<e, "swap">> \in auto \cup manual

\* A reason that a price could take away, and one that none could.
LEMMA ReasonAnyway ==
  ASSUME NEW p, NEW tags, Reasoned(p, tags)
  PROVE  Reasoned({}, tags)
  BY DEF Reasoned, Reason

\* There is no tag at first.
LEMMA ReasonInit == TaggingInit => ReasonInv
  BY DEF TaggingInit, ReasonInv, Reasoned, Handed

\* A reason stays one while tags are set and rules found.
LEMMA ReasonStays ==
  ASSUME manual \subseteq manual',
         \A i \in DOMAIN rules : i \in DOMAIN rules' /\ rules'[i].rule = rules[i].rule
  PROVE  \A e, tag : /\ MayBear(e, tag) => MayBear(e, tag)'
                     /\ Reason({}, e, tag) => Reason({}, e, tag)'
                     /\ priced' = priced /\ Reason(priced, e, tag) => Reason(priced, e, tag)'
<1>1. ASSUME NEW e, NEW tag, MayBear(e, tag) PROVE MayBear(e, tag)'
  <2>1. CASE <<e, tag>> \in manual
    BY <2>1 DEF MayBear
  <2>2. CASE <<e, tag>> \notin manual
    <3>1. PICK i \in DOMAIN rules : /\ tag \in RuleBook[rules[i].rule].tags
                                   /\ Fits(RuleBook[rules[i].rule].match, e)
      BY <1>1, <2>2 DEF MayBear
    <3>2. i \in DOMAIN rules' /\ rules'[i].rule = rules[i].rule
      OBVIOUS
    <3>3. Fits(RuleBook[rules[i].rule].match, e) => Fits(RuleBook[rules'[i].rule].match, e)
      BY <3>2
    <3>4. QED
      BY <3>1, <3>2, <3>3 DEF MayBear
  <2>3. QED
    BY <2>1, <2>2
<1>2. \A e, kind, tag : BesideShare(e, kind, tag) => BesideShare(e, kind, tag)'
  BY <1>1 DEF BesideShare
<1>3. QED
  BY <1>1, <1>2 DEF Reason, BuysAero

\* Every step gives its reasons.
LEMMA ReasonStep == TaggingInv /\ ReasonInv /\ [TaggingNext]_taggingVars => ReasonInv'
<1> SUFFICES ASSUME TaggingInv, ReasonInv, [TaggingNext]_taggingVars PROVE ReasonInv'
  OBVIOUS
<1>t. rules \in Seq(Row)
  BY DEF TaggingInv, TaggingTypeOK, Row
<1>h. Handed(manual)'
  BY DEF Handed, MayBear
<1>1. CASE Ingest
  <2>1. UNCHANGED <<manual, rules>> /\ auto' = auto \cup IngestTags(count') /\ fresh' = FALSE
    BY <1>1 DEF Ingest
  <2>2. \A e, tag : <<e, tag>> \in IngestTags(count') => Reason({}, e, tag)
    BY DEF IngestTags, Reason
  <2>3. Reasoned({}, auto)'
    BY <2>1, <2>2, ReasonStays DEF ReasonInv, Reasoned
  <2>4. QED
    BY <1>h, <2>1, <2>3 DEF ReasonInv
<1>2. CASE Retag
  <2> DEFINE db == Retagged(Ledger, rules)
  <2>1. count \in 0..Len(Events) /\ Ledger \in Tables(count, priced, manual)
    BY LedgerTyped DEF TaggingInv
  <2>2. /\ Reasoned(priced, db.auto)
        /\ \A e \in Swaps(Ledger) : <<e, "swap">> \in db.auto \cup manual
    BY <1>t, <2>1, RetagReasons DEF ReasonInv
  <2>3. auto' = db.auto /\ UNCHANGED <<count, priced, manual, rules>>
    BY <1>2 DEF Retag
  <2> HIDE DEF db
  <2>4. Swaps(Ledger') = Swaps(Ledger)
    BY <2>3 DEF Swaps, TransfersOf, Rows, Ledger
  <2>5. Reasoned({}, db.auto)
    BY <2>2, ReasonAnyway
  <2>6. Reasoned({}, auto)' /\ Reasoned(priced, auto)'
    BY <2>2, <2>3, <2>5, ReasonStays DEF Reasoned
  <2>7. \A e \in Swaps(Ledger') : <<e, "swap">> \in auto' \cup manual'
    BY <2>2, <2>3, <2>4
  <2>8. QED
    BY <1>h, <2>6, <2>7 DEF ReasonInv
<1>3. ASSUME fresh' = FALSE, auto' \subseteq auto, manual \subseteq manual',
             \A i \in DOMAIN rules : i \in DOMAIN rules' /\ rules'[i].rule = rules[i].rule
      PROVE  ReasonInv'
  <2>1. Reasoned({}, auto)'
    BY <1>3, ReasonStays DEF ReasonInv, Reasoned
  <2>2. QED
    BY <1>h, <1>3, <2>1 DEF ReasonInv
<1>4. ASSUME NEW e \in Present, Price(e) PROVE ReasonInv'
  BY <1>3, <1>4 DEF Price
<1>5. ASSUME NEW pair \in HandTags, SetManual(pair[1], pair[2]) PROVE ReasonInv'
  BY <1>3, <1>5 DEF SetManual
<1>6. ASSUME NEW r \in Rules, FindRule(r) PROVE ReasonInv'
  <2> DEFINE row == [rule |-> r, enabled |-> TRUE]
  <2>1. rules' = rules \/ rules' = Append(rules, row)
    BY <1>6 DEF FindRule, Ensure
  <2>2. \A i \in DOMAIN rules : i \in DOMAIN rules' /\ rules'[i].rule = rules[i].rule
    BY <1>t, <2>1
  <2>3. QED
    BY <1>3, <1>6, <2>2 DEF FindRule
<1>7. ASSUME NEW i \in DOMAIN rules, SwitchOff(i) PROVE ReasonInv'
  <2>1. \A k \in DOMAIN rules : rules[k] \in Row
    BY <1>t
  <2>2. \A k \in DOMAIN rules : k \in DOMAIN rules' /\ rules'[k].rule = rules[k].rule
    BY <1>7, <2>1 DEF SwitchOff, Row
  <2>3. QED
    BY <1>3, <1>7, <2>2 DEF SwitchOff
<1>8. CASE UNCHANGED taggingVars
  <2>1. UNCHANGED <<count, priced, manual, auto, source, rules, fresh>>
    BY <1>8 DEF taggingVars
  <2>2. Swaps(Ledger') = Swaps(Ledger)
    BY <2>1 DEF Ledger
  <2>3. Reasoned({}, auto)' /\ (fresh' => Reasoned(priced, auto)')
    BY <2>1, ReasonStays DEF ReasonInv, Reasoned
  <2>4. QED
    BY <1>h, <2>1, <2>2, <2>3 DEF ReasonInv
<1>9. QED
  BY <1>1, <1>2, <1>4, <1>5, <1>6, <1>7, <1>8 DEF TaggingNext

\* In every behaviour tags have their reasons.
LEMMA ReasonInvCorrect == TaggingSpec => []ReasonInv
<1>1. TaggingInv /\ TaggingInv' /\ ReasonInv /\ [TaggingNext]_taggingVars => ReasonInv'
  BY ReasonStep
<1>2. QED
  BY <1>1, ReasonInit, TaggingInvariant, PTL DEF TaggingSpec

-----------------------------------------------------------------------------
(* The pages *)

\* The tags of an event, as pairs.
LEMMA TagsOfEvent ==
  ASSUME TaggingTypeOK, NEW e \in Present
  PROVE  /\ e \in DOMAIN Events
         /\ \A tag : tag \in TagsOf(e) => tag \in Tag /\ <<e, tag>> \in auto \cup manual
         /\ \A tag : <<e, tag>> \in auto \cup manual => tag \in TagsOf(e)
<1>1. e \in DOMAIN Events
  BY TaggingAssumption DEF TaggingTypeOK, Present
<1>2. auto \cup manual \subseteq Present \X Tag
  BY DEF TaggingTypeOK
<1>3. QED
  BY <1>1, <1>2 DEF TagsOf

\* A tidy fee has none of the tags that neto leaves out.
LEMMA FeesAreFees ==
  ASSUME TaggingTypeOK, ReasonInv, NEW e \in Present, Tidy(e), Events[e].kind = "gas"
  PROVE  TagsOf(e) \cap NonFlowTags = {}
<1> SUFFICES ASSUME NEW tag \in NonFlowTags, tag \in TagsOf(e) PROVE FALSE
  OBVIOUS
<1>1. e \in DOMAIN Events /\ tag \in Tag /\ <<e, tag>> \in auto \cup manual
  BY TagsOfEvent
<1>2. ~MayBear(e, tag) /\ Events[e].counterparty \notin Tracked
  BY <1>1 DEF Tidy
<1>3. Reason({}, e, tag)
  BY <1>1, <1>2 DEF ReasonInv, Reasoned, Handed, Reason
<1>4. QED
  BY <1>2, <1>3 DEF Reason, BuysAero

\* And what comes in, has a price and is retagged has another of them only if it has
\* one by which the strategy's account knows it is no income.
LEMMA IncomeIsIncome ==
  ASSUME TaggingTypeOK, ReasonInv, fresh,
         NEW e \in Present, Tidy(e), Events[e].kind = "in", e \in priced,
         TagsOf(e) \cap {"own-transfer", "withdraw", "unlock", "swap"} = {}
  PROVE  TagsOf(e) \cap NonFlowTags = {}
<1> SUFFICES ASSUME NEW tag \in NonFlowTags, tag \in TagsOf(e) PROVE FALSE
  OBVIOUS
<1>1. e \in DOMAIN Events /\ tag \in Tag /\ <<e, tag>> \in auto \cup manual
  BY TagsOfEvent
<1>2. tag \in {"lock", "deposit", "venft-purchase", "spam"}
  BY DEF NonFlowTags
<1>3. Reason(priced, e, tag)
  BY <1>1 DEF ReasonInv, Reasoned, Handed, Reason
<1>4. MayBear(e, tag)
  BY <1>2, <1>3 DEF Reason, BuysAero
<1>5. tag = "deposit"
  BY <1>1, <1>2, <1>4 DEF Tidy
<1>6. PICK o \in 1..(e - 1) : Events[o].tx = Events[e].tx /\ Events[o].kind = "out"
  BY <1>1, <1>4, <1>5 DEF Tidy
<1>7. e \in 1..count /\ o \in 1..count
  BY <1>6 DEF Present, TaggingTypeOK
<1>8. e \in Swaps(Ledger)
  BY <1>6, <1>7 DEF Swaps, TransfersOf, Rows, Ledger
<1>9. "swap" \in TagsOf(e)
  BY <1>8, TagsOfEvent DEF ReasonInv
<1>10. QED
  BY <1>9

\* A fee, or what comes in, is no purchase: its strategy is its source, rebases folded.
LEMMA StrategyOf ==
  ASSUME TaggingTypeOK, ReasonInv, NEW e \in Present, Tidy(e), Events[e].kind \in {"gas", "in"}
  PROVE  Strategy(e) = IF source[e] = Rebase THEN Voting ELSE source[e]
<1>1. "venft-purchase" \notin TagsOf(e)
  <2> SUFFICES ASSUME "venft-purchase" \in TagsOf(e) PROVE FALSE
    OBVIOUS
  <2> DEFINE tag == "venft-purchase"
  <2>1. e \in DOMAIN Events /\ tag \in Tag /\ <<e, tag>> \in auto \cup manual
    BY TagsOfEvent
  <2>2. tag \in NonFlowTags
    BY DEF NonFlowTags
  <2>3. ~MayBear(e, tag)
    BY <2>1, <2>2 DEF Tidy
  <2>4. Reason({}, e, tag)
    BY <2>1, <2>3 DEF ReasonInv, Reasoned, Handed
  <2>5. QED
    BY <2>3, <2>4 DEF Reason, BuysAero
<1>2. QED
  BY <1>1 DEF Strategy

\* The pages agree on tidy fees at any moment, and on tidy priced income after a
\* retag (neto_by_epoch_source, fee_summary, strategy_summary).
THEOREM PagesAgreeCorrect == TaggingSpec => []PagesAgree
<1>1. ASSUME TaggingInv, ReasonInv PROVE PagesAgree
  <2> DEFINE folded(strategy) ==
               {src \in Sources : src = strategy \/ (strategy = Voting /\ src = Rebase)}
             netoOf(strategy, kind) == UNION {Neto(src, kind) : src \in folded(strategy)}
             tidy == {e \in Present : Tidy(e)}
             fees == UNION {Neto(src, "gas") : src \in Sources \cup {NoSource}}
  <2>1. TaggingTypeOK
    BY <1>1 DEF TaggingInv
  <2>2. FeeSummary \cap tidy = fees \cap tidy
    <3>1. ASSUME NEW e \in FeeSummary \cap tidy
          PROVE  e \in Neto(source[e], "gas") /\ source[e] \in Sources \cup {NoSource}
      BY <1>1, <2>1, <3>1, FeesAreFees DEF FeeSummary, Neto, Sources
    <3>2. \A src : Neto(src, "gas") \subseteq FeeSummary
      BY DEF Neto, FeeSummary
    <3> HIDE DEF FeeSummary, Neto, tidy
    <3>3. ASSUME NEW e \in tidy, e \in FeeSummary PROVE e \in fees
      BY <3>1, <3>3
    <3>4. ASSUME NEW e \in tidy, e \in fees PROVE e \in FeeSummary
      BY <3>2, <3>4
    <3> HIDE DEF fees
    <3>5. QED
      BY <3>3, <3>4
  <2>3. ASSUME NEW strategy \in (Sources \cup {Voting}) \ {Rebase}, NEW kind \in {"gas", "in"},
               NEW e \in tidy
        PROVE  e \in netoOf(strategy, kind) <=>
                 /\ e \in Present /\ Events[e].kind = kind /\ TagsOf(e) \cap NonFlowTags = {}
                 /\ Strategy(e) = strategy
    <3>1. strategy # NoSource
      BY DEF Sources, Voting, NoSource
    <3>2. e \in netoOf(strategy, kind) <=>
            /\ e \in Present /\ Events[e].kind = kind /\ TagsOf(e) \cap NonFlowTags = {}
            /\ source[e] \in folded(strategy)
      BY DEF Neto
    <3>3. ASSUME e \in Present, Events[e].kind = kind
          PROVE  source[e] \in folded(strategy) <=> Strategy(e) = strategy
      <4>1. Strategy(e) = IF source[e] = Rebase THEN Voting ELSE source[e]
        BY <1>1, <2>1, <3>3, StrategyOf
      <4>2. source[e] # NoSource => source[e] \in Sources
        BY <3>3 DEF Sources
      <4>3. QED
        BY <3>1, <4>1, <4>2 DEF Rebase, Voting, NoSource
    <3> HIDE DEF netoOf, folded
    <3>4. QED
      BY <3>2, <3>3
  <2>4. ASSUME NEW strategy \in (Sources \cup {Voting}) \ {Rebase}
        PROVE  Account(strategy, "gas") \cap tidy = netoOf(strategy, "gas") \cap tidy
    <3>1. strategy # NoSource
      BY DEF Sources, Voting, NoSource
    <3>2. ASSUME NEW e \in tidy, Strategy(e) = strategy
          PROVE  Slot(e) = "gas" <=> Events[e].kind = "gas" /\ TagsOf(e) \cap NonFlowTags = {}
      <4>1. CASE Events[e].kind = "gas"
        <5>1. TagsOf(e) \cap NonFlowTags = {}
          BY <1>1, <2>1, <4>1, FeesAreFees
        <5>2. Counts(e)
          BY <3>1, <3>2, <5>1 DEF Counts, NonFlowTags
        <5>3. ~Capital(e) /\ ~Principal(e)
          BY <4>1 DEF Capital, Principal
        <5>4. QED
          BY <4>1, <5>1, <5>2, <5>3 DEF Slot
      <4>2. CASE Events[e].kind # "gas"
        <5>1. ~(Capital(e) /\ Principal(e))
          BY DEF Capital, Principal
        <5>2. Slot(e) # "gas"
          BY <4>2, <5>1 DEF Slot
        <5>3. QED
          BY <4>2, <5>2
      <4>3. QED
        BY <4>1, <4>2
    <3>3. \A e \in tidy : e \in Account(strategy, "gas") <=> e \in netoOf(strategy, "gas")
      <4>1. tidy \subseteq Present
        OBVIOUS
      <4> HIDE DEF netoOf, tidy
      <4>2. QED
        BY <2>3, <3>2, <4>1 DEF Account
    <3> HIDE DEF netoOf, tidy
    <3>4. QED
      BY <3>3
  <2>5. ASSUME NEW strategy \in (Sources \cup {Voting}) \ {Rebase}, fresh
        PROVE  Account(strategy, "income") \cap priced \cap tidy =
                 netoOf(strategy, "in") \cap priced \cap tidy
    <3>1. strategy # NoSource
      BY DEF Sources, Voting, NoSource
    <3>2. ASSUME NEW e \in tidy, Strategy(e) = strategy, e \in priced
          PROVE  Slot(e) = "income" <=> Events[e].kind = "in" /\ TagsOf(e) \cap NonFlowTags = {}
      <4>0. Events[e].kind \in {"in", "out", "gas"}
        BY <2>1, TagsOfEvent, TaggingAssumption
      <4>1. CASE Events[e].kind = "in"
        <5>1. Slot(e) = "income" <=>
                TagsOf(e) \cap {"own-transfer", "withdraw", "unlock", "swap"} = {}
          <6>1. ~Capital(e) /\ (Principal(e) <=> TagsOf(e) \cap {"withdraw", "unlock"} # {})
            BY <4>1 DEF Capital, Principal
          <6>2. Counts(e) <=> "own-transfer" \notin TagsOf(e)
            BY <3>1, <3>2 DEF Counts
          <6>3. CASE ~Counts(e)
            BY <6>2, <6>3 DEF Slot
          <6>4. CASE Counts(e) /\ Principal(e)
            BY <4>1, <6>1, <6>4 DEF Slot
          <6>5. CASE Counts(e) /\ ~Principal(e)
            <7>1. Slot(e) = IF "swap" \in TagsOf(e) THEN "none" ELSE "income"
              BY <4>1, <6>1, <6>5 DEF Slot
            <7>2. QED
              BY <6>1, <6>2, <6>5, <7>1
          <6>6. QED
            BY <6>3, <6>4, <6>5
        <5>2. TagsOf(e) \cap {"own-transfer", "withdraw", "unlock", "swap"} = {} =>
                TagsOf(e) \cap NonFlowTags = {}
          BY <1>1, <2>1, <2>5, <3>2, <4>1, IncomeIsIncome
        <5>3. QED
          BY <4>1, <5>1, <5>2 DEF NonFlowTags
      <4>2. CASE Events[e].kind # "in"
        <5>1. ~Principal(e)
          BY <4>2 DEF Principal
        <5>2. Slot(e) # "income"
          BY <4>0, <4>2, <5>1 DEF Slot, Capital
        <5>3. QED
          BY <4>2, <5>2
      <4>3. QED
        BY <4>1, <4>2
    <3>3. \A e \in priced \cap tidy :
            e \in Account(strategy, "income") <=> e \in netoOf(strategy, "in")
      <4>1. tidy \subseteq Present
        OBVIOUS
      <4> HIDE DEF netoOf, tidy
      <4>2. QED
        BY <2>3, <3>2, <4>1 DEF Account
    <3> HIDE DEF netoOf, tidy
    <3>4. QED
      BY <3>3
  <2>6. QED
    BY <2>2, <2>4, <2>5 DEF PagesAgree
<1>2. TaggingInv /\ ReasonInv => PagesAgree
  BY <1>1
<1>3. QED
  BY <1>2, TaggingInvariant, ReasonInvCorrect, PTL


-----------------------------------------------------------------------------
(* Vault flows *)

\* A leg that goes against a sourced share leg of another contract.
Routed(d, e, assetKind, shareKind, tag) ==
  /\ Events[e].kind = assetKind
  /\ \E s \in Shares(d, e, shareKind, tag) : Events[s].contract # Events[e].contract

\* Just the routed legs get the tag, and just those without a source get one: that
\* of a share leg.
LEMMA PairExactly ==
  ASSUME NEW n \in 0..Len(Events), NEW p, NEW m, NEW d \in Tables(n, p, m),
         NEW assetKind, NEW shareKind, NEW tag \in Tag, NEW d2,
         d2 = Pair(d, assetKind, shareKind, tag)
  PROVE  /\ \A e \in 1..n : \A t : <<e, t>> \in d2.auto =>
              <<e, t>> \in d.auto \/ (t = tag /\ Events[e].kind = assetKind)
         /\ \A e \in 1..n : Routed(d, e, assetKind, shareKind, tag) =>
              <<e, tag>> \in d2.auto \cup m
         /\ \A e \in 1..n : Routed(d, e, assetKind, shareKind, tag) /\ Open(d, e) =>
              \E s \in Shares(d, e, shareKind, tag) : d2.source[e] = d.source[s]
         /\ \A e \in 1..n : d2.source[e] # d.source[e] =>
              Routed(d, e, assetKind, shareKind, tag)
<1> DEFINE legs(e) == Shares(d, e, shareKind, tag)
           routed == {e \in Rows(d) :
                        /\ Events[e].kind = assetKind
                        /\ \E s \in legs(e) : Events[s].contract # Events[e].contract}
           open == {e \in routed : Open(d, e)}
           d1 == Add(d, Mark(routed, tag))
           found == [e \in open |-> d.source[CHOOSE s \in legs(e) : TRUE]]
<1>1. Rows(d) = 1..n /\ 1..n \subseteq DOMAIN Events /\ d.source \in [DOMAIN Events -> Given]
  BY TaggingAssumption DEF Tables, Rows
<1>2. d2 = Give(d1, found)
  BY DEF Pair
<1>3. routed = {e \in 1..n : Routed(d, e, assetKind, shareKind, tag)}
  BY <1>1 DEF Routed
<1>4. \A e \in open : (CHOOSE s \in legs(e) : TRUE) \in legs(e) /\ legs(e) \subseteq 1..n
  <2>1. \A e \in open : legs(e) # {} /\ legs(e) \subseteq 1..n
    BY <1>1 DEF Shares
  <2> HIDE DEF legs, open
  <2>2. QED
    BY <2>1
<1>5. open \subseteq 1..n /\ \A e \in open : Open(d, e)
  BY <1>1
<1> HIDE DEF legs
<1>6. \A e \in open : \E s \in legs(e) : found[e] = d.source[s] /\ found[e] \in Given
  <2> HIDE DEF open
  <2>1. QED
    BY <1>1, <1>4
<1>7. \A e \in 1..n : e \in open <=> e \in routed /\ Open(d, e)
  BY <1>1
<1> HIDE DEF routed
<1>8. Mark(routed, tag) \in SUBSET ((1..n) \X Tag)
  BY <1>3 DEF Mark
<1>9. /\ d1 \in Tables(n, p, m) /\ d1.source = d.source
      /\ d1.auto = d.auto \cup (Mark(routed, tag) \ m)
  BY <1>8, AddKeeps
<1>10. DOMAIN found = open
  OBVIOUS
<1> HIDE DEF d1, found, open
<1>11. /\ d2.auto = d1.auto
       /\ \A e \in open : d2.source[e] = found[e]
       /\ \A e \in DOMAIN Events \ open : d2.source[e] = d.source[e]
  <2>1. DOMAIN found \subseteq {e \in 1..n : Open(d1, e)} /\ \A e \in DOMAIN found : found[e] \in Given
    BY <1>5, <1>6, <1>9, <1>10 DEF Open
  <2>2. QED
    BY <1>2, <1>9, <1>10, <2>1, GiveKeeps
<1>12. ASSUME NEW e \in 1..n, NEW t, <<e, t>> \in d2.auto, <<e, t>> \notin d.auto
       PROVE  t = tag /\ Events[e].kind = assetKind
  <2>1. <<e, t>> \in Mark(routed, tag)
    BY <1>9, <1>11, <1>12
  <2>2. e \in routed /\ t = tag
    BY <2>1 DEF Mark
  <2>3. QED
    BY <1>3, <2>2 DEF Routed
<1>13. ASSUME NEW e \in 1..n, Routed(d, e, assetKind, shareKind, tag)
       PROVE  <<e, tag>> \in d2.auto \cup m
  <2>1. <<e, tag>> \in Mark(routed, tag)
    BY <1>3, <1>13 DEF Mark
  <2>2. QED
    BY <1>9, <1>11, <2>1
<1>14. ASSUME NEW e \in 1..n, Routed(d, e, assetKind, shareKind, tag), Open(d, e)
       PROVE  \E s \in Shares(d, e, shareKind, tag) : d2.source[e] = d.source[s]
  BY <1>3, <1>6, <1>7, <1>11, <1>14 DEF legs
<1>15. ASSUME NEW e \in 1..n, d2.source[e] # d.source[e]
       PROVE  Routed(d, e, assetKind, shareKind, tag)
  BY <1>1, <1>3, <1>7, <1>11, <1>15
<1>16. QED
  BY <1>12, <1>13, <1>14, <1>15

\* The event has no source, or that of a rule that claims it.
OpenOrClaimed(d, e) == Open(d, e) \/ d.source[e] \in Claims(e)

\* The rules give an event no source but that of one that claims it.
LEMMA RulesClaim ==
  ASSUME NEW n \in 0..Len(Events), NEW p, NEW m, NEW d \in Tables(n, p, m), rules \in Seq(Row),
         NEW e \in 1..n, Open(d, e)
  PROVE  OpenOrClaimed(ApplyRules(d, rules), e)
<1> DEFINE rows == ByPriority(rules)
           N == Len(rules)
<1>1. rows \in Seq(Row) /\ Len(rows) = N /\ N \in Nat
  BY OrderIsFixed
<1>2. PICK after \in [0..N -> Tables(n, p, m)] :
         /\ after[0] = d
         /\ \A k \in 1..N : after[k] = ApplyRow(after[k - 1], rows[k])
         /\ ApplyRules(d, rules) = after[N]
  BY RulesInTurn
<1>8. \A k \in 1..N : \E i \in DOMAIN rules : rows[k] = rules[i]
  BY RowsOfTable
<1> HIDE DEF rows, N
<1> DEFINE S == {k \in 0..N : OpenOrClaimed(after[k], e)}
<1>3. 0 \in S
  BY <1>1, <1>2 DEF OpenOrClaimed
<1>4. ASSUME NEW k \in 0..N, k \in S, k < N PROVE k + 1 \in S
  <2> DEFINE next == k + 1
  <2>1. next \in 0..N /\ next \in 1..N /\ next - 1 = k
    BY <1>1, <1>4
  <2> HIDE DEF next
  <2>2. after[next] = ApplyRow(after[k], rows[next]) /\ rows[next] \in Row
    BY <1>1, <1>2, <2>1
  <2>3. rows[next].rule \in Rules /\ after[k] \in Tables(n, p, m) /\ OpenOrClaimed(after[k], e)
    BY <1>2, <1>4, <2>2 DEF Row
  <2>4. OpenOrClaimed(after[next], e)
    <3>1. e \in DOMAIN Events
      BY TaggingAssumption
    <3>5. PICK i \in DOMAIN rules : rows[next] = rules[i]
      BY <1>8, <2>1
    <3> DEFINE rule == rows[next].rule
               then == ApplyRule(after[k], rule)
    <3> HIDE DEF rule
    <3>2. /\ Keeps(after[k], then)
          /\ Open(after[k], e) =>
               then.source[e] =
                 IF Fits(RuleBook[rule].match, e) THEN RuleBook[rule].source ELSE NoSource
      BY <2>3, RuleKeeps DEF rule
    <3> HIDE DEF then
    <3>6. rows[next].enabled /\ Fits(RuleBook[rule].match, e) =>
            RuleBook[rule].source \in Claims(e) \cup {NoSource}
      BY <3>5 DEF Claims, rule
    <3>3. rows[next].enabled => OpenOrClaimed(then, e)
      BY <2>3, <3>1, <3>2, <3>6 DEF OpenOrClaimed, Keeps, Open
    <3>4. QED
      BY <2>2, <2>3, <3>3 DEF ApplyRow, then, rule
  <2>5. QED
    BY <2>1, <2>4 DEF next
<1> HIDE DEF S
<1>5. 0..N \subseteq S
  BY <1>1, <1>3, <1>4, UpTo
<1>6. N \in S
  BY <1>1, <1>5
<1>7. QED
  BY <1>2, <1>6 DEF S

\* Gas and patterns: the sources of transfers, and the tags of vault flows, stay.
LEMMA GasAndPatternsLeave ==
  ASSUME NEW n \in 0..Len(Events), NEW p, NEW m, NEW d \in Tables(n, p, m), NEW all,
         all = MarkPatterns(InheritGas(d))
  PROVE  /\ all \in Tables(n, p, m) /\ Keeps(d, all)
         /\ \A e \in 1..n : Events[e].kind # "gas" => all.source[e] = d.source[e]
         /\ \A e \in 1..n, tag \in {"deposit", "withdraw"} :
              <<e, tag>> \in all.auto => <<e, tag>> \in d.auto
<1> DEFINE gas == InheritGas(d)
           Sourced(e) == {s \in Rows(d) : Events[s].tx = Events[e].tx /\ ~Open(d, s)}
           open == {e \in Rows(d) \ TransfersOf(d) : Open(d, e) /\ Sourced(e) # {}}
           found == [e \in open |->
                       d.source[CHOOSE s \in Sourced(e) : \A q \in Sourced(e) : s <= q]]
           new == Mark(Swaps(gas), "swap") \cup Mark(Reinvests(gas), "reinvest")
                  \cup Mark(Purchases(gas), "venft-purchase") \cup Mark(Spam(gas), "spam")
<1>1. gas = Give(d, found) /\ DOMAIN found = open
  BY DEF InheritGas
<1>2. Rows(d) = 1..n /\ 1..n \subseteq DOMAIN Events /\ DOMAIN d.source = DOMAIN Events
  BY TaggingAssumption DEF Tables, Rows
<1>3. \A e \in 1..n : Events[e].kind # "gas" => e \notin open
  BY <1>2 DEF TransfersOf
<1> HIDE DEF found, open
<1>4. gas.auto = d.auto /\ \A e \in 1..n : Events[e].kind # "gas" => gas.source[e] = d.source[e]
  BY <1>1, <1>2, <1>3 DEF Give, Tables
<1>5. gas \in Tables(n, p, m) /\ Keeps(d, gas)
  BY GasKeeps
<1> HIDE DEF gas
<1>6. all = Add(gas, new)
  BY DEF MarkPatterns, gas
<1>7. all.source = gas.source /\ all.auto \subseteq gas.auto \cup new
  BY <1>5, <1>6 DEF Add, Tables
<1>8. \A e \in 1..n, tag \in {"deposit", "withdraw"} : <<e, tag>> \notin new
  BY DEF Mark
<1>9. all \in Tables(n, p, m) /\ Keeps(gas, all)
  BY <1>5, PatternsKeep DEF gas
<1>10. Keeps(d, all)
  BY <1>5, <1>9, KeepsOn
<1> HIDE DEF new
<1>11. QED
  BY <1>4, <1>7, <1>8, <1>9, <1>10


\* The steps of a retag, one table after another.
LEMMA RetagStages ==
  ASSUME NEW n \in 0..Len(Events), NEW p, NEW m, NEW db \in Tables(n, p, m), rules \in Seq(Row),
         Handed(m)
  PROVE  \E ruled \in Tables(n, p, m), once \in Tables(n, p, m), paired \in Tables(n, p, m) :
           /\ \A e \in 1..n : OpenOrClaimed(ruled, e)
           /\ Reasoned(p, ruled.auto)
           /\ once = Pair(ruled, "out", "in", "deposit")
           /\ Reasoned(p, once.auto)
           /\ paired = Pair(once, "in", "out", "withdraw")
           /\ Retagged(db, rules) = MarkPatterns(InheritGas(paired))
<1> DEFINE blank == Blank(db)
           marks == Mark(OwnTransfersOf(blank), "own-transfer")
           own == OwnTagged(blank)
           ruled == ApplyRules(own, rules)
           once == Pair(ruled, "out", "in", "deposit")
           paired == Pair(once, "in", "out", "withdraw")
<1>1. /\ blank \in Tables(n, p, m) /\ blank.auto = {}
      /\ \A e \in 1..n : Open(blank, e)
  <2> DEFINE none == NoSources
  <2>1. none \in [DOMAIN Events -> Given] /\ \A e \in 1..n : none[e] = NoSource
    BY TaggingAssumption DEF Given, NoSources
  <2>2. {} \in SUBSET (((1..n) \X Tag) \ m)
    OBVIOUS
  <2>3. blank = [db EXCEPT !.auto = {}, !.source = none]
    BY DEF Blank
  <2> HIDE DEF none, blank
  <2>4. blank \in Tables(n, p, m)
    BY <2>1, <2>2, <2>3 DEF Tables
  <2>5. blank.source = none
    BY <2>3 DEF Tables
  <2>6. QED
    BY <2>1, <2>3, <2>4, <2>5 DEF Tables, Open
<1> HIDE DEF blank
<1>2. \A e \in OwnTransfersOf(blank) : e \in 1..n /\ Events[e].counterparty \in Tracked
  BY <1>1 DEF OwnTransfersOf, Rows, Tables
<1>3. marks \in SUBSET ((1..n) \X Tag)
  BY <1>2, InferredTags DEF Mark, Inferred
<1>4. Reasoned(p, marks) /\ Reasoned(p, blank.auto)
  BY <1>1, <1>2 DEF Reasoned, Reason, Mark
<1> HIDE DEF marks
<1>5. own \in Tables(n, p, m) /\ Reasoned(p, own.auto) /\ own.source = blank.source
  <2>1. own = Add(blank, marks)
    BY DEF OwnTagged, marks
  <2>2. Add(blank, marks).source = blank.source
    BY <1>1, <1>3, AddKeeps
  <2>3. Add(blank, marks) \in Tables(n, p, m) /\ Reasoned(p, Add(blank, marks).auto)
    BY <1>1, <1>3, <1>4, AddReasoned
  <2>4. QED
    BY <2>1, <2>2, <2>3
<1>6. \A e \in 1..n : Open(own, e)
  BY <1>1, <1>5 DEF Open
<1> HIDE DEF own
<1>7. ruled \in Tables(n, p, m) /\ Reasoned(p, ruled.auto)
  BY <1>5, RulesKeep, RulesReason
<1>8. \A e \in 1..n : OpenOrClaimed(ruled, e)
  BY <1>5, <1>6, RulesClaim
<1> HIDE DEF ruled
<1>9. "deposit" \in Tag /\ "withdraw" \in Tag
  BY InferredTags DEF Inferred
<1>10. \A e \in DOMAIN Events :
         /\ Events[e].kind = "out" /\ BesideShare(e, "in", "deposit") => Reason(p, e, "deposit")
         /\ Events[e].kind = "in" /\ Reason(p, e, "deposit") => MayBear(e, "deposit")
  BY DEF Reason
<1>11. once \in Tables(n, p, m) /\ Reasoned(p, once.auto)
  BY <1>7, <1>9, <1>10, PairKeeps, PairReasons
<1> HIDE DEF once
<1>12. paired \in Tables(n, p, m)
  BY <1>9, <1>11, PairKeeps
<1>13. Retagged(db, rules) = MarkPatterns(InheritGas(paired))
  BY DEF Retagged, PairFlows, paired, once, ruled, own, blank
<1>14. once = Pair(ruled, "out", "in", "deposit")
  BY DEF once
<1> HIDE DEF paired
<1>15. paired = Pair(once, "in", "out", "withdraw")
  BY DEF paired
<1>16. QED
  BY <1>7, <1>8, <1>11, <1>12, <1>13, <1>14, <1>15

\* A leg that a routed asset is paired with may be a vault's share.
LEMMA SharesMayBe ==
  ASSUME NEW n \in 0..Len(Events), NEW p, NEW m, NEW d \in Tables(n, p, m),
         Handed(m), Reasoned(p, d.auto)
  PROVE  /\ \A e : \A q \in Shares(d, e, "in", "deposit") :
              /\ q \in 1..n /\ Events[q].tx = Events[e].tx
              /\ Events[q].kind = "in" /\ MayBeShare(q)
         /\ \A e : \A q \in Shares(d, e, "out", "withdraw") :
              /\ q \in 1..n /\ Events[q].tx = Events[e].tx
              /\ Events[q].kind = "out" /\ MayBeShare(q)
<1>1. Rows(d) = 1..n /\ 1..n \subseteq DOMAIN Events /\ d.manual = m
  BY TaggingAssumption DEF Tables, Rows
<1>2. "deposit" \in Tag /\ "withdraw" \in Tag
  BY InferredTags DEF Inferred
<1>3. ASSUME NEW e, NEW q \in Shares(d, e, "in", "deposit")
      PROVE  /\ q \in 1..n /\ Events[q].tx = Events[e].tx
             /\ Events[q].kind = "in" /\ MayBeShare(q)
  <2>1. /\ q \in 1..n /\ Events[q].tx = Events[e].tx /\ Events[q].kind = "in"
        /\ <<q, "deposit">> \in d.auto \cup m
    BY <1>1 DEF Shares, Has
  <2>2. MayBear(q, "deposit") \/ Reason(p, q, "deposit")
    BY <1>1, <1>2, <2>1 DEF Handed, Reasoned
  <2>3. QED
    BY <2>1, <2>2 DEF Reason, MayBeShare
<1>4. ASSUME NEW e, NEW q \in Shares(d, e, "out", "withdraw")
      PROVE  /\ q \in 1..n /\ Events[q].tx = Events[e].tx
             /\ Events[q].kind = "out" /\ MayBeShare(q)
  <2>1. /\ q \in 1..n /\ Events[q].tx = Events[e].tx /\ Events[q].kind = "out"
        /\ <<q, "withdraw">> \in d.auto \cup m
    BY <1>1 DEF Shares, Has
  <2>2. MayBear(q, "withdraw") \/ Reason(p, q, "withdraw")
    BY <1>1, <1>2, <2>1 DEF Handed, Reasoned
  <2>3. QED
    BY <2>1, <2>2 DEF Reason, MayBeShare
<1>5. QED
  BY <1>3, <1>4

\* In a tidy vault's flow, a retag gives what goes against the share leg the tag of its
\* direction, and the share's source if no rule claims it.
LEMMA FlowsAreRouted ==
  ASSUME NEW n \in 0..Len(Events), NEW p, NEW m, NEW db \in Tables(n, p, m),
         rules \in Seq(Row), Handed(m), NEW all, all = Retagged(db, rules),
         NEW s \in 1..n, ~Open(all, s), TidyVault(s),
         NEW tag, <<s, tag>> \in all.auto \cup m,
         \/ Events[s].kind = "in" /\ tag = "deposit"
         \/ Events[s].kind = "out" /\ tag = "withdraw",
         NEW a \in 1..n, Events[a].tx = Events[s].tx,
         Events[a].kind # "gas", Events[a].kind # Events[s].kind,
         Events[a].counterparty \notin Tracked
  PROVE  /\ <<a, tag>> \in all.auto \cup m
         /\ all.source[a] = all.source[s] \/ all.source[a] \in Claims(a)
<1>1. PICK ruled \in Tables(n, p, m), once \in Tables(n, p, m), paired \in Tables(n, p, m) :
        /\ \A e \in 1..n : OpenOrClaimed(ruled, e)
        /\ Reasoned(p, ruled.auto)
        /\ once = Pair(ruled, "out", "in", "deposit")
        /\ Reasoned(p, once.auto)
        /\ paired = Pair(once, "in", "out", "withdraw")
        /\ all = MarkPatterns(InheritGas(paired))
  BY RetagStages
<1>2. /\ 1..n \subseteq DOMAIN Events
      /\ \A e \in 1..n : Events[e].kind \in {"in", "out", "gas"}
      /\ "deposit" \in Tag /\ "withdraw" \in Tag
  BY TaggingAssumption, InferredTags DEF Inferred
<1>3. Events[a].contract # Events[s].contract
  BY <1>2 DEF TidyVault
<1>4. \A q \in 1..n : MayBeShare(q) /\ Events[q].tx = Events[s].tx /\ Events[q].kind # "gas" => q = s
  BY <1>2 DEF TidyVault
<1>5. Open(ruled, a) \/ ruled.source[a] \in Claims(a)
  BY <1>1 DEF OpenOrClaimed
<1>6. /\ \A e \in 1..n : Events[e].kind # "gas" => all.source[e] = paired.source[e]
      /\ Keeps(paired, all)
      /\ <<s, tag>> \in paired.auto \cup m
  <2>1. /\ \A e \in 1..n : Events[e].kind # "gas" => all.source[e] = paired.source[e]
        /\ Keeps(paired, all)
        /\ \A e \in 1..n, t \in {"deposit", "withdraw"} :
             <<e, t>> \in all.auto => <<e, t>> \in paired.auto
    BY <1>1, GasAndPatternsLeave
  <2>2. tag \in {"deposit", "withdraw"}
    OBVIOUS
  <2>3. QED
    BY <2>1, <2>2
<1>7. once.manual = m /\ ruled.manual = m /\ Rows(ruled) = 1..n /\ Rows(once) = 1..n
  BY DEF Tables, Rows
<1>8. CASE Events[s].kind = "in"
  <2>1. Events[a].kind = "out" /\ tag = "deposit"
    BY <1>2, <1>8
  <2>2. <<s, "deposit">> \in ruled.auto \cup m
    <3>1. <<s, "deposit">> \in once.auto \cup m
      BY <1>1, <1>2, <1>6, <2>1, PairExactly
    <3>2. QED
      BY <1>1, <1>2, <1>8, <3>1, PairExactly
  <2>3. paired.source[s] = once.source[s]
    <3> SUFFICES ASSUME Routed(once, s, "in", "out", "withdraw") PROVE FALSE
      BY <1>1, <1>2, PairExactly
    <3>1. PICK q \in Shares(once, s, "out", "withdraw") : TRUE
      BY DEF Routed
    <3>2. q \in 1..n /\ Events[q].tx = Events[s].tx /\ Events[q].kind = "out" /\ MayBeShare(q)
      BY <1>1, <3>1, SharesMayBe
    <3>3. QED
      BY <1>4, <1>8, <3>2
  <2>4. once.source[s] = ruled.source[s]
    <3>1. ~Routed(ruled, s, "out", "in", "deposit")
      BY <1>8 DEF Routed
    <3>2. QED
      BY <1>1, <1>2, <3>1, PairExactly
  <2>5. s \in Shares(ruled, a, "in", "deposit")
    <3>1. ~Open(ruled, s)
      BY <1>6, <1>8, <2>3, <2>4 DEF Open
    <3>2. QED
      BY <1>7, <1>8, <2>2, <3>1 DEF Shares, Has
  <2>6. Routed(ruled, a, "out", "in", "deposit")
    BY <1>3, <2>1, <2>5 DEF Routed
  <2>7. <<a, "deposit">> \in once.auto \cup m
    BY <1>1, <1>2, <2>6, PairExactly
  <2>8. once.source[a] = ruled.source[s] \/ once.source[a] \in Claims(a)
    <3>1. CASE Open(ruled, a)
      <4>1. PICK q \in Shares(ruled, a, "in", "deposit") : once.source[a] = ruled.source[q]
        BY <1>1, <1>2, <2>6, <3>1, PairExactly
      <4>2. q \in 1..n /\ Events[q].tx = Events[a].tx /\ Events[q].kind = "in" /\ MayBeShare(q)
        BY <1>1, <4>1, SharesMayBe
      <4>3. q = s
        BY <1>4, <4>2
      <4>4. QED
        BY <4>1, <4>3
    <3>2. CASE ~Open(ruled, a)
      <4>1. ruled.source[a] \in Claims(a)
        BY <1>5, <3>2
      <4>2. Keeps(ruled, once)
        BY <1>1, <1>2, PairKeeps
      <4>3. QED
        BY <1>2, <3>2, <4>1, <4>2 DEF Keeps
    <3>3. QED
      BY <3>1, <3>2
  <2>9. Keeps(once, paired) /\ paired.source[a] = once.source[a]
    <3>1. ~Routed(once, a, "in", "out", "withdraw")
      BY <2>1 DEF Routed
    <3>2. QED
      BY <1>1, <1>2, <3>1, PairExactly, PairKeeps
  <2>10. QED
    BY <1>6, <1>8, <2>1, <2>3, <2>4, <2>7, <2>8, <2>9 DEF Keeps
<1>9. CASE Events[s].kind = "out"
  <2>1. Events[a].kind = "in" /\ tag = "withdraw"
    BY <1>2, <1>9
  <2>2. <<s, "withdraw">> \in once.auto \cup m
    BY <1>1, <1>2, <1>6, <1>9, <2>1, PairExactly
  <2>3. paired.source[s] = once.source[s]
    <3>1. ~Routed(once, s, "in", "out", "withdraw")
      BY <1>9 DEF Routed
    <3>2. QED
      BY <1>1, <1>2, <3>1, PairExactly
  <2>4. s \in Shares(once, a, "out", "withdraw")
    <3>1. ~Open(once, s)
      BY <1>6, <1>9, <2>3 DEF Open
    <3>2. QED
      BY <1>7, <1>9, <2>2, <3>1 DEF Shares, Has
  <2>5. once.source[a] = ruled.source[a] /\ once.source[s] = ruled.source[s]
    <3>1. ~Routed(ruled, a, "out", "in", "deposit")
      BY <2>1 DEF Routed
    <3>2. ASSUME Routed(ruled, s, "out", "in", "deposit") PROVE FALSE
      <4>1. PICK q \in Shares(ruled, s, "in", "deposit") : TRUE
        BY <3>2 DEF Routed
      <4>2. q \in 1..n /\ Events[q].tx = Events[s].tx /\ Events[q].kind = "in" /\ MayBeShare(q)
        BY <1>1, <4>1, SharesMayBe
      <4>3. QED
        BY <1>4, <1>9, <4>2
    <3>3. QED
      BY <1>1, <1>2, <3>1, <3>2, PairExactly
  <2>6. Routed(once, a, "in", "out", "withdraw")
    BY <1>3, <2>1, <2>4 DEF Routed
  <2>7. <<a, "withdraw">> \in paired.auto \cup m
    BY <1>1, <1>2, <2>6, PairExactly
  <2>8. paired.source[a] = once.source[s] \/ paired.source[a] \in Claims(a)
    <3>1. CASE Open(once, a)
      <4>1. PICK q \in Shares(once, a, "out", "withdraw") : paired.source[a] = once.source[q]
        BY <1>1, <1>2, <2>6, <3>1, PairExactly
      <4>2. q \in 1..n /\ Events[q].tx = Events[a].tx /\ Events[q].kind = "out" /\ MayBeShare(q)
        BY <1>1, <4>1, SharesMayBe
      <4>3. q = s
        BY <1>4, <4>2
      <4>4. QED
        BY <4>1, <4>3
    <3>2. CASE ~Open(once, a)
      <4>1. once.source[a] \in Claims(a)
        BY <1>5, <2>5, <3>2 DEF Open
      <4>2. Keeps(once, paired)
        BY <1>1, <1>2, PairKeeps
      <4>3. QED
        BY <1>2, <3>2, <4>1, <4>2 DEF Keeps
    <3>3. QED
      BY <3>1, <3>2
  <2>9. QED
    BY <1>6, <1>9, <2>1, <2>3, <2>7, <2>8 DEF Keeps
<1>10. QED
  BY <1>8, <1>9


\* Once retagged, whatever tag an event has, it has for a reason.
LEMMA TagsHaveReasons ==
  ASSUME TaggingTypeOK, ReasonInv, fresh, NEW e \in Present, NEW tag \in TagsOf(e)
  PROVE  Reason(priced, e, tag)
<1>1. e \in DOMAIN Events /\ tag \in Tag /\ <<e, tag>> \in auto \cup manual
  BY TagsOfEvent
<1>2. QED
  BY <1>1 DEF ReasonInv, Reasoned, Handed, Reason

\* In a tidy vault's flow, the share leg is what it may be, nothing in its transaction is
\* a purchase, and it counts in no column.
LEMMA SharesCountNowhere ==
  ASSUME TaggingTypeOK, ReasonInv, fresh, NEW s \in ShareLegs, TidyVault(s)
  PROVE  /\ MayBeShare(s)
         /\ \A e \in Transfers : Events[e].tx = Events[s].tx => "venft-purchase" \notin TagsOf(e)
         /\ Slot(s) = "none"
<1>1. /\ s \in Present /\ s \in DOMAIN Events /\ Events[s].kind \in {"in", "out"}
      /\ Whole(s)
      /\ \/ Events[s].kind = "in" /\ "deposit" \in TagsOf(s)
         \/ Events[s].kind = "out" /\ "withdraw" \in TagsOf(s)
  BY TagsOfEvent, TaggingAssumption DEF ShareLegs, Transfers, TransfersOf, Rows, Ledger, Present
<1>2. \A e \in Transfers : e \in Present /\ e \in DOMAIN Events /\ Events[e].kind # "gas"
  BY TagsOfEvent DEF Transfers, TransfersOf, Rows, Ledger, Present
<1>3. \A tag \in TagsOf(s) : Reason(priced, s, tag)
  BY <1>1, TagsHaveReasons
<1>4. MayBeShare(s)
  BY <1>1, <1>3 DEF Reason, MayBeShare
<1> DEFINE legs == {e \in DOMAIN Events : Events[e].tx = Events[s].tx /\ Events[e].kind # "gas"}
           others == {e \in legs : Events[e].kind # Events[s].kind}
<1>5. /\ \A q \in legs \ {s} : ~MayBeShare(q)
      /\ ~(MayBear(s, "deposit") /\ MayBear(s, "withdraw"))
      /\ others # {}
      /\ \A e \in legs, tag \in {"lock", "unlock", "venft-purchase"} : ~MayBear(e, tag)
      /\ \A o, i \in legs : ~(/\ Events[o].kind = "out" /\ Events[o].token = "USDC"
                              /\ Events[i].kind = "in" /\ Events[i].token = "AERO")
  BY <1>1, <1>4 DEF TidyVault
<1>6. ASSUME NEW e \in Transfers, Events[e].tx = Events[s].tx, "venft-purchase" \in TagsOf(e)
      PROVE  FALSE
  <2>1. e \in legs /\ Reason(priced, e, "venft-purchase")
    BY <1>2, <1>6, TagsHaveReasons
  <2>2. BuysAero(e)
    BY <1>5, <2>1 DEF Reason
  <2>3. PICK i \in legs : Events[i].kind = "in" /\ Events[i].token = "AERO"
    BY <1>6, <2>2 DEF BuysAero
  <2>4. QED
    BY <1>5, <2>1, <2>2, <2>3 DEF BuysAero
<1>7. "swap" \in TagsOf(s)
  <2>1. PICK o \in others : TRUE
    BY <1>5
  <2>2. o \in Present
    BY <2>1 DEF Whole, ShareLegs
  <2>3. s \in TransfersOf(Ledger) /\ o \in TransfersOf(Ledger)
    BY <1>1, <2>1, <2>2 DEF TransfersOf, Rows, Ledger, Present
  <2>4. s \in Swaps(Ledger)
    BY <2>1, <2>3 DEF Swaps
  <2>5. QED
    BY <1>1, <2>4, TagsOfEvent DEF ReasonInv
<1>8. s \in legs /\ s \in Transfers
  BY <1>1 DEF ShareLegs
<1>9. ~Capital(s)
  <2> SUFFICES ASSUME Events[s].kind = "out", NEW tag \in {"deposit", "lock", "venft-purchase"},
                      tag \in TagsOf(s)
               PROVE  FALSE
    BY DEF Capital
  <2>1. tag # "venft-purchase"
    BY <1>6, <1>8
  <2>2. Reason(priced, s, tag) /\ MayBear(s, "withdraw")
    BY <1>3, <1>4 DEF MayBeShare
  <2>3. tag = "deposit" /\ BesideShare(s, "in", "deposit")
    BY <1>5, <1>8, <2>1, <2>2 DEF Reason
  <2>4. PICK q \in legs : Events[q].kind = "in" /\ MayBear(q, "deposit")
    BY <2>3 DEF BesideShare
  <2>5. QED
    BY <1>5, <2>4 DEF MayBeShare
<1>10. ~Principal(s)
  <2> SUFFICES ASSUME Events[s].kind = "in", NEW tag \in {"withdraw", "unlock"}, tag \in TagsOf(s)
               PROVE  FALSE
    BY DEF Principal
  <2>1. Reason(priced, s, tag) /\ MayBear(s, "deposit")
    BY <1>3, <1>4 DEF MayBeShare
  <2>2. tag = "withdraw" /\ BesideShare(s, "out", "withdraw")
    BY <1>5, <1>8, <2>1 DEF Reason
  <2>3. PICK q \in legs : Events[q].kind = "out" /\ MayBear(q, "withdraw")
    BY <2>2 DEF BesideShare
  <2>4. QED
    BY <1>5, <2>3 DEF MayBeShare
<1>11. Slot(s) = "none"
  BY <1>1, <1>7, <1>9, <1>10 DEF Slot
<1>12. QED
  BY <1>4, <1>6, <1>11

\* Once retagged, the share legs of whole, tidy vault flows count nowhere, and the
\* assets that go the other way once, as capital of the share's strategy or of one
\* whose rule claims them (_pair_router_vault_flows, strategy_summary).
THEOREM VaultFlowsOnceCorrect == TaggingSpec => []VaultFlowsOnce
<1>1. ASSUME TaggingInv, ReasonInv, fresh, NEW s \in ShareLegs, TidyVault(s), NEW a \in Transfers,
             Events[a].tx = Events[s].tx, Events[a].kind # Events[s].kind,
             Events[a].counterparty \notin Tracked
      PROVE  /\ Slot(a) = IF Events[s].kind = "in" THEN "deposited" ELSE "withdrawn"
             /\ Strategy(a) = Strategy(s) \/ source[a] \in Claims(a)
  <2> DEFINE db == [Ledger EXCEPT !.auto = {}, !.source = NoSources]
             tag == IF Events[s].kind = "in" THEN "deposit" ELSE "withdraw"
  <2>1. TaggingTypeOK
    BY <1>1 DEF TaggingInv
  <2>2. /\ s \in Present /\ a \in Present /\ a \in DOMAIN Events /\ s \in DOMAIN Events
        /\ Events[s].kind \in {"in", "out"} /\ Events[a].kind \in {"in", "out"}
        /\ tag \in TagsOf(s) /\ source[s] # NoSource
    BY <2>1, TagsOfEvent, TaggingAssumption
       DEF ShareLegs, Transfers, TransfersOf, Rows, Ledger, Present
  <2>3. /\ MayBeShare(s)
        /\ "venft-purchase" \notin TagsOf(s) /\ "venft-purchase" \notin TagsOf(a)
    BY <1>1, <2>1, SharesCountNowhere DEF ShareLegs
  <2>4. /\ Strategy(a) = Strategy(s) \/ source[a] \in Claims(a)
        /\ Strategy(a) # NoSource /\ tag \in TagsOf(a)
    <3>1. Ledger = Retagged(db, rules)
      BY <1>1 DEF TaggingInv, HistoryFree
    <3>2. /\ count \in 0..Len(Events) /\ Ledger \in Tables(count, priced, manual)
          /\ rules \in Seq(Row) /\ Handed(manual)
      BY <1>1, <2>1, LedgerTyped DEF TaggingTypeOK, Row, ReasonInv
    <3>3. db \in Tables(count, priced, manual)
      <4>1. NoSources \in [DOMAIN Events -> Given]
        BY DEF Given, NoSources
      <4> DEFINE none == NoSources
      <4> HIDE DEF none
      <4>2. [Ledger EXCEPT !.auto = {}, !.source = none] \in Tables(count, priced, manual)
        BY <3>2, <4>1 DEF Tables, none
      <4>3. QED
        BY <4>2 DEF none
    <3>4. Ledger.source = source /\ Ledger.auto = auto
      BY DEF Ledger
    <3>5. <<s, tag>> \in Ledger.auto \cup manual /\ ~Open(Ledger, s) /\ s \in 1..count /\ a \in 1..count
      BY <2>1, <2>2, <3>4, TagsOfEvent DEF Open, Present
    <3>6. \/ Events[s].kind = "in" /\ tag = "deposit"
          \/ Events[s].kind = "out" /\ tag = "withdraw"
      BY <2>2
    <3> HIDE DEF db, tag
    <3>7. /\ <<a, tag>> \in Ledger.auto \cup manual
          /\ Ledger.source[a] = Ledger.source[s] \/ Ledger.source[a] \in Claims(a)
      BY <1>1, <2>2, <2>3, <3>1, <3>2, <3>3, <3>5, <3>6, FlowsAreRouted
    <3>8. (source[a] = source[s] \/ source[a] \in Claims(a)) /\ tag \in TagsOf(a)
      BY <2>1, <2>2, <3>4, <3>7, TagsOfEvent
    <3>9. NoSource \notin Claims(a)
      BY DEF Claims
    <3>10. source[a] # NoSource /\ (source[a] = source[s] => Strategy(a) = Strategy(s))
      BY <2>2, <2>3, <3>8, <3>9 DEF Strategy
    <3>11. Strategy(a) # NoSource
      BY <3>10 DEF Strategy, Voting, NoSource
    <3>12. QED
      BY <3>8, <3>10, <3>11
  <2>5. "own-transfer" \notin TagsOf(a)
    <3> SUFFICES ASSUME "own-transfer" \in TagsOf(a) PROVE FALSE
      OBVIOUS
    <3>1. Reason(priced, a, "own-transfer")
      BY <1>1, <2>1, <2>2, TagsHaveReasons
    <3>2. ~MayBear(a, "own-transfer")
      BY <1>1, <2>2, <2>3 DEF TidyVault
    <3>3. QED
      BY <1>1, <3>1, <3>2 DEF Reason
  <2>6. Counts(a)
    BY <2>4, <2>5 DEF Counts
  <2>7. CASE Events[s].kind = "in"
    <3>1. Events[a].kind = "out" /\ Capital(a)
      BY <1>1, <2>2, <2>4, <2>7 DEF Capital
    <3>2. ~Principal(a)
      BY <3>1 DEF Principal
    <3>3. QED
      BY <2>4, <2>6, <2>7, <3>1, <3>2 DEF Slot
  <2>8. CASE Events[s].kind = "out"
    <3>1. Events[a].kind = "in" /\ Principal(a)
      BY <1>1, <2>2, <2>4, <2>8 DEF Principal
    <3>2. ~Capital(a)
      BY <3>1 DEF Capital
    <3>3. QED
      BY <2>4, <2>6, <2>8, <3>1, <3>2 DEF Slot
  <2>9. QED
    BY <2>2, <2>7, <2>8
<1>2. TaggingInv /\ ReasonInv => VaultFlowsOnce
  <2> SUFFICES ASSUME TaggingInv, ReasonInv, fresh, NEW s \in ShareLegs, TidyVault(s)
               PROVE  /\ Slot(s) = "none"
                      /\ \A a \in Transfers :
                           /\ Events[a].tx = Events[s].tx /\ Events[a].kind # Events[s].kind
                           /\ Events[a].counterparty \notin Tracked
                           => /\ Slot(a) = IF Events[s].kind = "in" THEN "deposited" ELSE "withdrawn"
                              /\ Strategy(a) = Strategy(s) \/ source[a] \in Claims(a)
    BY DEF VaultFlowsOnce
  <2>1. Slot(s) = "none"
    BY SharesCountNowhere DEF TaggingInv
  <2>2. QED
    BY <1>1, <2>1
<1>3. QED
  BY <1>2, TaggingInvariant, ReasonInvCorrect, PTL
=============================================================================
