-------------------------- MODULE SnapshotsProofs --------------------------
(***************************************************************************)
(* Theorems about opening the ledger and about the snapshots written to    *)
(* it, for any schema, any number of processes and any bounds.             *)
(*                                                                         *)
(* OpenMeansReady needs to know what a process that is still migrating has *)
(* behind it: the schema below its goal and the first statements of its    *)
(* script.  RewardsInSight needs to know where the votes a run has read    *)
(* are: in sync_state, or in the transaction that run has open.            *)
(* ShownIsWhole and NeverOutdated need an account of every row, committed  *)
(* or not: its id and time against those of the other rows, and its item   *)
(* against what its run has read and has still to insert.                  *)
(***************************************************************************)
EXTENDS Snapshots, SequenceTheorems, FiniteSetTheorems, WellFoundedInduction, TLAPS

\* What the scripts' types say, without sequences of sequences.
LEMMA ScriptsTyped ==
  /\ Len(Scripts) \in Nat
  /\ \A v \in 1..Len(Scripts) : Scripts[v] \in Seq(StatementKind)
  /\ \A p \in Openers : Build[p] \in 1..Len(Scripts)
<1>1. Scripts \in Seq(Seq(StatementKind)) /\ Build \in [Openers -> 1..Len(Scripts)]
  BY MigrationsAssumption
<1>2. Len(Scripts) \in Nat /\ \A v \in 1..Len(Scripts) : Scripts[v] \in Seq(StatementKind)
  BY <1>1, LenProperties, ElementOfSeq
<1>3. QED
  BY <1>1, <1>2

\* A schema is the one before it and one more script.
LEMMA SchemaNext ==
  ASSUME NEW v \in Nat
  PROVE  Schema(v + 1) = Schema(v) \cup Statements(v + 1)
  BY DEF Schema

\* A later schema has all of an earlier one.
LEMMA SchemaGrows ==
  ASSUME NEW v \in Nat, NEW u \in 0..v
  PROVE  Schema(u) \subseteq Schema(v)
  BY DEF Schema

\* Before the first version there is nothing.
LEMMA SchemaOfNone == Schema(0) = {}
  BY DEF Schema

\* The inductive invariant of opening.
StoreInv ==
  /\ StoreTypeOK
  /\ \A p \in Openers : goal[p] <= Build[p]
  /\ Schema(version) \subseteq made
  /\ \A p \in Openers : phase[p] = "migrating" => Behind(p) \subseteq made
  /\ \A p \in Openers : phase[p] = "open" => Schema(Build[p]) \subseteq made

StoreStep ==
  \E p \in Openers :
    ReadVersion(p) \/ Statement(p) \/ FailStatement(p) \/ WriteVersion(p) \/ Kill(p)

\* Whatever the pages and the runs do, a step opens, or leaves the store alone.
LEMMA EveryStoreStep == [Next]_vars => StoreStep \/ UNCHANGED storeVars
  BY DEF Next, StoreStep, Migrate, FillRunIds, Tick, Vote, Begin, ReadGroup, InsertLock, AskClaims,
         Insert, CommitWithPrice, EndGroup, Cut, vars

\* The invariant holds in a store nobody has opened yet.
LEMMA StoreInvInit == Init => StoreInv
<1> SUFFICES ASSUME StoreInit PROVE StoreInv
  BY DEF Init
<1>2. made \subseteq Schema(Len(Scripts))
  BY ScriptsTyped, SchemaGrows DEF StoreInit
<1>3. QED
  BY <1>2, ScriptsTyped, MigrationsAssumption DEF StoreInit, StoreInv, StoreTypeOK

\* What stepping past version v gives, once v's schema is in effect.
LEMMA StepKeeps ==
  ASSUME StoreInv, NEW p \in Openers, NEW v \in 0..Build[p],
         StepTo(p, v), made' = made, kills' = kills, version' \in 0..Len(Scripts),
         Schema(v) \subseteq made, Schema(version') \subseteq made
  PROVE  StoreInv'
<1> USE DEF StoreInv, StoreTypeOK, StepTo
<1>2. goal' \in [Openers -> 1..Len(Scripts)] /\ \A q \in Openers : goal'[q] <= Build[q]
  BY ScriptsTyped
<1>3. phase' \in [Openers -> {"closed", "migrating", "open"}] /\ position' \in [Openers -> Nat \ {0}]
  OBVIOUS
<1>4. ASSUME NEW q \in Openers, phase'[q] = "migrating" PROVE Behind(q)' \subseteq made
  <2>1. CASE q = p
    <3>1. goal'[p] = v + 1 /\ position'[p] = 1
      BY <1>4, <2>1
    <3>2. {s \in Statements(v + 1) : s[2] < 1} = {}
      <4> SUFFICES ASSUME NEW s \in Statements(v + 1), s[2] < 1 PROVE FALSE
        OBVIOUS
      <4>1. v + 1 \in 1..Len(Scripts)
        BY <1>2, <3>1, ScriptsTyped
      <4>2. s[2] \in DOMAIN Scripts[v + 1]
        BY DEF Statements
      <4>3. Scripts[v + 1] \in Seq(StatementKind)
        BY <4>1, ScriptsTyped
      <4>4. QED
        BY <4>2, <4>3
    <3>3. Schema(goal'[p] - 1) = Schema(v)
      BY <3>1
    <3>4. QED
      BY <2>1, <3>1, <3>2, <3>3 DEF Behind
  <2>2. CASE q # p
    BY <1>4, <2>2 DEF Behind
  <2>3. QED
    BY <2>1, <2>2
<1>5. ASSUME NEW q \in Openers, phase'[q] = "open" PROVE Schema(Build[q]) \subseteq made
  BY <1>5
<1>6. QED
  BY <1>2, <1>3, <1>4, <1>5

\* One step of opening keeps the invariant.
LEMMA StoreInvStep == StoreInv /\ (StoreStep \/ UNCHANGED storeVars) => StoreInv'
<1> SUFFICES ASSUME StoreInv, StoreStep \/ UNCHANGED storeVars PROVE StoreInv'
  OBVIOUS
<1>1. ASSUME NEW p \in Openers, ReadVersion(p) PROVE StoreInv'
  <2>1. version \in 0..Build[p] /\ version' = version
    BY <1>1, ScriptsTyped DEF ReadVersion, StoreInv, StoreTypeOK
  <2>2. QED
    BY <1>1, <2>1, StepKeeps DEF ReadVersion, StoreInv, StoreTypeOK
<1>2. ASSUME NEW p \in Openers, Statement(p) PROVE StoreInv'
  <2> USE <1>2 DEF Statement, HasStatement, StoreInv, StoreTypeOK
  <2>1. made \subseteq made'
    OBVIOUS
  <2>2. <<goal[p], position[p]>> \in Schema(Len(Scripts))
    BY ScriptsTyped DEF Schema, Statements
  <2>3. position' \in [Openers -> Nat \ {0}] /\ position'[p] = position[p] + 1
    OBVIOUS
  <2>4. ASSUME NEW q \in Openers, phase'[q] = "migrating" PROVE Behind(q)' \subseteq made'
    <3>1. CASE q = p
      <4>1. ASSUME NEW s \in Statements(goal[p]), s[2] < position'[p]
            PROVE  s \in Behind(p) \/ s = <<goal[p], position[p]>>
        <5>1. s = <<goal[p], s[2]>> /\ s[2] \in DOMAIN Scripts[goal[p]]
          BY DEF Statements
        <5>2. DOMAIN Scripts[goal[p]] \subseteq Nat
          BY ScriptsTyped
        <5>3. s[2] < position[p] \/ s[2] = position[p]
          BY <2>3, <4>1, <5>1, <5>2
        <5>4. QED
          BY <5>1, <5>3 DEF Behind
      <4>2. Behind(p)' \subseteq Behind(p) \cup {<<goal[p], position[p]>>}
        BY <4>1 DEF Behind
      <4>3. QED
        BY <2>1, <3>1, <4>2
    <3>2. CASE q # p
      BY <2>1, <2>4, <3>2 DEF Behind
    <3>3. QED
      BY <3>1, <3>2
  <2>5. QED
    BY <2>1, <2>2, <2>3, <2>4
<1>3. ASSUME NEW p \in Openers, FailStatement(p) \/ Kill(p) PROVE StoreInv'
  <2> USE DEF StoreInv, StoreTypeOK
  <2>1. GiveUp(p) /\ version' = version /\ made' = made /\ kills' \in 0..MaxKills
    BY <1>3, MigrationsAssumption DEF FailStatement, Kill
  <2>2. goal' \in [Openers -> 1..Len(Scripts)] /\ \A q \in Openers : goal'[q] <= Build[q]
    BY <2>1, ScriptsTyped DEF GiveUp
  <2>3. \A q \in Openers : phase'[q] # "closed" => q # p /\ phase[q] = phase'[q]
    BY <2>1 DEF GiveUp
  <2>4. \A q \in Openers : q # p => goal'[q] = goal[q] /\ position'[q] = position[q]
    BY <2>1 DEF GiveUp
  <2>5. phase' \in [Openers -> {"closed", "migrating", "open"}] /\ position' \in [Openers -> Nat \ {0}]
    BY <2>1 DEF GiveUp
  <2>6. QED
    BY <2>1, <2>2, <2>3, <2>4, <2>5 DEF Behind
<1>4. ASSUME NEW p \in Openers, WriteVersion(p) PROVE StoreInv'
  <2> USE DEF StoreInv, StoreTypeOK
  <2>1. phase[p] = "migrating" /\ position[p] \notin DOMAIN Scripts[goal[p]]
    BY <1>4 DEF WriteVersion, HasStatement
  <2>2. Scripts[goal[p]] \in Seq(StatementKind)
    BY ScriptsTyped
  <2>3. \A s \in Statements(goal[p]) : s[2] < position[p] \/ s[2] > position[p]
    BY <2>1, <2>2 DEF Statements
  <2>4. Statements(goal[p]) \subseteq Behind(p)
    <3> SUFFICES ASSUME NEW s \in Statements(goal[p]), s[2] > position[p] PROVE FALSE
      BY <2>3 DEF Behind
    <3>1. s[2] \in 1..Len(Scripts[goal[p]])
      BY <2>2, LenProperties DEF Statements
    <3>2. position[p] \in 1..Len(Scripts[goal[p]])
      BY <3>1, <2>2, LenProperties
    <3>3. QED
      BY <2>1, <2>2, <3>2, LenProperties
  <2>5. Schema(goal[p]) \subseteq made
    <3>1. goal[p] - 1 \in Nat /\ goal[p] = (goal[p] - 1) + 1
      BY ScriptsTyped
    <3>2. Schema(goal[p]) = Schema(goal[p] - 1) \cup Statements(goal[p])
      BY <3>1, SchemaNext
    <3>3. QED
      BY <2>1, <2>4, <3>2 DEF Behind
  <2>6. goal[p] \in 0..Build[p] /\ goal[p] \in 0..Len(Scripts)
    BY ScriptsTyped
  <2> HIDE DEF StoreInv
  <2>7. QED
    BY <1>4, <2>5, <2>6, StepKeeps DEF WriteVersion, ScriptDone
<1>5. CASE UNCHANGED storeVars
  BY <1>5 DEF storeVars, openerVars, StoreInv, StoreTypeOK, Behind
<1>6. QED
  BY <1>1, <1>2, <1>3, <1>4, <1>5 DEF StoreStep

\* Whoever has the ledger open has the schema its program knows, whatever other
\* openers migrate beside it and whichever of them are killed.
THEOREM OpenMeansReadyCorrect == Spec => []OpenMeansReady
<1>1. StoreInv => OpenMeansReady
  BY DEF StoreInv, OpenMeansReady
<1>2. StoreInv /\ [Next]_vars => StoreInv'
  BY EveryStoreStep, StoreInvStep
<1>3. QED
  BY <1>1, <1>2, StoreInvInit, PTL DEF Spec

-----------------------------------------------------------------------------

\* The pools a run's own writes would be added to.
PoolsSeenBy(r) == IF writer = r THEN newPools ELSE pools

\* The groups and where a run can be among them.
LEMMA GroupsTyped ==
  /\ Len(Groups) \in Nat \ {0}
  /\ \A g \in 1..Len(Groups) : Groups[g] \in {"balances", "aerodrome", "morpho", "forty_acres"}
  BY SnapshotsAssumption

\* The write transaction is a run's that is writing, and goes on from the
\* committed pools.
WriterInv ==
  /\ status \in [Runs -> {"ready", "reading", "lock", "claims", "writing", "finished", "cut"}]
  /\ group \in [Runs -> 1..Len(Groups)]
  /\ writer # Nobody => writer \in Runs /\ pools \subseteq newPools
  /\ \A r \in Runs : writer = r => status[r] \in {"claims", "writing"}

\* The votes a run has read are among the pools its writes would be added to.
BallotInv ==
  /\ DOMAIN ballot = Runs
  /\ \A r \in Runs : status[r] \notin {"lock", "cut"} => ballot[r] \subseteq PoolsSeenBy(r)

\* A run that has asked for rewards began after the runs before it had ended.
SightInv ==
  /\ DOMAIN saw = Runs /\ DOMAIN asked = Runs /\ DOMAIN before = Runs
  /\ \A r \in Runs : status[r] = "ready" => Lock \notin saw[r]
  /\ \A r \in Runs, q \in Runs : q \in before[r] => Ended(q)
  /\ RewardsInSight

VotesInv == WriterInv /\ BallotInv /\ SightInv

\* Initially no run has read or written anything.
LEMMA VotesInvInit == Init => VotesInv
  BY GroupsTyped, SnapshotsAssumption
     DEF Init, VotesInv, WriterInv, BallotInv, SightInv, PoolsSeenBy, Ended, RewardsInSight

\* Every step keeps the votes in sight.
LEMMA VotesInvStep == VotesInv /\ [Next]_vars => VotesInv'
<1> SUFFICES ASSUME VotesInv, [Next]_vars PROVE VotesInv'
  OBVIOUS
<1>0. Nobody \notin Runs
  BY SnapshotsAssumption
<1> USE <1>0 DEF VotesInv, WriterInv, BallotInv, SightInv, PoolsSeenBy, Ended, RewardsInSight
<1>1. ASSUME UNCHANGED <<tables, runVars>> PROVE VotesInv'
  BY <1>1 DEF tables, runVars
<1>2. ASSUME NEW p \in Openers, FillRunIds(p) PROVE VotesInv'
  BY <1>2 DEF FillRunIds, runVars
<1>3. ASSUME NEW r \in Runs, Begin(r) PROVE VotesInv'
  BY <1>3 DEF Begin, tables
<1>4. ASSUME NEW r \in Runs, ReadGroup(r) PROVE VotesInv'
  <2>1. writer # r /\ status[r] = "reading"
    BY <1>4 DEF ReadGroup
  <2>2. UNCHANGED <<tables, group, asked, before>>
    BY <1>4 DEF ReadGroup
  <2>3. \/ /\ status' = [status EXCEPT ![r] = "lock"]
           /\ ballot' = [ballot EXCEPT ![r] = votes]
           /\ UNCHANGED saw
        \/ /\ status' = [status EXCEPT ![r] = "writing"]
           /\ UNCHANGED ballot
           /\ \E items \in SUBSET {<<Groups[group[r]]>>} : saw' = [saw EXCEPT ![r] = @ \cup items]
           /\ Groups[group[r]] # "lock"
    BY <1>4, GroupsTyped DEF ReadGroup
  <2>4. WriterInv'
    BY <2>1, <2>2, <2>3 DEF tables
  <2>5. BallotInv'
    BY <2>1, <2>2, <2>3 DEF tables
  <2>6. SightInv'
    <3>1. \A q \in Runs : q # r => status'[q] = status[q] /\ ballot'[q] = ballot[q]
      BY <2>3
    <3>2. ~Ended(r) /\ status'[r] \notin {"ready", "finished"}
      BY <2>1, <2>3
    <3>3. DOMAIN saw' = Runs /\ \A q \in Runs : Lock \in saw'[q] => Lock \in saw[q]
      BY <2>3 DEF Lock
    <3>4. \A o \in Runs, q \in Runs : q \in before'[o] => Ended(q)'
      BY <2>2, <3>1, <3>2
    <3>5. RewardsInSight'
      BY <2>2, <3>1, <3>2, <3>3
    <3>6. QED
      BY <2>2, <3>1, <3>2, <3>3, <3>4, <3>5
  <2>7. QED
    BY <2>4, <2>5, <2>6
<1>5. ASSUME NEW r \in Runs, InsertLock(r) PROVE VotesInv'
  <2>1. writer = Nobody /\ r # Nobody
    BY <1>5 DEF InsertLock, MayWrite
  <2>2. pools \subseteq newPools' /\ ballot[r] \subseteq newPools' /\ asked'[r] = newPools'
    BY <1>5, <2>1 DEF InsertLock, Remembers
  <2>3. /\ writer' = r
        /\ status' = [status EXCEPT ![r] = "claims"]
        /\ saw' = [saw EXCEPT ![r] = @ \cup {Lock}]
        /\ DOMAIN asked' = Runs /\ \A q \in Runs : q # r => asked'[q] = asked[q]
        /\ UNCHANGED <<pools, ballot, before, group>>
    BY <1>5 DEF InsertLock
  <2>4. WriterInv'
    BY <2>1, <2>2, <2>3
  <2>5. BallotInv'
    BY <2>1, <2>2, <2>3
  <2>6. SightInv'
    <3>1. ASSUME NEW q \in Runs, status'[q] = "finished" PROVE ballot[q] \subseteq asked'[r]
      <4>1. q # r /\ status[q] = "finished" /\ q # Nobody
        BY <2>3, <3>1
      <4>2. ballot[q] \subseteq pools
        BY <2>1, <4>1
      <4>3. QED
        BY <2>2, <4>2
    <3>2. \A q \in Runs : Lock \in saw'[q] => q = r \/ Lock \in saw[q]
      BY <2>3
    <3>3. RewardsInSight'
      BY <2>3, <3>1, <3>2
    <3>4. \A o \in Runs, q \in Runs : q \in before'[o] => Ended(q)'
      <4>1. ~Ended(r) /\ \A q \in Runs : q # r => status'[q] = status[q]
        BY <1>5, <2>3 DEF InsertLock
      <4>2. QED
        BY <2>3, <4>1
    <3>5. DOMAIN saw' = Runs /\ \A q \in Runs : status'[q] = "ready" => Lock \notin saw'[q]
      BY <2>3
    <3>6. QED
      BY <2>3, <3>3, <3>4, <3>5
  <2>7. QED
    BY <2>4, <2>5, <2>6
<1>6. ASSUME NEW r \in Runs, AskClaims(r) PROVE VotesInv'
  <2> DEFINE claims == {Claim(p) : p \in asked[r] \cap owing}
  <2>1. Lock \notin claims
    BY DEF Claim, Lock
  <2>2. /\ status[r] = "claims"
        /\ status' = [status EXCEPT ![r] = "writing"]
        /\ saw' = [saw EXCEPT ![r] = @ \cup claims]
        /\ UNCHANGED <<tables, group, ballot, asked, before>>
    BY <1>6 DEF AskClaims
  <2> HIDE DEF claims
  <2>3. WriterInv' /\ BallotInv'
    BY <2>2 DEF tables
  <2>4. SightInv'
    BY <2>1, <2>2
  <2>5. QED
    BY <2>3, <2>4
<1>7. ASSUME NEW r \in Runs, Insert(r) PROVE VotesInv'
  <2>1. /\ status[r] = "writing" /\ writer \in {Nobody, r} /\ writer' = r
        /\ newPools' = IF writer = r THEN newPools ELSE pools
        /\ UNCHANGED <<pools, status, group, saw, ballot, asked, before>>
    BY <1>7 DEF Insert, MayWrite
  <2>2. QED
    BY <2>1
<1>8. ASSUME NEW r \in Runs, CommitWithPrice(r) PROVE VotesInv'
  BY <1>8 DEF CommitWithPrice, Commit, runVars
<1>9. ASSUME NEW r \in Runs, EndGroup(r) PROVE VotesInv'
  <2>1. /\ status[r] = "writing"
        /\ writer = r => pools' = newPools /\ writer' = Nobody
        /\ writer # r => UNCHANGED <<pools, newPools, writer>>
        /\ UNCHANGED <<saw, ballot, asked, before>>
    BY <1>9 DEF EndGroup, Commit, tables
  <2>2. /\ group' \in [Runs -> 1..Len(Groups)]
        /\ \/ status' = [status EXCEPT ![r] = "finished"]
           \/ status' = [status EXCEPT ![r] = "reading"]
    BY <1>9, GroupsTyped DEF EndGroup
  <2>3. WriterInv'
    BY <2>1, <2>2
  <2>4. BallotInv'
    BY <2>1, <2>2
  <2>5. SightInv'
    BY <2>1, <2>2
  <2>6. QED
    BY <2>3, <2>4, <2>5
<1>10. ASSUME NEW r \in Runs, Cut(r) PROVE VotesInv'
  <2>1. /\ status[r] \notin {"ready", "finished", "cut"}
        /\ status' = [status EXCEPT ![r] = "cut"]
        /\ writer = r => writer' = Nobody
        /\ writer # r => UNCHANGED <<newPools, writer>>
        /\ UNCHANGED <<pools, saw, ballot, asked, before>>
    BY <1>10 DEF Cut, Writing
  <2>2. group' \in [Runs -> 1..Len(Groups)]
    BY <1>10, GroupsTyped DEF Cut
  <2>3. QED
    BY <2>1, <2>2
<1>11. ASSUME NEW p \in Openers, Migrate(p) PROVE VotesInv'
  BY <1>1, <1>11 DEF Migrate
<1> HIDE DEF VotesInv
<1>12. CASE Tick \/ Vote \/ UNCHANGED vars
  BY <1>1, <1>12 DEF Tick, Vote, vars
<1>13. QED
  BY <1>2, <1>3, <1>4, <1>5, <1>6, <1>7, <1>8, <1>9, <1>10, <1>11, <1>12 DEF Next

\* A sync asks for the rewards of every pool a finished sync before it saw voted
\* for, whoever wrote beside the two and whatever was cut short.
THEOREM RewardsInSightCorrect == Spec => []RewardsInSight
<1>1. VotesInv => RewardsInSight
  BY DEF VotesInv, SightInv
<1>2. QED
  BY <1>1, VotesInvInit, VotesInvStep, PTL DEF Spec
-----------------------------------------------------------------------------
(* The rows of a run *)

GroupNames == {"balances", "aerodrome", "morpho", "forty_acres"}

\* What a group's rows can be about.
GroupItems(name) == IF name = "aerodrome" THEN {Lock} \cup {Claim(p) : p \in Pools} ELSE {<<name>>}

Items == UNION {GroupItems(name) : name \in GroupNames}

Row == [id : Nat, ts : Nat, run : Runs \cup {NoRun} \cup {PreV6(ts) : ts \in OldTimes}, item : Items]

\* Every row, committed or not; those of runs; those of one run.
Written == rows \cup newRows
RunRows == {x \in Written : x.run \in Runs}
Mine(r) == {x \in RunRows : x.run = r}

\* The UPDATE of version 6 has been run.
Filled == \E s \in made : Scripts[s[1]][s[2]] = "fill"

Timed(r) == status[r] \in {"lock", "claims", "writing"}

\* The rows are records, and the old ones are older than any sync's.
RowInv ==
  /\ clock \in Nat /\ clock >= 2
  /\ votes \subseteq Pools /\ owing \subseteq Pools
  /\ rows \subseteq Row /\ newRows \subseteq Row
  /\ \A x \in newRows : x.run = writer /\ x.run \in Runs
  /\ \A x \in Written : x.ts <= clock
  /\ \A x \in Written : x.run \in Runs => x.ts >= 2
  /\ \A x \in rows : x.run \notin Runs => x.ts \in OldTimes /\ x.run \in {NoRun, PreV6(x.ts)}
  /\ \A x, y \in rows : x.run \notin Runs /\ y.run \notin Runs /\ x.ts = y.ts => x = y
  /\ Filled => \A x \in rows : x.run # NoRun

\* Ids are given in turn, and those of a transaction after those in the table.
IdInv ==
  /\ IsFiniteSet(rows) /\ IsFiniteSet(newRows)
  /\ \A x \in rows : x.id <= Cardinality(rows)
  /\ \A x \in newRows : Cardinality(rows) < x.id /\ x.id <= Cardinality(rows) + Cardinality(newRows)
  /\ \A x, y \in Written : x.id = y.id => x = y

\* Rows of runs that had ended when a run began lie before its own.
OrderInv ==
  /\ DOMAIN now = Runs
  /\ \A r \in Runs : before[r] \subseteq Runs
  /\ \A r \in Runs : Timed(r) => now[r] \in 2..clock
  /\ \A r \in Runs : Timed(r) => \A y \in RunRows : y.run \in before[r] => y.ts <= now[r]
  /\ \A x, y \in RunRows : y.run \in before[x.run] => y.ts <= x.ts /\ y.id < x.id

\* The groups a run has still to begin.
Ahead(r) ==
  {Groups[g] : g \in {h \in 1..Len(Groups) :
     h > group[r] \/ (h = group[r] /\ status[r] \notin {"claims", "writing"})}}

\* What a run has read has become a row of its own, once, or is about to.
RunAccount(r) ==
  /\ saw[r] \subseteq Items /\ asked[r] \subseteq Pools /\ ballot[r] \subseteq Pools
  /\ todo[r] \subseteq saw[r] \ ItemsOf(Mine(r))
  /\ ItemsOf(Mine(r)) \subseteq saw[r]
  /\ \A x, y \in Mine(r) : x.item = y.item => x = y
  /\ status[r] # "cut" => saw[r] \subseteq ItemsOf(Mine(r)) \cup todo[r]
  /\ status[r] # "writing" => todo[r] = {}
  /\ status[r] = "ready" => saw[r] = {}
  /\ status[r] \in {"lock", "claims"} => Groups[group[r]] = "aerodrome"
  /\ status[r] = "claims" => \A p \in Pools : Claim(p) \notin saw[r]
  /\ ~Ended(r) => \A name \in Ahead(r) : saw[r] \cap GroupItems(name) = {}

AccountInv ==
  /\ pools \subseteq Pools /\ newPools \subseteq Pools
  /\ DOMAIN todo = Runs
  /\ \A r \in Runs : RunAccount(r)

\* The inductive invariant of the pages, together with that of the votes.
PageInv == RowInv /\ IdInv /\ OrderInv /\ AccountInv

\* What a step does to the table.
Keeps == UNCHANGED <<rows, newRows, writer>>
Commits == rows' = rows \cup newRows /\ newRows' = {} /\ writer' = Nobody
Drops == rows' = rows /\ newRows' = {} /\ writer' = Nobody
Fills == rows' = {Backfill(row) : row \in rows} /\ newRows = {} /\ UNCHANGED <<newRows, writer>>
Adds(r, item) ==
  /\ MayWrite(r)
  /\ newRows' = newRows \cup {NewRow(r, item)}
  /\ writer' = r
  /\ UNCHANGED rows

TableStep ==
  \/ Keeps \/ Commits \/ Drops \/ Fills
  \/ \E r \in Runs, item \in Items : Timed(r) /\ Adds(r, item)

\* Whatever a step is about, it treats the table in one of five ways.
LEMMA EveryTableStep ==
  ASSUME RowInv, AccountInv, [Next]_vars
  PROVE  TableStep
<1> USE DEF TableStep
<1>1. ASSUME NEW p \in Openers, FillRunIds(p) PROVE TableStep
  <2>1. newRows = {}
    BY <1>1, SnapshotsAssumption DEF FillRunIds, RowInv
  <2>2. QED
    BY <1>1, <2>1 DEF FillRunIds, Fills
<1>2. ASSUME NEW r \in Runs, InsertLock(r) PROVE TableStep
  <2>1. Lock \in Items
    BY DEF Items, GroupItems, GroupNames
  <2>2. QED
    BY <1>2, <2>1 DEF InsertLock, Adds, Timed
<1>3. ASSUME NEW r \in Runs, Insert(r) PROVE TableStep
  <2>1. PICK item \in todo[r] : newRows' = newRows \cup {NewRow(r, item)}
    BY <1>3 DEF Insert
  <2>2. item \in Items
    BY DEF AccountInv, RunAccount
  <2>3. QED
    BY <1>3, <2>1, <2>2 DEF Insert, Adds, Timed
<1>4. ASSUME NEW r \in Runs, CommitWithPrice(r) \/ EndGroup(r) PROVE TableStep
  BY <1>4 DEF CommitWithPrice, EndGroup, Commit, Commits, Keeps, tables
<1>5. ASSUME NEW r \in Runs, Cut(r) PROVE TableStep
  BY <1>5 DEF Cut, Keeps, Drops
<1>6. ASSUME NEW r \in Runs, Begin(r) \/ ReadGroup(r) \/ AskClaims(r) PROVE TableStep
  BY <1>6 DEF Begin, ReadGroup, AskClaims, tables, Keeps
<1>7. ASSUME NEW p \in Openers, Migrate(p) PROVE TableStep
  BY <1>7 DEF Migrate, tables, Keeps
<1>8. CASE Tick \/ Vote \/ UNCHANGED vars
  BY <1>8 DEF Tick, Vote, vars, tables, Keeps
<1>9. QED
  BY <1>1, <1>2, <1>3, <1>4, <1>5, <1>6, <1>7, <1>8 DEF Next

\* The backfill touches the run id of a row, and only that of an old one.
LEMMA BackfillKeeps ==
  ASSUME RowInv, NEW x \in rows
  PROVE  /\ Backfill(x) \in Row
         /\ Backfill(x).id = x.id /\ Backfill(x).ts = x.ts /\ Backfill(x).item = x.item
         /\ Backfill(x).run = IF x.run = NoRun THEN PreV6(x.ts) ELSE x.run
         /\ x.run \in Runs => Backfill(x) = x
         /\ x.run \notin Runs => Backfill(x).run = PreV6(x.ts)
<1>1. x \in Row /\ NoRun \notin Runs
  BY SnapshotsAssumption DEF RowInv
<1>2. x.run \notin Runs => x.ts \in OldTimes /\ x.run \in {NoRun, PreV6(x.ts)}
  BY DEF RowInv
<1>3. CASE x.run = NoRun
  <2>1. PreV6(x.ts) \in {PreV6(ts) : ts \in OldTimes}
    BY <1>1, <1>2, <1>3
  <2>2. QED
    BY <1>1, <1>2, <1>3, <2>1 DEF Backfill, Row
<1>4. CASE x.run # NoRun
  BY <1>1, <1>2, <1>4 DEF Backfill
<1>5. QED
  BY <1>3, <1>4

\* What a step does to the rows of the runs.
LEMMA RunRowsStep ==
  ASSUME RowInv
  PROVE  /\ Keeps \/ Commits \/ Fills => RunRows' = RunRows
         /\ Drops => /\ RunRows' \subseteq RunRows
                     /\ \A x \in RunRows : x.run # writer => x \in RunRows'
         /\ \A r \in Runs : \A item : Adds(r, item) => RunRows' = RunRows \cup {NewRow(r, item)}
<1>1. ASSUME Keeps \/ Commits PROVE RunRows' = RunRows
  BY <1>1 DEF Keeps, Commits, RunRows, Written
<1>2. ASSUME Fills PROVE RunRows' = RunRows
  <2>1. \A ts \in OldTimes : PreV6(ts) \notin Runs
    BY SnapshotsAssumption
  <2>2. \A x \in rows : x.run \in Runs => Backfill(x) = x
    BY BackfillKeeps
  <2>3. \A x \in rows : x.run \notin Runs => Backfill(x).run \notin Runs
    BY <2>1, BackfillKeeps DEF RowInv
  <2>4. {x \in rows' : x.run \in Runs} = {x \in rows : x.run \in Runs}
    BY <1>2, <2>2, <2>3 DEF Fills
  <2>5. QED
    BY <1>2, <2>4 DEF Fills, RunRows, Written
<1>3. ASSUME Drops PROVE /\ RunRows' \subseteq RunRows
                         /\ \A x \in RunRows : x.run # writer => x \in RunRows'
  BY <1>3 DEF Drops, RunRows, Written, RowInv
<1>4. ASSUME NEW r \in Runs, NEW item, Adds(r, item) PROVE RunRows' = RunRows \cup {NewRow(r, item)}
  <2>1. NewRow(r, item).run = r
    BY DEF NewRow
  <2>2. QED
    BY <1>4, <2>1 DEF Adds, RunRows, Written
<1>5. QED
  BY <1>1, <1>2, <1>3, <1>4

\* A new row comes after all that there are.
LEMMA NewRowFacts ==
  ASSUME RowInv, IdInv, OrderInv, NEW r \in Runs, NEW item \in Items, Timed(r)
  PROVE  /\ NewRow(r, item) \in Row
         /\ NewRow(r, item).run = r /\ NewRow(r, item).item = item /\ NewRow(r, item).ts = now[r]
         /\ NewRow(r, item).id = Cardinality(rows) + Cardinality(newRows) + 1
         /\ \A y \in Written : y.id < NewRow(r, item).id
<1>1. Cardinality(rows) \in Nat /\ Cardinality(newRows) \in Nat
  BY FS_CardinalityType DEF IdInv
<1>2. now[r] \in Nat
  BY DEF OrderInv, RowInv
<1>3. \A y \in Written : y.id \in Nat
  BY DEF RowInv, Row, Written
<1>4. \A y \in Written : y.id < Cardinality(rows) + Cardinality(newRows) + 1
  BY <1>1, <1>3 DEF IdInv, Written
<1>5. QED
  BY <1>1, <1>2, <1>4 DEF NewRow, Row

\* Ids go on being given in turn.
LEMMA IdInvStep ==
  ASSUME RowInv, IdInv, OrderInv, TableStep
  PROVE  IdInv'
<1>0. Cardinality(rows) \in Nat /\ Cardinality(newRows) \in Nat
  BY FS_CardinalityType DEF IdInv
<1>00. \A x \in Written : x.id \in Nat
  BY DEF RowInv, Row, Written
<1>1. CASE Keeps
  BY <1>1 DEF Keeps, IdInv, Written
<1>2. CASE Commits
  <2>1. rows \cap newRows = {}
    BY <1>0, <1>00 DEF IdInv, Written
  <2>2. IsFiniteSet(rows') /\ Cardinality(rows') = Cardinality(rows) + Cardinality(newRows)
    BY <1>2, <2>1, <1>0, FS_Union, FS_EmptySet DEF Commits, IdInv
  <2>3. \A x \in rows' : x.id <= Cardinality(rows')
    BY <1>0, <1>00, <1>2, <2>2 DEF Commits, IdInv, Written
  <2>4. QED
    BY <1>2, <2>2, <2>3, FS_EmptySet DEF Commits, IdInv, Written
<1>3. CASE Drops
  BY <1>3, FS_EmptySet DEF Drops, IdInv, Written
<1>4. CASE Fills
  <2> DEFINE f == [x \in rows |-> Backfill(x)]
  <2>1. \A x \in rows : f[x].id = x.id
    BY BackfillKeeps
  <2>2. \A x, y \in rows : x.id = y.id => x = y
    BY DEF IdInv, Written
  <2>3. f \in Bijection(rows, rows')
    <3>1. f \in [rows -> rows'] /\ \A y \in rows' : \E x \in rows : f[x] = y
      BY <1>4 DEF Fills
    <3>2. \A x, y \in rows : f[x] = f[y] => x = y
      BY <2>1, <2>2
    <3>3. QED
      BY <3>1, <3>2 DEF Bijection, Injection, Surjection, IsInjective
  <2>4. IsFiniteSet(rows') /\ Cardinality(rows') = Cardinality(rows)
    BY <2>3, FS_Bijection DEF ExistsBijection, IdInv
  <2>5. \A y \in rows' : \E x \in rows : y = f[x] /\ y.id = x.id
    BY <1>4, <2>1 DEF Fills
  <2> HIDE DEF f
  <2>6. \A y \in rows' : y.id <= Cardinality(rows')
    BY <2>4, <2>5 DEF IdInv
  <2>7. \A y, z \in rows' : y.id = z.id => y = z
    BY <2>2, <2>5
  <2>8. newRows' = {} /\ newRows = {}
    BY <1>4 DEF Fills
  <2>9. QED
    BY <2>4, <2>6, <2>7, <2>8 DEF IdInv, Written
<1>5. ASSUME NEW r \in Runs, NEW item \in Items, Timed(r), Adds(r, item) PROVE IdInv'
  <2> DEFINE x == NewRow(r, item)
  <2>1. /\ x.id = Cardinality(rows) + Cardinality(newRows) + 1
        /\ \A y \in Written : y.id < x.id
    BY <1>5, NewRowFacts
  <2>2. x \notin newRows
    BY <1>0, <1>00, <2>1 DEF Written
  <2> HIDE DEF x
  <2>3. newRows' = newRows \cup {x} /\ rows' = rows
    BY <1>5 DEF Adds, x
  <2>4. IsFiniteSet(newRows') /\ Cardinality(newRows') = Cardinality(newRows) + 1
    BY <2>2, <2>3, FS_AddElement DEF IdInv
  <2>5. \A y \in newRows' : Cardinality(rows) < y.id /\ y.id <= Cardinality(rows) + Cardinality(newRows')
    BY <1>0, <1>00, <2>1, <2>3, <2>4 DEF IdInv, Written
  <2>6. \A y, z \in Written' : y.id = z.id => y = z
    BY <1>0, <1>00, <2>1, <2>3 DEF IdInv, Written
  <2>7. QED
    BY <2>3, <2>4, <2>5, <2>6 DEF IdInv
<1>6. QED
  BY <1>1, <1>2, <1>3, <1>4, <1>5 DEF TableStep

\* Time goes forward, and votes are for pools.
LEMMA WorldStep ==
  ASSUME RowInv, [Next]_vars
  PROVE  clock' \in Nat /\ clock' >= clock /\ votes' \subseteq Pools /\ owing' \subseteq Pools
<1> USE DEF RowInv
<1>1. CASE Tick \/ Vote
  BY <1>1 DEF Tick, Vote
<1>2. CASE UNCHANGED world
  BY <1>2 DEF world
<1>3. ASSUME NEW p \in Openers, Migrate(p) \/ FillRunIds(p) PROVE UNCHANGED world
  BY <1>3 DEF Migrate, FillRunIds
<1>4. ASSUME NEW r \in Runs, Begin(r) \/ ReadGroup(r) \/ InsertLock(r) \/ AskClaims(r)
      PROVE  UNCHANGED world
  BY <1>4 DEF Begin, ReadGroup, InsertLock, AskClaims
<1>5. ASSUME NEW r \in Runs, Insert(r) \/ CommitWithPrice(r) \/ EndGroup(r) \/ Cut(r)
      PROVE  UNCHANGED world
  BY <1>5 DEF Insert, CommitWithPrice, EndGroup, Cut
<1>6. QED
  BY <1>1, <1>2, <1>3, <1>4, <1>5 DEF Next, vars

\* Only the backfill's own statement puts a fill into effect.
LEMMA FillStep ==
  ASSUME RowInv, [Next]_vars
  PROVE  Filled' => Filled \/ Fills
<1>1. CASE UNCHANGED made
  BY <1>1 DEF Filled
<1>2. ASSUME NEW p \in Openers, Statement(p), Kind(p) # "fill" PROVE Filled' => Filled
  BY <1>2 DEF Statement, Kind, Filled
<1>3. ASSUME NEW p \in Openers, FillRunIds(p) PROVE Fills
  <2>1. newRows = {}
    BY <1>3, SnapshotsAssumption DEF FillRunIds, RowInv
  <2>2. QED
    BY <1>3, <2>1 DEF FillRunIds, Fills
<1>4. ASSUME NEW p \in Openers, ReadVersion(p) \/ FailStatement(p) \/ WriteVersion(p) \/ Kill(p)
      PROVE  UNCHANGED made
  BY <1>4 DEF ReadVersion, FailStatement, WriteVersion, Kill
<1>5. ASSUME NEW r \in Runs, Begin(r) \/ ReadGroup(r) \/ InsertLock(r) \/ AskClaims(r)
      PROVE  UNCHANGED made
  BY <1>5 DEF Begin, ReadGroup, InsertLock, AskClaims, storeVars
<1>6. ASSUME NEW r \in Runs, Insert(r) \/ CommitWithPrice(r) \/ EndGroup(r) \/ Cut(r)
      PROVE  UNCHANGED made
  BY <1>6 DEF Insert, CommitWithPrice, EndGroup, Cut, storeVars
<1>7. CASE Tick \/ Vote \/ UNCHANGED vars
  BY <1>1, <1>7 DEF Tick, Vote, vars, storeVars
<1>8. QED
  BY <1>1, <1>2, <1>3, <1>4, <1>5, <1>6, <1>7 DEF Next, Migrate

\* The backfill leaves no row without a run id.
LEMMA FillsAll ==
  ASSUME RowInv, Fills
  PROVE  \A x \in rows' : x.run # NoRun
<1>1. \A x \in rows : Backfill(x).run # NoRun
  BY BackfillKeeps, SnapshotsAssumption DEF RowInv
<1>2. QED
  BY <1>1 DEF Fills

\* Rows stay what they are, but for the backfill.
LEMMA RowInvStep ==
  ASSUME RowInv, IdInv, OrderInv, AccountInv, [Next]_vars
  PROVE  RowInv'
<1>1. /\ clock' \in Nat /\ clock' >= clock /\ clock' >= 2
      /\ votes' \subseteq Pools /\ owing' \subseteq Pools
      /\ clock \in Nat
  BY WorldStep DEF RowInv
<1>2. Filled' => Filled \/ Fills
  BY FillStep
<1>3. TableStep
  BY EveryTableStep
<1>4. \A x \in Written : x.ts \in Nat
  BY DEF RowInv, Row, Written
<1>5. NoRun \notin Runs /\ Nobody \notin Runs
  BY SnapshotsAssumption
<1>6. \A x \in rows \cup newRows : x.ts <= clock'
  BY <1>1, <1>4 DEF RowInv, Written
<1>7. CASE Keeps \/ Commits \/ Drops
  <2>1. rows' \subseteq Row /\ newRows' \subseteq Row
    BY <1>7 DEF Keeps, Commits, Drops, RowInv
  <2>2. \A x \in newRows' : x.run = writer' /\ x.run \in Runs
    BY <1>7 DEF Keeps, Commits, Drops, RowInv
  <2>3. Written' \subseteq Written
    BY <1>7 DEF Keeps, Commits, Drops, Written
  <2>4. \A x \in rows' : x.run \notin Runs => x \in rows
    BY <1>7 DEF Keeps, Commits, Drops, RowInv
  <2>5. Filled' => \A x \in rows' : x.run # NoRun
    BY <1>2, <1>5, <2>4, FillsAll DEF RowInv
  <2>6. QED
    BY <1>1, <1>6, <2>1, <2>2, <2>3, <2>4, <2>5 DEF RowInv, Written
<1>8. CASE Fills
  <2>1. \A x \in rows : /\ Backfill(x) \in Row /\ Backfill(x).ts = x.ts
                        /\ x.run \in Runs => Backfill(x) = x
                        /\ x.run \notin Runs => Backfill(x).run = PreV6(x.ts)
    BY BackfillKeeps
  <2>2. newRows = {} /\ newRows' = {}
    BY <1>8 DEF Fills
  <2>3. \A y \in rows' : \E x \in rows : y = Backfill(x)
    BY <1>8 DEF Fills
  <2>4. \A ts \in OldTimes : PreV6(ts) \notin Runs \cup {NoRun}
    BY SnapshotsAssumption
  <2>5. \A x \in rows : x.run \notin Runs => x.ts \in OldTimes
    BY DEF RowInv
  <2>6. rows' \subseteq Row
    BY <2>1, <2>3
  <2>7. \A y \in rows' : y.ts <= clock' /\ (y.run \in Runs => y.ts >= 2)
    BY <1>6, <2>1, <2>3, <2>4, <2>5 DEF RowInv, Written
  <2>8. \A y \in rows' : y.run \notin Runs => y.ts \in OldTimes /\ y.run \in {NoRun, PreV6(y.ts)}
    BY <2>1, <2>3, <2>4, <2>5
  <2>9. \A y, z \in rows' : y.run \notin Runs /\ z.run \notin Runs /\ y.ts = z.ts => y = z
    BY <2>1, <2>3, <2>4 DEF RowInv
  <2>10. \A y \in rows' : y.run # NoRun
    BY <1>8, FillsAll
  <2>11. QED
    BY <1>1, <2>2, <2>6, <2>7, <2>8, <2>9, <2>10 DEF RowInv, Written
<1>9. ASSUME NEW r \in Runs, NEW item \in Items, Timed(r), Adds(r, item) PROVE RowInv'
  <2> DEFINE x == NewRow(r, item)
  <2>1. x \in Row /\ x.run = r /\ x.ts = now[r] /\ now[r] \in 2..clock
    BY <1>9, NewRowFacts DEF OrderInv
  <2> HIDE DEF x
  <2>2. newRows' = newRows \cup {x} /\ rows' = rows /\ writer' = r /\ writer \in {Nobody, r}
    BY <1>9 DEF Adds, MayWrite, x
  <2>3. \A y \in newRows : y.run = r
    BY <1>5, <2>2 DEF RowInv
  <2>4. x.ts <= clock' /\ x.ts >= 2
    BY <1>1, <2>1
  <2>5. Filled' => \A y \in rows : y.run # NoRun
    BY <1>2, <2>2, FillsAll DEF RowInv
  <2>6. QED
    BY <1>1, <1>6, <2>1, <2>2, <2>3, <2>4, <2>5 DEF RowInv, Written
<1>10. QED
  BY <1>3, <1>7, <1>8, <1>9 DEF TableStep

\* A run's rows lie behind those of the runs that had ended when it began.
LEMMA OrderInvStep ==
  ASSUME PageInv, WriterInv, SightInv, [Next]_vars
  PROVE  OrderInv'
<1> USE DEF PageInv
<1>1. clock \in Nat /\ clock' \in Nat /\ clock' >= clock /\ clock >= 2
  BY WorldStep DEF RowInv
<1>2. \A x \in RunRows : x.ts <= clock /\ x.ts \in Nat /\ x.id \in Nat /\ x \in Written
  BY DEF RowInv, RunRows, Written, Row
<1>3. DOMAIN before = Runs /\ \A r \in Runs : \A q \in before[r] : q \in Runs /\ Ended(q)
  BY DEF SightInv, OrderInv
\* A step that writes no row, and sets no run writing.
<1>4. ASSUME RunRows' \subseteq RunRows, UNCHANGED before,
             DOMAIN now' = Runs,
             \A r \in Runs : Timed(r)' => Timed(r) /\ now'[r] = now[r]
      PROVE  OrderInv'
  BY <1>1, <1>4 DEF OrderInv
\* A step that writes one.
<1>5. ASSUME NEW r \in Runs, NEW item \in Items, Timed(r), Adds(r, item), UNCHANGED <<now, before, clock>>,
             \A q \in Runs : Timed(q)' => Timed(q)
      PROVE  OrderInv'
  <2> DEFINE n == NewRow(r, item)
  <2>1. n.run = r /\ n.ts = now[r] /\ \A y \in RunRows : y.id < n.id
    BY <1>2, <1>5, NewRowFacts
  <2>2. RunRows' = RunRows \cup {n}
    BY <1>5, RunRowsStep
  <2> HIDE DEF n
  <2>3. ~Ended(r) /\ \A q \in Runs : r \notin before[q]
    BY <1>3, <1>5 DEF Timed, Ended
  <2>4. \A y \in RunRows' : y.run \in before[r] => y \in RunRows /\ y.ts <= now[r]
    BY <1>5, <2>1, <2>2, <2>3 DEF OrderInv
  <2>5. \A x, y \in RunRows' : y.run \in before[x.run] => y.ts <= x.ts /\ y.id < x.id
    <3>1. SUFFICES ASSUME NEW x \in RunRows', NEW y \in RunRows', y.run \in before[x.run]
                   PROVE  y.ts <= x.ts /\ y.id < x.id
      OBVIOUS
    <3>2. x.run \in Runs
      BY <2>1, <2>2 DEF RunRows
    <3>3. y \in RunRows
      BY <2>1, <2>2, <2>3, <3>1, <3>2
    <3>4. CASE x = n
      BY <2>1, <2>4, <3>1, <3>3, <3>4
    <3>5. CASE x \in RunRows
      BY <3>1, <3>3, <3>5 DEF OrderInv
    <3>6. QED
      BY <2>2, <3>4, <3>5
  <2>6. \A q \in Runs : Timed(q) => \A y \in RunRows' : y.run \in before[q] => y.ts <= now[q]
    BY <2>1, <2>2, <2>3 DEF OrderInv
  <2>7. QED
    BY <1>5, <2>5, <2>6 DEF OrderInv
<1>6. ASSUME NEW p \in Openers, Migrate(p) \/ FillRunIds(p) PROVE OrderInv'
  <2>1. UNCHANGED runVars /\ (Keeps \/ Fills)
    BY <1>6, SnapshotsAssumption DEF Migrate, FillRunIds, Keeps, Fills, tables, RowInv
  <2>2. RunRows' \subseteq RunRows
    BY <2>1, RunRowsStep
  <2>3. QED
    BY <1>4, <2>1, <2>2 DEF runVars, Timed, OrderInv
<1>7. CASE Tick \/ Vote \/ UNCHANGED vars
  <2>1. Keeps /\ UNCHANGED runVars
    BY <1>7 DEF Tick, Vote, vars, tables, Keeps
  <2>2. RunRows' \subseteq RunRows
    BY <2>1, RunRowsStep
  <2>3. QED
    BY <1>4, <2>1, <2>2 DEF runVars, Timed, OrderInv
<1>8. ASSUME NEW r \in Runs, Begin(r) PROVE OrderInv'
  <2>1. /\ status[r] = "ready" /\ status' = [status EXCEPT ![r] = "reading"]
        /\ before' = [before EXCEPT ![r] = {q \in Runs : Ended(q)}]
        /\ UNCHANGED <<now, clock>>
        /\ Keeps
    BY <1>8 DEF Begin, tables, Keeps, world
  <2>2. RunRows' = RunRows
    BY <2>1, RunRowsStep
  <2>3. \A x \in RunRows : x.run # r
    BY <2>1 DEF AccountInv, RunAccount, Mine, ItemsOf
  <2>4. \A q \in Runs : q # r => before'[q] = before[q] /\ (Timed(q)' <=> Timed(q))
    BY <2>1 DEF Timed
  <2>5. ~Timed(r)' /\ before'[r] \subseteq Runs
    BY <1>3, <2>1 DEF Timed, WriterInv
  <2>6. \A x \in RunRows : x.run \in Runs
    BY DEF RunRows
  <2>7. QED
    BY <2>1, <2>2, <2>3, <2>4, <2>5, <2>6 DEF OrderInv
<1>9. ASSUME NEW r \in Runs, ReadGroup(r) PROVE OrderInv'
  <2>1. /\ now' = [now EXCEPT ![r] = clock]
        /\ UNCHANGED <<before, clock>> /\ Keeps
    BY <1>9 DEF ReadGroup, tables, Keeps, world
  <2>2. RunRows' = RunRows
    BY <2>1, RunRowsStep
  <2>3. \A q \in Runs : q # r => now'[q] = now[q] /\ (Timed(q)' => Timed(q))
    BY <1>9, <2>1 DEF ReadGroup, Timed, WriterInv, OrderInv
  <2>4. now'[r] = clock
    BY <2>1 DEF OrderInv
  <2>5. QED
    BY <1>1, <1>2, <2>1, <2>2, <2>3, <2>4 DEF OrderInv
<1>10. ASSUME NEW r \in Runs, InsertLock(r) \/ AskClaims(r) PROVE OrderInv'
  <2>1. Lock \in Items
    BY DEF Items, GroupItems, GroupNames
  <2>2. /\ UNCHANGED <<now, before, clock>> /\ Timed(r)
        /\ \A q \in Runs : Timed(q)' => Timed(q)
    BY <1>10 DEF InsertLock, AskClaims, world, Timed, WriterInv
  <2>3. CASE InsertLock(r)
    <3>1. Adds(r, Lock)
      BY <2>3 DEF InsertLock, Adds
    <3>2. QED
      BY <1>5, <2>1, <2>2, <3>1
  <2>4. CASE AskClaims(r)
    <3>1. Keeps
      BY <2>4 DEF AskClaims, tables, Keeps
    <3>2. RunRows' \subseteq RunRows
      BY <3>1, RunRowsStep
    <3>3. QED
      BY <1>4, <2>2, <3>2 DEF OrderInv
  <2>5. QED
    BY <1>10, <2>3, <2>4
<1>11. ASSUME NEW r \in Runs, Insert(r) PROVE OrderInv'
  <2>1. PICK item \in todo[r] : newRows' = newRows \cup {NewRow(r, item)}
    BY <1>11 DEF Insert
  <2>2. item \in Items
    BY DEF AccountInv, RunAccount
  <2>3. Adds(r, item)
    BY <1>11, <2>1 DEF Insert, Adds
  <2>4. UNCHANGED <<now, before, clock, status>> /\ Timed(r)
    BY <1>11 DEF Insert, world, Timed
  <2>5. QED
    BY <1>5, <2>2, <2>3, <2>4 DEF Timed
<1>12. ASSUME NEW r \in Runs, CommitWithPrice(r) \/ EndGroup(r) \/ Cut(r) PROVE OrderInv'
  <2>1. Keeps \/ Commits \/ Drops
    BY <1>12 DEF CommitWithPrice, EndGroup, Cut, Commit, Keeps, Commits, Drops, tables
  <2>2. RunRows' \subseteq RunRows
    BY <2>1, RunRowsStep
  <2>3. UNCHANGED before /\ DOMAIN now' = Runs
    BY <1>12 DEF CommitWithPrice, EndGroup, Cut, runVars, OrderInv
  <2>4. \A q \in Runs : Timed(q)' => Timed(q) /\ now'[q] = now[q]
    BY <1>12 DEF CommitWithPrice, EndGroup, Cut, runVars, OrderInv, Timed, WriterInv
  <2>5. QED
    BY <1>4, <2>2, <2>3, <2>4
<1>13. QED
  BY <1>6, <1>7, <1>8, <1>9, <1>10, <1>11, <1>12 DEF Next

\* The groups' items are told apart by their groups.
LEMMA GroupItemsApart ==
  /\ \A n, m \in GroupNames : n # m => GroupItems(n) \cap GroupItems(m) = {}
  /\ \A n \in GroupNames : GroupItems(n) \subseteq Items
<1>1. ASSUME NEW n \in GroupNames, NEW m \in GroupNames, n # m
      PROVE  GroupItems(n) \cap GroupItems(m) = {}
  <2>1. /\ \A name \in GroupNames : Lock # <<name>>
        /\ \A p \in Pools, name \in GroupNames : Claim(p) # <<name>>
    BY DEF Claim, Lock, GroupNames
  <2>2. CASE n # "aerodrome" /\ m # "aerodrome"
    BY <1>1, <2>2 DEF GroupItems
  <2>3. CASE n = "aerodrome" /\ m # "aerodrome"
    BY <2>1, <2>3 DEF GroupItems
  <2>4. CASE n # "aerodrome" /\ m = "aerodrome"
    BY <2>1, <2>4 DEF GroupItems
  <2>5. QED
    BY <1>1, <2>2, <2>3, <2>4
<1>2. \A n \in GroupNames : GroupItems(n) \subseteq Items
  BY DEF Items
<1>3. QED
  BY <1>1, <1>2

\* Nothing of a group is among the items of the groups after it.
LEMMA LaterGroupsApart ==
  ASSUME NEW g \in 1..Len(Groups), NEW h \in 1..Len(Groups), h > g
  PROVE  /\ Groups[g] \in GroupNames /\ Groups[h] \in GroupNames
         /\ GroupItems(Groups[g]) \cap GroupItems(Groups[h]) = {}
<1>1. Groups[g] \in GroupNames /\ Groups[h] \in GroupNames
  BY GroupsTyped DEF GroupNames
<1>2. Groups[g] # Groups[h]
  BY SnapshotsAssumption
<1>3. QED
  BY <1>1, <1>2, GroupItemsApart

\* A run's account depends on nothing but the run's variables and rows.
LEMMA AccountKept ==
  ASSUME NEW r \in Runs, RunAccount(r), Mine(r)' = Mine(r),
         saw'[r] = saw[r], asked'[r] = asked[r], ballot'[r] = ballot[r], todo'[r] = todo[r],
         status'[r] = status[r], group'[r] = group[r]
  PROVE  RunAccount(r)'
<1>1. Ahead(r)' = Ahead(r) /\ ItemsOf(Mine(r))' = ItemsOf(Mine(r))
  BY DEF Ahead, ItemsOf
<1>2. QED
  BY <1>1 DEF RunAccount, Ended

\* The rows of runs that a step does not write for.
LEMMA OthersRows ==
  ASSUME RowInv, NEW r
  PROVE  /\ Keeps \/ Commits \/ Fills => Mine(r)' = Mine(r)
         /\ Drops => Mine(r)' \subseteq Mine(r) /\ (writer # r => Mine(r)' = Mine(r))
         /\ \A q \in Runs : \A item : Adds(q, item) =>
              Mine(r)' = IF q = r THEN Mine(r) \cup {NewRow(q, item)} ELSE Mine(r)
<1>1. Keeps \/ Commits \/ Fills => Mine(r)' = Mine(r)
  BY RunRowsStep DEF Mine
<1>2. Drops => Mine(r)' \subseteq Mine(r) /\ (writer # r => Mine(r)' = Mine(r))
  BY RunRowsStep DEF Mine
<1>3. ASSUME NEW q \in Runs, NEW item, Adds(q, item)
      PROVE  Mine(r)' = IF q = r THEN Mine(r) \cup {NewRow(q, item)} ELSE Mine(r)
  <2>1. NewRow(q, item).run = q
    BY DEF NewRow
  <2>2. QED
    BY <1>3, <2>1, RunRowsStep DEF Mine
<1>4. QED
  BY <1>1, <1>2, <1>3

\* What a run has read stays accounted for.
LEMMA AccountInvStep ==
  ASSUME PageInv, WriterInv, SightInv, DOMAIN ballot = Runs, [Next]_vars
  PROVE  AccountInv'
<1> USE DEF PageInv
<1>0. /\ DOMAIN todo = Runs /\ DOMAIN saw = Runs /\ DOMAIN asked = Runs /\ DOMAIN ballot = Runs
      /\ DOMAIN status = Runs /\ DOMAIN group = Runs
      /\ \A r \in Runs : group[r] \in 1..Len(Groups)
      /\ Len(Groups) \in Nat
  BY GroupsTyped DEF SightInv, WriterInv, AccountInv
\* A step of one run that does not touch the pools.
<1>1. ASSUME NEW r \in Runs,
             DOMAIN todo' = Runs, pools' \subseteq Pools, newPools' \subseteq Pools,
             \A q \in Runs : q # r =>
               /\ Mine(q)' = Mine(q)
               /\ saw'[q] = saw[q] /\ asked'[q] = asked[q] /\ ballot'[q] = ballot[q]
               /\ todo'[q] = todo[q] /\ status'[q] = status[q] /\ group'[q] = group[q],
             RunAccount(r)'
      PROVE  AccountInv'
  <2>1. ASSUME NEW q \in Runs, q # r PROVE RunAccount(q)'
    BY <1>1, <2>1, AccountKept DEF AccountInv
  <2>2. QED
    BY <1>1, <2>1 DEF AccountInv
\* A step of nobody's.
<1>2. ASSUME UNCHANGED runVars, UNCHANGED <<pools, newPools>>, Keeps \/ Fills PROVE AccountInv'
  <2>1. ASSUME NEW q \in Runs PROVE RunAccount(q)'
    <3>1. Mine(q)' = Mine(q)
      BY <1>2, OthersRows
    <3>2. RunAccount(q)
      BY DEF AccountInv
    <3>3. QED
      BY <1>2, <3>1, <3>2, AccountKept DEF runVars
  <2>2. QED
    BY <1>2, <2>1 DEF AccountInv, runVars
<1>3. ASSUME NEW p \in Openers, Migrate(p) \/ FillRunIds(p) PROVE AccountInv'
  <2>1. UNCHANGED runVars /\ UNCHANGED <<pools, newPools>> /\ (Keeps \/ Fills)
    BY <1>3, SnapshotsAssumption DEF Migrate, FillRunIds, Keeps, Fills, tables, RowInv
  <2>2. QED
    BY <1>2, <2>1
<1>4. CASE Tick \/ Vote \/ UNCHANGED vars
  <2>1. UNCHANGED runVars /\ UNCHANGED <<pools, newPools>> /\ Keeps
    BY <1>4 DEF Tick, Vote, vars, tables, Keeps
  <2>2. QED
    BY <1>2, <2>1
<1>5. ASSUME NEW r \in Runs, Begin(r) PROVE AccountInv'
  <2>1. /\ status[r] = "ready" /\ status' = [status EXCEPT ![r] = "reading"]
        /\ UNCHANGED <<group, todo, saw, ballot, asked, pools, newPools>>
        /\ Keeps
    BY <1>5 DEF Begin, tables, Keeps
  <2>2. \A q \in Runs : Mine(q)' = Mine(q)
    BY <2>1, OthersRows
  <2>3. RunAccount(r) /\ status'[r] = "reading" /\ ItemsOf(Mine(r))' = ItemsOf(Mine(r))
    BY <1>0, <2>1, <2>2 DEF AccountInv, ItemsOf
  <2>4. RunAccount(r)'
    BY <2>1, <2>2, <2>3 DEF RunAccount
  <2>5. QED
    BY <1>0, <1>1, <2>1, <2>2, <2>4 DEF AccountInv
<1>6. ASSUME NEW r \in Runs, ReadGroup(r) PROVE AccountInv'
  <2> DEFINE name == Groups[group[r]]
  <2>1. /\ status[r] = "reading" /\ Keeps
        /\ UNCHANGED <<group, asked, pools, newPools>>
    BY <1>6 DEF ReadGroup, tables, Keeps
  <2>2. \A q \in Runs : Mine(q)' = Mine(q) /\ ItemsOf(Mine(q))' = ItemsOf(Mine(q))
    BY <2>1, OthersRows DEF ItemsOf
  <2>3. /\ todo[r] = {} /\ saw[r] \subseteq ItemsOf(Mine(r)) /\ RunAccount(r)
        /\ \A n \in Ahead(r) : saw[r] \cap GroupItems(n) = {}
    BY <2>1 DEF AccountInv, RunAccount, Ended
  <2>4. name \in Ahead(r) /\ name \in GroupNames
    BY <1>0, <2>1, GroupsTyped DEF Ahead, GroupNames
  <2>5. CASE name = "aerodrome" /\ status' = [status EXCEPT ![r] = "lock"]
             /\ ballot' = [ballot EXCEPT ![r] = votes] /\ UNCHANGED <<todo, saw>>
    <3>1. status'[r] = "lock" /\ ballot'[r] \subseteq Pools
      BY <1>0, <2>5 DEF RowInv
    <3>2. Ahead(r)' = Ahead(r)
      BY <2>1, <3>1 DEF Ahead
    <3>3. RunAccount(r)'
      BY <2>1, <2>2, <2>3, <2>5, <3>1, <3>2 DEF RunAccount
    <3>4. QED
      BY <1>0, <1>1, <2>1, <2>2, <2>5, <3>3 DEF AccountInv
  <2>6. ASSUME name # "aerodrome", NEW items \in SUBSET {<<name>>},
               todo' = [todo EXCEPT ![r] = items], saw' = [saw EXCEPT ![r] = @ \cup items],
               status' = [status EXCEPT ![r] = "writing"], UNCHANGED ballot
        PROVE  AccountInv'
    <3>1. status'[r] = "writing" /\ todo'[r] = items /\ saw'[r] = saw[r] \cup items
      BY <1>0, <2>6
    <3>2. items \subseteq GroupItems(name)
      BY <2>6 DEF GroupItems
    <3>3. items \subseteq Items /\ items \cap saw[r] = {}
      BY <2>3, <2>4, <3>2, GroupItemsApart
    <3>4. ASSUME NEW n \in Ahead(r)' PROVE n \in Ahead(r) /\ items \cap GroupItems(n) = {}
      <4>1. PICK h \in 1..Len(Groups) : h > group[r] /\ n = Groups[h]
        BY <2>1, <3>1 DEF Ahead
      <4>2. GroupItems(name) \cap GroupItems(n) = {}
        BY <1>0, <4>1, LaterGroupsApart
      <4>3. QED
        BY <3>2, <4>1, <4>2 DEF Ahead
    <3>5. \A n \in Ahead(r)' : saw'[r] \cap GroupItems(n) = {}
      BY <2>3, <3>1, <3>4
    <3>6. RunAccount(r)'
      BY <2>1, <2>2, <2>3, <2>6, <3>1, <3>3, <3>5 DEF RunAccount
    <3>7. QED
      BY <1>0, <1>1, <2>1, <2>2, <2>6, <3>6 DEF AccountInv
  <2>7. QED
    BY <1>6, <2>5, <2>6 DEF ReadGroup
<1>7. ASSUME NEW r \in Runs, InsertLock(r) PROVE AccountInv'
  <2> DEFINE n == NewRow(r, Lock)
  <2>1. /\ status[r] = "lock" /\ status' = [status EXCEPT ![r] = "claims"]
        /\ newPools' = Remembers(r) /\ asked' = [asked EXCEPT ![r] = Remembers(r)]
        /\ saw' = [saw EXCEPT ![r] = @ \cup {Lock}]
        /\ UNCHANGED <<pools, group, todo, ballot>> /\ Adds(r, Lock)
    BY <1>7 DEF InsertLock, Adds
  <2>2. Remembers(r) \subseteq Pools
    BY DEF Remembers, AccountInv, RunAccount
  <2>3. n.item = Lock
    BY DEF NewRow
  <2> HIDE DEF n
  <2>4. Mine(r)' = Mine(r) \cup {n} /\ \A q \in Runs : q # r => Mine(q)' = Mine(q)
    BY <2>1, OthersRows DEF n
  <2>5. /\ todo[r] = {} /\ saw[r] \subseteq ItemsOf(Mine(r)) /\ RunAccount(r)
        /\ \A name \in Ahead(r) : saw[r] \cap GroupItems(name) = {}
        /\ Groups[group[r]] = "aerodrome"
    BY <2>1 DEF AccountInv, RunAccount, Ended
  <2>6. "aerodrome" \in Ahead(r)
    BY <1>0, <2>1, <2>5 DEF Ahead
  <2>7. Lock \notin saw[r] /\ \A p \in Pools : Claim(p) \notin saw[r] /\ Claim(p) # Lock
    BY <2>5, <2>6 DEF GroupItems, Claim, Lock
  <2>8. ItemsOf(Mine(r)') = ItemsOf(Mine(r)) \cup {Lock}
    BY <2>3, <2>4 DEF ItemsOf
  <2>9. \A x, y \in Mine(r)' : x.item = y.item => x = y
    BY <2>3, <2>4, <2>5, <2>7 DEF RunAccount, ItemsOf
  <2>10. status'[r] = "claims" /\ saw'[r] = saw[r] \cup {Lock} /\ asked'[r] \subseteq Pools
    BY <1>0, <2>1, <2>2
  <2>11. ASSUME NEW m \in Ahead(r)' PROVE m \in Ahead(r) /\ Lock \notin GroupItems(m)
    <3>1. PICK h \in 1..Len(Groups) : h > group[r] /\ m = Groups[h]
      BY <2>1, <2>10 DEF Ahead
    <3>2. GroupItems("aerodrome") \cap GroupItems(m) = {}
      BY <1>0, <2>5, <3>1, LaterGroupsApart
    <3>3. QED
      BY <3>1, <3>2 DEF Ahead, GroupItems
  <2>12. \A m \in Ahead(r)' : saw'[r] \cap GroupItems(m) = {}
    BY <2>5, <2>10, <2>11
  <2>13. Lock \in Items
    BY DEF Items, GroupItems, GroupNames
  <2>14. RunAccount(r)'
    BY <2>1, <2>5, <2>7, <2>8, <2>9, <2>10, <2>12, <2>13 DEF RunAccount, Ended
  <2>15. QED
    BY <1>0, <1>1, <2>1, <2>2, <2>4, <2>14 DEF AccountInv
<1>8. ASSUME NEW r \in Runs, AskClaims(r) PROVE AccountInv'
  <2> DEFINE claims == {Claim(p) : p \in asked[r] \cap owing}
  <2>1. /\ status[r] = "claims" /\ status' = [status EXCEPT ![r] = "writing"]
        /\ todo' = [todo EXCEPT ![r] = claims] /\ saw' = [saw EXCEPT ![r] = @ \cup claims]
        /\ UNCHANGED <<pools, newPools, group, ballot, asked>> /\ Keeps
    BY <1>8 DEF AskClaims, tables, Keeps
  <2>2. \A q \in Runs : Mine(q)' = Mine(q) /\ ItemsOf(Mine(q))' = ItemsOf(Mine(q))
    BY <2>1, OthersRows DEF ItemsOf
  <2>3. RunAccount(r) /\ Groups[group[r]] = "aerodrome"
    BY <2>1 DEF AccountInv, RunAccount
  <2>4. claims \subseteq GroupItems("aerodrome") /\ claims \cap saw[r] = {}
    BY <2>1, <2>3 DEF RunAccount, GroupItems
  <2> HIDE DEF claims
  <2>5. claims \subseteq Items
    BY <2>4, GroupItemsApart DEF GroupNames
  <2>6. status'[r] = "writing" /\ todo'[r] = claims /\ saw'[r] = saw[r] \cup claims
    BY <1>0, <2>1
  <2>7. ASSUME NEW m \in Ahead(r)' PROVE m \in Ahead(r) /\ claims \cap GroupItems(m) = {}
    <3>1. PICK h \in 1..Len(Groups) : h > group[r] /\ m = Groups[h]
      BY <2>1, <2>6 DEF Ahead
    <3>2. GroupItems("aerodrome") \cap GroupItems(m) = {}
      BY <1>0, <2>3, <3>1, LaterGroupsApart
    <3>3. QED
      BY <2>4, <3>1, <3>2 DEF Ahead
  <2>8. \A m \in Ahead(r)' : saw'[r] \cap GroupItems(m) = {}
    BY <2>1, <2>3, <2>6, <2>7 DEF RunAccount, Ended
  <2>9. RunAccount(r)'
    BY <2>1, <2>2, <2>3, <2>4, <2>5, <2>6, <2>8 DEF RunAccount
  <2>10. QED
    BY <1>0, <1>1, <2>1, <2>2, <2>9 DEF AccountInv
<1>9. ASSUME NEW r \in Runs, Insert(r) PROVE AccountInv'
  <2>1. PICK item \in todo[r] : /\ todo' = [todo EXCEPT ![r] = @ \ {item}]
                                /\ newRows' = newRows \cup {NewRow(r, item)}
    BY <1>9 DEF Insert
  <2> DEFINE n == NewRow(r, item)
  <2>2. /\ status[r] = "writing" /\ Adds(r, item)
        /\ newPools' = IF writer = r THEN newPools ELSE pools
        /\ UNCHANGED <<pools, status, group, saw, ballot, asked>>
    BY <1>9, <2>1 DEF Insert, Adds
  <2>3. n.item = item
    BY DEF NewRow
  <2> HIDE DEF n
  <2>4. Mine(r)' = Mine(r) \cup {n} /\ \A q \in Runs : q # r => Mine(q)' = Mine(q)
    BY <2>2, OthersRows DEF n
  <2>5. RunAccount(r) /\ Ahead(r)' = Ahead(r) /\ todo'[r] = todo[r] \ {item}
    BY <1>0, <2>1, <2>2 DEF AccountInv, Ahead
  <2>6. ItemsOf(Mine(r)') = ItemsOf(Mine(r)) \cup {item}
    BY <2>3, <2>4 DEF ItemsOf
  <2>7. item \in saw[r] /\ item \notin ItemsOf(Mine(r))
    BY <2>5 DEF RunAccount
  <2>8. \A x, y \in Mine(r)' : x.item = y.item => x = y
    BY <2>3, <2>4, <2>5, <2>7 DEF RunAccount, ItemsOf
  <2>9. RunAccount(r)'
    BY <2>2, <2>5, <2>6, <2>7, <2>8 DEF RunAccount, Ended
  <2>10. newPools' \subseteq Pools
    BY <2>2 DEF AccountInv
  <2>11. QED
    BY <1>0, <1>1, <2>1, <2>2, <2>4, <2>9, <2>10 DEF AccountInv
<1>10. ASSUME NEW r \in Runs, CommitWithPrice(r) PROVE AccountInv'
  <2>1. UNCHANGED runVars /\ Commits /\ pools' = newPools /\ newPools' = {}
    BY <1>10 DEF CommitWithPrice, Commit, Commits
  <2>2. \A q \in Runs : Mine(q)' = Mine(q)
    BY <2>1, OthersRows
  <2>3. \A q \in Runs : RunAccount(q)'
    BY <2>1, <2>2, AccountKept DEF AccountInv, runVars
  <2>4. QED
    BY <2>1, <2>3 DEF AccountInv, runVars
<1>11. ASSUME NEW r \in Runs, EndGroup(r) PROVE AccountInv'
  <2>1. /\ status[r] = "writing" /\ todo[r] = {} /\ (Keeps \/ Commits)
        /\ pools' \in {pools, newPools} /\ newPools' \in {newPools, {}}
        /\ UNCHANGED <<todo, saw, ballot, asked>>
    BY <1>11 DEF EndGroup, Commit, Commits, tables, Keeps
  <2>2. \A q \in Runs : Mine(q)' = Mine(q) /\ ItemsOf(Mine(q))' = ItemsOf(Mine(q))
    BY <2>1, OthersRows DEF ItemsOf
  <2>3. RunAccount(r) /\ ~Ended(r)
    BY <2>1 DEF AccountInv, Ended
  <2>4. \/ status' = [status EXCEPT ![r] = "finished"] /\ UNCHANGED group
        \/ /\ status' = [status EXCEPT ![r] = "reading"]
           /\ group' = [group EXCEPT ![r] = @ + 1]
    BY <1>11 DEF EndGroup
  <2>5. CASE status' = [status EXCEPT ![r] = "finished"] /\ UNCHANGED group
    <3>1. status'[r] = "finished"
      BY <1>0, <2>5
    <3>2. RunAccount(r)'
      BY <2>1, <2>2, <2>3, <2>5, <3>1 DEF RunAccount, Ended
    <3>3. QED
      BY <1>0, <1>1, <2>1, <2>2, <2>5, <3>2 DEF AccountInv
  <2>6. CASE status' = [status EXCEPT ![r] = "reading"] /\ group' = [group EXCEPT ![r] = @ + 1]
    <3>1. status'[r] = "reading" /\ group'[r] = group[r] + 1
      BY <1>0, <2>6
    <3>2. Ahead(r)' \subseteq Ahead(r)
      BY <1>0, <2>1, <3>1 DEF Ahead
    <3>3. RunAccount(r)'
      BY <2>1, <2>2, <2>3, <3>1, <3>2 DEF RunAccount
    <3>4. QED
      BY <1>0, <1>1, <2>1, <2>2, <2>6, <3>3 DEF AccountInv
  <2>7. QED
    BY <2>4, <2>5, <2>6
<1>12. ASSUME NEW r \in Runs, Cut(r) PROVE AccountInv'
  <2>1. /\ Keeps \/ (Drops /\ writer = r)
        /\ status' = [status EXCEPT ![r] = "cut"] /\ todo' = [todo EXCEPT ![r] = {}]
        /\ group' = [group EXCEPT ![r] = 1]
        /\ newPools' \in {newPools, {}} /\ UNCHANGED <<pools, saw, ballot, asked>>
    BY <1>12 DEF Cut, Keeps, Drops
  <2>2. Mine(r)' \subseteq Mine(r) /\ \A q \in Runs : q # r => Mine(q)' = Mine(q)
    BY <2>1, OthersRows
  <2>3. RunAccount(r) /\ status'[r] = "cut" /\ todo'[r] = {}
    BY <1>0, <2>1 DEF AccountInv
  <2>4. ItemsOf(Mine(r)') \subseteq ItemsOf(Mine(r))
    BY <2>2 DEF ItemsOf
  <2>5. RunAccount(r)'
    BY <2>1, <2>2, <2>3, <2>4 DEF RunAccount, Ended
  <2>6. QED
    BY <1>0, <1>1, <2>1, <2>2, <2>5 DEF AccountInv
<1>13. QED
  BY <1>3, <1>4, <1>5, <1>6, <1>7, <1>8, <1>9, <1>10, <1>11, <1>12 DEF Next

\* Initially nobody has written, and rows that are there are old.
LEMMA PageInvInit == Init => PageInv
<1> SUFFICES ASSUME Init PROVE PageInv
  OBVIOUS
<1>1. \A r \in Runs : status[r] = "ready" /\ todo[r] = {} /\ saw[r] = {} /\ ballot[r] = {} /\ asked[r] = {}
  BY DEF Init
<1>2. newRows = {} /\ Written = rows /\ RunRows = {} /\ rows \in {{}, OldRows}
  <2>1. \A x \in OldRows : x.run = NoRun
    BY DEF OldRows
  <2>2. QED
    BY <2>1, SnapshotsAssumption DEF Init, Written, RunRows
<1>3. ASSUME rows # {} PROVE ~Filled
  <2>1. version \in 1..5 /\ made = Schema(version) /\ version \in 0..Len(Scripts)
    BY <1>3 DEF Init, StoreInit
  <2>2. SUFFICES ASSUME NEW s \in made, Scripts[s[1]][s[2]] = "fill" PROVE FALSE
    BY DEF Filled
  <2>3. PICK u \in 1..version : s \in Statements(u)
    BY <2>1 DEF Schema
  <2>4. s[1] = u /\ s[2] \in DOMAIN Scripts[u] /\ u \in 1..Len(Scripts) /\ u < 6
    BY <2>1, <2>3, ScriptsTyped DEF Statements
  <2>5. u \in DOMAIN Scripts
    BY <2>4, MigrationsAssumption, LenProperties
  <2>6. QED
    BY <2>2, <2>4, <2>5, SnapshotsAssumption
<1>4. \A x \in OldRows : x \in Row /\ x.run = NoRun /\ x.ts \in OldTimes /\ x.id \in 1..2
  <2>1. <<"balances">> \in Items /\ Lock \in Items
    BY DEF Items, GroupItems, GroupNames
  <2>2. QED
    BY <2>1 DEF OldRows, Row, OldTimes
<1>5. \A x, y \in OldRows : x.ts = y.ts \/ x.id = y.id => x = y
  BY DEF OldRows
<1>6. RowInv
  <2>1. clock = 2 /\ votes \subseteq Pools /\ owing \subseteq Pools
    BY DEF Init
  <2>2. rows \subseteq Row /\ \A x \in rows : x.run = NoRun /\ x.ts \in OldTimes
    BY <1>2, <1>4
  <2>3. \A x \in rows : x.ts <= 2
    BY <2>2 DEF OldTimes
  <2>4. Filled => rows = {}
    BY <1>3
  <2>5. \A x, y \in rows : x.ts = y.ts => x = y
    BY <1>2, <1>5
  <2>6. QED
    BY <1>2, <2>1, <2>2, <2>3, <2>4, <2>5, SnapshotsAssumption DEF RowInv
<1>7. IdInv
  <2>1. IsFiniteSet(OldRows) /\ Cardinality(OldRows) = 2
    <3> DEFINE a == [id |-> 1, ts |-> 0, run |-> NoRun, item |-> <<"balances">>]
    <3> DEFINE b == [id |-> 2, ts |-> 1, run |-> NoRun, item |-> Lock]
    <3>1. a # b /\ OldRows = {a} \cup {b}
      <4>1. a.id # b.id
        OBVIOUS
      <4>2. QED
        BY <4>1 DEF OldRows
    <3> HIDE DEF a, b
    <3>2. IsFiniteSet({a}) /\ Cardinality({a}) = 1
      BY FS_Singleton
    <3>3. QED
      BY <3>1, <3>2, FS_AddElement
  <2>2. IsFiniteSet(rows) /\ \A x \in rows : x.id <= Cardinality(rows)
    BY <1>2, <1>4, <2>1, FS_EmptySet
  <2>3. \A x, y \in rows : x.id = y.id => x = y
    BY <1>2, <1>5
  <2>4. QED
    BY <1>2, <2>2, <2>3, FS_EmptySet DEF IdInv
<1>8. OrderInv
  BY <1>1, <1>2 DEF Init, OrderInv, Timed
<1>9. AccountInv
  <2>1. \A r \in Runs : Mine(r) = {}
    BY <1>2 DEF Mine
  <2>2. \A r \in Runs : ItemsOf(Mine(r)) = {}
    BY <2>1 DEF ItemsOf
  <2>3. \A r \in Runs : RunAccount(r)
    BY <1>1, <2>1, <2>2 DEF RunAccount
  <2>4. QED
    BY <2>3 DEF AccountInv, Init
<1>10. QED
  BY <1>6, <1>7, <1>8, <1>9 DEF PageInv

\* Every step keeps all of it.
LEMMA PageInvStep == PageInv /\ VotesInv /\ [Next]_vars => PageInv'
<1> SUFFICES ASSUME PageInv, VotesInv, [Next]_vars PROVE PageInv'
  OBVIOUS
<1>1. WriterInv /\ SightInv /\ DOMAIN ballot = Runs
  BY DEF VotesInv, BallotInv
<1>2. RowInv' /\ IdInv'
  BY RowInvStep, IdInvStep, EveryTableStep DEF PageInv
<1>3. OrderInv' /\ AccountInv'
  BY <1>1, OrderInvStep, AccountInvStep
<1>4. QED
  BY <1>2, <1>3 DEF PageInv

-----------------------------------------------------------------------------
(* The page *)

\* A non-empty set of naturals has a least element.
LEMMA LeastNat ==
  ASSUME NEW T \in SUBSET Nat, T # {}
  PROVE  \E x \in T : \A y \in T : x <= y
<1>1. PICK x \in T : \A y \in T : ~ (<<y, x>> \in OpToRel(<, Nat))
  BY NatLessThanWellFounded, WFMin
<1>2. ASSUME NEW y \in T PROVE x <= y
  <2>1. ~ (<<y, x>> \in {ss \in Nat \X Nat : ss[1] < ss[2]})
    BY <1>1 DEF OpToRel
  <2>2. QED
    BY <2>1
<1>3. QED
  BY <1>2

\* There is a newest row: the latest by its time, and of those the last by its id.
LEMMA NewestExists ==
  ASSUME PageInv, rows # {}
  PROVE  /\ NewestRow(rows) \in rows
         /\ \A y \in rows : \/ y.ts < NewestRow(rows).ts
                            \/ y.ts = NewestRow(rows).ts /\ y.id <= NewestRow(rows).id
<1> DEFINE size == Cardinality(rows)
           ages == {clock - x.ts : x \in rows}
<1>1. size \in Nat /\ clock \in Nat
  BY FS_CardinalityType DEF PageInv, RowInv, IdInv
<1>2. \A x \in rows : x.ts \in Nat /\ x.id \in Nat /\ x.ts <= clock /\ x.id <= size
  BY DEF PageInv, RowInv, IdInv, Row, Written
<1> HIDE DEF size
<1>3. PICK x \in rows : \A y \in rows : y.ts <= x.ts
  <2>1. ages \in SUBSET Nat /\ ages # {}
    BY <1>1, <1>2
  <2>2. PICK a \in ages : \A b \in ages : a <= b
    BY <2>1, LeastNat
  <2>3. PICK x \in rows : a = clock - x.ts
    BY <2>2
  <2>4. \A y \in rows : clock - x.ts <= clock - y.ts
    BY <2>2, <2>3
  <2>5. QED
    BY <1>1, <1>2, <2>4
<1> DEFINE latest == {y \in rows : y.ts = x.ts}
           ranks == {size - y.id : y \in latest}
<1>4. PICK z \in latest : \A y \in latest : y.id <= z.id
  <2>1. ranks \in SUBSET Nat /\ ranks # {}
    BY <1>1, <1>2
  <2>2. PICK a \in ranks : \A b \in ranks : a <= b
    BY <2>1, LeastNat
  <2>3. PICK z \in latest : a = size - z.id
    BY <2>2
  <2>4. \A y \in latest : size - z.id <= size - y.id
    BY <2>2, <2>3
  <2>5. QED
    BY <1>1, <1>2, <2>4
<1>5. z \in rows /\ \A y \in rows : y.ts < z.ts \/ (y.ts = z.ts /\ y.id <= z.id)
  BY <1>2, <1>3, <1>4
<1>6. QED
  BY <1>5 DEF NewestRow

\* Who has the ledger open has filled in the run ids.
LEMMA PageIsFilled ==
  ASSUME StoreInv, Page
  PROVE  Filled
<1>1. PICK p \in Openers : phase[p] = "open"
  BY DEF Page
<1>2. PICK v \in 1..Build[p] : \E i \in DOMAIN Scripts[v] : Scripts[v][i] = "fill"
  BY SnapshotsAssumption
<1>3. PICK i \in DOMAIN Scripts[v] : Scripts[v][i] = "fill"
  BY <1>2
<1>4. <<v, i>> \in Schema(Build[p])
  BY <1>3 DEF Schema, Statements
<1>5. Schema(Build[p]) \subseteq made
  BY <1>1 DEF StoreInv
<1>6. QED
  BY <1>3, <1>4, <1>5 DEF Filled

\* All that is known of the ledger.
LedgerInv == StoreInv /\ VotesInv /\ PageInv

LEMMA LedgerInvCorrect == Spec => []LedgerInv
<1>1. Init => LedgerInv
  BY StoreInvInit, VotesInvInit, PageInvInit DEF LedgerInv
<1>2. LedgerInv /\ [Next]_vars => LedgerInv'
  BY EveryStoreStep, StoreInvStep, VotesInvStep, PageInvStep DEF LedgerInv
<1>3. QED
  BY <1>1, <1>2, PTL DEF Spec

\* A page shows one run, each position once, nothing the run has not read, and
\* all of it once the run has finished, whoever writes beside it and whatever is
\* cut short (latest_snapshots).
THEOREM ShownIsWholeCorrect == Spec => []ShownIsWhole
<1>1. ASSUME LedgerInv PROVE ShownIsWhole
  <2> SUFFICES ASSUME Page PROVE ShownIsWhole
    BY DEF ShownIsWhole
  <2> USE <1>1 DEF LedgerInv, PageInv
  <2> DEFINE run == NewestRow(rows).run
  <2>1. run \in {x.run : x \in rows}
    BY NewestExists DEF Page
  <2>2. Shown(rows) = {x \in rows : x.run = run}
    BY DEF Shown
  <2> HIDE DEF run
  <2>3. CASE run \in Runs
    <3>1. Shown(rows) \subseteq Mine(run)
      BY <2>2, <2>3 DEF Mine, RunRows, Written
    <3>2. RunAccount(run)
      BY <2>3 DEF AccountInv
    <3>3. \A x, y \in Shown(rows) : x.item = y.item => x = y
      BY <3>1, <3>2 DEF RunAccount
    <3>4. ItemsOf(Shown(rows)) \subseteq saw[run]
      BY <3>1, <3>2 DEF RunAccount, ItemsOf
    <3>5. ASSUME status[run] = "finished" PROVE ItemsOf(Shown(rows)) = saw[run]
      <4>1. \A x \in newRows : x.run # run
        BY <2>3, <3>5 DEF RowInv, VotesInv, WriterInv
      <4>2. Shown(rows) = Mine(run)
        BY <2>2, <2>3, <4>1 DEF Mine, RunRows, Written
      <4>3. saw[run] \subseteq ItemsOf(Mine(run)) /\ ItemsOf(Mine(run)) \subseteq saw[run]
        BY <3>2, <3>5 DEF RunAccount
      <4>4. QED
        BY <4>2, <4>3
    <3>6. QED
      BY <2>3, <3>3, <3>4, <3>5 DEF ShownIsWhole, run
  <2>4. CASE run \notin Runs
    <3>1. \A x \in Shown(rows) : x \in rows /\ x.run = run /\ x.run = PreV6(x.ts)
      <4>1. \A x \in rows : x.run # NoRun
        BY PageIsFilled DEF RowInv
      <4>2. QED
        BY <2>2, <2>4, <4>1 DEF RowInv
    <3>2. \A x, y \in Shown(rows) : x.ts = y.ts
      BY <3>1 DEF PreV6
    <3>3. \A x, y \in Shown(rows) : x = y
      BY <2>4, <3>1, <3>2 DEF RowInv
    <3>4. QED
      BY <2>4, <3>2, <3>3 DEF ShownIsWhole, run
  <2>5. QED
    BY <2>3, <2>4
<1>2. QED
  BY <1>1, LedgerInvCorrect, PTL

\* A page never goes back: what it shows is a run, and none that had ended before
\* a run with rows began (latest_snapshots).
THEOREM NeverOutdatedCorrect == Spec => []NeverOutdated
<1>1. ASSUME LedgerInv PROVE NeverOutdated
  <2> SUFFICES ASSUME Page, NEW r \in Runs, NEW x \in rows, x.run = r
               PROVE  NewestRow(rows).run \in Runs \ before[r]
    BY DEF NeverOutdated
  <2> USE <1>1 DEF LedgerInv, PageInv
  <2> DEFINE newest == NewestRow(rows)
  <2>1. newest \in rows /\ (x.ts < newest.ts \/ (x.ts = newest.ts /\ x.id <= newest.id))
    BY NewestExists DEF Page
  <2> HIDE DEF newest
  <2>2. x.ts \in Nat /\ newest.ts \in Nat /\ x.id \in Nat /\ newest.id \in Nat /\ x.ts >= 2
    BY <2>1 DEF RowInv, Row, Written
  <2>3. newest.run \in Runs
    BY <2>1, <2>2 DEF RowInv, OldTimes
  <2>4. newest \in RunRows /\ x \in RunRows
    BY <2>1, <2>3 DEF RunRows, Written
  <2>5. newest.run \notin before[r]
    <3>1. newest.run \in before[r] => newest.ts <= x.ts /\ newest.id < x.id
      BY <2>4 DEF OrderInv
    <3>2. QED
      BY <2>1, <2>2, <3>1
  <2>6. QED
    BY <2>3, <2>5 DEF newest
<1>2. QED
  BY <1>1, LedgerInvCorrect, PTL
=============================================================================
