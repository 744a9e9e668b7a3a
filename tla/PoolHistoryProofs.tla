------------------------- MODULE PoolHistoryProofs -------------------------
(***************************************************************************)
(* Theorems about PoolHistory, for any number of scans, pools and weeks.   *)
(*                                                                         *)
(* That only final votes are stored rests on one inequality: a scan's own  *)
(* epoch is never ahead of the running one, so what lies before it had     *)
(* closed when the worker asked, however many epochs flip meanwhile.       *)
(***************************************************************************)
EXTENDS PoolHistory, FiniteSetTheorems, FunctionTheorems, TLAPS

\* A pool's epochs on the chain are rows.
LEMMA OnChainTyped ==
  ASSUME TypeOK, NEW p \in Pools
  PROVE  OnChain(p) \subseteq Rows
  BY PoolAssumption DEF OnChain, TypeOK, Rows, Votes

\* The variables keep their types.
LEMMA TypeStep == TypeOK /\ [Next]_vars => TypeOK'
<1> SUFFICES ASSUME TypeOK, [Next]_vars PROVE TypeOK'
  OBVIOUS
<1> USE DEF TypeOK
<1>1. CASE Flip
  BY <1>1, PoolAssumption DEF Flip, scanVars
<1>2. ASSUME NEW s \in Scanners, Begin(s) PROVE TypeOK'
  BY <1>2 DEF Begin
<1>3. ASSUME NEW s \in Scanners, ReadMeta(s) PROVE TypeOK'
  <2>1. seen' \in [Scanners -> [Pools -> [known : BOOLEAN, marker : 0..LastWeek]]]
    <3>1. ASSUME NEW p \in Pools
          PROVE  (IF useCache[s] /\ p \in meta THEN [known |-> TRUE, marker |-> marker[p]]
                  ELSE Unseen) \in [known : BOOLEAN, marker : 0..LastWeek]
      BY PoolAssumption DEF Unseen
    <3>2. QED
      BY <1>3, <3>1 DEF ReadMeta
  <2>2. QED
    BY <1>3, <2>1 DEF ReadMeta
<1>4. ASSUME NEW s \in Scanners, Join(s) PROVE TypeOK'
  BY <1>4 DEF Join
<1>5. ASSUME NEW s \in Scanners, Finish(s) PROVE TypeOK'
  BY <1>5 DEF Finish
<1>6. ASSUME NEW s \in Scanners, Fail(s) PROVE TypeOK'
  BY <1>6 DEF Fail
<1>7. ASSUME NEW s \in Scanners, NEW p \in Pools, LookUp(s, p) PROVE TypeOK'
  <2>1. Newest(stored[p]) \in SUBSET Rows
    BY DEF Newest
  <2>2. ASSUME NEW from \in {"cache", "asked"}, source' = [source EXCEPT ![s][p] = from]
        PROVE  source' \in [Scanners -> [Pools -> {"none", "asked", "cache", "chain", "odd"}]]
    BY <2>2
  <2>3. ASSUME history' = [history EXCEPT ![s][p] = Newest(stored[p])]
        PROVE  history' \in [Scanners -> [Pools -> SUBSET Rows]]
    BY <2>1, <2>3
  <2>4. UNCHANGED <<week, meta, marker, stored, phase, start, useCache, seen, cand, toSave>>
    BY <1>7 DEF LookUp
  <2>5. CASE Fresh(s, p)
    BY <1>7, <2>2, <2>3, <2>4, <2>5 DEF LookUp
  <2>6. CASE ~Fresh(s, p)
    BY <1>7, <2>2, <2>4, <2>6 DEF LookUp
  <2>7. QED
    BY <2>5, <2>6
<1>8. ASSUME NEW s \in Scanners, NEW p \in Pools, Fetch(s, p) PROVE TypeOK'
  <2>1. Completed(s, p) \in SUBSET Rows
    BY OnChainTyped DEF Completed
  <2>2. QED
    BY <1>8, <2>1 DEF Fetch
<1>9. ASSUME NEW s \in Scanners, NEW p \in Pools, NotStandard(s, p) PROVE TypeOK'
  BY <1>9 DEF NotStandard
<1>10. ASSUME NEW s \in Scanners, NEW p \in Pools, SaveMeta(s, p) PROVE TypeOK'
  <2> DEFINE Seen == [known : BOOLEAN, marker : 0..LastWeek]
  <2>1. seen \in [Scanners -> [Pools -> Seen]]
    OBVIOUS
  <2>2. seen' = [seen EXCEPT ![s][p].known = TRUE]
    BY <1>10 DEF SaveMeta
  <2>3. seen' \in [Scanners -> [Pools -> Seen]]
    <3>1. seen[s] \in [Pools -> Seen] /\ seen[s][p] \in Seen
      BY <2>1
    <3>2. [seen[s][p] EXCEPT !.known = TRUE] \in Seen
      BY <3>1
    <3>3. [seen[s] EXCEPT ![p] = [seen[s][p] EXCEPT !.known = TRUE]] \in [Pools -> Seen]
      BY <3>1, <3>2
    <3>4. QED
      BY <2>1, <2>2, <3>3
  <2>4. QED
    BY <1>10, <2>3 DEF SaveMeta
<1>11. ASSUME NEW s \in Scanners, NEW p \in Pools, SaveEpochs(s, p) PROVE TypeOK'
  <2>1. ({r \in stored[p] : \A q \in history[s][p] : q[1] # r[1]} \cup history[s][p]) \in SUBSET Rows
    OBVIOUS
  <2>2. stored' \in [Pools -> SUBSET Rows]
    BY <1>11, <2>1 DEF SaveEpochs
  <2>3. NextMarker(s) \in 0..LastWeek
    BY DEF NextMarker
  <2>4. QED
    BY <1>11, <2>2, <2>3 DEF SaveEpochs
<1>12. CASE UNCHANGED vars
  BY <1>12 DEF vars, scanVars
<1>13. QED
  BY <1>1, <1>2, <1>3, <1>4, <1>5, <1>6, <1>7, <1>8, <1>9, <1>10, <1>11, <1>12 DEF Next, ScanStep

\* Types hold in every behaviour.
THEOREM PoolTypeCorrect == Spec => []TypeOK
<1>1. Init => TypeOK
  BY PoolAssumption DEF Init, TypeOK, Unseen
<1>2. QED
  BY <1>1, TypeStep, PTL DEF Spec

-----------------------------------------------------------------------------

Final(rows) == \A r \in rows : r[2] = "final"

\* No scan is ahead of the week, and neither the cache nor a scan has a row whose
\* votes were still moving.
FinalInv ==
  /\ \A s \in Scanners : start[s] <= week
  /\ \A s \in Scanners, p \in Pools : Final(history[s][p])
  /\ \A p \in Pools : Final(stored[p])

\* What a worker keeps had closed before the scan began.
LEMMA CompletedIsFinal ==
  ASSUME TypeOK, FinalInv, NEW s \in Scanners, NEW p \in Pools
  PROVE  Final(Completed(s, p))
<1> SUFFICES ASSUME NEW r \in Completed(s, p) PROVE r[2] = "final"
  BY DEF Final
<1>1. r[1] < start[s] /\ r \in OnChain(p)
  BY DEF Completed
<1>2. PICK e \in Born[p]..week : r = <<e, IF e < week THEN "final" ELSE "moving">>
  BY <1>1 DEF OnChain
<1>3. start[s] <= week /\ start[s] \in Nat /\ week \in Nat /\ e \in Nat
  BY PoolAssumption DEF FinalInv, TypeOK
<1>4. QED
  BY <1>1, <1>2, <1>3

\* Flips, scans of any process and their failures keep moving votes out.
LEMMA FinalStep == TypeOK /\ FinalInv /\ [Next]_vars => FinalInv'
<1> SUFFICES ASSUME TypeOK, FinalInv, [Next]_vars PROVE FinalInv'
  OBVIOUS
<1>0. /\ week \in Nat /\ \A s \in Scanners : start[s] \in Nat
      /\ DOMAIN start = Scanners /\ DOMAIN stored = Pools
      /\ history \in [Scanners -> [Pools -> SUBSET Rows]]
  BY PoolAssumption DEF TypeOK
<1> USE <1>0 DEF FinalInv
<1>1. CASE Flip
  BY <1>1 DEF Flip, scanVars
<1>2. ASSUME NEW s \in Scanners, Begin(s) PROVE FinalInv'
  BY <1>2 DEF Begin, Final
<1>3. ASSUME NEW s \in Scanners, NEW p \in Pools, LookUp(s, p) PROVE FinalInv'
  <2>1. Final(Newest(stored[p]))
    BY DEF Final, Newest
  <2>2. UNCHANGED <<week, start, stored>>
    BY <1>3 DEF LookUp
  <2>3. history' = [history EXCEPT ![s][p] = Newest(stored[p])] \/ UNCHANGED history
    BY <1>3 DEF LookUp
  <2>4. QED
    BY <2>1, <2>2, <2>3
<1>4. ASSUME NEW s \in Scanners, NEW p \in Pools, Fetch(s, p) PROVE FinalInv'
  BY <1>4, CompletedIsFinal DEF Fetch
<1>5. ASSUME NEW s \in Scanners, NEW p \in Pools, SaveEpochs(s, p) PROVE FinalInv'
  <2>1. Final({r \in stored[p] : \A q \in history[s][p] : q[1] # r[1]} \cup history[s][p])
    BY DEF Final
  <2>2. QED
    BY <1>5, <2>1 DEF SaveEpochs
<1>6. ASSUME UNCHANGED <<week, start, history, stored>> PROVE FinalInv'
  BY <1>6
<1>7. QED
  BY <1>1, <1>2, <1>3, <1>4, <1>5, <1>6
     DEF Next, ScanStep, ReadMeta, Join, Finish, Fail, NotStandard, SaveMeta, vars, scanVars

\* The cache never holds votes that were still moving.
THEOREM StoredIsFinalCorrect == Spec => []StoredIsFinal
<1>1. Init => FinalInv
  BY PoolAssumption DEF Init, FinalInv, Final
<1>2. FinalInv => StoredIsFinal
  BY DEF FinalInv, Final, StoredIsFinal
<1>3. TypeOK /\ FinalInv /\ [Next]_vars => FinalInv'
  BY FinalStep
<1>4. QED
  BY <1>1, <1>2, <1>3, PoolTypeCorrect, PTL DEF Spec

-----------------------------------------------------------------------------

\* The epochs of a set of rows.
Epochs(rows) == {r[1] : r \in rows}

\* A set of rows has every epoch of a pool before epoch w that the chain still
\* answers for in week now.
Covers(rows, p, w, now) ==
  \A e \in Born[p]..(w - 1) : e >= now - HistoryEpochs => e \in Epochs(rows)

\* No row is of that week or a later one.
Past(rows, now) == \A r \in rows : r[1] < now

\* What NoHoleInside says of the rows a scan begun in week w uses.
Inside(rows, p, w) ==
  \A e \in Wanted(p, w) : e \in Epochs(rows) \/ e = w - 1 \/ e = w - HistoryEpochs

\* A scan under way is one week behind at most.  What a marker vouches for, in the
\* table or as a scan has read it, is stored as far as the chain answers now; and
\* so is what a scan holds of the chain, until it has stored it.
HoleInv ==
  /\ \A s \in Scanners : phase[s] # "idle" => week <= start[s] + 1
  /\ \A p \in Pools : Past(stored[p], week) /\ Covers(stored[p], p, marker[p], week)
  /\ \A s \in Scanners, p \in Pools :
       /\ Past(history[s][p], week)
       /\ Covers(stored[p], p, seen[s][p].marker, week)
       /\ source[s][p] = "asked" => phase[s] = "looking" /\ p \in cand[s]
       /\ phase[s] = "saving" /\ p \in toSave[s] => source[s][p] = "chain"
       /\ source[s][p] = "chain" /\ phase[s] # "idle" => Covers(history[s][p], p, start[s], week)
       /\ source[s][p] \in {"cache", "chain"} => Inside(history[s][p], p, start[s])

PoolInv == TypeOK /\ FinalInv /\ HoleInv

\* A scan that finds the marker fresh takes the newest rows: the oldest epoch it
\* can count on is among them, since none of a later week is stored.
LEMMA CacheHasNoHole ==
  ASSUME PoolInv, NEW s \in Scanners, NEW p \in Pools, phase[s] = "looking", Fresh(s, p),
         NEW e \in Wanted(p, start[s]), e # start[s] - 1, e # start[s] - HistoryEpochs
  PROVE  e \in Epochs(Newest(stored[p]))
<1> DEFINE later == {q \in stored[p] : q[1] > e}
<1>1. /\ start[s] \in Nat /\ week \in Nat /\ seen[s][p].marker \in Nat
      /\ HistoryEpochs \in Nat \ {0} /\ Born[p] \in Nat /\ week <= start[s] + 1
  BY PoolAssumption DEF PoolInv, TypeOK, HoleInv
<1>2. /\ e \in Nat /\ e >= Born[p]
      /\ e > start[s] - HistoryEpochs /\ e < start[s] - 1
  BY <1>1 DEF Wanted
<1>3. e \in Born[p]..(seen[s][p].marker - 1) /\ e >= week - HistoryEpochs
  BY <1>1, <1>2 DEF Fresh
<1>4. PICK r \in stored[p] : r[1] = e
  BY <1>3 DEF PoolInv, HoleInv, Covers, Epochs
<1>5. IsFiniteSet(later) /\ Cardinality(later) <= Cardinality((e + 1)..start[s])
  <2> DEFINE epoch == [q \in later |-> q[1]]
  <2>1. ASSUME NEW q \in later
        PROVE  q[1] \in (e + 1)..start[s] /\ q = <<q[1], "final">>
    <3>1. q \in Rows /\ q[2] = "final" /\ q[1] < week
      BY DEF PoolInv, TypeOK, FinalInv, Final, HoleInv, Past
    <3>2. q[1] \in Nat /\ q = <<q[1], q[2]>>
      BY <3>1 DEF Rows
    <3>3. QED
      BY <1>1, <1>2, <3>1, <3>2
  <2>2. epoch \in Injection(later, (e + 1)..start[s])
    <3>1. epoch \in [later -> (e + 1)..start[s]]
      BY <2>1
    <3>2. \A a, b \in later : epoch[a] = epoch[b] => a = b
      BY <2>1
    <3> HIDE DEF epoch, later
    <3>3. QED
      BY <3>1, <3>2, Fun_IsInj
  <2>3. IsFiniteSet((e + 1)..start[s])
    <3>1. e + 1 \in Int /\ start[s] \in Int
      BY <1>1, <1>2
    <3> HIDE DEF epoch, later
    <3>2. QED
      BY <3>1, FS_Interval
  <2> DEFINE weeks == (e + 1)..start[s]
  <2> HIDE DEF epoch, later, weeks
  <2>4. IsFiniteSet(weeks) => IsFiniteSet(later) /\ Cardinality(later) <= Cardinality(weeks)
    <3>1. epoch \in Injection(later, weeks)
      BY <2>2 DEF weeks
    <3>2. QED
      BY <3>1, FS_Injection
  <2>5. QED
    BY <2>3, <2>4 DEF weeks
<1>6. Cardinality((e + 1)..start[s]) = start[s] - e
  <2>1. e + 1 \in Int /\ start[s] \in Int /\ ~(e + 1 > start[s]) /\ start[s] - (e + 1) + 1 = start[s] - e
    BY <1>1, <1>2
  <2>2. QED
    BY <2>1, FS_Interval
<1>7. Cardinality(later) \in Nat
  BY <1>5, FS_CardinalityType
<1>8. Cardinality(later) < HistoryEpochs
  BY <1>1, <1>2, <1>5, <1>6, <1>7
<1>9. r \in Newest(stored[p])
  BY <1>4, <1>8 DEF Newest
<1>10. QED
  BY <1>4, <1>9 DEF Epochs

\* A worker that asks the chain gets every epoch before the scan's own that the
\* chain still answers for.
LEMMA ChainCovers ==
  ASSUME PoolInv, NEW s \in Scanners, NEW p \in Pools
  PROVE  Covers(Completed(s, p), p, start[s], week) /\ Past(Completed(s, p), week)
<1>1. start[s] \in Nat /\ week \in Nat /\ Born[p] \in Nat /\ start[s] <= week
  BY PoolAssumption DEF PoolInv, TypeOK, FinalInv
<1>2. ASSUME NEW e \in Born[p]..(start[s] - 1), e >= week - HistoryEpochs
      PROVE  e \in Epochs(Completed(s, p))
  <2> DEFINE r == <<e, IF e < week THEN "final" ELSE "moving">>
  <2>1. e \in Born[p]..week /\ e < start[s]
    BY <1>1
  <2>2. r \in OnChain(p)
    BY <1>2, <2>1 DEF OnChain
  <2>3. r[1] = e
    OBVIOUS
  <2>4. r \in Completed(s, p)
    BY <2>1, <2>2, <2>3 DEF Completed
  <2> HIDE DEF r
  <2>5. QED
    BY <2>3, <2>4 DEF Epochs
<1>3. ASSUME NEW r \in Completed(s, p) PROVE r[1] < week
  <2>1. r[1] < start[s] /\ r \in OnChain(p)
    BY DEF Completed
  <2>2. r[1] \in Int
    BY <1>1, <2>1 DEF OnChain
  <2>3. QED
    BY <1>1, <2>1, <2>2
<1>4. QED
  BY <1>2, <1>3 DEF Covers, Past

\* What is written over is replaced, so a table loses no epoch.
LEMMA ReplaceKeeps ==
  ASSUME NEW old, NEW new
  PROVE  Epochs({r \in old : \A q \in new : q[1] # r[1]} \cup new) = Epochs(old) \cup Epochs(new)
  BY DEF Epochs

\* What covers a pool still does when the week goes on and rows are added.
LEMMA CoversOn ==
  ASSUME NEW rows, NEW more, Epochs(rows) \subseteq Epochs(more), NEW p, NEW w,
         Born[p] \in Nat, w \in Nat,
         NEW now \in Nat, NEW later \in Nat, now <= later, Covers(rows, p, w, now)
  PROVE  Covers(more, p, w, later)
<1> SUFFICES ASSUME NEW e \in Born[p]..(w - 1), e >= later - HistoryEpochs
             PROVE  e \in Epochs(more)
  BY DEF Covers
<1>1. e >= now - HistoryEpochs
  BY PoolAssumption
<1>2. QED
  BY <1>1 DEF Covers

\* Before epoch 0 there is nothing to cover.
LEMMA CoversNothing ==
  ASSUME NEW rows, NEW p, Born[p] \in Nat, NEW now
  PROVE  Covers(rows, p, 0, now)
<1>1. Born[p]..(0 - 1) = {}
  OBVIOUS
<1>2. QED
  BY <1>1 DEF Covers

\* What a scan has of the chain has no hole, also when the week went on meanwhile.
LEMMA CoveredInside ==
  ASSUME NEW rows, NEW p, Born[p] \in Nat, NEW w \in Nat, NEW now \in Nat, now <= w + 1,
         Covers(rows, p, w, now)
  PROVE  Inside(rows, p, w)
<1> SUFFICES ASSUME NEW e \in Wanted(p, w), e # w - HistoryEpochs PROVE e \in Epochs(rows)
  BY DEF Inside
<1>1. e \in Born[p]..(w - 1) /\ e >= w - HistoryEpochs
  BY DEF Wanted
<1>2. e >= now - HistoryEpochs
  BY <1>1, PoolAssumption
<1>3. QED
  BY <1>1, <1>2 DEF Covers

\* Flips, scans of any process and their failures open no hole.
LEMMA HoleStep == PoolInv /\ [Next]_vars => HoleInv'
<1> SUFFICES ASSUME PoolInv, [Next]_vars PROVE HoleInv'
  OBVIOUS
<1>0. TypeOK /\ FinalInv /\ HoleInv
  BY DEF PoolInv
<1>t. /\ week \in Nat /\ start \in [Scanners -> Nat] /\ Born \in [Pools -> Nat]
      /\ marker \in [Pools -> Nat] /\ stored \in [Pools -> SUBSET Rows]
      /\ seen \in [Scanners -> [Pools -> [known : BOOLEAN, marker : Nat]]]
      /\ history \in [Scanners -> [Pools -> SUBSET Rows]]
      /\ source \in [Scanners -> [Pools -> {"none", "asked", "cache", "chain", "odd"}]]
      /\ phase \in [Scanners -> {"idle", "paging", "looking", "saving"}]
      /\ cand \in [Scanners -> SUBSET Pools] /\ toSave \in [Scanners -> SUBSET Pools]
  <2>1. 0..LastWeek \subseteq Nat
    BY PoolAssumption
  <2>2. [known : BOOLEAN, marker : 0..LastWeek] \subseteq [known : BOOLEAN, marker : Nat]
    BY <2>1
  <2>3. QED
    BY <1>0, <2>1, <2>2, PoolAssumption DEF TypeOK
<1>1. CASE Flip
  <2>1. week' = week + 1 /\ UNCHANGED <<meta, marker, stored, scanVars>>
    BY <1>1 DEF Flip
  <2>2. \A s \in Scanners : phase[s] # "idle" => week' <= start[s] + 1
    BY <1>1, <1>t DEF Flip
  <2>3. ASSUME NEW p \in Pools, NEW rows \in SUBSET Rows, NEW w \in Nat
        PROVE  /\ Covers(rows, p, w, week) => Covers(rows, p, w, week')
               /\ Past(rows, week) => Past(rows, week')
    <3>1. Born[p] \in Nat /\ week' \in Nat /\ week <= week'
      BY <1>t, <2>1
    <3>2. \A r \in rows : r[1] \in Nat
      BY PoolAssumption DEF Rows
    <3>3. Past(rows, week) => Past(rows, week')
      BY <1>t, <2>1, <3>2 DEF Past
    <3>4. QED
      BY <1>t, <3>1, <3>3, CoversOn
  <2>5. /\ marker' = marker /\ stored' = stored /\ phase' = phase /\ start' = start
        /\ seen' = seen /\ cand' = cand /\ source' = source /\ history' = history /\ toSave' = toSave
    BY <2>1 DEF scanVars
  <2>6. ASSUME NEW s \in Scanners, NEW p \in Pools
        PROVE  /\ start[s] \in Nat /\ marker[p] \in Nat /\ seen[s][p].marker \in Nat
               /\ stored[p] \in SUBSET Rows /\ history[s][p] \in SUBSET Rows
    BY <1>t
  <2>7. \A s \in Scanners : phase'[s] # "idle" => week' <= start'[s] + 1
    BY <2>2, <2>5
  <2>8. ASSUME NEW p \in Pools
        PROVE  Past(stored'[p], week') /\ Covers(stored'[p], p, marker'[p], week')
    <3>1. Past(stored[p], week) /\ Covers(stored[p], p, marker[p], week)
      BY <1>0 DEF HoleInv
    <3>2. stored[p] \in SUBSET Rows /\ marker[p] \in Nat
      BY <1>t
    <3>3. QED
      BY <2>3, <2>5, <3>1, <3>2
  <2>9. ASSUME NEW s \in Scanners, NEW p \in Pools
        PROVE  /\ Past(history'[s][p], week')
               /\ Covers(stored'[p], p, seen'[s][p].marker, week')
               /\ source[s][p] = "chain" /\ phase[s] # "idle" => Covers(history'[s][p], p, start[s], week')
    <3>1. /\ Past(history[s][p], week)
          /\ Covers(stored[p], p, seen[s][p].marker, week)
          /\ source[s][p] = "chain" /\ phase[s] # "idle" => Covers(history[s][p], p, start[s], week)
      BY <1>0 DEF HoleInv
    <3>2. QED
      BY <2>3, <2>5, <2>6, <3>1
  <2>10. QED
    BY <1>0, <2>5, <2>7, <2>8, <2>9 DEF HoleInv
<1>2. ASSUME NEW s \in Scanners, Begin(s) PROVE HoleInv'
  <2>1. /\ phase' = [phase EXCEPT ![s] = "paging"] /\ start' = [start EXCEPT ![s] = week]
        /\ source' = [source EXCEPT ![s] = [p \in Pools |-> "none"]]
        /\ history' = [history EXCEPT ![s] = [p \in Pools |-> {}]]
        /\ UNCHANGED <<week, meta, marker, stored, seen, cand, toSave>>
    BY <1>2 DEF Begin
  <2>2. \A q \in Scanners : phase'[q] # "idle" => week <= start'[q] + 1
    BY <1>0, <1>t, <2>1 DEF HoleInv
  <2>3. \A p \in Pools : source'[s][p] = "none" /\ history'[s][p] = {}
    BY <1>t, <2>1
  <2>4. QED
    BY <1>0, <1>t, <2>1, <2>2, <2>3 DEF HoleInv, Past
<1>3. ASSUME NEW s \in Scanners, ReadMeta(s) PROVE HoleInv'
  <2>1. /\ phase[s] = "paging" /\ phase' = [phase EXCEPT ![s] = "looking"]
        /\ \A q \in Scanners : q # s => cand'[q] = cand[q]
        /\ UNCHANGED <<week, meta, marker, stored, start, source, history, toSave>>
    BY <1>3 DEF ReadMeta
  <2>2. \A q \in Scanners, p \in Pools :
          seen'[q][p].marker \in {seen[q][p].marker, marker[p], 0}
    BY <1>3, <1>t DEF ReadMeta, Unseen
  <2>3. ASSUME NEW q \in Scanners, NEW p \in Pools
        PROVE  Covers(stored[p], p, seen'[q][p].marker, week)
    <3>1. Born[p] \in Nat
      BY <1>t
    <3>2. Covers(stored[p], p, 0, week)
      BY <3>1, CoversNothing
    <3>3. Covers(stored[p], p, seen[q][p].marker, week) /\ Covers(stored[p], p, marker[p], week)
      BY <1>0 DEF HoleInv
    <3>4. CASE seen'[q][p].marker = 0
      BY <3>2, <3>4
    <3>5. CASE seen'[q][p].marker = marker[p]
      BY <3>3, <3>5
    <3>6. CASE seen'[q][p].marker = seen[q][p].marker
      BY <3>3, <3>6
    <3>7. QED
      BY <2>2, <3>4, <3>5, <3>6
  <2>4. \A p \in Pools : source[s][p] # "asked"
    BY <1>0, <2>1 DEF HoleInv
  <2>5. QED
    BY <1>0, <1>t, <2>1, <2>3, <2>4 DEF HoleInv
<1>4. ASSUME NEW s \in Scanners, NEW p \in Pools, LookUp(s, p) PROVE HoleInv'
  <2>1. /\ phase[s] = "looking" /\ p \in cand[s]
        /\ UNCHANGED <<week, meta, marker, stored, phase, start, useCache, seen, cand, toSave>>
    BY <1>4 DEF LookUp
  <2>2. CASE Fresh(s, p)
    <3>1. /\ source' = [source EXCEPT ![s][p] = "cache"]
          /\ history' = [history EXCEPT ![s][p] = Newest(stored[p])]
      BY <1>4, <2>2 DEF LookUp
    <3>2. Past(Newest(stored[p]), week)
      BY <1>0 DEF HoleInv, Past, Newest
    <3>3. Inside(Newest(stored[p]), p, start[s])
      BY <2>1, <2>2, CacheHasNoHole DEF Inside
    <3>4. \A q \in Scanners, o \in Pools :
            \/ q = s /\ o = p /\ source'[q][o] = "cache" /\ history'[q][o] = Newest(stored[p])
            \/ source'[q][o] = source[q][o] /\ history'[q][o] = history[q][o]
      BY <1>t, <3>1
    <3>5. p \notin toSave[s] \/ phase[s] # "saving"
      BY <2>1
    <3>6. QED
      BY <1>0, <2>1, <3>2, <3>3, <3>4, <3>5 DEF HoleInv
  <2>3. CASE ~Fresh(s, p)
    <3>1. source' = [source EXCEPT ![s][p] = "asked"] /\ history' = history
      BY <1>4, <2>3 DEF LookUp
    <3>2. \A q \in Scanners, o \in Pools :
            (q = s /\ o = p /\ source'[q][o] = "asked") \/ source'[q][o] = source[q][o]
      BY <1>t, <3>1
    <3>3. QED
      BY <1>0, <2>1, <3>1, <3>2 DEF HoleInv
  <2>4. QED
    BY <2>2, <2>3
<1>5. ASSUME NEW s \in Scanners, NEW p \in Pools, Fetch(s, p) PROVE HoleInv'
  <2>1. /\ source[s][p] = "asked"
        /\ source' = [source EXCEPT ![s][p] = "chain"]
        /\ history' = [history EXCEPT ![s][p] = Completed(s, p)]
        /\ UNCHANGED <<week, meta, marker, stored, phase, start, useCache, seen, cand, toSave>>
    BY <1>5 DEF Fetch
  <2>2. Covers(Completed(s, p), p, start[s], week) /\ Past(Completed(s, p), week)
    BY ChainCovers
  <2>3. Inside(Completed(s, p), p, start[s])
    <3>1. phase[s] = "looking" /\ week <= start[s] + 1
      BY <1>0, <2>1 DEF HoleInv
    <3>2. QED
      BY <1>t, <2>2, <3>1, CoveredInside
  <2>4. \A q \in Scanners, o \in Pools :
          \/ q = s /\ o = p /\ source'[q][o] = "chain" /\ history'[q][o] = Completed(s, p)
          \/ source'[q][o] = source[q][o] /\ history'[q][o] = history[q][o]
    BY <1>t, <2>1
  <2>5. QED
    BY <1>0, <2>1, <2>2, <2>3, <2>4 DEF HoleInv
<1>6. ASSUME NEW s \in Scanners, NEW p \in Pools, NotStandard(s, p) PROVE HoleInv'
  <2>1. /\ source[s][p] = "asked" /\ source' = [source EXCEPT ![s][p] = "odd"]
        /\ UNCHANGED <<week, meta, marker, stored, phase, start, useCache, seen, cand, history, toSave>>
    BY <1>6 DEF NotStandard
  <2>2. \A q \in Scanners, o \in Pools :
          (q = s /\ o = p /\ source'[q][o] = "odd") \/ source'[q][o] = source[q][o]
    BY <1>t, <2>1
  <2>3. QED
    BY <1>0, <2>1, <2>2 DEF HoleInv
<1>7. ASSUME NEW s \in Scanners, Join(s) PROVE HoleInv'
  <2>1. /\ phase[s] = "looking" /\ phase' = [phase EXCEPT ![s] = "saving"]
        /\ \A p \in cand[s] : source[s][p] # "asked"
        /\ \A p \in toSave'[s] : source[s][p] = "chain"
        /\ \A q \in Scanners : q # s => toSave'[q] = toSave[q]
        /\ UNCHANGED <<week, meta, marker, stored, start, useCache, seen, cand, source, history>>
    BY <1>7, <1>t DEF Join
  <2>2. QED
    BY <1>0, <1>t, <2>1 DEF HoleInv
<1>8. ASSUME NEW s \in Scanners, NEW p \in Pools, SaveMeta(s, p) PROVE HoleInv'
  <2>1. /\ seen' = [seen EXCEPT ![s][p].known = TRUE]
        /\ UNCHANGED <<week, marker, stored, phase, start, useCache, cand, source, history, toSave>>
    BY <1>8 DEF SaveMeta
  <2>2. \A q \in Scanners, o \in Pools : seen'[q][o].marker = seen[q][o].marker
    BY <1>t, <2>1
  <2>3. QED
    BY <1>0, <2>1, <2>2 DEF HoleInv
<1>9. ASSUME NEW s \in Scanners, NEW p \in Pools, SaveEpochs(s, p) PROVE HoleInv'
  <2> DEFINE new == {r \in stored[p] : \A q \in history[s][p] : q[1] # r[1]} \cup history[s][p]
  <2>1. /\ phase[s] = "saving" /\ p \in toSave[s]
        /\ stored' = [stored EXCEPT ![p] = new]
        /\ marker' = [marker EXCEPT ![p] = start[s]]
        /\ toSave' = [toSave EXCEPT ![s] = @ \ {p}]
        /\ UNCHANGED <<week, meta, phase, start, useCache, seen, cand, source, history>>
    BY <1>9 DEF SaveEpochs, NextMarker
  <2>2. Past(new, week)
    BY <1>0 DEF HoleInv, Past
  <2>3. Epochs(new) = Epochs(stored[p]) \cup Epochs(history[s][p])
    BY ReplaceKeeps
  <2> HIDE DEF new
  <2>4. Covers(new, p, start[s], week)
    <3>1. Covers(history[s][p], p, start[s], week)
      BY <1>0, <2>1 DEF HoleInv
    <3>2. QED
      BY <2>3, <3>1 DEF Covers
  <2>5. \A q \in Scanners : Covers(new, p, seen[q][p].marker, week)
    <3>1. \A q \in Scanners : Covers(stored[p], p, seen[q][p].marker, week)
      BY <1>0 DEF HoleInv
    <3>2. QED
      BY <2>3, <3>1 DEF Covers
  <2>6. \A o \in Pools :
          \/ o = p /\ stored'[o] = new /\ marker'[o] = start[s]
          \/ o # p /\ stored'[o] = stored[o] /\ marker'[o] = marker[o]
    BY <1>t, <2>1
  <2>7. \A q \in Scanners : toSave'[q] \subseteq toSave[q]
    BY <1>t, <2>1
  <2>8. QED
    BY <1>0, <2>1, <2>2, <2>4, <2>5, <2>6, <2>7 DEF HoleInv
<1>10. ASSUME NEW s \in Scanners, Finish(s) PROVE HoleInv'
  <2>1. /\ phase[s] = "saving" /\ phase' = [phase EXCEPT ![s] = "idle"]
        /\ UNCHANGED <<week, meta, marker, stored, start, useCache, seen, cand, source, history, toSave>>
    BY <1>10 DEF Finish
  <2>2. QED
    BY <1>0, <1>t, <2>1 DEF HoleInv
<1>11. ASSUME NEW s \in Scanners, Fail(s) PROVE HoleInv'
  <2>1. /\ phase' = [phase EXCEPT ![s] = "idle"]
        /\ source' = [source EXCEPT ![s] = [p \in Pools |-> "none"]]
        /\ \A q \in Scanners : q # s => cand'[q] = cand[q] /\ toSave'[q] = toSave[q]
        /\ UNCHANGED <<week, meta, marker, stored, start, useCache, seen, history>>
    BY <1>11 DEF Fail
  <2>2. \A p \in Pools : source'[s][p] = "none"
    BY <1>t, <2>1
  <2>3. QED
    BY <1>0, <1>t, <2>1, <2>2 DEF HoleInv
<1>12. CASE UNCHANGED vars
  BY <1>0, <1>12 DEF vars, scanVars, HoleInv
<1>13. QED
  BY <1>1, <1>2, <1>3, <1>4, <1>5, <1>6, <1>7, <1>8, <1>9, <1>10, <1>11, <1>12 DEF Next, ScanStep

\* Whoever filled the cache and when, a scan misses nothing between the oldest and
\* the newest epoch it wants.
THEOREM NoHoleInsideCorrect == Spec => []NoHoleInside
<1>1. Init => PoolInv
  <2> SUFFICES ASSUME Init PROVE PoolInv
    OBVIOUS
  <2>1. TypeOK /\ FinalInv
    BY PoolAssumption DEF Init, TypeOK, Unseen, FinalInv, Final
  <2>2. HoleInv
    BY PoolAssumption, CoversNothing DEF Init, HoleInv, Past, Unseen
  <2>3. QED
    BY <2>1, <2>2 DEF PoolInv
<1>2. PoolInv /\ [Next]_vars => PoolInv'
  BY TypeStep, FinalStep, HoleStep DEF PoolInv
<1>3. PoolInv => NoHoleInside
  BY DEF PoolInv, HoleInv, Inside, NoHoleInside, Used, Epochs
<1>4. QED
  BY <1>1, <1>2, <1>3, PTL DEF Spec
=============================================================================
