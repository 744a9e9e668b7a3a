-------------------------- MODULE LedgerSyncProofs --------------------------
(***************************************************************************)
(* Theorems about LedgerSync, for any chain, wallets and number of runs at *)
(* work together, crashes included.                                        *)
(*                                                                         *)
(* An answer holds whole blocks, hence whole transactions, so the ordinal  *)
(* a reader invents for a leg is the same in every answer: the event of a  *)
(* leg is a function of the leg (Booked).  That no leg is booked twice     *)
(* follows at once.  That none is lost is proved with its two exceptions   *)
(* in the statement: a leg in the gap of its stream's queries, and a leg   *)
(* whose key another wallet's leg of the same transaction has taken.  A    *)
(* gas fee is excused by the gap or by a receipt that did not come.        *)
(***************************************************************************)
EXTENDS LedgerSync, FiniteSetTheorems, WellFoundedInduction, TLAPS

\* A non-empty set of numbers with a bound has a maximum.
LEMMA HasMax ==
  ASSUME NEW n \in Nat, NEW S \in SUBSET (0..n), S # {}
  PROVE  Max(S) \in S /\ \A x \in S : x <= Max(S)
<1> DEFINE T == {k \in Nat : n - k \in S}
<1>1. T \subseteq Nat /\ T # {}
  <2>1. PICK x \in S : TRUE
    OBVIOUS
  <2>2. n - x \in T
    BY <2>1
  <2>3. QED
    BY <2>2
<1>2. PICK k \in T : \A y \in T : <<y, k>> \notin OpToRel(<, Nat)
  BY <1>1, WFMin, NatLessThanWellFounded
<1>3. k \in Nat /\ \A y \in T : y \in Nat /\ ~(y < k)
  BY <1>1, <1>2 DEF OpToRel
<1>4. n - k \in S /\ \A x \in S : x <= n - k
  <2>1. ASSUME NEW x \in S PROVE x <= n - k
    <3>1. n - x \in T /\ x \in Int
      OBVIOUS
    <3>2. QED
      BY <1>3, <3>1
  <2>2. QED
    BY <2>1
<1>5. QED
  BY <1>4 DEF Max

-----------------------------------------------------------------------------

\* What may be in the ledger: the fee its sender paid for a transaction, or a
\* mined leg under its own event.
GoodEvent(e) ==
  \/ \E t \in Transfers : e = FeeEvent(Chain[t].tx, Sender[Chain[t].tx])
  \/ \E t \in Transfers, w \in Wallets :
       Touches(t, w) /\ Chain[t].block <= head /\ e = Booked(t, w)

\* Answers hold mined legs of their wallet, and whole transactions of a family.
GotInv ==
  \A r \in Runs, w \in Wallets : \A t \in got[r][w] :
    /\ t \in RowsOf(w)
    /\ Chain[t].block <= head
    /\ \A u \in RowsOf(w) :
         Chain[u].tx = Chain[t].tx /\ Chain[u].family = Chain[t].family => u \in got[r][w]

\* A stream that is being ingested has brought something.
JobInv ==
  \A r \in Runs :
    stage[r] \in {"transfers", "fees", "cursor"} => job[r] \in Jobs /\ Batch(r, job[r]) # {}

BookInv ==
  /\ \A e \in ledger \cup pending : GoodEvent(e)
  /\ \A r \in Runs : \A e \in left[r] : GoodEvent(e)

\* A row's number is a number.
LEMMA OrdinalTyped ==
  ASSUME NEW rows \in SUBSET Transfers, NEW t \in Transfers
  PROVE  Ordinal(rows, t) \in Nat
<1> DEFINE S == {u \in rows : u < t /\ Chain[u].tx = Chain[t].tx /\ Chain[u].family = Chain[t].family}
<1>1. t \in Nat /\ rows \subseteq Nat
  BY ChainAssumption DEF Transfers
<1>2. S \in SUBSET (0..t) /\ IsFiniteSet(0..t)
  <2>1. IsFiniteSet(0..t)
    BY <1>1, FS_Interval
  <2>2. \A u \in S : u \in 0..t
    BY <1>1
  <2>3. QED
    BY <2>1, <2>2
<1>3. IsFiniteSet(S)
  BY <1>2, FS_Subset
<1>4. Cardinality(S) \in Nat
  BY <1>3, FS_CardinalityType
<1>5. QED
  BY <1>4 DEF Ordinal

\* In every answer a leg has the number it has among all of its wallet's rows.
LEMMA LegEventIsBooked ==
  ASSUME TypeOK, GotInv, NEW r \in Runs, NEW j \in Jobs, NEW t \in Batch(r, j)
  PROVE  LegEvent(Batch(r, j), t, j[1]) = Booked(t, j[1])
<1>1. j[1] \in Wallets /\ t \in got[r][j[1]] /\ StreamOf(Chain[t].family) = j[2]
  BY DEF Batch, Jobs
<1>2. \A u \in Batch(r, j) : u \in RowsOf(j[1])
  BY <1>1 DEF GotInv, Batch
<1>3. \A u \in RowsOf(j[1]) :
        Chain[u].tx = Chain[t].tx /\ Chain[u].family = Chain[t].family => u \in Batch(r, j)
  BY <1>1 DEF GotInv, Batch
<1>4. Ordinal(Batch(r, j), t) = Ordinal(RowsOf(j[1]), t)
  BY <1>2, <1>3 DEF Ordinal
<1>5. QED
  BY <1>4 DEF LegEvent, Booked

\* A leg's own event is an event of the ledger, and says which leg it is.
LEMMA BookedTyped ==
  ASSUME NEW t \in Transfers, NEW w \in Wallets
  PROVE  /\ Booked(t, w) \in Event
         /\ Booked(t, w).leg = t /\ Booked(t, w).wallet = w
         /\ Booked(t, w).family = Chain[t].family
<1>1. Ordinal(RowsOf(w), t) \in Nat
  BY OrdinalTyped DEF RowsOf
<1>2. QED
  BY <1>1, ChainAssumption DEF Booked, LegEvent, Event, Transfers

\* The batch of a run at work, and the height it reaches.
LEMMA BatchTyped ==
  ASSUME TypeOK, GotInv, NEW r \in Runs, NEW j \in Jobs
  PROVE  /\ Batch(r, j) \subseteq RowsOf(j[1])
         /\ \A t \in Batch(r, j) : Chain[t].block \in 0..head
  BY ChainAssumption DEF Batch, Jobs, GotInv, TypeOK, RowsOf, Transfers

\* The cursor a run sets lies above its batch, and not far above the chain.
LEMMA NextCursorTyped ==
  ASSUME TypeOK, GotInv, NEW r \in Runs, job[r] \in Jobs, Batch(r, job[r]) # {}
  PROVE  /\ NextCursor(r) \in 0..(head + 1)
         /\ \E t \in Batch(r, job[r]) : NextCursor(r) = Chain[t].block + 1
         /\ \A t \in Batch(r, job[r]) : Chain[t].block < NextCursor(r)
<1> DEFINE S == {Chain[t].block : t \in Batch(r, job[r])}
<1>1. S \in SUBSET (0..head) /\ S # {} /\ head \in Nat
  BY BatchTyped DEF TypeOK
<1>2. Max(S) \in S /\ \A x \in S : x <= Max(S)
  BY <1>1, HasMax
<1>3. NextCursor(r) = Max(S) + 1
  BY DEF NextCursor
<1>4. \A t \in Batch(r, job[r]) : Chain[t].block \in S
  OBVIOUS
<1>5. PICK t \in Batch(r, job[r]) : Max(S) = Chain[t].block
  BY <1>2
<1>6. QED
  <2> DEFINE m == Max(S)
  <2>1. m \in 0..head /\ head \in Nat
    BY <1>1, <1>2
  <2>2. \A u \in Batch(r, job[r]) : Chain[u].block \in 0..head /\ Chain[u].block <= m
    BY <1>1, <1>2, <1>4
  <2>3. NextCursor(r) = m + 1 /\ m = Chain[t].block
    BY <1>3, <1>5
  <2> HIDE DEF m, S
  <2>4. QED
    BY <2>1, <2>2, <2>3

-----------------------------------------------------------------------------

\* What any run may have been told is typed, mined and whole.
LEMMA AnswerTyped ==
  ASSUME TypeOK, NEW r \in Runs, NEW w \in Wallets, NEW f \in Family
  PROVE  /\ Answer(r, w, f) \in SUBSET Transfers
         /\ \A t \in Answer(r, w, f) :
              /\ t \in RowsOf(w) /\ Chain[t].block <= head
              /\ \A u \in RowsOf(w) : Chain[u].tx = Chain[t].tx /\ Chain[u].family = Chain[t].family
                                       => u \in Answer(r, w, f)
<1>1. Since(r, w, f) \in Nat /\ head \in Nat
  BY DEF Since, TypeOK, Jobs, Stream, StreamOf
<1>2. QED
  BY <1>1, ChainAssumption DEF Answer, RowsOf, Transfers

\* The events of a batch, its fees and its legs, are events of the ledger.
LEMMA BatchEventsTyped ==
  ASSUME TypeOK, GotInv, NEW r \in Runs, NEW j \in Jobs
  PROVE  LegEvents(r, j) \subseteq Event /\ FeeEvents(r, j) \subseteq Event
<1>1. j[1] \in Wallets /\ Batch(r, j) \subseteq Transfers
  BY BatchTyped DEF Jobs, RowsOf
<1>2. LegEvents(r, j) \subseteq Event
  BY <1>1, LegEventIsBooked, BookedTyped DEF LegEvents
<1>3. ASSUME NEW t \in Transfers PROVE FeeEvent(Chain[t].tx, j[1]) \in Event
  BY <1>1 DEF FeeEvent, Event
<1>4. FeeEvents(r, j) \subseteq Event
  BY <1>1, <1>3 DEF FeeEvents
<1>5. QED
  BY <1>2, <1>4

\* Types.
LEMMA TypeStep == TypeOK /\ GotInv /\ JobInv /\ [Next]_vars => TypeOK'
<1> SUFFICES ASSUME TypeOK, GotInv, JobInv, [Next]_vars PROVE TypeOK'
  OBVIOUS
<1>1. CASE Mine
  BY <1>1 DEF Mine, TypeOK, runVars, history
<1>2. ASSUME NEW r \in Runs, Start(r) PROVE TypeOK'
  BY <1>2 DEF Start, TypeOK, Stage, history
<1>3. ASSUME NEW r \in Runs, NEW w \in Wallets, NEW f \in Family, Query(r, w, f) PROVE TypeOK'
  <2>1. Answer(r, w, f) \in SUBSET Transfers
    BY AnswerTyped
  <2>2. got' = [got EXCEPT ![r][w] = @ \cup Answer(r, w, f)] /\ asked' = [asked EXCEPT ![r][w] = @ \cup {f}]
    BY <1>3 DEF Query
  <2>3. got' \in [Runs -> [Wallets -> SUBSET Transfers]]
    BY <2>1, <2>2 DEF TypeOK
  <2>4. asked' \in [Runs -> [Wallets -> SUBSET Family]]
    BY <2>2 DEF TypeOK
  <2>5. gaps' \subseteq Transfers \X Wallets
    <3>1. Answer(r, w, "native") \in SUBSET Transfers
      BY AnswerTyped DEF Family
    <3>2. QED
      BY <1>3, <3>1 DEF Query, TypeOK
  <2>6. QED
    BY <1>3, <2>3, <2>4, <2>5 DEF Query, TypeOK
<1>4. ASSUME NEW r \in Runs, Gather(r) PROVE TypeOK'
  BY <1>4 DEF Gather, TypeOK, Stage, history
<1>5. ASSUME NEW r \in Runs, Pick(r) PROVE TypeOK'
  <2>1. PICK j \in todo[r] :
          /\ todo' = [todo EXCEPT ![r] = @ \ {j}]
          /\ \/ UNCHANGED <<stage, job, left>>
             \/ /\ stage' = [stage EXCEPT ![r] = "transfers"]
                /\ job' = [job EXCEPT ![r] = j]
                /\ left' = [left EXCEPT ![r] = LegEvents(r, j)]
    BY <1>5 DEF Pick
  <2>2. j \in Jobs
    BY DEF TypeOK
  <2>3. LegEvents(r, j) \subseteq Event
    BY <2>2, BatchEventsTyped
  <2>4. UNCHANGED <<head, ledger, cursor, since, asked, got, writer, pending, faults, gaps, unread>>
    BY <1>5 DEF Pick, history
  <2>5. todo' \in [Runs -> SUBSET Jobs]
    BY <2>1 DEF TypeOK
  <2>6. /\ stage' \in [Runs -> Stage] /\ job' \in [Runs -> Jobs \cup {NoJob}]
        /\ left' \in [Runs -> SUBSET Event]
    <3>1. CASE UNCHANGED <<stage, job, left>>
      BY <3>1 DEF TypeOK
    <3>2. CASE /\ stage' = [stage EXCEPT ![r] = "transfers"]
               /\ job' = [job EXCEPT ![r] = j]
               /\ left' = [left EXCEPT ![r] = LegEvents(r, j)]
      BY <2>2, <2>3, <3>2 DEF TypeOK, Stage
    <3>3. QED
      BY <2>1, <3>1, <3>2
  <2>7. QED
    BY <2>4, <2>5, <2>6 DEF TypeOK
<1>6. ASSUME NEW r \in Runs, Insert(r) PROVE TypeOK'
  BY <1>6 DEF Insert, TypeOK, history
<1>7. ASSUME NEW r \in Runs, CommitWithPrice(r) PROVE TypeOK'
  BY <1>7 DEF CommitWithPrice, TypeOK, runVars, history
<1>8. ASSUME NEW r \in Runs, CommitTransfers(r) PROVE TypeOK'
  <2>1. FeeEvents(r, job[r]) \subseteq Event
    BY <1>8, BatchEventsTyped DEF CommitTransfers, JobInv
  <2>2. \E fees \in SUBSET FeeEvents(r, job[r]) :
          left' = [left EXCEPT ![r] = fees] /\ unread' = unread \cup (FeeEvents(r, job[r]) \ fees)
    BY <1>8 DEF CommitTransfers
  <2>3. left' \in [Runs -> SUBSET Event] /\ unread' \subseteq Event
    BY <2>1, <2>2 DEF TypeOK
  <2>4. QED
    BY <1>8, <2>3 DEF CommitTransfers, Committed, TypeOK, Stage
<1>9. ASSUME NEW r \in Runs, CommitFees(r) PROVE TypeOK'
  BY <1>9 DEF CommitFees, Committed, TypeOK, Stage, history
<1>10. ASSUME NEW r \in Runs, SetCursor(r) PROVE TypeOK'
  <2>1. job[r] \in Jobs /\ NextCursor(r) \in Nat
    BY <1>10, NextCursorTyped DEF SetCursor, JobInv, TypeOK
  <2>2. QED
    <3>1. cursor' \in [Jobs -> Nat] /\ job' \in [Runs -> Jobs \cup {NoJob}]
      BY <1>10, <2>1 DEF SetCursor, TypeOK
    <3>2. QED
      BY <1>10, <3>1 DEF SetCursor, TypeOK, Stage, history
<1>11. ASSUME NEW r \in Runs, Finish(r) \/ Abort(r) PROVE TypeOK'
  <2>1. Forget(r) /\ UNCHANGED <<head, ledger, cursor, gaps, unread>>
    BY <1>11 DEF Finish, Abort, history
  <2>2. writer' \in Runs \cup {Nobody} /\ pending' \subseteq Event /\ faults' \in Nat
    BY <1>11 DEF Finish, Abort, TypeOK
  <2>3. stage' \in [Runs -> Stage] /\ todo' \in [Runs -> SUBSET Jobs] /\ left' \in [Runs -> SUBSET Event]
    BY <2>1 DEF Forget, TypeOK, Stage
  <2>4. job' \in [Runs -> Jobs \cup {NoJob}]
    BY <2>1 DEF Forget, TypeOK
  <2>5. since' \in [Runs -> [Jobs -> Nat]]
    BY <2>1 DEF Forget, TypeOK
  <2>6. asked' \in [Runs -> [Wallets -> SUBSET Family]]
    BY <2>1 DEF Forget, TypeOK
  <2>7. got' \in [Runs -> [Wallets -> SUBSET Transfers]]
    BY <2>1 DEF Forget, TypeOK
  <2>8. QED
    BY <2>1, <2>2, <2>3, <2>4, <2>5, <2>6, <2>7 DEF TypeOK
<1>12. CASE UNCHANGED vars
  BY <1>12 DEF vars, runVars, TypeOK, history
<1>13. QED
  BY <1>1, <1>2, <1>3, <1>4, <1>5, <1>6, <1>7, <1>8, <1>9, <1>10, <1>11, <1>12 DEF Next, Progress

\* Answers, and the stream under way.
LEMMA GotStep == TypeOK /\ GotInv /\ [Next]_vars => GotInv'
<1> SUFFICES ASSUME TypeOK, GotInv, [Next]_vars PROVE GotInv'
  OBVIOUS
<1>0. got \in [Runs -> [Wallets -> SUBSET Transfers]] /\ head \in Nat
  BY DEF TypeOK
<1>1. CASE Mine
  <2>1. \A t \in Transfers : Chain[t].block \in Nat
    BY ChainAssumption DEF Transfers
  <2>2. QED
    BY <1>0, <1>1, <2>1 DEF Mine, GotInv, runVars, RowsOf, Transfers
<1>2. ASSUME NEW r \in Runs, Start(r) PROVE GotInv'
  <2>1. head' = head /\ got' = [got EXCEPT ![r] = [w \in Wallets |-> {}]]
    BY <1>2 DEF Start
  <2>2. QED
    BY <1>0, <2>1 DEF GotInv
<1>3. ASSUME NEW r \in Runs, NEW w \in Wallets, NEW f \in Family, Query(r, w, f) PROVE GotInv'
  <2>1. got' = [got EXCEPT ![r][w] = @ \cup Answer(r, w, f)] /\ head' = head
    BY <1>3 DEF Query
  <2>2. QED
    BY <1>0, <2>1, AnswerTyped DEF GotInv
<1>4. ASSUME NEW r \in Runs, Forget(r), head' = head PROVE GotInv'
  BY <1>0, <1>4 DEF Forget, GotInv
<1>5. ASSUME UNCHANGED <<head, got>> PROVE GotInv'
  BY <1>5 DEF GotInv
<1>6. QED
  BY <1>1, <1>2, <1>3, <1>4, <1>5
     DEF Next, Progress, Gather, Pick, Insert, CommitWithPrice, CommitTransfers, CommitFees,
         SetCursor, Finish, Abort, runVars, vars

\* The stream under way keeps its batch.
LEMMA JobStep == TypeOK /\ JobInv /\ [Next]_vars => JobInv'
<1> SUFFICES ASSUME TypeOK, JobInv, [Next]_vars PROVE JobInv'
  OBVIOUS
<1> USE DEF JobInv, Batch
<1>0. stage \in [Runs -> Stage] /\ job \in [Runs -> Jobs \cup {NoJob}] /\ DOMAIN got = Runs
      /\ todo \in [Runs -> SUBSET Jobs]
  BY DEF TypeOK
<1>1. ASSUME NEW r \in Runs, Start(r) PROVE JobInv'
  BY <1>0, <1>1 DEF Start
<1>2. ASSUME NEW r \in Runs, NEW w \in Wallets, NEW f \in Family, Query(r, w, f) PROVE JobInv'
  <2>1. stage[r] = "fetch" /\ UNCHANGED <<stage, job>> /\ \A q \in Runs : q # r => got'[q] = got[q]
    BY <1>0, <1>2 DEF Query
  <2>2. QED
    BY <2>1
<1>3. ASSUME NEW r \in Runs, Gather(r) PROVE JobInv'
  BY <1>0, <1>3 DEF Gather
<1>4. ASSUME NEW r \in Runs, Pick(r) PROVE JobInv'
  BY <1>0, <1>4 DEF Pick
<1>5. ASSUME NEW r \in Runs, CommitTransfers(r) \/ CommitFees(r) \/ SetCursor(r) PROVE JobInv'
  BY <1>0, <1>5 DEF CommitTransfers, CommitFees, SetCursor
<1>6. ASSUME NEW r \in Runs, Forget(r) PROVE JobInv'
  BY <1>0, <1>6 DEF Forget
<1>7. ASSUME UNCHANGED <<stage, job, got>> PROVE JobInv'
  BY <1>7
<1>8. QED
  BY <1>1, <1>2, <1>3, <1>4, <1>5, <1>6, <1>7
     DEF Next, Progress, Mine, Insert, CommitWithPrice, Finish, Abort, runVars, vars

\* What is booked, or about to be, are fees and mined legs under their own event.
LEMMA BookStep == TypeOK /\ GotInv /\ JobInv /\ BookInv /\ [Next]_vars => BookInv'
<1> SUFFICES ASSUME TypeOK, GotInv, JobInv, BookInv, [Next]_vars PROVE BookInv'
  OBVIOUS
<1>0. left \in [Runs -> SUBSET Event] /\ head \in Nat
  BY DEF TypeOK
<1>1. head' \in Nat /\ head' >= head
  BY <1>0 DEF Next, Progress, Mine, Start, Query, Gather, Pick, Insert, CommitWithPrice,
       CommitTransfers, CommitFees, SetCursor, Finish, Abort, runVars, vars
<1>2. \A e : GoodEvent(e) => GoodEvent(e)'
  <2>1. \A t \in Transfers : Chain[t].block \in Nat
    BY ChainAssumption DEF Transfers
  <2>2. QED
    BY <1>0, <1>1, <2>1 DEF GoodEvent
<1>3. \A e \in ledger \cup pending : GoodEvent(e)'
  BY <1>2 DEF BookInv
<1>4. \A q \in Runs : \A e \in left[q] : GoodEvent(e)'
  BY <1>2 DEF BookInv
<1> HIDE DEF GoodEvent
<1>5. ASSUME NEW r \in Runs, Pick(r) PROVE BookInv'
  <2>1. PICK j \in todo[r] : UNCHANGED left \/ left' = [left EXCEPT ![r] = LegEvents(r, j)]
    BY <1>5 DEF Pick
  <2>2. j \in Jobs /\ j[1] \in Wallets
    BY DEF TypeOK, Jobs
  <2>3. \A e \in LegEvents(r, j) : GoodEvent(e)
    <3>1. ASSUME NEW t \in Batch(r, j) PROVE GoodEvent(LegEvent(Batch(r, j), t, j[1]))
      <4>1. t \in RowsOf(j[1]) /\ Chain[t].block <= head
        BY <2>2, BatchTyped, <1>0
      <4>2. QED
        BY <2>2, <4>1, LegEventIsBooked DEF RowsOf, GoodEvent
    <3>2. QED
      BY <3>1 DEF LegEvents
  <2>4. UNCHANGED <<ledger, pending>>
    BY <1>5 DEF Pick
  <2>5. \A q \in Runs : \A e \in left'[q] : GoodEvent(e)'
    BY <1>0, <1>2, <1>4, <2>1, <2>3
  <2>6. QED
    BY <1>3, <2>4, <2>5 DEF BookInv
<1>6. ASSUME NEW r \in Runs, Insert(r) PROVE BookInv'
  <2>1. PICK e \in left[r] : left' = [left EXCEPT ![r] = @ \ {e}] /\ pending' \subseteq pending \cup {e}
    BY <1>6 DEF Insert
  <2>2. UNCHANGED ledger
    BY <1>6 DEF Insert
  <2>3. \A q \in Runs : left'[q] \subseteq left[q]
    BY <1>0, <2>1
  <2>4. QED
    BY <1>3, <1>4, <2>1, <2>2, <2>3 DEF BookInv
<1>7. ASSUME NEW r \in Runs, CommitTransfers(r) PROVE BookInv'
  <2>1. \E fees \in SUBSET FeeEvents(r, job[r]) : left' = [left EXCEPT ![r] = fees]
    BY <1>7 DEF CommitTransfers
  <2>2. \A e \in FeeEvents(r, job[r]) : GoodEvent(e)
    <3>1. Batch(r, job[r]) \subseteq Transfers
      BY <1>7, BatchTyped DEF CommitTransfers, JobInv, RowsOf
    <3>2. QED
      BY <3>1 DEF FeeEvents, GoodEvent
  <2>3. ledger' \cup pending' = ledger \cup pending
    BY <1>7 DEF CommitTransfers, Committed
  <2>4. \A q \in Runs : \A e \in left'[q] : GoodEvent(e)'
    BY <1>0, <1>2, <1>4, <2>1, <2>2
  <2>5. QED
    BY <1>3, <2>3, <2>4 DEF BookInv
<1>8. ASSUME NEW r \in Runs, Forget(r), ledger' = ledger, pending' \subseteq pending PROVE BookInv'
  <2>1. \A q \in Runs : left'[q] \subseteq left[q]
    BY <1>0, <1>8 DEF Forget
  <2>2. QED
    BY <1>3, <1>4, <1>8, <2>1 DEF BookInv
<1>9. ASSUME left' = left, ledger' \cup pending' = ledger \cup pending PROVE BookInv'
  BY <1>3, <1>4, <1>9 DEF BookInv
<1>10. QED
  BY <1>5, <1>6, <1>7, <1>8, <1>9
     DEF Next, Progress, Mine, Start, Query, Gather, CommitWithPrice, CommitFees, Committed,
         SetCursor, Finish, Abort, runVars, vars

LedgerInv == TypeOK /\ GotInv /\ JobInv /\ BookInv

\* An empty database.
LEMMA LedgerInit == Init => LedgerInv
<1> SUFFICES ASSUME Init PROVE LedgerInv
  OBVIOUS
<1>1. TypeOK
  BY DEF Init, TypeOK, Stage
<1>2. GotInv /\ JobInv /\ BookInv
  BY DEF Init, GotInv, JobInv, BookInv
<1>3. QED
  BY <1>1, <1>2 DEF LedgerInv

\* All of it is kept.
LEMMA LedgerStep == LedgerInv /\ [Next]_vars => LedgerInv'
  BY TypeStep, GotStep, JobStep, BookStep DEF LedgerInv

\* The ledger, the cursors and the runs' notes hold what the code keeps in them
\* (service/sync.py sync_all, ledger/ingest.py).
THEOREM LedgerTypeCorrect == Spec => []TypeOK
<1>1. LedgerInv => TypeOK
  BY DEF LedgerInv
<1>2. QED
  BY LedgerInit, LedgerStep, <1>1, PTL DEF Spec

\* One leg is one event, however often it is fetched and by how many runs: the
\* key a reader invents does not depend on the answer (_token_transfers_from_raw).
THEOREM NoDoubleCountCorrect == Spec => []NoDoubleCount
<1>1. LedgerInv => NoDoubleCount
  <2> SUFFICES ASSUME LedgerInv, NEW e \in ledger, NEW f \in ledger,
                      e.leg # 0, e.leg = f.leg, e.wallet = f.wallet
               PROVE  e = f
    BY DEF NoDoubleCount
  <2>1. GoodEvent(e) /\ GoodEvent(f)
    BY DEF LedgerInv, BookInv
  <2>2. PICK t \in Transfers, w \in Wallets : e = Booked(t, w)
    BY <2>1 DEF GoodEvent, FeeEvent
  <2>3. PICK u \in Transfers, x \in Wallets : f = Booked(u, x)
    BY <2>1 DEF GoodEvent, FeeEvent
  <2>4. e.leg = t /\ e.wallet = w /\ f.leg = u /\ f.wallet = x
    BY <2>2, <2>3, BookedTyped
  <2>5. QED
    BY <2>2, <2>3, <2>4
<1>2. QED
  BY LedgerInit, LedgerStep, <1>1, PTL DEF Spec

-----------------------------------------------------------------------------
(* Nothing is lost, but for the gaps and the keys two wallets share.        *)

\* A wallet's rows of one family of one transaction are numbered apart.
LEMMA OrdinalsApart ==
  ASSUME NEW w \in Wallets, NEW t \in RowsOf(w), NEW u \in RowsOf(w), t # u,
         Chain[t].tx = Chain[u].tx, Chain[t].family = Chain[u].family
  PROVE  Ordinal(RowsOf(w), t) # Ordinal(RowsOf(w), u)
<1> DEFINE Below(x) ==
      {y \in RowsOf(w) : y < x /\ Chain[y].tx = Chain[x].tx /\ Chain[y].family = Chain[x].family}
<1>1. \A x \in RowsOf(w) : x \in Nat
  BY ChainAssumption DEF RowsOf, Transfers
<1>2. \A x \in RowsOf(w) : IsFiniteSet(Below(x))
  <2>1. TAKE x \in RowsOf(w)
  <2>2. IsFiniteSet(0..x)
    BY <1>1, FS_Interval
  <2>3. Below(x) \subseteq 0..x
    BY <1>1
  <2>4. QED
    BY <2>2, <2>3, FS_Subset
<1>3. ASSUME NEW x \in RowsOf(w), NEW y \in RowsOf(w), x < y,
             Chain[x].tx = Chain[y].tx, Chain[x].family = Chain[y].family
      PROVE  Cardinality(Below(x)) # Cardinality(Below(y))
  <2>1. Below(x) \subseteq Below(y) /\ x \in Below(y) /\ x \notin Below(x)
    BY <1>1, <1>3
  <2>2. QED
    BY <1>2, <1>3, <2>1, FS_Subset
<1>4. t < u \/ u < t
  BY <1>1
<1>5. QED
  BY <1>3, <1>4 DEF Ordinal

\* An event with a leg's key is the leg's own, or a rival's.
LEMMA KeyIsOwnOrRival ==
  ASSUME BookInv, NEW e \in ledger \cup pending,
         NEW t \in Transfers, NEW w \in Wallets, Touches(t, w), Key(e) = Key(Booked(t, w))
  PROVE  (e.leg = t /\ e.wallet = w) \/ \E l \in Rivals[<<t, w>>] : e.leg = l[1] /\ e.wallet = l[2]
<1>1. Booked(t, w).family \in Family /\ Booked(t, w).family = Chain[t].family
  BY BookedTyped, ChainAssumption DEF Transfers
<1>2. GoodEvent(e) /\ e.family = Booked(t, w).family
  BY DEF BookInv, Key
<1>3. PICK u \in Transfers, x \in Wallets : Touches(u, x) /\ e = Booked(u, x)
  BY <1>1, <1>2 DEF GoodEvent, FeeEvent, Family
<1>4. e.leg = u /\ e.wallet = x /\ e.family = Chain[u].family
  BY <1>3, BookedTyped
<1>5. CASE x = w
  <2>1. e.tx = Chain[u].tx /\ Booked(t, w).tx = Chain[t].tx
    BY <1>3 DEF Booked, LegEvent
  <2>2. e.ordinal = Ordinal(RowsOf(w), u) /\ Booked(t, w).ordinal = Ordinal(RowsOf(w), t)
    BY <1>3, <1>5 DEF Booked, LegEvent
  <2>3. /\ Chain[u].tx = Chain[t].tx /\ Chain[u].family = Chain[t].family
        /\ Ordinal(RowsOf(w), u) = Ordinal(RowsOf(w), t)
    BY <1>1, <1>2, <1>4, <2>1, <2>2 DEF Key
  <2>4. u \in RowsOf(w) /\ t \in RowsOf(w)
    BY <1>3, <1>5 DEF RowsOf
  <2>5. u = t
    BY <2>3, <2>4, OrdinalsApart
  <2>6. QED
    BY <1>4, <1>5, <2>5
<1>6. CASE x # w
  <2>1. <<u, x>> \in Rivals[<<t, w>>]
    BY <1>3, <1>6 DEF Rivals
  <2>2. QED
    BY <1>4, <2>1
<1>7. QED
  BY <1>5, <1>6

\* An open transaction belongs to a run that is inserting.
WriterInv ==
  /\ writer = Nobody => pending = {}
  /\ \A r \in Runs : writer = r => stage[r] \in {"transfers", "fees"}

\* With a row an answer holds all rows of its stream between the cursor and that
\* row, but for the legs in a gap.
NoGap(r, w, s) ==
  \A t \in Batch(r, <<w, s>>), u \in RowsOf(w) :
    /\ StreamOf(Chain[u].family) = s
    /\ since[r][<<w, s>>] <= Chain[u].block
    /\ Chain[u].block <= Chain[t].block
    => u \in got[r][w] \/ <<u, w>> \in gaps

AskedInv ==
  \A r \in Runs, w \in Wallets :
    /\ asked[r][w] \in {{}, {"native"}, {"native", "token"}, Family}
    /\ stage[r] \notin {"idle", "fetch"} => asked[r][w] = Family
    /\ {"native", "token"} \subseteq asked[r][w] => NoGap(r, w, "coin")
    /\ "nft" \in asked[r][w] => NoGap(r, w, "nft")

\* What lies below the cursor a run started from is settled.
SinceInv ==
  \A r \in Runs, t \in Transfers, w \in Wallets :
    Touches(t, w) /\ Chain[t].block < since[r][<<w, StreamOf(Chain[t].family)>>] => Settled(t, w)

\* The uncommitted events that are run r's.
Own(r) == IF writer = r THEN pending ELSE {}

\* Does an event of S have the leg's key?
Holds(S, t, w) == \E e \in S : Key(e) = Key(Booked(t, w))

\* A leg of the batch under way is still to be inserted, or its key is in the
\* transaction or the ledger.
WorkInv ==
  \A r \in Runs : \A t \in Batch(r, job[r]) :
    /\ stage[r] = "transfers" =>
         Booked(t, job[r][1]) \in left[r] \/ Holds(Own(r) \cup ledger, t, job[r][1])
    /\ stage[r] \in {"fees", "cursor"} => Holds(ledger, t, job[r][1])

LossInv == LedgerInv /\ WriterInv /\ AskedInv /\ SinceInv /\ WorkInv /\ NothingLost

\* An open transaction has a run.
LEMMA WriterStep == LedgerInv /\ WriterInv /\ [Next]_vars => WriterInv'
<1> SUFFICES ASSUME LedgerInv, WriterInv, [Next]_vars PROVE WriterInv'
  OBVIOUS
<1>0. stage \in [Runs -> Stage] /\ Nobody \notin Runs
  BY LedgerAssumption DEF LedgerInv, TypeOK
<1> USE DEF WriterInv
<1>1. ASSUME NEW r \in Runs, Start(r) PROVE WriterInv'
  BY <1>0, <1>1 DEF Start
<1>2. ASSUME NEW r \in Runs, Gather(r) PROVE WriterInv'
  BY <1>0, <1>2 DEF Gather
<1>3. ASSUME NEW r \in Runs, Pick(r) PROVE WriterInv'
  BY <1>0, <1>3 DEF Pick
<1>4. ASSUME NEW r \in Runs, Insert(r) PROVE WriterInv'
  BY <1>0, <1>4 DEF Insert
<1>5. ASSUME NEW r \in Runs, CommitWithPrice(r) PROVE WriterInv'
  BY <1>0, <1>5 DEF CommitWithPrice
<1>6. ASSUME NEW r \in Runs, CommitTransfers(r) PROVE WriterInv'
  BY <1>0, <1>6 DEF CommitTransfers, Committed
<1>7. ASSUME NEW r \in Runs, CommitFees(r) PROVE WriterInv'
  BY <1>0, <1>7 DEF CommitFees, Committed
<1>8. ASSUME NEW r \in Runs, SetCursor(r) PROVE WriterInv'
  BY <1>0, <1>8 DEF SetCursor
<1>9. ASSUME NEW r \in Runs, Finish(r) PROVE WriterInv'
  BY <1>0, <1>9 DEF Finish, Forget
<1>10. ASSUME NEW r \in Runs, Abort(r) PROVE WriterInv'
  BY <1>0, <1>10 DEF Abort, Forget
<1>11. ASSUME UNCHANGED <<writer, pending, stage>> PROVE WriterInv'
  BY <1>11
<1>12. QED
  BY <1>1, <1>2, <1>3, <1>4, <1>5, <1>6, <1>7, <1>8, <1>9, <1>10, <1>11
     DEF Next, Progress, Mine, Query, runVars, vars

\* Committed events stay, and so do the excuses.
LEMMA LedgerGrows ==
  [Next]_vars => ledger \subseteq ledger' /\ gaps \subseteq gaps' /\ unread \subseteq unread'
  BY DEF Next, Progress, Mine, Start, Query, Gather, Pick, Insert, CommitWithPrice, CommitTransfers,
     CommitFees, Committed, SetCursor, Finish, Abort, runVars, vars, history

\* What is settled stays so.
LEMMA SettledStays ==
  ASSUME [Next]_vars, NEW t \in Transfers, NEW w \in Wallets, Settled(t, w)
  PROVE  Settled(t, w)'
<1>1. \A u, x : Recorded(u, x) => Recorded(u, x)'
  BY LedgerGrows DEF Recorded
<1>2. gaps \subseteq gaps'
  BY LedgerGrows
<1>3. QED
  BY <1>1, <1>2 DEF Settled

\* What a run starts from is vouched for.
LEMMA SinceStep == LedgerInv /\ SinceInv /\ NothingLost /\ [Next]_vars => SinceInv'
<1> SUFFICES ASSUME LedgerInv, SinceInv, NothingLost, [Next]_vars PROVE SinceInv'
  OBVIOUS
<1>0. since \in [Runs -> [Jobs -> Nat]]
  BY DEF LedgerInv, TypeOK
<1>1. \A t \in Transfers, w \in Wallets : Settled(t, w) => Settled(t, w)'
  BY SettledStays
<1>2. ASSUME NEW r \in Runs, Start(r) PROVE SinceInv'
  <2>1. since' = [since EXCEPT ![r] = cursor]
    BY <1>2 DEF Start
  <2>2. QED
    BY <1>0, <1>1, <2>1 DEF SinceInv, NothingLost
<1>3. ASSUME NEW r \in Runs, Forget(r) PROVE SinceInv'
  <2>1. since' = [since EXCEPT ![r] = [j \in Jobs |-> 0]]
    BY <1>3 DEF Forget
  <2>2. \A t \in Transfers, w \in Wallets :
          <<w, StreamOf(Chain[t].family)>> \in Jobs /\ ~(Chain[t].block < 0)
    BY ChainAssumption DEF Jobs, Stream, StreamOf, Transfers
  <2>3. QED
    BY <1>0, <1>1, <2>1, <2>2 DEF SinceInv
<1>4. ASSUME UNCHANGED since PROVE SinceInv'
  BY <1>1, <1>4 DEF SinceInv
<1>5. QED
  BY <1>2, <1>3, <1>4
     DEF Next, Progress, Mine, Query, Gather, Pick, Insert, CommitWithPrice, CommitTransfers,
         CommitFees, SetCursor, Finish, Abort, runVars, vars

\* What a stream's answers lack of the blocks they reach is in a gap.
LEMMA AskedStep == LedgerInv /\ AskedInv /\ [Next]_vars => AskedInv'
<1> SUFFICES ASSUME LedgerInv, AskedInv, [Next]_vars PROVE AskedInv'
  OBVIOUS
<1>0. /\ stage \in [Runs -> Stage] /\ since \in [Runs -> [Jobs -> Nat]] /\ head \in Nat
      /\ asked \in [Runs -> [Wallets -> SUBSET Family]]
      /\ got \in [Runs -> [Wallets -> SUBSET Transfers]]
  BY DEF LedgerInv, TypeOK
<1> DEFINE Part(q, w) ==
      /\ asked[q][w] \in {{}, {"native"}, {"native", "token"}, Family}
      /\ stage[q] \notin {"idle", "fetch"} => asked[q][w] = Family
      /\ {"native", "token"} \subseteq asked[q][w] => NoGap(q, w, "coin")
      /\ "nft" \in asked[q][w] => NoGap(q, w, "nft")
<1>1. \A q \in Runs, w \in Wallets : Part(q, w)
  BY DEF AskedInv
<1>g. gaps \subseteq gaps'
  BY LedgerGrows
<1>2. ASSUME NEW q \in Runs, NEW w \in Wallets,
             asked'[q][w] = asked[q][w], got'[q][w] = got[q][w], since'[q] = since[q],
             stage'[q] = stage[q]
      PROVE  Part(q, w)'
  <2>1. Part(q, w)
    BY <1>1
  <2>2. NoGap(q, w, "coin") => NoGap(q, w, "coin")'
    BY <1>2, <1>g DEF NoGap, Batch, RowsOf
  <2>3. NoGap(q, w, "nft") => NoGap(q, w, "nft")'
    BY <1>2, <1>g DEF NoGap, Batch, RowsOf
  <2> HIDE DEF NoGap
  <2>4. QED
    BY <1>2, <2>1, <2>2, <2>3
<1>3. ASSUME NEW q \in Runs, NEW w \in Wallets, asked'[q][w] = {}, stage'[q] \in {"idle", "fetch"}
      PROVE  Part(q, w)'
  BY <1>3
<1>5. ASSUME NEW r \in Runs, Start(r) \/ Forget(r) PROVE AskedInv'
  <2>1. /\ stage' = [stage EXCEPT ![r] = stage'[r]] /\ stage'[r] \in {"idle", "fetch"}
        /\ since' = [since EXCEPT ![r] = since'[r]]
        /\ asked' = [asked EXCEPT ![r] = [w \in Wallets |-> {}]]
        /\ got' = [got EXCEPT ![r] = [w \in Wallets |-> {}]]
    BY <1>0, <1>5 DEF Start, Forget
  <2>2. \A w \in Wallets : Part(r, w)'
    BY <1>0, <1>3, <2>1
  <2>3. \A q \in Runs \ {r}, w \in Wallets : Part(q, w)'
    BY <1>0, <1>2, <2>1
  <2>4. QED
    BY <2>2, <2>3 DEF AskedInv
<1>6. ASSUME NEW r \in Runs, NEW w \in Wallets, NEW f \in Family, Query(r, w, f) PROVE AskedInv'
  <2>1. /\ stage[r] = "fetch"
        /\ asked' = [asked EXCEPT ![r][w] = @ \cup {f}]
        /\ got' = [got EXCEPT ![r][w] = @ \cup Answer(r, w, f)]
        /\ UNCHANGED <<head, stage, since>>
    BY <1>6 DEF Query
  <2>2. \A q \in Runs, x \in Wallets : q # r \/ x # w => Part(q, x)'
    BY <1>0, <1>2, <2>1
  <2>3. Part(r, w)
    BY <1>1
  <2>4. asked'[r][w] = asked[r][w] \cup {f} /\ got'[r][w] = got[r][w] \cup Answer(r, w, f)
    BY <1>0, <2>1
  <2>5. \A t \in got[r][w] : t \in RowsOf(w) /\ Chain[t].block <= head /\ Chain[t].block \in Nat
    BY ChainAssumption DEF LedgerInv, GotInv, RowsOf, Transfers
  <2>6. \A u \in RowsOf(w) : u \in Answer(r, w, f) <=>
          /\ Chain[u].family = f
          /\ since[r][<<w, StreamOf(f)>>] <= Chain[u].block
          /\ Chain[u].block <= head
    <3>1. since[r][<<w, StreamOf(f)>>] \in Nat
      BY <1>0 DEF Jobs, Stream, StreamOf
    <3>2. \A u \in RowsOf(w) : Chain[u].block \in Nat
      BY ChainAssumption DEF RowsOf, Transfers
    <3>3. QED
      BY <1>0, <3>1, <3>2 DEF Answer, RowsOf, Since
  <2>7. Answer(r, w, f) \subseteq RowsOf(w)
    BY DEF Answer, RowsOf
  <2>8. \A u \in RowsOf(w) : Chain[u].block \in Nat /\ Chain[u].family \in Family
    BY ChainAssumption DEF RowsOf, Transfers
  <2>9. CASE f = "native"
    <3>1. asked[r][w] = {} /\ asked'[r][w] = {"native"}
      BY <1>6, <2>4, <2>9 DEF Query
    <3>2. Part(r, w)'
      BY <2>1, <3>1, <1>0 DEF Stage
    <3>3. QED
      BY <2>2, <3>2 DEF AskedInv
  <2>10. CASE f = "token"
    <3>1. asked[r][w] = {"native"} /\ asked'[r][w] = {"native", "token"}
      BY <1>6, <2>4, <2>10 DEF Query
    <3>2. \A u \in RowsOf(w) : /\ Chain[u].family \in {"native", "token"}
                                /\ since[r][<<w, "coin">>] <= Chain[u].block
                                /\ Chain[u].block <= head
                                => u \in got'[r][w] \/ <<u, w>> \in gaps'
      <4>1. gaps' = gaps \cup (Answer(r, w, "native") \ got[r][w]) \X {w}
        BY <1>6, <2>10 DEF Query
      <4>2. \A u \in RowsOf(w) : u \in Answer(r, w, "native") <=>
              /\ Chain[u].family = "native"
              /\ since[r][<<w, "coin">>] <= Chain[u].block
              /\ Chain[u].block <= head
        <5>1. since[r][<<w, "coin">>] \in Nat
          BY <1>0 DEF Jobs, Stream
        <5>2. QED
          BY <1>0, <2>8, <5>1 DEF Answer, RowsOf, Since, StreamOf
      <4>3. QED
        BY <2>4, <2>6, <2>10, <4>1, <4>2 DEF StreamOf
    <3>3. \A t \in got'[r][w] : Chain[t].block <= head /\ Chain[t].block \in Nat
      BY <2>4, <2>5, <2>6, <2>7, <2>8
    <3>4. \A u \in RowsOf(w) : StreamOf(Chain[u].family) = "coin" => Chain[u].family \in {"native", "token"}
      BY <2>8 DEF StreamOf, Family
    <3>5. NoGap(r, w, "coin")'
      <4> SUFFICES ASSUME NEW t \in got'[r][w], NEW u \in RowsOf(w),
                          StreamOf(Chain[u].family) = "coin",
                          since[r][<<w, "coin">>] <= Chain[u].block,
                          Chain[u].block <= Chain[t].block
                   PROVE  u \in got'[r][w] \/ <<u, w>> \in gaps'
        BY <2>1 DEF NoGap, Batch, RowsOf
      <4>1. Chain[u].block <= head
        BY <1>0, <2>8, <3>3
      <4>2. QED
        BY <3>2, <3>4, <4>1
    <3>6. Part(r, w)'
      BY <2>1, <3>1, <3>5
    <3>7. QED
      BY <2>2, <3>6 DEF AskedInv
  <2>11. CASE f = "nft"
    <3>1. asked[r][w] = {"native", "token"} /\ asked'[r][w] = Family
      BY <1>6, <2>4, <2>11 DEF Query, Family
    <3>2. NoGap(r, w, "coin")'
      <4>1. NoGap(r, w, "coin")
        BY <2>3, <3>1
      <4>2. \A t \in got'[r][w] : StreamOf(Chain[t].family) = "coin" => t \in got[r][w]
        BY <2>4, <2>6, <2>7, <2>11 DEF StreamOf
      <4>3. QED
        BY <1>g, <2>1, <2>4, <4>1, <4>2 DEF NoGap, Batch, RowsOf
    <3>3. NoGap(r, w, "nft")'
      <4> SUFFICES ASSUME NEW t \in got'[r][w], NEW u \in RowsOf(w),
                          StreamOf(Chain[u].family) = "nft",
                          since[r][<<w, "nft">>] <= Chain[u].block,
                          Chain[u].block <= Chain[t].block
                   PROVE  u \in got'[r][w]
        BY <2>1 DEF NoGap, Batch, RowsOf
      <4>1. Chain[u].family = "nft"
        BY DEF StreamOf
      <4>2. Chain[t].block <= head /\ Chain[t].block \in Nat
        BY <2>4, <2>5, <2>6, <2>7, <2>8
      <4>3. Chain[u].block <= head
        BY <1>0, <2>8, <4>2
      <4>4. QED
        BY <2>4, <2>6, <2>11, <4>1, <4>3 DEF StreamOf
    <3>4. Part(r, w)'
      BY <2>1, <3>1, <3>2, <3>3 DEF Family
    <3>5. QED
      BY <2>2, <3>4 DEF AskedInv
  <2>12. QED
    BY <2>9, <2>10, <2>11 DEF Family
<1>7. ASSUME NEW r \in Runs, Gather(r) PROVE AskedInv'
  <2>1. /\ \A w \in Wallets : asked[r][w] = Family
        /\ stage' = [stage EXCEPT ![r] = "pick"]
        /\ UNCHANGED <<head, since, asked, got>>
    BY <1>7 DEF Gather
  <2>2. \A q \in Runs \ {r}, w \in Wallets : Part(q, w)'
    BY <1>0, <1>2, <2>1
  <2>3. \A w \in Wallets : NoGap(r, w, "coin") /\ NoGap(r, w, "nft")
    BY <1>1, <2>1 DEF Family
  <2>4. \A w \in Wallets : NoGap(r, w, "coin")' /\ NoGap(r, w, "nft")'
    BY <1>g, <2>1, <2>3 DEF NoGap, Batch, RowsOf
  <2>5. \A w \in Wallets : Part(r, w)'
    BY <2>1, <2>4
  <2>6. QED
    BY <2>2, <2>5 DEF AskedInv
<1>8. ASSUME NEW r \in Runs, stage[r] \notin {"idle", "fetch"}, stage'[r] \notin {"idle", "fetch"},
             \A q \in Runs \ {r} : stage'[q] = stage[q],
             UNCHANGED <<since, asked, got>>
      PROVE  AskedInv'
  <2>1. \A q \in Runs \ {r}, w \in Wallets : Part(q, w)'
    BY <1>2, <1>8
  <2>2. \A w \in Wallets : Part(r, w)
    BY <1>1
  <2>3. \A w \in Wallets, s \in Stream : NoGap(r, w, s) => NoGap(r, w, s)'
    BY <1>g, <1>8 DEF NoGap, Batch, RowsOf
  <2> HIDE DEF NoGap
  <2>4. \A w \in Wallets : Part(r, w)'
    BY <1>8, <2>2, <2>3 DEF Stream
  <2>5. QED
    BY <2>1, <2>4 DEF AskedInv
<1>9. ASSUME NEW r \in Runs,
             Pick(r) \/ CommitTransfers(r) \/ CommitFees(r) \/ SetCursor(r)
      PROVE  AskedInv'
  BY <1>0, <1>8, <1>9 DEF Pick, CommitTransfers, CommitFees, SetCursor
<1>10. ASSUME UNCHANGED <<stage, since, asked, got>> PROVE AskedInv'
  <2>1. \A q \in Runs, w \in Wallets : Part(q, w)'
    BY <1>2, <1>10
  <2>2. QED
    BY <2>1 DEF AskedInv
<1>11. ASSUME NEW r \in Runs, Finish(r) \/ Abort(r) PROVE AskedInv'
  BY <1>5, <1>11 DEF Finish, Abort
<1>12. QED
  BY <1>5, <1>6, <1>7, <1>9, <1>10, <1>11
     DEF Next, Progress, Mine, Insert, CommitWithPrice, runVars, vars

\* No leg of a batch is dropped on its way, unless its key is there already.
LEMMA WorkStep == LedgerInv /\ WriterInv /\ WorkInv /\ [Next]_vars => WorkInv'
<1> SUFFICES ASSUME LedgerInv, WriterInv, WorkInv, [Next]_vars PROVE WorkInv'
  OBVIOUS
<1>0. /\ stage \in [Runs -> Stage] /\ job \in [Runs -> Jobs \cup {NoJob}] /\ DOMAIN got = Runs
      /\ left \in [Runs -> SUBSET Event] /\ todo \in [Runs -> SUBSET Jobs] /\ Nobody \notin Runs
  BY LedgerAssumption DEF LedgerInv, TypeOK
<1>1. ledger \subseteq ledger'
  BY LedgerGrows
<1> DEFINE Part(q) ==
      \A t \in Batch(q, job[q]) :
        /\ stage[q] = "transfers" =>
             Booked(t, job[q][1]) \in left[q] \/ Holds(Own(q) \cup ledger, t, job[q][1])
        /\ stage[q] \in {"fees", "cursor"} => Holds(ledger, t, job[q][1])
<1>2. \A q \in Runs : Part(q)
  BY DEF WorkInv
<1>3. ASSUME NEW q \in Runs, job'[q] = job[q], stage'[q] = stage[q], got'[q] = got[q],
             left'[q] = left[q], Own(q) \subseteq Own(q)' \cup ledger'
      PROVE  Part(q)'
  <2>1. Batch(q, job[q])' = Batch(q, job[q])
    BY <1>3 DEF Batch
  <2>2. \A t : Booked(t, job[q][1])' = Booked(t, job[q][1])
    BY <1>3 DEF Booked, LegEvent, RowsOf, Ordinal
  <2>3. Own(q) \cup ledger \subseteq Own(q)' \cup ledger'
    BY <1>1, <1>3
  <2>4. \A t : /\ Holds(Own(q) \cup ledger, t, job[q][1]) => Holds(Own(q) \cup ledger, t, job[q][1])'
               /\ Holds(ledger, t, job[q][1]) => Holds(ledger, t, job[q][1])'
    <3> HIDE DEF Own
    <3>1. QED
      BY <1>1, <2>2, <2>3 DEF Holds
  <2> HIDE DEF Own, Holds
  <2>5. QED
    BY <1>2, <1>3, <2>1, <2>2, <2>4
<1>4. ASSUME NEW r \in Runs, stage'[r] \notin {"transfers", "fees", "cursor"},
             \A q \in Runs \ {r} :
               /\ job'[q] = job[q] /\ stage'[q] = stage[q] /\ got'[q] = got[q] /\ left'[q] = left[q]
               /\ Own(q) \subseteq Own(q)' \cup ledger'
      PROVE  WorkInv'
  <2>1. \A q \in Runs \ {r} : Part(q)'
    BY <1>3, <1>4
  <2>2. Part(r)'
    BY <1>4
  <2>3. QED
    BY <2>1, <2>2 DEF WorkInv
<1>5. ASSUME NEW r \in Runs, Start(r) \/ Gather(r) PROVE WorkInv'
  BY <1>0, <1>4, <1>5 DEF Start, Gather, Own
<1>6. ASSUME NEW r \in Runs, NEW w \in Wallets, NEW f \in Family, Query(r, w, f) PROVE WorkInv'
  <2>1. /\ stage[r] = "fetch"
        /\ got' = [got EXCEPT ![r][w] = @ \cup Answer(r, w, f)]
        /\ UNCHANGED <<stage, job, left, writer, pending>>
    BY <1>6 DEF Query
  <2>2. QED
    BY <1>0, <1>4, <2>1 DEF Own
<1>7. ASSUME NEW r \in Runs, Pick(r) PROVE WorkInv'
  <2>1. stage[r] = "pick" /\ UNCHANGED <<got, writer, pending, ledger>>
    BY <1>7 DEF Pick
  <2>2. PICK j \in todo[r] :
          \/ UNCHANGED <<stage, job, left>>
          \/ /\ stage' = [stage EXCEPT ![r] = "transfers"]
             /\ job' = [job EXCEPT ![r] = j]
             /\ left' = [left EXCEPT ![r] = LegEvents(r, j)]
    BY <1>7 DEF Pick
  <2>3. j \in Jobs
    BY <1>0
  <2>4. CASE UNCHANGED <<stage, job, left>>
    BY <1>4, <2>1, <2>4 DEF Own
  <2>5. CASE /\ stage' = [stage EXCEPT ![r] = "transfers"]
             /\ job' = [job EXCEPT ![r] = j]
             /\ left' = [left EXCEPT ![r] = LegEvents(r, j)]
    <3>1. stage'[r] = "transfers" /\ job'[r] = j /\ left'[r] = LegEvents(r, j)
      BY <1>0, <2>5
    <3>2. Batch(r, job[r])' = Batch(r, j)
      BY <2>1, <3>1 DEF Batch
    <3>3. \A t \in Batch(r, j) : Booked(t, j[1]) \in LegEvents(r, j)
      <4>1. ASSUME NEW t \in Batch(r, j) PROVE Booked(t, j[1]) = LegEvent(Batch(r, j), t, j[1])
        BY <2>3, LegEventIsBooked DEF LedgerInv
      <4>2. QED
        BY <4>1 DEF LegEvents
    <3>4. \A t : Booked(t, job[r][1])' = Booked(t, j[1])
      BY <3>1 DEF Booked, LegEvent, RowsOf, Ordinal
    <3>5. Part(r)'
      BY <3>1, <3>2, <3>3, <3>4
    <3>6. \A q \in Runs \ {r} : Part(q)'
      BY <1>0, <1>3, <2>1, <2>5 DEF Own
    <3>7. QED
      BY <3>5, <3>6 DEF WorkInv
  <2>6. QED
    BY <2>2, <2>4, <2>5
<1>8. ASSUME NEW r \in Runs, Insert(r) PROVE WorkInv'
  <2>1. /\ stage[r] \in {"transfers", "fees"} /\ writer \in {Nobody, r} /\ writer' = r
        /\ UNCHANGED <<stage, job, got, ledger>>
    BY <1>8 DEF Insert
  <2>2. PICK e \in left[r] :
          /\ left' = [left EXCEPT ![r] = @ \ {e}]
          /\ pending' = IF \E old \in ledger \cup pending : Key(old) = Key(e)
                        THEN pending ELSE pending \cup {e}
    BY <1>8 DEF Insert
  <2>3. \A q \in Runs \ {r} : Part(q)'
    <3>1. \A q \in Runs \ {r} : Own(q) = {}
      BY <1>0, <2>1 DEF Own
    <3>2. \A q \in Runs \ {r} : left'[q] = left[q]
      BY <1>0, <2>2
    <3>3. QED
      BY <1>3, <2>1, <3>1, <3>2
  <2>4. Own(r)' = pending' /\ Own(r) = pending /\ pending \subseteq pending'
    BY <1>0, <2>1, <2>2 DEF Own, WriterInv
  <2>5. \E old \in pending' \cup ledger : Key(old) = Key(e)
    BY <2>2, <2>4
  <2>6. job[r] \in Jobs /\ Batch(r, job[r])' = Batch(r, job[r]) /\ job[r][1] \in Wallets
    BY <2>1 DEF LedgerInv, JobInv, Batch, Jobs
  <2>7. \A t : Booked(t, job[r][1])' = Booked(t, job[r][1])
    BY <2>1 DEF Booked, LegEvent, RowsOf, Ordinal
  <2>8. left'[r] = left[r] \ {e}
    BY <1>0, <2>2
  <2>9. \A t : /\ Holds(pending \cup ledger, t, job[r][1]) => Holds(pending \cup ledger, t, job[r][1])'
               /\ Holds(ledger, t, job[r][1]) => Holds(ledger, t, job[r][1])'
               /\ Booked(t, job[r][1]) = e => Holds(pending \cup ledger, t, job[r][1])'
    BY <2>1, <2>4, <2>5, <2>7 DEF Holds
  <2>10. Part(r)'
    <3> HIDE DEF Own, Holds
    <3>1. Part(r)
      BY <1>2
    <3>2. \A t : Holds(Own(r) \cup ledger, t, job[r][1])' <=> Holds(pending \cup ledger, t, job[r][1])'
      BY <2>4 DEF Holds
    <3>3. QED
      BY <2>1, <2>4, <2>6, <2>7, <2>8, <2>9, <3>1, <3>2
  <2>11. QED
    BY <2>3, <2>10 DEF WorkInv
<1>9. ASSUME NEW r \in Runs, CommitWithPrice(r) PROVE WorkInv'
  BY <1>0, <1>3, <1>9 DEF CommitWithPrice, runVars, Own, WorkInv
<1>10. ASSUME NEW r \in Runs, CommitTransfers(r) \/ CommitFees(r) PROVE WorkInv'
  <2>1. /\ left[r] = {} /\ stage[r] \in {"transfers", "fees"} /\ UNCHANGED <<job, got>>
        /\ stage' = [stage EXCEPT ![r] = stage'[r]] /\ stage'[r] \in {"fees", "cursor"}
        /\ stage[r] = "transfers" => writer = r
        /\ \A q \in Runs \ {r} : left'[q] = left[q]
    BY <1>0, <1>10 DEF CommitTransfers, CommitFees, Committed
  <2>2. \A q \in Runs : Own(q) \subseteq Own(q)' \cup ledger'
    BY <1>10 DEF CommitTransfers, CommitFees, Committed, Own
  <2>3. \A q \in Runs \ {r} : Part(q)'
    BY <1>0, <1>3, <2>1, <2>2
  <2>4. stage[r] = "transfers" => Own(r) \subseteq ledger'
    BY <1>10, <2>1 DEF CommitTransfers, CommitFees, Committed, Own
  <2>5. \A t : Booked(t, job[r][1])' = Booked(t, job[r][1])
    BY <2>1 DEF Booked, LegEvent, RowsOf, Ordinal
  <2>6. Batch(r, job[r])' = Batch(r, job[r])
    BY <2>1 DEF Batch
  <2>7. \A t \in Batch(r, job[r]) : Holds(ledger, t, job[r][1])'
    <3> HIDE DEF Own
    <3>1. ASSUME NEW t \in Batch(r, job[r]), stage[r] = "transfers" PROVE Holds(ledger, t, job[r][1])'
      <4>1. Holds(Own(r) \cup ledger, t, job[r][1])
        BY <1>2, <2>1, <3>1
      <4>2. Own(r) \cup ledger \subseteq ledger'
        BY <1>1, <2>4, <3>1
      <4>3. QED
        BY <2>5, <4>1, <4>2 DEF Holds
    <3>2. ASSUME NEW t \in Batch(r, job[r]), stage[r] = "fees" PROVE Holds(ledger, t, job[r][1])'
      <4>1. Holds(ledger, t, job[r][1])
        BY <1>2, <3>2
      <4>2. QED
        BY <1>1, <2>5, <4>1 DEF Holds
    <3>3. QED
      BY <2>1, <3>1, <3>2
  <2>8. Part(r)'
    <3> HIDE DEF Own, Holds
    <3>1. QED
      BY <2>1, <2>5, <2>6, <2>7
  <2>9. QED
    BY <2>3, <2>8 DEF WorkInv
<1>11. ASSUME NEW r \in Runs, SetCursor(r) PROVE WorkInv'
  BY <1>0, <1>4, <1>11 DEF SetCursor, Own
<1>12. ASSUME NEW r \in Runs, Finish(r) PROVE WorkInv'
  BY <1>0, <1>4, <1>12 DEF Finish, Forget, Own
<1>13. ASSUME NEW r \in Runs, Abort(r) PROVE WorkInv'
  BY <1>0, <1>4, <1>13 DEF Abort, Forget, Own
<1>14. ASSUME UNCHANGED <<runVars, writer, pending>> PROVE WorkInv'
  BY <1>3, <1>14 DEF runVars, Own, WorkInv
<1>15. QED
  BY <1>5, <1>6, <1>7, <1>8, <1>9, <1>10, <1>11, <1>12, <1>13, <1>14
     DEF Next, Progress, Mine, vars

\* A row of the stream below the cursor a run is about to set lies below the one
\* it started from, or is in its batch or in a gap.
LEMMA BelowCursor ==
  ASSUME LedgerInv, AskedInv, NEW r \in Runs, SetCursor(r)
  PROVE  /\ job[r] \in Jobs /\ NextCursor(r) \in 0..(head + 1)
         /\ \A u \in Transfers :
              /\ Touches(u, job[r][1]) /\ StreamOf(Chain[u].family) = job[r][2]
              /\ Chain[u].block < NextCursor(r)
              => \/ Chain[u].block < since[r][job[r]]
                 \/ u \in Batch(r, job[r])
                 \/ <<u, job[r][1]>> \in gaps
<1> DEFINE w == job[r][1]
           s == job[r][2]
<1>1. stage[r] = "cursor"
  BY DEF SetCursor
<1>2. job[r] \in Jobs /\ Batch(r, job[r]) # {}
  BY <1>1 DEF LedgerInv, JobInv
<1>3. NextCursor(r) \in 0..(head + 1)
  BY <1>2, NextCursorTyped DEF LedgerInv
<1>4. PICK t \in Batch(r, job[r]) : NextCursor(r) = Chain[t].block + 1
  BY <1>2, NextCursorTyped DEF LedgerInv
<1>5. w \in Wallets /\ s \in Stream /\ job[r] = <<w, s>>
  BY <1>2 DEF Jobs
<1>6. NoGap(r, w, s)
  <2>1. asked[r][w] = Family
    BY <1>1, <1>5 DEF AskedInv
  <2>2. NoGap(r, w, "coin") /\ NoGap(r, w, "nft")
    <3>1. {"native", "token"} \subseteq asked[r][w] /\ "nft" \in asked[r][w]
      BY <2>1 DEF Family
    <3>2. QED
      BY <1>5, <3>1 DEF AskedInv
  <2>3. QED
    BY <1>5, <2>2 DEF Stream
<1>7. t \in Transfers /\ Chain[t].block \in Nat
  BY <1>2, BatchTyped, ChainAssumption DEF LedgerInv, RowsOf, Transfers
<1>8. since[r][<<w, s>>] \in Nat
  BY <1>2, <1>5 DEF LedgerInv, TypeOK
<1>9. ASSUME NEW u \in Transfers, Touches(u, w), StreamOf(Chain[u].family) = s,
             Chain[u].block < NextCursor(r)
      PROVE  Chain[u].block < since[r][job[r]] \/ u \in Batch(r, job[r]) \/ <<u, w>> \in gaps
  <2>1. Chain[u].block \in Nat /\ u \in RowsOf(w)
    BY <1>9, ChainAssumption DEF Transfers, RowsOf
  <2>2. Chain[u].block <= Chain[t].block
    BY <1>4, <1>7, <1>9, <2>1
  <2>3. CASE Chain[u].block < since[r][<<w, s>>]
    BY <1>5, <2>3
  <2>4. CASE since[r][<<w, s>>] <= Chain[u].block
    <3>1. u \in got[r][w] \/ <<u, w>> \in gaps
      BY <1>4, <1>5, <1>6, <1>9, <2>1, <2>2, <2>4 DEF NoGap
    <3>2. QED
      BY <1>5, <1>9, <3>1 DEF Batch
  <2>5. QED
    BY <1>8, <2>1, <2>3, <2>4
<1>10. QED
  BY <1>2, <1>3, <1>9

\* When a run sets a cursor, all that lies below it is settled.
LEMMA CursorIsEarned ==
  ASSUME LossInv, NEW r \in Runs, SetCursor(r), NEW u \in Transfers,
         Touches(u, job[r][1]), StreamOf(Chain[u].family) = job[r][2], Chain[u].block < NextCursor(r)
  PROVE  Settled(u, job[r][1])
<1>1. stage[r] = "cursor"
  BY DEF SetCursor
<1>2. job[r] \in Jobs /\ job[r][1] \in Wallets /\ job[r] = <<job[r][1], StreamOf(Chain[u].family)>>
  BY BelowCursor DEF LossInv, Jobs
<1>3. CASE Chain[u].block < since[r][job[r]]
  BY <1>2, <1>3 DEF LossInv, SinceInv
<1>4. CASE u \in Batch(r, job[r])
  <2>1. PICK e \in ledger : Key(e) = Key(Booked(u, job[r][1]))
    BY <1>1, <1>4 DEF LossInv, WorkInv, Holds
  <2>2. QED
    BY <1>2, <2>1, KeyIsOwnOrRival DEF LossInv, LedgerInv, Settled, Recorded
<1>5. CASE <<u, job[r][1]>> \in gaps
  BY <1>5 DEF Settled
<1>6. QED
  BY <1>3, <1>4, <1>5, BelowCursor DEF LossInv

\* The whole invariant, from the empty database on.
LEMMA LossInit == Init => LossInv
<1> SUFFICES ASSUME Init PROVE LossInv
  OBVIOUS
<1>1. WriterInv /\ SinceInv /\ WorkInv
  <2>1. \A t \in Transfers, w \in Wallets :
          <<w, StreamOf(Chain[t].family)>> \in Jobs /\ ~(Chain[t].block < 0)
    BY ChainAssumption DEF Jobs, Stream, StreamOf, Transfers
  <2>2. QED
    BY <2>1, LedgerAssumption DEF Init, WriterInv, SinceInv, WorkInv
<1>2. AskedInv
  BY DEF Init, AskedInv
<1>3. NothingLost
  <2>1. \A t \in Transfers, w \in Wallets :
          <<w, StreamOf(Chain[t].family)>> \in Jobs /\ ~(Chain[t].block < 0)
    BY ChainAssumption DEF Jobs, Stream, StreamOf, Transfers
  <2>2. QED
    BY <2>1 DEF Init, NothingLost
<1>4. QED
  BY <1>1, <1>2, <1>3, LedgerInit DEF LossInv

\* Only SetCursor can pass over a leg, and it does not.
LEMMA LossStep == LossInv /\ [Next]_vars => LossInv'
<1> SUFFICES ASSUME LossInv, [Next]_vars PROVE LossInv'
  OBVIOUS
<1>1. LedgerInv' /\ WriterInv' /\ AskedInv' /\ SinceInv' /\ WorkInv'
  BY LedgerStep, WriterStep, AskedStep, SinceStep, WorkStep DEF LossInv
<1>2. NothingLost'
  <2>1. \A t \in Transfers, w \in Wallets : Settled(t, w) => Settled(t, w)'
    BY SettledStays
  <2>2. cursor \in [Jobs -> Nat] /\ NothingLost
    BY DEF LossInv, LedgerInv, TypeOK
  <2>3. ASSUME NEW r \in Runs, SetCursor(r) PROVE NothingLost'
    <3>1. cursor' = [cursor EXCEPT ![job[r]] = NextCursor(r)]
      BY <2>3 DEF SetCursor
    <3>2. ASSUME NEW t \in Transfers, NEW w \in Wallets, Touches(t, w),
                 Chain[t].block < cursor'[<<w, StreamOf(Chain[t].family)>>]
          PROVE  Settled(t, w)
      <4> DEFINE j == <<w, StreamOf(Chain[t].family)>>
      <4>1. j \in Jobs
        BY DEF Jobs, Stream, StreamOf
      <4>2. CASE j = job[r]
        <5>1. cursor'[j] = NextCursor(r)
          BY <2>2, <3>1, <4>1, <4>2
        <5>2. job[r][1] = w /\ job[r][2] = StreamOf(Chain[t].family)
          BY <4>2
        <5>3. QED
          BY <2>3, <3>2, <5>1, <5>2, CursorIsEarned
      <4>3. CASE j # job[r]
        BY <2>2, <3>1, <3>2, <4>1, <4>3 DEF NothingLost
      <4>4. QED
        BY <4>2, <4>3
    <3>3. QED
      BY <2>1, <3>2 DEF NothingLost
  <2>4. ASSUME UNCHANGED cursor PROVE NothingLost'
    BY <2>1, <2>2, <2>4 DEF NothingLost
  <2>5. QED
    BY <2>3, <2>4
       DEF Next, Progress, Mine, Start, Query, Gather, Pick, Insert, CommitWithPrice,
           CommitTransfers, CommitFees, Finish, Abort, runVars, vars
<1>3. QED
  BY <1>1, <1>2 DEF LossInv

\* Nothing below a cursor is missing from the ledger, with crashes and with runs
\* at work together (_ingest_address, _set_cursor), but for a native leg mined
\* between its stream's two queries and a leg whose key a rival has taken.
THEOREM NothingLostCorrect == Spec => []NothingLost
<1>1. Init => LossInv
  BY LossInit
<1>2. LossInv /\ [Next]_vars => LossInv'
  BY LossStep
<1>3. LossInv => NothingLost
  BY DEF LossInv
<1>4. QED
  BY <1>1, <1>2, <1>3, PTL DEF Spec

\* The empty database is the empty record.
LEMMA MirrorInit == Init => Promise!Init
  BY DEF Init, Promise!Init, Recorded

\* Each step of the sync grows the chain, records or skips mined legs, sets a
\* frontier over settled ones, or is none of the promise's business.
LEMMA MirrorStep == LossInv /\ [Next]_vars => [Promise!Next]_(Promise!mirrorVars)
<1> SUFFICES ASSUME LossInv, [Next]_vars PROVE [Promise!Next]_(Promise!mirrorVars)
  OBVIOUS
<1> DEFINE rec == {l \in Transfers \X Wallets : Recorded(l[1], l[2])}
           legs == {l \in Transfers \X Wallets : Touches(l[1], l[2])}
           height == [l \in Transfers \X Wallets |-> Chain[l[1]].block]
           cell == [l \in Transfers \X Wallets |-> <<l[2], StreamOf(Chain[l[1]].family)>>]
<1>1. CASE Mine
  <2>1. rec' = rec /\ cursor' = cursor /\ head' = head + 1 /\ gaps' = gaps
    BY <1>1 DEF Mine, Recorded, history
  <2>2. Promise!Grow
    BY <2>1 DEF Promise!Grow
  <2>3. QED
    BY <2>2 DEF Promise!Next
<1>2. ASSUME NEW r \in Runs, SetCursor(r) PROVE Promise!Next
  <2>1. /\ UNCHANGED <<ledger, head, gaps>>
        /\ cursor' = [cursor EXCEPT ![job[r]] = NextCursor(r)]
    BY <1>2 DEF SetCursor, history
  <2>2. rec' = rec
    BY <2>1 DEF Recorded
  <2>3. job[r] \in Jobs /\ NextCursor(r) \in 0..(head + 1)
    BY <1>2, BelowCursor DEF LossInv
  <2>4. \A l \in legs : cell[l] = job[r] /\ height[l] < NextCursor(r) => Promise!Settled(l)
    <3>1. ASSUME NEW l \in legs, cell[l] = job[r], height[l] < NextCursor(r) PROVE Promise!Settled(l)
      <4>1. /\ l[1] \in Transfers /\ Touches(l[1], job[r][1]) /\ l[2] = job[r][1]
            /\ StreamOf(Chain[l[1]].family) = job[r][2]
            /\ Chain[l[1]].block < NextCursor(r)
        BY <3>1
      <4>2. Settled(l[1], l[2]) /\ l = <<l[1], l[2]>> /\ l \in Transfers \X Wallets
        BY <1>2, <4>1, CursorIsEarned
      <4>3. \A m \in Rivals[l] : m \in Transfers \X Wallets
        BY <4>2 DEF Rivals
      <4>4. QED
        BY <4>2, <4>3 DEF Settled, Promise!Settled
    <3>2. QED
      BY <3>1
  <2>5. Promise!Vouch
    BY <2>1, <2>2, <2>3, <2>4 DEF Promise!Vouch
  <2>6. QED
    BY <2>5 DEF Promise!Next
<1>3. ASSUME UNCHANGED <<head, cursor, gaps>>, ledger' = ledger \/ ledger' = ledger \cup pending
      PROVE  Promise!Next
  <2>1. rec \subseteq rec'
    BY <1>3 DEF Recorded
  <2>2. ASSUME NEW l \in rec', l \notin rec PROVE l \in legs /\ height[l] <= head
    <3>1. PICK e \in ledger' : e.leg = l[1] /\ e.wallet = l[2]
      BY DEF Recorded
    <3>2. e \in pending
      BY <1>3, <2>2, <3>1 DEF Recorded
    <3>3. l[1] \in Transfers /\ l[1] # 0
      BY ChainAssumption DEF Transfers
    <3>4. PICK t \in Transfers, w \in Wallets :
            Touches(t, w) /\ Chain[t].block <= head /\ e = Booked(t, w)
      BY <3>1, <3>2, <3>3 DEF LossInv, LedgerInv, BookInv, GoodEvent, FeeEvent
    <3>5. t = l[1] /\ w = l[2]
      BY <3>1, <3>4, BookedTyped
    <3>6. QED
      BY <3>4, <3>5
  <2>3. rec' = rec \cup (rec' \ rec) /\ rec' \ rec \in SUBSET {l \in legs : height[l] <= head}
    BY <2>1, <2>2
  <2>4. Promise!Record
    BY <1>3, <2>3 DEF Promise!Record
  <2>5. QED
    BY <2>4 DEF Promise!Next
<1>4. ASSUME NEW r \in Runs, NEW w \in Wallets, NEW f \in Family, Query(r, w, f)
      PROVE  Promise!Next \/ UNCHANGED Promise!mirrorVars
  <2>1. UNCHANGED <<head, ledger, cursor>> /\ rec' = rec
    BY <1>4 DEF Query, Recorded
  <2>2. CASE f = "token"
    <3>1. gaps' = gaps \cup (Answer(r, w, "native") \ got[r][w]) \X {w}
      BY <1>4, <2>2 DEF Query
    <3>2. \A t \in Answer(r, w, "native") :
            t \in Transfers /\ Touches(t, w) /\ Chain[t].family = "native" /\ Chain[t].block <= head
      BY AnswerTyped DEF LossInv, LedgerInv, Answer, Family
    <3>3. (Answer(r, w, "native") \ got[r][w]) \X {w}
            \in SUBSET {l \in legs \cap {k \in Transfers \X Wallets : Chain[k[1]].family = "native"} :
                         height[l] <= head}
      BY <3>2
    <3>4. Promise!Skip
      BY <2>1, <3>1, <3>3 DEF Promise!Skip
    <3>5. QED
      BY <3>4 DEF Promise!Next
  <2>3. CASE f # "token"
    BY <1>4, <2>1, <2>3 DEF Query, Promise!mirrorVars
  <2>4. QED
    BY <2>2, <2>3
<1>5. QED
  BY <1>1, <1>2, <1>3, <1>4
     DEF Next, Progress, Start, Gather, Pick, Insert, CommitWithPrice, CommitTransfers,
         CommitFees, Committed, Finish, Abort, runVars, vars, history

\* The sync does what the mirror promises, step by step.
THEOREM ImplementsMirrorCorrect == Spec => ImplementsMirror
<1>1. Init => LossInv
  BY LossInit
<1>2. LossInv /\ [Next]_vars => LossInv'
  BY LossStep
<1>3. LossInv /\ [Next]_vars => [Promise!Next]_(Promise!mirrorVars)
  BY MirrorStep
<1>4. Init => Promise!Init
  BY MirrorInit
<1>5. QED
  BY <1>1, <1>2, <1>3, <1>4, PTL DEF Spec, ImplementsMirror, Promise!Spec

-----------------------------------------------------------------------------
(* Every fee is booked whose receipt came and whose leg was in no gap.  Keys *)
(* shared by legs do not matter here: a fee's key names its transaction, and *)
(* one wallet sent that.                                                     *)

\* Did wallet w pay for the transaction by which t left it?  Is that booked, or
\* known to be missing?
Owes(t, w) == Chain[t].from = w /\ Sender[Chain[t].tx] = w
Paid(t, w) ==
  \/ \E e \in ledger : e.kind = "gas_fee" /\ e.tx = Chain[t].tx /\ e.wallet = w
  \/ FeeEvent(Chain[t].tx, w) \in unread
  \/ <<t, w>> \in gaps

\* The fees below the cursor a run started from are booked, or excused.
FeeSinceInv ==
  \A r \in Runs, t \in Transfers, w \in Wallets :
    Owes(t, w) /\ Chain[t].block < since[r][<<w, StreamOf(Chain[t].family)>>] => Paid(t, w)

\* A fee of the batch under way is still to be inserted, inserted, or committed,
\* or its receipt did not come.
FeeWorkInv ==
  \A r \in Runs : \A e \in FeeEvents(r, job[r]) :
    /\ stage[r] = "fees" => e \in left[r] \cup Own(r) \cup ledger \cup unread
    /\ stage[r] = "cursor" => e \in ledger \cup unread

FeeLossInv == LedgerInv /\ WriterInv /\ AskedInv /\ FeeSinceInv /\ FeeWorkInv /\ FeesComplete

\* What a run starts from has its fees.
LEMMA FeeSinceStep == LedgerInv /\ FeeSinceInv /\ FeesComplete /\ [Next]_vars => FeeSinceInv'
<1> SUFFICES ASSUME LedgerInv, FeeSinceInv, FeesComplete, [Next]_vars PROVE FeeSinceInv'
  OBVIOUS
<1>0. since \in [Runs -> [Jobs -> Nat]]
  BY DEF LedgerInv, TypeOK
<1>1. \A t \in Transfers, w \in Wallets : Paid(t, w) => Paid(t, w)'
  <2>1. ledger \subseteq ledger' /\ gaps \subseteq gaps' /\ unread \subseteq unread'
    BY LedgerGrows
  <2>2. QED
    BY <2>1 DEF Paid, FeeEvent
<1>2. ASSUME NEW r \in Runs, Start(r) PROVE FeeSinceInv'
  <2>1. since' = [since EXCEPT ![r] = cursor]
    BY <1>2 DEF Start
  <2>2. \A t \in Transfers, w \in Wallets :
          Owes(t, w) /\ Chain[t].block < cursor[<<w, StreamOf(Chain[t].family)>>] => Paid(t, w)
    BY DEF FeesComplete, Owes, Paid
  <2>3. QED
    BY <1>0, <1>1, <2>1, <2>2 DEF FeeSinceInv, Owes
<1>3. ASSUME NEW r \in Runs, Forget(r) PROVE FeeSinceInv'
  <2>1. since' = [since EXCEPT ![r] = [j \in Jobs |-> 0]]
    BY <1>3 DEF Forget
  <2>2. \A t \in Transfers, w \in Wallets :
          <<w, StreamOf(Chain[t].family)>> \in Jobs /\ ~(Chain[t].block < 0)
    BY ChainAssumption DEF Jobs, Stream, StreamOf, Transfers
  <2>3. QED
    BY <1>0, <1>1, <2>1, <2>2 DEF FeeSinceInv, Owes
<1>4. ASSUME UNCHANGED since PROVE FeeSinceInv'
  BY <1>1, <1>4 DEF FeeSinceInv, Owes
<1>5. QED
  BY <1>2, <1>3, <1>4
     DEF Next, Progress, Mine, Query, Gather, Pick, Insert, CommitWithPrice, CommitTransfers,
         CommitFees, SetCursor, Finish, Abort, runVars, vars

\* No fee of a batch is dropped on its way, its receipt apart.
LEMMA FeeWorkStep == LedgerInv /\ WriterInv /\ FeeWorkInv /\ [Next]_vars => FeeWorkInv'
<1> SUFFICES ASSUME LedgerInv, WriterInv, FeeWorkInv, [Next]_vars PROVE FeeWorkInv'
  OBVIOUS
<1>0. /\ stage \in [Runs -> Stage] /\ job \in [Runs -> Jobs \cup {NoJob}] /\ DOMAIN got = Runs
      /\ left \in [Runs -> SUBSET Event] /\ todo \in [Runs -> SUBSET Jobs] /\ Nobody \notin Runs
  BY LedgerAssumption DEF LedgerInv, TypeOK
<1>1. ledger \subseteq ledger' /\ unread \subseteq unread'
  BY LedgerGrows
<1> DEFINE Part(q) ==
      \A e \in FeeEvents(q, job[q]) :
        /\ stage[q] = "fees" => e \in left[q] \cup Own(q) \cup ledger \cup unread
        /\ stage[q] = "cursor" => e \in ledger \cup unread
<1>2. \A q \in Runs : Part(q)
  BY DEF FeeWorkInv
<1>3. ASSUME NEW q \in Runs, job'[q] = job[q], stage'[q] = stage[q], got'[q] = got[q],
             left'[q] = left[q], Own(q) \subseteq Own(q)' \cup ledger'
      PROVE  Part(q)'
  <2>1. FeeEvents(q, job[q])' = FeeEvents(q, job[q])
    BY <1>3 DEF FeeEvents, Batch
  <2> HIDE DEF Own
  <2>2. QED
    BY <1>1, <1>2, <1>3, <2>1
<1>4. ASSUME NEW r \in Runs, stage'[r] \notin {"fees", "cursor"},
             \A q \in Runs \ {r} :
               /\ job'[q] = job[q] /\ stage'[q] = stage[q] /\ got'[q] = got[q] /\ left'[q] = left[q]
               /\ Own(q) \subseteq Own(q)' \cup ledger'
      PROVE  FeeWorkInv'
  <2>1. \A q \in Runs \ {r} : Part(q)'
    BY <1>3, <1>4
  <2>2. Part(r)'
    BY <1>4
  <2>3. QED
    BY <2>1, <2>2 DEF FeeWorkInv
<1>5. ASSUME NEW r \in Runs, Start(r) \/ Gather(r) PROVE FeeWorkInv'
  BY <1>0, <1>4, <1>5 DEF Start, Gather, Own
<1>6. ASSUME NEW r \in Runs, NEW w \in Wallets, NEW f \in Family, Query(r, w, f) PROVE FeeWorkInv'
  <2>1. /\ stage[r] = "fetch"
        /\ got' = [got EXCEPT ![r][w] = @ \cup Answer(r, w, f)]
        /\ UNCHANGED <<stage, job, left, writer, pending>>
    BY <1>6 DEF Query
  <2>2. QED
    BY <1>0, <1>4, <2>1 DEF Own
<1>7. ASSUME NEW r \in Runs, Pick(r) PROVE FeeWorkInv'
  <2>1. stage[r] = "pick" /\ UNCHANGED <<got, writer, pending, ledger>>
    BY <1>7 DEF Pick
  <2>2. PICK j \in todo[r] :
          \/ UNCHANGED <<stage, job, left>>
          \/ /\ stage' = [stage EXCEPT ![r] = "transfers"]
             /\ job' = [job EXCEPT ![r] = j]
             /\ left' = [left EXCEPT ![r] = LegEvents(r, j)]
    BY <1>7 DEF Pick
  <2>3. QED
    BY <1>0, <1>4, <2>1, <2>2 DEF Own
<1>8. ASSUME NEW r \in Runs, Insert(r) PROVE FeeWorkInv'
  <2>1. /\ stage[r] \in {"transfers", "fees"} /\ writer \in {Nobody, r} /\ writer' = r
        /\ UNCHANGED <<stage, job, got, ledger, unread>>
    BY <1>8 DEF Insert, history
  <2>2. PICK e \in left[r] :
          /\ left' = [left EXCEPT ![r] = @ \ {e}]
          /\ pending' = IF \E old \in ledger \cup pending : Key(old) = Key(e)
                        THEN pending ELSE pending \cup {e}
    BY <1>8 DEF Insert
  <2>3. \A q \in Runs \ {r} : Part(q)'
    <3>1. \A q \in Runs \ {r} : Own(q) = {}
      BY <1>0, <2>1 DEF Own
    <3>2. \A q \in Runs \ {r} : left'[q] = left[q]
      BY <1>0, <2>2
    <3>3. QED
      BY <1>3, <2>1, <3>1, <3>2
  <2>4. Own(r)' = pending' /\ Own(r) = pending /\ pending \subseteq pending'
    BY <1>0, <2>1, <2>2 DEF Own, WriterInv
  <2>5. ASSUME e \in FeeEvents(r, job[r]) PROVE e \in pending' \cup ledger
    <3>0. job[r] \in Jobs /\ Batch(r, job[r]) \subseteq Transfers
      BY <2>1, BatchTyped DEF LedgerInv, JobInv, RowsOf
    <3>1. PICK t \in Transfers : e = FeeEvent(Chain[t].tx, Sender[Chain[t].tx])
      BY <2>5, <3>0 DEF FeeEvents
    <3>2. ASSUME NEW old \in ledger \cup pending, Key(old) = Key(e) PROVE old = e
      <4>1. GoodEvent(old)
        BY DEF LedgerInv, BookInv
      <4>2. old.tx = Chain[t].tx /\ old.family = "fee"
        BY <3>1, <3>2 DEF Key, FeeEvent
      <4>3. \A u \in Transfers, x \in Wallets : old # Booked(u, x)
        <5>1. \A u \in Transfers, x \in Wallets : Booked(u, x).family # "fee"
          BY BookedTyped, ChainAssumption DEF Transfers, Family
        <5>2. QED
          BY <4>2, <5>1
      <4>4. PICK u \in Transfers : old = FeeEvent(Chain[u].tx, Sender[Chain[u].tx])
        BY <4>1, <4>3 DEF GoodEvent
      <4>5. Chain[u].tx = Chain[t].tx
        BY <4>2, <4>4 DEF FeeEvent
      <4>6. QED
        BY <3>1, <4>4, <4>5
    <3>3. CASE \E old \in ledger \cup pending : Key(old) = Key(e)
      BY <2>4, <3>2, <3>3
    <3>4. CASE ~ \E old \in ledger \cup pending : Key(old) = Key(e)
      BY <2>2, <3>4
    <3>5. QED
      BY <3>3, <3>4
  <2>6. FeeEvents(r, job[r])' = FeeEvents(r, job[r])
    BY <2>1 DEF FeeEvents, Batch
  <2>7. ASSUME NEW f \in FeeEvents(r, job[r]), stage[r] = "fees"
        PROVE  f \in left'[r] \cup pending' \cup ledger \cup unread
    <3>1. f \in left[r] \cup pending \cup ledger \cup unread
      BY <1>2, <2>4, <2>7
    <3>2. left'[r] = left[r] \ {e}
      BY <1>0, <2>2
    <3>3. CASE f = e
      BY <2>5, <3>3
    <3>4. CASE f # e
      BY <2>4, <3>1, <3>2, <3>4
    <3>5. QED
      BY <3>3, <3>4
  <2> HIDE DEF Own
  <2>8. Part(r)'
    BY <2>1, <2>4, <2>6, <2>7
  <2>9. QED
    BY <2>3, <2>8 DEF FeeWorkInv
<1>9. ASSUME NEW r \in Runs, CommitWithPrice(r) PROVE FeeWorkInv'
  BY <1>0, <1>3, <1>9 DEF CommitWithPrice, runVars, Own, FeeWorkInv
<1>10. ASSUME NEW r \in Runs, CommitTransfers(r) PROVE FeeWorkInv'
  <2>1. /\ stage'[r] = "fees" /\ UNCHANGED <<job, got>>
        /\ \A q \in Runs \ {r} : stage'[q] = stage[q] /\ left'[q] = left[q]
        /\ FeeEvents(r, job[r]) \subseteq left'[r] \cup unread'
    BY <1>0, <1>10 DEF CommitTransfers
  <2>2. \A q \in Runs : Own(q) \subseteq Own(q)' \cup ledger'
    BY <1>10 DEF CommitTransfers, Committed, Own
  <2>3. \A q \in Runs \ {r} : Part(q)'
    BY <1>3, <2>1, <2>2
  <2>4. FeeEvents(r, job[r])' = FeeEvents(r, job[r])
    BY <2>1 DEF FeeEvents, Batch
  <2>5. Part(r)'
    BY <2>1, <2>4
  <2>6. QED
    BY <2>3, <2>5 DEF FeeWorkInv
<1>11. ASSUME NEW r \in Runs, CommitFees(r) PROVE FeeWorkInv'
  <2>1. /\ left[r] = {} /\ stage[r] = "fees" /\ UNCHANGED <<job, got, left>>
        /\ stage' = [stage EXCEPT ![r] = "cursor"]
        /\ Own(r) \subseteq ledger'
        /\ \A q \in Runs : Own(q) \subseteq Own(q)' \cup ledger'
    BY <1>11 DEF CommitFees, Committed, Own
  <2>2. \A q \in Runs \ {r} : Part(q)'
    BY <1>0, <1>3, <2>1
  <2>3. FeeEvents(r, job[r])' = FeeEvents(r, job[r])
    BY <2>1 DEF FeeEvents, Batch
  <2>4. \A e \in FeeEvents(r, job[r]) : e \in ledger' \cup unread'
    <3> HIDE DEF Own
    <3>1. QED
      BY <1>1, <1>2, <2>1
  <2>5. Part(r)'
    BY <1>0, <2>1, <2>3, <2>4
  <2>6. QED
    BY <2>2, <2>5 DEF FeeWorkInv
<1>12. ASSUME NEW r \in Runs, SetCursor(r) PROVE FeeWorkInv'
  BY <1>0, <1>4, <1>12 DEF SetCursor, Own
<1>13. ASSUME NEW r \in Runs, Finish(r) PROVE FeeWorkInv'
  BY <1>0, <1>4, <1>13 DEF Finish, Forget, Own
<1>14. ASSUME NEW r \in Runs, Abort(r) PROVE FeeWorkInv'
  BY <1>0, <1>4, <1>14 DEF Abort, Forget, Own
<1>15. ASSUME UNCHANGED <<runVars, writer, pending>> PROVE FeeWorkInv'
  BY <1>3, <1>15 DEF runVars, Own, FeeWorkInv
<1>16. QED
  BY <1>5, <1>6, <1>7, <1>8, <1>9, <1>10, <1>11, <1>12, <1>13, <1>14, <1>15
     DEF Next, Progress, Mine, vars

\* When a run sets a cursor, every fee below it is booked, or excused.
LEMMA FeesAreEarned ==
  ASSUME FeeLossInv, NEW r \in Runs, SetCursor(r), NEW u \in Transfers,
         Owes(u, job[r][1]), StreamOf(Chain[u].family) = job[r][2], Chain[u].block < NextCursor(r)
  PROVE  Paid(u, job[r][1])
<1>1. stage[r] = "cursor"
  BY DEF SetCursor
<1>2. job[r] \in Jobs /\ job[r][1] \in Wallets /\ job[r] = <<job[r][1], StreamOf(Chain[u].family)>>
  BY BelowCursor DEF FeeLossInv, Jobs
<1>3. CASE Chain[u].block < since[r][job[r]]
  BY <1>2, <1>3 DEF FeeLossInv, FeeSinceInv
<1>4. CASE u \in Batch(r, job[r])
  <2>1. FeeEvent(Chain[u].tx, job[r][1]) \in FeeEvents(r, job[r])
    BY <1>4 DEF FeeEvents, Owes
  <2>2. FeeEvent(Chain[u].tx, job[r][1]) \in ledger \cup unread
    BY <1>1, <2>1 DEF FeeLossInv, FeeWorkInv
  <2>3. QED
    BY <2>2 DEF Paid, FeeEvent
<1>5. Touches(u, job[r][1])
  BY DEF Touches, Owes
<1>6. CASE <<u, job[r][1]>> \in gaps
  BY <1>6 DEF Paid
<1>7. QED
  BY <1>3, <1>4, <1>5, <1>6, BelowCursor DEF FeeLossInv

\* The invariant of the fees holds of the empty database, and is kept.
LEMMA FeeLossInit == Init => FeeLossInv
<1> SUFFICES ASSUME Init PROVE FeeLossInv
  OBVIOUS
<1>1. \A t \in Transfers, w \in Wallets :
        <<w, StreamOf(Chain[t].family)>> \in Jobs /\ ~(Chain[t].block < 0)
  BY ChainAssumption DEF Jobs, Stream, StreamOf, Transfers
<1>2. WriterInv /\ FeeSinceInv /\ FeesComplete
  <2>1. WriterInv
    BY LedgerAssumption DEF Init, WriterInv
  <2>2. FeeSinceInv
    BY <1>1 DEF Init, FeeSinceInv
  <2>3. FeesComplete
    BY <1>1 DEF Init, FeesComplete
  <2>4. QED
    BY <2>1, <2>2, <2>3
<1>3. AskedInv
  BY DEF Init, AskedInv
<1>4. FeeWorkInv
  BY DEF Init, FeeWorkInv
<1>5. QED
  BY <1>2, <1>3, <1>4, LedgerInit DEF FeeLossInv

\* Only SetCursor can pass over a fee, and it does not.
LEMMA FeeLossStep == FeeLossInv /\ [Next]_vars => FeeLossInv'
<1> SUFFICES ASSUME FeeLossInv, [Next]_vars PROVE FeeLossInv'
  OBVIOUS
<1>1. LedgerInv' /\ WriterInv' /\ AskedInv' /\ FeeSinceInv' /\ FeeWorkInv'
  BY LedgerStep, WriterStep, AskedStep, FeeSinceStep, FeeWorkStep DEF FeeLossInv
<1>2. FeesComplete'
  <2>1. \A t \in Transfers, w \in Wallets : Paid(t, w) => Paid(t, w)'
    <3>1. ledger \subseteq ledger' /\ gaps \subseteq gaps' /\ unread \subseteq unread'
      BY LedgerGrows
    <3>2. QED
      BY <3>1 DEF Paid, FeeEvent
  <2>2. cursor \in [Jobs -> Nat]
    BY DEF FeeLossInv, LedgerInv, TypeOK
  <2>3. \A t \in Transfers, w \in Wallets :
          Owes(t, w) /\ Chain[t].block < cursor[<<w, StreamOf(Chain[t].family)>>] => Paid(t, w)
    BY DEF FeeLossInv, FeesComplete, Owes, Paid
  <2>4. ASSUME NEW r \in Runs, SetCursor(r) PROVE FeesComplete'
    <3>1. cursor' = [cursor EXCEPT ![job[r]] = NextCursor(r)]
      BY <2>4 DEF SetCursor
    <3>2. ASSUME NEW t \in Transfers, NEW w \in Wallets, Owes(t, w),
                 Chain[t].block < cursor'[<<w, StreamOf(Chain[t].family)>>]
          PROVE  Paid(t, w)
      <4> DEFINE j == <<w, StreamOf(Chain[t].family)>>
      <4>1. j \in Jobs
        BY DEF Jobs, Stream, StreamOf
      <4>2. CASE j = job[r]
        <5>1. cursor'[j] = NextCursor(r)
          BY <2>2, <3>1, <4>1, <4>2
        <5>2. job[r][1] = w /\ job[r][2] = StreamOf(Chain[t].family)
          BY <4>2
        <5>3. QED
          BY <2>4, <3>2, <5>1, <5>2, FeesAreEarned
      <4>3. CASE j # job[r]
        BY <2>2, <2>3, <3>1, <3>2, <4>1, <4>3
      <4>4. QED
        BY <4>2, <4>3
    <3>3. QED
      BY <2>1, <3>2 DEF FeesComplete, Owes, Paid
  <2>5. ASSUME UNCHANGED cursor PROVE FeesComplete'
    BY <2>1, <2>3, <2>5 DEF FeesComplete, Owes, Paid
  <2>6. QED
    BY <2>4, <2>5
       DEF Next, Progress, Mine, Start, Query, Gather, Pick, Insert, CommitWithPrice,
           CommitTransfers, CommitFees, Finish, Abort, runVars, vars
<1>3. QED
  BY <1>1, <1>2 DEF FeeLossInv

\* Below a cursor every transaction the wallet sent has its gas fee booked
\* (ingest_fees comes before _set_cursor), but for a receipt that did not come
\* and a leg in the gap of its stream's queries.
THEOREM FeesCompleteCorrect == Spec => []FeesComplete
<1>1. Init => FeeLossInv
  BY FeeLossInit
<1>2. FeeLossInv /\ [Next]_vars => FeeLossInv'
  BY FeeLossStep
<1>3. FeeLossInv => FeesComplete
  BY DEF FeeLossInv
<1>4. QED
  BY <1>1, <1>2, <1>3, PTL DEF Spec
=============================================================================
