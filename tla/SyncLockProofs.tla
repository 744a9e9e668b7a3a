--------------------------- MODULE SyncLockProofs ---------------------------
(***************************************************************************)
(* Theorems about SyncLock, for any set of runs and any staleness bound.   *)
(*                                                                         *)
(* Types, and how the row changes hands, hold whatever the scheduling is.  *)
(* Mutual exclusion holds while heartbeats are timely; its inductive       *)
(* invariant is that a working run owns a row no clock reading of a rival  *)
(* can call stale; from it every step is one of the abstract lease.        *)
(***************************************************************************)
EXTENDS SyncLock, TLAPS

\* The variables keep their types under every step of the lock.
LEMMA TypeStep == TypeOK /\ [Next]_vars => TypeOK'
<1> SUFFICES ASSUME TypeOK, [Next]_vars PROVE TypeOK'
  OBVIOUS
<1> USE DEF TypeOK, Row, Phase
<1>1. CASE Tick
  BY <1>1 DEF Tick
<1>2. ASSUME NEW r \in Runs, StartClaim(r) PROVE TypeOK'
  BY <1>2 DEF StartClaim
<1>3. ASSUME NEW r \in Runs, Claim(r) PROVE TypeOK'
  BY <1>3 DEF Claim, HeldBy
<1>4. ASSUME NEW r \in Runs, Refuse(r) PROVE TypeOK'
  BY <1>4 DEF Refuse
<1>5. ASSUME NEW r \in Runs, ClaimTimeout(r) PROVE TypeOK'
  BY <1>5 DEF ClaimTimeout
<1>6. ASSUME NEW r \in Runs, Retry(r) PROVE TypeOK'
  BY <1>6 DEF Retry
<1>7. ASSUME NEW r \in Runs, BeginWrite(r) PROVE TypeOK'
  BY <1>7 DEF BeginWrite
<1>8. ASSUME NEW r \in Runs, EndWrite(r) PROVE TypeOK'
  BY <1>8 DEF EndWrite
<1>9. ASSUME NEW r \in Runs, Finish(r) PROVE TypeOK'
  BY <1>9 DEF Finish
<1>10. ASSUME NEW r \in Runs, Release(r) PROVE TypeOK'
  BY <1>10 DEF Release, Released, Free
<1>11. ASSUME NEW r \in Runs, ReleaseTimeout(r) PROVE TypeOK'
  BY <1>11 DEF ReleaseTimeout
<1>12. ASSUME NEW r \in Runs, Beat(r) PROVE TypeOK'
  <2>1. row' \in Row
    BY <1>12 DEF Beat, Beaten, HeldBy
  <2>2. beating' \in [Runs -> BOOLEAN]
    <3>1. (Owns(r) /\ phase[r] = "working") \in BOOLEAN
      BY DEF Owns, Held
    <3>2. beating' = [beating EXCEPT ![r] = Owns(r) /\ phase[r] = "working"]
      BY <1>12, Zenon DEF Beat
    <3>3. beating \in [Runs -> BOOLEAN]
      OBVIOUS
    <3> HIDE DEF TypeOK
    <3>4. QED
      BY <3>1, <3>2, <3>3, Zenon
  <2>3. QED
    BY <1>12, <2>1, <2>2 DEF Beat
<1>13. ASSUME NEW r \in Runs, Crash(r) PROVE TypeOK'
  BY <1>13 DEF Crash
<1>14. CASE UNCHANGED vars
  BY <1>14 DEF vars
<1>15. QED
  BY <1>1, <1>2, <1>3, <1>4, <1>5, <1>6, <1>7, <1>8, <1>9, <1>10, <1>11, <1>12, <1>13, <1>14
     DEF Next, RunStep

\* The initial states are well typed.
LEMMA TypeInit == Init => TypeOK
  BY DEF Init, TypeOK, Row, Phase, Free, Unreadable

\* Types hold in every behaviour of the lock.
THEOREM TypeCorrect == Spec => []TypeOK
  BY TypeInit, TypeStep, PTL DEF Spec

-----------------------------------------------------------------------------

\* No timestamp is ahead of the clock that wrote it.
ClockInv ==
  /\ \A r \in Runs : stamp[r] <= now
  /\ Held => row.beat <= now

\* The clock and its readings, under every step.
LEMMA ClockStep == TypeOK /\ ClockInv /\ [Next]_vars => ClockInv'
<1> SUFFICES ASSUME TypeOK, ClockInv, [Next]_vars PROVE ClockInv'
  OBVIOUS
<1> USE DEF TypeOK, Row, ClockInv, Held
<1>1. CASE Tick
  BY <1>1 DEF Tick
<1>2. ASSUME NEW r \in Runs, StartClaim(r) PROVE ClockInv'
  BY <1>2 DEF StartClaim
<1>3. ASSUME NEW r \in Runs, Claim(r) PROVE ClockInv'
  BY <1>3 DEF Claim, HeldBy
<1>4. ASSUME NEW r \in Runs, Release(r) PROVE ClockInv'
  BY <1>4 DEF Release, Released, Free
<1>5. ASSUME NEW r \in Runs, Beat(r) PROVE ClockInv'
  BY <1>5 DEF Beat, Beaten, HeldBy
<1>6. ASSUME UNCHANGED <<now, row, stamp>> PROVE ClockInv'
  BY <1>6
<1>7. QED
  BY <1>1, <1>2, <1>3, <1>4, <1>5, <1>6
     DEF Next, RunStep, vars, Refuse, ClaimTimeout, Retry, BeginWrite, EndWrite,
         Finish, ReleaseTimeout, Crash

\* In every behaviour, typed timestamps that are not ahead of the clock.
LEMMA ClockCorrect == Spec => [](TypeOK /\ ClockInv)
<1>1. Init => ClockInv
  BY DEF Init, ClockInv, Held, Free, Unreadable
<1>2. QED
  BY <1>1, TypeInit, TypeStep, ClockStep, PTL DEF Spec

\* A held row moves by its holder's heartbeat or release, or by a takeover of a
\* stale one, and its timestamp never runs backwards.
THEOREM RowChangesHandsCorrect == Spec => RowChangesHands
<1>1. TypeOK /\ ClockInv /\ [Next]_vars => [HeldRowStep]_vars
  <2> SUFFICES ASSUME TypeOK, ClockInv, [Next]_vars, Held, row' # row
               PROVE  \/ row'.kind = "held" /\ row'.run = row.run /\ row'.beat >= row.beat
                      \/ row' = Free /\ phase[row.run] = "releasing"
                      \/ row'.kind = "held" /\ StaleAt(now) /\ row'.beat > row.beat
    BY DEF HeldRowStep
  <2> USE DEF TypeOK, Row, ClockInv, Held, Owns
  <2>1. ASSUME NEW r \in Runs, Claim(r)
        PROVE  row'.kind = "held" /\ StaleAt(now) /\ row'.beat > row.beat
    BY <2>1, LockAssumption DEF Claim, Claimable, HeldBy, StaleAt
  <2>2. ASSUME NEW r \in Runs, Release(r)
        PROVE  row' = Free /\ phase[row.run] = "releasing"
    BY <2>2 DEF Release, Released
  <2>3. ASSUME NEW r \in Runs, Beat(r)
        PROVE  row'.kind = "held" /\ row'.run = row.run /\ row'.beat >= row.beat
    BY <2>3 DEF Beat, Beaten, HeldBy
  <2>4. QED
    BY <2>1, <2>2, <2>3
       DEF Next, RunStep, vars, Tick, StartClaim, Refuse, ClaimTimeout, Retry,
           BeginWrite, EndWrite, Finish, ReleaseTimeout, Crash
<1>2. QED
  BY <1>1, ClockCorrect, PTL DEF Spec, RowChangesHands

\* A run that lost the row to a takeover never owns it again.
THEOREM LostForGoodCorrect == Spec => LostForGood
<1>1. TypeOK /\ [Next]_vars => [OnceLostStep]_vars
  <2> SUFFICES ASSUME TypeOK, [Next]_vars, NEW r \in Runs,
                      phase[r] \in {"working", "releasing", "done", "dead"},
                      ~Owns(r)
               PROVE  ~Owns(r)'
    BY DEF OnceLostStep
  <2> USE DEF TypeOK, Owns, Held
  <2>1. ASSUME NEW q \in Runs, Claim(q) PROVE ~Owns(r)'
    BY <2>1 DEF Claim, HeldBy
  <2>2. ASSUME NEW q \in Runs, Release(q) PROVE ~Owns(r)'
    BY <2>2 DEF Release, Released, Free
  <2>3. ASSUME NEW q \in Runs, Beat(q) PROVE ~Owns(r)'
    BY <2>3 DEF Beat, Beaten, HeldBy
  <2>4. ASSUME UNCHANGED row PROVE ~Owns(r)'
    BY <2>4
  <2>5. QED
    BY <2>1, <2>2, <2>3, <2>4
       DEF Next, RunStep, vars, Tick, StartClaim, Refuse, ClaimTimeout, Retry,
           BeginWrite, EndWrite, Finish, ReleaseTimeout, Crash
<1>2. QED
  BY <1>1, TypeCorrect, PTL DEF Spec, LostForGood

-----------------------------------------------------------------------------

\* The inductive invariant of mutual exclusion: a working run owns the row, and
\* (Timely) the row is fresh for every clock reading a rival can hold.
LockInv ==
  /\ TypeOK
  /\ ClockInv
  /\ \A r \in Runs : phase[r] = "working" => Owns(r)
  /\ Timely

\* It holds initially and is kept by every timely step.
LEMMA LockInvCorrect == TimelySpec => []LockInv
<1>1. Init => LockInv
  <2>1. Init => ClockInv /\ Timely
    BY DEF Init, ClockInv, Held, Free, Unreadable, Timely
  <2>2. QED
    BY <2>1, TypeInit DEF Init, LockInv
<1>2. LockInv /\ [Next /\ Timely']_vars => LockInv'
  <2> SUFFICES ASSUME LockInv, [Next /\ Timely']_vars PROVE LockInv'
    OBVIOUS
  <2>1. TypeOK' /\ ClockInv'
    BY TypeStep, ClockStep DEF LockInv
  <2>2. Timely'
    BY DEF LockInv, Timely, vars, Owns, Held
  <2>3. ASSUME NEW r \in Runs, phase'[r] = "working" PROVE Owns(r)'
    <3> USE DEF TypeOK, Row, LockInv, Owns, Held, ClockInv
    <3>1. ASSUME NEW q \in Runs, Claim(q) PROVE Owns(r)'
      <4>1. CASE q = r
        BY <3>1, <4>1 DEF Claim, HeldBy
      <4>2. CASE q # r
        <5>1. phase[r] = "working" /\ Owns(r)
          BY <2>3, <3>1, <4>2 DEF Claim
        <5>2. ~StaleAt(stamp[q])
          BY <5>1, LockAssumption DEF Timely, StaleAt
        <5>3. QED
          BY <3>1, <5>1, <5>2 DEF Claim, Claimable
      <4>3. QED
        BY <4>1, <4>2
    <3>2. ASSUME NEW q \in Runs, Release(q) PROVE Owns(r)'
      <4>1. q # r /\ phase[r] = "working"
        BY <2>3, <3>2 DEF Release
      <4>2. QED
        BY <3>2, <4>1 DEF Release, Released
    <3>3. ASSUME NEW q \in Runs, Beat(q) PROVE Owns(r)'
      <4>1. Owns(r)
        BY <2>3, <3>3 DEF Beat
      <4>2. QED
        BY <3>3, <4>1 DEF Beat, Beaten, HeldBy
    <3>4. ASSUME UNCHANGED row, phase'[r] = "working" => phase[r] = "working"
          PROVE  Owns(r)'
      BY <2>3, <3>4
    <3>5. QED
      BY <2>3, <3>1, <3>2, <3>3, <3>4
         DEF Next, RunStep, vars, Tick, StartClaim, Refuse, ClaimTimeout, Retry,
             BeginWrite, EndWrite, Finish, ReleaseTimeout, Crash
  <2>4. QED
    BY <2>1, <2>2, <2>3 DEF LockInv
<1>3. QED
  BY <1>1, <1>2, PTL DEF TimelySpec

\* With timely heartbeats the run that works is the one the dashboard names.
THEOREM WorkingIsShownCorrect == TimelySpec => []WorkingIsShown
<1>1. LockInv => WorkingIsShown
  BY LockAssumption
     DEF LockInv, Timely, WorkingIsShown, ShownHolder, StaleAt, TypeOK, Row, Owns, Held
<1>2. QED
  BY <1>1, LockInvCorrect, PTL

\* With timely heartbeats no two syncs are ever at work together.
THEOREM MutualExclusionCorrect == TimelySpec => []MutualExclusion
<1>1. LockInv => MutualExclusion
  BY DEF LockInv, MutualExclusion, Owns
<1>2. QED
  BY <1>1, LockInvCorrect, PTL

-----------------------------------------------------------------------------

\* Who works, and how long the row has been silent, as the lease sees them.
Working == {r \in Runs : phase[r] = "working"}
Silence == IF Held THEN now - row.beat ELSE 0

\* Nobody is inside at the start, and no row is held.
LEMMA LeaseInit == Init => Promise!Init
  BY DEF Init, Promise!Init, Held, Free, Unreadable

\* While a run works, no claim of another finds the row stale.
LEMMA ClaimAlone ==
  ASSUME LockInv, NEW q \in Runs, Claim(q)
  PROVE  Working = {}
<1> SUFFICES ASSUME NEW r \in Runs, phase[r] = "working" PROVE FALSE
  BY DEF Working
<1>1. Owns(r) /\ now - row.beat <= StaleSeconds
  BY DEF LockInv, Timely
<1>2. StaleAt(stamp[q])
  BY <1>1 DEF Claim, Claimable, Owns
<1>3. QED
  BY <1>1, <1>2, LockAssumption
     DEF LockInv, ClockInv, TypeOK, Row, StaleAt, Owns, Held

\* A claim takes the lease.
LEMMA ClaimTakes ==
  ASSUME LockInv, LockInv', NEW q \in Runs, Claim(q)
  PROVE  Promise!Take
<1> USE DEF LockInv, TypeOK, Row, Held
<1>1. Working = {}
  BY ClaimAlone
<1>2. Held => Silence > StaleSeconds
  BY LockAssumption DEF Claim, Claimable, StaleAt, ClockInv, Silence
<1>3. Working' = {q}
  BY <1>1 DEF Claim, Working
<1>4. Held'
  BY DEF Claim, HeldBy
<1>5. Silence' \in 0..StaleSeconds
  <2>1. phase'[q] = "working" /\ Owns(q)'
    BY <1>3 DEF Working, Claim, HeldBy, Owns
  <2>2. now' - row'.beat <= StaleSeconds
    BY <2>1 DEF Timely
  <2>3. QED
    BY <1>4, <2>2, LockAssumption DEF Silence, ClockInv
<1>6. QED
  BY <1>1, <1>2, <1>3, <1>4, <1>5 DEF Promise!Take, Working, Silence

\* A release that finds the row its own gives the lease up: nobody else is inside.
LEMMA ReleaseLeaves ==
  ASSUME LockInv, NEW q \in Runs, Release(q)
  PROVE  Promise!Leave \/ UNCHANGED <<Working, Held, Silence>>
<1> USE DEF LockInv, TypeOK, Row, Held
<1>1. Working' = Working
  BY DEF Release, Working
<1>2. CASE Owns(q)
  <2>1. Working = {}
    BY <1>2 DEF Release, Working, Owns
  <2>2. ~Held' /\ Silence' = 0
    BY <1>2 DEF Release, Released, Free, Silence
  <2>3. QED
    BY <1>1, <2>1, <2>2 DEF Promise!Leave, Working, Silence
<1>3. CASE ~Owns(q)
  BY <1>1, <1>3 DEF Release, Released, Free, Silence, Owns
<1>4. QED
  BY <1>2, <1>3

\* A heartbeat of the holder renews the lease, and no other does anything.
LEMMA BeatRenews ==
  ASSUME LockInv, NEW q \in Runs, Beat(q)
  PROVE  Promise!Renew \/ UNCHANGED <<Working, Held, Silence>>
<1> USE DEF LockInv, TypeOK, Row, Held
<1>1. Working' = Working
  BY DEF Beat, Working
<1>2. CASE Owns(q)
  <2>1. Held /\ Held' /\ Silence' = 0
    BY <1>2 DEF Beat, Beaten, HeldBy, Owns, Silence
  <2>2. QED
    BY <1>1, <2>1 DEF Promise!Renew, Working, Silence
<1>3. CASE ~Owns(q)
  BY <1>1, <1>3 DEF Beat, Beaten, Silence
<1>4. QED
  BY <1>2, <1>3

\* A tick ages the lease, and not beyond its life while somebody works.
LEMMA TickAges ==
  ASSUME LockInv, LockInv', Tick
  PROVE  Promise!Age \/ UNCHANGED <<Working, Held, Silence>>
<1> USE DEF LockInv, TypeOK, Row, Held
<1>1. Working' = Working
  BY DEF Tick, Working
<1>2. CASE Held
  <2>1. Held' /\ Silence' = Silence + 1
    BY <1>2 DEF Tick, Silence
  <2>2. Working # {} => Silence' <= StaleSeconds
    <3> SUFFICES ASSUME NEW r \in Runs, phase[r] = "working" PROVE Silence' <= StaleSeconds
      BY DEF Working
    <3>1. phase'[r] = "working" /\ Owns(r)'
      BY DEF Tick
    <3>2. QED
      BY <2>1, <3>1 DEF Timely, Silence
  <2>3. QED
    BY <1>1, <1>2, <2>1, <2>2 DEF Promise!Age, Working, Silence
<1>3. CASE ~Held
  BY <1>1, <1>3 DEF Tick, Silence
<1>4. QED
  BY <1>2, <1>3

\* Every timely step of the lock is a step of the lease, or none.
LEMMA LeaseStep == LockInv /\ LockInv' /\ [Next]_vars => [Promise!Next]_(Promise!leaseVars)
<1> SUFFICES ASSUME LockInv, LockInv', [Next]_vars
             PROVE  Promise!Next \/ UNCHANGED <<Working, Held, Silence>>
  BY DEF Promise!leaseVars, Working, Silence
<1>1. CASE Tick
  BY <1>1, TickAges DEF Promise!Next
<1>2. ASSUME NEW r \in Runs, Claim(r) PROVE Promise!Next
  BY <1>2, ClaimTakes DEF Promise!Next
<1>3. ASSUME NEW r \in Runs, Release(r)
      PROVE  Promise!Next \/ UNCHANGED <<Working, Held, Silence>>
  BY <1>3, ReleaseLeaves DEF Promise!Next
<1>4. ASSUME NEW r \in Runs, Beat(r)
      PROVE  Promise!Next \/ UNCHANGED <<Working, Held, Silence>>
  BY <1>4, BeatRenews DEF Promise!Next
<1>5. ASSUME NEW r \in Runs, Finish(r) \/ Crash(r)
      PROVE  Promise!Next \/ UNCHANGED <<Working, Held, Silence>>
  <2>1. UNCHANGED <<Held, Silence>>
    BY <1>5 DEF Finish, Crash, Held, Silence
  <2>2. CASE phase[r] = "working"
    <3>1. \A q \in Runs : phase[q] = "working" => q = r
      BY <2>2 DEF LockInv, Owns
    <3>2. phase'[r] # "working" /\ \A q \in Runs \ {r} : phase'[q] = phase[q]
      BY <1>5 DEF Finish, Crash, LockInv, TypeOK
    <3>3. Working' = {}
      BY <3>1, <3>2 DEF Working
    <3>4. QED
      BY <2>1, <3>3 DEF Promise!Next, Promise!Leave, Working, Silence
  <2>3. CASE phase[r] # "working"
    <3>1. Working' = Working
      BY <1>5, <2>3 DEF Finish, Crash, LockInv, TypeOK, Working
    <3>2. QED
      BY <2>1, <3>1
  <2>4. QED
    BY <2>2, <2>3
<1>6. ASSUME NEW r \in Runs,
             \/ StartClaim(r) \/ Refuse(r) \/ ClaimTimeout(r) \/ Retry(r)
             \/ BeginWrite(r) \/ EndWrite(r) \/ ReleaseTimeout(r)
      PROVE  UNCHANGED <<Working, Held, Silence>>
  <2>1. UNCHANGED <<now, row>>
    BY <1>6 DEF StartClaim, Refuse, ClaimTimeout, Retry, BeginWrite, EndWrite, ReleaseTimeout
  <2>2. Working' = Working
    BY <1>6 DEF StartClaim, Refuse, ClaimTimeout, Retry, BeginWrite, EndWrite, ReleaseTimeout,
                LockInv, TypeOK, Working
  <2>3. QED
    BY <2>1, <2>2 DEF Held, Silence
<1>7. CASE UNCHANGED vars
  BY <1>7 DEF vars, Working, Held, Silence
<1>8. QED
  BY <1>1, <1>2, <1>3, <1>4, <1>5, <1>6, <1>7 DEF Next, RunStep

\* With timely heartbeats the lock implements the lease, for any number of runs,
\* crashes, takeovers, and late beats and releases.
THEOREM ImplementsLeaseCorrect == TimelySpec => ImplementsLease
<1>1. LockInv /\ LockInv' /\ [Next /\ Timely']_vars => [Promise!Next]_(Promise!leaseVars)
  BY LeaseStep
<1>2. QED
  BY <1>1, LeaseInit, LockInvCorrect, PTL DEF TimelySpec, ImplementsLease, Promise!Spec
=============================================================================
