------------------------------ MODULE SyncLock ------------------------------
(***************************************************************************)
(* The cross-process sync lock of hrusha/ledger/sync_lock.py: one row of   *)
(* the ledger's sync_state table names the run that may sync.  A run       *)
(* claims the row under BEGIN IMMEDIATE, a heartbeat thread keeps its      *)
(* timestamp fresh on a connection of its own, and a row whose heartbeat   *)
(* is more than StaleSeconds old is taken over.                            *)
(*                                                                         *)
(* SQLite admits one write transaction at a time.  The lock's own          *)
(* transactions are short and are single steps here; the transactions of   *)
(* the sync itself stay open across network calls (service/sync.py), so    *)
(* `writer' names the run that has one open.  Meanwhile every BEGIN        *)
(* IMMEDIATE waits, and gives up after the five seconds of busy_timeout.   *)
(***************************************************************************)
EXTENDS Integers

CONSTANTS
  Runs,           \* run ids: each is drawn once (uuid4) and owns the row at most once
  Nobody,         \* not a run: no write transaction is open
  StaleSeconds,   \* LOCK_STALE_SECONDS, in ticks of the clock
  MaxTime,        \* bound: the clock stops here
  MaxWrites       \* bound: write transactions of one sync

ASSUME LockAssumption ==
  /\ Nobody \notin Runs
  /\ StaleSeconds \in Nat
  /\ MaxTime \in Nat
  /\ MaxWrites \in Nat

VARIABLES
  now,      \* the wall clock
  row,      \* the sync_lock row: absent, unreadable, or a holder
  phase,    \* where each run's main thread is
  stamp,    \* the clock value a claim read before it asked for the write lock
  beating,  \* is the run's heartbeat thread still in its loop?
  writer,   \* the run whose write transaction is open, or Nobody
  writes    \* write transactions each run has begun

vars == <<now, row, phase, stamp, beating, writer, writes>>

(***************************************************************************)
(* A row is absent ("free"), hand-edited or written by an older build      *)
(* ("unreadable"), or names its holder and the holder's last heartbeat.    *)
(***************************************************************************)
Row == [kind : {"free", "unreadable"}] \cup [kind : {"held"}, run : Runs, beat : Nat]

Free == [kind |-> "free"]
Unreadable == [kind |-> "unreadable"]
HeldBy(r, t) == [kind |-> "held", run |-> r, beat |-> t]

Phase == {"idle", "claiming", "working", "releasing", "done", "refused", "locked", "dead"}

Init ==
  /\ now = 0
  /\ row \in {Free, Unreadable}
  /\ phase = [r \in Runs |-> "idle"]
  /\ stamp = [r \in Runs |-> 0]
  /\ beating = [r \in Runs |-> FALSE]
  /\ writer = Nobody
  /\ writes = [r \in Runs |-> 0]

-----------------------------------------------------------------------------

\* _read_holder returns a holder: an absent or unreadable row counts as free.
Held == row.kind = "held"

Owns(r) == Held /\ row.run = r

\* A bug the runs must catch: one second too early.
StaleAtTheBound(t) == t - row.beat >= StaleSeconds

\* LockHolder.is_stale as of time t.
StaleAt(t) == t - row.beat > StaleSeconds

\* current_holder: the live holder the dashboard names, at this instant.
ShownHolder(r) == Owns(r) /\ ~StaleAt(now)

(***************************************************************************)
(* _claim.  The clock is read before the write lock is asked for, so the   *)
(* value tested and stored may be old by the time the transaction starts.  *)
(***************************************************************************)
StartClaim(r) ==
  /\ phase[r] = "idle"
  /\ phase' = [phase EXCEPT ![r] = "claiming"]
  /\ stamp' = [stamp EXCEPT ![r] = now]
  /\ UNCHANGED <<now, row, beating, writer, writes>>

\* A bug: the holder's age counts from its start, not from its last heartbeat.
ClaimableByStart(r) == Held => stamp[r] - stamp[row.run] > StaleSeconds

\* A bug: a held row is never taken over, however old.
ClaimableIfFree(r) == ~Held

\* The row is free, or stale at the time read.
Claimable(r) == Held => StaleAt(stamp[r])

\* Take the row and start the heartbeat.
Claim(r) ==
  /\ phase[r] = "claiming"
  /\ writer = Nobody
  /\ Claimable(r)
  /\ row' = HeldBy(r, stamp[r])
  /\ phase' = [phase EXCEPT ![r] = "working"]
  /\ beating' = [beating EXCEPT ![r] = TRUE]
  /\ UNCHANGED <<now, stamp, writer, writes>>

\* A live holder has it: ROLLBACK and raise SyncBusy.
Refuse(r) ==
  /\ phase[r] = "claiming"
  /\ writer = Nobody
  /\ ~Claimable(r)
  /\ phase' = [phase EXCEPT ![r] = "refused"]
  /\ UNCHANGED <<now, row, stamp, beating, writer, writes>>

\* BEGIN IMMEDIATE gives up on another's open transaction: OperationalError.
ClaimTimeout(r) ==
  /\ phase[r] = "claiming"
  /\ writer # Nobody
  /\ phase' = [phase EXCEPT ![r] = "locked"]
  /\ UNCHANGED <<now, row, stamp, beating, writer, writes>>

\* A trigger that did not get the lock fires again later, with a fresh run id;
\* the id of the failed attempt was never written, so the model reuses it.
Retry(r) ==
  /\ phase[r] \in {"refused", "locked"}
  /\ phase' = [phase EXCEPT ![r] = "idle"]
  /\ UNCHANGED <<now, row, stamp, beating, writer, writes>>

(***************************************************************************)
(* The body of the lock: the sync's own write transactions.  A sync whose  *)
(* first write waits too long for another's transaction fails, and leaves  *)
(* through the finally clause like one that ends.                          *)
(***************************************************************************)
BeginWrite(r) ==
  /\ phase[r] = "working"
  /\ writer = Nobody
  /\ writes[r] < MaxWrites
  /\ writer' = r
  /\ writes' = [writes EXCEPT ![r] = @ + 1]
  /\ UNCHANGED <<now, row, phase, stamp, beating>>

EndWrite(r) ==
  /\ writer = r
  /\ writer' = Nobody
  /\ UNCHANGED <<now, row, phase, stamp, beating, writes>>

\* The sync returned or raised: stop the heartbeat thread.  A beat already under
\* way may outlive the fifteen seconds of join, and the release after it.
Finish(r) ==
  /\ phase[r] = "working"
  /\ writer # r
  /\ phase' = [phase EXCEPT ![r] = "releasing"]
  /\ \E inFlight \in {FALSE, beating[r]} : beating' = [beating EXCEPT ![r] = inFlight]
  /\ UNCHANGED <<now, row, stamp, writer, writes>>

\* A bug: the row is dropped whoever owns it by now.
ReleasedByAnyone(r) == Free

\* What a release leaves: a takeover may have given the row to another run.
Released(r) == IF Held /\ ~Owns(r) THEN row ELSE Free

Release(r) ==
  /\ phase[r] = "releasing"
  /\ writer = Nobody
  /\ row' = Released(r)
  /\ phase' = [phase EXCEPT ![r] = "done"]
  /\ UNCHANGED <<now, stamp, beating, writer, writes>>

\* _release cannot get the write lock: it logs, and the row is left to go stale.
ReleaseTimeout(r) ==
  /\ phase[r] = "releasing"
  /\ writer # Nobody
  /\ phase' = [phase EXCEPT ![r] = "done"]
  /\ UNCHANGED <<now, row, stamp, beating, writer, writes>>

\* A bug: the heartbeat writes without looking whose row it is.
BeatenBlindly(r) == HeldBy(r, now)

\* What a heartbeat leaves.
Beaten(r) == IF Owns(r) THEN HeldBy(r, now) ELSE row

(***************************************************************************)
(* One turn of _heartbeat_loop.  The loop ends for good when the row is no *)
(* longer this run's, and at its next wait once the sync has finished; a   *)
(* turn that cannot get the write lock leaves no trace and is skipped.     *)
(***************************************************************************)
Beat(r) ==
  /\ beating[r]
  /\ writer = Nobody
  /\ row' = Beaten(r)
  /\ beating' = [beating EXCEPT ![r] = Owns(r) /\ phase[r] = "working"]
  /\ UNCHANGED <<now, phase, stamp, writer, writes>>

\* SIGKILL, power cut, container stop: both threads die, SQLite rolls back.
Crash(r) ==
  /\ phase[r] \in {"claiming", "working", "releasing"}
  /\ phase' = [phase EXCEPT ![r] = "dead"]
  /\ beating' = [beating EXCEPT ![r] = FALSE]
  /\ writer' = IF writer = r THEN Nobody ELSE writer
  /\ UNCHANGED <<now, row, stamp, writes>>

Tick ==
  /\ now < MaxTime
  /\ now' = now + 1
  /\ UNCHANGED <<row, phase, stamp, beating, writer, writes>>

RunStep(r) ==
  \/ StartClaim(r) \/ Claim(r) \/ Refuse(r) \/ ClaimTimeout(r) \/ Retry(r)
  \/ BeginWrite(r) \/ EndWrite(r) \/ Finish(r)
  \/ Release(r) \/ ReleaseTimeout(r)
  \/ Beat(r) \/ Crash(r)

Next == Tick \/ \E r \in Runs : RunStep(r)

Spec == Init /\ [][Next]_vars

(***************************************************************************)
(* The scheduling LOCK_STALE_SECONDS is chosen for: heartbeats arrive in   *)
(* time, and a claim is not descheduled for longer than a lock lives.      *)
(***************************************************************************)
Timely ==
  \A r \in Runs :
    /\ phase[r] = "working" /\ Owns(r) => now - row.beat <= StaleSeconds
    /\ phase[r] = "claiming" => now - stamp[r] <= StaleSeconds

TimelySpec == Init /\ [][Next /\ Timely']_vars

\* The same, but a heartbeat may be late while a write transaction is open:
\* what the machine does when only the database, not the scheduler, is slow.
LongWriteSpec == Init /\ [][Next /\ (writer # Nobody \/ writer' # Nobody \/ Timely')]_vars

(***************************************************************************)
(* The clock runs, the sync's transactions end, live threads run, and      *)
(* somebody asks for a sync again (the scheduler does every hour).         *)
(* Nothing is assumed of crashes, or that a heartbeat comes on time.       *)
(***************************************************************************)
Fairness ==
  /\ WF_vars(Tick)
  /\ \A r \in Runs :
       /\ WF_vars(StartClaim(r)) /\ WF_vars(Retry(r))
       /\ WF_vars(Claim(r)) /\ WF_vars(Refuse(r) \/ ClaimTimeout(r))
       /\ WF_vars(EndWrite(r)) /\ WF_vars(Finish(r))
       /\ WF_vars(Release(r) \/ ReleaseTimeout(r))

FairSpec == Spec /\ Fairness

-----------------------------------------------------------------------------

TypeOK ==
  /\ now \in Nat
  /\ row \in Row
  /\ phase \in [Runs -> Phase]
  /\ stamp \in [Runs -> Nat]
  /\ beating \in [Runs -> BOOLEAN]
  /\ writer \in Runs \cup {Nobody}
  /\ writes \in [Runs -> Nat]

\* What the lock is for: no two syncs work at once, and the run that works is
\* the one the dashboard names (sync_lock's body, current_holder).
WorkingIsShown ==
  \A r \in Runs : phase[r] = "working" => ShownHolder(r)

\* The same without the dashboard: at most one run is inside the lock's body.
MutualExclusion ==
  \A r, q \in Runs : phase[r] = "working" /\ phase[q] = "working" => r = q

\* A held row moves only three ways: its holder's heartbeat, its holder's
\* release, or a takeover after more than StaleSeconds of silence; and its
\* timestamp never runs backwards (_claim, _release, _heartbeat_loop).
HeldRowStep ==
  Held /\ row' # row =>
    \/ row'.kind = "held" /\ row'.run = row.run /\ row'.beat >= row.beat
    \/ row' = Free /\ phase[row.run] = "releasing"
    \/ row'.kind = "held" /\ StaleAt(now) /\ row'.beat > row.beat

RowChangesHands == [][HeldRowStep]_vars

\* "Stop beating rather than fight for it": a run that got the lock and lost it
\* to a takeover never owns the row again, whatever its late threads do.
OnceLostStep ==
  \A r \in Runs :
    phase[r] \in {"working", "releasing", "done", "dead"} /\ ~Owns(r) => ~Owns(r)'

LostForGood == [][OnceLostStep]_vars

\* "A crashed sync must not lock out the next one": a row left behind by a dead
\* or unreleased run is taken over, as long as somebody is left to ask for it.
Abandoned(r) ==
  /\ Owns(r) /\ phase[r] \in {"done", "dead"} /\ ~beating[r]
  /\ row.beat + StaleSeconds < MaxTime

AbandonedRowReclaimed ==
  \A r \in Runs :
    Abandoned(r) ~> ~Owns(r) \/ \A q \in Runs : phase[q] \in {"done", "dead"}

\* The lock as the lease it is meant to be.
Promise == INSTANCE Lease WITH
  Askers <- Runs,
  Patience <- StaleSeconds,
  inside <- {r \in Runs : phase[r] = "working"},
  held <- Held,
  silence <- IF Held THEN now - row.beat ELSE 0

\* With timely heartbeats the lock is a lease: a run starts its sync only when no
\* other is at work and the row is free or silent for more than StaleSeconds, and
\* late beats and releases of runs that have left do not disturb it (_claim,
\* _release, _heartbeat_loop).
ImplementsLease == Promise!Spec
=============================================================================
