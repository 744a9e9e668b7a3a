----------------------------- MODULE Dashboard -----------------------------
(***************************************************************************)
(* The dashboard process and what starts a sync in it (service/app.py,     *)
(* service/scheduler.py): the refresh button's threads and the scheduler's *)
(* thread share one guard, sync_state.running, and behind the guard every  *)
(* attempt asks for the ledger's sync lock, which a `hrusha sync' in a     *)
(* terminal or the corpse of an earlier process may hold.  The lock is     *)
(* taken here at its promise: free, held by one live run, or held by a     *)
(* dead one until it is stale (module SyncLock has its own steps).         *)
(*                                                                         *)
(* The vote and invest scans run beside it, each behind its own flag.      *)
(***************************************************************************)
EXTENDS Integers, FiniteSets, FiniteSetsExt

CONSTANTS
  Clicks,          \* the refresh requests, each a thread of its own
  Scans,           \* the scans: vote scout, invest scout
  StaleSeconds,    \* LOCK_STALE_SECONDS, in ticks, like every delay below
  StartupDelays,   \* STARTUP_DELAY_SECONDS and its jitter
  Intervals,       \* FAST_INTERVAL_SECONDS and BASE_INTERVAL_SECONDS, with jitter
  RetryBase,       \* RETRY_BASE_SECONDS
  RetryCap,        \* RETRY_CAP_SECONDS
  MaxFailures,     \* bound: consecutive failures of the scheduler's syncs
  MaxCrashes,      \* bound: crashes of either process
  LongWrites       \* may the terminal's sync keep the database locked for longer
                   \* than busy_timeout?

ASSUME DashboardAssumption ==
  /\ "scheduler" \notin Clicks
  /\ {StaleSeconds, RetryBase, RetryCap, MaxFailures, MaxCrashes} \subseteq Nat
  /\ StartupDelays \subseteq Nat /\ IsFiniteSet(StartupDelays)
  /\ Intervals \subseteq Nat /\ IsFiniteSet(Intervals)
  /\ LongWrites \in BOOLEAN

Triggers == Clicks \cup {"scheduler"}

VARIABLES
  up,         \* is the dashboard process alive?
  running,    \* sync_state.running
  at,         \* where each trigger is in run_sync_once
  ok,         \* run_sync_once's local result, per trigger
  holder,     \* the sync lock: "free", "dashboard", "terminal" or "dead"
  silence,    \* how long the holder has not beaten
  timer,      \* ticks until the scheduler's next attempt
  failures,   \* consecutive_failures
  scanning,   \* ScoutState.running, InvestState.running
  scanner,    \* the scans' threads alive
  result,     \* does a scan's page have a result to show?
  crashes     \* crashes so far

syncVars == <<running, at, ok, holder, silence>>
schedVars == <<timer, failures>>
scanVars == <<scanning, scanner, result>>
vars == <<up, syncVars, schedVars, scanVars, crashes>>

Inside == {"claiming", "syncing", "ending"}

Init ==
  /\ up = TRUE
  /\ running = FALSE
  /\ at = [t \in Triggers |-> "out"]
  /\ ok = [t \in Triggers |-> TRUE]
  /\ holder = "free"
  /\ silence = 0
  /\ timer \in StartupDelays
  /\ failures = 0
  /\ scanning = [s \in Scans |-> FALSE]
  /\ scanner = [s \in Scans |-> 0]
  /\ result = [s \in Scans |-> FALSE]
  /\ crashes = 0

-----------------------------------------------------------------------------
(* run_sync_once *)

\* POST /refresh starts a thread.
Refresh(t) ==
  /\ up /\ t \in Clicks
  /\ at[t] = "out"
  /\ at' = [at EXCEPT ![t] = "guard"]
  /\ UNCHANGED <<up, running, ok, holder, silence, schedVars, scanVars, crashes>>

\* A bug: the scheduler gives up once its attempts keep failing.
DueUnlessFailing == timer = 0 /\ failures < MaxFailures

\* The scheduler's wait is over.
Due == timer = 0

Wake ==
  /\ up /\ at["scheduler"] = "out" /\ Due
  /\ at' = [at EXCEPT !["scheduler"] = "guard"]
  /\ UNCHANGED <<up, running, ok, holder, silence, schedVars, scanVars, crashes>>

\* A bug: a trigger goes in whether somebody is in or not.
MayEnterAnyway == TRUE

\* The guard.
MayEnter == ~running

\* Through the guard: nobody was in, and now we are.
Pass(t) ==
  /\ at[t] = "guard"
  /\ MayEnter
  /\ running' = TRUE
  /\ at' = [at EXCEPT ![t] = "claiming"]
  /\ ok' = [ok EXCEPT ![t] = TRUE]
  /\ UNCHANGED <<up, holder, silence, timer, failures, scanVars, crashes>>

\* A bug: the backoff has no cap.
NextDelaysUncapped(f) == IF f = 0 THEN Intervals ELSE {RetryBase * 2 ^ (f - 1)}

\* next_delay, from the failures counted so far.
NextDelays(f) ==
  IF f = 0 THEN Intervals
  ELSE {IF RetryBase * 2 ^ (f - 1) < RetryCap THEN RetryBase * 2 ^ (f - 1) ELSE RetryCap}

\* A sync of this process is under way: skip, which is not a failure.
Skip(t) ==
  /\ at[t] = "guard"
  /\ ~MayEnter
  /\ at' = [at EXCEPT ![t] = "out"]
  /\ IF t = "scheduler"
     THEN failures' = 0 /\ timer' \in NextDelays(0)
     ELSE UNCHANGED <<failures, timer>>
  /\ UNCHANGED <<up, running, ok, holder, silence, scanVars, crashes>>

\* A bug: only a free lock is claimed.
LockFreeOnly == holder = "free"

\* A bug: a dead holder is given up one second too early.
LockFreeAtTheBound == holder = "free" \/ silence >= StaleSeconds

\* The lock is free, or its holder is presumed dead.
LockFree == holder = "free" \/ silence > StaleSeconds

\* The claim succeeds.
Claim(t) ==
  /\ at[t] = "claiming"
  /\ LockFree
  /\ holder' = "dashboard"
  /\ silence' = 0
  /\ at' = [at EXCEPT ![t] = "syncing"]
  /\ UNCHANGED <<up, running, ok, schedVars, scanVars, crashes>>

\* SyncBusy: the work is being done, just not by us.
Busy(t) ==
  /\ at[t] = "claiming"
  /\ ~LockFree
  /\ at' = [at EXCEPT ![t] = "ending"]
  /\ UNCHANGED <<up, running, ok, holder, silence, schedVars, scanVars, crashes>>

\* The claim itself gives up on a locked database: not SyncBusy, an exception
\* like any other.
Locked(t) ==
  /\ at[t] = "claiming"
  /\ LongWrites /\ holder = "terminal"
  /\ t = "scheduler" => failures < MaxFailures
  /\ at' = [at EXCEPT ![t] = "ending"]
  /\ ok' = [ok EXCEPT ![t] = FALSE]
  /\ UNCHANGED <<up, running, holder, silence, schedVars, scanVars, crashes>>

\* The sync is through, or raised; either way the lock is released.
EndSync(t, good) ==
  /\ at[t] = "syncing"
  /\ ~good /\ t = "scheduler" => failures < MaxFailures
  /\ holder' = "free"
  /\ silence' = 0
  /\ ok' = [ok EXCEPT ![t] = good]
  /\ at' = [at EXCEPT ![t] = "ending"]
  /\ UNCHANGED <<up, running, schedVars, scanVars, crashes>>

\* Clear the flag and return; the scheduler counts and sets its next attempt.
Return(t) ==
  /\ at[t] = "ending"
  /\ running' = FALSE
  /\ at' = [at EXCEPT ![t] = "out"]
  /\ IF t = "scheduler"
     THEN /\ failures' = IF ok[t] THEN 0 ELSE failures + 1
          /\ timer' \in NextDelays(failures')
     ELSE UNCHANGED <<failures, timer>>
  /\ UNCHANGED <<up, ok, holder, silence, scanVars, crashes>>

-----------------------------------------------------------------------------
(* The scans *)

\* A bug: the button starts a scan whatever the flag says.
MayScanAnyway(s) == TRUE

\* The guard of a scan.
MayScan(s) == ~scanning[s]

\* POST /votes/scan, /invest/scan: one scan at a time.
ScanClick(s) ==
  /\ up
  /\ MayScan(s)
  /\ scanning' = [scanning EXCEPT ![s] = TRUE]
  /\ scanner' = [scanner EXCEPT ![s] = @ + 1]
  /\ UNCHANGED <<up, syncVars, schedVars, result, crashes>>

\* A bug: a failed scan clears the page.
ResultOfLast(s, good) == good

\* The page keeps the last result when this scan has none.
ResultAfter(s, good) == result[s] \/ good

\* A scan ends, well or not.
ScanEnd(s, good) ==
  /\ scanner[s] > 0
  /\ scanner' = [scanner EXCEPT ![s] = @ - 1]
  /\ scanning' = [scanning EXCEPT ![s] = FALSE]
  /\ result' = [result EXCEPT ![s] = ResultAfter(s, good)]
  /\ UNCHANGED <<up, syncVars, schedVars, crashes>>

-----------------------------------------------------------------------------
(* The terminal, time, and the process *)

TerminalSync ==
  /\ LockFree
  /\ holder' = "terminal"
  /\ silence' = 0
  /\ UNCHANGED <<up, running, at, ok, schedVars, scanVars, crashes>>

TerminalEnd ==
  /\ holder = "terminal"
  /\ holder' = "free"
  /\ UNCHANGED <<up, running, at, ok, silence, schedVars, scanVars, crashes>>

TerminalCrash ==
  /\ holder = "terminal"
  /\ crashes < MaxCrashes
  /\ crashes' = crashes + 1
  /\ holder' = "dead"
  /\ UNCHANGED <<up, running, at, ok, silence, schedVars, scanVars>>

\* The dashboard is killed; whatever it held stays held.
Crash ==
  /\ up
  /\ crashes < MaxCrashes
  /\ crashes' = crashes + 1
  /\ up' = FALSE
  /\ running' = FALSE
  /\ at' = [t \in Triggers |-> "out"]
  /\ holder' = IF holder = "dashboard" THEN "dead" ELSE holder
  /\ scanning' = [s \in Scans |-> FALSE]
  /\ scanner' = [s \in Scans |-> 0]
  /\ result' = [s \in Scans |-> FALSE]
  /\ UNCHANGED <<ok, silence, schedVars>>

\* The container starts it again: a new scheduler, with its startup delay.
Restart ==
  /\ ~up
  /\ up' = TRUE
  /\ timer' \in StartupDelays
  /\ failures' = 0
  /\ UNCHANGED <<syncVars, scanVars, crashes>>

\* Time passes while the scheduler waits or a dead holder goes stale.
Tick ==
  /\ (up /\ timer > 0 /\ at["scheduler"] = "out") \/ (holder = "dead" /\ silence <= StaleSeconds)
  /\ timer' = IF up /\ timer > 0 /\ at["scheduler"] = "out" THEN timer - 1 ELSE timer
  /\ silence' = IF holder = "dead" /\ silence <= StaleSeconds THEN silence + 1 ELSE silence
  /\ UNCHANGED <<up, running, at, ok, holder, failures, scanVars, crashes>>

TriggerStep(t) ==
  \/ Pass(t) \/ Skip(t) \/ Claim(t) \/ Busy(t) \/ Locked(t)
  \/ (\E good \in BOOLEAN : EndSync(t, good)) \/ Return(t)

Next ==
  \/ Wake \/ Tick \/ Crash \/ Restart
  \/ TerminalSync \/ TerminalEnd \/ TerminalCrash
  \/ \E t \in Triggers : Refresh(t) \/ TriggerStep(t)
  \/ \E s \in Scans : ScanClick(s) \/ \E good \in BOOLEAN : ScanEnd(s, good)

Spec == Init /\ [][Next]_vars

\* Threads run, time passes, and a container that died is started again.
FairSpec ==
  /\ Spec
  /\ WF_vars(Tick) /\ WF_vars(Wake) /\ WF_vars(Restart)
  /\ \A t \in Triggers : WF_vars(TriggerStep(t))

-----------------------------------------------------------------------------

\* Every delay the scheduler is given.
Delays == StartupDelays \cup Intervals \cup {RetryCap}

TypeOK ==
  /\ up \in BOOLEAN
  /\ running \in BOOLEAN
  /\ at \in [Triggers -> {"out", "guard"} \cup Inside]
  /\ ok \in [Triggers -> BOOLEAN]
  /\ holder \in {"free", "dashboard", "terminal", "dead"}
  /\ silence \in 0..(StaleSeconds + 1)
  /\ timer \in 0..Max(Delays)
  /\ failures \in 0..MaxFailures
  /\ scanning \in [Scans -> BOOLEAN]
  /\ scanner \in [Scans -> Nat]
  /\ result \in [Scans -> BOOLEAN]
  /\ crashes \in 0..MaxCrashes

InsideNow == {t \in Triggers : at[t] \in Inside}

\* "A scheduled run and a manual refresh can never overlap": the flag is up
\* exactly while one thread is inside, and the lock is ours only then.
OneSyncHere ==
  /\ Cardinality(InsideNow) <= 1
  /\ running <=> InsideNow # {}
  /\ holder = "dashboard" => \E t \in Triggers : at[t] = "syncing"

\* One scan of a kind at a time, and its flag falls with its thread.
OneScanEach ==
  \A s \in Scans : scanner[s] = (IF scanning[s] THEN 1 ELSE 0)

\* A failed scan leaves the last result on the page; only a restart clears it.
ResultStep == \A s \in Scans : up' /\ result[s] => result'[s]
ResultStays == [][ResultStep]_vars

\* "The scheduler must NEVER crash the service", nor stop: there is always a
\* next attempt, after failures, skips and restarts alike.
KeepsTrying == []<>(at["scheduler"] = "guard")

\* "A crashed sync must not lock out the next one": a dead holder's row is taken
\* over, by the scheduler if by nobody else, in this process or the next.
CorpseCleared == holder = "dead" ~> holder # "dead"

\* Who syncs, in this process or in the terminal.
Syncing == {t \in Triggers : at[t] = "syncing"} \cup (IF holder = "terminal" THEN {"terminal"} ELSE {})

\* The lease that module SyncLock implements, as this process and a terminal use it.
Promise == INSTANCE Lease WITH
  Askers <- Triggers \cup {"terminal"},
  Patience <- StaleSeconds,
  inside <- Syncing,
  held <- holder # "free"

\* One sync at a time across the processes, not only behind the guard: what this
\* module takes the lock to do is what the lock promises, and a dead holder's row
\* is taken over only when it is stale (run_sync_once, cli.run_sync, sync_lock).
ImplementsLease == Promise!Spec
=============================================================================
