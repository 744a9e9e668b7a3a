----------------------------- MODULE Migrations -----------------------------
(***************************************************************************)
(* Opening the ledger file (ledger/store.py).                              *)
(*                                                                         *)
(* Every process that opens the ledger first brings its schema up to the   *)
(* version the program knows.  A version's script runs one statement at a  *)
(* time, each committed by itself (executescript), and the version number  *)
(* is written after the script, again by itself.  Nothing keeps two        *)
(* processes from doing this at once, and a process may be killed between  *)
(* any two of these writes.                                                *)
(***************************************************************************)
EXTENDS Integers, Sequences

CONSTANTS
  Openers,   \* processes that open the ledger
  Build,     \* opener |-> SCHEMA_VERSION of the program it runs
  Scripts,   \* SCHEMA_MIGRATIONS: per version, the kinds of its statements
  MaxKills   \* bound: how many openers are killed inside a migration

\* "create" fails on what is there already (CREATE TABLE, ALTER TABLE ADD COLUMN),
\* "ensure" does not (IF NOT EXISTS), "fill" updates rows and may be repeated.
StatementKind == {"create", "ensure", "fill"}

ASSUME MigrationsAssumption ==
  /\ Scripts \in Seq(Seq(StatementKind))
  /\ Build \in [Openers -> 1..Len(Scripts)]
  /\ MaxKills \in Nat

VARIABLES
  version,   \* PRAGMA user_version
  made,      \* the statements in effect, <<version, position>>
  phase,     \* per opener: "closed", "migrating" or "open"
  goal,      \* the version whose script an opener runs
  position,  \* the statement of that script it runs next
  kills      \* openers killed inside a migration so far

openerVars == <<phase, goal, position>>
storeVars == <<version, made, openerVars, kills>>

\* The statements of version v's script.
Statements(v) == {v} \X DOMAIN Scripts[v]

\* The whole schema of version v.
Schema(v) == UNION {Statements(u) : u \in 1..v}

StoreInit ==
  /\ version \in 0..Len(Scripts)
  /\ made = Schema(version)
  /\ phase = [p \in Openers |-> "closed"]
  /\ goal = [p \in Openers |-> 1]
  /\ position = [p \in Openers |-> 1]
  /\ kills = 0

\* After script v: the next one, or the ledger is open.
StepTo(p, v) ==
  /\ phase' = [phase EXCEPT ![p] = IF v = Build[p] THEN "open" ELSE "migrating"]
  /\ goal' = [goal EXCEPT ![p] = IF v = Build[p] THEN v ELSE v + 1]
  /\ position' = [position EXCEPT ![p] = 1]

\* apply_migrations reads the version once.  A newer schema than the program's
\* is refused, and nothing changes.
ReadVersion(p) ==
  /\ phase[p] = "closed"
  /\ version <= Build[p]
  /\ StepTo(p, version)
  /\ UNCHANGED <<version, made, kills>>

Kind(p) == Scripts[goal[p]][position[p]]

HasStatement(p) == phase[p] = "migrating" /\ position[p] \in DOMAIN Scripts[goal[p]]

\* What is to be created is there already: the exception ends the opening.
Duplicate(p) == Kind(p) = "create" /\ <<goal[p], position[p]>> \in made

Statement(p) ==
  /\ HasStatement(p)
  /\ ~Duplicate(p)
  /\ made' = made \cup {<<goal[p], position[p]>>}
  /\ position' = [position EXCEPT ![p] = @ + 1]
  /\ UNCHANGED <<version, phase, goal, kills>>

GiveUp(p) ==
  /\ phase' = [phase EXCEPT ![p] = "closed"]
  /\ goal' = [goal EXCEPT ![p] = 1]
  /\ position' = [position EXCEPT ![p] = 1]

FailStatement(p) ==
  /\ HasStatement(p)
  /\ Duplicate(p)
  /\ GiveUp(p)
  /\ UNCHANGED <<version, made, kills>>

\* A bug: the number of the last version is written after the first script.
ScriptDoneAtOnce(p) == Build[p]

\* The version number written after a script.
ScriptDone(p) == goal[p]

\* The script is through: write its number.  (A process that has read an old
\* number may so set back one that another has written.)
WriteVersion(p) ==
  /\ phase[p] = "migrating"
  /\ ~HasStatement(p)
  /\ version' = ScriptDone(p)
  /\ StepTo(p, ScriptDone(p))
  /\ UNCHANGED <<made, kills>>

Kill(p) ==
  /\ phase[p] = "migrating"
  /\ kills < MaxKills
  /\ kills' = kills + 1
  /\ GiveUp(p)
  /\ UNCHANGED <<version, made>>

-----------------------------------------------------------------------------

StoreTypeOK ==
  /\ version \in 0..Len(Scripts)
  /\ made \subseteq Schema(Len(Scripts))
  /\ phase \in [Openers -> {"closed", "migrating", "open"}]
  /\ goal \in [Openers -> 1..Len(Scripts)]
  /\ position \in [Openers -> Nat \ {0}]
  /\ kills \in 0..MaxKills

\* What an opener has behind it: the versions before its goal, and the
\* statements of the script it is in.
Behind(p) == Schema(goal[p] - 1) \cup {s \in Statements(goal[p]) : s[2] < position[p]}

\* The number never runs ahead of the schema, and who has the ledger open has
\* every table and column its program knows, although two processes may have
\* migrated at once and one may have been killed on the way (apply_migrations).
OpenMeansReady ==
  /\ Schema(version) \subseteq made
  /\ \A p \in Openers : phase[p] = "open" => Schema(Build[p]) \subseteq made
=============================================================================
