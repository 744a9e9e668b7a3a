----------------------------- MODULE TokenFacts -----------------------------
(***************************************************************************)
(* What the vote scout knows of the tokens of a pool, where it has it from *)
(* and when it suggests the pool (service/vote_scout.py,                   *)
(* ledger/chain_cache.py).                                                 *)
(*                                                                         *)
(* Three kinds of facts are kept in the ledger: a token's description,     *)
(* read from the chain and kept for good; the day DefiLlama first had a    *)
(* price for it, kept for good once there is one; and GoPlus's verdict on  *)
(* it, kept for a while.  Each comes from a source that may fail at any    *)
(* request, and the world behind the last two changes.  Several scans      *)
(* share the tables (module PoolHistory has the pools' side of a scan).    *)
(***************************************************************************)
EXTENDS Integers, FiniteSets

CONSTANTS
  Scanners,    \* processes that scan
  Pair,        \* a candidate pool's token0 and token1
  Bribes,      \* the tokens its votes are bribed with
  Majors,      \* those of them whose symbol is in MAJOR_SYMBOLS
  TTL,         \* GOPLUS_TTL_SECONDS
  TokenSafety, \* the operator's token_safety: are tokens checked at all?
  Filters,     \* the other gates an operator may have set
  MaxClock,    \* bound: the last clock tick
  MaxScans,    \* bound: scans begun
  MaxMishaps   \* bound: what cannot be opened, read or asked, and scans that die

Tokens == Pair \cup Bribes

ASSUME TokenAssumption ==
  /\ Majors \subseteq Tokens
  /\ TokenSafety \in BOOLEAN /\ TTL \in Nat /\ MaxClock \in Nat /\ MaxScans \in Nat /\ MaxMishaps \in Nat
  /\ \A f \in Filters :
       /\ f.require_major_pair \in BOOLEAN
       /\ f.extra_major \subseteq Tokens    \* whose symbol is in extra_major_symbols
       /\ f.min_token_age \in Nat           \* 0: the gate is off, as it is by default
       /\ f.floor \in BOOLEAN               \* is min_tvl_usd or min_history positive?

VARIABLES
  clock,      \* the time
  risky,      \* the tokens GoPlus finds a hard risk in now
  first_price, \* token |-> when DefiLlama first had a price of it, or Never
  pool_meta,  \* are the pool's two tokens in the ledger?
  token_meta, \* token |-> "none", "true" or "fallback" (an address, 18 decimals)
  token_checks, \* token |-> the cached verdict: [ts, bad], or NoCheck
  first_seen, \* token |-> the cached time of its first price, or Never
  phase,      \* where each scan is
  start,      \* a scan's `now'
  useCache,   \* could it open the ledger?
  readable,   \* does it know the pool's two tokens?
  meta,       \* its dict of descriptions
  fresh,      \* the tokens in it that were not in the ledger when it began
  first,      \* token |-> the time of its first price as the scan knows it, or Never
  verdict,    \* token |-> "none", "clean", "bad" or "failed"
  owed,       \* the one whose verdict it has still to write, or none
  begun,      \* scans begun so far
  mishaps,    \* what could not be opened, read or asked so far, and scans that died
  cleanAt,    \* (history) token |-> when GoPlus last found nothing in it
  lackedAt    \* (history) token |-> when an answer of GoPlus last lacked it though risky

world == <<clock, risky, first_price, cleanAt>>
tables == <<pool_meta, token_meta, token_checks, first_seen>>
scanVars == <<phase, start, useCache, readable, meta, fresh, first, verdict, owed>>
counts == <<begun, mishaps>>
vars == <<world, lackedAt, tables, scanVars, counts>>

Never == -1
NoCheck == [ts |-> -1, bad |-> FALSE]
Nothing == [t \in Tokens |-> "none"]
AllNever == [t \in Tokens |-> Never]

Init ==
  /\ clock = 0
  /\ risky = {} /\ first_price = AllNever
  /\ cleanAt = [t \in Tokens |-> 0] /\ lackedAt = AllNever
  /\ pool_meta = FALSE
  /\ token_meta = Nothing
  /\ token_checks = [t \in Tokens |-> NoCheck]
  /\ first_seen = AllNever
  /\ phase = [s \in Scanners |-> "idle"]
  /\ start = [s \in Scanners |-> 0]
  /\ useCache = [s \in Scanners |-> FALSE]
  /\ readable = [s \in Scanners |-> FALSE]
  /\ meta = [s \in Scanners |-> Nothing]
  /\ fresh = [s \in Scanners |-> {}]
  /\ first = [s \in Scanners |-> AllNever]
  /\ verdict = [s \in Scanners |-> Nothing]
  /\ owed = [s \in Scanners |-> {}]
  /\ begun = 0 /\ mishaps = 0

-----------------------------------------------------------------------------
(* The world *)

Tick ==
  /\ clock < MaxClock
  /\ clock' = clock + 1
  /\ cleanAt' = [t \in Tokens |-> IF t \in risky THEN cleanAt[t] ELSE clock + 1]
  /\ UNCHANGED <<risky, first_price, lackedAt, tables, scanVars, counts>>

\* GoPlus comes to find a risk in a token.
TurnRisky(t) ==
  /\ t \notin risky
  /\ risky' = risky \cup {t}
  /\ UNCHANGED <<clock, first_price, cleanAt, lackedAt, tables, scanVars, counts>>

\* DefiLlama gets its first price of a token.
GetPrice(t) ==
  /\ t \in Pair /\ first_price[t] = Never
  /\ first_price' = [first_price EXCEPT ![t] = clock]
  /\ UNCHANGED <<clock, risky, cleanAt, lackedAt, tables, scanVars, counts>>

-----------------------------------------------------------------------------
(* A scan *)

Wrong(right) == IF right THEN 0 ELSE 1

\* That many of the things the scan asked for went wrong.
Mishap(n) ==
  /\ mishaps + n <= MaxMishaps
  /\ mishaps' = mishaps + n

\* _scan: read the clock, open the ledger if it opens, take all descriptions and
\* the pool's two tokens; if they are not there the chain tells them, or a pool
\* that is not a standard one stays unread.
Begin(s) ==
  /\ phase[s] \in {"idle", "done"} /\ begun < MaxScans
  /\ begun' = begun + 1
  /\ phase' = [phase EXCEPT ![s] = "describing"]
  /\ start' = [start EXCEPT ![s] = clock]
  /\ \E opens, read \in BOOLEAN :
       /\ (opens /\ pool_meta) => read
       /\ Mishap(Wrong(opens) + Wrong(read))
       /\ useCache' = [useCache EXCEPT ![s] = opens]
       /\ meta' = [meta EXCEPT ![s] = IF opens THEN token_meta ELSE Nothing]
       /\ readable' = [readable EXCEPT ![s] = read]
  /\ first' = [first EXCEPT ![s] = AllNever]
  /\ verdict' = [verdict EXCEPT ![s] = Nothing]
  /\ fresh' = [fresh EXCEPT ![s] = {}]
  /\ owed' = [owed EXCEPT ![s] = {}]
  /\ UNCHANGED <<world, lackedAt, tables>>

\* The tokens the scan knows the pool is exposed to.
Exposed(s) == Bribes \cup (IF readable[s] THEN Pair ELSE {})

\* _describe_token, for every one of them not in the dict: what cannot be read is
\* made up, and remembered like the rest.
Describe(s) ==
  /\ phase[s] = "describing"
  /\ LET todo == {t \in Exposed(s) : meta[s][t] = "none"}
     IN  \E unread \in SUBSET todo :
           /\ Mishap(Cardinality(unread))
           /\ meta' = [meta EXCEPT ![s] = [t \in Tokens |->
                CASE t \in unread -> "fallback" [] t \in todo \ unread -> "true" [] OTHER -> @[t]]]
           /\ fresh' = [fresh EXCEPT ![s] = todo]
  /\ phase' = [phase EXCEPT ![s] = "storing"]
  /\ UNCHANGED <<world, lackedAt, tables, start, useCache, readable, first, verdict, owed,
                 begun>>

\* _persist_pool_facts and store_token_meta_many: what was not in the ledger at
\* first (INSERT OR REPLACE).
StoreMeta(s) ==
  /\ phase[s] = "storing"
  /\ pool_meta' = (pool_meta \/ (useCache[s] /\ readable[s]))
  /\ token_meta' = [t \in Tokens |-> IF useCache[s] /\ t \in fresh[s]
                                     THEN meta[s][t] ELSE token_meta[t]]
  /\ fresh' = [fresh EXCEPT ![s] = {}]
  /\ phase' = [phase EXCEPT ![s] = "aging"]
  /\ UNCHANGED <<world, lackedAt, token_checks, first_seen, start, useCache, readable, meta, first,
                 verdict, owed, counts>>

\* A bug: a token without a first price is dated by the scan that asked.
FirstSeenAll(s, t) == IF first_price[t] = Never THEN start[s] ELSE first_price[t]

\* The row of a token that was asked for: only a hit is kept.
FirstSeen(s, t) == IF first_price[t] = Never THEN first_seen[t] ELSE first_price[t]

\* _fetch_first_seen, for the pair if it is known: cached, or asked for.
FetchAges(s) ==
  /\ phase[s] = "aging"
  /\ LET wanted == IF readable[s] THEN Pair ELSE {}
         cached == {t \in wanted : useCache[s] /\ first_seen[t] # Never}
         todo == wanted \ cached
     IN  /\ first' = [first EXCEPT ![s] = [t \in Tokens |->
              CASE t \in cached -> first_seen[t] [] t \in todo -> first_price[t] [] OTHER -> Never]]
         /\ first_seen' = [t \in Tokens |-> IF useCache[s] /\ t \in todo THEN FirstSeen(s, t)
                                            ELSE first_seen[t]]
  /\ phase' = [phase EXCEPT ![s] = "checking"]
  /\ UNCHANGED <<world, lackedAt, pool_meta, token_meta, token_checks, start, useCache, readable,
                 meta, fresh, verdict, owed, counts>>

\* A major is known by its symbol, so not if that could not be read.
IsMajor(s, t) == t \in Majors /\ meta[s][t] = "true"

ToCheck(s) == {t \in Exposed(s) : TokenSafety /\ ~IsMajor(s, t)}

\* ChainCache.token_risks: a verdict there is and that is not too old.
FreshCheck(t, now) == token_checks[t] # NoCheck /\ now - token_checks[t].ts <= TTL

Verdict(bad) == IF bad THEN "bad" ELSE "clean"

\* _fetch_token_risks, for one token: cached, or asked for.  An answer that lacks
\* the token, because GoPlus has never scanned it or has some error to report,
\* counts as clean; a request that failed leaves no row.
Check(s, t) ==
  /\ phase[s] = "checking" /\ owed[s] = {}
  /\ t \in ToCheck(s) /\ verdict[s][t] = "none"
  /\ \/ /\ useCache[s] /\ FreshCheck(t, start[s])
        /\ verdict' = [verdict EXCEPT ![s][t] = Verdict(token_checks[t].bad)]
        /\ UNCHANGED <<lackedAt, owed, mishaps>>
     \/ /\ ~(useCache[s] /\ FreshCheck(t, start[s]))
        /\ \E answer \in {"failed", "lacking", Verdict(t \in risky)} :
             /\ Mishap(Wrong(answer \notin {"failed", "lacking"}))
             /\ verdict' = [verdict EXCEPT ![s][t] = IF answer = "lacking" THEN "clean" ELSE answer]
             /\ owed' = [owed EXCEPT ![s] = IF useCache[s] /\ answer # "failed" THEN {t} ELSE {}]
             /\ lackedAt' = [lackedAt EXCEPT ![t] =
                               IF answer = "lacking" /\ t \in risky THEN clock ELSE @]
  /\ UNCHANGED <<world, tables, phase, start, useCache, readable, meta, fresh, first, begun>>

\* A bug: the row is dated when it is written, not when the scan began.
CheckedNow(s, t) == [ts |-> clock, bad |-> verdict[s][t] = "bad"]

Checked(s, t) == [ts |-> start[s], bad |-> verdict[s][t] = "bad"]

\* store_token_risks: INSERT OR REPLACE, whatever another scan has written since.
StoreCheck(s, t) ==
  /\ phase[s] = "checking" /\ t \in owed[s]
  /\ token_checks' = [token_checks EXCEPT ![t] = Checked(s, t)]
  /\ owed' = [owed EXCEPT ![s] = {}]
  /\ UNCHANGED <<world, lackedAt, pool_meta, token_meta, first_seen, phase, start, useCache,
                 readable, meta, fresh, first, verdict, counts>>

\* The scan returns its result.
Finish(s) ==
  /\ phase[s] = "checking" /\ owed[s] = {}
  /\ \A t \in ToCheck(s) : verdict[s][t] # "none"
  /\ phase' = [phase EXCEPT ![s] = "done"]
  /\ UNCHANGED <<world, lackedAt, tables, start, useCache, readable, meta, fresh, first, verdict,
                 owed, counts>>

\* Any other failed request ends the scan; what is stored stays.
Fail(s) ==
  /\ phase[s] \in {"describing", "storing", "aging", "checking"}
  /\ Mishap(1)
  /\ phase' = [phase EXCEPT ![s] = "idle"]
  /\ start' = [start EXCEPT ![s] = 0]
  /\ useCache' = [useCache EXCEPT ![s] = FALSE]
  /\ readable' = [readable EXCEPT ![s] = FALSE]
  /\ meta' = [meta EXCEPT ![s] = Nothing]
  /\ fresh' = [fresh EXCEPT ![s] = {}]
  /\ first' = [first EXCEPT ![s] = AllNever]
  /\ verdict' = [verdict EXCEPT ![s] = Nothing]
  /\ owed' = [owed EXCEPT ![s] = {}]
  /\ UNCHANGED <<world, lackedAt, tables, begun>>

ScanStep(s) ==
  \/ Begin(s) \/ Describe(s) \/ StoreMeta(s) \/ FetchAges(s) \/ Finish(s) \/ Fail(s)
  \/ \E t \in Tokens : Check(s, t) \/ StoreCheck(s, t)

Next ==
  \/ Tick
  \/ \E t \in Tokens : TurnRisky(t) \/ GetPrice(t)
  \/ \E s \in Scanners : ScanStep(s)

Spec == Init /\ [][Next]_vars

-----------------------------------------------------------------------------
(* The result *)

\* LOW-TVL and NEW: a pool whose pair is unread has neither TVL nor history.
Blank(s, f) == f.floor /\ ~readable[s]

\* EXOTIC-PAIR: the operator's own majors count here, and only here; no symbols
\* are read of an unread pair, and none is none too many.
Exotic(s, f) ==
  f.require_major_pair /\ readable[s]
  /\ \E t \in Pair : ~(IsMajor(s, t) \/ (t \in f.extra_major /\ meta[s][t] = "true"))

\* raw.min_token_age_days: there is one if every token of the pair has a first price.
AgeKnown(s) == readable[s] /\ \A t \in Pair : first[s][t] # Never

\* YOUNG-TOKEN, if the gate is on: the age of the pair's youngest, 0 if unknown.
Young(s, f) ==
  f.min_token_age > 0
  /\ (AgeKnown(s) => \E t \in Pair : start[s] - first[s][t] < f.min_token_age)

\* raw.token_risks: the pair and the bribes are what the pool is exposed to.
Risky(s) == {t \in Exposed(s) : verdict[s][t] = "bad"}

\* PoolScore.suggested: no flag.  Of score_pool's flags those that tell of the
\* pool's tokens; the others only take more pools out.
Suggested(s, f) == ~Blank(s, f) /\ ~Exotic(s, f) /\ ~Young(s, f) /\ Risky(s) = {}

Unanswered(s) == {t \in Tokens : verdict[s][t] = "failed"}

TypeOK ==
  /\ clock \in 0..MaxClock /\ begun \in 0..MaxScans /\ mishaps \in 0..MaxMishaps
  /\ risky \subseteq Tokens /\ pool_meta \in BOOLEAN
  /\ first_price \in [Tokens -> -1..MaxClock] /\ first_seen \in [Tokens -> -1..MaxClock]
  /\ token_meta \in [Tokens -> {"none", "true", "fallback"}]
  /\ token_checks \in [Tokens -> [ts : -1..MaxClock, bad : BOOLEAN]]
  /\ phase \in [Scanners -> {"idle", "describing", "storing", "aging", "checking", "done"}]
  /\ start \in [Scanners -> 0..MaxClock] /\ readable \in [Scanners -> BOOLEAN]
  /\ verdict \in [Scanners -> [Tokens -> {"none", "clean", "bad", "failed"}]]

\* GoPlus found nothing in the token, or gave an answer without it, no earlier than
\* that.
Cleared(t, when) == cleanAt[t] >= when \/ lackedAt[t] >= when

\* Of a pool suggested with token_safety on, under any gates, each token, a bribe
\* too, is a major; or GoPlus found nothing in it, or gave an answer without it, at
\* some time no longer ago than the TTL; or this scan's own request for it failed;
\* or the pair could not be read and no floor keeps such a pool out.  What another
\* scan writes in between, and a scan that dies or asks in vain, make nothing else
\* look vetted that is not (_fetch_token_risks, ChainCache.token_risks, score_pool).
SuggestionsAreVetted ==
  \A s \in Scanners, f \in Filters :
    TokenSafety /\ phase[s] = "done" /\ Suggested(s, f) =>
      \A t \in Tokens :
        \/ IsMajor(s, t) \/ t \in Unanswered(s)
        \/ Cleared(t, start[s] - TTL)
        \/ t \notin Exposed(s) /\ ~f.floor

\* "Misses are not [cached]": whichever scans asked before, and whatever they
\* stored, the age gate goes by DefiLlama's own first prices and the scan's clock: a
\* pool is flagged as young if and only if the gate is on and its pair is unread, or
\* a token of it had no price, or too new a one, when the scan began
\* (_fetch_first_seen, score_pool).
AgeGateIsTrue ==
  \A s \in Scanners, f \in Filters :
    phase[s] = "done" =>
      (Young(s, f) <=>
         /\ f.min_token_age > 0
         /\ ~readable[s] \/ \E t \in Pair : \/ first_price[t] = Never
                                            \/ start[s] - first_price[t] < f.min_token_age)
=============================================================================
