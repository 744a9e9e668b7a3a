---------------------------- MODULE ScoutProofs ----------------------------
(***************************************************************************)
(* Theorems about the scouts.                                              *)
(*                                                                         *)
(* TokenFacts, for any tokens, gates, number of scans, TTL and lengths of  *)
(* time: a verdict is dated by the scan that asked for it, which is never  *)
(* later than the answer; so a "clean" row is no younger than the last     *)
(* time GoPlus found nothing or gave an answer without the token,          *)
(* whichever scan writes it last.  And a first price is cached as it is    *)
(* or not at all, so that the age gate goes by the prices themselves.      *)
(*                                                                         *)
(* Invest, for any answer of its source: what is called safe, and what is  *)
(* best.                                                                   *)
(***************************************************************************)
EXTENDS TokenFacts, Invest, TLAPS

Verdicts == {"none", "clean", "bad", "failed"}

\* The types the arguments below need.
FactTypes ==
  /\ clock \in Nat
  /\ cleanAt \in [Tokens -> Nat] /\ lackedAt \in [Tokens -> Int]
  /\ first_price \in [Tokens -> Int] /\ first_seen \in [Tokens -> Int]
  /\ token_checks \in [Tokens -> [ts : Int, bad : BOOLEAN]]
  /\ phase \in [Scanners -> {"idle", "describing", "storing", "aging", "checking", "done"}]
  /\ start \in [Scanners -> Nat]
  /\ readable \in [Scanners -> BOOLEAN] /\ DOMAIN meta = Scanners
  /\ first \in [Scanners -> [Tokens -> Int]]
  /\ verdict \in [Scanners -> [Tokens -> Verdicts]]
  /\ owed \in [Scanners -> SUBSET Tokens]

\* What the rows and the verdicts of the scans under way are worth.
VettedInv ==
  /\ FactTypes
  /\ \A s \in Scanners : start[s] <= clock
  /\ \A t \in Tokens : cleanAt[t] <= clock /\ (t \notin risky => cleanAt[t] = clock)
  /\ \A t \in Tokens : lackedAt[t] <= clock
  /\ \A t \in Tokens :
       token_checks[t] # NoCheck /\ ~token_checks[t].bad => Cleared(t, token_checks[t].ts)
  /\ \A s \in Scanners, t \in Tokens :
       /\ verdict[s][t] = "clean" => Cleared(t, start[s] - TTL)
       /\ t \in owed[s] => \/ verdict[s][t] = "bad"
                           \/ verdict[s][t] = "clean" /\ Cleared(t, start[s])
  /\ \A s \in Scanners :
       phase[s] = "done" => \A t \in ToCheck(s) : verdict[s][t] # "none"

\* Nothing is known, and nothing is older than the clock, at the start.
LEMMA VettedInit == Init => VettedInv
  BY TokenAssumption
     DEF Init, VettedInv, FactTypes, Verdicts, Nothing, AllNever, Never, NoCheck, Cleared

\* What the verdicts of a finished scan are about does not change.
LEMMA SameToCheck ==
  ASSUME NEW s \in Scanners, UNCHANGED <<readable[s], meta[s]>>
  PROVE  ToCheck(s)' = ToCheck(s)
  BY DEF ToCheck, IsMajor, Exposed

\* A clearance stays one when time and the services go on.
LEMMA ClearedStays ==
  ASSUME FactTypes, NEW t \in Tokens, NEW when \in Int,
         cleanAt'[t] \in Int, lackedAt'[t] \in Int,
         cleanAt'[t] >= cleanAt[t], lackedAt'[t] >= lackedAt[t], Cleared(t, when)
  PROVE  cleanAt'[t] >= when \/ lackedAt'[t] >= when
  BY DEF FactTypes, Cleared

\* One answer about one token, cached or asked for.
LEMMA CheckKeeps ==
  ASSUME VettedInv, NEW s \in Scanners, NEW t \in Tokens, Check(s, t)
  PROVE  VettedInv'
<1> USE TokenAssumption DEF VettedInv, FactTypes, Verdicts
<1>0. /\ phase[s] = "checking" /\ owed[s] = {}
      /\ UNCHANGED <<world, tables, phase, start, readable, meta, first>>
  BY DEF Check
<1>a. \A z \in Scanners : phase'[z] = "done" => z # s /\ ToCheck(z)' = ToCheck(z)
  BY <1>0, SameToCheck
<1>1. ASSUME NEW v \in {"clean", "bad"}, v = "clean" => Cleared(t, start[s] - TTL),
             verdict' = [verdict EXCEPT ![s][t] = v], UNCHANGED <<lackedAt, owed>>
      PROVE  VettedInv'
  BY <1>0, <1>1, <1>a DEF world, tables, Cleared
<1>2. ASSUME NEW v \in {"clean", "bad", "failed"}, NEW l \in {lackedAt[t], clock},
             v = "clean" => cleanAt[t] = clock \/ l = clock,
             verdict' = [verdict EXCEPT ![s][t] = v],
             lackedAt' = [lackedAt EXCEPT ![t] = l],
             NEW o \in SUBSET {t}, owed' = [owed EXCEPT ![s] = o], v = "failed" => o = {}
      PROVE  VettedInv'
  <2>1. /\ lackedAt' \in [Tokens -> Int]
        /\ \A u \in Tokens : lackedAt'[u] >= lackedAt[u] /\ lackedAt'[u] <= clock
    BY <1>2
  <2>2. ASSUME NEW u \in Tokens, NEW when \in Int, Cleared(u, when) PROVE Cleared(u, when)'
    BY <1>0, <2>1, <2>2 DEF Cleared, world
  <2>3. v = "clean" => \A when \in Int : when <= clock => Cleared(t, when)'
    BY <1>0, <1>2 DEF Cleared, world
  <2>4. \A u \in Tokens : token_checks[u] # NoCheck /\ ~token_checks[u].bad
                          => Cleared(u, token_checks[u].ts)'
    <3>1. UNCHANGED token_checks /\ \A u \in Tokens : token_checks[u].ts \in Int
      BY <1>0 DEF tables
    <3>2. QED
      BY <2>2, <3>1
  <2>5. ASSUME NEW z \in Scanners, NEW u \in Tokens
        PROVE  /\ verdict'[z][u] = "clean" => Cleared(u, start[z] - TTL)'
               /\ u \in owed'[z] => \/ verdict'[z][u] = "bad"
                                    \/ verdict'[z][u] = "clean" /\ Cleared(u, start[z])'
    <3>1. /\ start'[z] = start[z] /\ start[z] \in Int /\ start[z] - TTL \in Int
          /\ start[z] <= clock /\ start[z] - TTL <= clock
      BY <1>0
    <3>2. CASE z = s /\ u = t
      BY <1>0, <1>2, <2>3, <3>1, <3>2
    <3>3. CASE ~(z = s /\ u = t)
      <4>1. verdict'[z][u] = verdict[z][u] /\ (u \in owed'[z] => u \in owed[z])
        BY <1>0, <1>2, <3>3
      <4>2. QED
        BY <2>2, <3>1, <4>1
    <3>4. QED
      BY <3>2, <3>3
  <2>6. FactTypes'
    BY <1>0, <1>2, <2>1 DEF world, tables
  <2>7. \A z \in Scanners : phase'[z] = "done" => \A u \in ToCheck(z)' : verdict'[z][u] # "none"
    BY <1>0, <1>2, <1>a
  <2>8. /\ UNCHANGED <<start, clock, cleanAt, risky, token_checks>>
        /\ \A u \in Tokens : lackedAt'[u] <= clock'
    BY <1>0, <2>1 DEF world, tables
  <2>9. QED
    BY <2>4, <2>5, <2>6, <2>7, <2>8 DEF Cleared
<1>3. CASE useCache[s] /\ FreshCheck(t, start[s])
  <2>1. /\ verdict' = [verdict EXCEPT ![s][t] = Verdict(token_checks[t].bad)]
        /\ UNCHANGED <<lackedAt, owed>>
    BY <1>3 DEF Check
  <2>2. ~token_checks[t].bad => Cleared(t, start[s] - TTL)
    <3>1. /\ token_checks[t] # NoCheck /\ start[s] - token_checks[t].ts <= TTL
          /\ token_checks[t].ts \in Int /\ start[s] \in Int
      BY <1>3 DEF FreshCheck
    <3>2. ~token_checks[t].bad => Cleared(t, token_checks[t].ts)
      BY <3>1
    <3>3. QED
      BY <3>1, <3>2 DEF Cleared
  <2>3. QED
    BY <1>1, <2>1, <2>2 DEF Verdict
<1>4. CASE ~(useCache[s] /\ FreshCheck(t, start[s]))
  <2>1. PICK answer \in {"failed", "lacking", Verdict(t \in risky)} :
          /\ verdict' = [verdict EXCEPT ![s][t] = IF answer = "lacking" THEN "clean" ELSE answer]
          /\ owed' = [owed EXCEPT ![s] = IF useCache[s] /\ answer # "failed" THEN {t} ELSE {}]
          /\ lackedAt' = [lackedAt EXCEPT ![t] = IF answer = "lacking" /\ t \in risky THEN clock ELSE @]
    BY <1>4 DEF Check
  <2> DEFINE v == IF answer = "lacking" THEN "clean" ELSE answer
             l == IF answer = "lacking" /\ t \in risky THEN clock ELSE lackedAt[t]
             o == IF useCache[s] /\ answer # "failed" THEN {t} ELSE {}
  <2>2. /\ v \in {"clean", "bad", "failed"} /\ l \in {lackedAt[t], clock}
        /\ o \in SUBSET {t} /\ (v = "failed" => o = {})
    BY DEF Verdict
  <2>3. v = "clean" => cleanAt[t] = clock \/ l = clock
    BY DEF Verdict
  <2>4. /\ verdict' = [verdict EXCEPT ![s][t] = v] /\ lackedAt' = [lackedAt EXCEPT ![t] = l]
        /\ owed' = [owed EXCEPT ![s] = o]
    BY <2>1
  <2> HIDE DEF v, l, o
  <2>5. QED
    BY <1>2, <2>2, <2>3, <2>4
<1>5. QED
  BY <1>3, <1>4

\* Whatever the scans, the services and the clock do, the rows stay honest.
LEMMA VettedStep == VettedInv /\ [Next]_vars => VettedInv'
<1> SUFFICES ASSUME VettedInv, [Next]_vars PROVE VettedInv'
  OBVIOUS
<1> USE TokenAssumption DEF VettedInv, FactTypes, Verdicts
<1>1. CASE Tick
  <2>1. clock' = clock + 1 /\ cleanAt' \in [Tokens -> Nat]
    BY <1>1 DEF Tick
  <2>2. \A t \in Tokens : /\ cleanAt'[t] >= cleanAt[t] /\ cleanAt'[t] <= clock'
                          /\ t \notin risky => cleanAt'[t] = clock'
    BY <1>1 DEF Tick
  <2>3. UNCHANGED <<risky, first_price, lackedAt, tables, scanVars>>
    BY <1>1 DEF Tick
  <2>4. ASSUME NEW t \in Tokens, NEW when \in Int, Cleared(t, when) PROVE Cleared(t, when)'
    BY <2>1, <2>2, <2>3, <2>4 DEF Cleared
  <2>5. \A z \in Scanners : ToCheck(z)' = ToCheck(z)
    BY <2>3, SameToCheck DEF scanVars
  <2>6. FactTypes' /\ (\A z \in Scanners : start'[z] <= clock')
    BY <2>1, <2>3 DEF tables, scanVars
  <2>7. \A t \in Tokens : lackedAt'[t] <= clock'
    BY <2>1, <2>3
  <2>8. \A t \in Tokens : token_checks'[t] # NoCheck /\ ~token_checks'[t].bad
                          => Cleared(t, token_checks[t].ts)'
    BY <2>3, <2>4 DEF tables
  <2>9. \A z \in Scanners, t \in Tokens :
          /\ verdict'[z][t] = "clean" => Cleared(t, start[z] - TTL)'
          /\ t \in owed'[z] => \/ verdict'[z][t] = "bad"
                               \/ verdict'[z][t] = "clean" /\ Cleared(t, start[z])'
    BY <2>3, <2>4 DEF scanVars
  <2>10. QED
    BY <2>2, <2>3, <2>5, <2>6, <2>7, <2>8, <2>9 DEF tables, scanVars, Cleared
<1>2. ASSUME NEW t \in Tokens, TurnRisky(t) \/ GetPrice(t) PROVE VettedInv'
  BY <1>2 DEF TurnRisky, GetPrice, tables, scanVars, ToCheck, IsMajor, Exposed, Cleared
<1>3. ASSUME NEW s \in Scanners, Begin(s) PROVE VettedInv'
  <2>1. PICK read \in BOOLEAN : readable' = [readable EXCEPT ![s] = read]
    BY <1>3 DEF Begin
  <2>2. PICK dict : meta' = [meta EXCEPT ![s] = dict]
    BY <1>3 DEF Begin
  <2>3. \A z \in Scanners : phase'[z] = "done" => z # s /\ ToCheck(z)' = ToCheck(z)
    BY <1>3, <2>1, <2>2, SameToCheck DEF Begin
  <2>4. QED
    BY <1>3, <2>1, <2>3 DEF Begin, Nothing, AllNever, Never, world, tables, Cleared
<1>4. ASSUME NEW s \in Scanners, Describe(s) PROVE VettedInv'
  <2>1. PICK dict : meta' = [meta EXCEPT ![s] = dict]
    BY <1>4 DEF Describe
  <2>2. \A z \in Scanners : phase'[z] = "done" => z # s /\ ToCheck(z)' = ToCheck(z)
    BY <1>4, <2>1, SameToCheck DEF Describe
  <2>3. QED
    BY <1>4, <2>2 DEF Describe, world, tables, Cleared
<1>5. ASSUME NEW s \in Scanners, StoreMeta(s) PROVE VettedInv'
  BY <1>5 DEF StoreMeta, world, ToCheck, IsMajor, Exposed, Cleared
<1>6. ASSUME NEW s \in Scanners, FetchAges(s) PROVE VettedInv'
  <2>1. first_seen' \in [Tokens -> Int]
    BY <1>6 DEF FetchAges, FirstSeen
  <2>2. first' \in [Scanners -> [Tokens -> Int]]
    BY <1>6 DEF FetchAges, Never
  <2>3. /\ phase' = [phase EXCEPT ![s] = "checking"]
        /\ UNCHANGED <<world, lackedAt, token_checks, start, readable, meta, verdict, owed>>
    BY <1>6 DEF FetchAges
  <2>4. QED
    BY <2>1, <2>2, <2>3 DEF world, ToCheck, IsMajor, Exposed, Cleared
<1>7. ASSUME NEW s \in Scanners, Finish(s) PROVE VettedInv'
  BY <1>7 DEF Finish, world, tables, ToCheck, IsMajor, Exposed, Cleared
<1>8. ASSUME NEW s \in Scanners, Fail(s) PROVE VettedInv'
  <2>1. \A z \in Scanners : phase'[z] = "done" => z # s /\ ToCheck(z)' = ToCheck(z)
    BY <1>8, SameToCheck DEF Fail
  <2>2. QED
    BY <1>8, <2>1 DEF Fail, Nothing, AllNever, Never, world, tables, Cleared
<1>9. ASSUME NEW s \in Scanners, NEW t \in Tokens, Check(s, t) PROVE VettedInv'
  BY <1>9, CheckKeeps
<1>10. ASSUME NEW s \in Scanners, NEW t \in Tokens, StoreCheck(s, t) PROVE VettedInv'
  <2>1. /\ t \in owed[s]
        /\ token_checks' = [token_checks EXCEPT ![t] = Checked(s, t)]
        /\ owed' = [owed EXCEPT ![s] = {}]
        /\ UNCHANGED <<world, lackedAt, first_seen, phase, start, readable, meta, first, verdict>>
    BY <1>10 DEF StoreCheck
  <2>2. /\ Checked(s, t) \in [ts : Int, bad : BOOLEAN]
        /\ ~Checked(s, t).bad => Cleared(t, Checked(s, t).ts)
    <3>1. start[s] \in Int /\ (verdict[s][t] = "bad") \in BOOLEAN
      OBVIOUS
    <3>2. Checked(s, t) \in [ts : Int, bad : BOOLEAN]
      BY <3>1 DEF Checked
    <3>3. Checked(s, t).ts = start[s] /\ (verdict[s][t] = "bad" => Checked(s, t).bad)
      BY DEF Checked
    <3>4. QED
      BY <2>1, <3>2, <3>3
  <2>3. /\ token_checks' \in [Tokens -> [ts : Int, bad : BOOLEAN]]
        /\ \A u \in Tokens : token_checks'[u] # NoCheck /\ ~token_checks'[u].bad
                             => Cleared(u, token_checks'[u].ts)
    BY <2>1, <2>2
  <2>4. owed' \in [Scanners -> SUBSET Tokens] /\ \A z \in Scanners : owed'[z] \subseteq owed[z]
    BY <2>1
  <2>5. QED
    BY <2>1, <2>3, <2>4 DEF world, ToCheck, IsMajor, Exposed, Cleared
<1>11. CASE UNCHANGED vars
  BY <1>11 DEF vars, world, tables, scanVars, ToCheck, IsMajor, Exposed, Cleared
<1>12. QED
  BY <1>1, <1>2, <1>3, <1>4, <1>5, <1>6, <1>7, <1>8, <1>9, <1>10, <1>11 DEF Next, ScanStep

\* The invariant holds in every behaviour.
LEMMA VettedCorrect == Spec => []VettedInv
  BY VettedInit, VettedStep, PTL DEF Spec

\* Under any gates, a suggested pool has no token that was not vetted within the
\* TTL, was not a major, was not left out of an answer, and was not refused one.
THEOREM SuggestionsAreVettedCorrect == Spec => []SuggestionsAreVetted
<1>1. VettedInv => SuggestionsAreVetted
  <2> SUFFICES ASSUME VettedInv, NEW s \in Scanners, NEW f \in Filters,
                      TokenSafety, phase[s] = "done", Suggested(s, f), NEW t \in Tokens
               PROVE  \/ IsMajor(s, t) \/ t \in Unanswered(s) \/ Cleared(t, start[s] - TTL)
                      \/ t \notin Exposed(s) /\ ~f.floor
    BY DEF SuggestionsAreVetted
  <2>1. CASE t \notin Exposed(s)
    <3>1. ~readable[s]
      BY <2>1 DEF Exposed, Tokens
    <3>2. QED
      BY <2>1, <3>1 DEF Suggested, Blank
  <2>2. CASE t \in Exposed(s) /\ ~IsMajor(s, t)
    <3>1. verdict[s][t] \in Verdicts /\ verdict[s][t] # "none"
      BY <2>2 DEF VettedInv, FactTypes, ToCheck
    <3>2. verdict[s][t] # "bad"
      BY <2>2 DEF Suggested, Risky
    <3>3. QED
      BY <3>1, <3>2 DEF VettedInv, Verdicts, Unanswered
  <2>3. QED
    BY <2>1, <2>2
<1>2. QED
  BY <1>1, VettedCorrect, PTL

-----------------------------------------------------------------------------

\* A first price is cached as it is; one that a scan missed came after it began.
AgeInv ==
  /\ \A t \in Tokens : first_seen[t] \in {Never, first_price[t]}
  /\ \A s \in Scanners, t \in Pair :
       phase[s] \in {"checking", "done"} /\ readable[s] =>
         \/ first[s][t] = first_price[t]
         \/ first[s][t] = Never /\ first_price[t] >= start[s]

\* No scan, and no new price, changes the age a scan goes by.
LEMMA AgeStep == VettedInv /\ AgeInv /\ [Next]_vars => AgeInv'
<1> SUFFICES ASSUME VettedInv, AgeInv, [Next]_vars PROVE AgeInv'
  OBVIOUS
<1>0. Pair \subseteq Tokens
  BY DEF Tokens
<1> USE <1>0, TokenAssumption DEF AgeInv
<1>1. ASSUME NEW t \in Tokens, GetPrice(t) PROVE AgeInv'
  <2>1. /\ t \in Pair /\ first_price[t] = Never
        /\ first_price' = [first_price EXCEPT ![t] = clock]
        /\ UNCHANGED <<first_seen, phase, readable, first, start>>
    BY <1>1 DEF GetPrice, tables, scanVars
  <2>2. \A s \in Scanners : clock >= start[s]
    BY DEF VettedInv, FactTypes
  <2>3. \A u \in Tokens : u # t => first_price'[u] = first_price[u]
    BY <2>1 DEF VettedInv, FactTypes
  <2>4. first_price'[t] = clock
    BY <2>1 DEF VettedInv, FactTypes
  <2>5. ASSUME NEW s \in Scanners, phase[s] \in {"checking", "done"}, readable[s]
        PROVE  first[s][t] = Never
    BY <2>1, <2>5
  <2>6. QED
    BY <2>1, <2>2, <2>3, <2>4, <2>5
<1>2. ASSUME NEW s \in Scanners, Begin(s) PROVE AgeInv'
  BY <1>2 DEF Begin, world, tables, VettedInv, FactTypes
<1>3. ASSUME NEW s \in Scanners, FetchAges(s) PROVE AgeInv'
  <2>1. /\ phase' = [phase EXCEPT ![s] = "checking"]
        /\ UNCHANGED <<first_price, start, readable>>
        /\ \A t \in Tokens : first_seen'[t] \in {first_seen[t], FirstSeen(s, t)}
    BY <1>3 DEF FetchAges, world
  <2>2. \A t \in Tokens : first_seen'[t] \in {Never, first_price[t]}
    BY <2>1 DEF FirstSeen
  <2>3. \A z \in Scanners : z # s => first'[z] = first[z]
    BY <1>3 DEF FetchAges, VettedInv, FactTypes
  <2>4. readable[s] => \A t \in Pair : first'[s][t] = first_price[t]
    <3> SUFFICES ASSUME readable[s], NEW t \in Pair PROVE first'[s][t] = first_price[t]
      OBVIOUS
    <3>1. first'[s][t] = IF useCache[s] /\ first_seen[t] # Never THEN first_seen[t] ELSE first_price[t]
      BY <1>3 DEF FetchAges, VettedInv, FactTypes
    <3>2. QED
      BY <3>1
  <2>5. QED
    BY <2>1, <2>2, <2>3, <2>4 DEF VettedInv, FactTypes
<1>4. ASSUME NEW s \in Scanners, Describe(s) \/ StoreMeta(s) PROVE AgeInv'
  <2>1. /\ UNCHANGED <<first_price, first_seen, first, readable, start>>
        /\ \E p \in {"storing", "aging"} : phase' = [phase EXCEPT ![s] = p]
    BY <1>4 DEF Describe, StoreMeta, world, tables
  <2>2. QED
    BY <2>1 DEF VettedInv, FactTypes
<1>5. ASSUME NEW s \in Scanners, Finish(s) PROVE AgeInv'
  BY <1>5 DEF Finish, world, tables, VettedInv, FactTypes
<1>6. ASSUME NEW s \in Scanners, Fail(s) PROVE AgeInv'
  BY <1>6 DEF Fail, world, tables, VettedInv, FactTypes
<1>7. ASSUME UNCHANGED <<first_price, first_seen, first, phase, readable, start>> PROVE AgeInv'
  BY <1>7
<1>8. QED
  BY <1>1, <1>2, <1>3, <1>4, <1>5, <1>6, <1>7
     DEF Next, ScanStep, Tick, TurnRisky, Check, StoreCheck, world, tables, scanVars, vars

\* The age gate goes by DefiLlama's first prices and nothing else, whoever asked
\* before: for any threshold, off or on.
THEOREM AgeGateIsTrueCorrect == Spec => []AgeGateIsTrue
<1>1. Init => AgeInv
  BY DEF Init, AgeInv, AllNever, Never, Tokens
<1>2. VettedInv /\ AgeInv => AgeGateIsTrue
  <2> SUFFICES ASSUME VettedInv, AgeInv, NEW s \in Scanners, NEW f \in Filters, phase[s] = "done"
               PROVE  Young(s, f) <=>
                        /\ f.min_token_age > 0
                        /\ \/ ~readable[s]
                           \/ \E t \in Pair : \/ first_price[t] = Never
                                              \/ start[s] - first_price[t] < f.min_token_age
    BY DEF AgeGateIsTrue
  <2>1. f.min_token_age \in Nat
    BY TokenAssumption
  <2>2. \A t \in Pair : first[s][t] \in Int /\ first_price[t] \in Int /\ start[s] \in Nat
    BY DEF VettedInv, FactTypes, Tokens
  <2>3. CASE f.min_token_age > 0 /\ readable[s]
    <3>1. \A t \in Pair : \/ first[s][t] = first_price[t]
                          \/ first[s][t] = Never /\ first_price[t] >= start[s]
      BY <2>3 DEF AgeInv
    <3>2. \A t \in Pair :
            (first[s][t] = Never \/ start[s] - first[s][t] < f.min_token_age)
            <=> (first_price[t] = Never \/ start[s] - first_price[t] < f.min_token_age)
      BY <2>1, <2>2, <2>3, <3>1 DEF Never
    <3>3. Young(s, f) <=> \E t \in Pair : \/ first[s][t] = Never
                                          \/ start[s] - first[s][t] < f.min_token_age
      BY <2>3 DEF Young, AgeKnown
    <3>4. QED
      BY <2>3, <3>2, <3>3
  <2>4. CASE ~(f.min_token_age > 0 /\ readable[s])
    BY <2>4 DEF Young, AgeKnown
  <2>5. QED
    BY <2>3, <2>4
<1>3. QED
  BY <1>1, <1>2, AgeStep, VettedCorrect, PTL DEF Spec

-----------------------------------------------------------------------------

\* Of all the scanner offers, exactly the pairs of dollar coins are called safe,
\* whatever is in them and whatever one holds: lending is never safe, since no
\* utilization is known, and of a pair none is asked for (tag_risks).
THEOREM OnlyPairsAreSafe ==
  ASSUME NEW o, Scanned(o), NEW balance \in Nat
  PROVE  WithdrawalSafe(o, balance) <=> o.mechanism = "stable-lp"
<1>1. CASE o.mechanism = "lending" /\ o.protocol \in LendingProjects
  BY <1>1 DEF Scanned, WithdrawalSafe, NotChecked, Lending
<1>2. CASE o.mechanism = "staking" /\ o.protocol = "lido"
  BY <1>2 DEF WithdrawalSafe, Slow
<1>3. CASE o.mechanism = "stable-lp" /\ o.protocol = "aerodrome"
  BY <1>3 DEF WithdrawalSafe, Slow, NotChecked, UtilizationHigh, LiquidityLow, Lending
<1>4. CASE o.mechanism = "self-repaying-vault" /\ o.protocol = "40acres"
  BY <1>4 DEF WithdrawalSafe, Slow
<1>5. QED
  BY <1>1, <1>2, <1>3, <1>4 DEF Scanned

\* "First (highest-APY) withdrawal-safe option per token": the first safe one of
\* a token has the best rate of all the safe ones in it, and is unique
\* (InvestResult.best_safe_by_token).
THEOREM BestIsBest ==
  ASSUME NEW s \in Seq(Opportunity),
         NEW idle, Ranked(s, idle), NEW i, IsBest(s, i, idle),
         NEW j \in DOMAIN s, s[j].token = s[i].token, Safe(s[j], idle)
  PROVE  /\ Rate(s[i]) >= Rate(s[j])
         /\ IsBest(s, j, idle) => i = j
<1>1. i \in DOMAIN s /\ Safe(s[i], idle)
  BY DEF IsBest
<1>2. i \in Int /\ j \in Int
  BY <1>1
<1>3. ~(j < i)
  BY DEF IsBest
<1>4. CASE i = j
  <2>1. s[i].apy \in Int /\ (s[i].apy30d # Unknown => s[i].apy30d \in Int)
    <3>1. s[i] \in Opportunity
      BY <1>1
    <3>2. QED
      BY <3>1 DEF Opportunity, OrUnknown
  <2>2. Rate(s[i]) \in Int
    BY <2>1 DEF Rate
  <2>3. QED
    BY <1>4, <2>2
<1>5. CASE i < j
  <2>1. NotAfter(s[i], s[j], idle)
    BY <1>1, <1>5 DEF Ranked
  <2>2. Rate(s[i]) >= Rate(s[j])
    BY <1>1, <2>1 DEF NotAfter
  <2>3. ~IsBest(s, j, idle)
    BY <1>1, <1>5 DEF IsBest
  <2>4. QED
    BY <2>2, <2>3
<1>6. QED
  BY <1>2, <1>3, <1>4, <1>5
=============================================================================
