------------------------- MODULE CadenceCronProofs -------------------------
(***************************************************************************)
(* Theorems about CadenceCron, for any finite set of accounts, any periods *)
(* and any limits: its types, and whom a sweep gives a check-in.           *)
(***************************************************************************)
EXTENDS CadenceCron, FiniteSetTheorems, WellFoundedInduction, TLAPS

-----------------------------------------------------------------------------
(* Types *)

\* The day of the cron route and the ages of the accounts keep their types:
\* no age passes its period, no probe its attempts.
THEOREM CronTypeCorrect == Spec => []TypeOK
  <1>0. /\ Period \in [Accounts -> Nat \ {0}]
        /\ MaxAttempts \in Nat /\ MaxAttempts >= 1 /\ MaxFailures \in Nat
    BY CronConstants
  <1>1. Init => TypeOK
    BY <1>0 DEF Init, TypeOK
  <1>2. TypeOK /\ [Next]_vars => TypeOK'
    <2> SUFFICES ASSUME TypeOK, [Next]_vars PROVE TypeOK'
      OBVIOUS
    <2> USE <1>0 DEF TypeOK
    <2>1. CASE CallRoute \/ ProbeSucceeds \/ RetryProbe
      <3>1. /\ UNCHANGED <<active, age, checkIn, status, failures>>
            /\ phase' \in {phase, "database-readiness", "sweep"}
        BY <2>1 DEF CallRoute, ProbeSucceeds, RetryProbe, accountVars
      <3>2. attempt' \in 0..MaxAttempts
        BY <2>1 DEF CallRoute, ProbeSucceeds, RetryProbe, accountVars
      <3> QED  BY <3>1, <3>2
    <2>2. CASE ProbeFails \/ SweepFails
      <3>1. PICK code \in {500, 503} : Fail(code)
        BY <2>2 DEF ProbeFails, SweepFails
      <3> QED  BY <3>1 DEF Fail, Answer, accountVars
    <2>3. ASSUME OpenCheckIns
          PROVE  /\ active' \subseteq Accounts /\ checkIn' \subseteq Accounts
                 /\ age' \in [Accounts -> Nat] /\ \A a \in Accounts : age'[a] <= Period[a]
                 /\ attempt' \in 0..MaxAttempts
      <3>1. checkIn' \subseteq Accounts /\ active' = active /\ attempt' = attempt
        BY <2>3 DEF OpenCheckIns, Chosen
      <3>2. \A a \in Accounts : AfterSweep(a) \in {0, age[a]}
        BY DEF AfterSweep
      <3>3. age' = [a \in Accounts |-> AfterSweep(a)]
        BY <2>3 DEF OpenCheckIns
      <3> QED  BY <3>1, <3>2, <3>3
    <2>4. CASE Sweep
      BY <2>3, <2>4 DEF Sweep, Answer
    <2>5. CASE SweepAnswerLost
      BY <2>3, <2>5 DEF SweepAnswerLost, Answer
    <2>6. CASE NextDay
      BY <2>6 DEF NextDay
    <2>7. ASSUME NEW a \in Accounts,
                 ResolveCheckIn(a) \/ ConfirmHealth(a) \/ Deactivate(a) \/ Reactivate(a)
          PROVE  TypeOK'
      <3>1. /\ active' \subseteq Accounts /\ checkIn' \subseteq Accounts
            /\ UNCHANGED <<phase, attempt, status, failures>>
        BY <2>7 DEF ResolveCheckIn, ConfirmHealth, Deactivate, Reactivate
      <3>2. age' \in [Accounts -> Nat] /\ \A b \in Accounts : age'[b] \in {age[b], 0}
        BY <2>7 DEF ResolveCheckIn, ConfirmHealth, Deactivate, Reactivate
      <3> QED  BY <3>1, <3>2
    <2>8. CASE UNCHANGED vars
      BY <2>8 DEF vars
    <2> QED
      BY <2>1, <2>2, <2>4, <2>5, <2>6, <2>7, <2>8 DEF Next, Route
  <1> QED  BY <1>1, <1>2, PTL DEF Spec

-----------------------------------------------------------------------------
(* Whom a sweep reaches *)

Candidates == {a \in Accounts : Candidate(a)}

LEMMA CandidatesAndLimit ==
  Candidates \in SUBSET Nat /\ Limit \in Nat /\ Limit > 0
  <1>1. Accounts \subseteq Nat /\ Limit \in Nat /\ Limit # 0
    BY CronConstants
  <1>2. \A a \in Candidates : a \in Accounts
    BY DEF Candidates
  <1>3. Candidates \in SUBSET Nat
    BY <1>1, <1>2
  <1>4. Limit > 0
    BY <1>1
  <1> QED  BY <1>1, <1>3, <1>4

\* The candidates that come before account a by name
Before(a) == {b \in Candidates : b < a}

LEMMA ChosenByRank ==
  Chosen = {a \in Candidates : Cardinality(Before(a)) < Limit}
  BY DEF Chosen, Candidates, Before

LEMMA BeforeIsFinite ==
  /\ IsFiniteSet(Candidates)
  /\ \A a : IsFiniteSet(Before(a)) /\ Cardinality(Before(a)) \in Nat
  <1>1. IsFiniteSet(Candidates)
    BY CronConstants, FS_Subset DEF Candidates
  <1>2. ASSUME NEW a PROVE IsFiniteSet(Before(a)) /\ Cardinality(Before(a)) \in Nat
    <2>1. Before(a) \in SUBSET Candidates
      BY DEF Before
    <2>2. IsFiniteSet(Before(a))
      BY <1>1, <2>1, FS_Subset
    <2> QED  BY <2>2, FS_CardinalityType
  <1> QED  BY <1>1, <1>2

\* The number of candidates before one grows strictly along the candidates.
LEMMA RanksGrow ==
  ASSUME NEW x \in Candidates, NEW y \in Candidates, x < y
  PROVE  Cardinality(Before(x)) < Cardinality(Before(y))
  <1>1. x \in Nat /\ y \in Nat /\ Candidates \subseteq Nat
    BY CandidatesAndLimit
  <1>2. Before(x) \in SUBSET Before(y)
    <2>1. \A b \in Candidates : b < x => b < y
      BY <1>1
    <2> QED  BY <2>1 DEF Before
  <1>3. x \in Before(y) /\ x \notin Before(x)
    BY <1>1 DEF Before
  <1>4. IsFiniteSet(Before(y)) /\ Cardinality(Before(x)) \in Nat /\ Cardinality(Before(y)) \in Nat
    BY BeforeIsFinite
  <1>5. /\ Cardinality(Before(x)) <= Cardinality(Before(y))
        /\ Cardinality(Before(y)) = Cardinality(Before(x)) => Before(y) = Before(x)
    BY <1>2, <1>4, FS_Subset
  <1> QED  BY <1>3, <1>4, <1>5

\* The sweep takes at most Limit candidates.
LEMMA ChosenFitLimit ==
  IsFiniteSet(Chosen) /\ Cardinality(Chosen) <= Limit
  <1> DEFINE ranks == 0..(Limit - 1)
             rank == [a \in Chosen |-> Cardinality(Before(a))]
  <1>1. Limit \in Nat /\ Limit > 0 /\ Candidates \subseteq Nat
    BY CandidatesAndLimit
  <1>2. \A a \in Chosen : a \in Candidates /\ Cardinality(Before(a)) \in ranks
    BY <1>1, ChosenByRank, BeforeIsFinite
  <1>3. ASSUME NEW x \in Chosen, NEW y \in Chosen, rank[x] = rank[y] PROVE x = y
    <2>1. x \in Candidates /\ y \in Candidates /\ x \in Nat /\ y \in Nat
      BY <1>1, <1>2
    <2>2. rank[x] = Cardinality(Before(x)) /\ rank[y] = Cardinality(Before(y))
      OBVIOUS
    <2>3. Cardinality(Before(x)) \in Nat /\ Cardinality(Before(y)) \in Nat
      BY BeforeIsFinite
    <2>4. x < y => Cardinality(Before(x)) < Cardinality(Before(y))
      BY <2>1, RanksGrow
    <2>5. y < x => Cardinality(Before(y)) < Cardinality(Before(x))
      BY <2>1, RanksGrow
    <2> QED  BY <1>3, <2>1, <2>2, <2>3, <2>4, <2>5
  <1>4. rank \in Injection(Chosen, ranks)
    BY <1>2, <1>3 DEF Injection, IsInjective
  <1>5. IsFiniteSet(ranks) /\ Cardinality(ranks) = Limit
    BY <1>1, FS_Interval
  <1> HIDE DEF rank, ranks
  <1> QED  BY <1>4, <1>5, FS_Injection

\* The chosen come before the candidates that are left, by name.
LEMMA ChosenComeFirst ==
  ASSUME NEW x \in Chosen, NEW y \in Candidates \ Chosen
  PROVE  x < y
  <1>1. x \in Candidates /\ Candidates \subseteq Nat /\ Limit \in Nat
    BY CandidatesAndLimit, ChosenByRank
  <1>2. Cardinality(Before(x)) < Limit /\ ~(Cardinality(Before(y)) < Limit)
    BY ChosenByRank
  <1>3. Cardinality(Before(x)) \in Nat /\ Cardinality(Before(y)) \in Nat
    BY BeforeIsFinite
  <1>4. y < x => Cardinality(Before(y)) < Cardinality(Before(x))
    BY <1>1, RanksGrow
  <1> QED  BY <1>1, <1>2, <1>3, <1>4

\* All are chosen when they are no more than Limit.
LEMMA FewAreAllChosen ==
  ASSUME Cardinality(Candidates) <= Limit
  PROVE  Chosen = Candidates
  <1> SUFFICES ASSUME NEW a \in Candidates PROVE Cardinality(Before(a)) < Limit
    BY ChosenByRank
  <1>1. a \in Nat /\ Limit \in Nat
    BY CandidatesAndLimit
  <1>2. Before(a) \in SUBSET Candidates /\ a \notin Before(a)
    BY <1>1 DEF Before
  <1>3. /\ Cardinality(Before(a)) <= Cardinality(Candidates)
        /\ Cardinality(Candidates) = Cardinality(Before(a)) => Candidates = Before(a)
    BY <1>2, BeforeIsFinite, FS_Subset
  <1>4. Cardinality(Before(a)) \in Nat /\ Cardinality(Candidates) \in Nat
    BY BeforeIsFinite, FS_CardinalityType
  <1> QED  BY <1>1, <1>2, <1>3, <1>4

\* Some candidate is chosen if there is one.
LEMMA SomeIsChosen ==
  ASSUME Candidates # {}
  PROVE  Chosen # {}
  <1> DEFINE Prefixes == {Before(a) : a \in Candidates}
             order == StrictSubsetOrdering(Candidates)
  <1>1. Candidates \subseteq Nat /\ Limit \in Nat /\ Limit > 0
    BY CandidatesAndLimit
  <1>2. IsWellFoundedOn(order, FiniteSubsetsOf(Candidates))
    BY FS_StrictSubsetOrderingWellFounded
  <1>3. Prefixes \subseteq FiniteSubsetsOf(Candidates) /\ Prefixes # {}
    BY BeforeIsFinite DEF Before, FiniteSubsetsOf
  <1>4. PICK prefix \in Prefixes : \A P \in Prefixes : ~(<<P, prefix>> \in order)
    <2> HIDE DEF Prefixes, order
    <2> QED  BY <1>2, <1>3, WFMin
  <1>5. PICK a \in Candidates : prefix = Before(a)
    OBVIOUS
  <1>6. ASSUME NEW b \in Before(a) PROVE FALSE
    <2>1. b \in Candidates /\ b < a /\ a \in Nat /\ b \in Nat
      BY <1>1 DEF Before
    <2>2. b \notin Before(b)
      BY <2>1 DEF Before
    <2>3. \A c \in Candidates : c < b => c < a
      BY <1>1, <2>1
    <2>4. Before(b) \subseteq Before(a) /\ Before(b) # Before(a)
      BY <2>2, <2>3 DEF Before
    <2>5. <<Before(b), Before(a)>> \in order
      BY <2>4 DEF Before, StrictSubsetOrdering
    <2> QED  BY <1>4, <1>5, <2>1, <2>5
  <1>7. Cardinality(Before(a)) = 0
    <2>1. Before(a) = {}
      BY <1>6
    <2> QED  BY <2>1, FS_EmptySet
  <1> QED  BY <1>1, <1>7, ChosenByRank

\* The check-ins a step of the sweep opens
Opened == checkIn' \ checkIn

\* A sweep opens at most Limit check-ins, for due accounts alone; it opens one
\* if an account is due, one for each if they are within the limit, and
\* whoever is left comes later by name.  The same holds when the route does
\* not learn that its transaction was committed.
SweepReachesFirst ==
  [][Sweep \/ SweepAnswerLost =>
       /\ Opened \subseteq Candidates
       /\ Cardinality(Opened) <= Limit
       /\ Candidates # {} => Opened # {}
       /\ Cardinality(Candidates) <= Limit => Opened = Candidates
       /\ \A x \in Opened, y \in Candidates \ Opened : x < y]_vars

\* The sweep respects its limit and the order of the accounts, and never runs
\* without effect while an account is due.
THEOREM SweepsReachTheFirst == Spec => SweepReachesFirst
  <1>1. ASSUME Sweep \/ SweepAnswerLost
        PROVE  /\ Opened \subseteq Candidates
               /\ Cardinality(Opened) <= Limit
               /\ Candidates # {} => Opened # {}
               /\ Cardinality(Candidates) <= Limit => Opened = Candidates
               /\ \A x \in Opened, y \in Candidates \ Opened : x < y
    <2>1. checkIn' = checkIn \union Chosen
      BY <1>1 DEF Sweep, SweepAnswerLost, OpenCheckIns
    <2>2. \A a \in Chosen : a \in Candidates /\ a \notin checkIn
      BY ChosenByRank DEF Candidates, Candidate
    <2>3. Opened = Chosen
      BY <2>1, <2>2 DEF Opened
    <2> QED
      BY <2>2, <2>3, ChosenFitLimit, ChosenComeFirst, FewAreAllChosen, SomeIsChosen
  <1> QED  BY <1>1, PTL DEF Spec, SweepReachesFirst

=============================================================================
