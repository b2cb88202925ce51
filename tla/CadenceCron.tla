----------------------------- MODULE CadenceCron -----------------------------
(***************************************************************************)
(* The daily cron route of the service cadence: it probes the database,    *)
(* retrying the probe on transient errors, then runs the sweep once; the   *)
(* sweep gives the first Limit due accounts, by name, a check-in case.     *)
(* The route of the Lead aging sweep is the same around another sweep.     *)
(* Days pass whether or not a day's sweep succeeds.                        *)
(***************************************************************************)
EXTENDS FiniteSets, Integers

CONSTANTS
  Accounts,     \* client accounts, as positions in the order of their names
  Period,       \* per account, the days of its package's cadence
  Limit,        \* check-ins a sweep opens at most
  MaxAttempts,  \* DATABASE_PROBE_MAX_ATTEMPTS
  MaxFailures   \* bound on the days whose sweep fails

ASSUME CronConstants ==
  /\ Accounts \subseteq Nat
  /\ IsFiniteSet(Accounts)
  /\ Period \in [Accounts -> Nat \ {0}]
  /\ Limit \in Nat \ {0}
  /\ MaxAttempts \in 1..5
  /\ MaxFailures \in Nat

VARIABLES
  active,   \* accounts with status ACTIVE
  age,      \* days since the last touch of an account, up to its period
  checkIn,  \* accounts with an open SERVICE_CADENCE case
  phase,    \* where the day's request is
  attempt,  \* the probe's attempt
  status,   \* the HTTP status of the day's response; 0 until there is one
  failures  \* days whose sweep failed (history)

vars == <<active, age, checkIn, phase, attempt, status, failures>>

accountVars == <<active, age, checkIn>>

TypeOK ==
  /\ active \subseteq Accounts
  /\ age \in [Accounts -> Nat] /\ \A a \in Accounts : age[a] <= Period[a]
  /\ checkIn \subseteq Accounts
  /\ phase \in {"scheduled", "database-readiness", "sweep", "answered"}
  /\ attempt \in 0..MaxAttempts
  /\ status \in {0, 200, 500, 503}
  /\ failures \in 0..MaxFailures

Init ==
  /\ active = Accounts
  /\ age = [a \in Accounts |-> 0]
  /\ checkIn = {}
  /\ phase = "scheduled"
  /\ attempt = 0
  /\ status = 0
  /\ failures = 0

-----------------------------------------------------------------------------
(* The route *)

\* The scheduler calls GET.
CallRoute ==
  /\ phase = "scheduled"
  /\ phase' = "database-readiness"
  /\ attempt' = 1
  /\ UNCHANGED <<accountVars, status, failures>>

Answer(code) == phase' = "answered" /\ status' = code

\* A day without a sweep: 503 for transient errors, 500 for others; a function
\* that dies gives no better answer.
Fail(code) ==
  /\ failures < MaxFailures
  /\ failures' = failures + 1
  /\ Answer(code)
  /\ UNCHANGED <<accountVars, attempt>>

ProbeSucceeds ==
  /\ phase = "database-readiness"
  /\ phase' = "sweep"
  /\ UNCHANGED <<accountVars, attempt, status, failures>>

\* Mutant: one attempt too many.
RetryOnceMore ==
  /\ phase = "database-readiness"
  /\ attempt <= MaxAttempts
  /\ attempt' = attempt + 1
  /\ UNCHANGED <<accountVars, phase, status, failures>>

\* retryTransientDatabaseOperation: a transient error is retried after a delay.
RetryProbe ==
  /\ phase = "database-readiness"
  /\ attempt < MaxAttempts
  /\ attempt' = attempt + 1
  /\ UNCHANGED <<accountVars, phase, status, failures>>

ProbeFails ==
  /\ phase = "database-readiness"
  /\ \/ attempt = MaxAttempts /\ Fail(503)
     \/ Fail(500)

\* The sweep is not retried; its transaction was rolled back.
SweepFails ==
  /\ phase = "sweep"
  /\ \E code \in {500, 503} : Fail(code)

-----------------------------------------------------------------------------
(* runServiceCadenceSweep *)

\* assessCadence, for an account without an open check-in
Candidate(a) ==
  /\ a \in active
  /\ age[a] >= Period[a]
  /\ a \notin checkIn

\* Mutant: the limit is applied before the accounts are assessed.
ChosenAmongFirst ==
  {a \in active : Cardinality({b \in active : b < a}) < Limit /\ Candidate(a)}

\* The first candidates by name
Chosen ==
  LET candidates == {a \in Accounts : Candidate(a)} IN
  {a \in candidates : Cardinality({b \in candidates : b < a}) < Limit}

\* lastTouch counts the opening of the latest check-in.
AfterSweep(a) == IF a \in checkIn' \ checkIn THEN 0 ELSE age[a]

\* One transaction opens all the cases.
OpenCheckIns ==
  /\ checkIn' = checkIn \union Chosen
  /\ age' = [a \in Accounts |-> AfterSweep(a)]
  /\ UNCHANGED <<active, attempt>>

Sweep ==
  /\ phase = "sweep"
  /\ OpenCheckIns
  /\ Answer(200)
  /\ UNCHANGED failures

\* The transaction is committed, but the route does not learn it.
SweepAnswerLost ==
  /\ phase = "sweep"
  /\ OpenCheckIns
  /\ failures < MaxFailures
  /\ failures' = failures + 1
  /\ \E code \in {500, 503} : Answer(code)

-----------------------------------------------------------------------------
(* Around the route *)

\* The next day begins.
NextDay ==
  /\ phase = "answered"
  /\ phase' = "scheduled"
  /\ attempt' = 0
  /\ status' = 0
  /\ age' = [a \in Accounts |-> IF age[a] < Period[a] THEN age[a] + 1 ELSE age[a]]
  /\ UNCHANGED <<active, checkIn, failures>>

\* A check-in is resolved: the account becomes ACTIVE, or PAYMENT_FAILED when
\* its payments are not current.
ResolveCheckIn(a) ==
  /\ a \in checkIn
  /\ checkIn' = checkIn \ {a}
  /\ \E currentOnPayments \in BOOLEAN :
       active' = IF currentOnPayments THEN active \union {a} ELSE active \ {a}
  /\ UNCHANGED <<age, phase, attempt, status, failures>>

\* A manual review is recorded as a health confirmation.
ConfirmHealth(a) ==
  /\ age[a] > 0
  /\ age' = [age EXCEPT ![a] = 0]
  /\ UNCHANGED <<active, checkIn, phase, attempt, status, failures>>

\* The account leaves ACTIVE: a payment problem, an escalation or a transfer.
Deactivate(a) ==
  /\ a \in active
  /\ active' = active \ {a}
  /\ UNCHANGED <<age, checkIn, phase, attempt, status, failures>>

\* Its payment issue is resolved.
Reactivate(a) ==
  /\ a \notin active
  /\ active' = active \union {a}
  /\ UNCHANGED <<age, checkIn, phase, attempt, status, failures>>

-----------------------------------------------------------------------------

Route == CallRoute \/ ProbeSucceeds \/ RetryProbe \/ ProbeFails \/ SweepFails
         \/ Sweep \/ SweepAnswerLost

Next ==
  \/ Route
  \/ NextDay
  \/ \E a \in Accounts :
       ResolveCheckIn(a) \/ ConfirmHealth(a) \/ Deactivate(a) \/ Reactivate(a)

Spec == Init /\ [][Next]_vars

\* The scheduler calls the route every day, and the function runs on.
FairSpec == Spec /\ WF_vars(Route) /\ WF_vars(NextDay)

-----------------------------------------------------------------------------
(* Properties *)

\* An account that is due for a check-in gets one, or stops being due, even
\* behind accounts that come first by name or never resolve theirs, as long as
\* the sweep's limit covers the accounts within a period.
DueAccountsAreReached ==
  \A a \in Accounts : Candidate(a) ~> ~Candidate(a)
=============================================================================
