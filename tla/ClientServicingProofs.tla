------------------------ MODULE ClientServicingProofs ------------------------
(***************************************************************************)
(* Theorems about ClientServicing, for any accounts, agents and cases, any *)
(* triggers and any number of requests at the same time.                   *)
(***************************************************************************)
EXTENDS ClientServicing, FiniteSetTheorems, TLAPS

-----------------------------------------------------------------------------
(* Types *)

\* A request that makes a call is a pending one.
LEMMA PendingType ==
  ASSUME TypeOK, NEW r \in Requests, request[r] # Idle \/ request[r].call \in Calls
  PROVE  request[r] \in Pending
  <1>1. Idle.call = "none"
    BY DEF Idle
  <1> QED  BY <1>1 DEF TypeOK, Calls

\* A request about an account starts from one that is pending.
LEMMA BlankType ==
  ASSUME NEW a \in Accounts
  PROVE  Blank(a) \in Pending
  BY DEF Blank, Pending, Calls, AllTriggers, Owners

\* Starting and ending a request keep the types of what they write.
LEMMA RequestType ==
  ASSUME TypeOK, NEW r \in Requests
  PROVE  /\ \A pending \in Pending : Start(r, pending) =>
              /\ request' \in [Requests -> Pending \union {Idle}]
              /\ races' \subseteq {"launch", "resolve", "sweep"}
         /\ Done(r) => request' \in [Requests -> Pending \union {Idle}]
         /\ AtOnce => races' \subseteq {"launch", "resolve", "sweep"}
  BY DEF TypeOK, Start, Done, AtOnce

\* What a request has read of the state in which it starts
Fresh(pending) ==
  /\ pending \in Pending
  /\ pending.call \in Calls \ {"update"}
  /\ pending.call = "launch" => pending.current = account[pending.account].current
  /\ pending.call \in {"respond", "resolve"} =>
       /\ pending.case \in Cases
       /\ case[pending.case].status # "ABSENT"
       /\ case[pending.case].account = pending.account
  /\ pending.call = "sweep" =>
       pending.targets = {<<a, account[a].owner>> : a \in {b \in Accounts : DueCheckIn(b)}}

\* A request starts with what it reads.
LEMMA ReadStarts ==
  ASSUME TypeOK, NEW r \in Requests,
         \/ \E a \in Accounts :
              \/ \E current \in BOOLEAN : ReadConfirm(r, a, current)
              \/ ReadLaunch(r, a) \/ ReadRetain(r, a)
              \/ \E trigger \in Triggers : ReadOpen(r, a, trigger)
         \/ \E k \in Cases, call \in {"respond", "resolve"} : ReadCase(r, k, call)
         \/ ReadSweep(r)
  PROVE  \E pending : Fresh(pending) /\ Start(r, pending) /\ UNCHANGED <<account, case, assignment>>
  <1>1. ASSUME NEW a \in Accounts, NEW current \in BOOLEAN, ReadConfirm(r, a, current)
        PROVE  \E pending : Fresh(pending) /\ Start(r, pending) /\ UNCHANGED <<account, case, assignment>>
    <2> DEFINE p == [Blank(a) EXCEPT !.call = "confirm", !.current = current]
    <2>1. p \in Pending
      <3>1. Blank(a) \in Pending
        BY BlankType
      <3> QED  BY <3>1 DEF Pending, Calls
    <2>2. p.call = "confirm"
      BY DEF Blank
    <2>3. Fresh(p)
      BY <2>1, <2>2 DEF Fresh, Calls
    <2> QED  BY <1>1, <2>3 DEF ReadConfirm
  <1>2. ASSUME NEW a \in Accounts, ReadLaunch(r, a)
        PROVE  \E pending : Fresh(pending) /\ Start(r, pending) /\ UNCHANGED <<account, case, assignment>>
    <2> DEFINE p == [Blank(a) EXCEPT !.call = "launch", !.current = account[a].current]
    <2>1. account[a].current \in BOOLEAN
      BY DEF TypeOK, Account
    <2>2. p \in Pending
      <3>1. Blank(a) \in Pending
        BY <2>1, BlankType
      <3> QED  BY <2>1, <3>1 DEF Pending, Calls
    <2>3. p.call = "launch" /\ p.account = a /\ p.current = account[a].current
      BY DEF Blank
    <2> HIDE DEF p
    <2>4. Fresh(p)
      BY <2>2, <2>3 DEF Fresh, Calls
    <2> QED  BY <1>2, <2>4 DEF ReadLaunch, p
  <1>3. ASSUME NEW a \in Accounts, ReadRetain(r, a)
        PROVE  \E pending : Fresh(pending) /\ Start(r, pending) /\ UNCHANGED <<account, case, assignment>>
    <2> DEFINE p == [Blank(a) EXCEPT !.call = "retain", !.owner = account[a].owner]
    <2>1. account[a].owner \in Owners
      BY DEF TypeOK, Account
    <2>2. p \in Pending
      <3>1. Blank(a) \in Pending
        BY <2>1, BlankType
      <3> QED  BY <2>1, <3>1 DEF Pending, Calls
    <2>3. p.call = "retain"
      BY DEF Blank
    <2>4. Fresh(p)
      BY <2>2, <2>3 DEF Fresh, Calls
    <2> QED  BY <1>3, <2>4 DEF ReadRetain
  <1>4. ASSUME NEW a \in Accounts, NEW trigger \in Triggers, ReadOpen(r, a, trigger)
        PROVE  \E pending : Fresh(pending) /\ Start(r, pending) /\ UNCHANGED <<account, case, assignment>>
    <2> DEFINE p == [Blank(a) EXCEPT !.trigger = trigger, !.owner = account[a].owner]
    <2>1. account[a].owner \in Owners /\ trigger \in AllTriggers
      BY ServicingConstants DEF TypeOK, Account
    <2>2. p \in Pending
      <3>1. Blank(a) \in Pending
        BY <2>1, BlankType
      <3> QED  BY <2>1, <3>1 DEF Pending
    <2>3. p.call = "open"
      BY DEF Blank
    <2>4. Fresh(p)
      BY <2>2, <2>3 DEF Fresh, Calls
    <2> QED  BY <1>4, <2>4 DEF ReadOpen
  <1>5. ASSUME NEW k \in Cases, NEW call \in {"respond", "resolve"}, ReadCase(r, k, call)
        PROVE  \E pending : Fresh(pending) /\ Start(r, pending) /\ UNCHANGED <<account, case, assignment>>
    <2> DEFINE p == [Blank(case[k].account) EXCEPT !.call = call, !.case = k]
    <2>1. case[k].account \in Accounts
      BY DEF TypeOK, Case
    <2>2. p \in Pending
      <3>1. Blank(case[k].account) \in Pending
        BY <2>1, BlankType
      <3> QED  BY <2>1, <3>1 DEF Pending, Calls
    <2>3. p.call = call /\ p.case = k /\ p.account = case[k].account
      BY DEF Blank
    <2>4. case[k].status # "ABSENT"
      BY <1>5 DEF ReadCase, OpenStatuses
    <2> HIDE DEF p
    <2>5. Fresh(p)
      BY <2>2, <2>3, <2>4 DEF Fresh, Calls
    <2> QED  BY <1>5, <2>5 DEF ReadCase, p
  <1>6. ASSUME ReadSweep(r)
        PROVE  \E pending : Fresh(pending) /\ Start(r, pending) /\ UNCHANGED <<account, case, assignment>>
    <2> DEFINE targets == {<<a, account[a].owner>> : a \in {b \in Accounts : DueCheckIn(b)}}
               some == CHOOSE a \in Accounts : TRUE
               p == [Blank(some) EXCEPT !.call = "sweep", !.targets = targets]
    <2>1. targets # {} /\ Start(r, p) /\ UNCHANGED <<account, case, assignment>>
      BY <1>6 DEF ReadSweep
    <2>2. some \in Accounts
      BY <2>1
    <2>3. targets \in SUBSET (Accounts \X Owners)
      <3>1. \A a \in Accounts : <<a, account[a].owner>> \in Accounts \X Owners
        BY DEF TypeOK, Account
      <3> QED  BY <3>1
    <2>4. p.call = "sweep" /\ p.targets = targets
      BY DEF Blank
    <2>5. p \in Pending
      <3> HIDE DEF targets, some
      <3>1. Blank(some) \in Pending
        BY <2>2, BlankType
      <3> QED  BY <2>3, <3>1 DEF Pending, Calls
    <2>6. Fresh(p)
      <3> HIDE DEF p
      <3> QED  BY <2>4, <2>5 DEF Fresh, Calls
    <2> QED  BY <2>1, <2>6
  <1> QED  BY <1>1, <1>2, <1>3, <1>4, <1>5, <1>6

\* Reading keeps the types.
LEMMA ReadType ==
  ASSUME TypeOK, NEW r \in Requests, NEW pending, Fresh(pending), Start(r, pending),
         UNCHANGED <<account, case, assignment>>
  PROVE  TypeOK'
  BY RequestType DEF Fresh, TypeOK

\* What is written of an account is an account.
LEMMA AccountType ==
  ASSUME NEW row \in Account
  PROVE  /\ \A status \in AccountStatuses, health \in HealthStatuses,
               current, attention \in BOOLEAN :
              [row EXCEPT !.launched = TRUE, !.status = status, !.health = health,
                          !.current = current, !.attention = attention] \in Account
         /\ \A status \in AccountStatuses, health \in HealthStatuses :
              [row EXCEPT !.launched = TRUE, !.due = FALSE, !.status = status,
                          !.health = health] \in Account
         /\ \A status \in AccountStatuses, health \in HealthStatuses, attention \in BOOLEAN :
              /\ [row EXCEPT !.status = status, !.health = health,
                             !.attention = attention] \in Account
              /\ [row EXCEPT !.status = status, !.health = health, !.current = TRUE,
                             !.attention = attention] \in Account
         /\ \A status \in AccountStatuses, owner \in Owners :
              /\ [row EXCEPT !.status = status, !.owner = owner] \in Account
              /\ [row EXCEPT !.owner = owner, !.status = status] \in Account
         /\ \A due \in BOOLEAN : [row EXCEPT !.due = due] \in Account
  <1>1. ASSUME NEW status \in AccountStatuses, NEW health \in HealthStatuses,
               NEW current \in BOOLEAN, NEW attention \in BOOLEAN
        PROVE  [row EXCEPT !.launched = TRUE, !.status = status, !.health = health,
                           !.current = current, !.attention = attention] \in Account
    BY DEF Account
  <1>2. ASSUME NEW status \in AccountStatuses, NEW health \in HealthStatuses
        PROVE  [row EXCEPT !.launched = TRUE, !.due = FALSE, !.status = status,
                           !.health = health] \in Account
    BY DEF Account
  <1>3. ASSUME NEW status \in AccountStatuses, NEW health \in HealthStatuses,
               NEW attention \in BOOLEAN
        PROVE  [row EXCEPT !.status = status, !.health = health,
                           !.attention = attention] \in Account
    BY DEF Account
  <1>4. ASSUME NEW status \in AccountStatuses, NEW health \in HealthStatuses,
               NEW attention \in BOOLEAN
        PROVE  [row EXCEPT !.status = status, !.health = health, !.current = TRUE,
                           !.attention = attention] \in Account
    BY DEF Account
  <1>5. ASSUME NEW status \in AccountStatuses, NEW owner \in Owners
        PROVE  /\ [row EXCEPT !.status = status, !.owner = owner] \in Account
               /\ [row EXCEPT !.owner = owner, !.status = status] \in Account
    BY DEF Account
  <1>6. ASSUME NEW due \in BOOLEAN PROVE [row EXCEPT !.due = due] \in Account
    BY DEF Account
  <1> QED  BY <1>1, <1>2, <1>3, <1>4, <1>5, <1>6

\* Writing keeps the types.
LEMMA WriteType ==
  ASSUME TypeOK, NEW r \in Requests,
         \/ WriteConfirm(r) \/ WriteLaunch(r) \/ WriteOpen(r) \/ WriteResponse(r)
         \/ ResolveCase(r) \/ UpdateAccount(r) \/ WriteRetain(r) \/ WriteSweep(r)
         \/ Abandon(r)
  PROVE  TypeOK'
  <1> DEFINE q == request[r]
  <1>1. {"confirm", "launch", "retain", "open", "respond", "resolve", "update", "sweep"} \subseteq Calls
    BY DEF Calls
  <1>2. ASSUME q \in Pending
        PROVE  /\ q.account \in Accounts /\ q.case \in Cases \union {NoCase}
               /\ q.current \in BOOLEAN /\ q.owner \in Owners /\ q.remaining \in BOOLEAN
               /\ q.targets \subseteq Accounts \X Owners /\ q.trigger \in AllTriggers
               /\ account[q.account] \in Account
    BY <1>2 DEF Pending, TypeOK
  <1>4. ASSUME NEW row \in Account, NEW trigger
        PROVE  AfterTrigger(row, trigger) \in Account
    BY DEF AfterTrigger, Account, AccountStatuses, HealthStatuses
  <1>5. CASE Abandon(r)
    BY <1>5, RequestType DEF Abandon, TypeOK
  <1>6. CASE WriteConfirm(r)
    <2>1. q \in Pending
      BY <1>1, <1>6, PendingType DEF WriteConfirm, At
    <2>2. account' \in [Accounts -> Account]
      <3> DEFINE row == [account[q.account] EXCEPT
                           !.launched = TRUE,
                           !.status = IF q.current THEN "ACTIVE" ELSE "PAYMENT_FAILED",
                           !.health = IF q.current THEN "HEALTHY" ELSE "PAYMENT_FAILED",
                           !.current = q.current,
                           !.attention = ~q.current]
      <3>1. row \in Account
        <4>1. PICK attention \in BOOLEAN : attention = ~q.current
          OBVIOUS
        <4>2. /\ (IF q.current THEN "ACTIVE" ELSE "PAYMENT_FAILED") \in AccountStatuses
              /\ (IF q.current THEN "HEALTHY" ELSE "PAYMENT_FAILED") \in HealthStatuses
          BY DEF AccountStatuses, HealthStatuses
        <4>3. account[q.account] \in Account /\ q.current \in BOOLEAN
          BY <1>2, <2>1
        <4> QED  BY <4>1, <4>2, <4>3, AccountType
      <3>2. account' = [account EXCEPT ![q.account] = row]
        BY <1>6 DEF WriteConfirm, TypeOK
      <3> HIDE DEF row
      <3> QED  BY <1>2, <2>1, <3>1, <3>2 DEF TypeOK
    <2> QED  BY <1>6, <2>2, RequestType DEF WriteConfirm, TypeOK
  <1>7. CASE WriteLaunch(r)
    <2>1. q \in Pending
      BY <1>1, <1>7, PendingType DEF WriteLaunch, At
    <2>2. Launched(account[q.account], q.current) \in Account
      BY <1>2, <2>1, AccountType DEF Launched, AccountStatuses, HealthStatuses
    <2>3. account' \in [Accounts -> Account]
      BY <1>2, <1>7, <2>1, <2>2 DEF WriteLaunch, TypeOK
    <2> QED  BY <1>7, <2>3, RequestType DEF WriteLaunch, TypeOK
  <1>8. CASE WriteOpen(r)
    <2>1. q \in Pending
      BY <1>1, <1>8, PendingType DEF WriteOpen, At
    <2>2. [status |-> "OPEN", account |-> q.account, checkIn |-> FALSE, assigned |-> q.owner]
            \in Case
      BY <1>2, <2>1 DEF Case, OpenStatuses
    <2>3. case' \in [Cases -> Case]
      BY <1>8, <2>2 DEF WriteOpen, TypeOK
    <2>4. account' \in [Accounts -> Account]
      BY <1>2, <1>4, <1>8, <2>1 DEF WriteOpen, TypeOK
    <2> QED  BY <1>8, <2>3, <2>4, RequestType DEF WriteOpen, TypeOK
  <1>9. CASE WriteResponse(r)
    <2>1. \A k \in Cases : [case[k] EXCEPT !.status = Responded(@)] \in Case
      <3> SUFFICES ASSUME NEW k \in Cases
                   PROVE  [case[k] EXCEPT !.status = Responded(@)] \in Case
        OBVIOUS
      <3>1. case[k] \in Case
        BY DEF TypeOK
      <3>2. Responded(case[k].status) \in {"ABSENT", "RESOLVED"} \union OpenStatuses
        BY <3>1 DEF Responded, Case, OpenStatuses
      <3> QED  BY <3>1, <3>2 DEF Case
    <2>2. case' \in [Cases -> Case]
      BY <1>9, <2>1 DEF WriteResponse, TypeOK
    <2> QED  BY <1>9, <2>2, RequestType DEF WriteResponse, TypeOK
  <1>10. CASE ResolveCase(r)
    <2>1. q \in Pending
      BY <1>1, <1>10, PendingType DEF ResolveCase, At
    <2>2. \A remaining \in BOOLEAN : [q EXCEPT !.call = "update", !.remaining = remaining] \in Pending
      BY <1>1, <2>1 DEF Pending
    <2> QED  BY <1>10, <2>2 DEF ResolveCase, TypeOK
  <1>11. CASE UpdateAccount(r)
    <2>1. q \in Pending
      BY <1>1, <1>11, PendingType DEF UpdateAccount, At
    <2>2. Resolved(account[q.account], q.remaining) \in Account
      <3> DEFINE row == account[q.account]
      <3>1. row \in Account
        BY <1>2, <2>1
      <3>2. PICK attention \in BOOLEAN :
              attention = (row.attention /\ (~row.current \/ q.remaining))
        OBVIOUS
      <3>3. /\ (IF row.current THEN "ACTIVE" ELSE "PAYMENT_FAILED") \in AccountStatuses
            /\ (IF ~row.current THEN "PAYMENT_FAILED"
                ELSE IF q.remaining THEN "NEEDS_ATTENTION" ELSE "HEALTHY") \in HealthStatuses
        BY DEF AccountStatuses, HealthStatuses
      <3> HIDE DEF row
      <3> QED  BY <3>1, <3>2, <3>3, AccountType DEF Resolved, row
    <2>3. account' \in [Accounts -> Account]
      BY <1>2, <1>11, <2>1, <2>2 DEF UpdateAccount, TypeOK
    <2>4. case' \in [Cases -> Case]
      BY <1>11 DEF UpdateAccount, TypeOK, Case
    <2> QED  BY <1>11, <2>3, <2>4, RequestType DEF UpdateAccount, TypeOK
  <1>12. CASE WriteRetain(r)
    <2>1. q \in Pending
      BY <1>1, <1>12, PendingType DEF WriteRetain, At
    <2>2. assignment' \in [Accounts -> Owners]
      BY <1>2, <1>12, <2>1 DEF WriteRetain, TypeOK
    <2> QED  BY <1>12, <2>2, RequestType DEF WriteRetain, TypeOK
  <1>13. CASE WriteSweep(r)
    <2>1. q \in Pending
      BY <1>1, <1>13, PendingType DEF WriteSweep, At
    <2>2. \A t \in q.targets :
            [status |-> "OPEN", account |-> t[1], checkIn |-> TRUE, assigned |-> t[2]] \in Case
      BY <1>2, <2>1 DEF Case, OpenStatuses
    <2>3. PICK new \in [q.targets -> {k \in Cases : case[k].status = "ABSENT"}] :
            case' = [k \in Cases |->
              IF \E t \in q.targets : new[t] = k
              THEN LET t == CHOOSE t \in q.targets : new[t] = k IN
                   [status |-> "OPEN", account |-> t[1], checkIn |-> TRUE,
                    assigned |-> t[2]]
              ELSE case[k]]
      BY <1>13 DEF WriteSweep
    <2>4. case' \in [Cases -> Case]
      <3> SUFFICES ASSUME NEW k \in Cases PROVE case'[k] \in Case
        BY <2>3
      <3> DEFINE t == CHOOSE t \in q.targets : new[t] = k
      <3>1. CASE \E x \in q.targets : new[x] = k
        <4>1. t \in q.targets
          BY <3>1
        <4>2. case'[k] = [status |-> "OPEN", account |-> t[1], checkIn |-> TRUE, assigned |-> t[2]]
          BY <2>3, <3>1
        <4> HIDE DEF t
        <4> QED  BY <2>2, <4>1, <4>2
      <3>2. CASE ~\E x \in q.targets : new[x] = k
        BY <2>3, <3>2 DEF TypeOK
      <3> QED  BY <3>1, <3>2
    <2>5. account' \in [Accounts -> Account]
      <3> SUFFICES ASSUME NEW a \in Accounts
                   PROVE  \E due \in BOOLEAN : account'[a] = [account[a] EXCEPT !.due = due]
        <4>1. \A a \in Accounts, due \in BOOLEAN : [account[a] EXCEPT !.due = due] \in Account
          BY DEF TypeOK, Account
        <4>2. account' = [a \in Accounts |-> account'[a]]
          BY <1>13 DEF WriteSweep
        <4> QED  BY <4>1, <4>2
      <3>1. account[a].due \in BOOLEAN
        BY DEF TypeOK, Account
      <3>2. account'[a] = [account[a] EXCEPT !.due = @ /\ \A t \in q.targets : t[1] # a]
        BY <1>13 DEF WriteSweep
      <3> QED  BY <3>1, <3>2
    <2> QED  BY <1>13, <2>4, <2>5, RequestType DEF WriteSweep, TypeOK
  <1> QED
    BY <1>5, <1>6, <1>7, <1>8, <1>9, <1>10, <1>11, <1>12, <1>13

\* The steps of one transaction keep the types.
LEMMA AtOnceType ==
  ASSUME TypeOK, NEW a \in Accounts,
         \/ \E owner \in Owners : InsertAccount(a, owner)
         \/ ResolvePayment(a) \/ TransferToHouse(a) \/ PeriodPasses(a)
  PROVE  TypeOK'
  <1>1. account[a] \in Account
    BY DEF TypeOK
  <1>2. {"PENDING_LAUNCH", "ACTIVE", "HOUSE"} \subseteq AccountStatuses
          /\ "HEALTHY" \in HealthStatuses /\ NoAgent \in Owners
    BY DEF AccountStatuses, HealthStatuses, Owners
  <1>3. ASSUME NEW owner \in Owners, InsertAccount(a, owner) PROVE TypeOK'
    <2>1. [account[a] EXCEPT !.status = "PENDING_LAUNCH", !.owner = owner] \in Account
      BY <1>1, <1>2, AccountType
    <2>2. account' \in [Accounts -> Account]
      BY <1>3, <2>1 DEF InsertAccount, TypeOK
    <2> QED  BY <1>3, <2>2, RequestType DEF InsertAccount, AtOnce, TypeOK
  <1>4. CASE ResolvePayment(a)
    <2>1. [account[a] EXCEPT !.status = "ACTIVE", !.health = "HEALTHY", !.current = TRUE,
                             !.attention = FALSE] \in Account
      BY <1>1, <1>2, AccountType
    <2>2. account' \in [Accounts -> Account]
      BY <1>4, <2>1 DEF ResolvePayment, TypeOK
    <2> QED  BY <1>4, <2>2 DEF ResolvePayment, AtOnce, TypeOK
  <1>5. CASE TransferToHouse(a)
    <2>1. [account[a] EXCEPT !.owner = NoAgent, !.status = "HOUSE"] \in Account
      BY <1>1, <1>2, AccountType
    <2>2. account' \in [Accounts -> Account]
      BY <1>5, <2>1 DEF TransferToHouse, TypeOK
    <2>3. \A k \in Cases : [case[k] EXCEPT !.assigned = NoAgent] \in Case
      BY <1>2 DEF TypeOK, Case
    <2>4. case' \in [Cases -> Case]
      BY <1>5, <2>3 DEF TransferToHouse, TypeOK
    <2>5. assignment' \in [Accounts -> Owners]
      BY <1>2, <1>5 DEF TransferToHouse, TypeOK
    <2> QED  BY <1>5, <2>2, <2>4, <2>5 DEF TransferToHouse, AtOnce, TypeOK
  <1>6. CASE PeriodPasses(a)
    <2>1. [account[a] EXCEPT !.due = TRUE] \in Account
      BY <1>1, AccountType
    <2>2. account' \in [Accounts -> Account]
      BY <1>6, <2>1 DEF PeriodPasses, TypeOK
    <2> QED  BY <1>6, <2>2 DEF PeriodPasses, TypeOK
  <1> QED  BY <1>3, <1>4, <1>5, <1>6

\* The kinds of steps: a step of one transaction, a request that reads, and a
\* request that writes, goes on or is abandoned.
LEMMA NextCases ==
  ASSUME TypeOK, [Next]_vars
  PROVE  \/ \E a \in Accounts :
              \/ \E owner \in Owners : InsertAccount(a, owner)
              \/ ResolvePayment(a) \/ TransferToHouse(a) \/ PeriodPasses(a)
         \/ \E r \in Requests : \E pending :
              Fresh(pending) /\ Start(r, pending) /\ UNCHANGED <<account, case, assignment>>
         \/ \E r \in Requests :
              \/ WriteConfirm(r) \/ WriteLaunch(r) \/ WriteOpen(r) \/ WriteResponse(r)
              \/ ResolveCase(r) \/ UpdateAccount(r) \/ WriteRetain(r) \/ WriteSweep(r)
              \/ Abandon(r)
         \/ UNCHANGED vars
  <1>1. ASSUME NEW r \in Requests,
               \/ \E a \in Accounts :
                    \/ \E current \in BOOLEAN : ReadConfirm(r, a, current)
                    \/ ReadLaunch(r, a) \/ ReadRetain(r, a)
                    \/ \E trigger \in Triggers : ReadOpen(r, a, trigger)
               \/ \E k \in Cases, call \in {"respond", "resolve"} : ReadCase(r, k, call)
               \/ ReadSweep(r)
        PROVE  \E pending : Fresh(pending) /\ Start(r, pending)
                              /\ UNCHANGED <<account, case, assignment>>
    BY <1>1, ReadStarts
  <1> QED  BY <1>1 DEF Next, CreateClientAccount, CreateClientAccountFromWonLead

\* Every step keeps the types.
LEMMA NextType ==
  ASSUME TypeOK, [Next]_vars
  PROVE  TypeOK'
  <1>1. CASE UNCHANGED vars
    BY <1>1 DEF vars, TypeOK
  <1> QED  BY <1>1, NextCases, AtOnceType, ReadType, WriteType

\* The variables have their types in every reachable state.
THEOREM ServicingTypeCorrect == Spec => []TypeOK
  <1>1. Init => TypeOK
    <2> SUFFICES ASSUME Init PROVE TypeOK
      OBVIOUS
    <2>1. account \in [Accounts -> Account]
      BY DEF Init, Account, AccountStatuses, HealthStatuses, Owners
    <2>2. case \in [Cases -> Case]
      <3>1. \A a \in Accounts : [status |-> "ABSENT", account |-> a, checkIn |-> FALSE,
                                 assigned |-> NoAgent] \in Case
        BY DEF Case, Owners
      <3>2. {[status |-> "ABSENT", account |-> a, checkIn |-> FALSE,
              assigned |-> NoAgent] : a \in Accounts} \subseteq Case
        BY <3>1
      <3> QED  BY <3>2 DEF Init
    <2> QED  BY <2>1, <2>2 DEF Init, TypeOK, Owners
  <1> QED  BY <1>1, NextType, PTL DEF Spec

-----------------------------------------------------------------------------
(* A resolved case *)

\* Neither a late response, a second resolution, a transfer nor a sweep touches
\* a case that is resolved.
THEOREM ResolvedCasesStay == Spec => ResolvedStaysResolved
  <1>1. TypeOK /\ [Next]_vars =>
          [\A k \in Cases : case[k].status = "RESOLVED" => case'[k] = case[k]]_vars
    <2> SUFFICES ASSUME TypeOK, [Next]_vars, NEW k \in Cases, case[k].status = "RESOLVED"
                 PROVE  case'[k] = case[k]
      OBVIOUS
    <2>1. case[k] \in Case /\ case = [j \in Cases |-> case[j]]
      BY DEF TypeOK
    <2>2. CASE UNCHANGED case
      BY <2>2
    <2>3. ASSUME NEW r \in Requests, WriteOpen(r) PROVE case'[k] = case[k]
      BY <2>1, <2>3 DEF WriteOpen
    <2>4. ASSUME NEW r \in Requests, WriteResponse(r) PROVE case'[k] = case[k]
      <3>1. [case[k] EXCEPT !.status = Responded(@)] = case[k]
        BY <2>1 DEF Responded, Case
      <3> QED  BY <2>1, <2>4, <3>1 DEF WriteResponse
    <2>5. ASSUME NEW r \in Requests, UpdateAccount(r) PROVE case'[k] = case[k]
      <3>1. [case[k] EXCEPT !.status = "RESOLVED"] = case[k]
        BY <2>1 DEF Case
      <3> QED  BY <2>1, <2>5, <3>1 DEF UpdateAccount
    <2>6. ASSUME NEW a \in Accounts, TransferToHouse(a) PROVE case'[k] = case[k]
      BY <2>6 DEF TransferToHouse, OpenCases, OpenStatuses
    <2>7. ASSUME NEW r \in Requests, WriteSweep(r) PROVE case'[k] = case[k]
      <3> DEFINE targets == request[r].targets
      <3>1. PICK new \in [targets -> {j \in Cases : case[j].status = "ABSENT"}] :
              case'[k] = IF \E t \in targets : new[t] = k
                         THEN LET t == CHOOSE t \in targets : new[t] = k IN
                              [status |-> "OPEN", account |-> t[1], checkIn |-> TRUE,
                               assigned |-> t[2]]
                         ELSE case[k]
        BY <2>7 DEF WriteSweep
      <3>2. ~\E t \in targets : new[t] = k
        OBVIOUS
      <3> QED  BY <3>1, <3>2
    <2>8. ASSUME NEW r \in Requests,
                 WriteConfirm(r) \/ WriteLaunch(r) \/ ResolveCase(r) \/ WriteRetain(r) \/ Abandon(r)
          PROVE  UNCHANGED case
      BY <2>8 DEF WriteConfirm, WriteLaunch, ResolveCase, WriteRetain, Abandon
    <2>9. ASSUME NEW a \in Accounts,
                 \/ \E owner \in Owners : InsertAccount(a, owner)
                 \/ ResolvePayment(a) \/ PeriodPasses(a)
          PROVE  UNCHANGED case
      BY <2>9 DEF InsertAccount, ResolvePayment, PeriodPasses
    <2>10. CASE UNCHANGED vars
      BY <2>10 DEF vars
    <2> QED
      BY <2>2, <2>3, <2>4, <2>5, <2>6, <2>7, <2>8, <2>9, <2>10, NextCases
  <1> QED  BY <1>1, ServicingTypeCorrect, PTL DEF Spec, ResolvedStaysResolved

-----------------------------------------------------------------------------
(* Which requests run beside which *)

Running(r, kind) == request[r] # Idle /\ Kind(request[r].call) = kind

\* Nothing runs beside a request of a kind that nothing ran beside.
RaceInv ==
  /\ \A kind \in {"launch", "resolve"} :
       kind \in races \/ \A r, p \in Requests : Running(r, kind) /\ request[p] # Idle => p = r
  /\ "sweep" \in races \/ \A r, p \in Requests : Running(r, "sweep") /\ Running(p, "sweep") => p = r

\* A request that writes only ends, or goes on as the same kind.
LEMMA WriteMoves ==
  ASSUME TypeOK, NEW r \in Requests,
         \/ WriteConfirm(r) \/ WriteLaunch(r) \/ WriteOpen(r) \/ WriteResponse(r)
         \/ ResolveCase(r) \/ UpdateAccount(r) \/ WriteRetain(r) \/ WriteSweep(r)
         \/ Abandon(r)
  PROVE  /\ races' = races
         /\ \A p \in Requests \ {r} : request'[p] = request[p]
         /\ \/ request'[r] = Idle
            \/ /\ ResolveCase(r) /\ request[r] # Idle /\ Kind(request[r].call) = "resolve"
               /\ request'[r] # Idle /\ Kind(request'[r].call) = "resolve"
  <1>1. CASE ResolveCase(r)
    <2>1. request[r] \in Pending /\ request[r].call = "resolve"
      BY <1>1, PendingType DEF ResolveCase, At, Calls
    <2>2. /\ request'[r] = [request[r] EXCEPT !.call = "update",
                              !.remaining = OpenCases(request[r].account) \ {request[r].case} # {}]
          /\ \A p \in Requests \ {r} : request'[p] = request[p]
          /\ races' = races
      BY <1>1 DEF ResolveCase, TypeOK
    <2>3. request'[r].call = "update"
      BY <2>1, <2>2 DEF Pending
    <2>4. Idle.call = "none"
      BY DEF Idle
    <2> QED  BY <1>1, <2>1, <2>2, <2>3, <2>4 DEF Kind
  <1>2. CASE Done(r) /\ races' = races
    BY <1>2 DEF Done, TypeOK
  <1> QED
    BY <1>1, <1>2 DEF WriteConfirm, WriteLaunch, WriteOpen, WriteResponse, UpdateAccount,
                      WriteRetain, WriteSweep, Abandon

\* A request that starts beside another one is noticed.
LEMMA StartRace ==
  ASSUME TypeOK, RaceInv, NEW r \in Requests, NEW pending, Fresh(pending), Start(r, pending)
  PROVE  RaceInv' /\ races \subseteq races'
  <1>1. /\ request[r] = Idle /\ request'[r] = pending
        /\ \A p \in Requests \ {r} : request'[p] = request[p]
    BY DEF Start, TypeOK
  <1>2. pending.call # "update" /\ Kind(pending.call) = pending.call
    BY DEF Fresh, Kind, Calls
  <1>3. \A p \in Requests : request[p] # Idle => Kind(request[p].call) \in InFlight
    BY DEF InFlight
  <1>4. ASSUME NEW kind \in {"launch", "resolve"}, kind \notin races',
               NEW q \in Requests, NEW p \in Requests,
               Running(q, kind)', (request[p] # Idle)'
        PROVE  p = q
    <2>1. kind \notin races
      BY <1>4 DEF Start
    <2>2. CASE InFlight = {}
      BY <1>1, <1>3, <1>4, <2>2 DEF Running
    <2>3. CASE InFlight # {}
      <3>1. kind \notin InFlight /\ kind # pending.call
        BY <1>4, <2>3 DEF Start
      <3>2. q # r
        BY <1>1, <1>2, <1>4, <3>1 DEF Running
      <3>3. Running(q, kind)
        BY <1>1, <1>4, <3>2 DEF Running
      <3> QED  BY <1>3, <3>1, <3>3 DEF Running
    <2> QED  BY <2>2, <2>3
  <1>5. ASSUME "sweep" \notin races', NEW q \in Requests, NEW p \in Requests,
               Running(q, "sweep")', Running(p, "sweep")'
        PROVE  p = q
    <2>1. "sweep" \notin races
      BY <1>5 DEF Start
    <2>2. CASE pending.call = "sweep"
      <3>1. "sweep" \notin InFlight
        BY <1>5, <2>2 DEF Start
      <3>2. \A x \in Requests \ {r} : ~Running(x, "sweep")'
        BY <1>1, <1>3, <3>1 DEF Running
      <3> QED  BY <1>5, <3>2
    <2>3. CASE pending.call # "sweep"
      <3>1. q # r /\ p # r
        BY <1>1, <1>2, <1>5, <2>3 DEF Running
      <3>2. Running(q, "sweep") /\ Running(p, "sweep")
        BY <1>1, <1>5, <3>1 DEF Running
      <3> QED  BY <2>1, <3>2 DEF RaceInv
    <2> QED  BY <2>2, <2>3
  <1>6. races \subseteq races'
    BY DEF Start
  <1> QED  BY <1>4, <1>5, <1>6 DEF RaceInv

\* Every step keeps RaceInv, and what raced stays known.
LEMMA RaceStep ==
  ASSUME TypeOK, RaceInv, [Next]_vars
  PROVE  RaceInv' /\ races \subseteq races'
  <1>1. CASE request' = request /\ races \subseteq races'
    BY <1>1 DEF RaceInv, Running
  <1>2. ASSUME NEW a \in Accounts,
               \/ \E owner \in Owners : InsertAccount(a, owner)
               \/ ResolvePayment(a) \/ TransferToHouse(a) \/ PeriodPasses(a)
        PROVE  request' = request /\ races \subseteq races'
    BY <1>2 DEF InsertAccount, ResolvePayment, TransferToHouse, PeriodPasses, AtOnce
  <1>3. ASSUME NEW r \in Requests,
               \/ WriteConfirm(r) \/ WriteLaunch(r) \/ WriteOpen(r) \/ WriteResponse(r)
               \/ ResolveCase(r) \/ UpdateAccount(r) \/ WriteRetain(r) \/ WriteSweep(r)
               \/ Abandon(r)
        PROVE  RaceInv' /\ races \subseteq races'
    <2>1. /\ races' = races
          /\ \A p \in Requests \ {r} : request'[p] = request[p]
          /\ \/ request'[r] = Idle
             \/ /\ request[r] # Idle /\ Kind(request[r].call) = "resolve"
                /\ request'[r] # Idle /\ Kind(request'[r].call) = "resolve"
      BY <1>3, WriteMoves
    <2>2. \A p \in Requests : \A kind : Running(p, kind)' => Running(p, kind)
      BY <2>1 DEF Running
    <2>3. \A p \in Requests : request'[p] # Idle => request[p] # Idle
      BY <2>1
    <2> QED  BY <2>1, <2>2, <2>3 DEF RaceInv
  <1>4. CASE UNCHANGED vars
    BY <1>1, <1>4 DEF vars
  <1> QED  BY <1>1, <1>2, <1>3, <1>4, NextCases, StartRace

\* A step of one transaction beside a launch or a resolution is noticed.
LEMMA AtOnceRace ==
  ASSUME AtOnce, NEW kind \in {"launch", "resolve"}, kind \notin races', NEW r \in Requests
  PROVE  ~Running(r, kind)
  BY DEF AtOnce, InFlight, Running

-----------------------------------------------------------------------------
(* The payment standing *)

\* The status and the health of an account agree with its payments.
Agrees(row) ==
  /\ row.status = "ACTIVE" \/ row.health = "HEALTHY" => row.current
  /\ row.health = "PAYMENT_FAILED" => ~row.current

\* A launch that nothing ran beside has read the standing that still holds.
LaunchIsCurrent ==
  "launch" \in races \/
  \A r \in Requests : At(r, "launch") => request[r].current = account[request[r].account].current

\* PaymentStandingShows is inductive once the launches in flight are known to
\* have read the standing they write by.
StandingInv == PaymentStandingShows /\ LaunchIsCurrent

\* Every write of an account but a launch by an outdated standing keeps them
\* in agreement.
LEMMA AgreementKept ==
  ASSUME NEW row \in Account, Agrees(row)
  PROVE  /\ \A current \in BOOLEAN :
              Agrees([row EXCEPT !.launched = TRUE,
                                 !.status = IF current THEN "ACTIVE" ELSE "PAYMENT_FAILED",
                                 !.health = IF current THEN "HEALTHY" ELSE "PAYMENT_FAILED",
                                 !.current = current, !.attention = ~current])
         /\ Agrees(Launched(row, row.current))
         /\ \A trigger : Agrees(AfterTrigger(row, trigger))
         /\ \A remaining : Agrees(Resolved(row, remaining))
         /\ Agrees([row EXCEPT !.status = "ACTIVE", !.health = "HEALTHY", !.current = TRUE,
                               !.attention = FALSE])
         /\ \A owner : /\ Agrees([row EXCEPT !.status = "PENDING_LAUNCH", !.owner = owner])
                       /\ Agrees([row EXCEPT !.owner = owner, !.status = "HOUSE"])
         /\ \A due : Agrees([row EXCEPT !.due = due])
  <1>1. \A current \in BOOLEAN :
          Agrees([row EXCEPT !.launched = TRUE,
                             !.status = IF current THEN "ACTIVE" ELSE "PAYMENT_FAILED",
                             !.health = IF current THEN "HEALTHY" ELSE "PAYMENT_FAILED",
                             !.current = current, !.attention = ~current])
    BY DEF Agrees, Account
  <1>2. Agrees(Launched(row, row.current))
    BY DEF Agrees, Account, Launched
  <1>3. \A trigger : Agrees(AfterTrigger(row, trigger))
    BY DEF Agrees, Account, AfterTrigger
  <1>4. \A remaining : Agrees(Resolved(row, remaining))
    BY DEF Agrees, Account, Resolved
  <1>5. Agrees([row EXCEPT !.status = "ACTIVE", !.health = "HEALTHY", !.current = TRUE,
                           !.attention = FALSE])
    BY DEF Agrees, Account
  <1>6. \A owner : /\ Agrees([row EXCEPT !.status = "PENDING_LAUNCH", !.owner = owner])
                   /\ Agrees([row EXCEPT !.owner = owner, !.status = "HOUSE"])
    BY DEF Agrees, Account
  <1>7. \A due : Agrees([row EXCEPT !.due = due])
    BY DEF Agrees, Account
  <1> QED  BY <1>1, <1>2, <1>3, <1>4, <1>5, <1>6, <1>7

\* A request at a call runs.
LEMMA AtRuns ==
  ASSUME NEW r \in Requests, NEW call \in Calls, At(r, call)
  PROVE  Running(r, Kind(call)) /\ request[r] # Idle
  <1>1. Idle.call = "none"
    BY DEF Idle
  <1> QED  BY <1>1 DEF At, Running, Calls

\* The writes of a request keep the accounts in agreement.
LEMMA WriteAgrees ==
  ASSUME TypeOK, StandingInv, "launch" \notin races, NEW r \in Requests,
         \/ WriteConfirm(r) \/ WriteLaunch(r) \/ WriteOpen(r) \/ WriteResponse(r)
         \/ ResolveCase(r) \/ UpdateAccount(r) \/ WriteRetain(r) \/ WriteSweep(r)
         \/ Abandon(r),
         NEW b \in Accounts
  PROVE  Agrees(account'[b])
  <1> DEFINE q == request[r]
  <1>1. account[b] \in Account /\ Agrees(account[b])
    BY DEF StandingInv, PaymentStandingShows, Agrees, TypeOK
  <1>2. CASE WriteConfirm(r)
    <2>1. q.current \in BOOLEAN
      BY <1>2, PendingType DEF WriteConfirm, At, Calls, Pending
    <2>2. account'[b] =
            IF b = q.account
            THEN [account[b] EXCEPT !.launched = TRUE,
                                    !.status = IF q.current THEN "ACTIVE" ELSE "PAYMENT_FAILED",
                                    !.health = IF q.current THEN "HEALTHY" ELSE "PAYMENT_FAILED",
                                    !.current = q.current, !.attention = ~q.current]
            ELSE account[b]
      BY <1>2 DEF WriteConfirm, TypeOK
    <2>3. Agrees([account[b] EXCEPT !.launched = TRUE,
                                    !.status = IF q.current THEN "ACTIVE" ELSE "PAYMENT_FAILED",
                                    !.health = IF q.current THEN "HEALTHY" ELSE "PAYMENT_FAILED",
                                    !.current = q.current, !.attention = ~q.current])
      BY <1>1, <2>1, AgreementKept
    <2> QED  BY <1>1, <2>2, <2>3
  <1>3. CASE WriteLaunch(r)
    <2>1. b = q.account => q.current = account[b].current
      BY <1>3 DEF WriteLaunch, StandingInv, LaunchIsCurrent
    <2>2. account'[b] = IF b = q.account THEN Launched(account[b], q.current) ELSE account[b]
      BY <1>3 DEF WriteLaunch, TypeOK
    <2> QED  BY <1>1, <2>1, <2>2, AgreementKept
  <1>4. CASE WriteOpen(r)
    <2>1. account'[b] = IF b = q.account THEN AfterTrigger(account[b], q.trigger) ELSE account[b]
      BY <1>4 DEF WriteOpen, TypeOK
    <2> QED  BY <1>1, <2>1, AgreementKept
  <1>5. CASE UpdateAccount(r)
    <2>1. account'[b] = IF b = q.account THEN Resolved(account[b], q.remaining) ELSE account[b]
      BY <1>5 DEF UpdateAccount, TypeOK
    <2> QED  BY <1>1, <2>1, AgreementKept
  <1>6. CASE WriteSweep(r)
    <2>1. PICK due : account'[b] = [account[b] EXCEPT !.due = due]
      BY <1>6 DEF WriteSweep
    <2>2. Agrees([account[b] EXCEPT !.due = due])
      BY <1>1, AgreementKept
    <2> QED  BY <2>1, <2>2
  <1>7. CASE UNCHANGED account
    BY <1>1, <1>7
  <1> QED
    BY <1>2, <1>3, <1>4, <1>5, <1>6, <1>7
    DEF WriteResponse, ResolveCase, WriteRetain, Abandon

\* A request that writes has begun.
LEMMA WriterRuns ==
  ASSUME NEW r \in Requests,
         \/ WriteConfirm(r) \/ WriteLaunch(r) \/ WriteOpen(r) \/ WriteResponse(r)
         \/ ResolveCase(r) \/ UpdateAccount(r) \/ WriteRetain(r) \/ WriteSweep(r)
         \/ Abandon(r)
  PROVE  request[r] # Idle
  <1>1. {"confirm", "launch", "retain", "open", "respond", "resolve", "update", "sweep"} \subseteq Calls
    BY DEF Calls
  <1> QED
    BY <1>1, AtRuns DEF WriteConfirm, WriteLaunch, WriteOpen, WriteResponse, ResolveCase,
                        UpdateAccount, WriteRetain, WriteSweep, Abandon

\* Every step keeps StandingInv.
LEMMA StandingStep ==
  ASSUME TypeOK, RaceInv, StandingInv, [Next]_vars
  PROVE  StandingInv'
  <1> SUFFICES ASSUME "launch" \notin races'
               PROVE  /\ \A b \in Accounts : Agrees(account'[b])
                      /\ \A p \in Requests : At(p, "launch")' =>
                           request'[p].current = account'[request'[p].account].current
    BY DEF StandingInv, PaymentStandingShows, LaunchIsCurrent, Agrees
  <1>1. "launch" \notin races
    BY RaceStep
  <1>2. \A b \in Accounts : account[b] \in Account /\ Agrees(account[b])
    BY <1>1 DEF StandingInv, PaymentStandingShows, Agrees, TypeOK
  <1>3. \A p \in Requests : At(p, "launch") =>
          request[p].current = account[request[p].account].current
    BY <1>1 DEF StandingInv, LaunchIsCurrent
  <1>4. "launch" \in Calls /\ Kind("launch") = "launch"
    BY DEF Calls, Kind
  <1>5. ASSUME NEW a \in Accounts,
               \/ \E owner \in Owners : InsertAccount(a, owner)
               \/ ResolvePayment(a) \/ TransferToHouse(a)
        PROVE  /\ \A b \in Accounts : Agrees(account'[b])
               /\ \A p \in Requests : ~At(p, "launch")'
    <2>1. AtOnce /\ request' = request
      BY <1>5 DEF InsertAccount, ResolvePayment, TransferToHouse
    <2>2. \A p \in Requests : ~At(p, "launch")'
      BY <1>4, <2>1, AtOnceRace, AtRuns DEF At
    <2>3. ASSUME NEW b \in Accounts PROVE Agrees(account'[b])
      <3>1. CASE b # a
        BY <1>2, <1>5, <3>1 DEF InsertAccount, ResolvePayment, TransferToHouse, TypeOK
      <3>2. ASSUME b = a, NEW owner \in Owners, InsertAccount(a, owner)
            PROVE  Agrees(account'[b])
        <4>1. account'[b] = [account[b] EXCEPT !.status = "PENDING_LAUNCH", !.owner = owner]
          BY <3>2 DEF InsertAccount, TypeOK
        <4>2. Agrees([account[b] EXCEPT !.status = "PENDING_LAUNCH", !.owner = owner])
          BY <1>2, AgreementKept
        <4> QED  BY <4>1, <4>2
      <3>3. CASE b = a /\ ResolvePayment(a)
        <4>1. account'[b] = [account[b] EXCEPT !.status = "ACTIVE", !.health = "HEALTHY",
                                               !.current = TRUE, !.attention = FALSE]
          BY <3>3 DEF ResolvePayment, TypeOK
        <4>2. Agrees([account[b] EXCEPT !.status = "ACTIVE", !.health = "HEALTHY",
                                        !.current = TRUE, !.attention = FALSE])
          BY <1>2, AgreementKept
        <4> QED  BY <4>1, <4>2
      <3>4. CASE b = a /\ TransferToHouse(a)
        <4>1. account'[b] = [account[b] EXCEPT !.owner = NoAgent, !.status = "HOUSE"]
          BY <3>4 DEF TransferToHouse, TypeOK
        <4>2. Agrees([account[b] EXCEPT !.owner = NoAgent, !.status = "HOUSE"])
          BY <1>2, AgreementKept
        <4> QED  BY <4>1, <4>2
      <3> QED  BY <1>5, <3>1, <3>2, <3>3, <3>4
    <2> QED  BY <2>2, <2>3
  <1>6. ASSUME NEW a \in Accounts, PeriodPasses(a)
        PROVE  /\ \A b \in Accounts : Agrees(account'[b]) /\ account'[b].current = account[b].current
               /\ request' = request
    <2>1. ASSUME NEW b \in Accounts
          PROVE  Agrees(account'[b]) /\ account'[b].current = account[b].current
      <3>1. account'[b] = account[b] \/ account'[b] = [account[b] EXCEPT !.due = TRUE]
        BY <1>6 DEF PeriodPasses, TypeOK
      <3>2. [account[b] EXCEPT !.due = TRUE].current = account[b].current
        BY <1>2 DEF Account
      <3>3. Agrees([account[b] EXCEPT !.due = TRUE])
        BY <1>2, AgreementKept
      <3> QED  BY <1>2, <3>1, <3>2, <3>3
    <2> QED  BY <1>6, <2>1 DEF PeriodPasses
  <1>7. ASSUME NEW r \in Requests, NEW pending,
               Fresh(pending), Start(r, pending), UNCHANGED <<account, case, assignment>>
        PROVE  \A p \in Requests : At(p, "launch")' =>
                 request'[p].current = account'[request'[p].account].current
    <2>1. request'[r] = pending /\ \A p \in Requests \ {r} : request'[p] = request[p]
      BY <1>7 DEF Start, TypeOK
    <2> QED  BY <1>3, <1>7, <2>1 DEF Fresh, At
  <1>8. ASSUME NEW r \in Requests,
               \/ WriteConfirm(r) \/ WriteLaunch(r) \/ WriteOpen(r) \/ WriteResponse(r)
               \/ ResolveCase(r) \/ UpdateAccount(r) \/ WriteRetain(r) \/ WriteSweep(r)
               \/ Abandon(r),
               NEW p \in Requests, At(p, "launch")'
        PROVE  FALSE
    <2>1. request[r] # Idle
      BY <1>8, WriterRuns
    <2>2. p # r
      <3>1. Kind("launch") # "resolve" /\ Idle.call # "launch"
        BY DEF Kind, Idle
      <3> QED  BY <1>8, <3>1, WriteMoves DEF At
    <2>3. At(p, "launch")
      BY <1>8, <2>2, WriteMoves DEF At
    <2> QED  BY <1>1, <1>4, <2>1, <2>2, <2>3, AtRuns DEF RaceInv
  <1>9. CASE UNCHANGED vars
    BY <1>2, <1>3, <1>9 DEF vars, At
  <1>10. ASSUME NEW p \in Requests, At(p, "launch") PROVE request[p].account \in Accounts
    BY <1>4, <1>10, PendingType DEF At, Pending
  <1>11. CASE \E a \in Accounts : PeriodPasses(a)
    BY <1>3, <1>6, <1>10, <1>11 DEF At
  <1> QED
    BY <1>1, <1>2, <1>5, <1>7, <1>8, <1>9, <1>11, NextCases, WriteAgrees

\* Whatever confirmations, problems, resolutions, transfers and sweeps follow
\* each other, the status and the health of every account agree with its
\* payments, unless something ran beside a launch.
THEOREM StandingShows == Spec => []PaymentStandingShows
  <1>1. Init => RaceInv /\ StandingInv
    <2>1. Idle.call = "none"
      BY DEF Idle
    <2>2. Init => /\ \A r \in Requests : request[r] = Idle
                  /\ \A a \in Accounts : /\ account[a].health = "HEALTHY"
                                         /\ account[a].status = "ABSENT"
                                         /\ account[a].current
      BY DEF Init
    <2>3. Init => RaceInv
      BY <2>2 DEF RaceInv, Running
    <2>4. Init => StandingInv
      BY <2>1, <2>2 DEF StandingInv, PaymentStandingShows, LaunchIsCurrent, At
    <2> QED  BY <2>3, <2>4
  <1>2. TypeOK /\ RaceInv /\ [Next]_vars => RaceInv'
    BY RaceStep
  <1>3. TypeOK /\ RaceInv /\ StandingInv /\ [Next]_vars => StandingInv'
    BY StandingStep
  <1>4. StandingInv => PaymentStandingShows
    BY DEF StandingInv
  <1> QED  BY <1>1, <1>2, <1>3, <1>4, ServicingTypeCorrect, PTL DEF Spec

-----------------------------------------------------------------------------
(* Open cases *)

\* What a step may make of a case that is there: it may be answered, resolved
\* or assigned anew, and stays the account's and of its trigger.
CaseGoesOn(k) ==
  /\ case'[k].account = case[k].account /\ case'[k].checkIn = case[k].checkIn
  /\ case[k].status # "ABSENT" => case'[k].status # "ABSENT"
  /\ case'[k].status \in OpenStatuses => case[k].status \in OpenStatuses

\* Requests other than a resolution's end leave the open cases open.
LEMMA CaseWrites ==
  ASSUME TypeOK, NEW k \in Cases
  PROVE  /\ \A r \in Requests : WriteResponse(r) =>
              CaseGoesOn(k) /\ (case'[k].status \in OpenStatuses <=> case[k].status \in OpenStatuses)
         /\ \A a \in Accounts : TransferToHouse(a) =>
              CaseGoesOn(k) /\ (case'[k].status \in OpenStatuses <=> case[k].status \in OpenStatuses)
         /\ \A r \in Requests : UpdateAccount(r) =>
              CaseGoesOn(k) /\ (k # request[r].case => case'[k] = case[k])
         /\ \A r \in Requests : WriteOpen(r) =>
              \/ case'[k] = case[k]
              \/ /\ case[k].status = "ABSENT"
                 /\ case'[k] = [status |-> "OPEN", account |-> request[r].account,
                                checkIn |-> FALSE, assigned |-> request[r].owner]
         /\ \A r \in Requests : WriteSweep(r) =>
              case'[k] = case[k] \/ (case[k].status = "ABSENT" /\ case'[k].status = "OPEN")
  <1>1. case[k] \in Case
    BY DEF TypeOK
  <1>2. ASSUME NEW r \in Requests, WriteResponse(r)
        PROVE  CaseGoesOn(k) /\ (case'[k].status \in OpenStatuses <=> case[k].status \in OpenStatuses)
    <2>1. case'[k] = case[k] \/ case'[k] = [case[k] EXCEPT !.status = Responded(@)]
      BY <1>2 DEF WriteResponse, TypeOK
    <2> QED  BY <1>1, <2>1 DEF CaseGoesOn, Case, Responded, OpenStatuses
  <1>3. ASSUME NEW a \in Accounts, TransferToHouse(a)
        PROVE  CaseGoesOn(k) /\ (case'[k].status \in OpenStatuses <=> case[k].status \in OpenStatuses)
    <2>1. case'[k] = case[k] \/ case'[k] = [case[k] EXCEPT !.assigned = NoAgent]
      BY <1>3 DEF TransferToHouse
    <2> QED  BY <1>1, <2>1 DEF CaseGoesOn, Case
  <1>4. ASSUME NEW r \in Requests, UpdateAccount(r)
        PROVE  CaseGoesOn(k) /\ (k # request[r].case => case'[k] = case[k])
    <2>1. case'[k] = IF k = request[r].case THEN [case[k] EXCEPT !.status = "RESOLVED"] ELSE case[k]
      BY <1>4 DEF UpdateAccount, TypeOK
    <2> QED  BY <1>1, <2>1 DEF CaseGoesOn, Case, OpenStatuses
  <1>5. ASSUME NEW r \in Requests, WriteOpen(r)
        PROVE  \/ case'[k] = case[k]
               \/ /\ case[k].status = "ABSENT"
                  /\ case'[k] = [status |-> "OPEN", account |-> request[r].account,
                                 checkIn |-> FALSE, assigned |-> request[r].owner]
    BY <1>5 DEF WriteOpen, TypeOK
  <1>6. ASSUME NEW r \in Requests, WriteSweep(r)
        PROVE  case'[k] = case[k] \/ (case[k].status = "ABSENT" /\ case'[k].status = "OPEN")
    <2> DEFINE targets == request[r].targets
    <2>1. PICK new \in [targets -> {j \in Cases : case[j].status = "ABSENT"}] :
            case'[k] = IF \E t \in targets : new[t] = k
                       THEN LET t == CHOOSE t \in targets : new[t] = k IN
                            [status |-> "OPEN", account |-> t[1], checkIn |-> TRUE,
                             assigned |-> t[2]]
                       ELSE case[k]
      BY <1>6 DEF WriteSweep
    <2>2. (\E t \in targets : new[t] = k) => case[k].status = "ABSENT"
      OBVIOUS
    <2> QED  BY <2>1, <2>2
  <1> QED  BY <1>2, <1>3, <1>4, <1>5, <1>6

\* A case that is there stays, for the same account.
LEMMA CaseStays ==
  ASSUME TypeOK, [Next]_vars, NEW k \in Cases, case[k].status # "ABSENT"
  PROVE  case'[k].status # "ABSENT" /\ case'[k].account = case[k].account
  <1>1. CASE UNCHANGED case
    BY <1>1
  <1>2. ASSUME NEW r \in Requests,
               WriteConfirm(r) \/ WriteLaunch(r) \/ ResolveCase(r) \/ WriteRetain(r) \/ Abandon(r)
        PROVE  UNCHANGED case
    BY <1>2 DEF WriteConfirm, WriteLaunch, ResolveCase, WriteRetain, Abandon
  <1>3. ASSUME NEW a \in Accounts,
               \/ \E owner \in Owners : InsertAccount(a, owner)
               \/ ResolvePayment(a) \/ PeriodPasses(a)
        PROVE  UNCHANGED case
    BY <1>3 DEF InsertAccount, ResolvePayment, PeriodPasses
  <1>4. CASE UNCHANGED vars
    BY <1>4 DEF vars
  <1>5. ASSUME NEW r \in Requests,
               WriteResponse(r) \/ UpdateAccount(r) \/ WriteOpen(r) \/ WriteSweep(r)
        PROVE  case'[k].status # "ABSENT" /\ case'[k].account = case[k].account
    BY <1>5, CaseWrites DEF CaseGoesOn
  <1>6. ASSUME NEW a \in Accounts, TransferToHouse(a)
        PROVE  case'[k].status # "ABSENT" /\ case'[k].account = case[k].account
    BY <1>6, CaseWrites DEF CaseGoesOn
  <1> QED  BY <1>1, <1>2, <1>3, <1>4, <1>5, <1>6, NextCases

-----------------------------------------------------------------------------
(* The reason of attention *)

\* A request about a case is about a case of its account.
CaseIsKnown ==
  \A r \in Requests : request[r].call \in {"respond", "resolve", "update"} =>
    /\ request[r].case \in Cases
    /\ case[request[r].case].status # "ABSENT"
    /\ case[request[r].case].account = request[r].account

\* A resolution that nothing ran beside knows whether other cases are open.
RemainingIsKnown ==
  "resolve" \in races \/
  \A r \in Requests : At(r, "update") =>
    (request[r].remaining <=> OpenCases(request[r].account) \ {request[r].case} # {})

\* AttentionHasReason is inductive once it is known whose case a resolution
\* takes away and what it knows of the others.
AttentionInv == CaseIsKnown /\ AttentionHasReason /\ RemainingIsKnown

\* Every step keeps CaseIsKnown.
LEMMA CaseIsKnownStep ==
  ASSUME TypeOK, CaseIsKnown, [Next]_vars
  PROVE  CaseIsKnown'
  <1> DEFINE Known(q) == q.call \in {"respond", "resolve", "update"} =>
                           /\ q.case \in Cases
                           /\ case[q.case].status # "ABSENT"
                           /\ case[q.case].account = q.account
  <1>1. SUFFICES ASSUME NEW r \in Requests PROVE Known(request'[r])
    <2>1. \A q : Known(q) => (q.call \in {"respond", "resolve", "update"} =>
                                /\ q.case \in Cases
                                /\ case'[q.case].status # "ABSENT"
                                /\ case'[q.case].account = q.account)
      BY CaseStays
    <2> QED  BY <1>1, <2>1 DEF CaseIsKnown
  <1>2. \A p \in Requests : Known(request[p])
    BY DEF CaseIsKnown
  <1>3. Known(Idle)
    <2>1. Idle.call = "none"
      BY DEF Idle
    <2> QED  BY <2>1
  <1>4. ASSUME NEW p \in Requests, NEW pending,
               Fresh(pending), Start(p, pending), UNCHANGED <<account, case, assignment>>
        PROVE  Known(request'[r])
    <2>1. Known(pending)
      BY <1>4 DEF Fresh
    <2>2. request'[r] = pending \/ request'[r] = request[r]
      BY <1>4 DEF Start, TypeOK
    <2> HIDE DEF Known
    <2> QED  BY <1>2, <2>1, <2>2
  <1>5. ASSUME NEW p \in Requests,
               \/ WriteConfirm(p) \/ WriteLaunch(p) \/ WriteOpen(p) \/ WriteResponse(p)
               \/ ResolveCase(p) \/ UpdateAccount(p) \/ WriteRetain(p) \/ WriteSweep(p)
               \/ Abandon(p)
        PROVE  Known(request'[r])
    <2>1. request'[r] = request[r] \/ request'[r] = Idle \/ (r = p /\ ResolveCase(r))
      BY <1>5, WriteMoves
    <2>2. CASE ResolveCase(r)
      <3>1. request[r].call = "resolve" /\ request[r] \in Pending
        BY <2>2, PendingType DEF ResolveCase, At, Calls
      <3>2. \E remaining : request'[r] = [request[r] EXCEPT !.call = "update", !.remaining = remaining]
        BY <2>2 DEF ResolveCase, TypeOK
      <3>3. request'[r].case = request[r].case /\ request'[r].account = request[r].account
        BY <3>1, <3>2 DEF Pending
      <3> QED  BY <1>2, <3>1, <3>3
    <2> HIDE DEF Known
    <2> QED  BY <1>2, <1>3, <2>1, <2>2
  <1>6. ASSUME NEW a \in Accounts,
               \/ \E owner \in Owners : InsertAccount(a, owner)
               \/ ResolvePayment(a) \/ TransferToHouse(a) \/ PeriodPasses(a)
        PROVE  request'[r] = request[r]
    BY <1>6 DEF InsertAccount, ResolvePayment, TransferToHouse, PeriodPasses
  <1>7. CASE UNCHANGED vars
    BY <1>2, <1>7 DEF vars
  <1> HIDE DEF Known
  <1> QED  BY <1>2, <1>4, <1>5, <1>6, <1>7, NextCases

\* What gives an account's call for attention its reason
HasReason(b) == account[b].attention => ~account[b].current \/ OpenCases(b) # {}

\* An account that asks for no more attention keeps its reason while its open
\* cases stay open.
LEMMA ReasonKept ==
  ASSUME NEW b \in Accounts, HasReason(b),
         account'[b].attention => account[b].attention,
         account'[b].current = account[b].current,
         OpenCases(b) # {} => OpenCases(b)' # {}
  PROVE  HasReason(b)'
  BY DEF HasReason

\* Open cases depend on the cases alone.
LEMMA OpenCasesFrame ==
  ASSUME NEW b \in Accounts
  PROVE  /\ case' = case => OpenCases(b)' = OpenCases(b)
         /\ (\A k \in Cases : /\ case'[k].account = case[k].account
                              /\ case'[k].status \in OpenStatuses <=> case[k].status \in OpenStatuses)
              => OpenCases(b)' = OpenCases(b)
         /\ (\A k \in Cases : case'[k] = case[k] \/ case[k].status = "ABSENT")
              => OpenCases(b) \subseteq OpenCases(b)'
  <1>1. case' = case => OpenCases(b)' = OpenCases(b)
    BY DEF OpenCases
  <1>2. (\A k \in Cases : /\ case'[k].account = case[k].account
                          /\ case'[k].status \in OpenStatuses <=> case[k].status \in OpenStatuses)
          => OpenCases(b)' = OpenCases(b)
    BY DEF OpenCases
  <1>3. (\A k \in Cases : case'[k] = case[k] \/ case[k].status = "ABSENT")
          => OpenCases(b) \subseteq OpenCases(b)'
    BY DEF OpenCases, OpenStatuses
  <1> QED  BY <1>1, <1>2, <1>3

\* The writes of a request leave every account its reason.
LEMMA WriteReasons ==
  ASSUME TypeOK, AttentionInv, "resolve" \notin races, NEW r \in Requests,
         \/ WriteConfirm(r) \/ WriteLaunch(r) \/ WriteOpen(r) \/ WriteResponse(r)
         \/ ResolveCase(r) \/ UpdateAccount(r) \/ WriteRetain(r) \/ WriteSweep(r)
         \/ Abandon(r),
         NEW b \in Accounts
  PROVE  HasReason(b)'
  <1> DEFINE q == request[r]
  <1>1. account[b] \in Account /\ HasReason(b)
    BY DEF AttentionInv, AttentionHasReason, HasReason, TypeOK
  <1>2. CASE WriteConfirm(r)
    <2>1. OpenCases(b)' = OpenCases(b)
      BY <1>2, OpenCasesFrame DEF WriteConfirm
    <2>2. CASE b = q.account
      <3>1. account'[b].current = q.current /\ account'[b].attention = ~q.current
        BY <1>1, <1>2, <2>2 DEF WriteConfirm, TypeOK, Account
      <3> QED  BY <3>1 DEF HasReason
    <2>3. CASE b # q.account
      <3>1. account'[b] = account[b]
        BY <1>2, <2>3 DEF WriteConfirm, TypeOK
      <3> QED  BY <1>1, <2>1, <3>1, ReasonKept
    <2> QED  BY <2>2, <2>3
  <1>3. CASE WriteLaunch(r)
    <2>1. OpenCases(b)' = OpenCases(b)
      BY <1>3, OpenCasesFrame DEF WriteLaunch
    <2>2. account'[b].current = account[b].current /\ account'[b].attention = account[b].attention
      BY <1>1, <1>3 DEF WriteLaunch, Launched, TypeOK, Account
    <2> QED  BY <1>1, <2>1, <2>2, ReasonKept
  <1>4. CASE WriteOpen(r)
    <2>1. \A k \in Cases : case'[k] = case[k] \/ case[k].status = "ABSENT"
      BY <1>4, CaseWrites
    <2>2. OpenCases(b) \subseteq OpenCases(b)'
      BY <2>1, OpenCasesFrame
    <2>3. CASE b = q.account
      <3>1. PICK k \in Cases : case' = [case EXCEPT ![k] = [status |-> "OPEN", account |-> b,
                                                            checkIn |-> FALSE, assigned |-> q.owner]]
        BY <1>4, <2>3 DEF WriteOpen
      <3>2. case'[k].account = b /\ case'[k].status = "OPEN"
        BY <3>1 DEF TypeOK
      <3>3. k \in OpenCases(b)'
        BY <3>2 DEF OpenCases, OpenStatuses
      <3> QED  BY <3>3 DEF HasReason
    <2>4. CASE b # q.account
      <3>1. account'[b] = account[b]
        BY <1>4, <2>4 DEF WriteOpen, TypeOK
      <3> QED  BY <1>1, <2>2, <3>1, ReasonKept
    <2> QED  BY <2>3, <2>4
  <1>5. CASE WriteResponse(r)
    <2>1. \A k \in Cases : /\ case'[k].account = case[k].account
                           /\ case'[k].status \in OpenStatuses <=> case[k].status \in OpenStatuses
      BY <1>5, CaseWrites DEF CaseGoesOn
    <2>2. OpenCases(b)' = OpenCases(b) /\ account' = account
      BY <1>5, <2>1, OpenCasesFrame DEF WriteResponse
    <2> QED  BY <1>1, <2>2, ReasonKept
  <1>6. CASE UpdateAccount(r)
    <2>1. /\ At(r, "update") /\ q.case \in Cases /\ case[q.case].account = q.account
          /\ q.remaining <=> OpenCases(q.account) \ {q.case} # {}
      BY <1>6 DEF UpdateAccount, At, AttentionInv, CaseIsKnown, RemainingIsKnown
    <2>2. \A k \in Cases \ {q.case} : case'[k] = case[k]
      BY <1>6, CaseWrites
    <2>3. OpenCases(b) \ {q.case} \subseteq OpenCases(b)'
      BY <2>2 DEF OpenCases
    <2>4. CASE b = q.account
      <3>1. account'[b] = Resolved(account[b], q.remaining)
        BY <1>6, <2>4 DEF UpdateAccount, TypeOK
      <3>2. /\ account'[b].current = account[b].current
            /\ account'[b].attention = (account[b].attention /\ (~account[b].current \/ q.remaining))
        BY <1>1, <3>1 DEF Resolved, Account
      <3> QED  BY <2>1, <2>3, <2>4, <3>2 DEF HasReason
    <2>5. CASE b # q.account
      <3>1. account'[b] = account[b]
        BY <1>6, <2>5 DEF UpdateAccount, TypeOK
      <3>2. OpenCases(b) \subseteq OpenCases(b)'
        BY <2>1, <2>3, <2>5 DEF OpenCases
      <3> QED  BY <1>1, <3>1, <3>2, ReasonKept
    <2> QED  BY <2>4, <2>5
  <1>7. CASE WriteSweep(r)
    <2>1. \A k \in Cases : case'[k] = case[k] \/ case[k].status = "ABSENT"
      BY <1>7, CaseWrites
    <2>2. OpenCases(b) \subseteq OpenCases(b)'
      BY <2>1, OpenCasesFrame
    <2>3. PICK due : account'[b] = [account[b] EXCEPT !.due = due]
      BY <1>7 DEF WriteSweep
    <2>4. account'[b].current = account[b].current /\ account'[b].attention = account[b].attention
      BY <1>1, <2>3 DEF Account
    <2> QED  BY <1>1, <2>2, <2>4, ReasonKept
  <1>8. CASE UNCHANGED <<account, case>>
    <2>1. OpenCases(b)' = OpenCases(b)
      BY <1>8, OpenCasesFrame
    <2> QED  BY <1>1, <1>8, <2>1, ReasonKept
  <1> QED
    BY <1>2, <1>3, <1>4, <1>5, <1>6, <1>7, <1>8 DEF ResolveCase, WriteRetain, Abandon

\* Steps of one transaction leave every account its reason.
LEMMA AtOnceReasons ==
  ASSUME TypeOK, NEW a \in Accounts,
         \/ \E owner \in Owners : InsertAccount(a, owner)
         \/ ResolvePayment(a) \/ TransferToHouse(a) \/ PeriodPasses(a),
         NEW b \in Accounts, HasReason(b)
  PROVE  HasReason(b)'
  <1>1. account[b] \in Account
    BY DEF TypeOK
  <1>2. CASE \E owner \in Owners : InsertAccount(a, owner)
    <2>1. account'[b].current = account[b].current /\ account'[b].attention = account[b].attention
      <3>1. PICK owner \in Owners : InsertAccount(a, owner)
        BY <1>2
      <3>2. \/ account'[b] = account[b]
            \/ account'[b] = [account[b] EXCEPT !.status = "PENDING_LAUNCH", !.owner = owner]
        BY <3>1 DEF InsertAccount, TypeOK
      <3> QED  BY <1>1, <3>2 DEF Account
    <2>2. OpenCases(b)' = OpenCases(b)
      BY <1>2, OpenCasesFrame DEF InsertAccount
    <2> QED  BY <2>1, <2>2, ReasonKept
  <1>3. CASE ResolvePayment(a)
    <2>1. OpenCases(b)' = OpenCases(b)
      BY <1>3, OpenCasesFrame DEF ResolvePayment
    <2>2. account'[b] = account[b] \/ ~account'[b].attention
      BY <1>1, <1>3 DEF ResolvePayment, TypeOK, Account
    <2> QED  BY <2>1, <2>2 DEF HasReason
  <1>4. CASE TransferToHouse(a)
    <2>1. account'[b].current = account[b].current /\ account'[b].attention = account[b].attention
      BY <1>1, <1>4 DEF TransferToHouse, TypeOK, Account
    <2>2. \A k \in Cases : /\ case'[k].account = case[k].account
                           /\ case'[k].status \in OpenStatuses <=> case[k].status \in OpenStatuses
      BY <1>4, CaseWrites DEF CaseGoesOn
    <2>3. OpenCases(b)' = OpenCases(b)
      BY <2>2, OpenCasesFrame
    <2> QED  BY <2>1, <2>3, ReasonKept
  <1>5. CASE PeriodPasses(a)
    <2>1. account'[b].current = account[b].current /\ account'[b].attention = account[b].attention
      BY <1>1, <1>5 DEF PeriodPasses, TypeOK, Account
    <2>2. OpenCases(b)' = OpenCases(b)
      BY <1>5, OpenCasesFrame DEF PeriodPasses
    <2> QED  BY <2>1, <2>2, ReasonKept
  <1> QED  BY <1>2, <1>3, <1>4, <1>5

\* What a resolution knows of the other cases, if it is about to use it
KnowsRemaining(p) ==
  At(p, "update") =>
    (request[p].remaining <=> OpenCases(request[p].account) \ {request[p].case} # {})

\* Every step keeps AttentionInv.
LEMMA AttentionStep ==
  ASSUME TypeOK, RaceInv, AttentionInv, [Next]_vars
  PROVE  AttentionInv'
  <1>1. CaseIsKnown'
    BY CaseIsKnownStep DEF AttentionInv
  <1>2. SUFFICES ASSUME "resolve" \notin races'
                 PROVE  (\A b \in Accounts : HasReason(b)') /\ \A p \in Requests : KnowsRemaining(p)'
    <2>1. (AttentionHasReason <=> "resolve" \in races \/ \A b \in Accounts : HasReason(b))'
      BY DEF AttentionHasReason, HasReason
    <2>2. (RemainingIsKnown <=> "resolve" \in races \/ \A p \in Requests : KnowsRemaining(p))'
      BY DEF RemainingIsKnown, KnowsRemaining
    <2> QED  BY <1>1, <1>2, <2>1, <2>2 DEF AttentionInv
  <1>3. "resolve" \notin races
    BY <1>2, RaceStep
  <1>4. /\ \A b \in Accounts : HasReason(b)
        /\ \A p \in Requests : KnowsRemaining(p)
    BY <1>3 DEF AttentionInv, AttentionHasReason, HasReason, RemainingIsKnown, KnowsRemaining
  <1>5. "update" \in Calls /\ Kind("update") = "resolve" /\ Idle.call # "update"
    BY DEF Calls, Kind, Idle
  <1>6. ASSUME NEW a \in Accounts,
               \/ \E owner \in Owners : InsertAccount(a, owner)
               \/ ResolvePayment(a) \/ TransferToHouse(a)
        PROVE  \A p \in Requests : KnowsRemaining(p)'
    <2>1. AtOnce /\ request' = request
      BY <1>6 DEF InsertAccount, ResolvePayment, TransferToHouse
    <2> QED  BY <1>2, <1>5, <2>1, AtOnceRace, AtRuns DEF At, KnowsRemaining
  <1>7. ASSUME NEW p \in Requests, request'[p] = request[p], case' = case
        PROVE  KnowsRemaining(p)'
    <2>1. OpenCases(request[p].account)' = OpenCases(request[p].account)
      BY <1>7 DEF OpenCases
    <2> QED  BY <1>4, <1>7, <2>1 DEF KnowsRemaining, At, OpenCases
  <1>8. ASSUME NEW r \in Requests, NEW pending,
               Fresh(pending), Start(r, pending), UNCHANGED <<account, case, assignment>>
        PROVE  (\A b \in Accounts : HasReason(b)') /\ \A p \in Requests : KnowsRemaining(p)'
    <2>1. \A b \in Accounts : HasReason(b)'
      BY <1>4, <1>8, OpenCasesFrame, ReasonKept
    <2>2. request'[r] = pending /\ \A p \in Requests \ {r} : request'[p] = request[p]
      BY <1>8 DEF Start, TypeOK
    <2>3. KnowsRemaining(r)'
      BY <1>8, <2>2 DEF KnowsRemaining, At, Fresh
    <2> QED  BY <1>7, <1>8, <2>1, <2>2, <2>3
  <1>9. ASSUME NEW r \in Requests,
               \/ WriteConfirm(r) \/ WriteLaunch(r) \/ WriteOpen(r) \/ WriteResponse(r)
               \/ ResolveCase(r) \/ UpdateAccount(r) \/ WriteRetain(r) \/ WriteSweep(r)
               \/ Abandon(r),
               NEW p \in Requests, At(p, "update")'
        PROVE  KnowsRemaining(p)'
    <2>1. request[r] # Idle
      BY <1>9, WriterRuns
    <2>2. CASE p # r
      <3>1. At(p, "update")
        BY <1>9, <2>2, WriteMoves DEF At
      <3> QED  BY <1>3, <1>5, <2>1, <2>2, <3>1, AtRuns DEF RaceInv
    <2>3. CASE p = r
      <3>1. ResolveCase(r)
        BY <1>5, <1>9, <2>3, WriteMoves DEF At
      <3>2. request[r] \in Pending
        BY <3>1, PendingType DEF ResolveCase, At, Calls
      <3>3. request'[r] = [request[r] EXCEPT !.call = "update",
                             !.remaining = OpenCases(request[r].account) \ {request[r].case} # {}]
        BY <3>1 DEF ResolveCase, TypeOK
      <3>4. /\ request'[r].account = request[r].account /\ request'[r].case = request[r].case
            /\ request'[r].remaining = (OpenCases(request[r].account) \ {request[r].case} # {})
        BY <3>2, <3>3 DEF Pending
      <3>5. (OpenCases(request[r].account) \ {request[r].case})'
              = OpenCases(request[r].account) \ {request[r].case}
        BY <3>1, <3>4 DEF ResolveCase, OpenCases
      <3>6. (OpenCases(request[r].account) \ {request[r].case} # {})'
              <=> OpenCases(request[r].account) \ {request[r].case} # {}
        BY <3>5
      <3>7. request'[r].remaining <=> (OpenCases(request[r].account) \ {request[r].case} # {})'
        BY <3>4, <3>6
      <3> QED  BY <2>3, <3>7 DEF KnowsRemaining
    <2> QED  BY <2>2, <2>3
  <1>10. ASSUME NEW r \in Requests,
                \/ WriteConfirm(r) \/ WriteLaunch(r) \/ WriteOpen(r) \/ WriteResponse(r)
                \/ ResolveCase(r) \/ UpdateAccount(r) \/ WriteRetain(r) \/ WriteSweep(r)
                \/ Abandon(r)
         PROVE  (\A b \in Accounts : HasReason(b)') /\ \A p \in Requests : KnowsRemaining(p)'
    <2>1. \A p \in Requests : KnowsRemaining(p)'
      BY <1>9, <1>10 DEF KnowsRemaining
    <2> QED  BY <1>3, <1>10, <2>1, WriteReasons
  <1>11. ASSUME NEW a \in Accounts, PeriodPasses(a)
         PROVE  \A p \in Requests : KnowsRemaining(p)'
    BY <1>7, <1>11 DEF PeriodPasses
  <1>12. CASE UNCHANGED vars
    <2>1. request' = request /\ case' = case /\ account' = account
      BY <1>12 DEF vars
    <2>2. \A b \in Accounts : HasReason(b)'
      BY <1>4, <2>1, OpenCasesFrame, ReasonKept
    <2> QED  BY <1>7, <2>1, <2>2
  <1> QED  BY <1>4, <1>6, <1>8, <1>10, <1>11, <1>12, NextCases, AtOnceReasons

\* An account asks for attention only while a case of it is open or a payment
\* is not settled, unless something ran beside a resolution.
THEOREM AttentionIsReasoned == Spec => []AttentionHasReason
  <1>1. Init => RaceInv /\ AttentionInv
    <2>1. Idle.call = "none"
      BY DEF Idle
    <2>2. Init => /\ \A r \in Requests : request[r] = Idle
                  /\ \A a \in Accounts : ~account[a].attention
      BY DEF Init
    <2>3. Init => RaceInv
      BY <2>2 DEF RaceInv, Running
    <2>4. Init => AttentionInv
      BY <2>1, <2>2 DEF AttentionInv, CaseIsKnown, AttentionHasReason, RemainingIsKnown, At
    <2> QED  BY <2>3, <2>4
  <1>2. TypeOK /\ RaceInv /\ [Next]_vars => RaceInv'
    BY RaceStep
  <1>3. TypeOK /\ RaceInv /\ AttentionInv /\ [Next]_vars => AttentionInv'
    BY AttentionStep
  <1>4. AttentionInv => AttentionHasReason
    BY DEF AttentionInv
  <1> QED  BY <1>1, <1>2, <1>3, <1>4, ServicingTypeCorrect, PTL DEF Spec

-----------------------------------------------------------------------------
(* Single check-ins *)

\* Any two open check-ins of an account are one.
IsSingle(a) == \A k, l \in OpenCheckIns(a) : k = l

\* A sweep is about to open one check-in of each account it found, none of
\* which has one yet.
SweepIsDue(r) ==
  At(r, "sweep") =>
    \A s, t \in request[r].targets : /\ OpenCheckIns(t[1]) = {}
                                     /\ s[1] = t[1] => s = t

\* CheckInsAreSingle is inductive once the targets of a sweep in flight are
\* known to be still without a check-in.
SingleInv ==
  "sweep" \in races \/
  /\ \A a \in Accounts : IsSingle(a)
  /\ \A r \in Requests : SweepIsDue(r)

\* No step but a sweep's adds an open check-in.
LEMMA CheckInsShrink ==
  ASSUME TypeOK, [Next]_vars, \A r \in Requests : ~WriteSweep(r), NEW a
  PROVE  OpenCheckIns(a)' \subseteq OpenCheckIns(a)
  <1> SUFFICES ASSUME NEW k \in Cases, case'[k].account = a, case'[k].status \in OpenStatuses,
                      case'[k].checkIn
               PROVE  case[k].account = a /\ case[k].status \in OpenStatuses /\ case[k].checkIn
    BY DEF OpenCheckIns, OpenCases
  <1>1. CASE UNCHANGED case
    BY <1>1
  <1>2. ASSUME NEW r \in Requests,
               WriteConfirm(r) \/ WriteLaunch(r) \/ ResolveCase(r) \/ WriteRetain(r) \/ Abandon(r)
        PROVE  UNCHANGED case
    BY <1>2 DEF WriteConfirm, WriteLaunch, ResolveCase, WriteRetain, Abandon
  <1>3. ASSUME NEW b \in Accounts,
               \/ \E owner \in Owners : InsertAccount(b, owner)
               \/ ResolvePayment(b) \/ PeriodPasses(b)
        PROVE  UNCHANGED case
    BY <1>3 DEF InsertAccount, ResolvePayment, PeriodPasses
  <1>4. CASE UNCHANGED vars
    BY <1>4 DEF vars
  <1>5. ASSUME NEW r \in Requests, WriteResponse(r) \/ UpdateAccount(r)
        PROVE  CaseGoesOn(k)
    BY <1>5, CaseWrites
  <1>6. ASSUME NEW b \in Accounts, TransferToHouse(b)
        PROVE  CaseGoesOn(k)
    BY <1>6, CaseWrites
  <1>7. ASSUME NEW r \in Requests, WriteOpen(r)
        PROVE  case'[k] = case[k]
    <2>1. \/ case'[k] = case[k]
          \/ case'[k] = [status |-> "OPEN", account |-> request[r].account,
                         checkIn |-> FALSE, assigned |-> request[r].owner]
      BY <1>7, CaseWrites
    <2> QED  BY <2>1
  <1>8. CASE CaseGoesOn(k)
    BY <1>8 DEF CaseGoesOn
  <1> QED  BY <1>1, <1>2, <1>3, <1>4, <1>5, <1>6, <1>7, <1>8, NextCases

\* The sweep opens one check-in of each of its targets.
LEMMA SweepOpensOne ==
  ASSUME TypeOK, NEW r \in Requests, WriteSweep(r), SweepIsDue(r), NEW a \in Accounts, IsSingle(a)
  PROVE  IsSingle(a)'
  <1> DEFINE targets == request[r].targets
  <1>1. PICK new \in [targets -> {k \in Cases : case[k].status = "ABSENT"}] :
          /\ \A s, t \in targets : new[s] = new[t] => s = t
          /\ case' = [k \in Cases |->
               IF \E t \in targets : new[t] = k
               THEN LET t == CHOOSE t \in targets : new[t] = k IN
                    [status |-> "OPEN", account |-> t[1], checkIn |-> TRUE,
                     assigned |-> t[2]]
               ELSE case[k]]
    BY DEF WriteSweep
  <1>2. \A s, t \in targets : OpenCheckIns(t[1]) = {} /\ (s[1] = t[1] => s = t)
    BY DEF SweepIsDue, WriteSweep
  <1>3. ASSUME NEW k \in OpenCheckIns(a)'
        PROVE  \/ k \in OpenCheckIns(a)
               \/ \E t \in targets : k = new[t] /\ t[1] = a
    <2>1. k \in Cases /\ case'[k].account = a /\ case'[k].status \in OpenStatuses /\ case'[k].checkIn
      BY <1>3 DEF OpenCheckIns, OpenCases
    <2>2. CASE \E t \in targets : new[t] = k
      <3> DEFINE t == CHOOSE t \in targets : new[t] = k
      <3>1. t \in targets /\ new[t] = k
        BY <2>2
      <3>2. case'[k] = [status |-> "OPEN", account |-> t[1], checkIn |-> TRUE, assigned |-> t[2]]
        BY <1>1, <2>1, <2>2
      <3> HIDE DEF t
      <3>3. t[1] = a
        BY <2>1, <3>2
      <3> QED  BY <3>1, <3>3
    <2>3. CASE ~\E t \in targets : new[t] = k
      <3>1. case'[k] = case[k]
        BY <1>1, <2>1, <2>3
      <3> QED  BY <2>1, <3>1 DEF OpenCheckIns, OpenCases
    <2> QED  BY <2>2, <2>3
  <1> SUFFICES ASSUME NEW k \in OpenCheckIns(a)', NEW l \in OpenCheckIns(a)'
               PROVE  k = l
    BY DEF IsSingle
  <1>4. CASE \E t \in targets : t[1] = a
    <2>1. OpenCheckIns(a) = {}
      BY <1>2, <1>4
    <2> QED  BY <1>2, <1>3, <2>1
  <1>5. CASE ~\E t \in targets : t[1] = a
    BY <1>3, <1>5 DEF IsSingle
  <1> QED  BY <1>4, <1>5

\* A sweep that starts is due.
LEMMA FreshSweepIsDue ==
  ASSUME TypeOK, NEW r \in Requests, NEW pending, Fresh(pending), Start(r, pending),
         UNCHANGED <<account, case, assignment>>
  PROVE  SweepIsDue(r)'
  <1>1. request'[r] = pending
    BY DEF Start, TypeOK
  <1>2. \A a : OpenCheckIns(a)' = OpenCheckIns(a)
    BY DEF OpenCheckIns, OpenCases
  <1>3. ASSUME At(r, "sweep")', NEW s \in pending.targets, NEW t \in pending.targets
        PROVE  OpenCheckIns(t[1]) = {} /\ (s[1] = t[1] => s = t)
    <2>1. pending.targets = {<<a, account[a].owner>> : a \in {b \in Accounts : DueCheckIn(b)}}
      BY <1>1, <1>3 DEF Fresh, At
    <2>2. PICK a \in Accounts : t = <<a, account[a].owner>> /\ DueCheckIn(a)
      BY <1>3, <2>1
    <2>3. PICK b \in Accounts : s = <<b, account[b].owner>>
      BY <1>3, <2>1
    <2> QED  BY <2>2, <2>3 DEF DueCheckIn
  <1> QED  BY <1>1, <1>2, <1>3 DEF SweepIsDue

\* Every step keeps SingleInv.
LEMMA SingleStep ==
  ASSUME TypeOK, RaceInv, SingleInv, [Next]_vars
  PROVE  SingleInv'
  <1> SUFFICES ASSUME "sweep" \notin races'
               PROVE  (\A a \in Accounts : IsSingle(a)') /\ \A p \in Requests : SweepIsDue(p)'
    BY DEF SingleInv
  <1>1. "sweep" \notin races
    BY RaceStep
  <1>2. (\A a \in Accounts : IsSingle(a)) /\ \A p \in Requests : SweepIsDue(p)
    BY <1>1 DEF SingleInv
  <1>3. "sweep" \in Calls /\ Kind("sweep") = "sweep" /\ Idle.call # "sweep" /\ Kind("sweep") # "resolve"
    BY DEF Calls, Kind, Idle
  <1>4. ASSUME NEW r \in Requests, WriteSweep(r)
        PROVE  (\A a \in Accounts : IsSingle(a)') /\ \A p \in Requests : SweepIsDue(p)'
    <2>1. \A a \in Accounts : IsSingle(a)'
      BY <1>2, <1>4, SweepOpensOne
    <2>2. Running(r, "sweep")
      BY <1>3, <1>4, AtRuns DEF WriteSweep
    <2>3. request'[r] = Idle /\ \A p \in Requests \ {r} : request'[p] = request[p]
      BY <1>4 DEF WriteSweep, Done, TypeOK
    <2>4. ASSUME NEW p \in Requests, At(p, "sweep")' PROVE FALSE
      <3>1. p # r /\ At(p, "sweep")
        BY <1>3, <2>3, <2>4 DEF At
      <3>2. Running(p, "sweep")
        BY <1>3, <3>1, AtRuns
      <3> QED  BY <1>1, <2>2, <3>1, <3>2 DEF RaceInv
    <2>5. \A p \in Requests : SweepIsDue(p)'
      BY <2>4 DEF SweepIsDue
    <2> QED  BY <2>1, <2>5
  <1>5. CASE \A r \in Requests : ~WriteSweep(r)
    <2>1. \A a : OpenCheckIns(a)' \subseteq OpenCheckIns(a)
      BY <1>5, CheckInsShrink
    <2>2. \A a \in Accounts : IsSingle(a)'
      BY <1>2, <2>1 DEF IsSingle
    <2>3. ASSUME NEW p \in Requests, request'[p] = request[p]
          PROVE  SweepIsDue(p)'
      <3>1. At(p, "sweep")' => At(p, "sweep")
        BY <2>3 DEF At
      <3>2. \A t : OpenCheckIns(t[1]) = {} => OpenCheckIns(t[1])' = {}
        BY <2>1
      <3> QED  BY <1>2, <2>3, <3>1, <3>2 DEF SweepIsDue
    <2>4. ASSUME NEW r \in Requests, NEW pending,
                 Fresh(pending), Start(r, pending), UNCHANGED <<account, case, assignment>>
          PROVE  \A p \in Requests : SweepIsDue(p)'
      <3>1. \A p \in Requests \ {r} : request'[p] = request[p]
        BY <2>4 DEF Start, TypeOK
      <3> QED  BY <2>3, <2>4, <3>1, FreshSweepIsDue
    <2>5. ASSUME NEW r \in Requests,
                 \/ WriteConfirm(r) \/ WriteLaunch(r) \/ WriteOpen(r) \/ WriteResponse(r)
                 \/ ResolveCase(r) \/ UpdateAccount(r) \/ WriteRetain(r) \/ WriteSweep(r)
                 \/ Abandon(r)
          PROVE  \A p \in Requests : SweepIsDue(p)'
      <3>1. \A p \in Requests \ {r} : SweepIsDue(p)'
        BY <2>3, <2>5, WriteMoves
      <3>2. ~At(r, "sweep")'
        BY <1>3, <2>5, WriteMoves DEF At
      <3> QED  BY <3>1, <3>2 DEF SweepIsDue
    <2>6. ASSUME NEW a \in Accounts,
                 \/ \E owner \in Owners : InsertAccount(a, owner)
                 \/ ResolvePayment(a) \/ TransferToHouse(a) \/ PeriodPasses(a)
          PROVE  request' = request
      BY <2>6 DEF InsertAccount, ResolvePayment, TransferToHouse, PeriodPasses
    <2>7. UNCHANGED vars => request' = request
      BY DEF vars
    <2>8. \A p \in Requests : SweepIsDue(p)'
      BY <2>3, <2>4, <2>5, <2>6, <2>7, NextCases
    <2> QED  BY <2>2, <2>8
  <1> QED  BY <1>4, <1>5

\* Unless two sweeps overlap, an account never has two open check-ins, whatever
\* is opened, answered, resolved or transferred while a sweep is in flight.
THEOREM SweepsOpenOne == Spec => []CheckInsAreSingle
  <1>1. Init => RaceInv /\ SingleInv
    <2>1. Idle.call = "none"
      BY DEF Idle
    <2>2. ASSUME Init
          PROVE  /\ \A r \in Requests : request[r] = Idle
                 /\ \A a : OpenCheckIns(a) = {}
      <3>1. \A k \in Cases : case[k].status = "ABSENT"
        <4> SUFFICES ASSUME NEW k \in Cases PROVE case[k].status = "ABSENT"
          OBVIOUS
        <4>1. case[k] \in {[status |-> "ABSENT", account |-> a, checkIn |-> FALSE,
                            assigned |-> NoAgent] : a \in Accounts}
          BY <2>2 DEF Init
        <4> QED  BY <4>1
      <3>2. \A a : OpenCheckIns(a) = {}
        BY <3>1 DEF OpenCheckIns, OpenCases, OpenStatuses
      <3> QED  BY <2>2, <3>2 DEF Init
    <2>3. Init => RaceInv
      BY <2>2 DEF RaceInv, Running
    <2>4. Init => SingleInv
      BY <2>1, <2>2 DEF SingleInv, IsSingle, SweepIsDue, At
    <2> QED  BY <2>3, <2>4
  <1>2. TypeOK /\ RaceInv /\ [Next]_vars => RaceInv'
    BY RaceStep
  <1>3. TypeOK /\ RaceInv /\ SingleInv /\ [Next]_vars => SingleInv'
    BY SingleStep
  <1>4. SingleInv => CheckInsAreSingle
    <2> SUFFICES ASSUME SingleInv, "sweep" \notin races, NEW a \in Accounts
                 PROVE  Cardinality(OpenCheckIns(a)) <= 1
      BY DEF CheckInsAreSingle
    <2>1. \A k, l \in OpenCheckIns(a) : k = l
      BY DEF SingleInv, IsSingle
    <2>2. CASE OpenCheckIns(a) = {}
      BY <2>2, FS_EmptySet
    <2>3. CASE OpenCheckIns(a) # {}
      <3>1. PICK k \in OpenCheckIns(a) : TRUE
        BY <2>3
      <3>2. OpenCheckIns(a) = {k}
        BY <2>1, <3>1
      <3> QED  BY <3>2, FS_Singleton
    <2> QED  BY <2>2, <2>3
  <1> QED  BY <1>1, <1>2, <1>3, <1>4, ServicingTypeCorrect, PTL DEF Spec

=============================================================================
