----------------------------- MODULE SignInProofs -----------------------------
(***************************************************************************)
(* Theorems about SignIn, for any users, any number of requests at a time  *)
(* and any limits.                                                         *)
(***************************************************************************)
EXTENDS SignIn, TLAPS

-----------------------------------------------------------------------------
(* Types *)

\* What a request read names a user; a sign-in was let in with a password, and
\* a change of access neither takes from the owner nor makes another owner.
ReadsAreSound ==
  \A r \in Requests :
    LET p == request[r] IN
    /\ p.step = "credentials" => p.user \in Users /\ p.role \in Roles /\ user[p.user].password
    /\ p.step \in {"manager", "target"} => p.manager \in Users /\ p.role \in Roles
    /\ p.step = "target" => p.user \in Users \ {Owner} /\ p.role # "OWNER"

\* TypeOK is inductive with what the requests know of their reads.
TypeInv == TypeOK /\ ReadsAreSound

\* An idle request has its type, and knows nothing.
LEMMA IdleType == Idle \in Pending /\ Idle.step = "idle"
  BY SignInConstants DEF Idle, Pending

\* Starting anew drops counters of their type.
LEMMA CountersType ==
  ASSUME TypeOK, NEW u \in Users, Cross(u) \/ (ForgiveFailures(u) /\ crossed' \subseteq Users)
  PROVE  /\ wrong' \in [Users -> 0..MaxWrong] /\ expired' \in [Users -> 0..MaxExpiries]
         /\ crossed' \subseteq Users
  BY SignInConstants DEF TypeOK, Cross, ForgiveFailures, counters

\* A step that leaves the users as they are keeps what is said of their rows.
LEMMA RowsKept ==
  ASSUME TypeOK, user' = user, session' = session, request' \in [Requests -> Pending],
         /\ wrong' \in [Users -> 0..MaxWrong] /\ expired' \in [Users -> 0..MaxExpiries]
         /\ crossed' \subseteq Users
  PROVE  TypeOK'
  BY DEF TypeOK

\* Every step of a sign-in keeps the types and the reads.
LEMMA SigningInType ==
  ASSUME TypeInv, SigningIn
  PROVE  TypeInv'
  <1> USE DEF TypeInv
  <1>1. ASSUME NEW r \in Requests, NEW u \in Users, ReadCredentials(r, u)
        PROVE  TypeInv'
    <2>1. [Idle EXCEPT !.step = "credentials", !.user = u, !.role = user[u].role,
                       !.failedLogins = user[u].failedLogins] \in Pending
      BY SignInConstants DEF Idle, Pending, TypeOK, UserRow
    <2>2. TypeOK'
      BY <1>1, <2>1, CountersType, RowsKept DEF ReadCredentials, TypeOK
    <2>3. ReadsAreSound'
      BY <1>1 DEF ReadCredentials, MayTry, ReadsAreSound, TypeOK, UserRow, Idle
    <2> QED  BY <2>2, <2>3
  <1>2. ASSUME NEW r \in Requests, FailSignIn(r)
        PROVE  TypeInv'
    <2>1. /\ request[r].user \in Users
          /\ request[r].failedLogins + 1 \in 0..MaxWrong
      BY <1>2, SignInConstants DEF FailSignIn, ReadsAreSound, TypeOK, Pending
    <2>2. TypeOK'
      BY <1>2, <2>1, IdleType, SignInConstants DEF FailSignIn, LockAfter, TypeOK, UserRow
    <2>3. ReadsAreSound'
      BY <1>2, <2>1, IdleType DEF FailSignIn, ReadsAreSound, TypeOK, UserRow
    <2> QED  BY <2>2, <2>3
  <1>3. ASSUME NEW r \in Requests, FailCode(r)
        PROVE  TypeInv'
    <2>1. TypeOK'
      BY <1>3, IdleType, RowsKept DEF FailCode, TypeOK, counters
    <2>2. ReadsAreSound'
      BY <1>3, IdleType DEF FailCode, ReadsAreSound, TypeOK
    <2> QED  BY <2>1, <2>2
  <1>4. ASSUME NEW r \in Requests, CompleteSignIn(r)
        PROVE  TypeInv'
    <2>1. /\ request[r].user \in Users /\ request[r].role \in Roles
          /\ user[request[r].user].password
      BY <1>4 DEF CompleteSignIn, ReadsAreSound
    <2>2. /\ wrong' \in [Users -> 0..MaxWrong] /\ expired' \in [Users -> 0..MaxExpiries]
      BY <1>4, <2>1, CountersType DEF CompleteSignIn, TypeOK
    <2>3. TypeOK'
      <3>1. user' \in [Users -> UserRow]
        BY <1>4, <2>1, SignInConstants DEF CompleteSignIn, TypeOK, UserRow
      <3>2. \A u \in Users : /\ user'[u].role = user[u].role
                             /\ user'[u].password = user[u].password
                             /\ user'[u].locked => user'[u].failedLogins >= MaxFailedLogins
        BY <1>4, <2>1 DEF CompleteSignIn, TypeOK, UserRow
      <3> QED  BY <1>4, <2>1, <2>2, <3>1, <3>2, IdleType DEF CompleteSignIn, TypeOK
    <2>4. ReadsAreSound'
      BY <1>4, <2>1, IdleType DEF CompleteSignIn, ReadsAreSound, TypeOK, UserRow
    <2> QED  BY <2>3, <2>4
  <1>5. ASSUME NEW u \in Users, SignOut(u)
        PROVE  TypeInv'
    BY <1>5 DEF SignOut, TypeOK, ReadsAreSound, counters
  <1>6. ASSUME NEW u \in Users, ExpireLock(u)
        PROVE  TypeInv'
    <2>1. TypeOK'
      <3>1. user' \in [Users -> UserRow]
        BY <1>6 DEF ExpireLock, TypeOK, UserRow
      <3>2. \A v \in Users : /\ user'[v].role = user[v].role
                             /\ user'[v].password = user[v].password
                             /\ user'[v].locked => user'[v].failedLogins >= MaxFailedLogins
        BY <1>6 DEF ExpireLock, TypeOK, UserRow
      <3>3. expired' \in [Users -> 0..MaxExpiries]
        BY <1>6, SignInConstants DEF ExpireLock, TypeOK
      <3> QED  BY <1>6, <3>1, <3>2, <3>3 DEF ExpireLock, TypeOK
    <2>2. ReadsAreSound'
      BY <1>6 DEF ExpireLock, ReadsAreSound, TypeOK, UserRow
    <2> QED  BY <2>1, <2>2
  <1>7. ASSUME NEW u \in Users, Activate(u)
        PROVE  TypeInv'
    <2>1. /\ wrong' \in [Users -> 0..MaxWrong] /\ expired' \in [Users -> 0..MaxExpiries]
          /\ crossed' \subseteq Users
      BY <1>7, CountersType DEF Activate, TypeOK
    <2>2. TypeOK'
      <3>1. user' \in [Users -> UserRow]
        <4>1. 0 \in 0..MaxWrong /\ "ACTIVE" \in Statuses
          BY SignInConstants DEF Statuses
        <4>2. [user[u] EXCEPT !.password = TRUE, !.status = "ACTIVE",
                              !.failedLogins = 0, !.locked = FALSE] \in UserRow
          BY <4>1 DEF TypeOK, UserRow
        <4>3. user'[u] = [user[u] EXCEPT !.password = TRUE, !.status = "ACTIVE",
                                         !.failedLogins = 0, !.locked = FALSE]
          BY <1>7 DEF Activate, TypeOK, UserRow
        <4>4. user' = [user EXCEPT ![u] = user'[u]]
          BY <1>7 DEF Activate, TypeOK, UserRow
        <4> QED  BY <4>2, <4>3, <4>4 DEF TypeOK
      <3>2. \A v \in Users : /\ user'[v].role = user[v].role
                             /\ user[v].password => user'[v].password
                             /\ user'[v].locked => user'[v].failedLogins >= MaxFailedLogins
        BY <1>7 DEF Activate, TypeOK, UserRow
      <3> QED  BY <1>7, <2>1, <3>1, <3>2 DEF Activate, TypeOK
    <2>3. ReadsAreSound'
      BY <1>7 DEF Activate, ReadsAreSound, TypeOK, UserRow
    <2> QED  BY <2>2, <2>3
  <1> QED  BY <1>1, <1>2, <1>3, <1>4, <1>5, <1>6, <1>7 DEF SigningIn

\* Every step of the users page keeps the types and the reads.
LEMMA ManagingType ==
  ASSUME TypeInv, Managing
  PROVE  TypeInv'
  <1> USE DEF TypeInv
  <1>1. ASSUME NEW r \in Requests, NEW m \in Users, ReadManager(r, m)
        PROVE  TypeInv'
    <2>1. [Idle EXCEPT !.step = "manager", !.manager = m, !.role = user[m].role] \in Pending
      <3>1. user[m].role \in Roles
        BY DEF TypeOK, UserRow
      <3> QED  BY <3>1, IdleType DEF Pending
    <2>2. TypeOK'
      BY <1>1, <2>1, RowsKept DEF ReadManager, TypeOK, counters
    <2>3. ReadsAreSound'
      BY <1>1 DEF ReadManager, ReadsAreSound, TypeOK, UserRow, Idle
    <2> QED  BY <2>2, <2>3
  <1>2. ASSUME NEW r \in Requests, NEW u \in Users, NEW role \in Assignable, ReadTarget(r, u, role)
        PROVE  TypeInv'
    <2>1. role \in Roles /\ role # "OWNER"
      BY SignInConstants
    <2>2. u # Owner
      BY <1>2 DEF ReadTarget, MayManage, TypeOK
    <2>3. request' \in [Requests -> Pending]
      <3>1. request[r] \in Pending
        BY DEF TypeOK
      <3>2. [request[r] EXCEPT !.step = "target", !.user = u, !.role = role] \in Pending
        BY <2>1, <3>1 DEF Pending
      <3> QED  BY <1>2, <3>2 DEF ReadTarget, TypeOK
    <2>4. TypeOK'
      BY <1>2, <2>3, RowsKept DEF ReadTarget, TypeOK, counters
    <2>5. ReadsAreSound'
      BY <1>2, <2>1, <2>2 DEF ReadTarget, ReadsAreSound, TypeOK, Pending
    <2> QED  BY <2>4, <2>5
  <1>3. ASSUME NEW r \in Requests, RefuseSave(r)
        PROVE  TypeInv'
    <2>1. TypeOK'
      BY <1>3, IdleType, RowsKept DEF RefuseSave, TypeOK, counters
    <2>2. ReadsAreSound'
      BY <1>3, IdleType DEF RefuseSave, ReadsAreSound, TypeOK
    <2> QED  BY <2>1, <2>2
  <1>4. ASSUME NEW r \in Requests, NEW status \in Settable, SaveUser(r, status)
        PROVE  TypeInv'
    <2>1. /\ request[r].user \in Users \ {Owner}
          /\ request[r].role \in Roles /\ request[r].role # "OWNER"
      BY <1>4 DEF SaveUser, ReadsAreSound
    <2>2. status \in Statuses
      BY SignInConstants
    <2>3. request' \in [Requests -> Pending]
      <3>1. \A q \in Requests : [request[q] EXCEPT !.raced = TRUE] \in Pending
        <4> SUFFICES ASSUME NEW q \in Requests PROVE [request[q] EXCEPT !.raced = TRUE] \in Pending
          OBVIOUS
        <4>1. request[q] \in Pending
          BY DEF TypeOK
        <4> QED  BY <4>1 DEF Pending
      <3> QED  BY <1>4, <3>1, IdleType DEF SaveUser, Raced, TypeOK
    <2>4. TypeOK'
      BY <1>4, <2>1, <2>2, <2>3 DEF SaveUser, TypeOK, UserRow, counters
    <2>5. ReadsAreSound'
      BY <1>4, <2>1, IdleType DEF SaveUser, Raced, ReadsAreSound, TypeOK, Pending, UserRow
    <2> QED  BY <2>4, <2>5
  <1> QED  BY <1>1, <1>2, <1>3, <1>4 DEF Managing

\* In every reachable state the rows have their types, a locked account has
\* failed often enough, whoever has a token has a password, and the role of the
\* owner belongs to the owner alone.
LEMMA SignInInvariant == Spec => []TypeInv
  <1>1. Init => TypeInv
    <2> SUFFICES ASSUME Init PROVE TypeInv
      OBVIOUS
    <2>1. {"OWNER", "AGENT"} \subseteq Roles /\ "INVITED" \in Statuses
      BY DEF Roles, AdminRoles, Statuses
    <2>2. \A u \in Users : user[u] \in UserRow
      <3>1. 0 \in 0..MaxWrong
        BY SignInConstants
      <3> QED  BY <2>1, <3>1 DEF Init, UserRow
    <2>3. TypeOK
      BY <2>2, IdleType, SignInConstants DEF Init, TypeOK
    <2>4. ReadsAreSound
      BY IdleType DEF Init, ReadsAreSound
    <2> QED  BY <2>3, <2>4 DEF TypeInv
  <1>2. TypeInv /\ [Next]_vars => TypeInv'
    <2>1. TypeInv /\ UNCHANGED vars => TypeInv'
      BY DEF TypeInv, TypeOK, ReadsAreSound, vars
    <2> QED  BY <2>1, SigningInType, ManagingType DEF Next
  <1> QED  BY <1>1, <1>2, PTL DEF Spec

\* The rows have their types; no sequence of sign-ins, lockouts and changes of
\* access makes a second owner or unlocks what has not failed often enough.
THEOREM SignInTypeCorrect == Spec => []TypeOK
  BY SignInInvariant, PTL DEF TypeInv

-----------------------------------------------------------------------------
(* The lockout *)

\* Request r holds the row of u, read to sign in.
Reads(r, u) == request[r].step = "credentials" /\ request[r].user = u

\* The counter of u is the number of its wrong passwords, and an unlocked
\* account is one wrong password short of what the expired locks allow.
CountIsKnown(u) ==
  /\ user[u].failedLogins = wrong[u]
  /\ wrong[u] <= MaxFailedLogins + expired[u]
  /\ ~user[u].locked => wrong[u] < MaxFailedLogins + expired[u]

\* One request at a time holds the row of u, as it still is.
ReadIsCurrent(u) ==
  \A r \in Requests : Reads(r, u) =>
    /\ request[r].failedLogins = wrong[u]
    /\ ~user[u].locked
    /\ \A q \in Requests : Reads(q, u) => q = r

\* GuessesAreLimited is inductive with what it takes for the next failure to
\* be counted: the row that a sign-in writes from is the row as it is.
CounterInv ==
  \A u \in Users \ crossed :
    CountIsKnown(u) /\ (u \in Forgetful => ReadIsCurrent(u))

\* A step that leaves the counter of u alone, and starts no sign-in of u.
LEMMA CounterKept ==
  ASSUME TypeInv, CounterInv, NEW u \in Users \ crossed',
         u \notin crossed,
         /\ user'[u].failedLogins = user[u].failedLogins
         /\ user'[u].locked = user[u].locked
         /\ wrong'[u] = wrong[u] /\ expired'[u] = expired[u],
         \A r \in Requests : Reads(r, u)' =>
           Reads(r, u) /\ request'[r].failedLogins = request[r].failedLogins
  PROVE  CountIsKnown(u)' /\ (u \in Forgetful => ReadIsCurrent(u)')
  <1>1. CountIsKnown(u) /\ (u \in Forgetful => ReadIsCurrent(u))
    BY DEF CounterInv
  <1>2. CountIsKnown(u)'
    BY <1>1 DEF CountIsKnown
  <1>3. ReadIsCurrent(u) => ReadIsCurrent(u)'
    BY DEF ReadIsCurrent
  <1> QED  BY <1>1, <1>2, <1>3

\* A step after which the counter of u starts anew, and nobody holds u's row.
LEMMA CounterReset ==
  ASSUME TypeInv, NEW u \in Users, expired'[u] \in Nat,
         user'[u].failedLogins = 0 /\ ~user'[u].locked /\ wrong'[u] = 0,
         u \in Forgetful => \A r \in Requests : ~Reads(r, u)'
  PROVE  CountIsKnown(u)' /\ (u \in Forgetful => ReadIsCurrent(u)')
  BY SignInConstants DEF CountIsKnown, ReadIsCurrent

\* Every step of a sign-in preserves CounterInv.
LEMMA SigningInCounts ==
  ASSUME TypeInv, TypeInv', CounterInv, SigningIn
  PROVE  CounterInv'
  <1> SUFFICES ASSUME NEW u \in Users \ crossed'
               PROVE  CountIsKnown(u)' /\ (u \in Forgetful => ReadIsCurrent(u)')
    BY DEF CounterInv
  <1> USE DEF TypeInv
  <1>1. Idle.step = "idle"
    BY IdleType
  <1>2. expired'[u] \in Nat
    BY SignInConstants DEF TypeOK
  <1>3. ASSUME NEW r \in Requests, NEW v \in Users, ReadCredentials(r, v)
        PROVE  CountIsKnown(u)' /\ (u \in Forgetful => ReadIsCurrent(u)')
    <2>1. /\ user' = user /\ ~user[v].locked
          /\ request'[r].step = "credentials" /\ request'[r].user = v
          /\ request'[r].failedLogins = user[v].failedLogins
          /\ \A q \in Requests \ {r} : request'[q] = request[q]
      BY <1>3 DEF ReadCredentials, MayTry, TypeOK, Idle
    <2>2. u \notin crossed /\ wrong'[u] = wrong[u] /\ expired'[u] = expired[u]
      BY <1>3 DEF ReadCredentials, Cross, counters, TypeOK
    <2>3. CASE u # v
      BY <2>1, <2>2, <2>3, CounterKept DEF Reads
    <2>4. CASE u = v /\ u \notin Forgetful
      BY <2>1, <2>2, <2>4 DEF CounterInv, CountIsKnown
    <2>5. CASE u = v /\ u \in Forgetful
      <3>1. \A q \in Requests : ~Reads(q, u)
        BY <1>3, <2>5 DEF ReadCredentials, Cross, Checking, Reads
      <3>2. \A q \in Requests : Reads(q, u)' => q = r
        BY <2>1, <3>1 DEF Reads
      <3>3. CountIsKnown(u) /\ CountIsKnown(u)'
        BY <2>1, <2>2 DEF CounterInv, CountIsKnown
      <3> QED  BY <2>1, <2>2, <2>5, <3>2, <3>3 DEF CountIsKnown, ReadIsCurrent
    <2> QED  BY <2>3, <2>4, <2>5
  <1>4. ASSUME NEW r \in Requests, FailSignIn(r)
        PROVE  CountIsKnown(u)' /\ (u \in Forgetful => ReadIsCurrent(u)')
    <2> DEFINE v == request[r].user
               failed == request[r].failedLogins + 1
    <2>1. /\ v \in Users /\ v \in Forgetful /\ Reads(r, v)
          /\ u \notin crossed /\ expired' = expired
          /\ request'[r] = Idle /\ \A q \in Requests \ {r} : request'[q] = request[q]
      BY <1>4, SignInConstants DEF FailSignIn, TypeOK, Reads
    <2>2. CASE u # v
      <3>1. user'[u] = user[u] /\ wrong'[u] = wrong[u]
        BY <1>4, <2>2 DEF FailSignIn, TypeOK
      <3> QED  BY <1>1, <2>1, <3>1, CounterKept DEF Reads
    <2>3. CASE u = v
      <3>1. ReadIsCurrent(u) /\ CountIsKnown(u)
        BY <2>1, <2>3 DEF CounterInv
      <3>2. failed = wrong[u] + 1 /\ ~user[u].locked
        BY <2>1, <2>3, <3>1 DEF ReadIsCurrent
      <3>3. /\ user'[u].failedLogins = failed
            /\ user'[u].locked \/ ~(failed >= MaxFailedLogins)
            /\ wrong'[u] = wrong[u] + 1
        BY <1>4, <2>1, <2>3 DEF FailSignIn, LockAfter, TypeOK, UserRow
      <3>4. wrong[u] \in Nat /\ expired[u] \in Nat
        BY SignInConstants DEF TypeOK
      <3>5. wrong[u] + 1 <= MaxFailedLogins + expired[u]
        BY <3>1, <3>2, <3>4, SignInConstants DEF CountIsKnown
      <3>6. CountIsKnown(u)'
        BY <2>1, <3>2, <3>3, <3>4, <3>5, SignInConstants DEF CountIsKnown
      <3>7. \A q \in Requests : ~Reads(q, u)'
        BY <1>1, <2>1, <2>3, <3>1 DEF ReadIsCurrent, Reads
      <3> QED  BY <3>6, <3>7 DEF ReadIsCurrent
    <2> QED  BY <2>2, <2>3
  <1>5. ASSUME NEW r \in Requests, FailCode(r)
        PROVE  CountIsKnown(u)' /\ (u \in Forgetful => ReadIsCurrent(u)')
    BY <1>1, <1>5, CounterKept DEF FailCode, counters, Reads, TypeOK
  <1>6. ASSUME NEW r \in Requests, CompleteSignIn(r)
        PROVE  CountIsKnown(u)' /\ (u \in Forgetful => ReadIsCurrent(u)')
    <2> DEFINE v == request[r].user
    <2>1. /\ v \in Users /\ Reads(r, v)
          /\ u \notin crossed
          /\ request'[r] = Idle /\ \A q \in Requests \ {r} : request'[q] = request[q]
      BY <1>6, SignInConstants DEF CompleteSignIn, TypeOK, Reads, ReadsAreSound
    <2>2. CASE u # v
      <3>1. user'[u] = user[u] /\ wrong'[u] = wrong[u] /\ expired'[u] = expired[u]
        BY <1>6, <2>2 DEF CompleteSignIn, ForgiveFailures, TypeOK
      <3> QED  BY <1>1, <2>1, <3>1, CounterKept DEF Reads
    <2>3. CASE u = v
      <3>1. user'[u].failedLogins = 0 /\ ~user'[u].locked /\ wrong'[u] = 0
        BY <1>6, <2>3 DEF CompleteSignIn, ForgiveFailures, TypeOK, UserRow
      <3>2. u \in Forgetful => ReadIsCurrent(u)
        BY <2>1 DEF CounterInv
      <3>3. u \in Forgetful => \A q \in Requests : ~Reads(q, u)'
        BY <1>1, <2>1, <2>3, <3>2 DEF ReadIsCurrent, Reads
      <3> QED  BY <1>2, <3>1, <3>3, CounterReset
    <2> QED  BY <2>2, <2>3
  <1>7. ASSUME NEW v \in Users, SignOut(v)
        PROVE  CountIsKnown(u)' /\ (u \in Forgetful => ReadIsCurrent(u)')
    BY <1>7, CounterKept DEF SignOut, counters, Reads
  <1>8. ASSUME NEW v \in Users, ExpireLock(v)
        PROVE  CountIsKnown(u)' /\ (u \in Forgetful => ReadIsCurrent(u)')
    <2>1. u \notin crossed /\ request' = request /\ wrong' = wrong
      BY <1>8 DEF ExpireLock
    <2>2. CASE u # v
      <3>1. user'[u] = user[u] /\ expired'[u] = expired[u]
        BY <1>8, <2>2 DEF ExpireLock, TypeOK
      <3> QED  BY <2>1, <3>1, CounterKept DEF Reads
    <2>3. CASE u = v
      <3>1. /\ user[u].locked /\ ~user'[u].locked
            /\ user'[u].failedLogins = user[u].failedLogins
            /\ expired'[u] = expired[u] + 1
        BY <1>8, <2>1, <2>3 DEF ExpireLock, TypeOK, UserRow
      <3>2. CountIsKnown(u) /\ (u \in Forgetful => ReadIsCurrent(u))
        BY <2>1 DEF CounterInv
      <3>3. wrong[u] \in Nat /\ expired[u] \in Nat
        BY SignInConstants DEF TypeOK
      <3>4. CountIsKnown(u)'
        BY <2>1, <3>1, <3>2, <3>3, SignInConstants DEF CountIsKnown
      <3>5. u \in Forgetful => \A q \in Requests : ~Reads(q, u)'
        BY <2>1, <3>1, <3>2 DEF ReadIsCurrent, Reads
      <3> QED  BY <3>4, <3>5 DEF ReadIsCurrent
    <2> QED  BY <2>2, <2>3
  <1>9. ASSUME NEW v \in Users, Activate(v)
        PROVE  CountIsKnown(u)' /\ (u \in Forgetful => ReadIsCurrent(u)')
    <2>1. u \notin crossed /\ request' = request
      BY <1>9 DEF Activate
    <2>2. CASE u # v
      <3>1. user'[u] = user[u] /\ wrong'[u] = wrong[u] /\ expired'[u] = expired[u]
        BY <1>9, <2>2 DEF Activate, ForgiveFailures, TypeOK
      <3> QED  BY <2>1, <3>1, CounterKept DEF Reads
    <2>3. CASE u = v
      <3>1. user'[u].failedLogins = 0 /\ ~user'[u].locked /\ wrong'[u] = 0
        BY <1>9, <2>3 DEF Activate, ForgiveFailures, TypeOK, UserRow
      <3>2. u \in Forgetful => \A q \in Requests : ~Reads(q, u)'
        BY <1>9, <2>1, <2>3 DEF Activate, Checking, Reads
      <3> QED  BY <1>2, <3>1, <3>2, CounterReset
    <2> QED  BY <2>2, <2>3
  <1> QED  BY <1>3, <1>4, <1>5, <1>6, <1>7, <1>8, <1>9 DEF SigningIn

\* Every step of the users page preserves CounterInv.
LEMMA ManagingCounts ==
  ASSUME TypeInv, CounterInv, Managing
  PROVE  CounterInv'
  <1> SUFFICES ASSUME NEW u \in Users \ crossed'
               PROVE  CountIsKnown(u)' /\ (u \in Forgetful => ReadIsCurrent(u)')
    BY DEF CounterInv
  <1> USE DEF TypeInv
  <1>1. Idle.step = "idle"
    BY IdleType
  <1>2. UNCHANGED counters
    BY DEF Managing, ReadManager, ReadTarget, RefuseSave, SaveUser
  <1>3. user'[u].failedLogins = user[u].failedLogins /\ user'[u].locked = user[u].locked
    <2>1. ASSUME NEW r \in Requests, NEW status \in Settable, SaveUser(r, status)
          PROVE  user'[u].failedLogins = user[u].failedLogins /\ user'[u].locked = user[u].locked
      BY <2>1 DEF SaveUser, TypeOK, UserRow
    <2> QED  BY <2>1 DEF Managing, ReadManager, ReadTarget, RefuseSave
  <1>4. ASSUME NEW q \in Requests, Reads(q, u)'
        PROVE  request'[q] = request[q]
    <2>1. ASSUME NEW r \in Requests, NEW m \in Users, ReadManager(r, m)
          PROVE  request'[q] = request[q]
      BY <1>4, <2>1 DEF ReadManager, Reads, TypeOK, Idle
    <2>2. ASSUME NEW r \in Requests, NEW v \in Users, NEW role \in Assignable, ReadTarget(r, v, role)
          PROVE  request'[q] = request[q]
      BY <1>4, <2>2 DEF ReadTarget, Reads, TypeOK, Pending
    <2>3. ASSUME NEW r \in Requests, RefuseSave(r)
          PROVE  request'[q] = request[q]
      BY <1>1, <1>4, <2>3 DEF RefuseSave, Reads, TypeOK
    <2>4. ASSUME NEW r \in Requests, NEW status \in Settable, SaveUser(r, status)
          PROVE  request'[q] = request[q]
      BY <1>1, <1>4, <2>4 DEF SaveUser, Raced, Reads, TypeOK, Pending
    <2> QED  BY <2>1, <2>2, <2>3, <2>4 DEF Managing
  <1> QED  BY <1>2, <1>3, <1>4, CounterKept DEF counters, Reads

\* Beyond MaxFailedLogins wrong passwords each one needs a lock to have
\* expired, for any number of requests, and in whatever order sign-ins,
\* activations, expiries and changes of access come, unless two writers of the
\* counter overlapped.
THEOREM LockoutLimitsGuesses == Spec => []GuessesAreLimited
  <1>1. Init => CounterInv
    <2> SUFFICES ASSUME Init, NEW u \in Users
                 PROVE  CountIsKnown(u) /\ ReadIsCurrent(u)
      BY DEF CounterInv
    <2>1. CountIsKnown(u)
      BY SignInConstants DEF Init, CountIsKnown
    <2>2. ReadIsCurrent(u)
      BY IdleType DEF Init, ReadIsCurrent, Reads
    <2> QED  BY <2>1, <2>2
  <1>2. TypeInv /\ TypeInv' /\ CounterInv /\ [Next]_vars => CounterInv'
    <2>1. CounterInv /\ UNCHANGED vars => CounterInv'
      BY DEF CounterInv, CountIsKnown, ReadIsCurrent, Reads, vars
    <2> QED  BY <2>1, SigningInCounts, ManagingCounts DEF Next
  <1>3. CounterInv => GuessesAreLimited
    BY DEF CounterInv, CountIsKnown, GuessesAreLimited
  <1> QED  BY <1>1, <1>2, <1>3, SignInInvariant, PTL DEF Spec

-----------------------------------------------------------------------------
(* The users page *)

\* Unless another change of access came since, the manager that a request read
\* is still one, with the role that was read, and the target is neither the
\* manager nor, unless the owner asks, a super administrator or to become one.
ManagerIsCurrent(r) ==
  LET p == request[r] IN
  p.step \in {"manager", "target"} /\ ~p.raced =>
    /\ user[p.manager].status = "ACTIVE"
    /\ user[p.manager].role \in MANAGERS
    /\ p.step = "manager" => p.role = user[p.manager].role
    /\ p.step = "target" =>
         /\ p.user # p.manager
         /\ "SUPER_ADMIN" \in {user[p.user].role, p.role} => p.manager = Owner

AccessInv == \A r \in Requests : ManagerIsCurrent(r)

\* Only a change of access takes a role away or stops a user, and no sign-in
\* starts or continues one.
LEMMA SigningInKeepsAccess ==
  ASSUME TypeInv, SigningIn
  PROVE  /\ \A u \in Users : /\ user'[u].role = user[u].role
                             /\ user[u].status = "ACTIVE" => user'[u].status = "ACTIVE"
         /\ \A r \in Requests :
              /\ request'[r].step \in {"manager", "target"} => request'[r] = request[r]
              /\ request[r].step = "target" => request'[r] = request[r]
  <1> DEFINE Access == \A u \in Users : /\ user'[u].role = user[u].role
                                        /\ user[u].status = "ACTIVE" => user'[u].status = "ACTIVE"
             Steps == \A r \in Requests :
               /\ request'[r].step \in {"manager", "target"} => request'[r] = request[r]
               /\ request[r].step = "target" => request'[r] = request[r]
  <1> USE DEF TypeInv
  <1>1. ASSUME NEW r \in Requests, NEW u \in Users, ReadCredentials(r, u)
        PROVE  Access /\ Steps
    BY <1>1, IdleType DEF ReadCredentials, TypeOK, Idle
  <1>2. ASSUME NEW r \in Requests, FailSignIn(r)
        PROVE  Access /\ Steps
    BY <1>2, IdleType DEF FailSignIn, TypeOK, UserRow
  <1>3. ASSUME NEW r \in Requests, FailCode(r)
        PROVE  Access /\ Steps
    BY <1>3, IdleType DEF FailCode, TypeOK
  <1>4. ASSUME NEW r \in Requests, CompleteSignIn(r)
        PROVE  Access /\ Steps
    BY <1>4, IdleType DEF CompleteSignIn, TypeOK, UserRow
  <1>5. ASSUME NEW u \in Users, SignOut(u) \/ ExpireLock(u) \/ Activate(u)
        PROVE  Access /\ Steps
    BY <1>5 DEF SignOut, ExpireLock, Activate, TypeOK, UserRow
  <1> QED  BY <1>1, <1>2, <1>3, <1>4, <1>5 DEF SigningIn

\* Every step preserves AccessInv.
LEMMA AccessKept ==
  ASSUME TypeInv, AccessInv, Next
  PROVE  AccessInv'
  <1> USE DEF TypeInv
  <1> SUFFICES ASSUME NEW q \in Requests PROVE ManagerIsCurrent(q)'
    BY DEF AccessInv
  <1>0. ManagerIsCurrent(q)
    BY DEF AccessInv
  <1>1. CASE SigningIn
    <2> SUFFICES ASSUME request'[q].step \in {"manager", "target"} PROVE ManagerIsCurrent(q)'
      BY DEF ManagerIsCurrent
    <2>1. request'[q] = request[q]
      BY <1>1, SigningInKeepsAccess
    <2>2. request[q].manager \in Users /\ (request[q].step = "target" => request[q].user \in Users)
      BY <2>1 DEF ReadsAreSound
    <2>3. \A u \in Users : /\ user'[u].role = user[u].role
                           /\ user[u].status = "ACTIVE" => user'[u].status = "ACTIVE"
      BY <1>1, SigningInKeepsAccess
    <2>4. user'[request[q].manager].role = user[request[q].manager].role
      BY <2>2, <2>3
    <2>5. user[request[q].manager].status = "ACTIVE" => user'[request[q].manager].status = "ACTIVE"
      BY <2>2, <2>3
    <2>6. request[q].step = "target" => user'[request[q].user].role = user[request[q].user].role
      BY <2>2, <2>3
    <2> QED  BY <1>0, <2>1, <2>4, <2>5, <2>6 DEF ManagerIsCurrent
  <1>2. ASSUME NEW r \in Requests, NEW m \in Users, ReadManager(r, m)
        PROVE  ManagerIsCurrent(q)'
    BY <1>0, <1>2 DEF ReadManager, RequireRole, ManagerIsCurrent, TypeOK, Idle
  <1>3. ASSUME NEW r \in Requests, NEW u \in Users, NEW role \in Assignable, ReadTarget(r, u, role)
        PROVE  ManagerIsCurrent(q)'
    <2>1. CASE q # r
      BY <1>0, <1>3, <2>1 DEF ReadTarget, ManagerIsCurrent, TypeOK
    <2>2. CASE q = r
      <3>1. /\ request'[r].step = "target" /\ request'[r].user = u /\ request'[r].role = role
            /\ request'[r].manager = request[r].manager /\ request'[r].raced = request[r].raced
            /\ request[r].step = "manager" /\ u # request[r].manager /\ user' = user
        BY <1>3 DEF ReadTarget, TypeOK, Pending
      <3>2. request[r].manager \in Users
        BY <3>1 DEF ReadsAreSound
      <3>3. ASSUME ~request[r].raced, "SUPER_ADMIN" \in {user[u].role, role}
            PROVE  request[r].manager = Owner
        BY <1>0, <1>3, <2>2, <3>1, <3>2, <3>3 DEF ReadTarget, MayManage, ManagerIsCurrent, TypeOK
      <3> QED  BY <1>0, <2>2, <3>1, <3>3 DEF ManagerIsCurrent
    <2> QED  BY <2>1, <2>2
  <1>4. ASSUME NEW r \in Requests, RefuseSave(r)
        PROVE  ManagerIsCurrent(q)'
    BY <1>0, <1>4, IdleType DEF RefuseSave, ManagerIsCurrent, TypeOK
  <1>5. ASSUME NEW r \in Requests, NEW status \in Settable, SaveUser(r, status)
        PROVE  ManagerIsCurrent(q)'
    <2>1. request'[q] = IF q = r THEN Idle
                        ELSE IF request[q].step \in {"manager", "target"}
                             THEN [request[q] EXCEPT !.raced = TRUE] ELSE request[q]
      BY <1>5 DEF SaveUser, Raced
    <2>2. request[q] \in Pending
      BY DEF TypeOK
    <2>3. request'[q].step \in {"manager", "target"} => request'[q].raced
      BY <2>1, <2>2, IdleType DEF Pending
    <2> QED  BY <2>3 DEF ManagerIsCurrent
  <1> QED  BY <1>1, <1>2, <1>3, <1>4, <1>5 DEF Next, Managing

\* Whoever changes the access of a user is still an active manager when it is
\* written, whatever the token says, does not change the owner's or their own,
\* and is the owner if a super administrator is made or unmade, unless another
\* change of access came between the reads and the write.
THEOREM ManagersManageAccess == Spec => AccessIsManaged
  <1> DEFINE Saved(r) == request[r].step = "target" /\ ~request[r].raced /\ request'[r].step = "idle"
             Managed(r) ==
               /\ user[request[r].manager].status = "ACTIVE"
               /\ user[request[r].manager].role \in MANAGERS
               /\ request[r].user \notin {Owner, request[r].manager}
               /\ "SUPER_ADMIN" \in {user[request[r].user].role, user'[request[r].user].role} =>
                    request[r].manager = Owner
  <1>1. Init => AccessInv
    BY IdleType DEF Init, AccessInv, ManagerIsCurrent
  <1>2. TypeInv /\ AccessInv /\ [Next]_vars => AccessInv'
    <2>1. AccessInv /\ UNCHANGED vars => AccessInv'
      BY DEF AccessInv, ManagerIsCurrent, vars
    <2> QED  BY <2>1, AccessKept
  <1>3. TypeInv /\ AccessInv /\ [Next]_vars => \A r \in Requests : Saved(r) => Managed(r)
    <2> SUFFICES ASSUME TypeInv, AccessInv, [Next]_vars, NEW r \in Requests, Saved(r)
                 PROVE  Managed(r)
      OBVIOUS
    <2>1. /\ user[request[r].manager].status = "ACTIVE"
          /\ user[request[r].manager].role \in MANAGERS
          /\ request[r].user \in Users \ {Owner, request[r].manager}
          /\ "SUPER_ADMIN" \in {user[request[r].user].role, request[r].role} =>
               request[r].manager = Owner
      BY DEF TypeInv, ReadsAreSound, AccessInv, ManagerIsCurrent
    <2>2. PICK status \in Settable : SaveUser(r, status)
      <3>1. request'[r] # request[r]
        OBVIOUS
      <3>2. ~SigningIn
        BY <3>1, SigningInKeepsAccess
      <3>3. Managing
        BY <3>1, <3>2 DEF Next, vars
      <3>4. ASSUME NEW q \in Requests, NEW m \in Users, ReadManager(q, m)
            PROVE  FALSE
        BY <3>1, <3>4 DEF ReadManager, TypeInv, TypeOK
      <3>5. ASSUME NEW q \in Requests, NEW u \in Users, NEW role \in Assignable, ReadTarget(q, u, role)
            PROVE  FALSE
        BY <3>1, <3>5 DEF ReadTarget, TypeInv, TypeOK
      <3>6. ASSUME NEW q \in Requests, RefuseSave(q)
            PROVE  FALSE
        BY <3>1, <3>6 DEF RefuseSave, TypeInv, TypeOK
      <3>7. ASSUME NEW q \in Requests, NEW status \in Settable, SaveUser(q, status), q # r
            PROVE  FALSE
        <4>1. request'[r] = [request[r] EXCEPT !.raced = TRUE] /\ request[r] \in Pending
          BY <3>7 DEF SaveUser, Raced, TypeInv, TypeOK
        <4>2. request'[r].step = request[r].step
          BY <4>1 DEF Pending
        <4> QED  BY <4>2
      <3> QED  BY <3>3, <3>4, <3>5, <3>6, <3>7 DEF Managing
    <2>3. user'[request[r].user].role = request[r].role
      BY <2>1, <2>2 DEF SaveUser, TypeInv, TypeOK, UserRow
    <2> QED  BY <2>1, <2>3
  <1> QED  BY <1>1, <1>2, <1>3, SignInInvariant, PTL DEF Spec, AccessIsManaged
=============================================================================
