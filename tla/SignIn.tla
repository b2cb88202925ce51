------------------------------- MODULE SignIn -------------------------------
(***************************************************************************)
(* Signing in, the lockout after failed passwords, the session token, and  *)
(* the users page on which managers change the role and status of others.  *)
(* A sign-in reads the user, checks the credentials and writes later what  *)
(* it computed from its read; so does a change of access.  The token keeps *)
(* the role of the sign-in: the middleware trusts it, requireRole reads    *)
(* the user again.  The clock is the expiry of a lock.                     *)
(***************************************************************************)
EXTENDS Integers

CONSTANTS
  Users,            \* users, invited or more
  Owner,            \* the user that the bootstrap script invited
  Assignable,       \* assignableRoles of the users page, or some of them
  Settable,         \* assignableStatuses of the users page, or some of them
  Forgetful,        \* bound: the users whose wrong passwords are modelled
  Requests,         \* requests served at a time
  MaxFailedLogins,  \* MAX_FAILED_LOGINS
  MaxWrong,         \* bound on the wrong passwords that are counted
  MaxExpiries,      \* bound on the locks of a user that expire
  NoUser            \* no user

AdminRoles ==
  {"OWNER", "SUPER_ADMIN", "SALES_MANAGER", "COMPLIANCE_MANAGER", "FINANCE_MANAGER"}

Roles == AdminRoles \cup {"AGENT", "FORMER_SERVICING_AGENT", "READ_ONLY", "HOUSE_SERVICE"}

MANAGERS == {"OWNER", "SUPER_ADMIN"}

Statuses == {"INVITED", "ACTIVE", "SUSPENDED", "DISABLED"}

ASSUME SignInConstants ==
  /\ Owner \in Users
  /\ NoUser \notin Users
  /\ Forgetful \subseteq Users
  /\ Assignable \subseteq Roles \ {"OWNER"}
  /\ Settable \subseteq Statuses
  /\ MaxFailedLogins \in Nat \ {0}
  /\ MaxWrong \in Nat /\ MaxExpiries \in Nat

VARIABLES
  user,     \* User rows; locked: lockedUntil is in the future
  session,  \* the role in a user's token, "none" without a token
  request,  \* what a request has read so far
  wrong,    \* wrong passwords since the last reset of the counter (history)
  expired,  \* locks that expired since then (history)
  crossed   \* users whose counter was written while a sign-in had it read (history)

vars == <<user, session, request, wrong, expired, crossed>>

counters == <<wrong, expired, crossed>>

UserRow == [role : Roles, status : Statuses, password : BOOLEAN,
            failedLogins : 0..MaxWrong, locked : BOOLEAN]

Idle == [step |-> "idle", user |-> NoUser, manager |-> NoUser,
         role |-> "none", failedLogins |-> 0, raced |-> FALSE]

Pending ==
  [step : {"idle", "credentials", "manager", "target"},
   user : Users \cup {NoUser}, manager : Users \cup {NoUser},
   role : Roles \cup {"none"}, failedLogins : 0..MaxWrong, raced : BOOLEAN]

\* A locked account has failed often enough, a token belongs to somebody with a
\* password, and the role of the owner belongs to the owner alone.
TypeOK ==
  /\ user \in [Users -> UserRow]
  /\ session \in [Users -> Roles \cup {"none"}]
  /\ request \in [Requests -> Pending]
  /\ wrong \in [Users -> 0..MaxWrong] /\ expired \in [Users -> 0..MaxExpiries]
  /\ crossed \subseteq Users
  /\ \A u \in Users :
       /\ user[u].locked => user[u].failedLogins >= MaxFailedLogins
       /\ session[u] # "none" => user[u].password
       /\ user[u].role = "OWNER" <=> u = Owner

Init ==
  /\ user = [u \in Users |->
       [role |-> IF u = Owner THEN "OWNER" ELSE "AGENT", status |-> "INVITED",
        password |-> FALSE, failedLogins |-> 0, locked |-> FALSE]]
  /\ session = [u \in Users |-> "none"]
  /\ request = [r \in Requests |-> Idle]
  /\ wrong = [u \in Users |-> 0]
  /\ expired = [u \in Users |-> 0]
  /\ crossed = {}

-----------------------------------------------------------------------------
(* Signing in *)

\* A request holds the row of u, read to sign in.
Checking(u) == \E r \in Requests : request[r].step = "credentials" /\ request[r].user = u

\* Once two writers of a counter have overlapped, its history is dropped.
Cross(u) ==
  IF u \in Forgetful /\ Checking(u)
  THEN /\ crossed' = crossed \cup {u}
       /\ wrong' = [wrong EXCEPT ![u] = 0]
       /\ expired' = [expired EXCEPT ![u] = 0]
  ELSE UNCHANGED counters

\* authorize() goes on for active users with a password that are not locked.
MayTry(u) ==
  /\ user[u].status = "ACTIVE"
  /\ user[u].password
  /\ ~user[u].locked

ReadCredentials(r, u) ==
  /\ request[r].step = "idle"
  /\ MayTry(u)
  /\ request' = [request EXCEPT ![r] =
       [Idle EXCEPT !.step = "credentials", !.user = u, !.role = user[u].role,
                    !.failedLogins = user[u].failedLogins]]
  /\ Cross(u)
  /\ UNCHANGED <<user, session>>

\* A lock at exactly the limit, never again after the first one expired (mutant).
LockAtLimit(failed) == failed = MaxFailedLogins

\* A lock one failure early (mutant).
LockBefore(failed) == failed >= MaxFailedLogins - 1

LockAfter(failed) == failed >= MaxFailedLogins

\* The counter is written as read plus one, and the lock from it alone.
FailSignIn(r) ==
  LET p == request[r]
      failed == p.failedLogins + 1
  IN /\ p.step = "credentials" /\ p.user \in Forgetful
     /\ failed <= MaxWrong /\ wrong[p.user] < MaxWrong
     /\ user' = [user EXCEPT ![p.user].failedLogins = failed,
                             ![p.user].locked = LockAfter(failed)]
     /\ wrong' = [wrong EXCEPT ![p.user] = IF p.user \in crossed THEN 0 ELSE @ + 1]
     /\ request' = [request EXCEPT ![r] = Idle]
     /\ UNCHANGED <<session, expired, crossed>>

\* A missing or wrong authentication code is only audited.
FailCode(r) ==
  /\ request[r].step = "credentials"
  /\ request' = [request EXCEPT ![r] = Idle]
  /\ UNCHANGED <<user, session, counters>>

\* The history starts anew with the counter.
ForgiveFailures(u) ==
  /\ wrong' = [wrong EXCEPT ![u] = 0]
  /\ expired' = [expired EXCEPT ![u] = 0]

\* The token carries the role that the sign-in read.
CompleteSignIn(r) ==
  LET p == request[r] IN
  /\ p.step = "credentials"
  /\ user' = [user EXCEPT ![p.user].failedLogins = 0, ![p.user].locked = FALSE]
  /\ session' = [session EXCEPT ![p.user] = p.role]
  /\ ForgiveFailures(p.user)
  /\ request' = [request EXCEPT ![r] = Idle]
  /\ UNCHANGED crossed

\* The user signs out, or the token expires.
SignOut(u) ==
  /\ session[u] # "none"
  /\ session' = [session EXCEPT ![u] = "none"]
  /\ UNCHANGED <<user, request, counters>>

\* lockedUntil passes; failedLogins stays.
ExpireLock(u) ==
  /\ user[u].locked
  /\ expired[u] < MaxExpiries
  /\ user' = [user EXCEPT ![u].locked = FALSE]
  /\ expired' = [expired EXCEPT ![u] = IF u \in crossed THEN 0 ELSE @ + 1]
  /\ UNCHANGED <<session, request, wrong, crossed>>

\* A valid activation link sets a password and resets the counter; which links
\* are valid is AgentOnboarding's matter.
Activate(u) ==
  /\ user[u].status # "DISABLED"
  /\ user' = [user EXCEPT ![u].password = TRUE, ![u].status = "ACTIVE",
                          ![u].failedLogins = 0, ![u].locked = FALSE]
  /\ ForgiveFailures(u)
  /\ crossed' = IF u \in Forgetful /\ Checking(u) THEN crossed \cup {u} ELSE crossed
  /\ UNCHANGED <<session, request>>

-----------------------------------------------------------------------------
(* The users page *)

\* The middleware lets tokens of administrators reach the page.
Authorized(u) == session[u] \in AdminRoles

\* A check of the token instead of the user (mutant).
RequireRoleOfToken(u, roles) == session[u] \in roles

\* requireUser and requireRole read the user that the token names.
RequireRole(u, roles) ==
  /\ session[u] # "none"
  /\ user[u].status = "ACTIVE"
  /\ user[u].role \in roles

ReadManager(r, m) ==
  /\ request[r].step = "idle"
  /\ Authorized(m)
  /\ RequireRole(m, MANAGERS)
  /\ request' = [request EXCEPT ![r] =
       [Idle EXCEPT !.step = "manager", !.manager = m, !.role = user[m].role]]
  /\ UNCHANGED <<user, session, counters>>

\* What a manager with this role may do to the access of another user.
MayManage(managerRole, targetRole, role) ==
  /\ targetRole # "OWNER"
  /\ managerRole = "OWNER" \/ "SUPER_ADMIN" \notin {targetRole, role}

\* The form names a user and the user's new role and status.
ReadTarget(r, u, role) ==
  LET p == request[r] IN
  /\ p.step = "manager"
  /\ u # p.manager
  /\ MayManage(p.role, user[u].role, role)
  /\ request' = [request EXCEPT ![r].step = "target", ![r].user = u, ![r].role = role]
  /\ UNCHANGED <<user, session, counters>>

RefuseSave(r) ==
  /\ request[r].step = "manager"
  /\ request' = [request EXCEPT ![r] = Idle]
  /\ UNCHANGED <<user, session, counters>>

\* The other requests that hold a manager or a target have raced with r.
Raced(r) ==
  [q \in Requests |->
     IF q = r THEN Idle
     ELSE IF request[q].step \in {"manager", "target"} THEN [request[q] EXCEPT !.raced = TRUE]
     ELSE request[q]]

SaveUser(r, status) ==
  LET p == request[r] IN
  /\ p.step = "target"
  /\ user' = [user EXCEPT ![p.user].role = p.role, ![p.user].status = status]
  /\ request' = Raced(r)
  /\ UNCHANGED <<session, counters>>

-----------------------------------------------------------------------------
SigningIn ==
  \/ \E r \in Requests :
       \/ \E u \in Users : ReadCredentials(r, u)
       \/ FailSignIn(r) \/ FailCode(r) \/ CompleteSignIn(r)
  \/ \E u \in Users : SignOut(u) \/ ExpireLock(u) \/ Activate(u)

Managing ==
  \E r \in Requests :
    \/ \E u \in Users : ReadManager(r, u)
    \/ \E u \in Users, role \in Assignable : ReadTarget(r, u, role)
    \/ RefuseSave(r)
    \/ \E status \in Settable : SaveUser(r, status)

Next == SigningIn \/ Managing

Spec == Init /\ [][Next]_vars

-----------------------------------------------------------------------------
(* Properties *)

\* Beyond MaxFailedLogins wrong passwords each one needs a lock to have expired,
\* however the counter is reset, unless two writers of the counter overlapped.
GuessesAreLimited ==
  \A u \in Users \ crossed : wrong[u] <= MaxFailedLogins + expired[u]

\* Who changes the access of a user is still an active manager when it is
\* written, whatever the token of the manager says; nobody changes the owner,
\* and only the owner makes or unmakes a super administrator.  All of it unless
\* another change of access came between the reads and the write.
AccessIsManaged ==
  [][\A r \in Requests :
       LET p == request[r] IN
       p.step = "target" /\ ~p.raced /\ request'[r].step = "idle" =>
         /\ user[p.manager].status = "ACTIVE"
         /\ user[p.manager].role \in MANAGERS
         /\ p.user \notin {Owner, p.manager}
         /\ "SUPER_ADMIN" \in {user[p.user].role, user'[p.user].role} => p.manager = Owner]_vars
=============================================================================
