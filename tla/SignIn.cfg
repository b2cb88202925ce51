SPECIFICATION Spec
CONSTANTS
  Users = {owner, u1, u2}
  Owner = owner
  Assignable = {"SUPER_ADMIN", "AGENT"}
  Settable = {"ACTIVE", "DISABLED"}
  Forgetful = {u1}
  Requests = {r1, r2}
  MaxFailedLogins = 2
  MaxWrong = 4
  MaxExpiries = 1
  NoUser = NoUser
INVARIANTS TypeOK GuessesAreLimited
PROPERTIES AccessIsManaged
