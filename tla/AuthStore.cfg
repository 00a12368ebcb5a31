\* Any two calls and a look at a session, or three of some, at once on two accounts.
SPECIFICATION FairSpec
CONSTANTS
  A = A  B = B  mailA = mailA  mailB = mailB  mailC = mailC
  code = code  sA = sA  sB = sB  pass = pass  token = token
  n1 = n1  n2 = n2  n3 = n3
  Calls = {1, 2, 3}
  Situations <- Chosen
  Accounts = {A, B, n1, n2, n3}
  Emails = {mailA, mailB, mailC}
  Challenges = {code, n1, n2, n3}
  Sessions = {sA, sB, n1, n2, n3}
  Passkeys = {pass, n1, n2, n3}
  Tokens = {token}
  Owner = A
  MaxAttempts = 2
  Cooldown = 1
  CodeLifetime = 4
  IdleLifetime = 3
  AbsoluteLifetime = 6
INVARIANTS TypeOK DeactivatedHasNoAccess OneSessionPerProof GuessesAreLimited OneOpenCode
PROPERTIES ChangesAreAuthorized RepositorySpec NothingComesBack OwnerDecides NoUpdateIsLost CallsEnd
CHECK_DEADLOCK FALSE
