\* Pages of two browsers that sign in, out and up, in thirteen situations.
SPECIFICATION FairSpec
CONSTANTS
  A = A  B = B  C = C  mailA = mailA  mailB = mailB  mailC = mailC  code = code
  sA = sA  sB = sB  sI = sI  pass = pass  x = x  y = y  p1 = p1  p2 = p2  p3 = p3
  n1 = n1  n2 = n2  n3 = n3  n4 = n4  n5 = n5  None = None
  Accounts = {A, B, C}
  Emails = {mailA, mailB, mailC}
  Challenges = {code, n1, n2, n3, n4, n5}
  Sessions = {sA, sB, sI, n1, n2, n3, n4, n5}
  Passkeys = {pass, n1, n2, n3, n4, n5}
  Tokens = {n1, n2, n3, n4, n5}
  Owner = A
  MaxAttempts = 2
  Cooldown = 1
  CodeLifetime = 4
  IdleLifetime = 3
  AbsoluteLifetime = 6
  Calls = {1, 2, 3, 4, 5}
  Clients = {x, y}
  New <- NewIds
  Rules <- Limits
  CeremonyLifetime = 1
  AuthorizationLifetime = 1
  BindingLifetime = 3
  BootstrapEmail = mailA
  MaxDelay = 1
  MaxTime = 3
  Pages = {p1, p2, p3}
  Browser <- Browsers
  Situations <- All
INVARIANTS WindowsHold GrantedOnceToWhoBegan LogoutEnds
PROPERTIES CodesSettle
CHECK_DEADLOCK FALSE
