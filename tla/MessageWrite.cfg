\* Three calls: retries of one message, its key with other content, and two operators
\* who act as one persona with one key, while two administrative transactions change
\* who may post, who is signed in and who may act as the persona.
SPECIFICATION Spec
CONSTANTS
  c1 = c1  p1 = p1  p2 = p2  s1 = s1  k1 = k1   b1 = b1  b2 = b2
  t1 = t1  t2 = t2  t3 = t3
  Chat = {c1}
  Person = {p1, p2}
  Persona = {s1}
  Key = {k1}
  Body = {b1, b2}
  DomainStatus <- MCDomainStatus
  Call = {t1, t2, t3}
  Requests <- MCRequests
  RuledChat = {c1}
  ReadRule <- MCRule
  WriteRule <- MCRule
  MaxChanges = 2
SYMMETRY CallSymmetry
INVARIANTS TypeOK SequencesHaveNoGaps AnswersMatchMessages PeriodsAreOrdered
  OneMessagePerKey EventsMatchMessages LocksProtectCalls CallsNeverStall
PROPERTIES CommitsFollowSequence ImplementsLog CommittedWithAuthority
CHECK_DEADLOCK FALSE
