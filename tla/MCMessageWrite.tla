--------------------------- MODULE MCMessageWrite ---------------------------
(* A small instance of MessageWrite: persons p1 and p2, who may both speak as *)
(* the persona s1, in one chat whose rules let one domain status read and     *)
(* write and the other not even read.                                         *)
EXTENDS MessageWrite, TLC

CONSTANTS c1, p1, p2, s1, k1, b1, b2, t1, t2, t3

MCRequest(p, s, k, b) ==
  [chat |-> c1, operator |-> p, sender |-> s, key |-> k, body |-> b]

MCDomainStatus == {"incubator_participant", "disciple"}
MCRule == {<<c1, "incubator_participant">>}

(* A retry of one message, and its key with other content; two operators who *)
(* use the same key as one persona.                                          *)
MCRequests ==
  {MCRequest(p1, p1, k1, b1), MCRequest(p1, p1, k1, b2),
   MCRequest(p1, s1, k1, b1), MCRequest(p2, s1, k1, b1)}

CallSymmetry == Permutations(Call)
=============================================================================
