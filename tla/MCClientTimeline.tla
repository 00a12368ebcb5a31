-------------------------- MODULE MCClientTimeline --------------------------
(* Small instances of ClientTimeline: chats a and b, own message o1. *)
EXTENDS ClientTimeline, TLC

CONSTANTS a, b, o1

ChatSymmetry == Permutations(Chat)

Sizes(h, c, p, r) == [history |-> h, catchUp |-> c, pages |-> p, render |-> r]
Bounding(n, m, s, f) == [stored |-> n, messages |-> m, selects |-> s, faults |-> f]

(* A chat that fits the newest page, and one longer than every page and than *)
(* the timeline.                                                             *)
ReadingInstances ==
  {<<Sizes(2, 1, 1, 2), Bounding(0, 2, 0, 3)>>, <<Sizes(2, 1, 4, 3), Bounding(4, 5, 0, 0)>>}
OwnMessageInstances == {<<Sizes(3, 3, 2, 3), Bounding(0, 3, 0, 0)>>}
SwitchInstances == {<<Sizes(3, 3, 2, 3), Bounding(0, 2, 1, 0)>>}
SwitchingInstances == {<<Sizes(2, 2, 2, 2), Bounding(0, 1, 1, 1)>>}
=============================================================================
