------------------------------ MODULE MCOnCall ------------------------------
(* The instance of OnCall that TLC checks. *)
EXTENDS OnCall, TLC

CONSTANTS u1, u2, u3

(* With a day of four ticks: a daily rotation whose turn goes from last to   *)
(* first while the clock runs, one about to begin, a weekly one in its first *)
(* week until then, and one without users.                                   *)
MCRotations == {[type |-> "daily",  start |-> -20, order |-> <<u1, u2, u3>>],
                [type |-> "daily",  start |-> 4,   order |-> <<u2, u1>>],
                [type |-> "weekly", start |-> -24, order |-> <<u3, u2>>],
                [type |-> "daily",  start |-> 0,   order |-> <<>>]}

Symmetry == Permutations(OverrideIds)
=============================================================================
