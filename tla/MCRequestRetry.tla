---------------------------- MODULE MCRequestRetry ----------------------------
(* Instances of RequestRetry for TLC.                                      *)
EXTENDS RequestRetry

\* A policy long enough for the product to leave the width, one that
\* needs normalizing, and one with its bounds the wrong way round.
Policies == {[attempts |-> 5, initial |-> 5, max |-> 17],
             [attempts |-> 0, initial |-> 0, max |-> 0],
             [attempts |-> 2, initial |-> 5, max |-> 3]}
Answered == {"ok", "overloaded", "error"}
=============================================================================
