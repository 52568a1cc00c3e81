--------------------------- MODULE MCEventDispatch ---------------------------
(* Instances of EventDispatch for TLC.                                     *)
EXTENDS EventDispatch

\* Rings that fill up, of two sizes.
RingSizes == [k \in Kind |-> IF k = "notification" THEN 2 ELSE 1]
=============================================================================
