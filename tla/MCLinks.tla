------------------------------- MODULE MCLinks ------------------------------
(* Two nodes that dial each other, as in the generated configurations, and  *)
(* one that only dials.  Two dials of the first overlap.                    *)
EXTENDS Links

CONSTANTS a, b, c
MCConn == {<<a, b, 1>>, <<a, b, 2>>, <<b, a, 1>>, <<c, b, 1>>}
=============================================================================
