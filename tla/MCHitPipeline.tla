--------------------------- MODULE MCHitPipeline ---------------------------
(* Two sample values tell order apart, one more sample than queue, worker  *)
(* and buffer can hold makes them overflow, and with two messages retained *)
(* a stream that does not read is overrun by the third.                    *)
EXTENDS HitPipeline

CONSTANTS s1, s2, c1, c2

MCSample == {s1, s2}
MCClient == {c1, c2}
=============================================================================
