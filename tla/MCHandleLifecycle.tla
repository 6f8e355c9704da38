------------------------- MODULE MCHandleLifecycle -------------------------
(* HandleLifecycle on an instance TLC can enumerate.                       *)
EXTENDS HandleLifecycle

CONSTANTS t1, t2

MCThreads == {t1, t2}
=============================================================================
