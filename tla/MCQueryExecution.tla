-------------------------- MODULE MCQueryExecution --------------------------
(* QueryExecution on an instance TLC can enumerate.                        *)
EXTENDS QueryExecution

=============================================================================
