----------------------------- MODULE MCStatement -----------------------------
(* Statement on instances TLC can enumerate: two results, one after the    *)
(* other, on one handle or on two.                                         *)
EXTENDS Statement

=============================================================================
