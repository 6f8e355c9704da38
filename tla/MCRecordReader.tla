--------------------------- MODULE MCRecordReader ---------------------------
(* RecordReader on instances TLC can enumerate.                            *)
EXTENDS RecordReader

CONSTANTS w1, w2

TwoWorkers == {w1, w2}

=============================================================================
