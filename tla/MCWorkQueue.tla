---------------------------- MODULE MCWorkQueue ----------------------------
(* Model-checking instance of WorkQueue: two keys, two workers as in        *)
(* startWorkers (threadiness 2), two versions per resource and the         *)
(* code's budget of 5 requeues.                                            *)
EXTENDS WorkQueue, TLC

MCKeys == {"k1", "k2"}
=============================================================================
