---------------------------- MODULE MCSessionStream ----------------------------
(* SessionStream for TLC: one run on one thread, watched by several clients.  *)
EXTENDS SessionStream

CONSTANT t1

MCThreads == {t1}
MCThreadOf == [r \in Runs |-> t1]
================================================================================
