----------------------------- MODULE MCExecutor -----------------------------
(* Two instances for TLC, with a pool of three or of two worker threads.  *)
EXTENDS Executor

CONSTANTS h1, h2

MCInsts == {h1, h2}
=============================================================================
