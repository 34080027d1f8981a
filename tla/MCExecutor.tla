----------------------------- MODULE MCExecutor -----------------------------
(***************************************************************************)
(* Model of Executor and of SimpleExecutor, which it replaced, for TLC.  A *)
(* kernel uses one of them: the first step decides, and the other one      *)
(* keeps its initial state.                                                *)
(***************************************************************************)
EXTENDS Executor, SimpleExecutor

CONSTANTS ta, tb, tc, td

OnlyExecutor == UNCHANGED simpleVars /\ SimpleInit
OnlySimple   == UNCHANGED execVars /\ ExecutorInit

MCInit == ExecutorInit /\ SimpleInit

MCNext ==
  \/ ExecutorNext /\ OnlyExecutor
  \/ SimpleNext /\ OnlySimple

MCVars == <<execVars, simpleVars>>

MCSpec ==
  /\ MCInit /\ [][MCNext]_MCVars
  /\ WF_MCVars(ExecutorStep /\ OnlyExecutor)
=============================================================================
