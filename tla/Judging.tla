------------------------------- MODULE Judging -------------------------------
(* The two ways a task is judged outside of training: while a checkpoint is    *)
(* evaluated (Evaluation), and from the files of finished tasks (JudgeBench).  *)
EXTENDS Evaluation, JudgeBench

JudgingSpec == EvalSpec /\ BenchSpec

\* Every verdict, of a judge while tasks run or of one that reads their files
\* later, is counted for its own task, once, and none is made up.
VerdictsExact == EvalExact /\ BenchExact
=============================================================================
