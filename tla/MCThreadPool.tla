----------------------------- MODULE MCThreadPool -----------------------------
(* Small instances of ThreadPool for TLC.                                    *)
EXTENDS ThreadPool, TLC

\* Every thread the pool can create: the core ones and one per Commit that
\* can find MaxTaskSize earlier tasks queued, so the bound MaxThreads in
\* AddThreadSpawn never disables a step.
ASSUME BoundNeverBites ==
  /\ MaxThreads >= CorePoolSize
  /\ MaxThreads >= CorePoolSize + Cardinality(Tasks) - MaxTaskSize

\* A new thread always finds a free kernel thread id.
ASSUME EnoughTids == Cardinality(Tids) >= MaxPoolSize

\* The tasks are interchangeable: no action orders or names them.
TaskSymmetry == Permutations(Tasks)
=============================================================================
