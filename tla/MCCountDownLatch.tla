-------------------------- MODULE MCCountDownLatch --------------------------
(* A small instance of CountDownLatch for TLC.                             *)
EXTENDS CountDownLatch
CONSTANTS p, q, r   \* threads
=============================================================================
