----------------------------- MODULE MCEventLoop -----------------------------
(* A small instance of EventLoop for TLC.                                    *)
EXTENDS EventLoop, TLC
CONSTANTS p, q, r   \* threads
CONSTANTS x, y      \* loops

Symmetric == Permutations({p, q, r}) \union Permutations({x, y})
=============================================================================
