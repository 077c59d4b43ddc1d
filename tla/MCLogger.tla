------------------------------ MODULE MCLogger ------------------------------
(* A small instance of Logger for TLC.                                     *)
EXTENDS Logger, TLC
CONSTANTS p, q   \* threads

Symmetric == Permutations({p, q})

\* LOG_WARN and LOG_ERROR do what LOG_INFO does unfiltered.
SomeMacros == {"LOG_INFO", "LOG_FATAL", "LOG_SYS_ERROR", "LOG_SYS_FATAL"}

\* A text that fills the buffer, the smallest number of an 8-bit type, and null.
SomePieces == {Text(5), Integer(-128), Pointer(0)}
SomePlace == <<Text(1), Integer(7)>>
SomeError == <<Text(2), Integer(9)>>
=============================================================================
