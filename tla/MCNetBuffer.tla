----------------------------- MODULE MCNetBuffer -----------------------------
(* Small instances of NetBuffer for TLC.                                     *)
EXTENDS NetBuffer, SequencesExt

\* All byte strings of up to MaxData non-zero bytes.
Strings == BoundedSeq(Byte \ {0}, MaxData)
=============================================================================
