---------------------------- MODULE MCAsyncLogging ----------------------------
(* Small instances of AsyncLogging for TLC.                                  *)
EXTENDS AsyncLogging
=============================================================================
