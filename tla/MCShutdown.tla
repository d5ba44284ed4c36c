----------------------------- MODULE MCShutdown -----------------------------
(* Values for the constants of Shutdown.  Closing a window cancels RECEIVE *)
(* operations only, and an error handler runs for a failed one only.       *)
EXTENDS Shutdown

MCUserTypes == {"RECEIVE"}
MCOutcomes  == {<<"SUCCESS", FALSE>>, <<"FAILED", TRUE>>}
\* For liveness: a failure, whose error handler may or may not run a dialog.
MCFailure == {<<"FAILED", TRUE>>}
=============================================================================
