--------------------------- MODULE MCMailOpQueue ----------------------------
(* Values for the constants of MailOpQueue.                                *)
EXTENDS MailOpQueue

MCUserTypes == {"RECEIVE", "DELETE"}
MCOutcomes  == AllOutcomes
=============================================================================
