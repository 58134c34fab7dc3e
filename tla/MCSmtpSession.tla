--------------------------- MODULE MCSmtpSession ---------------------------
(* The session is checked as it is: Commands is the only parameter.         *)
EXTENDS SmtpSession
=============================================================================
