--------------------------- MODULE MCEmailDelivery ---------------------------
(* One request at a time; a customer attempt and an SMTP test.              *)
EXTENDS EmailDelivery

CONSTANTS r1, c1, t1
MCRequest == {r1}
MCAttempt == {c1, t1}
MCTestAttempt == {t1}
=============================================================================
