---------------------------- MODULE EmailDelivery ----------------------------
(***************************************************************************)
(* Invoice delivery over the real SMTP session: the request that is in     *)
(* `sending' awaits deliverSmtpMessage, whose connection, timers and       *)
(* server take their steps between those of everything else.  Where        *)
(* InvoiceDelivery assumes what sendEmail promises, here it returns what   *)
(* the session ends with.                                                  *)
(***************************************************************************)
EXTENDS InvoiceDelivery, SmtpSession

\* One request at a time is in a session (SendsUnderReservation), so that the
\* variables of one session are enough; between sessions they are initial.
emailVars == <<vars, sessionVars>>

EmailInit == Init /\ SessionInit

NoSession ==
  /\ exchange' = 0 /\ secured' = FALSE /\ answer' = "none" /\ write' = "none"
  /\ terminal' = "none" /\ open' = TRUE /\ early' = "none"
  /\ answered' = 0 /\ inbox' = "none" /\ message' = "none" /\ outcome' = "pending"

\* A step of r's session: its message is what the server has of the attempt.
During(r) ==
  /\ pc[r] = "sending"
  /\ wire' = IF message' = "wire" THEN wire \cup {ticket[r]} ELSE wire \ {ticket[r]}
  /\ accepted' = IF message' = "accepted" THEN accepted \cup {ticket[r]} ELSE accepted
  /\ UNCHANGED <<invoice, documents, history, store, request>>

\* deliverSmtpMessage takes a step by itself; the socket or the server does.
SessionStep(r) == Session /\ During(r)
SocketStep(r) == (ConnectFails \/ Receive \/ SocketFails \/ BytesLeave) /\ During(r)
ServerStep(r) == Server /\ During(r)

\* sendEmail settles with the session's outcome; a success whose result does not
\* match the request counts as outcomeUnknown.
CallReturns(r) ==
  /\ pc[r] = "sending" /\ outcome # "pending"
  /\ \/ verdict' = [verdict EXCEPT ![r] = outcome]
     \/ outcome = "succeeded" /\ verdict' = [verdict EXCEPT ![r] = "outcomeUnknown"]
  /\ Goto(r, "complete") /\ UNCHANGED rev /\ Reads(r)
  /\ NoSession

\* Messages of sessions that are over: the server still decides about them.
EarlierMessages == {a \in Attempt : \A r \in Request : pc[r] = "sending" => ticket[r] # a}

DeliveryStep ==
  /\ \/ ApproveDraft \/ ReapproveDraft \/ ReopenApprovedInvoice
     \/ CancelApprovedInvoice \/ CooldownOver
     \/ \E r \in Request, j \in Job, a \in Attempt \cup {None} : Start(r, j, a)
     \/ \E a \in Attempt : ExpireAttempt(a)
     \/ \E a \in EarlierMessages : ServerAccepts(a) \/ ServerDrops(a)
  /\ UNCHANGED sessionVars

HandlerStep(r) == Handler(r) /\ UNCHANGED sessionVars

\* The connection dies with the process.
EmailRestart == Restart /\ NoSession

EmailNext ==
  \/ DeliveryStep \/ EmailRestart
  \/ \E r \in Request : \/ HandlerStep(r) \/ CallReturns(r)
                        \/ SessionStep(r) \/ SocketStep(r) \/ ServerStep(r)

EmailSpec == EmailInit /\ [][EmailNext]_emailVars

\* The event loop runs every continuation and callback, and the connection, read
\* and idle timers fire; neither the server nor the network need do anything.
FairEmailSpec ==
  EmailSpec /\ \A r \in Request : /\ WF_emailVars(HandlerStep(r))
                                  /\ WF_emailVars(CallReturns(r))
                                  /\ WF_emailVars(SessionStep(r))

-----------------------------------------------------------------------------
(* Properties.                                                             *)

\* deliverSmtpMessage always settles, and sendEmail with it: no timer, reply or
\* callback is awaited for ever, whatever the server and the socket do.
SessionEnds == \A r \in Request : pc[r] = "sending" ~> pc[r] # "sending"

\* An attempt in flight is always released, whatever happens in its session, so
\* that a later preparation is not refused as inProgress for ever.
AttemptsReleased ==
  \A a \in Attempt : attempt[a] = "inFlight" ~> attempt[a] # "inFlight"
=============================================================================
