---------------------------- MODULE ProviderCall ----------------------------
(***************************************************************************)
(* What the invoice delivery handlers rely on when they await sendEmail:   *)
(* the abstract specification of one call of the SMTP provider.            *)
(***************************************************************************)
VARIABLES message,   \* "none": nothing the server could act on, "wire": the
                     \* server has it and may still decide, or "accepted"
          outcome    \* "pending" until sendEmail settles, then its outcome

Init == message = "none" /\ outcome = "pending"

\* The message is written to the server, only while the call is pending.
Transmit == /\ outcome = "pending" /\ message = "none"
            /\ message' = "wire" /\ UNCHANGED outcome

\* The server decides whenever it likes, after the call has settled too.
Accept == message = "wire" /\ message' = "accepted" /\ UNCHANGED outcome
Drop == message = "wire" /\ message' = "none" /\ UNCHANGED outcome

\* The call settles: success means accepted, failure that nothing will be.
Return(v) == /\ outcome = "pending"
             /\ v = "succeeded" => message = "accepted"
             /\ v = "failed" => message = "none"
             /\ outcome' = v /\ UNCHANGED message

Next == \/ Transmit \/ Accept \/ Drop
        \/ \E v \in {"succeeded", "failed", "outcomeUnknown"} : Return(v)

Spec == Init /\ [][Next]_<<message, outcome>>
=============================================================================
