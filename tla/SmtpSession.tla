----------------------------- MODULE SmtpSession -----------------------------
(***************************************************************************)
(* deliverSmtpMessage over one TlsSmtpConnection: the session's exchanges, *)
(* the connection's single pending read, its terminal error and its        *)
(* writes, and the socket events that race with them (data, error, close,  *)
(* idle timeout, the read's timer, the write's callback).  The server      *)
(* answers each exchange once, may refuse a message early, may close at    *)
(* any time, and decides about a message it has received in full even when *)
(* the client has gone.                                                    *)
(***************************************************************************)
EXTENDS Naturals

CONSTANT Commands   \* command exchanges between the greeting and the message:
                    \* EHLO, the AUTH lines, MAIL, RCPT for each recipient, DATA

ASSUME CommandsAssumption == Commands \in Nat

Greeting == 1
Final == Commands + 2      \* the message itself: awaitingFinalAcceptance
Quit == Commands + 3

VARIABLES
  exchange,   \* 0 while connecting or before the greeting is read, then the
              \* exchange the session is in
  secured,    \* connectImplicitTlsSmtp has resolved
  answer,     \* the promise of the current read: "waiting" while pendingRead
              \* is set, else how it settled
  write,      \* the current socket.write: "pending", "left" (all bytes out),
              \* "flushed" or "failed" (its callback ran), "handled" or "late"
              \* (the error was caught while the read waited, or after it had
              \* settled), "skipped" (refused at once, nothing was written)
  terminal,   \* terminalError: "none", or its outcome class
  open,       \* the socket has not been destroyed
  early,      \* initialGreeting
  answered,   \* the last exchange the server has answered
  inbox,      \* an answer on its way to the client, or "none"
  message,    \* the message, as the server sees it
  outcome     \* "pending", then how deliverSmtpMessage ended

client == <<exchange, secured, answer, write, terminal, open, early>>
server == <<answered, inbox, message>>
sessionVars == <<client, server, outcome>>

SessionInit ==
  /\ exchange = 0 /\ secured = FALSE /\ answer = "none" /\ write = "none"
  /\ terminal = "none" /\ open = TRUE /\ early = "none"
  /\ answered = 0 /\ inbox = "none" /\ message = "none" /\ outcome = "pending"

Pending == outcome = "pending"

-----------------------------------------------------------------------------
(* Connecting and the greeting.                                            *)

Connected == /\ Pending /\ ~secured /\ secured' = TRUE
             /\ UNCHANGED <<exchange, answer, write, terminal, open, early,
                            server, outcome>>

\* Any failure before the connection is secured, TLS validation included.
ConnectFails == /\ Pending /\ ~secured /\ outcome' = "failed" /\ open' = FALSE
                /\ UNCHANGED <<exchange, secured, answer, write, terminal,
                               early, server>>

\* beginRead: rejected at once when the connection has already failed.
BeginRead == answer' = IF terminal # "none" THEN terminal ELSE "waiting"

\* readReply: a greeting that came early is used, else it is awaited.
ReadGreeting ==
  /\ Pending /\ secured /\ exchange = 0
  /\ exchange' = Greeting /\ write' = "flushed"
  /\ IF early # "none" THEN answer' = early /\ early' = "none"
     ELSE BeginRead /\ UNCHANGED early
  /\ UNCHANGED <<secured, terminal, open, server, outcome>>

-----------------------------------------------------------------------------
(* Socket events.                                                          *)

\* failPending(class): the first terminal error stays, and it is what the
\* pending read is rejected with.
failPending(class) ==
  LET error == IF terminal # "none" THEN terminal ELSE class IN
  /\ terminal' = error
  /\ answer' = IF answer = "waiting" THEN error ELSE answer

\* receive: the reply settles the pending read, or is the early greeting, or
\* is a protocol error; after a terminal error it is ignored.
Receive ==
  /\ Pending /\ secured /\ inbox # "none" /\ open
  /\ inbox' = "none"
  /\ \/ terminal # "none" /\ UNCHANGED client
     \/ /\ terminal = "none" /\ answer = "waiting" /\ answer' = inbox
        /\ UNCHANGED <<exchange, secured, write, terminal, open, early>>
     \/ /\ terminal = "none" /\ answer # "waiting"
        /\ exchange = 0 /\ early = "none"
        /\ early' = inbox
        /\ UNCHANGED <<exchange, secured, answer, write, terminal, open>>
     \/ /\ terminal = "none" /\ answer # "waiting"
        /\ exchange # 0 \/ early # "none"
        /\ terminal' = "failed" /\ open' = FALSE
        /\ UNCHANGED <<exchange, secured, answer, write, early>>
  /\ UNCHANGED <<answered, message, outcome>>

\* The socket's error, close or idle timeout event, or a reply that does not
\* parse: an error whose class is the default one, `failed'.
SocketFails ==
  /\ Pending /\ secured
  /\ failPending("failed") /\ open' = FALSE
  /\ UNCHANGED <<exchange, secured, write, early, server, outcome>>

\* Mutant: no timer runs while the final answer is awaited.
ReadTimesOutBeforeFinal ==
  /\ Pending /\ answer = "waiting" /\ exchange # Final /\ answer' = "failed"
  /\ UNCHANGED <<exchange, secured, write, terminal, open, early, server,
                 outcome>>

\* beginRead's timer: the read is rejected, the connection is not marked.
ReadTimesOut ==
  /\ Pending /\ answer = "waiting" /\ answer' = "failed"
  /\ UNCHANGED <<exchange, secured, write, terminal, open, early, server,
                 outcome>>

\* The last byte leaves.  Only then can the server have the whole message.
BytesLeave ==
  /\ Pending /\ write = "pending" /\ open /\ write' = "left"
  /\ message' = IF exchange = Final /\ message = "none" THEN "wire" ELSE message
  /\ UNCHANGED <<exchange, secured, answer, terminal, open, early, answered,
                 inbox, outcome>>

\* The write's callback.  An error does not tell how much has left: the server
\* may have every byte.
WriteCallback ==
  /\ Pending
  /\ \/ write = "left" /\ write' \in {"flushed", "failed"}
     \/ write = "pending" /\ write' = "failed"
  /\ UNCHANGED <<exchange, secured, answer, terminal, open, early, server,
                 outcome>>

\* Mutant: a failed write of the message is an ordinary transport error.
CatchWriteErrorPlainly ==
  /\ Pending /\ write = "failed"
  /\ write' = IF answer = "waiting" THEN "handled" ELSE "late"
  /\ failPending("failed")
  /\ UNCHANGED <<exchange, secured, open, early, server, outcome>>

\* The catch block behind `await this.write(...)', one microtask later.  A read
\* that has settled meanwhile keeps what it settled with.
CatchWriteError ==
  /\ Pending /\ write = "failed"
  /\ write' = IF answer = "waiting" THEN "handled" ELSE "late"
  /\ failPending(IF exchange = Final THEN "outcomeUnknown" ELSE "failed")
  /\ UNCHANGED <<exchange, secured, open, early, server, outcome>>

-----------------------------------------------------------------------------
(* The session takes an answer and goes on.                                *)

\* The awaited promise of sendCommand or sendData has settled.
Settled == write \in {"flushed", "handled", "late", "skipped"} /\ answer # "waiting"

\* sendCommand or sendData: write() refuses when the connection has failed.
Send(n) == /\ exchange' = n /\ BeginRead
           /\ write' = IF terminal # "none" THEN "skipped" ELSE "pending"
           /\ UNCHANGED <<secured, terminal, open, early, outcome>>

NextExchange == /\ Pending /\ Settled /\ exchange \in 1..Final /\ answer = "good"
                /\ Send(exchange + 1) /\ UNCHANGED server

\* The finally block closes the connection, which rejects a pending read.
EndSession(v) ==
  /\ outcome' = v /\ open' = FALSE
  /\ failPending("failed")
  /\ UNCHANGED <<exchange, secured, write, early, server>>

\* remainingTimeout: the deadline has passed before the next exchange (or, after
\* EHLO, the server offers no authentication method that authenticate knows).
DeadlinePassed ==
  /\ Pending /\ secured /\ EndSession("failed")
  /\ exchange = 0 \/ (Settled /\ exchange \in 1..(Final - 1) /\ answer = "good")

\* expectReply: a code that is not allowed.
Rejected == Pending /\ Settled /\ exchange \in 1..Final /\ answer = "bad"
            /\ EndSession("failed")

\* A rejected promise.  sendData turns it into outcomeUnknown, but only on the
\* path where its own write succeeded.
ReadRejected ==
  /\ Pending /\ Settled /\ exchange \in 1..Final
  /\ answer \in {"failed", "outcomeUnknown"}
  /\ EndSession(IF exchange = Final /\ write = "flushed" THEN "outcomeUnknown"
                ELSE answer)

\* The message was accepted: QUIT and the deadline no longer matter.
Completed == \/ Pending /\ exchange = Quit /\ Settled /\ EndSession("succeeded")
             \/ /\ Pending /\ exchange = Final /\ Settled /\ answer = "good"
                /\ EndSession("succeeded")

-----------------------------------------------------------------------------
(* The server (external).                                                  *)

\* It answers an exchange whose bytes have arrived.
Answers(a) ==
  /\ inbox = "none" /\ answered' = answered + 1 /\ inbox' = a
  /\ UNCHANGED <<client, outcome>>

ServerGreets == /\ secured /\ answered = 0
                /\ \E a \in {"good", "bad"} : Answers(a)
                /\ UNCHANGED message

ServerAnswers ==
  /\ exchange = answered + 1 /\ exchange \in 2..Quit /\ exchange # Final
  /\ write \in {"left", "flushed"}
  /\ \E a \in {"good", "bad"} : Answers(a)
  /\ UNCHANGED message

ServerTakesMessage ==
  /\ message = "wire" /\ message' = "accepted"
  /\ UNCHANGED <<client, answered, inbox, outcome>>
ServerDropsMessage ==
  /\ message = "wire" /\ message' = "refused"
  /\ UNCHANGED <<client, answered, inbox, outcome>>

\* Its answer to the message; a refusal may come before the last byte does.
ServerConfirms ==
  /\ exchange = answered + 1 /\ exchange = Final
  /\ \/ message = "accepted" /\ Answers("good") /\ UNCHANGED message
     \/ message # "accepted" /\ Answers("bad") /\ message' = "refused"

-----------------------------------------------------------------------------
Session == \/ Connected \/ ReadGreeting \/ CatchWriteError \/ NextExchange
           \/ DeadlinePassed \/ Rejected \/ ReadRejected \/ Completed
           \/ ReadTimesOut \/ WriteCallback

Server == ServerGreets \/ ServerAnswers \/ ServerTakesMessage \/ ServerDropsMessage
            \/ ServerConfirms

SessionNext == Session \/ ConnectFails \/ Receive \/ SocketFails \/ BytesLeave \/ Server

SessionSpec == SessionInit /\ [][SessionNext]_sessionVars

\* The event loop runs continuations and callbacks; the connection, read and
\* idle timers fire.
FairSessionSpec == SessionSpec /\ WF_sessionVars(Session)

-----------------------------------------------------------------------------
(* Properties.                                                             *)

\* Every variable keeps its type, and the server is at most one answer ahead.
SessionTypeOK ==
  /\ exchange \in 0..Quit /\ secured \in BOOLEAN /\ open \in BOOLEAN
  /\ answer \in {"none", "waiting", "good", "bad", "failed", "outcomeUnknown"}
  /\ write \in {"none", "pending", "left", "flushed", "failed", "handled",
                "late", "skipped"}
  /\ terminal \in {"none", "failed", "outcomeUnknown"}
  /\ early \in {"none", "good", "bad"} /\ inbox \in {"none", "good", "bad"}
  /\ answered \in 0..Quit /\ answered <= exchange + 1
  /\ message \in {"none", "wire", "accepted", "refused"}
  /\ outcome \in {"pending", "succeeded", "failed", "outcomeUnknown"}

\* The message the contract speaks of: one the server has refused is as good
\* as one it never had.
ProviderMessage == IF message = "refused" THEN "none" ELSE message

Provider == INSTANCE ProviderCall WITH message <- ProviderMessage

\* What email-delivery-and-secrets-plan.md:105 and the test of a failed data
\* write promise, and InvoiceDelivery assumes: `failed' is reported only when the
\* server has not accepted the message and never will, success only when it has,
\* every other end is outcomeUnknown.  sendData breaks it on one path.
ProviderSpec == Provider!Spec

\* The one path: the message's bytes may all have left, its write failed, and
\* the read had been rejected before the error was caught.
WriteFailedLate == exchange = Final /\ write = "late"

\* On every other path the session tells the truth, whatever the order of
\* replies, timeouts, write callbacks and socket errors: a message reported
\* failed is not, and never will be, accepted, also when its write fails while
\* the read is awaited or the read fails after a write that succeeded.
ReportsTruly ==
  /\ outcome = "failed" /\ message \notin {"none", "refused"} => WriteFailedLate
  /\ outcome = "succeeded" => message = "accepted"
=============================================================================
