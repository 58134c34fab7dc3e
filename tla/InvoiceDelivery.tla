--------------------------- MODULE InvoiceDelivery ---------------------------
(***************************************************************************)
(* One standard invoice of the backend's invoicing module and everything   *)
(* that can happen to it between approval and delivery: the HTTP requests  *)
(* that prepare and send it by e-mail (to the customer, or as an SMTP      *)
(* test), record it as delivered by hand or as a dry run, and the reopen,  *)
(* reapprove and cancel transactions.  Each `await' of a request handler   *)
(* ends a step, each SQLite transaction is one step, the attempt store     *)
(* lives in memory and is lost with the process, and the mail server acts  *)
(* on its own.  Invoices migrated from releases without content revisions  *)
(* (legacy bindings and their review) are outside the model.               *)
(***************************************************************************)
EXTENDS Naturals

CONSTANTS Request,       \* HTTP requests the backend may be serving
          Attempt,       \* attempt ids (random UUIDs, each also an event id)
          TestAttempt,   \* the attempts whose mode is smtpTest
          None,
          MaxRevision    \* bound: how often the invoice may be approved

ASSUME DeliveryAssumption ==
  /\ TestAttempt \subseteq Attempt
  /\ None \notin Attempt
  /\ MaxRevision \in Nat

VARIABLES
  status,      \* invoices.status; "draft" before the first approval
  current,     \* invoice_current_revisions: the current revision, 0 if none
  revisions,   \* how many content revisions have been published
  documents,   \* revisions that have a stored PDF document
  event,       \* invoice_delivery_events with provider smtp: status by id
  bound,       \* the revision an event's document is bound to
  manual,      \* revisions with a manual (or print) delivery event
  dryRun,      \* whether a dry-run event succeeded
  attempt,     \* InMemoryInvoiceEmailSendAttemptStore.attempts: status
  content,     \* the revision in an attempt's requestFingerprint
  active,      \* activeAttemptByKey of this invoice
  cooling,     \* cooldownByKey of this invoice lies in the future
  pc, job, ticket, rev, verdict,   \* per request: progress and locals
  wire,        \* messages written to the server, not yet answered
  accepted     \* messages the server has accepted

invoice == <<status, current, revisions>>
history == <<event, bound, manual, dryRun>>
store == <<attempt, content, active, cooling>>
request == <<pc, job, ticket, rev, verdict>>
mail == <<wire, accepted>>
vars == <<invoice, documents, history, store, request, mail>>

Revision == 1..MaxRevision
CustomerAttempt == Attempt \ TestAttempt
Preparing == {"prepareCustomer", "prepareTest"}
Sending == {"sendCustomer", "sendTest"}
Job == Preparing \cup Sending \cup {"manual", "dryRun"}
Early == {"checkInvoice", "checkHistory", "readRevision", "publish", "recheck",
          "commit"}
Late == {"sending", "complete", "downgrade", "release"}
Outcome == {"succeeded", "failed", "outcomeUnknown"}
UnresolvedStatus == {"attempted", "outcomeUnknown"}

\* readEligibleDeliveryInvoice: revision v is what the invoice now says.
Eligible(v) == status \in {"approved", "sent"} /\ current = v

\* The document repository asks the same before it publishes or confirms a PDF.
isCurrentRevision(v) == Eligible(v)

\* hasUnresolvedInvoiceDeliveryHistory
Unresolved == \E a \in Attempt : event[a] \in UnresolvedStatus

Init ==
  /\ status = "draft" /\ current = 0 /\ revisions = 0 /\ documents = {}
  /\ event = [a \in Attempt |-> "none"] /\ bound = [a \in Attempt |-> 0]
  /\ manual = {} /\ dryRun = FALSE
  /\ attempt = [a \in Attempt |-> "unused"] /\ content = [a \in Attempt |-> 0]
  /\ active = None /\ cooling = FALSE
  /\ pc = [r \in Request |-> "idle"] /\ job = [r \in Request |-> "none"]
  /\ ticket = [r \in Request |-> None] /\ rev = [r \in Request |-> 0]
  /\ verdict = [r \in Request |-> "failed"]
  /\ wire = {} /\ accepted = {}

-----------------------------------------------------------------------------
(* Transactions of the approval and correction repositories.               *)

PublishRevision ==
  /\ revisions < MaxRevision
  /\ revisions' = revisions + 1 /\ current' = revisions + 1
  /\ status' = "approved"

ApproveDraft ==
  /\ status = "draft" /\ PublishRevision
  /\ UNCHANGED <<documents, history, store, request, mail>>

ReapproveDraft ==
  /\ status = "reopened_for_edit" /\ ~Unresolved /\ PublishRevision
  /\ UNCHANGED <<documents, history, store, request, mail>>

ReopenApprovedInvoice ==
  /\ status = "approved" /\ ~Unresolved
  /\ status' = "reopened_for_edit" /\ current' = 0
  /\ UNCHANGED <<revisions, documents, history, store, request, mail>>

\* Mutant: an outcome that is not known does not block cancelling.
blockingUnlessUnknown ==
  \/ \E a \in Attempt : event[a] \in {"attempted", "succeeded"}
  \/ manual # {} \/ dryRun

\* A success of any kind, dry runs and SMTP tests included, blocks cancelling.
hasBlockingDeliveryEvent ==
  \/ \E a \in Attempt : event[a] \in UnresolvedStatus \cup {"succeeded"}
  \/ manual # {} \/ dryRun

CancelApprovedInvoice ==
  /\ status = "approved" /\ ~hasBlockingDeliveryEvent
  /\ status' = "cancelled"
  /\ UNCHANGED <<current, revisions, documents, history, store, request, mail>>

-----------------------------------------------------------------------------
(* Requests up to the point where they change delivery state.              *)

\* A client knows an attempt id only from a preparation.
Start(r, j, a) ==
  /\ pc[r] = "idle"
  /\ IF j \in Sending THEN a \in Attempt /\ attempt[a] # "unused" ELSE a = None
  /\ job' = [job EXCEPT ![r] = j] /\ ticket' = [ticket EXCEPT ![r] = a]
  /\ pc' = [pc EXCEPT ![r] = IF j \in {"manual", "dryRun"} THEN "readRevision"
                             ELSE "checkInvoice"]
  /\ UNCHANGED <<invoice, documents, history, store, rev, verdict, mail>>

End(r) == /\ pc' = [pc EXCEPT ![r] = "idle"]
          /\ job' = [job EXCEPT ![r] = "none"]
          /\ ticket' = [ticket EXCEPT ![r] = None]
          /\ rev' = [rev EXCEPT ![r] = 0]
          /\ verdict' = [verdict EXCEPT ![r] = "failed"]

Goto(r, step) == pc' = [pc EXCEPT ![r] = step] /\ UNCHANGED <<job, ticket>>
Reads(r) == UNCHANGED <<invoice, documents, history, store, mail>>

\* Any early await may throw (I/O, validation, settings, integrity).
Refuse(r) == pc[r] \in Early /\ End(r) /\ Reads(r)

\* getApprovedInvoiceById and requireInvoiceDeliveryEligible; an invoice that
\* is already sent ends a manual delivery at once.
CheckInvoice(r) ==
  /\ pc[r] = "checkInvoice" /\ Reads(r)
  /\ IF \/ status \notin {"approved", "sent"}
        \/ job[r] = "manual" /\ status = "sent"
     THEN End(r)
     ELSE /\ Goto(r, CASE job[r] \in Preparing \cup {"manual"} -> "checkHistory"
                       [] job[r] = "dryRun" -> "publish"
                       [] OTHER -> "readRevision")
          /\ UNCHANGED <<rev, verdict>>

\* hasUnresolvedDeliveryEvent, asked before anything is prepared.
CheckHistory(r) ==
  /\ pc[r] = "checkHistory" /\ Reads(r)
  /\ IF Unresolved THEN End(r)
     ELSE /\ Goto(r, IF job[r] = "manual" THEN "publish" ELSE "readRevision")
          /\ UNCHANGED <<rev, verdict>>

\* generateApprovedInvoicePdfDocument.  loadCustomerInvoiceEmailDocument has read
\* the revision before; a document of another one makes it refuse.
ReadRevision(r) ==
  /\ pc[r] = "readRevision" /\ Reads(r)
  /\ IF current = 0 THEN End(r)
     ELSE /\ rev' = [rev EXCEPT ![r] = current]
          /\ Goto(r, IF job[r] \in {"manual", "dryRun"} THEN "checkInvoice"
                     ELSE "publish")
          /\ UNCHANGED verdict

\* generateInvoiceRevisionPdfDocument: the PDF was rendered meanwhile; it is
\* published, or an existing one confirmed, only for the current revision.
PublishDocument(r) ==
  /\ pc[r] = "publish" /\ UNCHANGED <<invoice, history, store, mail>>
  /\ IF isCurrentRevision(rev[r])
     THEN /\ documents' = documents \cup {rev[r]}
          /\ Goto(r, IF job[r] \in {"prepareCustomer", "sendCustomer"}
                     THEN "recheck" ELSE "commit")
          /\ UNCHANGED <<rev, verdict>>
     ELSE End(r) /\ UNCHANGED documents

\* loadCustomerInvoiceEmailDocument reads the current revision once more.
RecheckRevision(r) ==
  /\ pc[r] = "recheck" /\ Reads(r)
  /\ IF current # rev[r] THEN End(r)
     ELSE Goto(r, "commit") /\ UNCHANGED <<rev, verdict>>

-----------------------------------------------------------------------------
(* The attempt store.                                                      *)

\* prepare: an attempt in flight is a refusal, a prepared one is superseded
\* (even when the cooldown then refuses the new one).
inProgress == active # None /\ attempt[active] = "inFlight"
superseded == IF active # None /\ attempt[active] = "prepared"
              THEN [attempt EXCEPT ![active] = "completed"] ELSE attempt

PrepareAttempt(r) ==
  /\ pc[r] = "commit" /\ job[r] \in Preparing
  /\ UNCHANGED <<invoice, documents, history, mail, cooling>>
  /\ End(r)
  /\ \/ inProgress /\ UNCHANGED <<attempt, content, active>>
     \/ /\ ~inProgress /\ cooling
        /\ attempt' = superseded /\ active' = None /\ UNCHANGED content
     \/ /\ ~inProgress /\ ~cooling
        /\ \E a \in Attempt :
             /\ attempt[a] = "unused"
             /\ (a \in TestAttempt) = (job[r] = "prepareTest")
             /\ attempt' = [superseded EXCEPT ![a] = "prepared"]
             /\ content' = [content EXCEPT ![a] = rev[r]]
             /\ active' = a

\* cleanup, applied lazily by prepare and acquire: the authorization expires,
\* and whatever attempt the key names is forgotten.
ExpireAttempt(a) ==
  /\ attempt[a] = "prepared"
  /\ attempt' = [attempt EXCEPT ![a] = "completed"] /\ active' = None
  /\ UNCHANGED <<invoice, documents, history, content, cooling, request, mail>>

CooldownOver ==
  /\ cooling /\ cooling' = FALSE
  /\ UNCHANGED <<invoice, documents, history, attempt, content, active,
                 request, mail>>

-----------------------------------------------------------------------------
(* Sending.  acquire and the reservation run without an await between them.*)

\* acquire: prepared, and the same mode and document as were prepared.
Acquirable(r, a) == /\ attempt[a] = "prepared"
                    /\ (a \in TestAttempt) = (job[r] = "sendTest")
                    /\ content[a] = rev[r]

\* Mutant: an unresolved delivery does not refuse a reservation.
ReservableAgain(r, a) == /\ Eligible(rev[r])
                         /\ rev[r] \in documents /\ event[a] = "none"

\* reserveInvoiceEmailDelivery
Reservable(r, a) == /\ Eligible(rev[r]) /\ ~Unresolved
                    /\ rev[r] \in documents /\ event[a] = "none"

Reserve(r, a) == /\ event' = [event EXCEPT ![a] = "attempted"]
                 /\ bound' = [bound EXCEPT ![a] = rev[r]]

\* Mutant: the result of the reservation is ignored.
SendAnyway(r) ==
  /\ pc[r] = "commit" /\ job[r] \in Sending /\ Acquirable(r, ticket[r])
  /\ attempt' = [attempt EXCEPT ![ticket[r]] = "inFlight"]
  /\ \/ Reservable(r, ticket[r]) /\ Reserve(r, ticket[r])
     \/ ~Reservable(r, ticket[r]) /\ UNCHANGED <<event, bound>>
  /\ Goto(r, "sending")
  /\ UNCHANGED <<invoice, documents, manual, dryRun, content, active, cooling,
                 mail, rev, verdict>>

AcquireAndReserve(r) ==
  /\ pc[r] = "commit" /\ job[r] \in Sending
  /\ UNCHANGED <<invoice, documents, manual, dryRun, content, active, cooling, mail>>
  /\ LET a == ticket[r] IN
     \/ ~Acquirable(r, a) /\ End(r) /\ UNCHANGED <<event, bound, attempt>>
     \/ /\ Acquirable(r, a)
        /\ attempt' = [attempt EXCEPT ![a] = "inFlight"]
        /\ UNCHANGED <<rev, verdict>>
        /\ \/ Reservable(r, a) /\ Reserve(r, a) /\ Goto(r, "sending")
           \* The transaction throws; whether it committed is not known.
           \/ Reservable(r, a) /\ Reserve(r, a) /\ Goto(r, "release")
           \/ UNCHANGED <<event, bound>> /\ Goto(r, "release")

\* The provider writes the message; from here on the server decides.
Transmit(r) ==
  /\ pc[r] = "sending" /\ ticket[r] \notin wire \cup accepted
  /\ wire' = wire \cup {ticket[r]}
  /\ UNCHANGED <<invoice, documents, history, store, request, accepted>>

\* The server accepts a message it has received, perhaps long after the
\* request, or the whole backend, has gone.
ServerAccepts(a) ==
  /\ a \in wire
  /\ wire' = wire \ {a} /\ accepted' = accepted \cup {a}
  /\ UNCHANGED <<invoice, documents, history, store, request>>

ServerDrops(a) ==
  /\ a \in wire
  /\ wire' = wire \ {a}
  /\ UNCHANGED <<invoice, documents, history, store, request, accepted>>

\* Mutant: an error after the message was written counts as a failure.
ReturnsFailedLate(r, v) ==
  /\ pc[r] = "sending"
  /\ v = "succeeded" => ticket[r] \in accepted
  /\ verdict' = [verdict EXCEPT ![r] = v]
  /\ Goto(r, "complete") /\ UNCHANGED rev /\ Reads(r)

\* sendEmail settles as ProviderCall says.  A result that does not match the
\* request counts as outcomeUnknown.
ProviderReturns(r, v) ==
  /\ pc[r] = "sending"
  /\ v = "succeeded" => ticket[r] \in accepted
  /\ v = "failed" => ticket[r] \notin wire \cup accepted
  /\ verdict' = [verdict EXCEPT ![r] = v]
  /\ Goto(r, "complete") /\ UNCHANGED rev /\ Reads(r)

\* completeReservedInvoiceEmailDelivery
CanComplete(a, v) == /\ event[a] = "attempted"
                     /\ v = "succeeded" => Eligible(bound[a])

CompleteEvent(a, v) ==
  /\ event' = [event EXCEPT ![a] = v]
  /\ status' = IF /\ v = "succeeded" /\ a \in CustomerAttempt
                  /\ status = "approved"
               THEN "sent" ELSE status
  /\ UNCHANGED <<current, revisions, bound, manual, dryRun>>

\* A completion that throws turns a success into one more attempt to record
\* outcomeUnknown, and every verdict into outcomeUnknown.
CompletionThrown(r) ==
  /\ verdict' = [verdict EXCEPT ![r] = "outcomeUnknown"]
  /\ Goto(r, IF verdict[r] = "succeeded" THEN "downgrade" ELSE "release")

Complete(r) ==
  /\ pc[r] = "complete" /\ UNCHANGED <<documents, store, mail, rev>>
  /\ LET a == ticket[r] IN
     \/ /\ CanComplete(a, verdict[r]) /\ CompleteEvent(a, verdict[r])
        /\ \/ Goto(r, "release") /\ UNCHANGED verdict
           \/ CompletionThrown(r)
     \/ UNCHANGED <<invoice, history>> /\ CompletionThrown(r)

Downgrade(r) ==
  /\ pc[r] = "downgrade" /\ UNCHANGED <<documents, store, mail, rev, verdict>>
  /\ Goto(r, "release")
  /\ \/ /\ CanComplete(ticket[r], "outcomeUnknown")
        /\ CompleteEvent(ticket[r], "outcomeUnknown")
     \/ UNCHANGED <<invoice, history>>

\* Mutant: the key keeps naming the completed attempt.
ReleaseKeepsActive(r) ==
  /\ pc[r] = "release" /\ End(r)
  /\ attempt' = [attempt EXCEPT ![ticket[r]] = "completed"]
  /\ cooling' = (cooling \/ verdict[r] # "failed")
  /\ UNCHANGED <<invoice, documents, history, content, active, mail>>

\* Mutant: an attempt of unknown outcome is not completed.
ReleaseUnlessUnknown(r) ==
  /\ pc[r] = "release" /\ End(r)
  /\ IF attempt[ticket[r]] = "inFlight" /\ verdict[r] # "outcomeUnknown"
     THEN /\ attempt' = [attempt EXCEPT ![ticket[r]] = "completed"]
          /\ active' = None
          /\ cooling' = (cooling \/ verdict[r] # "failed")
     ELSE UNCHANGED <<attempt, active, cooling>>
  /\ UNCHANGED <<invoice, documents, history, content, mail>>

\* The finally block: attemptStore.complete.
Release(r) ==
  /\ pc[r] = "release" /\ End(r)
  /\ IF attempt[ticket[r]] = "inFlight"
     THEN /\ attempt' = [attempt EXCEPT ![ticket[r]] = "completed"]
          /\ active' = None
          /\ cooling' = (cooling \/ verdict[r] # "failed")
     ELSE UNCHANGED <<attempt, active, cooling>>
  /\ UNCHANGED <<invoice, documents, history, content, mail>>

-----------------------------------------------------------------------------
(* Deliveries that involve no mail server.                                 *)

\* Mutant: the delivered revision need not be the current one.
CompleteStaleManualDelivery(r) ==
  /\ pc[r] = "commit" /\ job[r] = "manual" /\ End(r)
  /\ IF rev[r] \in documents /\ status = "approved" /\ ~Unresolved
     THEN manual' = manual \cup {rev[r]} /\ status' = "sent"
     ELSE UNCHANGED <<manual, status>>
  /\ UNCHANGED <<current, revisions, documents, event, bound, dryRun, store, mail>>

CompleteManualDelivery(r) ==
  /\ pc[r] = "commit" /\ job[r] = "manual" /\ End(r)
  /\ IF /\ Eligible(rev[r]) /\ rev[r] \in documents
        /\ status = "approved" /\ ~Unresolved
     THEN manual' = manual \cup {rev[r]} /\ status' = "sent"
     ELSE UNCHANGED <<manual, status>>
  /\ UNCHANGED <<current, revisions, documents, event, bound, dryRun, store, mail>>

\* A failed dry run leaves an event that nothing ever looks at.
SaveDryRunEvent(r) ==
  /\ pc[r] = "commit" /\ job[r] = "dryRun" /\ End(r)
  /\ \/ Eligible(rev[r]) /\ rev[r] \in documents /\ dryRun' = TRUE
     \/ UNCHANGED dryRun
  /\ UNCHANGED <<invoice, documents, event, bound, manual, store, mail>>

-----------------------------------------------------------------------------
\* The backend process dies and is started again: requests and the attempt
\* store are gone, the database and the mail server are not.
Restart ==
  /\ \E r \in Request : pc[r] # "idle"
  /\ pc' = [r \in Request |-> "idle"] /\ job' = [r \in Request |-> "none"]
  /\ ticket' = [r \in Request |-> None] /\ rev' = [r \in Request |-> 0]
  /\ verdict' = [r \in Request |-> "failed"]
  /\ attempt' = [a \in Attempt |-> IF attempt[a] = "unused" THEN "unused"
                                   ELSE "completed"]
  /\ active' = None /\ cooling' = FALSE
  /\ UNCHANGED <<invoice, documents, history, content, mail>>

\* The steps of a request's own handler, and all it takes by itself.
Handler(r) ==
  \/ Refuse(r) \/ CheckInvoice(r) \/ CheckHistory(r) \/ ReadRevision(r)
  \/ PublishDocument(r) \/ RecheckRevision(r) \/ PrepareAttempt(r)
  \/ AcquireAndReserve(r) \/ Complete(r) \/ Downgrade(r) \/ Release(r)
  \/ CompleteManualDelivery(r) \/ SaveDryRunEvent(r)

Step(r) == Handler(r) \/ \E v \in Outcome : ProviderReturns(r, v)

Next ==
  \/ ApproveDraft \/ ReapproveDraft \/ ReopenApprovedInvoice
  \/ CancelApprovedInvoice \/ CooldownOver \/ Restart
  \/ \E r \in Request :
       \/ \E j \in Job, a \in Attempt \cup {None} : Start(r, j, a)
       \/ Step(r) \/ Transmit(r)
  \/ \E a \in Attempt : ExpireAttempt(a) \/ ServerAccepts(a) \/ ServerDrops(a)

Spec == Init /\ [][Next]_vars

-----------------------------------------------------------------------------
(* Properties.                                                             *)

\* Every variable keeps its type, and a request that is not being served
\* holds nothing.
TypeOK ==
  /\ status \in {"draft", "approved", "sent", "reopened_for_edit", "cancelled"}
  /\ revisions \in 0..MaxRevision /\ current \in {0, revisions}
  /\ documents \subseteq Revision
  /\ event \in [Attempt -> Outcome \cup {"none", "attempted"}]
  /\ bound \in [Attempt -> 0..MaxRevision]
  /\ manual \subseteq Revision /\ dryRun \in BOOLEAN
  /\ attempt \in [Attempt -> {"unused", "prepared", "inFlight", "completed"}]
  /\ content \in [Attempt -> 0..MaxRevision]
  /\ active \in Attempt \cup {None} /\ cooling \in BOOLEAN
  /\ pc \in [Request -> {"idle"} \cup Early \cup Late]
  /\ job \in [Request -> Job \cup {"none"}]
  /\ ticket \in [Request -> Attempt \cup {None}]
  /\ rev \in [Request -> 0..MaxRevision] /\ verdict \in [Request -> Outcome]
  /\ wire \subseteq Attempt /\ accepted \subseteq Attempt
  /\ \A r \in Request : /\ pc[r] = "idle" <=> job[r] = "none"
                        /\ job[r] \in Sending <=> ticket[r] \in Attempt

\* At most one delivery of the invoice is unresolved at any time: whatever
\* prepared attempts survived from before, no second message is started while
\* the fate of an earlier one is not known.
OneUnresolved ==
  /\ TypeOK
  /\ \A a, b \in Attempt :
       event[a] \in UnresolvedStatus /\ event[b] \in UnresolvedStatus => a = b

\* What the customer has received is what the invoice says: once the server
\* has accepted a customer message, the invoice is neither cancelled nor open
\* for editing and its current revision is the one that was mailed, even when
\* the server accepts after the request or the backend has died.
DeliveredContentStands ==
  \A a \in accepted \cap CustomerAttempt : Eligible(bound[a])

\* The delivery history does not lie: a message recorded as failed has not
\* reached and will not reach anyone, one recorded as succeeded was accepted.
HonestHistory ==
  \A a \in Attempt : /\ event[a] = "failed" => a \notin wire \cup accepted
                     /\ event[a] = "succeeded" => a \in accepted

\* An invoice is sent only if its current content was delivered: there is a
\* successful customer e-mail or a manual delivery of the current revision.
SentHasEvidence ==
  status = "sent" =>
    \/ \E a \in CustomerAttempt : event[a] = "succeeded" /\ bound[a] = current
    \/ current \in manual

\* The provider is called only under a durable reservation of the current
\* revision, by one request at a time.
SendsUnderReservation ==
  \A r \in Request : pc[r] = "sending" =>
    /\ event[ticket[r]] = "attempted" /\ Eligible(bound[ticket[r]])
    /\ \A q \in Request : pc[q] = "sending" => q = r

\* The key's active attempt is exactly the one that is prepared or in flight,
\* and one in flight belongs to a request that will release it: no attempt
\* is left blocking the invoice, or forgotten while it is being sent.
AttemptsOwned ==
  \A a \in Attempt :
    /\ attempt[a] \in {"prepared", "inFlight"} <=> a = active
    /\ attempt[a] = "inFlight" <=>
         \E r \in Request : pc[r] \in Late /\ ticket[r] = a
=============================================================================
