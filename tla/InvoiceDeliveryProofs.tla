------------------------ MODULE InvoiceDeliveryProofs ------------------------
(***************************************************************************)
(* The safety invariants of invoice delivery for every set of concurrent   *)
(* requests, every set of attempts and every number of content revisions;  *)
(* and what the SMTP session it sends through reports, for every number of *)
(* command exchanges (every number of recipients and AUTH lines).          *)
(***************************************************************************)
EXTENDS InvoiceDelivery, SmtpSession, TLAPS

(* The inductive invariant.                                                 *)

(* An invoice that may be delivered has a current revision. *)
HasContent == status \in {"approved", "sent"} => current = revisions /\ current \in Revision

(* One request at a time is past acquire, and it works on the attempt the   *)
(* key names.                                                               *)
OneLate ==
  /\ \A r \in Request : pc[r] \in Late => job[r] \in Sending
  /\ \A q, r \in Request : pc[q] \in Late /\ pc[r] \in Late => q = r

(* While the fate of a delivery is open, the invoice cannot leave the       *)
(* revision it was reserved for.                                            *)
OpenHolds == \A a \in Attempt : event[a] \in UnresolvedStatus => Eligible(bound[a])

(* A reservation stays open until its own request completes it. *)
Reserved == \A r \in Request : pc[r] \in {"sending", "complete"} => event[ticket[r]] = "attempted"

(* What the provider answered is true of the server. *)
VerdictTrue ==
  \A r \in Request : pc[r] = "complete" =>
    /\ verdict[r] = "failed" => ticket[r] \notin wire \cup accepted
    /\ verdict[r] = "succeeded" => ticket[r] \in accepted

(* Every message the server has seen was reserved; one it may still accept  *)
(* is unresolved.                                                           *)
MailReserved ==
  /\ wire \cap accepted = {}
  /\ \A a \in wire : event[a] \in UnresolvedStatus
  /\ \A a \in accepted : event[a] \in UnresolvedStatus \cup {"succeeded"}

(* A customer e-mail recorded as succeeded left the invoice sent with the   *)
(* mailed revision.                                                         *)
SuccessSticks ==
  \A a \in CustomerAttempt :
    event[a] = "succeeded" => status = "sent" /\ bound[a] = current

DeliveryInv ==
  /\ TypeOK /\ OneUnresolved /\ AttemptsOwned /\ HonestHistory /\ SentHasEvidence
  /\ HasContent /\ OneLate /\ OpenHolds /\ Reserved /\ VerdictTrue /\ MailReserved
  /\ SuccessSticks

----------------------------------------------------------------------------
(* The initial state satisfies the invariant. *)
LEMMA InitInv == Init => DeliveryInv
<1> SUFFICES ASSUME Init PROVE DeliveryInv
  OBVIOUS
<1>1. dryRun \in BOOLEAN /\ cooling \in BOOLEAN
  BY Zenon DEF Init
<1>2. TypeOK
  BY <1>1, DeliveryAssumption
     DEF Init, TypeOK, Early, Late, Outcome, Job, Preparing, Sending, Revision
<1>3. AttemptsOwned
  BY DeliveryAssumption DEF Init, AttemptsOwned, Late
<1>4. QED
  BY <1>2, <1>3 DEF Init, DeliveryInv, OneUnresolved, HonestHistory,
              SentHasEvidence, HasContent, OneLate, OpenHolds, Reserved, VerdictTrue,
              MailReserved, SuccessSticks, Late, UnresolvedStatus, CustomerAttempt

(* The two flags stay Booleans. *)
LEMMA FlagsAreBoolean == TypeOK /\ [Next]_vars => dryRun' \in BOOLEAN /\ cooling' \in BOOLEAN
<1> SUFFICES ASSUME TypeOK, [Next]_vars PROVE dryRun' \in BOOLEAN /\ cooling' \in BOOLEAN
  OBVIOUS
<1>1. /\ dryRun' = dryRun \/ dryRun' = TRUE
      /\ cooling' = cooling \/ cooling' = FALSE
           \/ \E r \in Request : cooling' = (cooling \/ verdict[r] # "failed")
  BY Zenon
     DEF Next, Step, Handler, vars, history, store, ApproveDraft, ReapproveDraft,
         ReopenApprovedInvoice, CancelApprovedInvoice, CooldownOver, Restart, Start,
         Refuse, CheckInvoice, CheckHistory, ReadRevision, PublishDocument,
         RecheckRevision, PrepareAttempt, AcquireAndReserve, Transmit, Complete,
         CompleteEvent, Downgrade, Release, CompleteManualDelivery, SaveDryRunEvent,
         ProviderReturns, ExpireAttempt, ServerAccepts, ServerDrops, Reads
<1>2. dryRun \in BOOLEAN /\ cooling \in BOOLEAN
  BY DEF TypeOK
<1>3. QED
  BY <1>1, <1>2, Zenon

(* The part of the type invariant that is about requests. *)
RequestsTyped ==
  /\ pc \in [Request -> {"idle"} \cup Early \cup Late]
  /\ job \in [Request -> Job \cup {"none"}]
  /\ ticket \in [Request -> Attempt \cup {None}]
  /\ rev \in [Request -> 0..MaxRevision] /\ verdict \in [Request -> Outcome]
  /\ \A r \in Request : /\ pc[r] = "idle" <=> job[r] = "none"
                        /\ job[r] \in Sending <=> ticket[r] \in Attempt

(* What the other requests are doing does not change. *)
OthersStay(r) ==
  \A q \in Request : q # r =>
    /\ pc'[q] = pc[q] /\ job'[q] = job[q]
    /\ ticket'[q] = ticket[q] /\ verdict'[q] = verdict[q]

(* A request that ends leaves the others alone. *)
LEMMA Ended ==
  ASSUME TypeOK, NEW r \in Request, End(r)
  PROVE  RequestsTyped' /\ OthersStay(r) /\ pc'[r] = "idle"
  BY DeliveryAssumption
     DEF TypeOK, RequestsTyped, OthersStay, End, Outcome, Job, Sending, Preparing

(* So does one that goes on. *)
LEMMA GoesOn ==
  ASSUME TypeOK, NEW r \in Request, pc[r] # "idle",
         NEW step \in Early \cup Late, Goto(r, step),
         rev' \in [Request -> 0..MaxRevision],
         verdict' \in [Request -> Outcome],
         \A q \in Request : q # r => verdict'[q] = verdict[q]
  PROVE  RequestsTyped' /\ OthersStay(r) /\ pc'[r] = step /\ UNCHANGED <<job, ticket>>
  BY DEF TypeOK, RequestsTyped, OthersStay, Goto, Early, Late

(* The invariant speaks of requests past acquire; one that is not, and that *)
(* ends or goes on to an early step, changes nothing it relies on.          *)
LEMMA EarlyStep ==
  ASSUME DeliveryInv, NEW r \in Request, pc[r] \in Early,
         UNCHANGED <<invoice, history, store, mail>>,
         documents' \subseteq Revision,
         \/ End(r)
         \/ \E step \in Early : Goto(r, step) /\ rev' \in [Request -> 0..MaxRevision]
                                /\ UNCHANGED verdict
  PROVE  DeliveryInv'
<1> USE DEF Early, Late
<1>1. /\ \A q \in Request : q # r => pc'[q] = pc[q] /\ job'[q] = job[q]
                              /\ ticket'[q] = ticket[q] /\ verdict'[q] = verdict[q]
      /\ pc'[r] \notin Late /\ pc[r] \notin Late
      /\ \A q \in Request : pc'[q] \in Late => q # r
  BY DEF End, Goto, DeliveryInv, TypeOK
<1>2. TypeOK'
  <2>1. CASE End(r)
    BY <2>1, DeliveryAssumption
       DEF End, DeliveryInv, TypeOK, invoice, history, store, mail, Outcome, Job, Sending, Preparing
  <2>2. ASSUME NEW step \in Early, Goto(r, step), rev' \in [Request -> 0..MaxRevision],
               UNCHANGED verdict
        PROVE  TypeOK'
    BY <2>2, DeliveryAssumption DEF Goto, DeliveryInv, TypeOK, invoice, history, store, mail
  <2>3. QED
    BY <2>1, <2>2
<1>3. AttemptsOwned'
  BY <1>1 DEF DeliveryInv, AttemptsOwned, store
<1>4. OneLate' /\ Reserved' /\ VerdictTrue'
  BY <1>1 DEF DeliveryInv, OneLate, Reserved, VerdictTrue, history, mail
<1>5. QED
  BY <1>2, <1>3, <1>4
     DEF DeliveryInv, OneUnresolved, HonestHistory, SentHasEvidence, HasContent, OpenHolds,
         MailReserved, SuccessSticks, Eligible, invoice, history, mail

(* No request is past acquire while the key names no attempt in flight. *)
LEMMA NoneLate ==
  ASSUME DeliveryInv, ~inProgress
  PROVE  \A r \in Request : pc[r] \notin Late
<1> SUFFICES ASSUME NEW r \in Request, pc[r] \in Late PROVE FALSE
  OBVIOUS
<1>1. ticket[r] \in Attempt
  BY DEF DeliveryInv, OneLate, TypeOK
<1>2. attempt[ticket[r]] = "inFlight" /\ ticket[r] = active
  BY <1>1 DEF DeliveryInv, AttemptsOwned
<1>3. QED
  BY <1>1, <1>2, DeliveryAssumption DEF inProgress

(* A preparation replaces a prepared attempt, never one in flight. *)
LEMMA PrepareStep ==
  ASSUME DeliveryInv, NEW r \in Request, PrepareAttempt(r)
  PROVE  DeliveryInv'
<1>1. RequestsTyped' /\ OthersStay(r) /\ pc'[r] = "idle"
  BY Ended DEF DeliveryInv, PrepareAttempt
<1>2. /\ attempt' \in [Attempt -> {"unused", "prepared", "inFlight", "completed"}]
      /\ content' \in [Attempt -> 0..MaxRevision]
      /\ active' \in Attempt \cup {None} /\ UNCHANGED cooling
  BY DEF PrepareAttempt, superseded, DeliveryInv, TypeOK
<1>3. AttemptsOwned'
  <2>1. CASE inProgress
    BY <1>1, <2>1 DEF DeliveryInv, AttemptsOwned, PrepareAttempt, OthersStay, Late
  <2>2. CASE ~inProgress
    <3>1. \A q \in Request : pc'[q] \notin Late
      BY <1>1, <2>2, NoneLate DEF OthersStay, Late
    <3>2. \A a \in Attempt : superseded[a] \notin {"prepared", "inFlight"}
      BY <2>2, DeliveryAssumption DEF superseded, inProgress, DeliveryInv, TypeOK, AttemptsOwned
    <3>3. superseded \in [Attempt -> {"unused", "prepared", "inFlight", "completed"}]
      BY DEF superseded, DeliveryInv, TypeOK
    <3>4. \A a \in Attempt : attempt'[a] \in {"prepared", "inFlight"} <=> a = active'
      BY <2>2, <3>2, <3>3, DeliveryAssumption DEF PrepareAttempt
    <3>5. \A a \in Attempt : attempt'[a] # "inFlight"
      BY <2>2, <3>2, <3>3 DEF PrepareAttempt
    <3>6. QED
      BY <3>1, <3>4, <3>5 DEF AttemptsOwned
  <2>3. QED
    BY <2>1, <2>2
<1>4. TypeOK'
  BY <1>1, <1>2
     DEF PrepareAttempt, DeliveryInv, TypeOK, RequestsTyped, invoice, history, mail
<1>5. OneLate' /\ Reserved' /\ VerdictTrue'
  BY <1>1 DEF PrepareAttempt, DeliveryInv, OneLate, Reserved, VerdictTrue, OthersStay,
              history, mail, Late
<1>6. QED
  BY <1>3, <1>4, <1>5
     DEF PrepareAttempt, DeliveryInv, OneUnresolved, HonestHistory, SentHasEvidence,
         HasContent, OpenHolds, MailReserved, SuccessSticks, Eligible, invoice, history, mail

(* acquire takes the one prepared attempt, so no other request is past it;  *)
(* the reservation finds no delivery open.                                  *)
LEMMA AcquireStep ==
  ASSUME DeliveryInv, NEW r \in Request, AcquireAndReserve(r)
  PROVE  DeliveryInv'
<1> DEFINE a == ticket[r]
<1>1. pc[r] = "commit" /\ a \in Attempt
      /\ UNCHANGED <<invoice, documents, manual, dryRun, content, active, cooling, mail>>
  BY DEF AcquireAndReserve, DeliveryInv, TypeOK
<1>2. CASE ~Acquirable(r, a)
  <2>1. End(r) /\ UNCHANGED <<event, bound, attempt>>
    BY <1>2 DEF AcquireAndReserve
  <2>2. pc[r] \in Early /\ documents' \subseteq Revision
    BY <1>1 DEF Early, DeliveryInv, TypeOK
  <2>3. QED
    BY <1>1, <2>1, <2>2, EarlyStep DEF history, store
<1>3. CASE Acquirable(r, a)
  <2>1. /\ attempt' = [attempt EXCEPT ![a] = "inFlight"]
        /\ UNCHANGED <<rev, verdict>>
        /\ \/ Reservable(r, a) /\ Reserve(r, a) /\ Goto(r, "sending")
           \/ Reservable(r, a) /\ Reserve(r, a) /\ Goto(r, "release")
           \/ UNCHANGED <<event, bound>> /\ Goto(r, "release")
    BY <1>3 DEF AcquireAndReserve
  <2>2. attempt[a] = "prepared" /\ a = active
    BY <1>1, <1>3 DEF Acquirable, DeliveryInv, AttemptsOwned
  <2>3. \A q \in Request : pc[q] \notin Late
    BY <2>2, NoneLate DEF inProgress
  <2>4. RequestsTyped' /\ OthersStay(r) /\ pc'[r] \in {"sending", "release"}
        /\ UNCHANGED <<job, ticket>>
    BY <1>1, <2>1, GoesOn DEF DeliveryInv, TypeOK, Late
  <2>5. /\ \A q \in Request : pc'[q] \in Late => q = r
        /\ pc'[r] \in Late
    BY <2>3, <2>4 DEF OthersStay, Late
  <2>6. \/ UNCHANGED <<event, bound>> /\ pc'[r] = "release"
        \/ Reservable(r, a) /\ Reserve(r, a)
    BY <1>1, <2>1, GoesOn DEF DeliveryInv, TypeOK, Late
  <2>7. TypeOK'
    BY <1>1, <2>1, <2>4, <2>6
       DEF Reserve, Reservable, DeliveryInv, TypeOK, RequestsTyped, invoice, mail
  <2>8. AttemptsOwned'
    <3>1. \A b \in Attempt : attempt'[b] \in {"prepared", "inFlight"} <=> b = active'
      BY <1>1, <2>1, <2>2 DEF DeliveryInv, TypeOK, AttemptsOwned
    <3>2. \A b \in Attempt : attempt'[b] = "inFlight" <=> b = a
      BY <1>1, <2>1, <2>2 DEF DeliveryInv, TypeOK, AttemptsOwned
    <3>3. QED
      BY <2>4, <2>5, <3>1, <3>2 DEF AttemptsOwned
  <2>9. OneLate' /\ VerdictTrue' /\ Reserved'
    BY <1>1, <2>4, <2>5, <2>6
       DEF AcquireAndReserve, OneLate, VerdictTrue, Reserved, Reserve, DeliveryInv, TypeOK, Late
  <2>10. OneUnresolved' /\ OpenHolds'
    BY <1>1, <2>6, <2>7
       DEF OneUnresolved, OpenHolds, Reserve, Reservable, Unresolved, Eligible,
           DeliveryInv, TypeOK, invoice
  <2>11. HonestHistory' /\ MailReserved'
    BY <1>1, <2>6
       DEF HonestHistory, MailReserved, Reserve, Reservable, DeliveryInv, TypeOK, mail,
           UnresolvedStatus
  <2>12. SentHasEvidence' /\ SuccessSticks' /\ HasContent'
    BY <1>1, <2>6
       DEF SentHasEvidence, SuccessSticks, HasContent, Reserve, Reservable, DeliveryInv,
           TypeOK, CustomerAttempt, invoice
  <2>13. QED
    BY <2>7, <2>8, <2>9, <2>10, <2>11, <2>12 DEF DeliveryInv
<1>4. QED
  BY <1>2, <1>3

(* Recording an outcome that is true of the server keeps what the history,  *)
(* the server and the invoice say of each other.                            *)
LEMMA RecordOutcome ==
  ASSUME DeliveryInv, NEW a \in Attempt, NEW v \in Outcome,
         CanComplete(a, v), CompleteEvent(a, v), UNCHANGED mail,
         v = "failed" => a \notin wire \cup accepted,
         v = "succeeded" => a \in accepted
  PROVE  /\ event' \in [Attempt -> Outcome \cup {"none", "attempted"}]
         /\ status' \in {status, "sent"}
         /\ \A b, c \in Attempt :
              event'[b] \in UnresolvedStatus /\ event'[c] \in UnresolvedStatus => b = c
         /\ HonestHistory' /\ SentHasEvidence' /\ HasContent' /\ OpenHolds'
         /\ MailReserved' /\ SuccessSticks'
<1> USE DEF CanComplete, CompleteEvent, Outcome
<1>1. /\ event' \in [Attempt -> Outcome \cup {"none", "attempted"}]
      /\ event'[a] = v /\ event[a] = "attempted"
      /\ \A b \in Attempt : b # a => event'[b] = event[b]
  BY DEF DeliveryInv, TypeOK
<1>2. status' \in {status, "sent"} /\ (status' # status => status = "approved")
      /\ UNCHANGED <<current, revisions, bound, manual>>
  OBVIOUS
<1>3. \A b \in Attempt : b # a => event[b] \notin UnresolvedStatus
  BY <1>1 DEF DeliveryInv, OneUnresolved, UnresolvedStatus
<1>4. HonestHistory' /\ MailReserved'
  BY <1>1 DEF DeliveryInv, TypeOK, HonestHistory, MailReserved, UnresolvedStatus, mail
<1>5. HasContent' /\ OpenHolds'
  BY <1>1, <1>2, <1>3 DEF DeliveryInv, HasContent, OpenHolds, Eligible, UnresolvedStatus
<1>6. SuccessSticks'
  BY <1>1, <1>2 DEF DeliveryInv, SuccessSticks, OpenHolds, Eligible, CustomerAttempt
<1>7. SentHasEvidence'
  BY <1>1, <1>2 DEF DeliveryInv, SentHasEvidence, Eligible, CustomerAttempt
<1>8. QED
  BY <1>1, <1>2, <1>3, <1>4, <1>5, <1>6, <1>7

(* A request past acquire that moves on to a step which no longer needs the *)
(* reservation keeps its attempt, and no request is left that needs one.    *)
LEMMA LateStep ==
  ASSUME DeliveryInv, NEW r \in Request, pc[r] \in Late,
         NEW step \in {"downgrade", "release"}, Goto(r, step), UNCHANGED <<store, rev>>,
         verdict' \in [Request -> Outcome],
         \A q \in Request : q # r => verdict'[q] = verdict[q]
  PROVE  RequestsTyped' /\ AttemptsOwned' /\ OneLate' /\ Reserved' /\ VerdictTrue'
<1>1. RequestsTyped' /\ OthersStay(r) /\ pc'[r] = step /\ UNCHANGED <<job, ticket>>
  BY GoesOn DEF DeliveryInv, TypeOK, Late
<1>2. \A q \in Request : (pc'[q] \in Late <=> pc[q] \in Late) /\ (pc[q] \in Late => q = r)
  BY <1>1 DEF OthersStay, DeliveryInv, OneLate, Late
<1>3. AttemptsOwned' /\ OneLate'
  BY <1>1, <1>2 DEF DeliveryInv, AttemptsOwned, OneLate, store
<1>4. \A q \in Request : pc'[q] \notin {"sending", "complete"}
  BY <1>1, <1>2 DEF Late
<1>5. QED
  BY <1>1, <1>3, <1>4 DEF Reserved, VerdictTrue

(* Completing a delivery, whether or not the transaction throws. *)
LEMMA CompleteStep ==
  ASSUME DeliveryInv, NEW r \in Request, Complete(r)
  PROVE  DeliveryInv'
<1> DEFINE a == ticket[r]
<1>1. /\ pc[r] = "complete" /\ pc[r] \in Late /\ a \in Attempt /\ verdict[r] \in Outcome
      /\ verdict[r] = "failed" => a \notin wire \cup accepted
      /\ verdict[r] = "succeeded" => a \in accepted
  BY DEF Complete, DeliveryInv, TypeOK, OneLate, VerdictTrue, Late
<1>2. UNCHANGED <<documents, store, mail, rev>>
  BY DEF Complete
<1>3. \E step \in {"downgrade", "release"} : Goto(r, step)
  BY DEF Complete, CompletionThrown
<1>4. verdict' \in [Request -> Outcome] /\ \A q \in Request : q # r => verdict'[q] = verdict[q]
  BY DEF Complete, CompletionThrown, DeliveryInv, TypeOK, Outcome
<1>5. RequestsTyped' /\ AttemptsOwned' /\ OneLate' /\ Reserved' /\ VerdictTrue'
  BY <1>1, <1>2, <1>3, <1>4, LateStep
<1>6. CASE CanComplete(a, verdict[r]) /\ CompleteEvent(a, verdict[r])
  <2>1. /\ event' \in [Attempt -> Outcome \cup {"none", "attempted"}]
        /\ status' \in {status, "sent"}
        /\ \A b, c \in Attempt :
             event'[b] \in UnresolvedStatus /\ event'[c] \in UnresolvedStatus => b = c
        /\ HonestHistory' /\ SentHasEvidence' /\ HasContent' /\ OpenHolds'
        /\ MailReserved' /\ SuccessSticks'
    BY <1>1, <1>2, <1>6, RecordOutcome
  <2>2. TypeOK'
    BY <1>2, <1>5, <1>6, <2>1
       DEF CompleteEvent, DeliveryInv, TypeOK, RequestsTyped, store, mail
  <2>3. QED
    BY <1>5, <2>1, <2>2 DEF DeliveryInv, OneUnresolved
<1>7. CASE UNCHANGED <<invoice, history>>
  <2>1. TypeOK'
    BY <1>2, <1>5, <1>7 DEF DeliveryInv, TypeOK, RequestsTyped, invoice, history, store, mail
  <2>2. QED
    BY <1>2, <1>5, <1>7, <2>1
       DEF DeliveryInv, OneUnresolved, HonestHistory, SentHasEvidence, HasContent,
           OpenHolds, MailReserved, SuccessSticks, Eligible, invoice, history, mail
<1>8. QED
  BY <1>6, <1>7 DEF Complete

(* Recording outcomeUnknown after a completion that threw. *)
LEMMA DowngradeStep ==
  ASSUME DeliveryInv, NEW r \in Request, Downgrade(r)
  PROVE  DeliveryInv'
<1> DEFINE a == ticket[r]
<1>1. pc[r] = "downgrade" /\ pc[r] \in Late /\ a \in Attempt
  BY DEF Downgrade, DeliveryInv, TypeOK, OneLate, Late
<1>2. UNCHANGED <<documents, store, mail, rev, verdict>> /\ Goto(r, "release")
  BY DEF Downgrade
<1>3. RequestsTyped' /\ AttemptsOwned' /\ OneLate' /\ Reserved' /\ VerdictTrue'
  BY <1>1, <1>2, LateStep DEF DeliveryInv, TypeOK
<1>4. CASE CanComplete(a, "outcomeUnknown") /\ CompleteEvent(a, "outcomeUnknown")
  <2>1. /\ event' \in [Attempt -> Outcome \cup {"none", "attempted"}]
        /\ status' \in {status, "sent"}
        /\ \A b, c \in Attempt :
             event'[b] \in UnresolvedStatus /\ event'[c] \in UnresolvedStatus => b = c
        /\ HonestHistory' /\ SentHasEvidence' /\ HasContent' /\ OpenHolds'
        /\ MailReserved' /\ SuccessSticks'
    BY <1>1, <1>2, <1>4, RecordOutcome, "outcomeUnknown" \in Outcome DEF Outcome
  <2>2. TypeOK'
    BY <1>2, <1>3, <1>4, <2>1
       DEF CompleteEvent, DeliveryInv, TypeOK, RequestsTyped, store, mail
  <2>3. QED
    BY <1>3, <2>1, <2>2 DEF DeliveryInv, OneUnresolved
<1>5. CASE UNCHANGED <<invoice, history>>
  <2>1. TypeOK'
    BY <1>2, <1>3, <1>5 DEF DeliveryInv, TypeOK, RequestsTyped, invoice, history, store, mail
  <2>2. QED
    BY <1>2, <1>3, <1>5, <2>1
       DEF DeliveryInv, OneUnresolved, HonestHistory, SentHasEvidence, HasContent,
           OpenHolds, MailReserved, SuccessSticks, Eligible, invoice, history, mail
<1>6. QED
  BY <1>4, <1>5 DEF Downgrade

(* The finally block frees the attempt of the one request past acquire. *)
LEMMA ReleaseStep ==
  ASSUME DeliveryInv, NEW r \in Request, Release(r), cooling' \in BOOLEAN
  PROVE  DeliveryInv'
<1> DEFINE a == ticket[r]
<1>1. pc[r] \in Late /\ a \in Attempt
  BY DEF Release, DeliveryInv, TypeOK, OneLate, Late
<1>2. attempt[a] = "inFlight" /\ active = a
  BY <1>1 DEF DeliveryInv, AttemptsOwned
<1>3. /\ attempt' = [attempt EXCEPT ![a] = "completed"] /\ active' = None
      /\ UNCHANGED <<invoice, documents, history, content, mail>>
  BY <1>2 DEF Release
<1>4. RequestsTyped' /\ OthersStay(r) /\ pc'[r] = "idle"
  BY Ended DEF Release, DeliveryInv
<1>5. \A q \in Request : pc'[q] \notin Late
  BY <1>1, <1>4 DEF DeliveryInv, OneLate, OthersStay, Late
<1>6. TypeOK'
  BY <1>3, <1>4 DEF DeliveryInv, TypeOK, RequestsTyped, invoice, history, mail
<1>7. AttemptsOwned'
  BY <1>1, <1>2, <1>3, <1>5, DeliveryAssumption DEF DeliveryInv, TypeOK, AttemptsOwned
<1>8. OneLate' /\ Reserved' /\ VerdictTrue'
  BY <1>5 DEF OneLate, Reserved, VerdictTrue, Late
<1>9. QED
  BY <1>3, <1>6, <1>7, <1>8
     DEF DeliveryInv, OneUnresolved, HonestHistory, SentHasEvidence, HasContent,
         OpenHolds, MailReserved, SuccessSticks, Eligible, invoice, history, mail

(* A manual delivery finds no delivery open and records the revision the    *)
(* invoice has.                                                             *)
LEMMA ManualStep ==
  ASSUME DeliveryInv, NEW r \in Request, CompleteManualDelivery(r)
  PROVE  DeliveryInv'
<1>1. RequestsTyped' /\ OthersStay(r) /\ pc'[r] = "idle" /\ pc[r] = "commit"
  BY Ended DEF CompleteManualDelivery, DeliveryInv
<1>2. UNCHANGED <<current, revisions, documents, event, bound, dryRun, store, mail>>
  BY DEF CompleteManualDelivery
<1>3. \/ UNCHANGED <<manual, status>>
      \/ /\ Eligible(rev[r]) /\ rev[r] \in documents /\ status = "approved" /\ ~Unresolved
         /\ manual' = manual \cup {rev[r]} /\ status' = "sent"
  BY DEF CompleteManualDelivery
<1>4. TypeOK'
  BY <1>1, <1>2, <1>3 DEF DeliveryInv, TypeOK, RequestsTyped, store, mail
<1>5. AttemptsOwned' /\ OneLate' /\ Reserved' /\ VerdictTrue'
  BY <1>1, <1>2 DEF DeliveryInv, AttemptsOwned, OneLate, Reserved, VerdictTrue, OthersStay,
                    store, mail, Late
<1>6. OneUnresolved' /\ HonestHistory' /\ MailReserved'
  BY <1>2, <1>4 DEF DeliveryInv, OneUnresolved, HonestHistory, MailReserved, mail
<1>7. HasContent' /\ OpenHolds' /\ SentHasEvidence' /\ SuccessSticks'
  BY <1>2, <1>3 DEF DeliveryInv, HasContent, OpenHolds, SentHasEvidence, SuccessSticks,
                    Eligible, Unresolved, CustomerAttempt
<1>8. QED
  BY <1>4, <1>5, <1>6, <1>7 DEF DeliveryInv

(* The steps of a request before it changes delivery state. *)
LEMMA ReadingStep ==
  ASSUME DeliveryInv, NEW r \in Request,
         \/ Refuse(r) \/ CheckInvoice(r) \/ CheckHistory(r) \/ ReadRevision(r)
         \/ PublishDocument(r) \/ RecheckRevision(r)
  PROVE  DeliveryInv'
<1>1. pc[r] \in Early /\ UNCHANGED <<invoice, history, store, mail>>
  BY DEF Refuse, CheckInvoice, CheckHistory, ReadRevision, PublishDocument,
         RecheckRevision, Reads, Early
<1>2. documents' \subseteq Revision
  <2>1. documents' \in {documents, documents \cup {rev[r]}}
        /\ (documents' # documents => isCurrentRevision(rev[r]))
    BY DEF Refuse, CheckInvoice, CheckHistory, ReadRevision, PublishDocument,
           RecheckRevision, Reads
  <2>2. isCurrentRevision(rev[r]) => rev[r] \in Revision
    BY DEF DeliveryInv, HasContent, isCurrentRevision, Eligible
  <2>3. QED
    BY <2>1, <2>2 DEF DeliveryInv, TypeOK
<1>3. \/ End(r)
      \/ \E step \in Early : Goto(r, step) /\ rev' \in [Request -> 0..MaxRevision]
                             /\ UNCHANGED verdict
  <2>1. rev \in [Request -> 0..MaxRevision] /\ current \in 0..MaxRevision
    BY DeliveryAssumption DEF DeliveryInv, TypeOK
  <2>2. CASE Refuse(r)
    BY <2>2 DEF Refuse
  <2>3. CASE CheckInvoice(r)
    BY <2>1, <2>3 DEF CheckInvoice, Early
  <2>4. CASE CheckHistory(r)
    BY <2>1, <2>4 DEF CheckHistory, Early
  <2>5. CASE ReadRevision(r)
    BY <2>1, <2>5 DEF ReadRevision, Early
  <2>6. CASE PublishDocument(r)
    BY <2>1, <2>6 DEF PublishDocument, Early
  <2>7. CASE RecheckRevision(r)
    BY <2>1, <2>7 DEF RecheckRevision, Early
  <2>8. QED
    BY <2>2, <2>3, <2>4, <2>5, <2>6, <2>7
<1>4. QED
  BY <1>1, <1>2, <1>3, EarlyStep

(* A request starts, records a dry run, writes its message or hears from    *)
(* the provider.                                                            *)
LEMMA TrafficStep ==
  ASSUME DeliveryInv, dryRun' \in BOOLEAN, NEW r \in Request,
         \/ \E j \in Job, a \in Attempt \cup {None} : Start(r, j, a)
         \/ SaveDryRunEvent(r) \/ Transmit(r)
         \/ \E v \in Outcome : ProviderReturns(r, v)
  PROVE  DeliveryInv'
<1> USE DeliveryAssumption
    DEF DeliveryInv, TypeOK, OneUnresolved, AttemptsOwned, HonestHistory, SentHasEvidence,
        HasContent, OneLate, OpenHolds, Reserved, VerdictTrue, MailReserved, SuccessSticks,
        Early, Late, Outcome, UnresolvedStatus, Job, Preparing, Sending, Revision,
        CustomerAttempt, Eligible, invoice, history, store, request, mail
<1>1. ASSUME NEW j \in Job, NEW a \in Attempt \cup {None}, Start(r, j, a) PROVE DeliveryInv'
  BY <1>1 DEF Start
<1>2. CASE SaveDryRunEvent(r)
  BY <1>2 DEF SaveDryRunEvent, End
<1>3. CASE Transmit(r)
  BY <1>3 DEF Transmit
<1>4. ASSUME NEW v \in Outcome, ProviderReturns(r, v) PROVE DeliveryInv'
  BY <1>4 DEF ProviderReturns, Goto, Reads
<1>5. QED
  BY <1>1, <1>2, <1>3, <1>4

(* The invoice is approved, reopened or cancelled, time passes, the backend *)
(* restarts: a correction finds no delivery open.                           *)
LEMMA InvoiceStep ==
  ASSUME DeliveryInv, cooling' \in BOOLEAN,
         \/ ApproveDraft \/ ReapproveDraft \/ ReopenApprovedInvoice
         \/ CancelApprovedInvoice \/ CooldownOver \/ Restart
         \/ \E a \in Attempt : ExpireAttempt(a)
  PROVE  DeliveryInv'
<1> USE DeliveryAssumption
    DEF DeliveryInv, TypeOK, OneUnresolved, AttemptsOwned, HonestHistory, SentHasEvidence,
        HasContent, OneLate, OpenHolds, Reserved, VerdictTrue, MailReserved, SuccessSticks,
        Early, Late, Outcome, UnresolvedStatus, Job, Preparing, Sending, Revision,
        CustomerAttempt, Eligible, invoice, history, store, request, mail
<1>1. CASE ApproveDraft
  BY <1>1 DEF ApproveDraft, PublishRevision, Unresolved
<1>2. CASE ReapproveDraft
  BY <1>2 DEF ReapproveDraft, PublishRevision, Unresolved
<1>3. CASE ReopenApprovedInvoice
  BY <1>3 DEF ReopenApprovedInvoice, Unresolved
<1>4. CASE CancelApprovedInvoice
  BY <1>4 DEF CancelApprovedInvoice, hasBlockingDeliveryEvent
<1>5. CASE CooldownOver
  BY <1>5 DEF CooldownOver
<1>6. CASE Restart
  BY <1>6 DEF Restart
<1>7. ASSUME NEW a \in Attempt, ExpireAttempt(a) PROVE DeliveryInv'
  BY <1>7 DEF ExpireAttempt
<1>8. QED
  BY <1>1, <1>2, <1>3, <1>4, <1>5, <1>6, <1>7

(* Every step keeps the invariant. *)
LEMMA NextInv == DeliveryInv /\ [Next]_vars => DeliveryInv'
<1> SUFFICES ASSUME DeliveryInv, [Next]_vars PROVE DeliveryInv'
  OBVIOUS
<1>1. dryRun' \in BOOLEAN /\ cooling' \in BOOLEAN
  BY FlagsAreBoolean DEF DeliveryInv
<1>2. CASE \/ ApproveDraft \/ ReapproveDraft \/ ReopenApprovedInvoice
           \/ CancelApprovedInvoice \/ CooldownOver \/ Restart
           \/ \E a \in Attempt : ExpireAttempt(a)
  BY <1>1, <1>2, InvoiceStep
<1>3. ASSUME NEW r \in Request, Step(r) PROVE DeliveryInv'
  BY <1>1, <1>3, ReadingStep, PrepareStep, AcquireStep, CompleteStep, DowngradeStep,
     ReleaseStep, ManualStep, TrafficStep DEF Step, Handler
<1>4. ASSUME NEW r \in Request,
             Transmit(r) \/ \E j \in Job, a \in Attempt \cup {None} : Start(r, j, a)
      PROVE  DeliveryInv'
  BY <1>1, <1>4, TrafficStep
<1>5. ASSUME NEW a \in Attempt, ServerAccepts(a) \/ ServerDrops(a) PROVE DeliveryInv'
  BY <1>5
     DEF ServerAccepts, ServerDrops, DeliveryInv, TypeOK, OneUnresolved, AttemptsOwned,
         HonestHistory, SentHasEvidence, HasContent, OneLate, OpenHolds, Reserved,
         VerdictTrue, MailReserved, SuccessSticks, UnresolvedStatus, CustomerAttempt,
         Eligible, invoice, history, store, request
<1>6. CASE UNCHANGED vars
  BY <1>6
     DEF vars, DeliveryInv, TypeOK, OneUnresolved, AttemptsOwned, HonestHistory,
         SentHasEvidence, HasContent, OneLate, OpenHolds, Reserved, VerdictTrue,
         MailReserved, SuccessSticks, Eligible, invoice, history, store, request, mail
<1>7. QED
  BY <1>2, <1>3, <1>4, <1>5, <1>6 DEF Next

-----------------------------------------------------------------------------
(* The invariant holds in every reachable state. *)
THEOREM Invariance == Spec => []DeliveryInv
  BY InitInv, NextInv, PTL DEF Spec

(* Reservations of reserveInvoiceEmailDelivery never overlap: at most one   *)
(* delivery of the invoice is unresolved.                                   *)
THEOREM NeverTwoOpen == Spec => []OneUnresolved
<1>1. DeliveryInv => OneUnresolved
  BY DEF DeliveryInv
<1>2. QED
  BY <1>1, Invariance, PTL

(* After the server has accepted a customer message, reopening, cancelling  *)
(* and approving again cannot part the invoice from what was mailed.        *)
THEOREM DeliveredStands == Spec => []DeliveredContentStands
<1>1. DeliveryInv => DeliveredContentStands
  BY DEF DeliveryInv, DeliveredContentStands, MailReserved, OpenHolds, SuccessSticks,
         Eligible, CustomerAttempt, TypeOK
<1>2. QED
  BY <1>1, Invariance, PTL

(* A failure or a success in invoice_delivery_events is true of the server. *)
THEOREM HistoryIsHonest == Spec => []HonestHistory
<1>1. DeliveryInv => HonestHistory
  BY DEF DeliveryInv
<1>2. QED
  BY <1>1, Invariance, PTL

(* An invoice is sent only with evidence for its current revision. *)
THEOREM SentIsEvidenced == Spec => []SentHasEvidence
<1>1. DeliveryInv => SentHasEvidence
  BY DEF DeliveryInv
<1>2. QED
  BY <1>1, Invariance, PTL

(* The provider is called under a durable reservation, one request at a     *)
(* time.                                                                    *)
THEOREM SendsReserved == Spec => []SendsUnderReservation
<1>1. DeliveryInv => SendsUnderReservation
  BY DEF DeliveryInv, SendsUnderReservation, Reserved, OneLate, OpenHolds, TypeOK, Late,
         UnresolvedStatus
<1>2. QED
  BY <1>1, Invariance, PTL

(* The attempt store's key and its attempts agree with the requests that    *)
(* are sending.                                                             *)
THEOREM AttemptsStayOwned == Spec => []AttemptsOwned
<1>1. DeliveryInv => AttemptsOwned
  BY DEF DeliveryInv
<1>2. QED
  BY <1>1, Invariance, PTL

-----------------------------------------------------------------------------
(* The SMTP session.                                                        *)

\* The bookkeeping of answers: the server answers the exchange the session is
\* in, and an answer the session holds is the server's last one.
AnswersInStep ==
  /\ answered <= exchange \/ (exchange = 0 /\ answered <= 1)
  /\ exchange <= answered + 1
  /\ exchange = 0 => answer = "none"
  /\ ~secured => exchange = 0 /\ answered = 0
  /\ inbox # "none" => answered >= 1 /\ exchange \in {0, answered}
  /\ early # "none" => exchange = 0 /\ answered = 1 /\ inbox = "none"
  /\ answer \in {"good", "bad"} => answered = exchange /\ inbox = "none"

\* Where the message can be: not with the server before its exchange or while
\* its bytes are still being written, accepted once the session is past it; and an answer to
\* it, on its way or held, tells what the server decided.
MailInStep ==
  /\ exchange < Final => message = "none"
  /\ exchange = Final /\ write \in {"pending", "skipped"} =>
       message \in {"none", "refused"}
  /\ exchange = Quit => message = "accepted"
  /\ exchange = Final /\ (inbox = "good" \/ answer = "good") => message = "accepted"
  /\ exchange = Final /\ (inbox = "bad" \/ answer = "bad") => message = "refused"

\* A read that is awaited finds the connection without a terminal error, so
\* that a failed write of the message, caught while it is, decides it.
WriteErrorDecides ==
  /\ answer = "waiting" => terminal = "none"
  /\ exchange = Final /\ write = "handled" => answer = "outcomeUnknown"

SessionInv ==
  SessionTypeOK /\ AnswersInStep /\ MailInStep /\ WriteErrorDecides /\ ReportsTruly

-----------------------------------------------------------------------------
\* The initial state satisfies the invariant.
LEMMA SessionInitInv == SessionInit => SessionInv
<1> SUFFICES ASSUME SessionInit PROVE SessionInv
  OBVIOUS
<1>1. open \in BOOLEAN /\ secured \in BOOLEAN
  BY Zenon DEF SessionInit
<1>2. QED
  BY <1>1, CommandsAssumption
     DEF SessionInit, SessionInv, SessionTypeOK, AnswersInStep, MailInStep,
         WriteErrorDecides, ReportsTruly, WriteFailedLate, Final, Quit

\* The socket's flag stays a Boolean.
LEMMA OpenIsBoolean == SessionTypeOK /\ [SessionNext]_sessionVars => open' \in BOOLEAN
<1> SUFFICES ASSUME SessionTypeOK, [SessionNext]_sessionVars PROVE open' \in BOOLEAN
  OBVIOUS
<1>1. open' = open \/ open' = FALSE
  BY Zenon
     DEF SessionNext, Session, Server, Connected, ReadGreeting, CatchWriteError,
         NextExchange, Send, DeadlinePassed, Rejected, ReadRejected, Completed,
         EndSession, ReadTimesOut, WriteCallback, ConnectFails, Receive, SocketFails,
         BytesLeave, ServerGreets, ServerAnswers, Answers, ServerTakesMessage,
         ServerDropsMessage, ServerConfirms, client, sessionVars
<1>2. open \in BOOLEAN
  BY DEF SessionTypeOK
<1>3. QED
  BY <1>1, <1>2, Zenon

\* Every step of the client, the socket and the server preserves it.
LEMMA SessionNextInv == SessionInv /\ [SessionNext]_sessionVars => SessionInv'
<1> SUFFICES ASSUME SessionInv, [SessionNext]_sessionVars PROVE SessionInv'
  OBVIOUS
<1>0. open' \in BOOLEAN
  BY OpenIsBoolean DEF SessionInv
<1> USE <1>0, CommandsAssumption
        DEF SessionInv, SessionTypeOK, AnswersInStep, MailInStep, WriteErrorDecides,
            ReportsTruly, WriteFailedLate, Final, Quit, Pending, client, server
<1>1. CASE Connected
  BY <1>1 DEF Connected
<1>2. CASE ConnectFails
  BY <1>2 DEF ConnectFails
<1>3. CASE ReadGreeting
  BY <1>3 DEF ReadGreeting, BeginRead, Greeting
<1>4. CASE CatchWriteError
  BY <1>4 DEF CatchWriteError, failPending
<1>5. CASE NextExchange
  BY <1>5 DEF NextExchange, Send, BeginRead, Settled
<1>6. CASE DeadlinePassed
  BY <1>6 DEF DeadlinePassed, Settled, EndSession, failPending
<1>7. CASE Rejected
  BY <1>7 DEF Rejected, Settled, EndSession, failPending
<1>8. CASE ReadRejected
  BY <1>8 DEF ReadRejected, Settled, EndSession, failPending
<1>9. CASE Completed
  BY <1>9 DEF Completed, Settled, EndSession, failPending
<1>10. CASE ReadTimesOut
  BY <1>10 DEF ReadTimesOut
<1>11. CASE WriteCallback
  BY <1>11 DEF WriteCallback
<1>12. CASE Receive
  <2>1. CASE terminal # "none"
    BY <1>12, <2>1 DEF Receive
  <2>2. CASE terminal = "none" /\ answer = "waiting"
    BY <1>12, <2>2 DEF Receive
  <2>3. CASE terminal = "none" /\ answer # "waiting"
    <3>1. CASE exchange = 0 /\ early = "none"
      <4>1. UNCHANGED <<exchange, secured, answer, write, terminal, answered,
                        message, outcome>> /\ inbox' = "none" /\ early' = inbox
        BY <1>12, <2>3, <3>1 DEF Receive
      <4>2. early' # "none" => answered = 1
        BY <4>1, <3>1
      <4>3. QED
        BY <4>1, <4>2, <3>1
    <3>2. CASE exchange # 0 \/ early # "none"
      <4>1. UNCHANGED <<exchange, secured, answer, write, early, answered,
                        message, outcome>> /\ inbox' = "none" /\ terminal' = "failed"
        BY <1>12, <2>3, <3>2 DEF Receive
      <4>2. QED
        BY <2>3, <4>1
    <3>3. QED
      BY <3>1, <3>2
  <2>4. QED
    BY <2>1, <2>2, <2>3
<1>13. CASE SocketFails
  BY <1>13 DEF SocketFails, failPending
<1>14. CASE BytesLeave
  BY <1>14 DEF BytesLeave
<1>15. CASE ServerGreets
  BY <1>15 DEF ServerGreets, Answers
<1>16. CASE ServerAnswers
  BY <1>16 DEF ServerAnswers, Answers
<1>17. CASE ServerTakesMessage
  BY <1>17 DEF ServerTakesMessage
<1>18. CASE ServerDropsMessage
  BY <1>18 DEF ServerDropsMessage
<1>19. CASE ServerConfirms
  BY <1>19 DEF ServerConfirms, Answers
<1>20. CASE UNCHANGED sessionVars
  BY <1>20 DEF sessionVars
<1>21. QED
  BY <1>1, <1>2, <1>3, <1>4, <1>5, <1>6, <1>7, <1>8, <1>9, <1>10, <1>11,
     <1>12, <1>13, <1>14, <1>15, <1>16, <1>17, <1>18, <1>19, <1>20
     DEF SessionNext, Session, Server

\* The bookkeeping holds in every reachable state.
THEOREM SessionInvariance == SessionSpec => []SessionInv
  BY SessionInitInv, SessionNextInv, PTL DEF SessionSpec

\* Types: whatever the length of the dialogue, the server is never more than
\* one answer ahead of the session.
THEOREM TypeCorrect == SessionSpec => []SessionTypeOK
<1>1. SessionInv => SessionTypeOK
  BY DEF SessionInv
<1>2. QED
  BY <1>1, SessionInvariance, PTL

\* For every number of recipients and AUTH lines the session reports `failed'
\* only when the message is not accepted and never will be, and success only
\* when it is, except on the one path on which sendData returns a read that had
\* failed before the failed write of the message was caught.
THEOREM ReportsAreTrue == SessionSpec => []ReportsTruly
<1>1. SessionInv => ReportsTruly
  BY DEF SessionInv
<1>2. QED
  BY <1>1, SessionInvariance, PTL
=============================================================================
