# TLA+ models of eky

eky is a local-first Finnish invoicing application: an Electron desktop program
(`apps/desktop`) that starts a Node backend (`apps/backend`, SQLite) and shows a
React user interface (`apps/web`). This directory models the parts in which a
mistake loses data, sends a customer the wrong thing or miscounts money, and which
tests reach with difficulty: interrupted file replacements, workspace switches,
creations, imports, restores and updates; concurrent delivery requests; the races of
an SMTP session; invoice numbers over several series; the cents of partial credits.
All source paths are relative to `src/eky_software/`.

## Inventory

| part | state | operations | what is hard |
|---|---|---|---|
| crash-safe slot store (`apps/desktop/src/workspaces/persistence`) | three files: current, next, backup | recoverAndRead, replace, clear, the `*Selected` variants, observed recovery | process death and failing calls between any two filesystem steps |
| its owners: registry, switch, creation, import, deletion, adoption, update and restore journals | one record each, guarded by runExclusive | read, write, remove, inspect | each relies on the store being one atomic register |
| invoice delivery (`apps/backend/src/modules/invoicing`) | invoice status, current content revision, documents, delivery events, in-memory send attempts | prepare, send, test send, manual delivery, dry run; approve, reapprove, reopen, cancel | requests interleave at every await; the server answers late or not at all; restarts lose the attempt store but not the history |
| SMTP session (`apps/backend/src/infrastructure/email`) | session state, one pending read, one write, the terminal error | connect, greeting, commands, data, QUIT, close | replies, timers, write callbacks and socket errors race |
| invoice numbering (`invoicing`) | settings of each series, sequences, active series and its revision, events | update settings, activate a series, approve, reapprove, reopen, cancel | numbers of different series are texts that can coincide; reads and writes in different turns |
| credit notes and payments (`invoicing`) | approved credits with their lines, one draft, payment mark, payment events | create, update, delete, approve a draft; cancel; mark and revert a payment | cents of uneven parts, cancelled out of order, drafts computed from credits that changed |
| workspace creation and import | journal, registry, operation directory, root; an import also a binding and a plaintext quarantine | one multi-step operation each and its cold recovery | death between journal, root and registry; a child process that outlives its parent; a write that threw after it took effect |
| workspace switch, replacement, deletion, adoption | a journal, the registry, directory roots | one multi-step operation each and its startup recovery | as above |
| profile restore activation | activation journal (three files), active, staged, rollback and failed place of database and documents | prepare, advance, roll back, accept, clean up | death between any two renames, also those of the journal |
| update lifecycle | update journal, accepted build, migration chain, package cache, installed build | stage, confirm, hand off, first start, accept, roll back profile and binaries | the actors (old build, installer, new build) meet only on the disk |
| desktop runtime | backend process, maintenance lease, process reservations | start, quiesce, stop | a write in flight while a workspace is stopped |
| web UI, installer, packaging, diagnostics, support bundle | none of the above | | presentation and I/O |

How they interact: the UI calls the backend over HTTP; the invoice handlers call
the SMTP provider and await its outcome; the desktop process stops the backend,
changes roots and records through the slot store, and relaunches itself. The
contract between the handlers and the session is `ProviderCall`, which the session
keeps on every path but one; `EmailDelivery` puts the two together. The contract
between the slot store and its owners is `DurableRegister`. A rollback of an update
restores the profile through the restore activation, and the creation and import of a
workspace end in the relaunch that the switch's startup also runs.

## Modules

### The slot store: `DurableRegister`, `ByteSlotStore`, `ByteSlotStoreProofs`

`ByteSlotStore` has one action per filesystem call of `CrashSafeByteSlotStore`
(`persistence/crashSafeByteSlotStore.ts`), `crashSafeFileSlot.ts` and
`crashSafeObservedRecovery.ts`. `pc` names the call that comes next, `slots` the
contents of the three files, `kind`/`target`/`selected` the open operation.
`Read`, `Write`, `RemoveRecord` are the owner's ordinary calls and begin with
recoverAndRead; `ReplaceSelected`, `RecoverSelected`, `PromoteInitialSelected`,
`ClearSelected` and `RecoverObserved` are the variants that act on slots the
owner has inspected: they never roll back or clean up. `Fail` is a call that
throws without effect, `FailLate` a create, write or rename that happened although the
call throws, `Crash` the death of the process. `AfterThrow` is the control flow
of the try, catch and finally blocks of `replace`. The guards of the selected
operations (identity and authority checks) only ever turn a step into a throw,
which `Fail` contains.

Record contents are opaque; `Torn` is a file readSlot or validateBytes refuses.
Loss of power is not modelled: the design document (docs/architecture/
local-company-workspace-plan.md, 2514) does not promise anything about it. So
are changes of the directory by another program.

`DurableRegister` is what the owners may believe: a request takes effect at most
once, at one instant, while it is open; an abandoned one has or has not; only an
abandoned first write can leave the register unreadable (which is the documented
behaviour: a torn first record blocks the store). `RegisterSpec` states that the
store implements it. The register's value is the slot that `inspect` would choose,
except that a first record that is still being staged is not yet there.

### Invoice delivery: `InvoiceDelivery`, `InvoiceDeliveryProofs`

One standard invoice, the requests that deliver it and the transactions that
change it. Each `await` of a handler ends a step, each SQLite transaction is one
step. `pc`, `job`, `ticket`, `rev` and `verdict` are the locals of a request;
`event`, `bound`, `manual`, `dryRun` the delivery history in the database;
`attempt`, `content`, `active`, `cooling` the `InMemoryInvoiceEmailSendAttemptStore`;
`wire` and `accepted` are the mail server's view. The path of a request:

- `CheckInvoice`, `CheckHistory`, `ReadRevision`, `PublishDocument`,
  `RecheckRevision` are the early awaits, in the order of each handler (manual
  deliveries and dry runs read the revision first). Any of them may throw
  (`Refuse`): validation, settings, I/O, integrity.
- `PrepareAttempt` is `prepare` of the attempt store; `AcquireAndReserve` is
  `acquire` and the reservation transaction, which run without an await between
  them. The transaction may throw with or without having committed.
- `Transmit` and `ProviderReturns` are the call of the provider under the contract
  of `ProviderCall` (`EmailDelivery` has the session in their place); `Complete`, `Downgrade`, `Release` the completion, the second
  try to record outcomeUnknown, and the finally block.
- `CompleteManualDelivery` and `SaveDryRunEvent` are their transactions.
- `ApproveDraft`, `ReapproveDraft`, `ReopenApprovedInvoice`, `CancelApprovedInvoice`
  are the approval and correction transactions; `Restart` is the death of the
  backend, which keeps the database and the mail.

Invoices migrated without content revisions (legacy bindings, their review and
resend), the archive queue and the audit rows are left out. An `attempted` event
left by a crash is never resolved by the code; the documents say so
(docs: sqlite-invoice-delivery-event-persistence-plan.md, 99 and 131), and the model
agrees: nothing here claims that it is.

### The SMTP session: `ProviderCall`, `SmtpSession`, `EmailDelivery`, `InvoiceDeliveryProofs`

`SmtpSession` is `deliverSmtpMessage` over one `TlsSmtpConnection`. `exchange`
counts the session's exchanges (greeting, `Commands` commands, the message, QUIT),
`answer` is the promise of the current read, `write` the current socket.write,
`terminal` the terminalError, `early` the initialGreeting. One action per socket
event (`Receive`, `SocketFails`, `WriteCallback`), per timer (`ReadTimesOut`), per
continuation (`CatchWriteError`, `NextExchange`, `Rejected`, `ReadRejected`,
`DeadlinePassed`, `Completed`), and the server's own steps, marked external. A
reply is `good` (an expected code) or `bad`. `Commands` covers both AUTH methods
and any number of recipients.

A write that reports an error does not tell how much of it has left: `WriteCallback`
may fail a write whose last byte the server already has. The catch block behind the
write runs one microtask later, before or after the socket's error event, whose order
Node leaves open; `write` is `handled` when it still found the read waiting and `late`
when the read had been rejected before.

`ProviderCall` is the contract the documents ask of the session: success means that the
server accepted, `failed` that it did not and never will; anything else is
outcomeUnknown. `ProviderReturns` of `InvoiceDelivery` assumes it, and
`HonestHistory` and `DeliveredContentStands` hold relative to it. The code breaks it
on one path, a late write error of the message (the expected violation `ProviderSpec`
below); on every other it keeps it, which is `ReportsTruly`.

`EmailDelivery` composes both: while a request is in `sending`, the steps of its session
(`SessionStep`, `SocketStep`, `ServerStep`) take the place of the contract, `During`
says that the session's message is what the server has of the attempt, and
`CallReturns` hands the session's own outcome to the request. Only one request can be in
a session (`SendsUnderReservation`), so the variables of one are enough; `NoSession`
resets them when it is over or the backend dies. Messages of sessions that are over stay
with the server, which may still decide about them.

### Switching the workspace: `WorkspaceSwitch`, `WorkspaceSwitchProofs`

The two durable records of a switch, `registry` (the active pointer and the entries
that are ready) and `journal`, and one process that dies and comes back. Each is kept
by the slot store; because that implements `DurableRegister`, a storage call is one
step here: it takes effect or not, and throws or not. `WriteJournal` contains the
transition check of `workspaceSwitchJournalCodec.ts`, `ClearJournal` the ownership
check, both of which turn a call into a throw.

- The command (`workspaceSwitchCoordinator.ts`): `SwitchTo`, `Quiesce`, `Stop`,
  `Prepare`, `SelectTarget`, `MarkSelected`; after a throw `Rollback` and
  `RollbackMark`, `Ensure` (ensurePreviousWorkspaceRunning), `Require`. `pc` is the
  await it is at, `op` its journal record. The lifecycle's states are those of
  `MainOwnedActiveWorkspaceLifecycle`; a shutdown that fails may leave the backend
  alive or gone.
- The startup (`workspaceSwitchStartup.ts`): `Resolve` reads both records,
  `ReconcilePrepared`, `ReconcileRollback` and `ReconcileRest` bring them together,
  `Admit` picks the workspace, `Boot` and `Validate` stand for all checks of the
  startup with a free outcome, `Accept` clears the journal, `Abort` stops the backend
  of a failed startup (`desktopComposition.ts`), `Recover` or `Reject`,
  `MarkRolledBack` and `Persist` return to the source.
- `Quit` is a requested relaunch or the exit of a failed startup, `Close` the user,
  `Crash` a death anywhere. The backend is a child utility process and ends with the
  main process. A startup that fails after `Accept` changes neither record (the code
  skips the recovery then); for the two records it is a `Close`.

`validated` and `rejected` are history variables: what startups have concluded. Left
out are switches started from the workspace selector (journal version 2), the
journals of a restore or migration that a startup also consults (their verdict is part
of `Boot` and `Validate`), and the lifecycle's stops for updates and deletions.

### Creating a workspace: `WorkspaceCreation`, `WorkspaceCreationProofs`

`EmptyWorkspaceCreationCoordinator` (`mode = "live"`) and
`EmptyWorkspaceCreationRecovery` (`"cold"`) share the actions for the steps they share.
The live path is `Create`, `Quiesce`, `Stop`, `Prepare`, `CreateRoot`, `MarkRoot`,
`Spawn`, `AwaitBootstrap`, `MarkBootstrap`, `MarkValidated`, `Publish`,
`MarkPublished`, `Register`, `MarkRegistered`, `Ensure`, `RemoveJournal`; a throw goes
to `HandleFailure`, which discards an unpublished candidate (`Discard`,
`DiscardJournal`) or leaves the journal to the next start, and `Restore` brings the
previous workspace back. `ChildWorks` and `ChildExits` are the candidate utility
process, which may outlive the main process; a start waits for it through the process
reservation. `staging` tells what the operation directory holds, `"hot"` being a
database with SQLite's rollback journal beside it.

### Importing a workspace: `WorkspaceImport`, `WorkspaceImportProofs`

The same discipline for `WorkspaceBackupImportCoordinator` and its recovery, with what
an import adds: the backup is decrypted into a quarantine twice (`Decrypt`, `Preflight`,
`Stage`, `RemovePlain`, `CleanQuarantine` at the start), the remnant binding is
published before the first file and cleared after the last (`Bind`, `ClearBinding`),
two child processes migrate and validate the candidate, and whatever is uncertain
(`Uncertain`) fences the application until a restart. `lineage` is the profile a
workspace comes from. Only the first write of the binding has an intermediate state
(`CrashInBind`), because the startup refuses it.

### Restoring a profile: `ProfileRestore`, `ProfileRestoreProofs`

`ProfileRestoreActivationTransaction`, its journal store, service and startup
recovery. The journal's three files are modelled themselves here (`current`, `backup`,
`next`): this store is not the slot store, and a death between its renames is one of
the cases. Each part (database, documents) is in one or more of four places, and every
rename is an action: `MoveAside`, `Activate`, `RollbackPart`. What comes next is read
off the journal's phase and the places, as the code does; there is no program counter
inside the transaction. `ForwardAdmits` and `RollbackAdmits` are the censuses a start
takes before it goes on. `Validated` and `Rejected` are the verdict on the restored
profile, whose quality `good` is free.

### Invoice numbers: `InvoiceNumbering`, `InvoiceBooksProofs`

A number is a text of digits, modelled as the pair of its length and its value, so
padding and year prefixes count. `MinimumSafe` is
`calculateMinimumSafeInvoiceSequenceNumber` with the collision search as the code does it,
`SafeFirst` the validation of a requested first number, `UpdateSettings`/`SaveSettings`
and `ActivateSeries`/`Activate` the two turns of each request (the save under the
trigger of migration 038, the activation under the revision check), `ApproveDraft`,
`ApproveCredit`, `Reapprove`, `Reopen`, `Cancel`, `MarkSent` the transactions.

### Credits and payments: `InvoiceCredit`, `InvoiceBooksProofs`

One sent invoice. `SourceLine`, `Allocate`, `GroupAmount`, `Share`, `Within` are the
arithmetic of `calculateCreditInvoice.ts`, `calculateCreditInvoiceDraft.ts` and
`calculateReverseChargeCreditInvoiceDraft.ts` in whole cents and basis points, with the
code's half-up rounding, cumulative shares and capacity checks. Creating a draft reads
the credits in one turn and writes in another (`CreateDraft`, `SaveDraft`); approving,
cancelling and the payment marks are transactions. The lines of a credit are a function
from their places: a line of the invoice keeps its place, free lines come after them
(`Places`), and sums are those of the community module `Functions`.

### Updating the application: `UpdateLifecycle`, `UpdateLifecycleProofs`

What the running old build, the installer, the new build's first start and the way back
do to the disk: `installed`, `accepted` (acceptedBuildStore), `journal`, `chain` (the
migrations applied), `cache` (slots and the role in their metadata), `restore`.
`Stage`, `Discard`, `Confirm` to `Launch` and `Abort` are the handoff; `Admit`,
`FailEarly`, `Inspect` the start before the backend; `Gate`, `Protect`, `Migrate` the
gate and the migrations; `Validate`, `Promote`, `Publish`, `Record` the acceptance in its
order, with `Promoted` giving one rename or metadata write at a time (what follows the record of the
acceptance can still throw, which ends the start, not the acceptance);
`StartRollback` to `CompleteRollback` the profile's way back and `FindPackage` to
`HandBack` the binaries'. Each build brings two migrations, so that a first start can
die between them. `Install` is the Windows Installer: it waits for the application to
end and may be cancelled; it may also come late, after another start.

## Runs

| run | instance | shows |
|---|---|---|
| slot_store | three records | `OnlyNextIsTorn`, `MovesNeverCollide`, `RegisterSpec` |
| invoice_delivery | 2 requests, 2 customer attempts, 2 revisions | `OneUnresolved`, `DeliveredContentStands`, `HonestHistory`, `SendsUnderReservation`, `AttemptsOwned` |
| email_delivery | the session inside the delivery: 1 request, a customer and a test attempt, 2 revisions, 2 commands, fair | `SentHasEvidence` (a test is never a delivery), `ReportsTruly`, `SessionEnds`, `AttemptsReleased` |
| smtp_contract | the session alone, 3 commands, fair | expected violation of `ProviderSpec`, see below |
| workspace_switch | 3 workspaces, 3 switches, 2 throwing calls, 2 deaths, fair | `StartupResolves`, `OnlyValidatedStands`, `RunsSelection`, `SwitchSettles` |
| workspace_creation | 3 creations into a registry of 3, 2 throwing calls, 2 deaths, fair | `ListedIsWhole`, `NothingOrphaned`, `OneOwner`, `CreationSettles` |
| workspace_import | 2 imports into a registry of 2, 3 throwing calls, 2 deaths, fair | `EverythingBound`, `ListedIsWhole`, `OneWorkspacePerLineage`, `NoPlaintextAdmitted`, `ImportSettles` |
| profile_restore | 2 restores, 2 deaths, 2 throwing calls, a profile with and one without documents, fair | `NeverMixed`, `NothingLost`, `DecisionStands`, `CensusAdmits`, `RestoreSettles` |
| invoice_numbering | base 2, years of 2 digits, numbers of 4; 2 clients (symmetric), 3 series, 2 invoices | `NextNumberIsFree`, `MinimumIsExact`, `SequencesHaveNoGaps`, `HistoryIsOneChain` |
| invoice_credit | four small invoices: net, gross with two rates, reverse charge, one line with payments; 2 or 3 credits | `NeverOverCredited`, `FullCreditMatches`, `LedgerTellsPayment` |
| update_lifecycle | 3 builds, 2 updates, 3 throwing calls, 2 deaths, fair | `ServesAccepted`, `RollbackKeeps`, `UpdateSettles` |
| update_decided_start | 1 update, 1 throwing call, fair | expected violation of `DecidedStarts`, see below |

Bounds. Three records distinguish the old, the new and a still older one, which is
what a wrong recovery would confuse. Two requests and two attempts are the smallest
instance in which one delivery can overtake another; two revisions let the invoice
be edited once between any two steps of a request (`MaxRevision`). Requests are
interchangeable, and so are attempts of one kind: invoice_delivery uses that symmetry, and invoice_numbering that of its two clients;
a run with a liveness property does not. Two commands give a first and a last one
(three in smtp_contract one between them); the session treats them alike, and the proof
covers every number. Three
workspaces let a later switch leave both ends of an earlier one; two throwing calls
and two deaths are enough for a step, its rollback and the recovery of that rollback
to fail in one switch (`MaxSwitches`, `MaxFaults`, `MaxCrashes`; the proofs hold for all
of them). Three creations let the last meet a full registry and the middle one a runtime
an earlier one stopped; two imports let the second repeat the profile of the first.
Two restores let the second start from what the first left; two deaths reach the
recovery of a recovery. In base two with four digits a year based series has three
numbers a year and a plain one five, so numbers run out and coincide across series
within a few approvals. The credited lines have prices and quantities that do not divide
evenly, the only ones where rounding can go wrong. The second update meets the package
cache and journal the first one left.

Fairness. `FairEmailSpec` assumes that the event loop runs every continuation of a
request and of its session, that write callbacks run and that the connection, read and
idle timers fire; it assumes nothing of the server or of socket events. That a provider
call settles is not assumed but shown (`SessionEnds`). `FairSessionSpec` of `SmtpSession`
assumes the same of a session alone.
Clients, restarts, expiry and the server are never assumed to act. `FairSpec` of
`WorkspaceSwitch` assumes that the process runs its continuations, that a requested
relaunch happens (`app.relaunch`, `app.quit`) and that an application that is down is
started again. `WorkspaceCreation` and `WorkspaceImport` assume besides that a child
process ends (the adapters kill it after their timeout, and the reservation of the next
start waits for it) and that a user closes an application that is fenced or has no
backend. `ProfileRestore` and `UpdateLifecycle` assume that the main process goes on
with what it does and that a user who is shut out closes the application and starts it
again; nothing is assumed of the installer, which may stay in its dialog for ever. The
settling properties therefore say nothing of a user who never opens the application
again. That failures are bounded is what "once failures stop" means.

`SwitchSettles`, `CreationSettles`, `ImportSettles`, `RestoreSettles` and `UpdateSettles`
name the states in which the code leaves the installation to a person; the list below
says how each is reached.

Deadlock is not checked where the system really stops: a session ends, numbers and
credits are used up to their bounds, and a restore that is refused stays so.

### The expected violations

email-delivery-and-secrets-plan.md:105-107 promises outcomeUnknown when the result of
the DATA phase's write or of the final acceptance stays unclear, and
`smtpConnection.test.ts:350` "treats a write failure during message data as an unknown
outcome". `sendData` begins the read before it writes. When the read is rejected first
(its timer, or the socket's error, close or idle timeout) and the write's callback then
reports an error, `failPending` (`smtpConnection.ts:243`) finds no read to reject, and
`return reply` rejects with the earlier error, whose outcome is `failed`; the wrapper that
turns a rejected read into outcomeUnknown is only on the path where the write succeeded.
`ProviderSpec` states what the plan asks for; in the run every byte of the message leaves,
the read times out, the write fails, and the session ends `failed` while the server may
still accept. The delivery event is then recorded as failed, so the invoice can be
reopened, cancelled or sent again. `WriteFailedLate` names this path, and `ReportsTruly`
shows that it is the only one.

docs/architecture/windows-installer-and-update-plan.md:1634 asks for an idempotent new
start in the accepted or failed state. A preparation that fails (a recovery point that
cannot be taken, say) closes the journal as `failed` with `handoffAttemptCount` 0. The
next start runs the accepted build on its own, unchanged profile; yet
`prepareInstallerNotApplied` (`firstStartUpdateCoordinator.ts:542`) wants the count to be
1, so the gate marks the journal `failedSafe` and from then on only the recovery window
opens. `DecidedStarts` states what the plan asks for; the run is the sequence above. The
terminal states `installerNotApplied` and `rolledBack` are refused at the second start in
the same way, although the plan (910) keeps the candidate "for a new attempt the user
starts".

### Other disagreements met while modelling

These follow from the models but have no run of their own.

- `workspaceCreationRootStore.ts:219`, and likewise the import's root store: a child killed
  inside an SQLite transaction leaves `eky.sqlite-journal`, which the removal of a partial
  candidate does not allow; every later start refuses
  (local-company-workspace-plan.md:1183 says the candidate is removed safely). This is
  the `"hot"` exception of `CreationSettles` and `ImportSettles`.
- `profileRestoreActivationJournalStore.ts:346`: the first journal file is created empty and
  filled afterwards; a death in between leaves a file the peek of every start refuses
  (local-backup-and-restore-plan.md:479). The `Empty` exception of `RestoreSettles`.
- `profileRestoreActivationTransaction.ts:801`: the failed directory of a rejected profile
  is made before `rollbackStarting` is written; after a death in between the forward census
  refuses it at every start (local-backup-and-restore-plan.md:480). The `Anchored`
  exception of `RestoreSettles` and `CensusAdmits`.
- `sqliteInvoiceCreditApprovalRepository.ts:161`: a credit note derives no reference number,
  so past fifteen digit sequences its number can have twenty digits, which
  `requireNumericInvoiceNumber` refuses in every later preview and activation.
- `updateInvoiceNumberingSettings.ts:105` admits repeating the stored settings, and
  `invoiceNumberingSettings.test.ts:225` says it succeeds; the trigger of migration 038
  aborts every UPDATE once numbering was used.
- `calculateCreditInvoiceDraft.ts:558`: when what is left of one VAT rate rounds to no cent,
  the initial content of a new draft cannot be calculated and no draft can be created
  (invoice-cancellation-and-credit-note-plan.md:171).
- `calculateCreditInvoice.ts:676`: after credits were cancelled out of order, part of the
  quantity they held can be refused (same plan, 505: a cancelled credit uses up no
  capacity).
- Update: a restore of the recovery point that is rejected should end in
  `recoveryRequired` (windows-update-operational-runbook.md:199-201), but the gate compares
  the migration chain first (`desktopComposition.ts:2747`), throws, and
  `requireRecoveryAfterRestoreRollback` is never reached; every later start throws alike.
- Update: a death, or a failed journal write, after the accepted build was recorded leaves
  the new build refused at every admission. A death in `prepared` or
  `recoveryPointValidated` makes every later start throw, because `failedSafe` may not
  follow those states.
- Update: `normalizeRolledBackPackages` refuses a `previous` slot that holds a still older
  build, so the rollback of a second update ends in `failedSafe` although the exact package
  is in `current` (plan 1250 and runbook 203 name only a missing package). A rotation cut
  between its renames ends in `failedSafe` too.

## Proofs

| theorem | says |
|---|---|
| `ByteSlotStoreProofs!TypeCorrect`, `NeverTorn`, `AtMostTwoSlots`, `NoCollision` | the four invariants of the store, for every set of records |
| `ByteSlotStoreProofs!Implements` | the store implements `DurableRegister`, for every set of records |
| `InvoiceDeliveryProofs!TypeCorrect` | types, for every number of exchanges |
| `InvoiceDeliveryProofs!ReportsAreTrue` | a session's `succeeded` means accepted, its `failed` that nothing of the message is or will be accepted, except on the path `WriteFailedLate`; for every number of exchanges |
| `InvoiceDeliveryProofs!NeverTwoOpen`, `DeliveredStands`, `HistoryIsHonest`, `SentIsEvidenced`, `SendsReserved`, `AttemptsStayOwned` | the six invariants of a delivery, for every set of requests and attempts and every number of revisions |
| `WorkspaceSwitchProofs!TypeCorrect`, `AlwaysResolvable`, `ValidatedSelection`, `BackendMatches`, `NoIdleLock`, `MovesAtRest` | the invariants and the action property of a switch, for every set of workspaces and every bound on switches, throws and deaths |
| `WorkspaceCreationProofs!EntriesAreWhole`, `JournalOutlives`, `SingleOwner` | the invariants of a creation, for every registry limit and any number of creations, throws and deaths |
| `WorkspaceImportProofs!FilesAreBound`, `ListingIsLast`, `ProfilesStayApart`, `PlaintextIsFenced` | the invariants of an import, likewise |
| `ProfileRestoreProofs!BackendSeesOneProfile`, `NoPartIsLost`, `DecisionIsKept`, `CensusIsComplete` | the invariants of a restore, for any number of restores, throws and deaths |
| `UpdateLifecycleProofs!OnlyAcceptedServes`, `WayBackStaysOpen` | the invariants of an update, for any number of builds, updates, throws and deaths |
| `InvoiceBooksProofs!FirstNumberIsExact`, `NumbersStayFree`, `SequencesRunWithoutGaps`, `SeriesFormOneChain` | the four invariants of numbering, for every base, length of numbers, padding, set of dates and settings, and any number of clients, series and invoices |
| `InvoiceBooksProofs!NumbersAreKept` | no step changes the number of an invoice |
| `InvoiceBooksProofs!CreditsStayWithinInvoice`, `FullCreditIsExact`, `PaymentIsTold` | the three invariants of credits and payments, for every invoice (lines, quantities, cents, rates, mode), every request and any number of credits and events |
| `InvoiceBooksProofs!Distribution` | `distributeAmount` over any finite list of weights: to the cent, no negative share, none above its weight unless there are more cents than weight |
| `InvoiceBooksProofs!OpenAmountIsSound` | the open amount is never negative, and zero when every quantity is credited |

Each module also states that its inductive invariant holds (`Invariance`, and in
`InvoiceBooksProofs` `NumberingInvariance` and `CreditInvariance`); the theorems above
follow from it.

Assumptions: `ContentsDistinct` (the model values differ), `CommandsAssumption`
(a natural number), and `SwitchAssumption`, `DeliveryAssumption`, `CreationAssumption`,
`ImportAssumption`, `RestoreAssumption` and `BoundsAssumption` (the bounds
are naturals, the first workspace is one, and the null values are not among the values
they stand beside); `NumberingAssumption` (a base of at least two, room for a sequence
number beside the year, a largest integer that a year based number's sequence part cannot
reach and a plain number of full length exceeds, padding that fits, at least one series;
the code's 10, 4, 19 and 2^53 - 1 meet it) and `CreditAssumption` (quantities are positive,
a discount is at most its line, reverse charge has rate zero, a request asks for no more
than a line's quantity: what the validation of a sent invoice and of a draft ensures). TLC evaluates each of them. All arguments are inductive, and every
inductive invariant was an invariant of a TLC run before it was proved.

*Store.* The invariants do not follow from themselves: whether a rename collides depends
on what the slots held several calls before. `RecoveryShape`, `ReplaceShape` and
`ClearShape` say for every `pc` which slots exist and what they hold relative to `seen`
and `target`; the refinement then needs only to say, for each action, whether the
register's value changes.

*Session.* `AnswersInStep` ties the server's answer to the exchange the session is in, and
`MailInStep` says what an answer, held or on its way, implies about the message; without
them an early or late reply could be taken for another. `WriteErrorDecides` says
that a write error of the message caught in time has rejected the read as outcomeUnknown.

*Delivery.* `DeliveryInv` adds to the invariants what a request past `acquire` can rely on
across its awaits: it is the only one (`OneLate`), its reservation stays `attempted` until
it completes it itself (`Reserved`), and the provider's verdict is still true when it is
written (`VerdictTrue`). `OpenHolds` is the heart of `DeliveredContentStands`: as long as
any delivery is unresolved the invoice cannot leave the revision it was reserved for, so a
server that accepts after the request and the backend are gone finds it unchanged.
`MailReserved` and `SuccessSticks` carry that over to what the server has seen and to the
recorded success. None of it depends on the number of requests: two that interleave are as
hard as any number.

*Switch.* `SwitchInv` adds to the five invariants what each process step knows:
`SameSwitch` (the record a command or startup holds and the journal belong to one
switch), `BackendAtRest` (no backend past the stop), `CommandFacts` and `StartupFacts`
(where pointer and journal stand at each step). `StartupResolves` alone is not
inductive: whether a rollback may write rollbackSelected depends on the pointer write
of the step before. The same facts show that the code's fail-closed branches for a
pointer that names neither end are never taken in this model.

*Creation and import.* `CreationInv` and `ImportInv` have the same shape. `JournalBound`
says at which steps the record in memory and the journal are one: forward steps always,
failure handling only up to the workspace, because a write may have thrown after it took
effect. `RootFacts` says what has been built at each step, `OthersClean` (for an import
`Bound`) that nothing on the disk belongs to any workspace but the journal's, `ChildBound`
at which steps a child can still be alive. `ListedIsWhole` is not inductive without them:
the recovery registers a root because of a journal state that an earlier process wrote. An
import also needs `NamedBefore` (a workspace is new to the registry when an import names
it) for `OneWorkspacePerLineage`, and `PlainBound` for the quarantine. Before its first
write the import's record is `unwritten`; without that conjunct a failure before the
journal exists could not be told from one after it, and the invariant was not inductive.

*Restore.* There is no program counter in the transaction, so `RestoreInv` speaks of the
phase a reader of the journal's three files would select (`Selected`) and of the phase
being written (`goal`): `Writing` gives the intermediate states of one journal write,
`Fits` what the four places hold in a phase, and the invariant demands it of both phases,
because a death decides which of the two the next start reads. `Progress` is how far each
part has come in each forward phase. `Placed` says that each part of either profile is in
exactly one place, by the operation that brought it.

*Update.* What lies on the disk must fit the state of the update journal alone, since the
process may die at any step: `DecidedDisk`, `TrialDisk` and `RollbackDisk` say what it is
for each state, `InstallerFacts` what an installer that was started can still bring. The
process adds what it has checked since its start (`ServingFacts`, `StartFacts`,
`TrialFacts`, `FailureFacts`). `Promoting` names the three shapes a rotation of the package
cache can be cut at, in each of which the old package is at hand; of the normalization it
is enough that no step of it loses that package (`NormalizedKeeps`), whatever the shape.
`RollbackKeeps` needs besides that a journal left to a person still names the accepted
build as one of its two ends: otherwise a late installer could bring a build for which the
profile is not prepared.

*Numbering.* `NextNumberIsFree` is not inductive, since that one number is free says
nothing of the one after it. `SeriesInv` says that revisions, series and events count
alike, so that a second series means an event that names the default one: this is why the
trigger of migration 038 lets nobody replace settings that numbers hang on. `BookInv` says
that every sequence row is a run without gaps (`Runs`), that every invoice's number is the
format of its sequence number in the settings its series still has (`AllNumbered`), and
that whatever the active series can still format is no number of an earlier series
(`AllApart`). The last holds at an activation because the collision search is exact
(`MinimumSafeExact`): a number it finds is really formatted at some date, year zero of a
fiscal year included (`CollidesMet`, `SomeDate`), and it finds each (`MetCollides`).
Within a series `FormatInjective` tells two numbers apart.

*Credits.* `NeverOverCredited` is not inductive either. Each credit is rounded against
everything credited before it, so `CreditInv` keeps for each line that its full quantity
has its whole amount, and for each rate that its full input has its whole derived amount
(`LineWithin`, `RateWithin`). Approving moves a line to the share rounded for the quantity
credited so far, whatever earlier credits were rounded to (`ApproveLine`), and a rate to
the amount derived from its input (`ApproveRate`); `Distribution` shows that handing that
amount to the lines spends it to the cent. Cancelling only takes lines away
(`ShrinkTotals`).

Both need induction over data. The library's induction theorems take an operator, which no
installed prover instantiates; `NumberInduction` and `SetInduction` state the principle
over sets instead, from the minimum principle `WFMin`. From them come what the sum of a
function over a finite set is, whatever order the fold takes (`SumRemove`, `SumUnion`,
`SumOrder`, `SumImage`, `SumTelescope`), and what a power is (`PowerIs`, `PowerGrows`).

The type invariants, `NeverAllThree`, `LockHasCause`, `SelectionMovesAtRest`,
`NumbersKept` and `NothingOverpaid` are proved and need no run.

Only model-checked: the liveness properties (`AttemptsReleased`, `SessionEnds` and the
five settling properties). Liveness and what needs ENABLED are out of the prover's reach.
Every invariant, refinement and action property that a passing run checks is proved, of
the component that states it: `SentHasEvidence` and the other invariants of a delivery
under the contract, `ReportsTruly` of a session by itself. The composition of the two,
`EmailDelivery`, is only model-checked.

## Not modelled, and the plan

`PROJECT.json` lists every part. Of the modelled ones these are left out:

- invoices migrated without content revisions, their review and resend; the PDF archive;
- the switch started from the workspace selector (journal version 2, bound to the bytes of
  the registry) and starts in the selector;
- the torn first record of a slot store as a state of its owners (`DurableRegister` allows
  it; only the import's binding, where the code tells it apart, has it);
- the direct setup of a new build without a journal, the manual choice of a rollback
  package, and the first-start migration of passive workspaces;
- safe-integer limits and texts of credits; audit rows everywhere.

Next, in this order:

1. Replacement, deletion and adoption of workspaces, with the discipline of creation.
2. Runtime: maintenance lease, quiescing of the backend, process reservations.

Most of the repository's lines are not state machines: the user interface and its texts,
request validation and record keeping over SQLite, PDF layout, MIME and encryption
formats, IPC wiring and proofs of packaging, diagnostics, support bundle and build
scripts. They are presentation, data formats or I/O, in which a model would only repeat
the code, so the models cover a small share of the lines and most of the decisions that
an interruption or an interleaving can break.
