--------------------------- MODULE UpdateLifecycle ---------------------------
(***************************************************************************)
(* An update of the desktop application from build S to build T: the       *)
(* handoff of the running S to the installer, the first start of T with    *)
(* its migrations, the acceptance that makes T the accepted build, and the *)
(* way back: the profile's recovery point is restored, the old package is  *)
(* handed to the installer and the first start of S closes the journal.    *)
(* The parts meet only through what lies on the disk: the accepted build,  *)
(* the update journal, the profile's migration chain, the package cache,   *)
(* and the build the installer left.  Builds are numbers and an update     *)
(* goes to the next one; each build brings two migrations.  A slot store   *)
(* is one value (ByteSlotStore), a restore of the profile is one step      *)
(* (ProfileRestore).                                                       *)
(***************************************************************************)
EXTENDS Naturals

CONSTANTS
    LastBuild,      \* builds are 0 .. LastBuild; 0 is installed first
    MaxUpdates,     \* updates the user confirms
    MaxFaults,      \* calls that throw
    MaxCrashes,     \* deaths of the main process
    None,           \* an empty slot of the package cache, no installer running
    NoJournal       \* no update journal

Build == 0 .. LastBuild

\* UpdateJournalState
BeforeHandoff == {"prepared", "recoveryPointValidated", "runtimeStopping"}
FirstStart    == {"awaitingFirstStart", "firstStartValidating"}
GoingBack     == {"rollbackRequired", "businessRollbackStarting", "businessRollbackCompleted",
                  "binaryRollbackPrepared", "awaitingRollbackFirstStart"}
LeftToPerson  == {"failedSafe", "recoveryRequired", "rollbackPackageRequired"}
Replaceable   == {"accepted", "failed", "installerNotApplied", "rolledBack"}

Journals == [state : BeforeHandoff \cup FirstStart \cup GoingBack \cup LeftToPerson \cup Replaceable,
             cur : Build, handoffs : 0 .. 1]
Slots    == {"current", "candidate", "previous", "parked"}
Packages == [build : Build, role : {"current", "candidate", "previous"}]

ASSUME BoundsAssumption ==
    /\ LastBuild \in Nat \ {0} /\ MaxUpdates \in Nat
    /\ MaxFaults \in Nat /\ MaxCrashes \in Nat
    /\ None \notin Nat \cup Packages /\ NoJournal \notin Journals

VARIABLES
    installed,      \* the build the installer left on the disk
    accepted,       \* acceptedBuildStore: the build that was accepted last
    journal,        \* updateJournalStore
    chain,          \* the migrations applied to the profile
    cache,          \* the slots of the package cache, with the role their metadata names
    restore,        \* the restore of the recovery point: "none", "staged" or "rejected"
    installer,      \* the build whose package a running installer holds, or None
    pc,             \* where the main process is
    mode,           \* FirstStartMode of the startup
    updates, faults, crashes

disk   == <<accepted, journal, chain, cache, restore>>
counts == <<updates, crashes>>
system == <<installed, installer>>
vars   == <<installed, accepted, journal, chain, cache, restore, installer, pc, mode, updates, faults, crashes>>

Whole(b) == 2 * b

Init ==
    /\ installed = 0 /\ accepted = 0 /\ chain = Whole(0)
    /\ journal = NoJournal
    /\ cache = [s \in Slots |-> IF s = "current" THEN [build |-> 0, role |-> "current"] ELSE None]
    /\ restore = "none" /\ installer = None
    /\ pc = "down" /\ mode = "normal"
    /\ updates = 0 /\ faults = 0 /\ crashes = 0

----------------------------------------------------------------------------
(* Calls that may throw, and what the stores and the cache hold.            *)

Fault == faults < MaxFaults /\ faults' = faults + 1

State  == IF journal = NoJournal THEN "none" ELSE journal.state
Source == journal.cur
Target == journal.cur + 1

To(state) == [journal EXCEPT !.state = state]

\* A write that may throw before or after it took effect.
Put(next, ok, bad) ==
    \/ journal' = next /\ pc' = ok /\ UNCHANGED faults
    \/ Fault /\ journal' \in {journal, next} /\ pc' = bad

\* A mark whose failure is swallowed.
Mark(state) ==
    \/ journal' = To(state) /\ UNCHANGED faults
    \/ Fault /\ UNCHANGED journal

Holds(slot, b, roles) ==
    cache[slot] # None /\ cache[slot].build = b /\ cache[slot].role \in roles

Moved(from, to) == [cache EXCEPT ![to] = cache[from], ![from] = None]

Relabelled(slot) == [cache EXCEPT ![slot].role = slot]

\* Mutant: the candidate takes the place of the current package, which is not kept.
PromotedOver ==
    CASE cache["current"] # None /\ cache["candidate"] # None /\ cache["previous"] # None ->
           [cache EXCEPT !["previous"] = None]
      [] cache["candidate"] # None -> Moved("candidate", "current")
      [] OTHER -> [cache EXCEPT !["current"].role = "current"]

(* promoteAcceptedCandidate, the next of its steps; the cache itself when   *)
(* there is none left.                                                      *)
Promoted ==
    CASE cache["current"] # None /\ cache["candidate"] # None ->
           IF cache["previous"] # None THEN [cache EXCEPT !["previous"] = None]
                                       ELSE Moved("current", "previous")
      [] cache["current"] = None /\ cache["candidate"] # None -> Moved("candidate", "current")
      [] OTHER -> IF cache["current"].role # "current" THEN Relabelled("current")
                                                       ELSE Relabelled("previous")

(* normalizeRolledBackPackages likewise, with the resumption it begins      *)
(* with.                                                                    *)
Normal ==
    /\ cache["current"] = [build |-> Source, role |-> "current"]
    /\ cache["candidate"] = [build |-> Target, role |-> "candidate"]
    /\ cache["previous"] = None /\ cache["parked"] = None

SourceAt(slot) == Holds(slot, Source, {"current", "previous"})
TargetAt(slot) == Holds(slot, Target, {"candidate", "current"})

Normalized ==
    CASE cache["parked"] # None /\ cache["current"] = None /\ cache["previous"] # None ->
           Moved("previous", "current")
      [] cache["parked"] # None /\ cache["current"] # None /\ cache["candidate"] = None ->
           Moved("parked", "candidate")
      [] cache["parked"] = None /\ SourceAt("current") /\ TargetAt("candidate") /\ SourceAt("previous") ->
           [cache EXCEPT !["previous"] = None]
      [] cache["parked"] = None /\ TargetAt("current") /\ SourceAt("previous") /\ cache["candidate"] = None ->
           Moved("current", "parked")
      [] cache["parked"] = None /\ SourceAt("current") /\ TargetAt("candidate") /\ cache["previous"] = None ->
           IF cache["current"].role # "current" THEN Relabelled("current") ELSE Relabelled("candidate")
      [] OTHER -> cache

(* hasExpectedJournalPackage: the package to go back to is in the cache.    *)
HasSource == SourceAt("current") \/ SourceAt("previous")

\* revalidateJournalPackage of both slots before, and after, the promotion
Unrotated == Holds("current", Source, {"current"}) /\ Holds("candidate", Target, {"candidate"})
Rotated   == Holds("current", Target, {"current"}) /\ Holds("previous", Source, {"previous"})

----------------------------------------------------------------------------
(* The running application: the candidate package and the handoff.          *)

MayChangeCandidate == State \in Replaceable \cup {"none"}

Stage ==
    /\ pc = "serving" /\ MayChangeCandidate
    /\ cache["candidate"] = None /\ installed < LastBuild
    /\ cache' = [cache EXCEPT !["candidate"] = [build |-> installed + 1, role |-> "candidate"]]
    /\ UNCHANGED <<system, accepted, journal, chain, restore, pc, mode, faults, counts>>

Discard ==
    /\ pc = "serving" /\ MayChangeCandidate
    /\ cache["candidate"] # None
    /\ cache' = [cache EXCEPT !["candidate"] = None]
    /\ UNCHANGED <<system, accepted, journal, chain, restore, pc, mode, faults, counts>>

\* the lease is taken and the last update's journal cleared
Confirm ==
    /\ pc = "serving" /\ MayChangeCandidate
    /\ cache["candidate"] # None /\ cache["current"] # None
    /\ updates < MaxUpdates /\ updates' = updates + 1
    /\ \/ journal' = NoJournal /\ pc' = "preparing" /\ UNCHANGED faults
       \/ Fault /\ journal' \in {journal, NoJournal} /\ pc' = "fenced"
    /\ UNCHANGED <<system, accepted, chain, cache, restore, mode, crashes>>

\* A validation that throws, with its cleanup confirmed or not.
ValidationFails(aborted) ==
    Fault /\ pc' \in {aborted, "fenced"} /\ UNCHANGED journal

Prepare ==
    /\ pc = "preparing"
    /\ \/ Put([state |-> "prepared", cur |-> cache["current"].build, handoffs |-> 0], "fencing", "fenced")
       \/ ValidationFails("serving")
    /\ UNCHANGED <<system, accepted, chain, cache, restore, mode, counts>>

TakePoint ==
    /\ pc = "fencing"
    /\ Put(To("recoveryPointValidated"), "ready", "fenced") \/ ValidationFails("abort")
    /\ UNCHANGED <<system, accepted, chain, cache, restore, mode, counts>>

Handoff ==
    /\ pc = "ready"
    /\ \/ /\ Holds("candidate", Target, {"candidate"}) /\ chain = Whole(Source)
          /\ Put(To("runtimeStopping"), "stopping", "fenced")
       \/ ValidationFails("abort")
    /\ UNCHANGED <<system, accepted, chain, cache, restore, mode, counts>>

StopRuntime ==
    /\ pc = "stopping"
    /\ \/ pc' = "stopped" /\ UNCHANGED faults
       \/ Fault /\ pc' = "abortStopped"
    /\ UNCHANGED <<system, disk, mode, counts>>

Await ==
    /\ pc = "stopped"
    /\ Put([To("awaitingFirstStart") EXCEPT !.handoffs = 1], "launching", "halted")
    /\ UNCHANGED <<system, accepted, chain, cache, restore, mode, counts>>

Launch ==
    /\ pc = "launching"
    /\ \/ installer' = Target /\ pc' = "down" /\ UNCHANGED faults
       \/ Fault /\ pc' = "abortStopped" /\ UNCHANGED installer
    /\ UNCHANGED <<installed, disk, mode, counts>>

\* abortOwnedPreparation: once the runtime was stopped the owner stays
Abort ==
    /\ pc \in {"abort", "abortStopped"}
    /\ IF pc = "abort" THEN Put(To("failed"), "serving", "fenced")
                       ELSE Put(To("failed"), "halted", "halted")
    /\ UNCHANGED <<system, accepted, chain, cache, restore, mode, counts>>

----------------------------------------------------------------------------
(* The start, up to the backend's migration gate.                           *)

Start ==
    /\ pc = "down" /\ pc' = "admit" /\ mode' = "normal"
    /\ UNCHANGED <<system, disk, faults, counts>>

\* Mutant: the new build is admitted only before its first start began.
AdmissibleOnce ==
    /\ State \in {"rollbackRequired", "businessRollbackStarting", "businessRollbackCompleted"}
         => installed = Target
    /\ IF State \in {"none", "accepted"}
       THEN accepted = installed
       ELSE accepted = Source /\ installed \in {Source, Target} /\ State # "firstStartValidating"

\* prepareUpdateBusinessRollbackStartupAdmission and classifyPreWorkspaceBuildAdmission
Admissible ==
    /\ State \in {"rollbackRequired", "businessRollbackStarting", "businessRollbackCompleted"}
         => installed = Target
    /\ IF State \in {"none", "accepted"}
       THEN /\ State = "accepted" => accepted = Target
            /\ accepted = installed
       ELSE /\ accepted = Source
            /\ installed \in {Source, Target}

Admit ==
    /\ pc = "admit"
    /\ pc' = IF State \in LeftToPerson \/ ~Admissible \/ chain > Whole(installed) THEN "refused" ELSE "early"
    /\ UNCHANGED <<system, disk, mode, faults, counts>>

\* a failure before the backend: PreBackendFirstStartFailureAuthority
FailEarly ==
    /\ pc = "early" /\ pc' = "refused"
    /\ faults < MaxFaults
    /\ IF State \in FirstStart /\ installed = Target /\ accepted = Source
       THEN journal' \in {journal, To("rollbackRequired")}
       ELSE UNCHANGED journal
    /\ faults' = faults + 1
    /\ UNCHANGED <<system, accepted, chain, cache, restore, mode, counts>>

Inspect ==
    /\ pc = "early"
    /\ pc' = CASE restore # "none" -> "restoring"
               [] restore = "none" /\ State \in {"rollbackRequired", "businessRollbackStarting"} -> "rollback"
               [] State = "businessRollbackCompleted" -> "complete"
               [] OTHER -> "gate"
    /\ UNCHANGED <<system, disk, mode, faults, counts>>

----------------------------------------------------------------------------
(* The way back: the profile first, the binaries after it.                  *)

\* startIfRequired; without a restore to do the profile is only validated
StartRollback ==
    /\ pc = "rollback" /\ State = "rollbackRequired"
    /\ Put(To("businessRollbackStarting"), "rollback", "startFailed")
    /\ UNCHANGED <<system, accepted, chain, cache, restore, mode, counts>>

StageRestore ==
    /\ pc = "rollback" /\ State = "businessRollbackStarting"
    /\ IF chain = Whole(Source)
       THEN pc' = "complete" /\ UNCHANGED <<journal, restore, faults>>
       ELSE \/ restore' = "staged" /\ pc' = "admit" /\ UNCHANGED <<journal, faults>>
            \/ Fault /\ journal' \in {journal, To("failedSafe")} /\ pc' = "startFailed" /\ UNCHANGED restore
    /\ UNCHANGED <<system, accepted, chain, cache, mode, counts>>

\* validateAfterBackend: the restored profile is accepted, or put back and the application relaunched
Restore ==
    /\ pc = "restoring" /\ restore = "staged"
    /\ \/ chain' = Whole(Source) /\ restore' = "none" /\ pc' = "complete" /\ UNCHANGED faults
       \/ Fault /\ restore' = "rejected" /\ pc' = "admit" /\ UNCHANGED chain
    /\ UNCHANGED <<system, accepted, journal, cache, mode, counts>>

(* The gate compares the chain before it looks at the mode: a restore is    *)
(* staged for a chain other than the old one only, and putting it back      *)
(* leaves that chain, so requireRecoveryAfterRestoreRollback is not reached.*)
RestoreRejected ==
    /\ pc = "restoring" /\ restore = "rejected"
    /\ chain # Whole(Source)
    /\ pc' = "startFailed"
    /\ UNCHANGED <<system, disk, mode, faults, counts>>

\* completeAfterProfileValidation
CompleteRollback ==
    /\ pc = "complete"
    /\ \/ chain = Whole(Source) /\ Put(To("businessRollbackCompleted"), "binary", "startFailed")
       \/ Fault /\ journal' \in {journal, To("recoveryRequired")} /\ pc' = "startFailed"
    /\ UNCHANGED <<system, accepted, chain, cache, restore, mode, counts>>

\* startIfRequired of the binary rollback; a package that is gone or damaged is a fault of the disk
FindPackage ==
    /\ pc = "binary"
    /\ \/ HasSource /\ pc' = "normalize" /\ UNCHANGED <<journal, faults>>
       \/ Fault /\ journal' \in {journal, To("rollbackPackageRequired")} /\ pc' = "startFailed"
    /\ UNCHANGED <<system, accepted, chain, cache, restore, mode, counts>>

Normalize ==
    /\ pc = "normalize" /\ Normalized # cache
    /\ \/ cache' = Normalized /\ UNCHANGED <<pc, journal, faults>>
       \/ Fault /\ cache' \in {cache, Normalized} /\ journal' \in {journal, To("failedSafe")} /\ pc' = "startFailed"
    /\ UNCHANGED <<system, accepted, chain, restore, mode, counts>>

Normalization ==
    /\ pc = "normalize" /\ Normalized = cache
    /\ IF Normal
       THEN Put(To("binaryRollbackPrepared"), "arming", "handbackFailed")
       ELSE Mark("failedSafe") /\ pc' = "startFailed"
    /\ UNCHANGED <<system, accepted, chain, cache, restore, mode, counts>>

Arm ==
    /\ pc = "arming"
    /\ Put(To("awaitingRollbackFirstStart"), "handback", "handbackFailed")
    /\ UNCHANGED <<system, accepted, chain, cache, restore, mode, counts>>

HandBack ==
    /\ pc = "handback"
    /\ \/ installer' = Source /\ pc' = "down" /\ UNCHANGED faults
       \/ Fault /\ pc' = "handbackFailed" /\ UNCHANGED installer
    /\ UNCHANGED <<installed, disk, mode, counts>>

HandBackFailed ==
    /\ pc = "handbackFailed" /\ pc' = "startFailed"
    /\ Mark("failedSafe")
    /\ UNCHANGED <<system, accepted, chain, cache, restore, mode, counts>>

----------------------------------------------------------------------------
(* The gate before the migrations, and the migrations.                      *)

\* startIfRequired of the binary rollback when the new build still runs
NotHandedBack == State \in {"binaryRollbackPrepared", "awaitingRollbackFirstStart"} /\ installed = Target

\* prepareInstallerNotApplied
IsNotApplied ==
    /\ State \in {"awaitingFirstStart", "failed"} /\ journal.handoffs = 1
    /\ accepted = Source /\ chain = Whole(Source)
    /\ Holds("current", Source, {"current"})

\* transitions the marks of the gate may make: a mark of another state throws itself
MarksFailedSafe == State \in {"awaitingFirstStart", "failed", "runtimeStopping"} \cup GoingBack

Gate ==
    /\ pc = "gate"
    /\ UNCHANGED <<system, accepted, chain, cache, restore, counts>>
    /\ \/ /\ NotHandedBack
          /\ Mark("recoveryRequired") /\ pc' = "startFailed" /\ UNCHANGED mode
       \/ /\ State \in {"none", "accepted"}
          /\ pc' = IF chain = Whole(installed) THEN "migrate" ELSE "startFailed"
          /\ UNCHANGED <<journal, mode, faults>>
       \/ /\ State \notin {"none", "accepted"} /\ installed = Target /\ ~NotHandedBack
          /\ IF State \in FirstStart
             THEN IF Unrotated \/ Rotated
                  THEN \/ /\ Put(To("firstStartValidating"), "protect", "gateFailed")
                          /\ mode' = IF pc' = "protect" THEN "coordinated" ELSE mode
                       \/ Fault /\ pc' = "gateFailed" /\ UNCHANGED <<journal, mode>>
                  ELSE pc' = "gateFailed" /\ UNCHANGED <<journal, mode, faults>>
             ELSE pc' = "startFailed" /\ UNCHANGED <<journal, mode, faults>>
       \/ /\ State = "awaitingRollbackFirstStart" /\ installed = Source
          /\ \/ chain = Whole(Source) /\ pc' = "tidy" /\ mode' = "rollback" /\ UNCHANGED <<journal, faults>>
             \/ Fault /\ journal' \in {journal, To("recoveryRequired")} /\ pc' = "startFailed" /\ UNCHANGED mode
       \/ /\ State \notin {"none", "accepted", "awaitingRollbackFirstStart"} /\ installed = Source
          /\ IF IsNotApplied
             THEN \/ pc' = "migrate" /\ mode' = "installerNotApplied" /\ UNCHANGED <<journal, faults>>
                  \/ Fault /\ journal' \in {journal, To("failedSafe")} /\ pc' = "startFailed" /\ UNCHANGED mode
             ELSE /\ IF MarksFailedSafe THEN Mark("failedSafe") ELSE UNCHANGED <<journal, faults>>
                  /\ pc' = "startFailed" /\ UNCHANGED mode

\* createValidatedPreMigrationPoint of a profile with pending migrations
Protect ==
    /\ pc = "protect"
    /\ \/ pc' = "migrate" /\ UNCHANGED faults
       \/ chain < Whole(installed) /\ Fault /\ pc' = "gateFailed"
    /\ UNCHANGED <<system, disk, mode, counts>>

\* markRollbackRequired of the gate
GateFailed ==
    /\ pc = "gateFailed" /\ pc' = "startFailed"
    /\ Mark("rollbackRequired")
    /\ UNCHANGED <<system, accepted, chain, cache, restore, mode, counts>>

\* normalizeRolledBackPackages of the first start of the old build, which the new build has done already
Tidy ==
    /\ pc = "tidy"
    /\ \/ Normal /\ pc' = "migrate" /\ UNCHANGED <<journal, faults>>
       \/ Fault /\ journal' \in {journal, To("recoveryRequired")} /\ pc' = "startFailed"
    /\ UNCHANGED <<system, accepted, chain, cache, restore, mode, counts>>

Migrate ==
    /\ pc = "migrate"
    /\ \/ chain < Whole(installed) /\ chain' = chain + 1 /\ UNCHANGED <<pc, faults>>
       \/ chain = Whole(installed) /\ pc' = "validate" /\ UNCHANGED <<chain, faults>>
       \/ Fault /\ pc' = "startFailed" /\ UNCHANGED chain
    /\ UNCHANGED <<system, accepted, journal, cache, restore, mode, counts>>

----------------------------------------------------------------------------
(* acceptAfterBackendReady, in its order.                                   *)

Validate ==
    /\ pc = "validate"
    /\ \/ /\ UNCHANGED faults
          /\ pc' = CASE mode = "normal" -> "serving"
                     [] mode = "coordinated" -> "promote"
                     [] mode = "rollback" -> "publish"
                     [] OTHER -> "record"
       \/ Fault /\ pc' = IF mode = "normal" THEN "startFailed" ELSE "acceptFailed"
    /\ UNCHANGED <<system, disk, mode, counts>>

Promote ==
    /\ pc = "promote"
    /\ \/ Rotated /\ pc' = "publish" /\ UNCHANGED <<cache, faults>>
       \/ ~Rotated /\ cache' = Promoted /\ UNCHANGED <<pc, faults>>
       \/ Fault /\ cache' \in {cache, IF Rotated THEN cache ELSE Promoted} /\ pc' = "acceptFailed"
    /\ UNCHANGED <<system, accepted, journal, chain, restore, mode, counts>>

Publish ==
    /\ pc = "publish"
    /\ \/ accepted' = installed /\ pc' = "record" /\ UNCHANGED faults
       \/ Fault /\ accepted' \in {accepted, installed} /\ pc' = "acceptFailed"
    /\ UNCHANGED <<system, journal, chain, cache, restore, mode, counts>>

Verdict == CASE mode = "coordinated" -> "accepted"
             [] mode = "rollback" -> "rolledBack"
             [] OTHER -> "installerNotApplied"

\* Mutant: a journal that cannot be closed does not keep the application from opening.
RecordOrServe ==
    /\ pc = "record"
    /\ Put(To(Verdict), "serving", "serving")
    /\ UNCHANGED <<system, accepted, chain, cache, restore, mode, counts>>

\* The startup goes on after the acceptance and may still throw; the update is
\* settled then and no failure mark is made (desktopComposition, targetBuildAccepted).
Record ==
    /\ pc = "record"
    /\ \/ Put(To(Verdict), "serving", "acceptFailed") /\ UNCHANGED mode
       \/ Fault /\ journal' = To(Verdict) /\ pc' = "refused" /\ mode' = "normal"
    /\ UNCHANGED <<system, accepted, chain, cache, restore, counts>>

AcceptFailed ==
    /\ pc = "acceptFailed" /\ pc' = "startFailed"
    /\ Mark(CASE mode = "coordinated" -> "rollbackRequired"
              [] mode = "rollback" -> "recoveryRequired"
              [] OTHER -> "failedSafe")
    /\ UNCHANGED <<system, accepted, chain, cache, restore, mode, counts>>

\* recoverFromStartupFailure, and the relaunch it asks for
StartFailed ==
    /\ pc = "startFailed"
    /\ \/ mode = "coordinated" /\ Mark("rollbackRequired")
       \/ mode = "rollback" /\ Mark("recoveryRequired")
       \/ mode \notin {"coordinated", "rollback"} /\ UNCHANGED <<journal, faults>>
    /\ pc' = IF journal' # NoJournal /\ journal'.state = "rollbackRequired" /\ installed = Target
             THEN "admit" ELSE "refused"
    /\ mode' = "normal"
    /\ UNCHANGED <<system, accepted, chain, cache, restore, counts>>

----------------------------------------------------------------------------
(* What happens around the process.                                         *)

Close ==
    /\ pc \in {"serving", "fenced", "halted", "refused"} /\ pc' = "down"
    /\ UNCHANGED <<system, disk, mode, faults, counts>>

Crash ==
    /\ pc # "down" /\ pc' = "down"
    /\ crashes < MaxCrashes /\ crashes' = crashes + 1
    /\ UNCHANGED <<system, disk, mode, updates, faults>>

\* The installer waits for the application to end, and its user may cancel it.
Install ==
    /\ installer # None /\ installer' = None
    /\ \/ pc = "down" /\ installed' = installer
       \/ UNCHANGED installed
    /\ UNCHANGED <<disk, pc, mode, faults, counts>>

Running ==
    \/ Prepare \/ TakePoint \/ Handoff \/ StopRuntime \/ Await \/ Launch \/ Abort
Starting ==
    \/ Admit \/ FailEarly \/ Inspect
    \/ StartRollback \/ StageRestore \/ Restore \/ RestoreRejected \/ CompleteRollback
    \/ FindPackage \/ Normalize \/ Normalization \/ Arm \/ HandBack \/ HandBackFailed
    \/ Gate \/ Protect \/ GateFailed \/ Tidy \/ Migrate
    \/ Validate \/ Promote \/ Publish \/ Record \/ AcceptFailed \/ StartFailed
Next ==
    \/ Stage \/ Discard \/ Confirm \/ Running
    \/ Start \/ Starting
    \/ Close \/ Crash \/ Install

Spec == Init /\ [][Next]_vars

\* The main process goes on by itself; a user who is shut out closes the application and starts it again.
FairSpec ==
    /\ Spec
    /\ WF_vars(Running \/ Starting)
    /\ WF_vars(Start)
    /\ WF_vars(pc \in {"fenced", "halted", "refused"} /\ Close)

----------------------------------------------------------------------------
(* Properties.                                                              *)

TypeOK ==
    /\ installed \in Build /\ accepted \in Build
    /\ journal \in Journals \cup {NoJournal}
    /\ chain \in 0 .. Whole(LastBuild)
    /\ cache \in [Slots -> Packages \cup {None}]
    /\ restore \in {"none", "staged", "rejected"}
    /\ installer \in Build \cup {None}

(***************************************************************************)
(* A build that serves the user is the accepted one, on a profile with     *)
(* exactly its migrations, and no update is between its handoff and its    *)
(* decision: whatever was interrupted, neither a half migrated profile nor *)
(* a build on trial is ever worked with (acceptAfterBackendReady before    *)
(* the window, classifyPreWorkspaceBuildAdmission).                        *)
(***************************************************************************)
ServesAccepted ==
    /\ TypeOK
    /\ pc \in {"serving", "fenced", "preparing", "fencing", "ready", "abort"} =>
         /\ accepted = installed /\ chain = Whole(installed)
         /\ State \notin FirstStart \cup GoingBack \cup LeftToPerson

(***************************************************************************)
(* The way back stays open: from the handoff to the decision the package   *)
(* to go back to is in the cache, wherever a rotation was cut short, and   *)
(* the old build is installed over a profile with its own migrations only  *)
(* (promoteAcceptedCandidate, normalizeRolledBackPackages,                 *)
(* completeAfterProfileValidation).                                        *)
(***************************************************************************)
RollbackKeeps ==
    journal # NoJournal =>
      /\ State \in FirstStart \cup GoingBack => HasSource
      /\ State \in {"businessRollbackCompleted", "binaryRollbackPrepared",
                    "awaitingRollbackFirstStart", "rolledBack"} => chain = Whole(Source)
      /\ installer = Source => chain = Whole(Source)

(***************************************************************************)
(* An update that was handed over is decided in the end: its journal is    *)
(* closed with the application serving, or the decision is left to a       *)
(* person, or the application is shut out in one of the states the code    *)
(* leaves no way out of.                                                   *)
(***************************************************************************)
Stranded ==
    /\ pc = "refused"
    /\ \/ State \in {"prepared", "recoveryPointValidated"} \cup Replaceable
       \/ State = "runtimeStopping" /\ installed = Target
       \/ State \notin {"none", "accepted"} /\ accepted = Target
       \/ restore = "rejected"

UpdateSettles ==
    State \in BeforeHandoff \cup FirstStart \cup GoingBack
      ~> \/ State \in Replaceable /\ pc = "serving"
         \/ State \in LeftToPerson
         \/ Stranded

(***************************************************************************)
(* A start after a decided update is a start like any other: with the      *)
(* accepted build on its own profile it is not turned away.                *)
(***************************************************************************)
DecidedStarts ==
    [][pc = "gate" /\ State \in Replaceable /\ installed = accepted /\ chain = Whole(installed)
         /\ faults' = faults => pc' \notin {"startFailed", "refused"}]_vars
=============================================================================
