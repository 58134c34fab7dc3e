----------------------- MODULE UpdateLifecycleProofs -----------------------
(***************************************************************************)
(* The safety invariants of the update lifecycle for every number of       *)
(* builds, updates, throwing calls and deaths of the process.              *)
(***************************************************************************)
EXTENDS UpdateLifecycle, TLAPS

(* The inductive invariant.  What lies on the disk depends on the state of  *)
(* the update journal alone, since the process may die at any step.         *)

Modes == {"normal", "coordinated", "rollback", "installerNotApplied"}

(* The accepted build with its own package and its own migrations; a stale  *)
(* installer may have put the next build beside it.                         *)
Settled ==
    /\ chain = Whole(accepted) /\ installed \in {accepted, accepted + 1}
    /\ Holds("current", accepted, {"current"})

(* How far a promotion has come: not begun, the old package moved, the new  *)
(* one moved.                                                               *)
Promoting ==
    \/ SourceAt("current") /\ cache["candidate"] # None
    \/ SourceAt("previous") /\ cache["current"] = None /\ cache["candidate"] # None
    \/ SourceAt("previous") /\ cache["current"] # None /\ cache["candidate"] = None

BetweenChains == Whole(Source) <= chain /\ chain <= Whole(Target)

(* Before the handoff, and after a decision. *)
DecidedDisk ==
    /\ State \in {"none"} \cup BeforeHandoff \cup Replaceable => Settled
    /\ State \in BeforeHandoff \cup Replaceable =>
         accepted = IF State = "accepted" THEN Target ELSE Source
    /\ State = "runtimeStopping" => Unrotated
    /\ State = "accepted" => Rotated

(* From the handoff to the decision. *)
TrialDisk ==
    /\ State = "awaitingFirstStart" =>
         Unrotated /\ accepted = Source /\ chain = Whole(Source) /\ installed \in {Source, Target}
    /\ State = "firstStartValidating" => Promoting
    /\ State \in {"firstStartValidating", "rollbackRequired"} \cup LeftToPerson =>
         accepted \in {Source, Target}
    /\ State \in {"firstStartValidating", "rollbackRequired", "businessRollbackStarting",
                  "businessRollbackCompleted", "binaryRollbackPrepared"} =>
         installed = Target /\ installer = None
    /\ State \in {"firstStartValidating", "rollbackRequired", "businessRollbackStarting"} =>
         BetweenChains

(* On the way back. *)
RollbackDisk ==
    /\ State \in GoingBack \ {"rollbackRequired"} => accepted = Source
    /\ State \in {"rollbackRequired", "businessRollbackStarting", "businessRollbackCompleted"} =>
         HasSource
    /\ State \in {"businessRollbackCompleted", "binaryRollbackPrepared",
                  "awaitingRollbackFirstStart"} => chain = Whole(Source)
    /\ State \in {"binaryRollbackPrepared", "awaitingRollbackFirstStart"} => Normal
    /\ State = "awaitingRollbackFirstStart" => installed \in {Source, Target}
    /\ restore # "none" => State = "businessRollbackStarting"

(* An installer brings the next build, or the old one back. *)
InstallerFacts ==
    \/ installer = None
    \/ installer = accepted + 1 /\ installed = accepted
    \/ /\ State \in {"awaitingRollbackFirstStart", "recoveryRequired"}
       /\ installer = Source /\ installed = Target /\ chain = Whole(Source)

(* The running application. *)
ServingFacts ==
    /\ pc \in {"serving", "fenced", "preparing", "fencing", "ready", "abort"} =>
         accepted = installed /\ State \in {"none"} \cup BeforeHandoff \cup Replaceable
    /\ pc = "serving" => State \in {"none"} \cup Replaceable
    /\ pc = "preparing" => journal = NoJournal
    /\ pc = "fencing" => State = "prepared"
    /\ pc = "ready" => State = "recoveryPointValidated"
    /\ pc = "abort" => State \in {"prepared", "recoveryPointValidated"}
    /\ pc \in {"stopping", "stopped"} => State = "runtimeStopping" /\ installed = Source
    /\ pc = "launching" => State = "awaitingFirstStart" /\ installed = Source
    /\ pc = "abortStopped" =>
         State \in {"runtimeStopping", "awaitingFirstStart"} /\ installed = Source

(* The start, up to the migrations, and the way back. *)
StartFacts ==
    /\ pc \in {"admit", "early", "restoring", "rollback", "complete", "binary", "normalize",
               "arming", "handback", "handbackFailed", "gate"} => mode = "normal"
    /\ pc \in {"early", "gate"} => Admissible /\ State \notin LeftToPerson
    /\ pc = "restoring" => restore # "none"
    /\ pc = "rollback" => State \in {"rollbackRequired", "businessRollbackStarting"}
    /\ pc = "complete" => State \in {"businessRollbackStarting", "businessRollbackCompleted"}
    /\ pc \in {"rollback", "complete"} => accepted = Source /\ restore = "none"
    /\ pc \in {"binary", "normalize"} => State = "businessRollbackCompleted"
    /\ pc = "arming" => State = "binaryRollbackPrepared"
    /\ pc = "handback" => State = "awaitingRollbackFirstStart"
    /\ pc = "handbackFailed" => State \in {"businessRollbackCompleted", "binaryRollbackPrepared",
                                           "awaitingRollbackFirstStart"}
    /\ pc \in {"handback", "handbackFailed"} => installed = Target /\ installer = None
    /\ pc = "gate" => State \notin {"rollbackRequired", "businessRollbackStarting",
                                    "businessRollbackCompleted"}
    /\ pc = "gateFailed" =>
         State \in FirstStart /\ installed = Target /\ mode \in {"normal", "coordinated"}

(* The migrations and the acceptance, by the mode of the start. *)
TrialFacts ==
    /\ pc \in {"protect", "promote"} => mode = "coordinated"
    /\ pc = "tidy" => mode = "rollback"
    /\ pc = "publish" => mode \in {"coordinated", "rollback"}
    /\ pc \in {"record", "acceptFailed"} => mode # "normal"
    /\ pc \in {"protect", "tidy", "migrate", "validate", "promote", "publish", "record"} =>
         /\ mode = "normal" => State \in {"none", "accepted"} /\ accepted = installed
         /\ mode = "coordinated" => State = "firstStartValidating"
         /\ mode = "rollback" => State = "awaitingRollbackFirstStart" /\ installed = Source
         /\ mode = "installerNotApplied" =>
              State \in {"awaitingFirstStart", "failed"} /\ installed = Source
    /\ pc \in {"protect", "migrate", "validate", "promote", "publish"} /\ mode = "coordinated" =>
         accepted = Source
    /\ pc \in {"validate", "promote", "publish", "record"} => chain = Whole(installed)
    /\ pc \in {"publish", "record"} /\ mode = "coordinated" => Rotated
    /\ pc = "record" => accepted = installed

FailureFacts ==
    /\ pc = "acceptFailed" => \/ mode = "coordinated" /\ State \in {"firstStartValidating", "accepted"}
                              \/ mode = "rollback" /\ State \in {"awaitingRollbackFirstStart", "rolledBack"}
                              \/ mode = "installerNotApplied"
                                   /\ State \in {"awaitingFirstStart", "failed", "installerNotApplied"}
    /\ pc \in {"acceptFailed", "startFailed"} /\ mode = "coordinated" =>
         installed = Target /\ installer = None
    /\ pc = "startFailed" /\ mode = "coordinated" =>
         State \in {"awaitingFirstStart", "firstStartValidating", "accepted", "rollbackRequired"}
    /\ pc = "startFailed" /\ mode = "rollback" =>
         State \in {"awaitingRollbackFirstStart", "rolledBack", "recoveryRequired"}

Disk    == DecidedDisk /\ TrialDisk /\ RollbackDisk /\ InstallerFacts
Process == ServingFacts /\ StartFacts /\ TrialFacts /\ FailureFacts

UpdateInv == TypeOK /\ mode \in Modes /\ Disk /\ Process

----------------------------------------------------------------------------
(* The journal and the cache, as the steps use them.                        *)

States == BeforeHandoff \cup FirstStart \cup GoingBack \cup LeftToPerson \cup Replaceable

(* The state and the source of the journal are typed where there is one. *)
LEMMA JournalIs ==
    TypeOK => /\ State = "none" <=> journal = NoJournal
              /\ State \in States \cup {"none"}
              /\ State # "none" => journal \in Journals /\ Source \in Build
  BY DEF TypeOK, Journals, State, Source, States, BeforeHandoff, FirstStart, GoingBack, LeftToPerson,
         Replaceable

(* An update goes to the next build. *)
LEMMA TargetIs == Target = Source + 1 /\ Target' = Source' + 1
  BY DEF Source, Target

(* The update is the same as long as its journal is. *)
LEMMA JournalKept == UNCHANGED journal => State' = State /\ Source' = Source
  BY DEF State, Source

(* What a transition of the journal leaves, and that it keeps the update. *)
LEMMA JournalTo ==
    ASSUME TypeOK, State # "none", NEW s \in States
    PROVE  /\ To(s) \in Journals /\ To(s) # NoJournal
           /\ To(s).state = s /\ To(s).cur = journal.cur
           /\ journal' = To(s) => State' = s /\ Source' = Source /\ journal' \in Journals
<1>1. journal \in Journals
  BY JournalIs
<1>2. To(s) \in Journals /\ To(s).state = s /\ To(s).cur = journal.cur
  BY <1>1 DEF To, Journals, States
<1>3. To(s) # NoJournal
  BY <1>2, BoundsAssumption
<1>4. QED
  BY <1>2, <1>3 DEF State, Source

(* A journal write that may throw, after which the process goes on or fails. *)
LEMMA PutTo ==
    ASSUME TypeOK, State # "none", NEW s \in States, NEW ok, NEW bad, Put(To(s), ok, bad)
    PROVE  /\ Source' = Source /\ journal' \in Journals
           /\ \/ State' = s /\ pc' = ok
              \/ State' \in {State, s} /\ pc' = bad
<1>1. journal \in Journals
  BY JournalIs
<1>2. \/ journal' = To(s) /\ pc' = ok
      \/ journal' \in {journal, To(s)} /\ pc' = bad
  BY DEF Put
<1>3. journal' = To(s) => State' = s /\ Source' = Source /\ journal' \in Journals
  BY JournalTo
<1>4. QED
  BY <1>1, <1>2, <1>3, JournalKept

(* A mark whose failure is swallowed. *)
LEMMA MarkTo ==
    ASSUME TypeOK, State # "none", NEW s \in States, Mark(s)
    PROVE  Source' = Source /\ journal' \in Journals /\ State' \in {State, s}
<1>1. journal \in Journals
  BY JournalIs
<1>2. QED
  BY <1>1, JournalTo, JournalKept DEF Mark

(* A step that leaves the cache and the update leaves what the packages are *)
(* to the update.                                                           *)
LEMMA CacheKept ==
    UNCHANGED cache /\ Source' = Source =>
      /\ Unrotated => Unrotated'
      /\ Rotated => Rotated'
      /\ Normal => Normal'
      /\ Promoting => Promoting'
      /\ HasSource => HasSource'
<1> SUFFICES ASSUME UNCHANGED cache, Source' = Source
             PROVE  /\ Unrotated => Unrotated'
                    /\ Rotated => Rotated'
                    /\ Normal => Normal'
                    /\ Promoting => Promoting'
                    /\ HasSource => HasSource'
  OBVIOUS
<1>1. /\ Unrotated => Unrotated'
      /\ Rotated => Rotated'
  BY DEF Unrotated, Rotated, Holds, Source, Target
<1>2. Normal => Normal'
  BY DEF Normal, Source, Target
<1>3. (Promoting => Promoting') /\ (HasSource => HasSource')
  BY DEF Promoting, HasSource, SourceAt, Holds
<1>4. QED
  BY <1>1, <1>2, <1>3

(* Being settled is a matter of the disk and the installed build. *)
LEMMA SettledKept ==
    UNCHANGED <<cache, accepted, chain, installed>> /\ Settled => Settled'
  BY DEF Settled, Holds

(* The package to go back to, wherever the packages are. *)
LEMMA PackagesTell ==
    /\ Unrotated => Promoting /\ HasSource
    /\ Rotated => HasSource
    /\ Promoting => HasSource
  BY DEF Unrotated, Rotated, Promoting, HasSource, SourceAt, Holds

(* The new build has a package, so it is a build. *)
LEMMA TargetExists == TypeOK /\ (Unrotated \/ Rotated) => Target \in Build
  BY DEF TypeOK, Unrotated, Rotated, Holds, Slots, Packages

(* In normalized packages the old one is the current one. *)
LEMMA NormalTells ==
    ASSUME TypeOK, State # "none", Normal
    PROVE  HasSource /\ Holds("current", Source, {"current"})
<1>1. [build |-> Source, role |-> "current"] \in Packages
  BY JournalIs DEF Packages
<1>2. cache["current"] # None
  BY <1>1, BoundsAssumption DEF Normal
<1>3. QED
  BY <1>2 DEF Normal, HasSource, SourceAt, Holds

(* A package whose role is its slot's makes its build the one to settle on. *)
LEMMA SettledFrom ==
    /\ Unrotated => Holds("current", Source, {"current"})
    /\ Rotated => Holds("current", Target, {"current"})
    /\ /\ Holds("current", accepted, {"current"})
       /\ chain = Whole(accepted) /\ installed \in {accepted, accepted + 1}
       <=> Settled
  BY DEF Unrotated, Rotated, Settled

(* Being admissible is a matter of the journal and the two builds. *)
LEMMA AdmissibleKept ==
    UNCHANGED <<accepted, installed, journal>> /\ Admissible => Admissible'
  BY DEF Admissible, State, Source, Target

(* What an admitted start knows of the two builds. *)
LEMMA AdmissibleTells ==
    Admissible =>
      /\ State \in {"none", "accepted"} => accepted = installed
      /\ State \notin {"none", "accepted"} => accepted = Source /\ installed \in {Source, Target}
  BY DEF Admissible

(* A step of the process alone. *)
LEMMA DiskKept ==
    ASSUME UpdateInv, UNCHANGED <<system, disk>>
    PROVE  TypeOK' /\ Disk' /\ State' = State /\ Source' = Source
<1>1. UNCHANGED <<installed, accepted, journal, chain, cache, restore, installer>>
  BY DEF system, disk
<1>2. TypeOK'
  BY <1>1 DEF UpdateInv, TypeOK
<1>3. State' = State /\ Source' = Source
  BY <1>1, JournalKept
<1>4. Disk'
  BY <1>1, <1>3, CacheKept, SettledKept, TargetIs
     DEF UpdateInv, Disk, DecidedDisk, TrialDisk, RollbackDisk, InstallerFacts, BetweenChains
<1>5. QED
  BY <1>2, <1>3, <1>4

(* A step of the promotion keeps the old package.  It moves the old package *)
(* aside, moves the new one in, or gives the two their roles.               *)
LEMMA PromotedKeeps ==
    ASSUME TypeOK, Promoting
    PROVE  /\ Promoted \in [Slots -> Packages \cup {None}]
           /\ cache' = Promoted /\ Source' = Source => Promoting'
<1>0. cache \in [Slots -> Packages \cup {None}] /\ None \notin Packages
  BY BoundsAssumption DEF TypeOK
<1>1. CASE SourceAt("current") /\ cache["candidate"] # None
  <2>1. Promoted = IF cache["previous"] # None THEN [cache EXCEPT !["previous"] = None]
                                               ELSE Moved("current", "previous")
    BY <1>1 DEF Promoted, SourceAt, Holds
  <2>2. QED
    BY <1>0, <1>1, <2>1 DEF Moved, Promoting, SourceAt, Holds, Slots
<1>2. CASE SourceAt("previous") /\ cache["current"] = None /\ cache["candidate"] # None
  <2>1. Promoted = Moved("candidate", "current")
    BY <1>2 DEF Promoted
  <2>2. QED
    BY <1>0, <1>2, <2>1 DEF Moved, Promoting, SourceAt, Holds, Slots
<1>3. CASE SourceAt("previous") /\ cache["current"] # None /\ cache["candidate"] = None
  <2>1. Promoted \in {Relabelled("current"), Relabelled("previous")}
    BY <1>3 DEF Promoted
  <2>2. /\ cache["current"] \in Packages /\ cache["previous"] \in Packages
    BY <1>0, <1>3 DEF SourceAt, Holds, Slots
  <2>3. CASE Promoted = Relabelled("current")
    <3>1. [cache["current"] EXCEPT !.role = "current"] \in Packages
      BY <2>2 DEF Packages
    <3>2. Promoted = [cache EXCEPT !["current"] = [cache["current"] EXCEPT !.role = "current"]]
      BY <1>0, <2>3 DEF Relabelled
    <3>3. QED
      BY <1>0, <1>3, <3>1, <3>2 DEF Promoting, SourceAt, Holds, Slots
  <2>4. CASE Promoted = Relabelled("previous")
    <3>1. /\ [cache["previous"] EXCEPT !.role = "previous"] \in Packages
          /\ [cache["previous"] EXCEPT !.role = "previous"].build = Source
          /\ [cache["previous"] EXCEPT !.role = "previous"].role = "previous"
      BY <1>3, <2>2 DEF Packages, SourceAt, Holds
    <3>2. Promoted = [cache EXCEPT !["previous"] = [cache["previous"] EXCEPT !.role = "previous"]]
      BY <1>0, <2>4 DEF Relabelled
    <3>3. QED
      BY <1>0, <1>3, <3>1, <3>2 DEF Promoting, SourceAt, Holds, Slots
  <2>5. QED
    BY <2>1, <2>3, <2>4
<1>4. QED
  BY <1>1, <1>2, <1>3 DEF Promoting

(* Neither does a step of the normalization lose it. *)
LEMMA NormalizedKeeps ==
    ASSUME TypeOK, HasSource
    PROVE  /\ Normalized \in [Slots -> Packages \cup {None}]
           /\ cache' = Normalized /\ Source' = Source => HasSource'
<1>0. cache \in [Slots -> Packages \cup {None}] /\ None \notin Packages
  BY BoundsAssumption DEF TypeOK
<1>1. \/ /\ cache["current"] = None /\ cache["previous"] # None
         /\ Normalized = Moved("previous", "current")
      \/ cache["current"] # None /\ cache["candidate"] = None /\ Normalized = Moved("parked", "candidate")
      \/ SourceAt("current") /\ Normalized = [cache EXCEPT !["previous"] = None]
      \/ SourceAt("previous") /\ Normalized = Moved("current", "parked")
      \/ /\ SourceAt("current") /\ TargetAt("candidate")
         /\ Normalized \in {Relabelled("current"), Relabelled("candidate")}
      \/ Normalized = cache
  BY DEF Normalized
<1>2. CASE cache["current"] = None /\ cache["previous"] # None /\ Normalized = Moved("previous", "current")
  BY <1>0, <1>2 DEF Moved, HasSource, SourceAt, Holds, Slots
<1>3. CASE Normalized = Moved("parked", "candidate")
  BY <1>0, <1>3 DEF Moved, HasSource, SourceAt, Holds, Slots
<1>4. CASE SourceAt("current") /\ Normalized = [cache EXCEPT !["previous"] = None]
  BY <1>0, <1>4 DEF HasSource, SourceAt, Holds, Slots
<1>5. CASE SourceAt("previous") /\ Normalized = Moved("current", "parked")
  BY <1>0, <1>5 DEF Moved, HasSource, SourceAt, Holds, Slots
<1>6. CASE SourceAt("current") /\ Normalized = Relabelled("current")
  <2>1. /\ [cache["current"] EXCEPT !.role = "current"] \in Packages
        /\ [cache["current"] EXCEPT !.role = "current"].build = Source
        /\ [cache["current"] EXCEPT !.role = "current"].role = "current"
    BY <1>0, <1>6 DEF Packages, SourceAt, Holds, Slots
  <2>2. Normalized = [cache EXCEPT !["current"] = [cache["current"] EXCEPT !.role = "current"]]
    BY <1>0, <1>6 DEF Relabelled
  <2>3. QED
    BY <1>0, <2>1, <2>2 DEF HasSource, SourceAt, Holds, Slots
<1>7. CASE SourceAt("current") /\ TargetAt("candidate") /\ Normalized = Relabelled("candidate")
  <2>1. [cache["candidate"] EXCEPT !.role = "candidate"] \in Packages
    BY <1>0, <1>7 DEF Packages, TargetAt, Holds, Slots
  <2>2. Normalized = [cache EXCEPT !["candidate"] = [cache["candidate"] EXCEPT !.role = "candidate"]]
    BY <1>0, <1>7 DEF Relabelled
  <2>3. QED
    BY <1>0, <1>7, <2>1, <2>2 DEF HasSource, SourceAt, Holds, Slots
<1>8. CASE Normalized = cache
  BY <1>0, <1>8, CacheKept
<1>9. QED
  BY <1>1, <1>2, <1>3, <1>4, <1>5, <1>6, <1>7, <1>8

----------------------------------------------------------------------------
(* The running application.                                                 *)

(* A staged candidate touches neither the current nor the previous package. *)
LEMMA StageKeeps == UpdateInv /\ Stage => UpdateInv'
<1> SUFFICES ASSUME UpdateInv, Stage PROVE UpdateInv'
  OBVIOUS
<1>0. TypeOK
  BY DEF UpdateInv
<1>a. [build |-> installed + 1, role |-> "candidate"] \in Packages \cup {None} /\ cache \in [Slots -> Packages \cup {None}]
  BY <1>0, BoundsAssumption DEF Stage, TypeOK, Packages, Build
<1>b. cache' = [cache EXCEPT !["candidate"] = [build |-> installed + 1, role |-> "candidate"]]
  BY DEF Stage
<1>c. /\ cache' \in [Slots -> Packages \cup {None}]
      /\ cache'["current"] = cache["current"] /\ cache'["previous"] = cache["previous"]
  BY <1>a, <1>b DEF Slots
<1>d. UNCHANGED <<accepted, chain, installed>> /\ Target' = Target /\ Source' = Source
  BY DEF Stage, system, Source, Target
<1>e. (Settled => Settled') /\ (Rotated => Rotated')
  BY <1>c, <1>d DEF Settled, Rotated, Holds
<1>1. /\ pc = "serving" /\ State \in {"none"} \cup Replaceable
      /\ UNCHANGED <<journal, pc, mode>> /\ State' = State /\ Source' = Source
      /\ cache' \in [Slots -> Packages \cup {None}]
      /\ Settled => Settled'
      /\ Rotated => Rotated'
  BY <1>c, <1>e, JournalKept DEF Stage, MayChangeCandidate
<1>2. UNCHANGED <<accepted, chain, restore, installed, installer>>
  BY DEF Stage, system, disk
<1>3. TypeOK' /\ mode' \in Modes
  BY <1>0, <1>1, <1>2 DEF UpdateInv, TypeOK, Modes
<1>4. Disk'
  BY <1>0, <1>1, <1>2, TargetIs
     DEF UpdateInv, Disk, DecidedDisk, TrialDisk, RollbackDisk, InstallerFacts, Replaceable
<1>5. Process'
  BY <1>0, <1>1, <1>2
     DEF UpdateInv, Process, ServingFacts, StartFacts, TrialFacts, FailureFacts
<1>6. QED
  BY <1>3, <1>4, <1>5 DEF UpdateInv

(* Neither does discarding one. *)
LEMMA DiscardKeeps == UpdateInv /\ Discard => UpdateInv'
<1> SUFFICES ASSUME UpdateInv, Discard PROVE UpdateInv'
  OBVIOUS
<1>0. TypeOK
  BY DEF UpdateInv
<1>a. None \in Packages \cup {None} /\ cache \in [Slots -> Packages \cup {None}]
  BY <1>0, BoundsAssumption DEF Discard, TypeOK, Packages, Build
<1>b. cache' = [cache EXCEPT !["candidate"] = None]
  BY DEF Discard
<1>c. /\ cache' \in [Slots -> Packages \cup {None}]
      /\ cache'["current"] = cache["current"] /\ cache'["previous"] = cache["previous"]
  BY <1>a, <1>b DEF Slots
<1>d. UNCHANGED <<accepted, chain, installed>> /\ Target' = Target /\ Source' = Source
  BY DEF Discard, system, Source, Target
<1>e. (Settled => Settled') /\ (Rotated => Rotated')
  BY <1>c, <1>d DEF Settled, Rotated, Holds
<1>1. /\ pc = "serving" /\ State \in {"none"} \cup Replaceable
      /\ UNCHANGED <<journal, pc, mode>> /\ State' = State /\ Source' = Source
      /\ cache' \in [Slots -> Packages \cup {None}]
      /\ Settled => Settled'
      /\ Rotated => Rotated'
  BY <1>c, <1>e, JournalKept DEF Discard, MayChangeCandidate
<1>2. UNCHANGED <<accepted, chain, restore, installed, installer>>
  BY DEF Discard, system, disk
<1>3. TypeOK' /\ mode' \in Modes
  BY <1>0, <1>1, <1>2 DEF UpdateInv, TypeOK, Modes
<1>4. Disk'
  BY <1>0, <1>1, <1>2, TargetIs
     DEF UpdateInv, Disk, DecidedDisk, TrialDisk, RollbackDisk, InstallerFacts, Replaceable
<1>5. Process'
  BY <1>0, <1>1, <1>2
     DEF UpdateInv, Process, ServingFacts, StartFacts, TrialFacts, FailureFacts
<1>6. QED
  BY <1>3, <1>4, <1>5 DEF UpdateInv

(* Clearing a decided journal leaves a settled disk. *)
LEMMA ConfirmKeeps == UpdateInv /\ Confirm => UpdateInv'
<1> SUFFICES ASSUME UpdateInv, Confirm PROVE UpdateInv'
  OBVIOUS
<1>0. TypeOK
  BY DEF UpdateInv
<1>1. /\ pc = "serving" /\ State \in {"none"} \cup Replaceable /\ mode' = mode
      /\ \/ State' = "none" /\ journal' = NoJournal /\ pc' \in {"preparing", "fenced"}
         \/ State' = State /\ Source' = Source /\ UNCHANGED journal /\ pc' = "fenced"
  BY JournalKept DEF Confirm, MayChangeCandidate, State
<1>2. UNCHANGED <<accepted, chain, cache, restore, installed, installer>>
  BY DEF Confirm, system, disk
<1>3. TypeOK' /\ mode' \in Modes
  BY <1>0, <1>1, <1>2 DEF UpdateInv, TypeOK, Modes
<1>4. Disk'
  BY <1>0, <1>1, <1>2, TargetIs, CacheKept, SettledKept
     DEF UpdateInv, Disk, DecidedDisk, TrialDisk, RollbackDisk, InstallerFacts,
         BeforeHandoff, GoingBack, LeftToPerson, Replaceable
<1>5. Process'
  BY <1>0, <1>1, <1>2
     DEF UpdateInv, Process, ServingFacts, StartFacts, TrialFacts, FailureFacts
<1>6. QED
  BY <1>3, <1>4, <1>5 DEF UpdateInv

(* The journal names the build of the current package, the accepted one. *)
LEMMA PrepareKeeps == UpdateInv /\ Prepare => UpdateInv'
<1> SUFFICES ASSUME UpdateInv, Prepare PROVE UpdateInv'
  OBVIOUS
<1>0. TypeOK
  BY DEF UpdateInv
<1>a. pc = "preparing" /\ State = "none" /\ cache["current"].build = accepted /\ accepted \in Build
  BY <1>0, JournalIs
     DEF Prepare, UpdateInv, Process, ServingFacts, Disk, DecidedDisk, Settled, Holds,
         TypeOK
<1>b. ASSUME journal' = [state |-> "prepared", cur |-> cache["current"].build, handoffs |-> 0]
      PROVE  State' = "prepared" /\ Source' = accepted /\ journal' \in Journals
  <2>1. journal' \in Journals /\ journal'.state = "prepared" /\ journal'.cur = accepted
    BY <1>a, <1>b DEF Journals, BeforeHandoff
  <2>2. QED
    BY <2>1, BoundsAssumption DEF State, Source
<1>1. /\ pc = "preparing" /\ State = "none" /\ mode' = mode
      /\ \/ State' = "prepared" /\ Source' = accepted /\ journal' \in Journals /\ pc' \in {"fencing", "fenced"}
         \/ State' = "none" /\ UNCHANGED journal /\ pc' \in {"serving", "fenced"}
  BY <1>a, <1>b, JournalKept DEF Prepare, Put, ValidationFails
<1>2. UNCHANGED <<accepted, chain, cache, restore, installed, installer>>
  BY DEF Prepare, system, disk
<1>3. TypeOK' /\ mode' \in Modes
  BY <1>0, <1>1, <1>2 DEF UpdateInv, TypeOK, Modes
<1>4. Disk'
  BY <1>0, <1>1, <1>2, SettledKept
     DEF UpdateInv, Disk, DecidedDisk, TrialDisk, RollbackDisk, InstallerFacts,
         BeforeHandoff, GoingBack, LeftToPerson, Replaceable
<1>5. Process'
  BY <1>0, <1>1, <1>2
     DEF UpdateInv, Process, ServingFacts, StartFacts, TrialFacts, FailureFacts,
         BeforeHandoff
<1>6. QED
  BY <1>3, <1>4, <1>5 DEF UpdateInv

(* Only the journal moves on. *)
LEMMA TakePointKeeps == UpdateInv /\ TakePoint => UpdateInv'
<1> SUFFICES ASSUME UpdateInv, TakePoint PROVE UpdateInv'
  OBVIOUS
<1>0. TypeOK
  BY DEF UpdateInv
<1>1. /\ pc = "fencing" /\ State = "prepared"
      /\ Source' = Source /\ journal' \in Journals /\ mode' = mode
      /\ \/ State' = "recoveryPointValidated" /\ pc' \in {"ready", "fenced"}
         \/ State' = State /\ pc' \in {"fenced", "abort"}
  BY <1>0, JournalIs, PutTo, JournalKept
     DEF TakePoint, ValidationFails, UpdateInv, Process, ServingFacts, States, BeforeHandoff
<1>2. UNCHANGED <<accepted, chain, cache, restore, installed, installer>>
  BY DEF TakePoint, system, disk
<1>3. TypeOK' /\ mode' \in Modes
  BY <1>0, <1>1, <1>2 DEF UpdateInv, TypeOK, Modes
<1>4. Disk'
  BY <1>0, <1>1, <1>2, SettledKept
     DEF UpdateInv, Disk, DecidedDisk, TrialDisk, RollbackDisk, InstallerFacts, Process,
         ServingFacts
<1>5. Process'
  BY <1>0, <1>1, <1>2
     DEF UpdateInv, Process, ServingFacts, StartFacts, TrialFacts, FailureFacts,
         BeforeHandoff
<1>6. QED
  BY <1>3, <1>4, <1>5 DEF UpdateInv

(* The two packages are where the roles say when the handoff is recorded. *)
LEMMA HandoffKeeps == UpdateInv /\ Handoff => UpdateInv'
<1> SUFFICES ASSUME UpdateInv, Handoff PROVE UpdateInv'
  OBVIOUS
<1>0. TypeOK
  BY DEF UpdateInv
<1>a. /\ pc = "ready" /\ State = "recoveryPointValidated"
      /\ Holds("candidate", Target, {"candidate"}) => Unrotated
  BY DEF Handoff, UpdateInv, Process, ServingFacts, Disk, DecidedDisk, Settled, Unrotated,
         BeforeHandoff
<1>1. /\ pc = "ready" /\ State = "recoveryPointValidated"
      /\ Source' = Source /\ journal' \in Journals /\ mode' = mode
      /\ \/ State' = "runtimeStopping" /\ pc' \in {"stopping", "fenced"} /\ Unrotated
         \/ State' = State /\ pc' \in {"fenced", "abort"}
  BY <1>0, <1>a, JournalIs, JournalKept, PutTo
     DEF Handoff, ValidationFails, States, BeforeHandoff
<1>2. UNCHANGED <<accepted, chain, cache, restore, installed, installer>>
  BY DEF Handoff, system, disk
<1>3. TypeOK' /\ mode' \in Modes
  BY <1>0, <1>1, <1>2 DEF UpdateInv, TypeOK, Modes
<1>4. Disk'
  BY <1>0, <1>1, <1>2, CacheKept, SettledKept
     DEF UpdateInv, Disk, DecidedDisk, TrialDisk, RollbackDisk, InstallerFacts, Process,
         ServingFacts
<1>5. Process'
  BY <1>0, <1>1, <1>2
     DEF UpdateInv, Process, ServingFacts, StartFacts, TrialFacts, FailureFacts, Disk,
         DecidedDisk, BeforeHandoff
<1>6. QED
  BY <1>3, <1>4, <1>5 DEF UpdateInv

(* Only the process moves. *)
LEMMA StopRuntimeKeeps == UpdateInv /\ StopRuntime => UpdateInv'
<1> SUFFICES ASSUME UpdateInv, StopRuntime PROVE UpdateInv'
  OBVIOUS
<1>0. TypeOK
  BY DEF UpdateInv
<1>1. UNCHANGED <<system, disk>>
  BY DEF StopRuntime
<1>2. TypeOK' /\ Disk' /\ State' = State /\ Source' = Source
  BY <1>1, DiskKept
<1>3. mode' \in Modes /\ Process'
  BY <1>0, <1>1, <1>2
     DEF StopRuntime, UpdateInv, Process, ServingFacts, StartFacts, TrialFacts,
         FailureFacts, system
<1>4. QED
  BY <1>2, <1>3 DEF UpdateInv

(* What was checked before the runtime stopped still holds. *)
LEMMA AwaitKeeps == UpdateInv /\ Await => UpdateInv'
<1> SUFFICES ASSUME UpdateInv, Await PROVE UpdateInv'
  OBVIOUS
<1>0. TypeOK
  BY DEF UpdateInv
<1>a. pc = "stopped" /\ State = "runtimeStopping" /\ journal \in Journals
  BY <1>0, JournalIs DEF Await, UpdateInv, Process, ServingFacts
<1>b. ASSUME journal' = [To("awaitingFirstStart") EXCEPT !.handoffs = 1]
      PROVE  State' = "awaitingFirstStart" /\ Source' = Source /\ journal' \in Journals
  <2>1. /\ journal' \in Journals /\ journal'.state = "awaitingFirstStart"
        /\ journal'.cur = journal.cur
    <3> DEFINE j == To("awaitingFirstStart")
    <3>1. j \in Journals /\ j.state = "awaitingFirstStart" /\ j.cur = journal.cur
      BY <1>0, <1>a, JournalTo DEF States, FirstStart
    <3>2. journal' = [j EXCEPT !.handoffs = 1]
      BY <1>b
    <3> HIDE DEF j
    <3>3. QED
      BY <3>1, <3>2 DEF Journals
  <2>2. QED
    BY <2>1, BoundsAssumption DEF State, Source
<1>1. /\ pc = "stopped" /\ State = "runtimeStopping"
      /\ Source' = Source /\ journal' \in Journals /\ mode' = mode
      /\ \/ State' = "awaitingFirstStart" /\ pc' \in {"launching", "halted"}
         \/ State' = State /\ pc' = "halted"
  BY <1>a, <1>b, JournalKept DEF Await, Put
<1>2. UNCHANGED <<accepted, chain, cache, restore, installed, installer>>
  BY DEF Await, system, disk
<1>3. TypeOK' /\ mode' \in Modes
  BY <1>0, <1>1, <1>2 DEF UpdateInv, TypeOK, Modes
<1>4. Disk'
  BY <1>0, <1>1, <1>2, TargetIs, CacheKept, SettledKept, SettledFrom
     DEF UpdateInv, Disk, DecidedDisk, TrialDisk, RollbackDisk, InstallerFacts,
         BeforeHandoff
<1>5. Process'
  BY <1>0, <1>1, <1>2
     DEF UpdateInv, Process, ServingFacts, StartFacts, TrialFacts, FailureFacts
<1>6. QED
  BY <1>3, <1>4, <1>5 DEF UpdateInv

(* The installer gets the next build, over the accepted one. *)
LEMMA LaunchKeeps == UpdateInv /\ Launch => UpdateInv'
<1> SUFFICES ASSUME UpdateInv, Launch PROVE UpdateInv'
  OBVIOUS
<1>0. TypeOK
  BY DEF UpdateInv
<1>1. /\ pc = "launching" /\ State = "awaitingFirstStart" /\ installed = Source
      /\ State' = State /\ Source' = Source /\ UNCHANGED <<journal, mode>>
      /\ \/ installer' = Target /\ pc' = "down"
         \/ UNCHANGED installer /\ pc' = "abortStopped"
  BY JournalKept DEF Launch, disk, UpdateInv, Process, ServingFacts
<1>2. UNCHANGED <<accepted, chain, cache, restore, installed>>
  BY DEF Launch, system, disk
<1>3. TypeOK' /\ mode' \in Modes
  BY <1>0, <1>1, <1>2, TargetExists DEF UpdateInv, TypeOK, Modes, Disk, TrialDisk
<1>4. Disk'
  BY <1>0, <1>1, <1>2, TargetIs, CacheKept, SettledKept
     DEF UpdateInv, Disk, DecidedDisk, TrialDisk, RollbackDisk, InstallerFacts
<1>5. Process'
  BY <1>0, <1>1, <1>2
     DEF UpdateInv, Process, ServingFacts, StartFacts, TrialFacts, FailureFacts
<1>6. QED
  BY <1>3, <1>4, <1>5 DEF UpdateInv

(* Nothing has changed the disk before the installer ran. *)
LEMMA AbortKeeps == UpdateInv /\ Abort => UpdateInv'
<1> SUFFICES ASSUME UpdateInv, Abort PROVE UpdateInv'
  OBVIOUS
<1>0. TypeOK
  BY DEF UpdateInv
<1>a. \/ pc = "abort" /\ State \in {"prepared", "recoveryPointValidated"}
      \/ /\ pc = "abortStopped" /\ State \in {"runtimeStopping", "awaitingFirstStart"}
         /\ installed = Source
  BY DEF Abort, UpdateInv, Process, ServingFacts
<1>b. /\ Source' = Source /\ journal' \in Journals /\ mode' = mode /\ State' \in {State, "failed"}
      /\ pc = "abort" => pc' = "fenced" \/ (State' = "failed" /\ pc' = "serving")
      /\ pc = "abortStopped" => pc' = "halted"
  <2>1. State # "none" /\ "failed" \in States
    BY <1>a DEF States, Replaceable
  <2>2. CASE pc = "abort"
    BY <1>0, <2>1, <2>2, PutTo DEF Abort
  <2>3. CASE pc = "abortStopped"
    BY <1>0, <2>1, <2>3, PutTo DEF Abort
  <2>4. QED
    BY <1>a, <2>2, <2>3
<1>1. /\ Source' = Source /\ journal' \in Journals /\ mode' = mode /\ State' \in {State, "failed"}
      /\ \/ /\ pc = "abort" /\ State \in {"prepared", "recoveryPointValidated"}
            /\ pc' = "fenced" \/ (State' = "failed" /\ pc' = "serving")
         \/ /\ pc = "abortStopped" /\ State \in {"runtimeStopping", "awaitingFirstStart"}
            /\ installed = Source /\ pc' = "halted"
  BY <1>a, <1>b
<1>2. UNCHANGED <<accepted, chain, cache, restore, installed, installer>>
  BY DEF Abort, system, disk
<1>3. TypeOK' /\ mode' \in Modes
  BY <1>0, <1>1, <1>2 DEF UpdateInv, TypeOK, Modes
<1>4. Disk'
  BY <1>0, <1>1, <1>2, CacheKept, SettledKept, SettledFrom
     DEF UpdateInv, Disk, DecidedDisk, TrialDisk, RollbackDisk, InstallerFacts,
         BeforeHandoff
<1>5. Process'
  BY <1>0, <1>1, <1>2
     DEF UpdateInv, Process, ServingFacts, StartFacts, TrialFacts, FailureFacts, Replaceable
<1>6. QED
  BY <1>3, <1>4, <1>5 DEF UpdateInv

----------------------------------------------------------------------------
(* The start, up to the migration gate.                                     *)

(* A start assumes nothing. *)
LEMMA StartKeeps == UpdateInv /\ Start => UpdateInv'
<1> SUFFICES ASSUME UpdateInv, Start PROVE UpdateInv'
  OBVIOUS
<1>0. TypeOK
  BY DEF UpdateInv
<1>1. UNCHANGED <<system, disk>>
  BY DEF Start
<1>2. TypeOK' /\ Disk' /\ State' = State /\ Source' = Source
  BY <1>1, DiskKept
<1>3. mode' \in Modes /\ Process'
  BY <1>0, <1>1, <1>2
     DEF Start, Modes, UpdateInv, Process, ServingFacts, StartFacts, TrialFacts,
         FailureFacts
<1>4. QED
  BY <1>2, <1>3 DEF UpdateInv

(* The start goes on only where both builds fit the journal. *)
LEMMA AdmitKeeps == UpdateInv /\ Admit => UpdateInv'
<1> SUFFICES ASSUME UpdateInv, Admit PROVE UpdateInv'
  OBVIOUS
<1>0. TypeOK
  BY DEF UpdateInv
<1>1. UNCHANGED <<system, disk>>
  BY DEF Admit
<1>2. TypeOK' /\ Disk' /\ State' = State /\ Source' = Source
  BY <1>1, DiskKept
<1>3. mode' \in Modes /\ Process'
  BY <1>0, <1>1, <1>2, TargetIs
     DEF Admit, UpdateInv, Process, ServingFacts, StartFacts, TrialFacts, FailureFacts,
         system, disk, Admissible
<1>4. QED
  BY <1>2, <1>3 DEF UpdateInv

(* A first start that fails early asks for the rollback. *)
LEMMA FailEarlyKeeps == UpdateInv /\ FailEarly => UpdateInv'
<1> SUFFICES ASSUME UpdateInv, FailEarly PROVE UpdateInv'
  OBVIOUS
<1>0. TypeOK
  BY DEF UpdateInv
<1>1. /\ pc = "early" /\ pc' = "refused" /\ mode' = mode /\ Source' = Source
      /\ \/ State' = State /\ UNCHANGED journal
         \/ /\ State \in FirstStart /\ installed = Target /\ accepted = Source
            /\ State' = "rollbackRequired" /\ journal' \in Journals
  BY <1>0, JournalKept, JournalTo DEF FailEarly, States, FirstStart, GoingBack
<1>2. UNCHANGED <<accepted, chain, cache, restore, installed, installer>>
  BY DEF FailEarly, system, disk
<1>3. TypeOK' /\ mode' \in Modes
  BY <1>0, <1>1, <1>2 DEF UpdateInv, TypeOK, Modes
<1>4. Disk'
  BY <1>0, <1>1, <1>2, JournalIs, TargetIs, CacheKept, SettledKept, PackagesTell
     DEF UpdateInv, Disk, DecidedDisk, TrialDisk, RollbackDisk, InstallerFacts,
         BetweenChains, Build, BeforeHandoff, FirstStart, Replaceable, Whole
<1>5. Process'
  BY <1>0, <1>1, <1>2
     DEF UpdateInv, Process, ServingFacts, StartFacts, TrialFacts, FailureFacts
<1>6. QED
  BY <1>3, <1>4, <1>5 DEF UpdateInv

(* Where the start goes on is decided by the journal it was admitted with. *)
LEMMA InspectKeeps == UpdateInv /\ Inspect => UpdateInv'
<1> SUFFICES ASSUME UpdateInv, Inspect PROVE UpdateInv'
  OBVIOUS
<1>0. TypeOK
  BY DEF UpdateInv
<1>a. /\ pc = "early" /\ mode' = mode /\ pc' \in {"restoring", "rollback", "complete", "gate"}
      /\ pc' = "restoring" => restore # "none"
      /\ pc' = "rollback" => restore = "none" /\ State \in {"rollbackRequired", "businessRollbackStarting"}
      /\ pc' = "complete" => State = "businessRollbackCompleted"
      /\ pc' = "gate" => restore = "none" /\ State \notin {"rollbackRequired", "businessRollbackStarting",
                                                         "businessRollbackCompleted"}
  BY DEF Inspect
<1>1. UNCHANGED <<system, disk>>
  BY DEF Inspect
<1>2. TypeOK' /\ Disk' /\ State' = State /\ Source' = Source
  BY <1>1, DiskKept
<1>3. mode' \in Modes /\ Process'
  BY <1>0, <1>1, <1>2, <1>a, AdmissibleKept, AdmissibleTells
     DEF UpdateInv, Process, ServingFacts, StartFacts, TrialFacts, FailureFacts, Disk,
         RollbackDisk, system, disk
<1>4. QED
  BY <1>2, <1>3 DEF UpdateInv

----------------------------------------------------------------------------
(* The way back.                                                            *)

(* The rollback begins with the accepted build unchanged. *)
LEMMA StartRollbackKeeps == UpdateInv /\ StartRollback => UpdateInv'
<1> SUFFICES ASSUME UpdateInv, StartRollback PROVE UpdateInv'
  OBVIOUS
<1>0. TypeOK
  BY DEF UpdateInv
<1>1. /\ pc = "rollback" /\ State = "rollbackRequired"
      /\ Source' = Source /\ journal' \in Journals /\ mode' = mode
      /\ \/ State' = "businessRollbackStarting" /\ pc' \in {"rollback", "startFailed"}
         \/ State' = State /\ pc' = "startFailed"
  BY <1>0, PutTo DEF StartRollback, States, GoingBack
<1>2. UNCHANGED <<accepted, chain, cache, restore, installed, installer>>
  BY DEF StartRollback, system, disk
<1>3. TypeOK' /\ mode' \in Modes
  BY <1>0, <1>1, <1>2 DEF UpdateInv, TypeOK, Modes
<1>4. Disk'
  BY <1>0, <1>1, <1>2, TargetIs, CacheKept
     DEF UpdateInv, Disk, DecidedDisk, TrialDisk, RollbackDisk, InstallerFacts,
         BetweenChains, Process, StartFacts, BeforeHandoff, Replaceable
<1>5. Process'
  BY <1>0, <1>1, <1>2
     DEF UpdateInv, Process, ServingFacts, StartFacts, TrialFacts, FailureFacts
<1>6. QED
  BY <1>3, <1>4, <1>5 DEF UpdateInv

(* A restore is staged in this state of the journal alone. *)
LEMMA StageRestoreKeeps == UpdateInv /\ StageRestore => UpdateInv'
<1> SUFFICES ASSUME UpdateInv, StageRestore PROVE UpdateInv'
  OBVIOUS
<1>0. TypeOK
  BY DEF UpdateInv
<1>1. /\ pc = "rollback" /\ State = "businessRollbackStarting" /\ mode' = mode
      /\ Source' = Source /\ journal' \in Journals
      /\ \/ State' = State /\ UNCHANGED restore /\ pc' = "complete"
         \/ State' = State /\ restore' = "staged" /\ pc' = "admit"
         \/ State' \in {State, "failedSafe"} /\ UNCHANGED restore /\ pc' = "startFailed"
  BY <1>0, JournalIs, JournalTo, JournalKept DEF StageRestore, States, LeftToPerson
<1>2. UNCHANGED <<accepted, chain, cache, installed, installer>>
  BY DEF StageRestore, system, disk
<1>3. TypeOK' /\ mode' \in Modes
  BY <1>0, <1>1, <1>2 DEF UpdateInv, TypeOK, Modes
<1>4. Disk'
  BY <1>0, <1>1, <1>2, TargetIs, CacheKept
     DEF UpdateInv, Disk, DecidedDisk, TrialDisk, RollbackDisk, InstallerFacts,
         BetweenChains, Process, StartFacts, BeforeHandoff, Replaceable
<1>5. Process'
  BY <1>0, <1>1, <1>2
     DEF UpdateInv, Process, ServingFacts, StartFacts, TrialFacts, FailureFacts
<1>6. QED
  BY <1>3, <1>4, <1>5 DEF UpdateInv

(* The restored profile has the old build's migrations. *)
LEMMA RestoreKeeps == UpdateInv /\ Restore => UpdateInv'
<1> SUFFICES ASSUME UpdateInv, Restore PROVE UpdateInv'
  OBVIOUS
<1>0. TypeOK
  BY DEF UpdateInv
<1>1. /\ pc = "restoring" /\ State = "businessRollbackStarting" /\ mode' = mode
      /\ State' = State /\ Source' = Source /\ journal' \in Journals
      /\ \/ chain' = Whole(Source) /\ restore' = "none" /\ pc' = "complete"
         \/ UNCHANGED chain /\ restore' = "rejected" /\ pc' = "admit"
  BY <1>0, JournalIs, JournalKept DEF Restore, UpdateInv, Disk, RollbackDisk
<1>2. UNCHANGED <<accepted, cache, installed, installer>>
  BY DEF Restore, system, disk
<1>3. TypeOK' /\ mode' \in Modes
  BY <1>0, <1>1, <1>2, JournalIs, BoundsAssumption DEF UpdateInv, TypeOK, Build, Whole
<1>4. Disk'
  BY <1>0, <1>1, <1>2, JournalIs, TargetIs, CacheKept
     DEF UpdateInv, Disk, DecidedDisk, TrialDisk, RollbackDisk, InstallerFacts,
         BetweenChains, Build, BeforeHandoff, Replaceable, Whole
<1>5. Process'
  BY <1>0, <1>1, <1>2
     DEF UpdateInv, Process, ServingFacts, StartFacts, TrialFacts, FailureFacts, Disk,
         RollbackDisk, GoingBack
<1>6. QED
  BY <1>3, <1>4, <1>5 DEF UpdateInv

(* A rejected restore leaves the disk alone. *)
LEMMA RestoreRejectedKeeps == UpdateInv /\ RestoreRejected => UpdateInv'
<1> SUFFICES ASSUME UpdateInv, RestoreRejected PROVE UpdateInv'
  OBVIOUS
<1>0. TypeOK
  BY DEF UpdateInv
<1>1. UNCHANGED <<system, disk>>
  BY DEF RestoreRejected
<1>2. TypeOK' /\ Disk' /\ State' = State /\ Source' = Source
  BY <1>1, DiskKept
<1>3. mode' \in Modes /\ Process'
  BY <1>0, <1>1, <1>2
     DEF RestoreRejected, UpdateInv, Process, ServingFacts, StartFacts, TrialFacts,
         FailureFacts
<1>4. QED
  BY <1>2, <1>3 DEF UpdateInv

(* The profile is back before the journal says so. *)
LEMMA CompleteRollbackKeeps == UpdateInv /\ CompleteRollback => UpdateInv'
<1> SUFFICES ASSUME UpdateInv, CompleteRollback PROVE UpdateInv'
  OBVIOUS
<1>0. TypeOK
  BY DEF UpdateInv
<1>1. /\ pc = "complete" /\ State \in {"businessRollbackStarting", "businessRollbackCompleted"}
      /\ Source' = Source /\ journal' \in Journals /\ mode' = mode
      /\ \/ State' = "businessRollbackCompleted" /\ pc' \in {"binary", "startFailed"} /\ chain = Whole(Source)
         \/ State' \in {State, "recoveryRequired"} /\ pc' = "startFailed"
  BY <1>0, JournalIs, JournalTo, JournalKept, PutTo
     DEF CompleteRollback, UpdateInv, Process, StartFacts, States, GoingBack, LeftToPerson
<1>2. UNCHANGED <<accepted, chain, cache, restore, installed, installer>>
  BY DEF CompleteRollback, system, disk
<1>3. TypeOK' /\ mode' \in Modes
  BY <1>0, <1>1, <1>2 DEF UpdateInv, TypeOK, Modes
<1>4. Disk'
  BY <1>0, <1>1, <1>2, TargetIs, CacheKept
     DEF UpdateInv, Disk, DecidedDisk, TrialDisk, RollbackDisk, InstallerFacts,
         BetweenChains, Process, StartFacts, BeforeHandoff, Replaceable
<1>5. Process'
  BY <1>0, <1>1, <1>2
     DEF UpdateInv, Process, ServingFacts, StartFacts, TrialFacts, FailureFacts
<1>6. QED
  BY <1>3, <1>4, <1>5 DEF UpdateInv

(* The package is found, or the decision left to a person. *)
LEMMA FindPackageKeeps == UpdateInv /\ FindPackage => UpdateInv'
<1> SUFFICES ASSUME UpdateInv, FindPackage PROVE UpdateInv'
  OBVIOUS
<1>0. TypeOK
  BY DEF UpdateInv
<1>1. /\ pc = "binary" /\ State = "businessRollbackCompleted"
      /\ Source' = Source /\ journal' \in Journals /\ mode' = mode
      /\ \/ State' = State /\ pc' = "normalize"
         \/ State' \in {State, "rollbackPackageRequired"} /\ pc' = "startFailed"
  BY <1>0, JournalIs, JournalTo, JournalKept
     DEF FindPackage, UpdateInv, Process, StartFacts, States, LeftToPerson
<1>2. UNCHANGED <<accepted, chain, cache, restore, installed, installer>>
  BY DEF FindPackage, system, disk
<1>3. TypeOK' /\ mode' \in Modes
  BY <1>0, <1>1, <1>2 DEF UpdateInv, TypeOK, Modes
<1>4. Disk'
  BY <1>0, <1>1, <1>2, TargetIs, CacheKept
     DEF UpdateInv, Disk, DecidedDisk, TrialDisk, RollbackDisk, InstallerFacts,
         BeforeHandoff, GoingBack, Replaceable
<1>5. Process'
  BY <1>0, <1>1, <1>2
     DEF UpdateInv, Process, ServingFacts, StartFacts, TrialFacts, FailureFacts
<1>6. QED
  BY <1>3, <1>4, <1>5 DEF UpdateInv

(* No step of the normalization loses that package. *)
LEMMA NormalizeKeeps == UpdateInv /\ Normalize => UpdateInv'
<1> SUFFICES ASSUME UpdateInv, Normalize PROVE UpdateInv'
  OBVIOUS
<1>0. TypeOK
  BY DEF UpdateInv
<1>a. /\ pc = "normalize" /\ State = "businessRollbackCompleted" /\ mode' = mode
      /\ Source' = Source /\ journal' \in Journals
      /\ \/ State' = State /\ pc' = "normalize"
         \/ State' \in {State, "failedSafe"} /\ pc' = "startFailed"
  BY <1>0, JournalIs, JournalTo, JournalKept
     DEF Normalize, UpdateInv, Process, StartFacts, States, LeftToPerson
<1>b. cache' \in [Slots -> Packages \cup {None}] /\ HasSource'
  <2>1. HasSource /\ cache' \in {cache, Normalized}
    BY <1>a DEF Normalize, UpdateInv, Disk, RollbackDisk
  <2>2. CASE UNCHANGED cache
    BY <1>0, <1>a, <2>1, <2>2, CacheKept DEF TypeOK
  <2>3. CASE cache' = Normalized
    BY <1>0, <1>a, <2>1, <2>3, NormalizedKeeps
  <2>4. QED
    BY <2>1, <2>2, <2>3
<1>1. /\ pc = "normalize" /\ State = "businessRollbackCompleted" /\ mode' = mode
      /\ Source' = Source /\ journal' \in Journals
      /\ cache' \in [Slots -> Packages \cup {None}] /\ HasSource'
      /\ \/ State' = State /\ pc' = "normalize"
         \/ State' \in {State, "failedSafe"} /\ pc' = "startFailed"
  BY <1>a, <1>b
<1>2. UNCHANGED <<accepted, chain, restore, installed, installer>>
  BY DEF Normalize, system, disk
<1>3. TypeOK' /\ mode' \in Modes
  BY <1>0, <1>1, <1>2 DEF UpdateInv, TypeOK, Modes
<1>4. Disk'
  BY <1>0, <1>1, <1>2, TargetIs
     DEF UpdateInv, Disk, DecidedDisk, TrialDisk, RollbackDisk, InstallerFacts,
         BeforeHandoff, GoingBack, Replaceable
<1>5. Process'
  BY <1>0, <1>1, <1>2
     DEF UpdateInv, Process, ServingFacts, StartFacts, TrialFacts, FailureFacts
<1>6. QED
  BY <1>3, <1>4, <1>5 DEF UpdateInv

(* The binaries are prepared only from normalized packages. *)
LEMMA NormalizationKeeps == UpdateInv /\ Normalization => UpdateInv'
<1> SUFFICES ASSUME UpdateInv, Normalization PROVE UpdateInv'
  OBVIOUS
<1>0. TypeOK
  BY DEF UpdateInv
<1>1. /\ pc = "normalize" /\ State = "businessRollbackCompleted"
      /\ Source' = Source /\ journal' \in Journals /\ mode' = mode
      /\ \/ State' = "binaryRollbackPrepared" /\ Normal /\ pc' \in {"arming", "handbackFailed"}
         \/ State' = State /\ pc' = "handbackFailed"
         \/ State' \in {State, "failedSafe"} /\ pc' = "startFailed"
  BY <1>0, PutTo, MarkTo
     DEF Normalization, UpdateInv, Process, StartFacts, States, GoingBack, LeftToPerson
<1>2. UNCHANGED <<accepted, chain, cache, restore, installed, installer>>
  BY DEF Normalization, system, disk
<1>3. TypeOK' /\ mode' \in Modes
  BY <1>0, <1>1, <1>2 DEF UpdateInv, TypeOK, Modes
<1>4. Disk'
  BY <1>0, <1>1, <1>2, TargetIs, CacheKept
     DEF UpdateInv, Disk, DecidedDisk, TrialDisk, RollbackDisk, InstallerFacts,
         BeforeHandoff, GoingBack, Replaceable
<1>5. Process'
  BY <1>0, <1>1, <1>2, TargetIs
     DEF UpdateInv, Process, ServingFacts, StartFacts, TrialFacts, FailureFacts, Disk,
         TrialDisk
<1>6. QED
  BY <1>3, <1>4, <1>5 DEF UpdateInv

(* The handoff back is recorded before the installer runs. *)
LEMMA ArmKeeps == UpdateInv /\ Arm => UpdateInv'
<1> SUFFICES ASSUME UpdateInv, Arm PROVE UpdateInv'
  OBVIOUS
<1>0. TypeOK
  BY DEF UpdateInv
<1>1. /\ pc = "arming" /\ State = "binaryRollbackPrepared"
      /\ Source' = Source /\ journal' \in Journals /\ mode' = mode
      /\ \/ State' = "awaitingRollbackFirstStart" /\ pc' \in {"handback", "handbackFailed"}
         \/ State' = State /\ pc' = "handbackFailed"
  BY <1>0, PutTo DEF Arm, UpdateInv, Process, StartFacts, States, GoingBack
<1>2. UNCHANGED <<accepted, chain, cache, restore, installed, installer>>
  BY DEF Arm, system, disk
<1>3. TypeOK' /\ mode' \in Modes
  BY <1>0, <1>1, <1>2 DEF UpdateInv, TypeOK, Modes
<1>4. Disk'
  BY <1>0, <1>1, <1>2, TargetIs, CacheKept
     DEF UpdateInv, Disk, DecidedDisk, TrialDisk, RollbackDisk, InstallerFacts,
         BeforeHandoff, GoingBack, Replaceable
<1>5. Process'
  BY <1>0, <1>1, <1>2, TargetIs
     DEF UpdateInv, Process, ServingFacts, StartFacts, TrialFacts, FailureFacts, Disk,
         TrialDisk
<1>6. QED
  BY <1>3, <1>4, <1>5 DEF UpdateInv

(* The installer gets the old build, over a profile with its migrations. *)
LEMMA HandBackKeeps == UpdateInv /\ HandBack => UpdateInv'
<1> SUFFICES ASSUME UpdateInv, HandBack PROVE UpdateInv'
  OBVIOUS
<1>0. TypeOK
  BY DEF UpdateInv
<1>1. /\ pc = "handback" /\ State = "awaitingRollbackFirstStart"
      /\ State' = State /\ Source' = Source /\ UNCHANGED <<journal, mode>>
      /\ \/ installer' = Source /\ pc' = "down"
         \/ UNCHANGED installer /\ pc' = "handbackFailed"
  BY JournalKept DEF HandBack, disk, UpdateInv, Process, StartFacts
<1>2. UNCHANGED <<accepted, chain, cache, restore, installed>>
  BY DEF HandBack, system, disk
<1>3. TypeOK' /\ mode' \in Modes
  BY <1>0, <1>1, <1>2, JournalIs DEF UpdateInv, TypeOK, Modes
<1>4. Disk'
  BY <1>0, <1>1, <1>2, TargetIs, CacheKept, SettledKept
     DEF UpdateInv, Disk, DecidedDisk, TrialDisk, RollbackDisk, InstallerFacts, Process,
         StartFacts
<1>5. Process'
  BY <1>0, <1>1, <1>2, TargetIs
     DEF UpdateInv, Process, ServingFacts, StartFacts, TrialFacts, FailureFacts
<1>6. QED
  BY <1>3, <1>4, <1>5 DEF UpdateInv

(* A failed handoff back is left to a person. *)
LEMMA HandBackFailedKeeps == UpdateInv /\ HandBackFailed => UpdateInv'
<1> SUFFICES ASSUME UpdateInv, HandBackFailed PROVE UpdateInv'
  OBVIOUS
<1>0. TypeOK
  BY DEF UpdateInv
<1>1. /\ pc = "handbackFailed" /\ State \in {"businessRollbackCompleted", "binaryRollbackPrepared",
                                             "awaitingRollbackFirstStart"}
      /\ Source' = Source /\ journal' \in Journals /\ mode' = mode
      /\ State' \in {State, "failedSafe"} /\ pc' = "startFailed"
  BY <1>0, MarkTo DEF HandBackFailed, UpdateInv, Process, StartFacts, States, LeftToPerson
<1>2. UNCHANGED <<accepted, chain, cache, restore, installed, installer>>
  BY DEF HandBackFailed, system, disk
<1>3. TypeOK' /\ mode' \in Modes
  BY <1>0, <1>1, <1>2 DEF UpdateInv, TypeOK, Modes
<1>4. Disk'
  BY <1>0, <1>1, <1>2, TargetIs, CacheKept
     DEF UpdateInv, Disk, DecidedDisk, TrialDisk, RollbackDisk, InstallerFacts, Process,
         StartFacts, BeforeHandoff, GoingBack, Replaceable
<1>5. Process'
  BY <1>0, <1>1, <1>2
     DEF UpdateInv, Process, ServingFacts, StartFacts, TrialFacts, FailureFacts
<1>6. QED
  BY <1>3, <1>4, <1>5 DEF UpdateInv

----------------------------------------------------------------------------
(* The gate and the migrations.                                             *)

(* Each mode of the start comes with the journal it was chosen for. *)
LEMMA GateKeeps == UpdateInv /\ Gate => UpdateInv'
<1> SUFFICES ASSUME UpdateInv, Gate PROVE UpdateInv'
  OBVIOUS
<1>0. TypeOK
  BY DEF UpdateInv
<1>1. /\ pc = "gate" /\ Source' = Source /\ journal' \in Journals \cup {NoJournal}
      /\ \/ /\ State \in {"binaryRollbackPrepared", "awaitingRollbackFirstStart"}
            /\ State' \in {State, "recoveryRequired"} /\ mode' = mode /\ pc' = "startFailed"
         \/ /\ State \in {"none", "accepted"} /\ State' = State /\ mode' = mode
            /\ pc' \in {"migrate", "startFailed"}
         \/ /\ State \in FirstStart /\ installed = Target /\ State' = "firstStartValidating"
            /\ mode' = "coordinated" /\ pc' = "protect"
         \/ /\ State \in FirstStart /\ installed = Target
            /\ State' \in {State, "firstStartValidating"}
            /\ mode' = mode /\ pc' = "gateFailed"
         \/ State' = State /\ mode' = mode /\ pc' = "startFailed"
         \/ /\ State = "awaitingRollbackFirstStart" /\ installed = Source /\ State' = State
            /\ mode' = "rollback" /\ pc' = "tidy"
         \/ /\ State \in {"awaitingFirstStart", "failed"} /\ installed = Source /\ State' = State
            /\ mode' = "installerNotApplied" /\ pc' = "migrate"
         \/ /\ State \notin {"none", "awaitingRollbackFirstStart"} /\ State' = "failedSafe"
            /\ mode' = mode /\ pc' = "startFailed"
  BY <1>0, JournalIs, JournalTo, JournalKept, PutTo, MarkTo
     DEF Gate, NotHandedBack, IsNotApplied, MarksFailedSafe, States, FirstStart,
         LeftToPerson
<1>2. UNCHANGED <<accepted, chain, cache, restore, installed, installer>>
  BY DEF Gate, system, disk
<1>3. TypeOK' /\ mode' \in Modes
  BY <1>0, <1>1, <1>2 DEF UpdateInv, TypeOK, Modes
<1>4. Disk'
  BY <1>0, <1>1, <1>2, JournalIs, TargetIs, CacheKept, SettledKept, PackagesTell,
     AdmissibleTells
     DEF UpdateInv, Disk, DecidedDisk, TrialDisk, RollbackDisk, InstallerFacts,
         BetweenChains, Process, StartFacts, Build, BeforeHandoff, FirstStart, GoingBack,
         LeftToPerson, Replaceable, Whole
<1>5. Process'
  BY <1>0, <1>1, <1>2, TargetIs, AdmissibleTells
     DEF UpdateInv, Process, ServingFacts, StartFacts, TrialFacts, FailureFacts, FirstStart
<1>6. QED
  BY <1>3, <1>4, <1>5 DEF UpdateInv

(* The recovery point of the migrations changes no record. *)
LEMMA ProtectKeeps == UpdateInv /\ Protect => UpdateInv'
<1> SUFFICES ASSUME UpdateInv, Protect PROVE UpdateInv'
  OBVIOUS
<1>0. TypeOK
  BY DEF UpdateInv
<1>1. UNCHANGED <<system, disk>>
  BY DEF Protect
<1>2. TypeOK' /\ Disk' /\ State' = State /\ Source' = Source
  BY <1>1, DiskKept
<1>3. mode' \in Modes /\ Process'
  BY <1>0, <1>1, <1>2
     DEF Protect, UpdateInv, Process, ServingFacts, StartFacts, TrialFacts, FailureFacts,
         Disk, TrialDisk, disk, FirstStart
<1>4. QED
  BY <1>2, <1>3 DEF UpdateInv

(* A refused first start still has its packages. *)
LEMMA GateFailedKeeps == UpdateInv /\ GateFailed => UpdateInv'
<1> SUFFICES ASSUME UpdateInv, GateFailed PROVE UpdateInv'
  OBVIOUS
<1>0. TypeOK
  BY DEF UpdateInv
<1>1. /\ pc = "gateFailed" /\ State \in FirstStart
      /\ Source' = Source /\ journal' \in Journals /\ mode' = mode
      /\ State' \in {State, "rollbackRequired"} /\ pc' = "startFailed"
  BY <1>0, MarkTo
     DEF GateFailed, UpdateInv, Process, StartFacts, States, FirstStart, GoingBack
<1>2. UNCHANGED <<accepted, chain, cache, restore, installed, installer>>
  BY DEF GateFailed, system, disk
<1>3. TypeOK' /\ mode' \in Modes
  BY <1>0, <1>1, <1>2 DEF UpdateInv, TypeOK, Modes
<1>4. Disk'
  BY <1>0, <1>1, <1>2, JournalIs, TargetIs, CacheKept, PackagesTell
     DEF UpdateInv, Disk, DecidedDisk, TrialDisk, RollbackDisk, InstallerFacts,
         BetweenChains, Process, StartFacts, Build, BeforeHandoff, FirstStart, Replaceable,
         Whole
<1>5. Process'
  BY <1>0, <1>1, <1>2, TargetIs
     DEF UpdateInv, Process, ServingFacts, StartFacts, TrialFacts, FailureFacts, Disk,
         TrialDisk, InstallerFacts, FirstStart
<1>6. QED
  BY <1>3, <1>4, <1>5 DEF UpdateInv

(* The new build has normalized the packages already. *)
LEMMA TidyKeeps == UpdateInv /\ Tidy => UpdateInv'
<1> SUFFICES ASSUME UpdateInv, Tidy PROVE UpdateInv'
  OBVIOUS
<1>0. TypeOK
  BY DEF UpdateInv
<1>1. /\ pc = "tidy" /\ State = "awaitingRollbackFirstStart"
      /\ Source' = Source /\ journal' \in Journals /\ mode' = mode
      /\ \/ State' = State /\ pc' = "migrate"
         \/ State' \in {State, "recoveryRequired"} /\ pc' = "startFailed"
  BY <1>0, JournalIs, JournalTo, JournalKept
     DEF Tidy, UpdateInv, Process, TrialFacts, States, LeftToPerson
<1>2. UNCHANGED <<accepted, chain, cache, restore, installed, installer>>
  BY DEF Tidy, system, disk
<1>3. TypeOK' /\ mode' \in Modes
  BY <1>0, <1>1, <1>2 DEF UpdateInv, TypeOK, Modes
<1>4. Disk'
  BY <1>0, <1>1, <1>2, TargetIs, CacheKept
     DEF UpdateInv, Disk, DecidedDisk, TrialDisk, RollbackDisk, InstallerFacts,
         BeforeHandoff, GoingBack, Replaceable
<1>5. Process'
  BY <1>0, <1>1, <1>2
     DEF UpdateInv, Process, ServingFacts, StartFacts, TrialFacts, FailureFacts
<1>6. QED
  BY <1>3, <1>4, <1>5 DEF UpdateInv

(* Only the new build on trial ever migrates. *)
LEMMA MigrateKeeps == UpdateInv /\ Migrate => UpdateInv'
<1> SUFFICES ASSUME UpdateInv, Migrate PROVE UpdateInv'
  OBVIOUS
<1>0. TypeOK
  BY DEF UpdateInv
<1>a. pc = "migrate" /\ chain < Whole(installed) => mode = "coordinated"
  BY <1>0, SettledFrom
     DEF UpdateInv, Modes, TypeOK, Process, TrialFacts, Disk, DecidedDisk, TrialDisk,
         RollbackDisk, Replaceable
<1>1. /\ pc = "migrate" /\ UNCHANGED <<journal, mode>> /\ State' = State /\ Source' = Source
      /\ \/ chain < Whole(installed) /\ chain' = chain + 1 /\ pc' = pc /\ mode = "coordinated"
         \/ UNCHANGED chain /\ chain = Whole(installed) /\ pc' = "validate"
         \/ UNCHANGED chain /\ pc' = "startFailed"
  BY <1>a, JournalKept DEF Migrate
<1>2. UNCHANGED <<accepted, cache, restore, installed, installer>>
  BY DEF Migrate, system, disk
<1>3. TypeOK' /\ mode' \in Modes
  BY <1>0, <1>1, <1>2, BoundsAssumption DEF UpdateInv, TypeOK, Modes, Build, Whole
<1>4. Disk'
  BY <1>0, <1>1, <1>2, TargetIs, CacheKept, SettledKept
     DEF UpdateInv, Disk, DecidedDisk, TrialDisk, RollbackDisk, InstallerFacts,
         BetweenChains, Process, TrialFacts, TypeOK, Build, BeforeHandoff, Replaceable,
         Whole
<1>5. Process'
  BY <1>0, <1>1, <1>2, TargetIs
     DEF UpdateInv, Process, ServingFacts, StartFacts, TrialFacts, FailureFacts, Disk,
         TrialDisk
<1>6. QED
  BY <1>3, <1>4, <1>5 DEF UpdateInv

----------------------------------------------------------------------------
(* The acceptance.                                                          *)

(* The mode tells the first step of the acceptance. *)
LEMMA ValidateKeeps == UpdateInv /\ Validate => UpdateInv'
<1> SUFFICES ASSUME UpdateInv, Validate PROVE UpdateInv'
  OBVIOUS
<1>0. TypeOK
  BY DEF UpdateInv
<1>1. UNCHANGED <<system, disk>>
  BY DEF Validate
<1>2. TypeOK' /\ Disk' /\ State' = State /\ Source' = Source
  BY <1>1, DiskKept
<1>3. mode' \in Modes /\ Process'
  BY <1>0, <1>1, <1>2
     DEF Validate, Modes, UpdateInv, Process, ServingFacts, StartFacts, TrialFacts,
         FailureFacts, Disk, DecidedDisk, TrialDisk, system, disk, Replaceable
<1>4. QED
  BY <1>2, <1>3 DEF UpdateInv

(* No step of the promotion loses the old package. *)
LEMMA PromoteKeeps == UpdateInv /\ Promote => UpdateInv'
<1> SUFFICES ASSUME UpdateInv, Promote PROVE UpdateInv'
  OBVIOUS
<1>0. TypeOK
  BY DEF UpdateInv
<1>a. /\ pc = "promote" /\ UNCHANGED <<journal, mode>> /\ State' = State /\ Source' = Source
      /\ State = "firstStartValidating" /\ Promoting /\ cache' \in {cache, Promoted}
  BY JournalKept DEF Promote, UpdateInv, Process, TrialFacts, Disk, TrialDisk
<1>b. cache' \in [Slots -> Packages \cup {None}] /\ Promoting'
  <2>1. CASE UNCHANGED cache
    BY <1>0, <1>a, <2>1, CacheKept DEF TypeOK
  <2>2. CASE cache' = Promoted
    BY <1>0, <1>a, <2>2, PromotedKeeps
  <2>3. QED
    BY <1>a, <2>1, <2>2
<1>1. /\ pc = "promote" /\ UNCHANGED <<journal, mode>> /\ State' = State /\ Source' = Source
      /\ State = "firstStartValidating"
      /\ cache' \in [Slots -> Packages \cup {None}] /\ Promoting'
      /\ \/ Rotated' /\ pc' = "publish"
         \/ pc' \in {"promote", "acceptFailed"}
  BY <1>a, <1>b, CacheKept DEF Promote
<1>2. UNCHANGED <<accepted, chain, restore, installed, installer>>
  BY DEF Promote, system, disk
<1>3. TypeOK' /\ mode' \in Modes
  BY <1>0, <1>1, <1>2 DEF UpdateInv, TypeOK, Modes
<1>4. Disk'
  BY <1>0, <1>1, <1>2, TargetIs
     DEF UpdateInv, Disk, DecidedDisk, TrialDisk, RollbackDisk, InstallerFacts,
         BetweenChains, BeforeHandoff, Replaceable
<1>5. Process'
  BY <1>0, <1>1, <1>2, TargetIs
     DEF UpdateInv, Process, ServingFacts, StartFacts, TrialFacts, FailureFacts, Disk,
         TrialDisk
<1>6. QED
  BY <1>3, <1>4, <1>5 DEF UpdateInv

(* The new build is accepted on its migrations, with the old package kept. *)
LEMMA PublishKeeps == UpdateInv /\ Publish => UpdateInv'
<1> SUFFICES ASSUME UpdateInv, Publish PROVE UpdateInv'
  OBVIOUS
<1>0. TypeOK
  BY DEF UpdateInv
<1>1. /\ pc = "publish" /\ UNCHANGED <<journal, mode>> /\ State' = State /\ Source' = Source
      /\ State \in {"firstStartValidating", "awaitingRollbackFirstStart"}
      /\ State = "awaitingRollbackFirstStart" => UNCHANGED accepted
      /\ \/ accepted' = installed /\ pc' = "record"
         \/ accepted' \in {accepted, installed} /\ pc' = "acceptFailed"
  BY JournalKept DEF Publish, UpdateInv, Process, TrialFacts, Disk, RollbackDisk, GoingBack
<1>2. UNCHANGED <<cache, chain, restore, installed, installer>>
  BY DEF Publish, system, disk
<1>3. TypeOK' /\ mode' \in Modes
  BY <1>0, <1>1, <1>2 DEF UpdateInv, TypeOK, Modes
<1>4. Disk'
  BY <1>0, <1>1, <1>2, TargetIs, CacheKept
     DEF UpdateInv, Disk, DecidedDisk, TrialDisk, RollbackDisk, InstallerFacts,
         BetweenChains, BeforeHandoff, GoingBack, Replaceable
<1>5. Process'
  BY <1>0, <1>1, <1>2, TargetIs, CacheKept
     DEF UpdateInv, Process, ServingFacts, StartFacts, TrialFacts, FailureFacts, Disk,
         TrialDisk
<1>6. QED
  BY <1>3, <1>4, <1>5 DEF UpdateInv

(* A closed journal finds the disk settled on the build it names. *)
LEMMA RecordKeeps == UpdateInv /\ Record => UpdateInv'
<1> SUFFICES ASSUME UpdateInv, Record PROVE UpdateInv'
  OBVIOUS
<1>0. TypeOK
  BY DEF UpdateInv
<1>a. /\ pc = "record"
      /\ \/ mode = "coordinated" /\ State = "firstStartValidating" /\ Verdict = "accepted"
         \/ mode = "rollback" /\ State = "awaitingRollbackFirstStart" /\ Verdict = "rolledBack"
         \/ /\ mode = "installerNotApplied" /\ State \in {"awaitingFirstStart", "failed"}
            /\ Verdict = "installerNotApplied"
  BY DEF Record, UpdateInv, Modes, Process, TrialFacts, Verdict
<1>b. /\ Source' = Source /\ journal' \in Journals
      /\ \/ State' = Verdict /\ pc' = "serving" /\ mode' = mode
         \/ State' = Verdict /\ pc' = "refused" /\ mode' = "normal"
         \/ State' \in {State, Verdict} /\ pc' = "acceptFailed" /\ mode' = mode
  <2>1. State # "none" /\ Verdict \in States
    BY <1>a DEF States, Replaceable
  <2>2. CASE Put(To(Verdict), "serving", "acceptFailed") /\ UNCHANGED mode
    BY <1>0, <2>1, <2>2, PutTo
  <2>3. CASE journal' = To(Verdict) /\ pc' = "refused" /\ mode' = "normal"
    BY <1>0, <2>1, <2>3, JournalTo
  <2>4. QED
    BY <2>2, <2>3 DEF Record
<1>1. /\ pc = "record" /\ Source' = Source /\ journal' \in Journals
      /\ \/ mode = "coordinated" /\ State = "firstStartValidating" /\ State' \in {State, "accepted"}
         \/ mode = "rollback" /\ State = "awaitingRollbackFirstStart" /\ State' \in {State, "rolledBack"}
         \/ /\ mode = "installerNotApplied" /\ State \in {"awaitingFirstStart", "failed"}
            /\ State' \in {State, "installerNotApplied"}
      /\ \/ State' \in Replaceable /\ pc' = "serving" /\ mode' = mode
         \/ State' \in Replaceable /\ pc' = "refused" /\ mode' = "normal"
         \/ pc' = "acceptFailed" /\ mode' = mode
  BY <1>a, <1>b DEF Replaceable
<1>2. UNCHANGED <<accepted, chain, cache, restore, installed, installer>>
  BY DEF Record, system, disk
<1>3. TypeOK' /\ mode' \in Modes
  BY <1>0, <1>1, <1>2 DEF UpdateInv, TypeOK, Modes
<1>4. Disk'
  BY <1>0, <1>1, <1>2, TargetIs, CacheKept, SettledKept, SettledFrom, NormalTells,
     BoundsAssumption
     DEF UpdateInv, Disk, DecidedDisk, TrialDisk, RollbackDisk, InstallerFacts,
         BetweenChains, Process, TrialFacts, GoingBack, Replaceable
<1>5. Process'
  BY <1>0, <1>1, <1>2, TargetIs
     DEF UpdateInv, Process, ServingFacts, StartFacts, TrialFacts, FailureFacts, Disk,
         TrialDisk
<1>6. QED
  BY <1>3, <1>4, <1>5 DEF UpdateInv

(* A failed acceptance leaves the update with its way back. *)
LEMMA AcceptFailedKeeps == UpdateInv /\ AcceptFailed => UpdateInv'
<1> SUFFICES ASSUME UpdateInv, AcceptFailed PROVE UpdateInv'
  OBVIOUS
<1>0. TypeOK
  BY DEF UpdateInv
<1>a. /\ pc = "acceptFailed" /\ pc' = "startFailed" /\ mode' = mode /\ State # "none"
      /\ \/ mode = "coordinated" /\ Mark("rollbackRequired")
         \/ mode = "rollback" /\ Mark("recoveryRequired")
         \/ mode = "installerNotApplied" /\ Mark("failedSafe")
  BY DEF AcceptFailed, UpdateInv, Modes, Process, TrialFacts, FailureFacts
<1>1. /\ pc = "acceptFailed" /\ pc' = "startFailed" /\ mode' = mode
      /\ Source' = Source /\ journal' \in Journals
      /\ \/ mode = "coordinated" /\ State' \in {State, "rollbackRequired"}
         \/ mode = "rollback" /\ State' \in {State, "recoveryRequired"}
         \/ mode = "installerNotApplied" /\ State' \in {State, "failedSafe"}
  BY <1>0, <1>a, MarkTo
     DEF States, BeforeHandoff, FirstStart, GoingBack, LeftToPerson, Replaceable
<1>2. UNCHANGED <<accepted, chain, cache, restore, installed, installer>>
  BY DEF AcceptFailed, system, disk
<1>3. TypeOK' /\ mode' \in Modes
  BY <1>0, <1>1, <1>2 DEF UpdateInv, TypeOK, Modes
<1>4. Disk'
  BY <1>0, <1>1, <1>2, JournalIs, TargetIs, CacheKept, SettledKept, PackagesTell,
     SettledFrom
     DEF UpdateInv, Disk, DecidedDisk, TrialDisk, RollbackDisk, InstallerFacts,
         BetweenChains, Process, FailureFacts, Build, BeforeHandoff, GoingBack, Replaceable,
         Whole
<1>5. Process'
  BY <1>0, <1>1, <1>2, TargetIs
     DEF UpdateInv, Process, ServingFacts, StartFacts, TrialFacts, FailureFacts
<1>6. QED
  BY <1>3, <1>4, <1>5 DEF UpdateInv

(* So does a failed start. *)
LEMMA StartFailedKeeps == UpdateInv /\ StartFailed => UpdateInv'
<1> SUFFICES ASSUME UpdateInv, StartFailed PROVE UpdateInv'
  OBVIOUS
<1>0. TypeOK
  BY DEF UpdateInv
<1>a. /\ pc = "startFailed" /\ pc' \in {"admit", "refused"} /\ mode' = "normal"
      /\ \/ mode = "coordinated" /\ State # "none" /\ Mark("rollbackRequired")
         \/ mode = "rollback" /\ State # "none" /\ Mark("recoveryRequired")
         \/ UNCHANGED journal
  BY DEF StartFailed, UpdateInv, Process, FailureFacts
<1>1. /\ pc = "startFailed" /\ pc' \in {"admit", "refused"} /\ mode' = "normal"
      /\ Source' = Source /\ journal' \in Journals \cup {NoJournal}
      /\ \/ mode = "coordinated" /\ State' \in {State, "rollbackRequired"}
         \/ mode = "rollback" /\ State' \in {State, "recoveryRequired"}
         \/ UNCHANGED journal /\ State' = State
  BY <1>0, <1>a, MarkTo, JournalKept DEF TypeOK, States, GoingBack, LeftToPerson
<1>2. UNCHANGED <<accepted, chain, cache, restore, installed, installer>>
  BY DEF StartFailed, system, disk
<1>3. TypeOK' /\ mode' \in Modes
  BY <1>0, <1>1, <1>2 DEF UpdateInv, TypeOK, Modes
<1>4. Disk'
  BY <1>0, <1>1, <1>2, JournalIs, TargetIs, CacheKept, SettledKept, PackagesTell,
     SettledFrom
     DEF UpdateInv, Disk, DecidedDisk, TrialDisk, RollbackDisk, InstallerFacts,
         BetweenChains, Process, FailureFacts, Build, BeforeHandoff, GoingBack, Replaceable,
         Whole
<1>5. Process'
  BY <1>0, <1>1, <1>2
     DEF UpdateInv, Process, ServingFacts, StartFacts, TrialFacts, FailureFacts
<1>6. QED
  BY <1>3, <1>4, <1>5 DEF UpdateInv

----------------------------------------------------------------------------
(* What happens around the process.                                         *)

(* A closed application keeps its records. *)
LEMMA CloseKeeps == UpdateInv /\ Close => UpdateInv'
<1> SUFFICES ASSUME UpdateInv, Close PROVE UpdateInv'
  OBVIOUS
<1>0. TypeOK
  BY DEF UpdateInv
<1>1. UNCHANGED <<system, disk>>
  BY DEF Close
<1>2. TypeOK' /\ Disk' /\ State' = State /\ Source' = Source
  BY <1>1, DiskKept
<1>3. mode' \in Modes /\ Process'
  BY <1>0, <1>1, <1>2
     DEF Close, UpdateInv, Process, ServingFacts, StartFacts, TrialFacts, FailureFacts
<1>4. QED
  BY <1>2, <1>3 DEF UpdateInv

(* So does one that died. *)
LEMMA CrashKeeps == UpdateInv /\ Crash => UpdateInv'
<1> SUFFICES ASSUME UpdateInv, Crash PROVE UpdateInv'
  OBVIOUS
<1>0. TypeOK
  BY DEF UpdateInv
<1>1. UNCHANGED <<system, disk>>
  BY DEF Crash
<1>2. TypeOK' /\ Disk' /\ State' = State /\ Source' = Source
  BY <1>1, DiskKept
<1>3. mode' \in Modes /\ Process'
  BY <1>0, <1>1, <1>2
     DEF Crash, UpdateInv, Process, ServingFacts, StartFacts, TrialFacts, FailureFacts
<1>4. QED
  BY <1>2, <1>3 DEF UpdateInv

(* An installer changes the installed build while the application is down. *)
LEMMA InstallKeeps == UpdateInv /\ Install => UpdateInv'
<1> SUFFICES ASSUME UpdateInv, Install PROVE UpdateInv'
  OBVIOUS
<1>0. TypeOK
  BY DEF UpdateInv
<1>a. ASSUME installed' = installer, UNCHANGED <<cache, accepted, chain>>,
             installer = accepted + 1, Settled
      PROVE  Settled'
  BY <1>a DEF Settled, Holds
<1>1. /\ UNCHANGED <<journal, pc, mode>> /\ State' = State /\ Source' = Source
      /\ installer # None /\ installer' = None
      /\ \/ pc = "down" /\ installed' = installer
         \/ UNCHANGED installed
  BY JournalKept DEF Install, disk
<1>2. UNCHANGED <<accepted, chain, cache, restore>>
  BY DEF Install, system, disk
<1>3. TypeOK' /\ mode' \in Modes
  BY <1>0, <1>1, <1>2 DEF UpdateInv, TypeOK, Modes
<1>4. Disk'
  BY <1>0, <1>1, <1>2, TargetIs, CacheKept, SettledKept, <1>a
     DEF UpdateInv, Disk, DecidedDisk, TrialDisk, RollbackDisk, InstallerFacts,
         BeforeHandoff, GoingBack, Replaceable
<1>5. Process'
  BY <1>0, <1>1, <1>2, TargetIs, AdmissibleKept
     DEF UpdateInv, Process, ServingFacts, StartFacts, TrialFacts, FailureFacts, Disk,
         TrialDisk
<1>6. QED
  BY <1>3, <1>4, <1>5 DEF UpdateInv

----------------------------------------------------------------------------
(* The theorems.                                                            *)

(* The first installation is settled. *)
LEMMA InitInv == Init => UpdateInv
<1> SUFFICES ASSUME Init PROVE UpdateInv
  OBVIOUS
<1>1. State = "none" /\ pc = "down" /\ mode = "normal" /\ restore = "none" /\ installer = None
  BY DEF Init, State
<1>2. [build |-> 0, role |-> "current"] \in Packages /\ 0 \in Build
  BY BoundsAssumption DEF Packages, Build
<1>3. TypeOK
  BY <1>2, BoundsAssumption DEF Init, TypeOK, Whole, Slots
<1>4. Settled
  <2>1. cache["current"] = [build |-> 0, role |-> "current"] /\ cache["current"] # None
    BY <1>2, BoundsAssumption DEF Init, Slots
  <2>2. QED
    BY <2>1 DEF Init, Settled, Holds, Whole
<1>5. QED
  BY <1>1, <1>3, <1>4
     DEF UpdateInv, Modes, ServingFacts, StartFacts, TrialFacts, FailureFacts, Process,
         Disk, DecidedDisk, TrialDisk, RollbackDisk, InstallerFacts, BeforeHandoff,
         GoingBack, LeftToPerson, Replaceable

(* Every step keeps the invariant. *)
LEMMA NextInv == UpdateInv /\ [Next]_vars => UpdateInv'
<1> SUFFICES ASSUME UpdateInv, [Next]_vars PROVE UpdateInv'
  OBVIOUS
<1>1. CASE Next
  BY <1>1, StageKeeps, DiscardKeeps, ConfirmKeeps, PrepareKeeps, TakePointKeeps,
     HandoffKeeps, StopRuntimeKeeps, AwaitKeeps, LaunchKeeps, AbortKeeps, StartKeeps,
     AdmitKeeps, FailEarlyKeeps, InspectKeeps, StartRollbackKeeps, StageRestoreKeeps,
     RestoreKeeps, RestoreRejectedKeeps, CompleteRollbackKeeps, FindPackageKeeps,
     NormalizeKeeps, NormalizationKeeps, ArmKeeps, HandBackKeeps, HandBackFailedKeeps,
     GateKeeps, ProtectKeeps, GateFailedKeeps, TidyKeeps, MigrateKeeps, ValidateKeeps,
     PromoteKeeps, PublishKeeps, RecordKeeps, AcceptFailedKeeps, StartFailedKeeps,
     CloseKeeps, CrashKeeps, InstallKeeps
     DEF Next, Running, Starting
<1>2. CASE UNCHANGED vars
  <2>1. UNCHANGED <<system, disk>> /\ UNCHANGED <<pc, mode>>
    BY <1>2 DEF vars, system, disk
  <2>2. TypeOK' /\ Disk' /\ State' = State /\ Source' = Source
    BY <2>1, DiskKept
  <2>3. mode' \in Modes /\ Process'
    BY <2>1, <2>2, CacheKept, AdmissibleKept, TargetIs
       DEF UpdateInv, Process, ServingFacts, StartFacts, TrialFacts, FailureFacts, system,
           disk
  <2>4. QED
    BY <2>2, <2>3 DEF UpdateInv
<1>3. QED
  BY <1>1, <1>2

(* What lies on the disk fits the state of the update journal, and the      *)
(* process where it is, after every step, throw, death and installation.    *)
THEOREM Invariance == Spec => []UpdateInv
<1>1. QED
  BY InitInv, NextInv, PTL DEF Spec

(* Only the accepted build serves the user, on a profile with exactly its   *)
(* own migrations and with no update undecided (acceptAfterBackendReady,    *)
(* classifyPreWorkspaceBuildAdmission).                                     *)
THEOREM OnlyAcceptedServes == Spec => []ServesAccepted
<1>1. UpdateInv => ServesAccepted
  BY SettledFrom
     DEF UpdateInv, Process, ServingFacts, Disk, DecidedDisk, ServesAccepted, BeforeHandoff,
         FirstStart, GoingBack, LeftToPerson, Replaceable
<1>2. QED
  BY <1>1, Invariance, PTL

(* From the handoff to the decision the package to go back to is in the     *)
(* cache, and the old build is installed only over a profile that is back   *)
(* at its own migrations (promoteAcceptedCandidate,                         *)
(* normalizeRolledBackPackages, completeAfterProfileValidation).            *)
THEOREM WayBackStaysOpen == Spec => []RollbackKeeps
<1>1. ASSUME UpdateInv, journal # NoJournal
      PROVE  /\ State \in FirstStart \cup GoingBack => HasSource
             /\ State \in {"businessRollbackCompleted", "binaryRollbackPrepared",
                           "awaitingRollbackFirstStart", "rolledBack"} => chain = Whole(Source)
             /\ installer = Source => chain = Whole(Source)
  <2>1. TypeOK /\ State # "none" /\ Source \in Build /\ accepted \in Build
    BY <1>1, JournalIs DEF UpdateInv, TypeOK
  <2>2. State \in FirstStart \cup GoingBack => HasSource
    BY <1>1, <2>1, PackagesTell, NormalTells
       DEF UpdateInv, Disk, TrialDisk, RollbackDisk, FirstStart, GoingBack
  <2>3. State \in {"businessRollbackCompleted", "binaryRollbackPrepared",
                   "awaitingRollbackFirstStart", "rolledBack"} => chain = Whole(Source)
    BY <1>1, SettledFrom DEF UpdateInv, Disk, DecidedDisk, RollbackDisk, Replaceable
  <2>4. installer = Source => chain = Whole(Source)
    BY <1>1, <2>1, BoundsAssumption, JournalIs, TargetIs
       DEF UpdateInv, Disk, DecidedDisk, TrialDisk, RollbackDisk, InstallerFacts, Build,
           States, FirstStart
  <2>5. QED
    BY <2>2, <2>3, <2>4
<1>2. UpdateInv => RollbackKeeps
  BY <1>1 DEF RollbackKeeps
<1>3. QED
  BY <1>2, Invariance, PTL
=============================================================================
