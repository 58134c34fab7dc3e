--------------------------- MODULE ProfileRestore ---------------------------
(***************************************************************************)
(* Activation of a restored profile: the transaction that swaps the        *)
(* database and the documents of the active profile for the staged ones    *)
(* (profileRestoreActivationTransaction.ts), the journal it is driven by   *)
(* (profileRestoreActivationJournalStore.ts), the service that runs it     *)
(* beside a live backend (profileRestoreActivationService.ts) and the      *)
(* recovery every start runs before and after it opens the backend         *)
(* (profileRestoreStartupRecovery.ts).                                     *)
(*                                                                         *)
(* Each rename and each step of a journal write is one action, and the     *)
(* process may throw or die between any two.  Where the code decides what  *)
(* to do next from the journal and from which files are present, so does   *)
(* the model: there is no program counter inside the transaction.          *)
(***************************************************************************)
EXTENDS Integers, FiniteSets, Sequences, SequencesExt

CONSTANTS Operations,   \* how many restores are staged
          Crashes,      \* how many times the process dies
          Throws,       \* how many calls fail
          Originals     \* the sets of parts the first profile may consist of

Parts == {"db", "docs"}
None == "none"
Absent == -1            \* no file or directory in this place
Empty == "empty"        \* a journal file that is created and not yet written

ASSUME RestoreAssumption ==
    /\ Operations \in Nat /\ Crashes \in Nat /\ Throws \in Nat
    /\ Originals \subseteq {S \in SUBSET Parts : "db" \in S}

VARIABLES op,           \* the last operation staged; its content is numbered op
          base,         \* the content that was active when op was staged
          had,          \* the parts that content has (hadActiveDatabase, hadActiveDocuments)
          good,         \* whether the content of op passes validation
          active, rollback, staged, failed,  \* the four places of each part
          stagingAt,    \* where op's staging directory is
          rollbackRoot, failedRoot,          \* op's other two directories exist
          current, backup, next,             \* the three files of the journal
          goal,         \* the phase being written, None if none is
          pc, mode, backend,
          accepted,     \* op's acceptance was published
          crashes, throws

content == <<active, rollback, staged, failed, stagingAt, rollbackRoot, failedRoot>>
journal == <<current, backup, next, goal>>
choice == <<op, base, had, good>>
process == <<pc, mode, backend>>

\* mode: the live service, a start, or a start that rejected the restored profile
cold == mode # "live"
budget == <<crashes, throws>>
vars == <<choice, content, journal, process, accepted, budget>>

-----------------------------------------------------------------------------
(* The journal's phases and its three files.                               *)

Forward == <<"prepared", "movingCurrentDatabase", "currentDatabaseMoved",
             "movingCurrentDocuments", "currentDocumentsMoved",
             "activatingStagedDatabase", "stagedDatabaseActivated",
             "activatingStagedDocuments", "stagedDocumentsActivated",
             "validationStarting">>
IsForward(ph) == ph \in ToSet(Forward)
Phases == ToSet(Forward) \cup {"accepted", "rollbackStarting", "rolledBack", "failedSafe"}
Index(ph) == CHOOSE i \in 1..Len(Forward) : Forward[i] = ph

\* selectJournal: the first file that exists; Empty if that file cannot be read
Selected == CASE current # None -> current
              [] current = None /\ backup # None -> backup
              [] OTHER -> next
Clean == backup = None /\ next = None

\* read(): one removal or rename at a time, until only the current file is left
Repair ==
    /\ ~Clean /\ Selected \in Phases /\ goal = None
    /\ \/ current # None /\ next # None /\ next' = None /\ UNCHANGED <<current, backup>>
       \/ current # None /\ next = None /\ backup' = None /\ UNCHANGED <<current, next>>
       \/ current = None /\ backup # None /\ current' = backup /\ backup' = None /\ UNCHANGED next
       \/ current = None /\ backup = None /\ current' = next /\ next' = None /\ UNCHANGED backup
    /\ UNCHANGED <<goal, choice, content, process, accepted, budget>>

\* write(): create next, fill it, set the current file aside, promote next,
\* and once the promotion has been read back drop the predecessor
WriteJournal ==
    /\ goal # None
    /\ \/ Clean /\ current # goal /\ next' = Empty /\ UNCHANGED <<current, backup, goal>>
       \/ next = Empty /\ next' = goal /\ UNCHANGED <<current, backup, goal>>
       \/ next = goal /\ current # None /\ backup' = current /\ current' = None /\ UNCHANGED <<next, goal>>
       \/ next = goal /\ current = None /\ current' = goal /\ next' = None /\ UNCHANGED <<backup, goal>>
       \/ current = goal /\ next = None /\ backup' = None /\ goal' = None /\ UNCHANGED <<current, next>>
    /\ accepted' = (accepted \/ current' = "accepted")
    /\ UNCHANGED <<choice, content, process, budget>>

Write(ph) == goal' = ph /\ UNCHANGED <<current, backup, next>>
Idle == goal = None /\ Clean

-----------------------------------------------------------------------------
(* What the two censuses admit.                                            *)

\* readProfileRestoreForwardRecoverySlot
ForwardSlot(p, ph) ==
    LET here == active[p] # Absent
        kept == rollback[p] # Absent
        new == staged[p] # Absent
        was == p \in had
        moving == IF p = "db" THEN 2 ELSE 4
        activating == IF p = "db" THEN 6 ELSE 8
        i == Index(ph)
    IN  /\ i < moving => here = was /\ ~kept /\ new
        /\ i = moving => (IF was THEN here # kept ELSE ~here /\ ~kept) /\ new
        /\ moving < i /\ i < activating => ~here /\ kept = was /\ new
        /\ i = activating => here # new /\ kept = was
        /\ i > activating => here /\ ~new /\ kept = was

\* readForwardRecoverySources
ForwardAdmits(ph) == /\ stagingAt = "staging" /\ rollbackRoot /\ ~failedRoot
                     /\ \A p \in Parts : ForwardSlot(p, ph)

(* Mutant: the state before the first move of a rollback is forgotten. *)
RollbackSlotMovedOnly(p, done) ==
    LET here == active[p] # Absent
        kept == rollback[p] # Absent
    IN  /\ (staged[p] # Absent) # (failed[p] # Absent)
        /\ p \in had => here # kept
        /\ done => ~kept /\ here = (p \in had)

\* readProfileRestoreRollbackRecoverySlot
RollbackSlot(p, done) ==
    LET here == active[p] # Absent
        kept == rollback[p] # Absent
        new == staged[p] # Absent
        bad == failed[p] # Absent
    IN  /\ IF p \in had
           THEN \/ new # bad /\ here # kept
                \/ here /\ kept /\ ~new /\ ~bad
           ELSE /\ ~kept
                /\ \/ here /\ ~new /\ ~bad
                   \/ ~here /\ new /\ ~bad
                   \/ ~here /\ ~new /\ bad
        /\ done => ~kept /\ here = (p \in had)

\* readRollbackRecoverySources
RollbackAdmits(ph) ==
    LET aside == stagingAt = "failed"
    IN  /\ ph \in {"validationStarting", "rollbackStarting", "rolledBack"}
        /\ aside => failedRoot
        /\ ph # "rolledBack" => rollbackRoot
        /\ ph = "rolledBack" => aside
        /\ ph = "validationStarting" =>
              ~aside /\ \A p \in Parts : /\ active[p] # Absent /\ staged[p] = Absent /\ failed[p] = Absent
                                         /\ (rollback[p] # Absent) = (p \in had)
        /\ \A p \in Parts : RollbackSlot(p, aside \/ ph = "rolledBack")

-----------------------------------------------------------------------------
(* The live service.                                                       *)

OldProfile == [p \in Parts |-> IF p \in had THEN base ELSE Absent]
NewProfile == [p \in Parts |-> op]
NoPart == [p \in Parts |-> Absent]

\* stagePreparedRestore, then activate(): one operation at a time.  What the
\* previous operation left under its own identifier is never looked at again.
Stage ==
    /\ pc = "serving" /\ op < Operations
    /\ op' = op + 1
    /\ base' = active["db"]
    /\ had' = {p \in Parts : active[p] # Absent}
    /\ good' \in BOOLEAN
    /\ staged' = [p \in Parts |-> op + 1] /\ stagingAt' = "staging"
    /\ rollback' = NoPart /\ failed' = NoPart /\ rollbackRoot' = FALSE /\ failedRoot' = FALSE
    /\ accepted' = FALSE
    /\ pc' = "maintenance"
    /\ UNCHANGED <<active, journal, mode, backend, budget>>

\* prepare(): nothing may be pending, and the rollback directory comes before the journal
Prepare ==
    /\ pc = "maintenance" /\ Selected = None
    /\ rollbackRoot' = TRUE
    /\ Write("prepared")
    /\ pc' = "creating"
    /\ UNCHANGED <<choice, active, rollback, staged, failed, stagingAt, failedRoot, mode, backend, accepted, budget>>

\* readPreparation answers "prepared", and the backend is stopped
StopRuntime ==
    /\ pc = "creating" /\ Idle /\ current = "prepared"
    /\ backend' = "off" /\ mode' = "live" /\ pc' = "forward"
    /\ UNCHANGED <<choice, content, journal, accepted, budget>>

\* relaunchApplication
Relaunch ==
    /\ Idle
    /\ \/ pc = "forward" /\ mode = "live" /\ current = "validationStarting"
       \/ pc = "rollback" /\ mode # "start" /\ current = "rolledBack"
    /\ pc' = "off"
    /\ UNCHANGED <<choice, content, journal, mode, backend, accepted, budget>>

-----------------------------------------------------------------------------
(* The transaction: forward.                                               *)

\* the move an intent announces: moveCurrentDatabase, moveCurrentDocuments,
\* activateStagedDatabase, activateStagedDocuments
MoveAside(p) == /\ p \in had /\ active[p] # Absent /\ rollback[p] = Absent
                /\ rollback' = [rollback EXCEPT ![p] = active[p]]
                /\ active' = [active EXCEPT ![p] = Absent]
                /\ UNCHANGED staged
Activate(p) == /\ staged[p] # Absent /\ active[p] = Absent
               /\ active' = [active EXCEPT ![p] = staged[p]]
               /\ staged' = [staged EXCEPT ![p] = Absent]
               /\ UNCHANGED rollback

Move(ph) == \/ ph = "movingCurrentDatabase" /\ MoveAside("db")
            \/ ph = "movingCurrentDocuments" /\ MoveAside("docs")
            \/ ph = "activatingStagedDatabase" /\ Activate("db")
            \/ ph = "activatingStagedDocuments" /\ Activate("docs")

\* the move of an intent is in place, so that repeating it does nothing
Moved(ph) == CASE ph = "movingCurrentDatabase" -> active["db"] = Absent
               [] ph = "movingCurrentDocuments" -> active["docs"] = Absent
               [] ph = "activatingStagedDatabase" -> staged["db"] = Absent
               [] ph = "activatingStagedDocuments" -> staged["docs"] = Absent
               [] OTHER -> TRUE

\* advanceToValidation
Advance ==
    /\ pc = "forward" /\ Idle /\ IsForward(current) /\ current # "validationStarting"
    /\ ForwardAdmits(current)
    /\ \/ /\ Move(current)
          /\ UNCHANGED <<journal, failed, stagingAt, rollbackRoot, failedRoot>>
       \/ /\ Moved(current)
          /\ Write(Forward[Index(current) + 1])
          /\ UNCHANGED content
    /\ UNCHANGED <<choice, process, accepted, budget>>

-----------------------------------------------------------------------------
(* The transaction: rollback.                                              *)

\* prepareColdRollbackAnchor
Anchor ==
    /\ pc = "rollback" /\ cold /\ goal = None /\ Selected \in Phases /\ ~failedRoot
    /\ RollbackAdmits(Selected)
    /\ failedRoot' = TRUE
    /\ UNCHANGED <<choice, active, rollback, staged, failed, stagingAt, rollbackRoot, journal, process, accepted, budget>>

\* rollback(): the intent first
StartRollback ==
    /\ pc = "rollback" /\ Idle /\ IsForward(current)
    /\ IF cold THEN failedRoot /\ RollbackAdmits(current) ELSE ForwardAdmits(current)
    /\ Write("rollbackStarting")
    /\ UNCHANGED <<choice, content, process, accepted, budget>>

\* rollbackSlot
PartBack(p) == rollback[p] = Absent /\ (p \notin had => active[p] = Absent)
(* Mutant: the previous part is renamed over the restored one. *)
RollbackPartOver(p) ==
    /\ ~PartBack(p)
    /\ active' = [active EXCEPT ![p] = rollback[p]]
    /\ rollback' = [rollback EXCEPT ![p] = Absent]
    /\ UNCHANGED failed

RollbackPart(p) ==
    /\ ~PartBack(p)
    /\ IF active[p] # Absent
       THEN /\ failed[p] = Absent
            /\ failed' = [failed EXCEPT ![p] = active[p]]
            /\ active' = [active EXCEPT ![p] = Absent]
            /\ UNCHANGED rollback
       ELSE /\ active' = [active EXCEPT ![p] = rollback[p]]
            /\ rollback' = [rollback EXCEPT ![p] = Absent]
            /\ UNCHANGED failed

\* restorePreviousProfile: the documents, the database, the staging directory, then the phase
RestorePrevious ==
    /\ pc = "rollback" /\ Idle /\ current = "rollbackStarting" /\ RollbackAdmits(current)
    /\ \/ /\ ~failedRoot /\ failedRoot' = TRUE
          /\ UNCHANGED <<active, rollback, staged, failed, stagingAt, rollbackRoot, journal>>
       \/ /\ failedRoot /\ RollbackPart("docs")
          /\ UNCHANGED <<staged, stagingAt, rollbackRoot, failedRoot, journal>>
       \/ /\ failedRoot /\ PartBack("docs") /\ RollbackPart("db")
          /\ UNCHANGED <<staged, stagingAt, rollbackRoot, failedRoot, journal>>
       \/ /\ failedRoot /\ \A p \in Parts : PartBack(p)
          /\ stagingAt = "staging" /\ stagingAt' = "failed"
          /\ UNCHANGED <<active, rollback, staged, failed, rollbackRoot, failedRoot, journal>>
       \/ /\ stagingAt = "failed" /\ \A p \in Parts : PartBack(p)
          /\ Write("rolledBack")
          /\ UNCHANGED content
    /\ UNCHANGED <<choice, process, accepted, budget>>

-----------------------------------------------------------------------------
(* A start: prepareBeforeBackend, the backend on trial, and the decision.  *)

(* Mutant: a restore that ended failed-safe does not keep the backend closed. *)
NothingToDo == Selected \in {None, "failedSafe"}

\* stored === undefined: the start is a normal one
NothingPending == Selected = None

Start ==
    /\ pc = "off"
    /\ mode' = "start"
    /\ \/ NothingPending /\ pc' = "serving" /\ backend' = "open"
       \/ Selected \in {Empty, "failedSafe"} /\ pc' = "blocked" /\ UNCHANGED backend
       \/ Selected = "accepted" /\ pc' = "trial" /\ backend' = "trial"
       \/ /\ Selected \in {"rollbackStarting", "rolledBack"}
          /\ pc' = IF "db" \in had THEN "rollback" ELSE "blocked"
          /\ UNCHANGED backend
       \/ /\ IsForward(Selected)
          /\ pc' = IF ForwardAdmits(Selected) THEN "forward" ELSE "blocked"
          /\ UNCHANGED backend
    /\ UNCHANGED <<choice, content, journal, accepted, budget>>

(* Mutant: a rollback that only began counts as done. *)
OpenWhileRollingBack ==
    /\ mode = "start" /\ Idle
    /\ \/ pc = "forward" /\ current = "validationStarting"
       \/ pc = "rollback" /\ current \in {"rollbackStarting", "rolledBack"}
    /\ pc' = "trial" /\ backend' = "trial"
    /\ UNCHANGED <<choice, content, journal, mode, accepted, budget>>

\* the backend is opened on a profile whose files are in place
OpenOnTrial ==
    /\ mode = "start" /\ Idle
    /\ \/ pc = "forward" /\ current = "validationStarting"
       \/ pc = "rollback" /\ current = "rolledBack"
    /\ pc' = "trial" /\ backend' = "trial"
    /\ UNCHANGED <<choice, content, journal, mode, accepted, budget>>

\* validateActiveProfile succeeds: commitAcceptance, or the cleanup of what is decided
Validated ==
    /\ pc = "trial" /\ Idle
    /\ current = "validationStarting" => good /\ ForwardAdmits(current)
    /\ IF current = "validationStarting" THEN Write("accepted") ELSE UNCHANGED journal
    /\ pc' = "cleaning"
    /\ UNCHANGED <<choice, content, mode, backend, accepted, budget>>

\* validateActiveProfile fails: stop the backend; only an undecided restore is rolled back
Rejected ==
    /\ pc = "trial" /\ goal = None /\ Selected = "validationStarting" /\ ~good
    /\ backend' = "off" /\ pc' = "rollback" /\ mode' = "retreat"
    /\ UNCHANGED <<choice, content, journal, accepted, budget>>

\* cleanupAccepted and clearRolledBack: the directories first, the journal last
CleanAccepted ==
    /\ pc = "cleaning" /\ Idle /\ current = "accepted"
    /\ \/ \E p \in Parts :
             /\ rollback[p] # Absent
             /\ rollback' = [rollback EXCEPT ![p] = Absent] /\ UNCHANGED <<rollbackRoot, stagingAt>>
       \/ /\ rollback = NoPart /\ rollbackRoot
          /\ rollbackRoot' = FALSE /\ UNCHANGED <<rollback, stagingAt>>
       \/ /\ ~rollbackRoot /\ stagingAt = "staging"
          /\ stagingAt' = "gone" /\ UNCHANGED <<rollback, rollbackRoot>>
    /\ UNCHANGED <<choice, active, staged, failed, failedRoot, journal, process, accepted, budget>>

ClearRolledBack ==
    /\ pc = "cleaning" /\ Idle /\ current = "rolledBack" /\ RollbackAdmits(current)
    /\ rollback = NoPart /\ rollbackRoot /\ rollbackRoot' = FALSE
    /\ UNCHANGED <<choice, active, rollback, staged, failed, stagingAt, failedRoot, journal, process, accepted, budget>>

ClearJournal ==
    /\ pc = "cleaning" /\ Idle /\ ~rollbackRoot
    /\ \/ current = "accepted" /\ stagingAt = "gone"
       \/ current = "rolledBack"
    /\ current' = None
    /\ pc' = "serving" /\ backend' = "open"
    /\ UNCHANGED <<backup, next, goal, choice, content, mode, accepted, budget>>

-----------------------------------------------------------------------------
(* Calls that throw, and the end of the process.                           *)

\* activateClaimed's catch, rollback's catch, prepareStartup's and validateStartup's
Handled ==
    \/ /\ pc = "maintenance" /\ pc' = "serving"
       /\ UNCHANGED <<goal, mode, backend>>
    \/ \* prepared or not, the backend stays fenced until the next start
       /\ pc = "creating" /\ pc' = "fenced" /\ goal' = None
       /\ UNCHANGED <<mode, backend>>
    \/ /\ pc = "forward" /\ mode = "live" /\ goal' = None
       /\ pc' = IF Selected \in Phases /\ ForwardAdmits(Selected) THEN "rollback" ELSE "blocked"
       /\ UNCHANGED <<mode, backend>>
    \/ \* a live rollback that fails records that it failed, if the files still allow a write
       /\ pc = "rollback" /\ mode = "live" /\ pc' = "blocked"
       /\ goal' = IF Clean /\ current = "rollbackStarting" THEN "failedSafe" ELSE None
       /\ UNCHANGED <<mode, backend>>
    \/ \* no file may be moved while the backend may still run
       /\ pc = "trial" /\ Selected = "validationStarting"
       /\ \/ pc' = "rollback" /\ backend' = "off" /\ mode' = "retreat"
          \/ pc' = "blocked" /\ UNCHANGED <<backend, mode>>
       /\ UNCHANGED goal
    \/ /\ \/ pc = "trial" /\ Selected # "validationStarting"
          \/ pc \in {"forward", "rollback"} /\ cold
          \/ pc \in {"cleaning", "blocked"}
       /\ pc' = "blocked" /\ goal' = None /\ backend' = "off"
       /\ UNCHANGED mode

Throw ==
    /\ throws < Throws /\ (pc = "blocked" => goal # None)
    /\ throws' = throws + 1
    /\ Handled
    /\ UNCHANGED <<choice, content, current, backup, next, accepted, crashes>>

\* an application that cannot go on is closed
Close ==
    /\ pc \in {"blocked", "fenced"} /\ goal = None
    /\ pc' = "off" /\ backend' = "off"
    /\ UNCHANGED <<choice, content, journal, mode, accepted, budget>>

Crash ==
    /\ pc # "off" /\ crashes < Crashes
    /\ crashes' = crashes + 1
    /\ pc' = "off" /\ backend' = "off" /\ goal' = None
    /\ UNCHANGED <<choice, content, current, backup, next, mode, accepted, throws>>

-----------------------------------------------------------------------------
Init ==
    /\ op = 0 /\ base = 0 /\ good = TRUE
    /\ had \in Originals
    /\ active = [p \in Parts |-> IF p \in had THEN 0 ELSE Absent]
    /\ rollback = NoPart /\ staged = NoPart /\ failed = NoPart
    /\ stagingAt = "gone" /\ rollbackRoot = FALSE /\ failedRoot = FALSE
    /\ current = None /\ backup = None /\ next = None /\ goal = None
    /\ pc = "serving" /\ mode = "start" /\ backend = "open"
    /\ accepted = FALSE /\ crashes = 0 /\ throws = 0

(* Mutant: a start that only validates never repairs the files. *)
RepairBeforeTrialOnly == pc \in {"forward", "rollback"} /\ Repair

\* read() repairs the slots wherever the code reads the journal to act on it
MayRepair == pc \in {"forward", "rollback", "trial"} /\ Repair

Work == \/ Prepare \/ StopRuntime \/ Relaunch \/ Advance
        \/ Anchor \/ StartRollback \/ RestorePrevious
        \/ OpenOnTrial \/ Validated \/ Rejected \/ CleanAccepted \/ ClearRolledBack \/ ClearJournal
        \/ WriteJournal \/ MayRepair
Next == Stage \/ Work \/ Start \/ Throw \/ Close \/ Crash

\* the main process goes on with what it is doing, and a user whose
\* application is blocked or gone starts it again
Fairness == WF_vars(Work) /\ WF_vars(Start) /\ WF_vars(Close)
Spec == Init /\ [][Next]_vars
FairSpec == Spec /\ Fairness

-----------------------------------------------------------------------------
\* Types.  The last two conjuncts say whose content a place may hold: what is
\* set aside for rollback is the profile that was replaced, and what is staged
\* or set aside as failed is the restored one, never the other way round.
TypeOK ==
    /\ op \in 0..Operations /\ base \in 0..Operations /\ had \in SUBSET Parts /\ good \in BOOLEAN
    /\ active \in [Parts -> {Absent, base, op}]
    /\ stagingAt \in {"gone", "staging", "failed"} /\ rollbackRoot \in BOOLEAN /\ failedRoot \in BOOLEAN
    /\ {current, backup, goal} \subseteq Phases \cup {None}
    /\ next \in Phases \cup {None, Empty}
    /\ pc \in {"off", "serving", "maintenance", "creating", "forward", "rollback", "trial",
               "cleaning", "fenced", "blocked"}
    /\ mode \in {"live", "start", "retreat"} /\ backend \in {"off", "trial", "open"}
    /\ accepted \in BOOLEAN /\ crashes \in 0..Crashes /\ throws \in 0..Throws
    /\ rollback \in [Parts -> {Absent, base}]
    /\ {staged, failed} \subseteq [Parts -> {Absent, op}]

\* No backend ever runs on a database of one profile and the documents of the
\* other, wherever the process died or threw between the moves.
NeverMixed == backend # "off" => active \in {OldProfile, NewProfile}

\* Until the restored profile is accepted, every part of the replaced one is in
\* the active or the rollback place; and the restored parts are, at any time,
\* each in exactly one place.
NothingLost ==
    /\ ~accepted => \A p \in had : base \in {active[p], rollback[p]}
    /\ op > 0 => \A p \in Parts : Cardinality({x \in {<<"staged", staged[p]>>, <<"active", active[p]>>, <<"failed", failed[p]>>} : x[2] = op}) = 1

\* A profile is served to the user only once the restore is decided, and it is
\* the one the decision names.
DecisionStands == pc = "serving" => active = IF accepted THEN NewProfile ELSE OldProfile

\* A start that rejected the profile made its failed directory before it wrote
\* the phase that allows for one.
Anchored == Selected = "validationStarting" /\ failedRoot

\* Whatever state the program leaves behind when it dies, the census of the next
\* start recognises it, but for a failed directory made ahead of its phase.
CensusAdmits ==
    /\ TypeOK
    /\ IsForward(Selected) /\ ~Anchored => ForwardAdmits(Selected)
    /\ Selected \in {"rollbackStarting", "rolledBack"} /\ pc # "cleaning" => RollbackAdmits(Selected)

\* A restore that was begun ends with the profile served and no journal left, or
\* in one of the states the program leaves to a person.
RestoreSettles ==
    Selected # None ~> \/ pc = "serving" /\ Selected = None
                       \/ Selected \in {Empty, "failedSafe"}
                       \/ Anchored /\ pc = "blocked"
=============================================================================
