-------------------------- MODULE WorkspaceImport --------------------------
(***************************************************************************)
(* Importing a company workspace from an encrypted backup file             *)
(* (workspaceBackupImportCoordinator) and finishing or undoing an          *)
(* interrupted import at the next start (workspaceBackupImportRecovery).   *)
(*                                                                         *)
(* An import decrypts the file into a plaintext quarantine to look at it,  *)
(* stops the backend, writes its journal, publishes a binding that says    *)
(* whose the coming files are, decrypts again into a candidate, lets two   *)
(* child processes migrate and validate it, renames it to the workspace's  *)
(* root, adds the registry entry, asks for a relaunch, and retires binding *)
(* and journal.  What it cannot be certain of fences the application:      *)
(* nothing more is changed before a restart.                               *)
(*                                                                         *)
(* Journal, registry and binding are slot stores (DurableRegister): a call *)
(* takes effect wholly or not at all and may throw either way; only the    *)
(* first write of the binding has a state of its own, "partial".           *)
(* Workspace 0 is there to begin with; import n makes workspace n.         *)
(***************************************************************************)
EXTENDS Naturals, FiniteSets

CONSTANTS
    None,         \* null: no active workspace (the selector), no child
    NoJournal,    \* the journal has no record
    MaxEntries,   \* WORKSPACE_REGISTRY_MAX_ENTRIES
    MaxImports,   \* bound: imports started
    MaxFaults,    \* bound: calls that throw
    MaxCrashes    \* bound: deaths of the main process

Imported   == 1 .. MaxImports
Workspaces == 0 .. MaxImports

(* The profile a backup was made of; workspace 0 has profile 0.            *)
Lineages == 0 .. MaxImports

JournalStates == <<"prepared", "candidateRootCreated", "backupStaged", "candidateMigrated",
                   "candidateValidated", "rootPublished", "registryPublished">>

States == {JournalStates[i]: i \in DOMAIN JournalStates}

Index(state) == CHOOSE i \in DOMAIN JournalStates: JournalStates[i] = state

Records(states) == [ws: Imported, previous: Workspaces \cup {None}, state: states]

(* The two candidate operations: where each starts from, where it may pass, *)
(* and where it ends.                                                       *)
Jobs == {"migrate", "validate"}
Passes(job) == IF job = "migrate" THEN {"staged", "hot"} ELSE {"migrated"}
Done(job)   == IF job = "migrate" THEN "migrated" ELSE "materialized"

ASSUME ImportAssumption ==
    /\ None \notin Nat \cup [ws: Imported, job: Jobs]
    /\ NoJournal \notin Records(States \cup {"unwritten"})
    /\ MaxEntries \in Nat \ {0}
    /\ MaxImports \in Nat /\ MaxFaults \in Nat /\ MaxCrashes \in Nat

(* The operation directory: not there; there without a candidate; an empty  *)
(* candidate; with the extracted backup; with a database under migration    *)
(* and SQLite's rollback journal beside it; migrated; with its documents    *)
(* materialized; the last two without the extracted backup.                 *)
Stagings == {"absent", "operation", "created", "staged", "hot", "migrated",
             "materialized", "bare", "whole"}

VARIABLES
    registry,    \* durable: active pointer and entries
    journal,     \* durable: the import journal
    binding,     \* durable: the remnant binding of the pending import
    plain,       \* durable: a decrypted payload lies in the quarantine
    staging,     \* durable: operation directory of each import
    final,       \* durable: what stands at each workspace's root
    lineage,     \* the profile of each workspace
    pc,
    mode,        \* the coordinator ("live") or the startup recovery ("cold")
    op,          \* the record it works on
    fenced,      \* uncertain: closed until the application is restarted
    backend,     \* backend process of the active workspace
    lifecycle,   \* state of the active or selector lifecycle
    relaunch,    \* DeferredWorkspaceRuntimeRelaunch
    child,       \* the candidate process: its workspace and its job
    ops, faults, crashes

disk    == <<registry, journal, binding, plain, staging, final>>
local   == <<mode, op>>
runtime == <<backend, lifecycle, relaunch>>
counts  == <<ops, crashes, lineage>>
vars    == <<disk, pc, local, fenced, runtime, child, counts, faults>>

Init ==
    /\ registry \in [active: {0, None}, entries: {{0}}]
    /\ journal = NoJournal /\ binding = "absent" /\ plain = FALSE
    /\ staging = [w \in Imported |-> "absent"]
    /\ final = [w \in Imported |-> "absent"]
    /\ lineage = [w \in Workspaces |-> 0]
    /\ pc = "down" /\ mode = "cold" /\ op = NoJournal /\ fenced = FALSE
    /\ backend = "absent" /\ lifecycle = "active" /\ relaunch = "unasked"
    /\ child = None
    /\ ops = 0 /\ faults = 0 /\ crashes = 0

----------------------------------------------------------------------------
(* Calls that may throw.                                                    *)

Fault == faults < MaxFaults /\ faults' = faults + 1

(* A certain failure goes to the command's catch block, or ends the start.  *)
Fails == pc' = (IF mode = "live" THEN "failed" ELSE "exit") /\ UNCHANGED fenced

(* rejectGuard, markUncertain: a failure whose effect is unknown.           *)
Uncertain ==
    /\ pc' = IF mode = "live" THEN "idle" ELSE "exit"
    /\ fenced' = (mode = "live")

Goes(next) == pc' = next /\ UNCHANGED <<fenced, faults>>

Reached(state) == Index(journal.state) >= Index(state)

(* assertWorkspaceBackupImportJournalTransition *)
CanFollow(next) ==
    IF journal = NoJournal
    THEN next.state = "prepared"
    ELSE /\ next.ws = journal.ws /\ next.previous = journal.previous
         /\ Index(next.state) - Index(journal.state) \in {0, 1}

WriteJournal(state, ok) ==
    LET next == [op EXCEPT !.state = state] IN
    IF CanFollow(next)
    THEN \/ journal' = next /\ op' = next /\ Goes(ok)
         \/ Fault /\ journal' \in {journal, next} /\ op' = op /\ Uncertain
    ELSE Uncertain /\ UNCHANGED <<journal, op, faults>>

(* assertNoActiveWorkspaceRuntime, assertMainOwned *)
RuntimeAbsent ==
    child = None /\ (mode = "live" => lifecycle = "stopped")

(* Mutant: only the active workspace is compared with the backup. *)
ActiveLineage == {lineage[w]: w \in registry.entries \cap {registry.active}}

ListedLineages == {lineage[w]: w \in registry.entries}

(* assertImportWorkspaceIdAvailable, assertImportLineageAvailable *)
Admissible ==
    /\ op.ws \notin registry.entries
    /\ Cardinality(registry.entries) < MaxEntries
    /\ lineage[op.ws] \notin ListedLineages

----------------------------------------------------------------------------
(* The command, admitted only when no journal is pending and the            *)
(* application is not fenced, and by the maintenance lease one at a time.   *)

Import ==
    /\ pc = "idle" /\ ~fenced
    /\ journal = NoJournal
    /\ ops < MaxImports /\ ops' = ops + 1
    /\ \E p \in Lineages: lineage' = [lineage EXCEPT ![ops'] = p]
    /\ mode' = "live"
    /\ op' = [ws |-> ops', previous |-> registry.active, state |-> "unwritten"]
    /\ pc' = "quarantine"
    /\ UNCHANGED <<disk, fenced, runtime, child, faults, crashes>>

(* recoverStalePayloads: the startup cleans before it decides. *)
CleanQuarantine ==
    /\ pc = "quarantine"
    /\ \/ plain' = FALSE /\ Goes(IF mode = "live" THEN "preflight" ELSE "decide")
       \/ Fault /\ plain' \in {plain, FALSE} /\ Uncertain
    /\ UNCHANGED <<registry, journal, binding, staging, final, local, runtime, child, counts>>

(* decryptBackupPayload, to look at the backup or to stage it. *)
Decrypt ==
    /\ \/ pc = "preflight" /\ Goes("looked")
       \/ pc = "stage" /\ RuntimeAbsent /\ Goes("extract")
       \/ pc \in {"preflight", "stage"} /\ Fault /\ Uncertain
    /\ plain' \in {TRUE} \cup (IF fenced' THEN {plain} ELSE {})
    /\ UNCHANGED <<registry, journal, binding, staging, final, local, runtime, child, counts>>

(* Mutant: a payload that cannot be removed is left for later. *)
RemovePlainOrLeave(work, ok) ==
    \/ work /\ plain' = FALSE /\ Goes(ok)
    \/ Fault /\ plain' \in {plain, FALSE} /\ Fails

(* removePayload in the finally block, after the work or its failure. *)
RemovePlain(work, ok) ==
    \/ work /\ plain' = FALSE /\ Goes(ok)
    \/ Fault /\ plain' = FALSE /\ Fails
    \/ Fault /\ plain' \in {plain, FALSE} /\ Uncertain

(* inspectBackup ends; a wrong password or a broken file is a failure       *)
(* before anything was stopped.  The lineage is checked on what it read.    *)
Preflight ==
    /\ pc = "looked"
    /\ RemovePlain(TRUE, IF lineage[op.ws] \in ListedLineages THEN "idle" ELSE "quiesce")
    /\ UNCHANGED <<registry, journal, binding, staging, final, local, runtime, child, counts>>

(* A second call joins the first one's result; a failed quiescing leaves    *)
(* nothing to restore.                                                      *)
Quiesce ==
    /\ pc = "quiesce"
    /\ \/ /\ lifecycle \in {"active", "quiesced", "stopped"}
          /\ lifecycle' = IF lifecycle = "active" THEN "quiesced" ELSE lifecycle
          /\ Goes("stop") /\ UNCHANGED backend
       \/ /\ lifecycle = "active" /\ Fault
          /\ lifecycle' = "stopFailed" /\ backend' \in {backend, "absent"}
          /\ pc' = "idle" /\ UNCHANGED fenced
       \/ lifecycle = "stopFailed" /\ Goes("idle") /\ UNCHANGED <<lifecycle, backend>>
    /\ UNCHANGED <<disk, local, relaunch, child, counts>>

Stop ==
    /\ pc = "stop"
    /\ \/ lifecycle' = "stopped" /\ backend' = "absent" /\ Goes("prepare")
       \/ /\ lifecycle = "quiesced" /\ Fault
          /\ lifecycle' = "stopFailed" /\ backend' \in {backend, "absent"}
          /\ Fails
    /\ UNCHANGED <<disk, local, relaunch, child, counts>>

(* A full registry is met only now, with the backend stopped. *)
Prepare ==
    /\ pc = "prepare"
    /\ IF ~RuntimeAbsent THEN Uncertain /\ UNCHANGED <<journal, op, faults>>
       ELSE IF Admissible THEN WriteJournal("prepared", "bind")
       ELSE Fails /\ UNCHANGED <<journal, op, faults>>
    /\ UNCHANGED <<registry, binding, plain, staging, final, mode, runtime, child, counts>>

(* Mutant: the candidate is made before the binding is published. *)
BindLater ==
    /\ pc = "bind"
    /\ Goes("createRoot")
    /\ UNCHANGED <<disk, local, runtime, child, counts>>

(* binding.publish: a first write that throws may leave the next slot only. *)
Bind ==
    /\ pc = "bind"
    /\ \/ binding' = "published" /\ Goes("createRoot")
       \/ Fault /\ binding' \in {"absent", "partial", "published"} /\ Uncertain
    /\ UNCHANGED <<registry, journal, plain, staging, final, local, runtime, child, counts>>

(* assertBound and createCandidate. *)
CreateRoot ==
    /\ pc = "createRoot"
    /\ \/ /\ staging' = [staging EXCEPT ![op.ws] = "created"] /\ Goes("markRoot")
       \/ /\ Fault /\ Fails
          /\ \E s \in {"absent", "operation", "created"}: staging' = [staging EXCEPT ![op.ws] = s]
    /\ UNCHANGED <<registry, journal, binding, plain, final, local, runtime, child, counts>>

MarkRoot ==
    /\ pc = "markRoot"
    /\ WriteJournal("candidateRootCreated", "stage")
    /\ UNCHANGED <<registry, binding, plain, staging, final, mode, runtime, child, counts>>

(* stage: extractBackupPayload into import-staging, then the finally block. *)
Stage ==
    /\ pc = "extract"
    /\ \E s \in {"created", "staged"}:
           /\ staging' = [staging EXCEPT ![op.ws] = s]
           /\ RemovePlain(s = "staged", "markStaged")
    /\ UNCHANGED <<registry, journal, binding, final, local, runtime, child, counts>>

MarkStaged ==
    /\ pc = "markStaged"
    /\ WriteJournal("backupStaged", "migrate")
    /\ UNCHANGED <<registry, binding, plain, staging, final, mode, runtime, child, counts>>

(* Main hands its reservation to the child it spawns. *)
Spawn(job) ==
    /\ pc = job
    /\ \/ child' = [ws |-> op.ws, job |-> job] /\ Goes("await")
       \/ Fault /\ Fails /\ UNCHANGED child
    /\ UNCHANGED <<disk, local, runtime, counts>>

(* The child migrates a copy of the extracted database in transactions of   *)
(* SQLite's default rollback journal; the other one copies the documents.   *)
ChildWorks ==
    /\ child # None
    /\ staging[child.ws] \in Passes(child.job)
    /\ \E s \in Passes(child.job) \cup {Done(child.job)}:
           staging' = [staging EXCEPT ![child.ws] = s]
    /\ UNCHANGED <<registry, journal, binding, plain, final, pc, local, fenced, runtime,
                   child, counts, faults>>

ChildExits ==
    /\ child # None
    /\ child' = None
    /\ UNCHANGED <<disk, pc, local, fenced, runtime, counts, faults>>

(* The job the record is in. *)
JobNow == IF op.state = "backupStaged" THEN "migrate" ELSE "validate"

(* Mutant: the candidate's result is not read back. *)
AwaitExitOnly ==
    /\ pc = "await" /\ child = None
    /\ Goes(IF JobNow = "migrate" THEN "markMigrated" ELSE "markValidated")
    /\ UNCHANGED <<disk, local, runtime, child, counts>>

(* Success needs the child's exit and its result; a failure (a timeout too) *)
(* stops the child, whose exit may stay unproved.                           *)
Await ==
    /\ pc = "await"
    /\ \/ /\ child = None /\ staging[op.ws] = Done(JobNow)
          /\ Goes(IF JobNow = "migrate" THEN "markMigrated" ELSE "markValidated")
          /\ UNCHANGED child
       \/ child = None /\ staging[op.ws] # Done(JobNow) /\ Fails /\ UNCHANGED <<child, faults>>
       \/ Fault /\ child' \in {child, None} /\ Fails
    /\ UNCHANGED <<disk, local, runtime, counts>>

MarkMigrated ==
    /\ pc = "markMigrated"
    /\ WriteJournal("candidateMigrated", "validate")
    /\ UNCHANGED <<registry, binding, plain, staging, final, mode, runtime, child, counts>>

MarkValidated ==
    /\ pc = "markValidated"
    /\ WriteJournal("candidateValidated", "strip")
    /\ UNCHANGED <<registry, binding, plain, staging, final, mode, runtime, child, counts>>

(* removeImportStaging, then inspectCandidate, which looks at the layout.   *)
Strip ==
    /\ pc = "strip"
    /\ LET stripped == [staging EXCEPT ![op.ws] = IF @ = "materialized" THEN "whole" ELSE "bare"] IN
       \/ staging' = stripped /\ Goes("publish")
       \/ Fault /\ Fails /\ staging' \in {staging, stripped}
    /\ UNCHANGED <<registry, journal, binding, plain, final, local, runtime, child, counts>>

(* publishCandidate: one rename. *)
Publish ==
    /\ pc = "publish"
    /\ \/ /\ Admissible /\ registry.active = op.previous
          /\ final[op.ws] = "absent"
          /\ final' = [final EXCEPT ![op.ws] = staging[op.ws]]
          /\ staging' = [staging EXCEPT ![op.ws] = "operation"]
          /\ Goes("markPublished") \/ (Fault /\ Fails)
       \/ Fault /\ Fails /\ UNCHANGED <<staging, final>>
    /\ UNCHANGED <<registry, journal, binding, plain, local, runtime, child, counts>>

MarkPublished ==
    /\ pc = "markPublished"
    /\ WriteJournal("rootPublished", IF mode = "live" THEN "cleanup" ELSE "register")
    /\ UNCHANGED <<registry, binding, plain, staging, final, mode, runtime, child, counts>>

(* What a recovery still has to do once the operation directory is gone.    *)
ColdNext ==
    IF op.ws \in registry.entries
    THEN IF op.state = "rootPublished" THEN "markRegistered" ELSE "clear"
    ELSE IF op.state = "candidateValidated" THEN "markPublished" ELSE "register"

(* Mutant: the operation directory must still be there. *)
CleanupOnce ==
    /\ pc = "cleanup"
    /\ IF staging[op.ws] = "operation"
       THEN /\ staging' = [staging EXCEPT ![op.ws] = "absent"]
            /\ Goes(IF mode = "live" THEN "register" ELSE ColdNext)
       ELSE Fails /\ UNCHANGED <<staging, faults>>
    /\ UNCHANGED <<registry, journal, binding, plain, final, local, runtime, child, counts>>

(* cleanupPublishedOperation: an operation directory that is there is empty.*)
Cleanup ==
    /\ pc = "cleanup"
    /\ LET gone == [staging EXCEPT ![op.ws] = "absent"] IN
       IF staging[op.ws] \in {"absent", "operation"}
       THEN \/ staging' = gone /\ Goes(IF mode = "live" THEN "register" ELSE ColdNext)
            \/ Fault /\ staging' \in {staging, gone} /\ Fails
       ELSE Fails /\ UNCHANGED <<staging, faults>>
    /\ UNCHANGED <<registry, journal, binding, plain, final, local, runtime, child, counts>>

(* publishRegistry, writeRegistry: the workspace is listed, not selected.   *)
WithEntry == [registry EXCEPT !.entries = @ \cup {op.ws}]

Register ==
    /\ pc = "register"
    /\ IF Admissible
       THEN \/ registry' = WithEntry /\ Goes("markRegistered")
            \/ Fault /\ registry' \in {registry, WithEntry} /\ Uncertain
       ELSE Uncertain /\ UNCHANGED <<registry, faults>>
    /\ UNCHANGED <<journal, binding, plain, staging, final, local, runtime, child, counts>>

MarkRegistered ==
    /\ pc = "markRegistered"
    /\ WriteJournal("registryPublished", IF mode = "live" THEN "ensure" ELSE "clear")
    /\ UNCHANGED <<registry, binding, plain, staging, final, mode, runtime, child, counts>>

(* ensurePreviousWorkspaceRunning; its failure meets the published root.    *)
Ensure ==
    /\ pc = "ensure"
    /\ \/ relaunch' = "requested" /\ Goes("clear")
       \/ Fault /\ Fails /\ UNCHANGED relaunch
    /\ UNCHANGED <<disk, local, backend, lifecycle, child, counts>>

----------------------------------------------------------------------------
(* retire, clearJournal: the operation directory is asserted absent, the    *)
(* binding goes, then the journal.                                          *)

ClearBinding ==
    /\ pc = "clear"
    /\ IF staging[op.ws] # "absent" \/ (mode = "live" /\ binding # "published")
       THEN Uncertain /\ UNCHANGED <<binding, faults>>
       ELSE \/ binding' = "absent" /\ Goes("remove")
            \/ Fault /\ binding' \in {binding, "absent"} /\ Uncertain
    /\ UNCHANGED <<registry, journal, plain, staging, final, local, runtime, child, counts>>

(* removeSelected, discardBeforePublicationSelected: opposite states.       *)
RemoveJournal ==
    /\ pc = "remove"
    /\ IF journal.state = "registryPublished" \/ ~Reached("rootPublished")
       THEN \/ journal' = NoJournal
               /\ Goes(IF mode = "cold" THEN "boot"
                       ELSE IF op.state = "registryPublished" THEN "idle" ELSE "restore")
            \/ Fault /\ journal' \in {journal, NoJournal} /\ Uncertain
       ELSE Uncertain /\ UNCHANGED <<journal, faults>>
    /\ UNCHANGED <<registry, binding, plain, staging, final, local, runtime, child, counts>>

----------------------------------------------------------------------------
(* The command's catch block after a certain failure.                       *)

(* Before the backend is told to stop nothing is owed; from then on the     *)
(* previous workspace is.                                                   *)
HandleFailure ==
    /\ pc = "failed"
    /\ IF op.state = "unwritten"
       THEN Goes(IF lifecycle = "active" THEN "idle" ELSE "restore")
       ELSE \/ /\ \/ ~RuntimeAbsent \/ final[op.ws] # "absent"
                  \/ op.state \in {"rootPublished", "registryPublished"}
               /\ Uncertain /\ UNCHANGED faults
            \/ /\ RuntimeAbsent /\ final[op.ws] = "absent"
               /\ op.state \notin {"rootPublished", "registryPublished"}
               /\ Goes("discard")
            \/ Fault /\ Uncertain
    /\ UNCHANGED <<disk, local, runtime, child, counts>>

(* discardCandidate removes the operation tree only if it holds nothing but *)
(* what an import puts there; a removal that throws may have removed part.  *)
Remains(s) ==
    IF s \in {"absent", "operation"} THEN {s, "absent"}
    ELSE {s, "created", "operation", "absent"}

Discard ==
    /\ pc = "discard"
    /\ IF staging[op.ws] = "hot"
       THEN Uncertain /\ UNCHANGED <<staging, faults>>
       ELSE \/ staging' = [staging EXCEPT ![op.ws] = "absent"] /\ Goes("clear")
            \/ /\ Fault /\ Uncertain
               /\ \E s \in Remains(staging[op.ws]): staging' = [staging EXCEPT ![op.ws] = s]
    /\ UNCHANGED <<registry, journal, binding, plain, final, local, runtime, child, counts>>

(* The previous workspace comes back by a relaunch, unless its backend      *)
(* failed to stop.                                                          *)
Restore ==
    /\ pc = "restore"
    /\ \/ lifecycle = "stopped" /\ relaunch' = "requested" /\ Goes("idle")
       \/ lifecycle # "stopped" /\ Uncertain /\ UNCHANGED <<relaunch, faults>>
       \/ Fault /\ Uncertain /\ UNCHANGED relaunch
    /\ UNCHANGED <<disk, local, backend, lifecycle, child, counts>>

----------------------------------------------------------------------------
(* The next start takes the process reservation, which a child of an        *)
(* earlier process may still hold.  Without a journal a stale payload stops *)
(* it; with one, a binding whose first write was cut off does.              *)

Start ==
    /\ pc = "down"
    /\ op' = journal /\ mode' = "cold"
    /\ pc' = IF child # None THEN "exit"
             ELSE IF journal = NoJournal THEN IF plain THEN "exit" ELSE "boot"
             ELSE IF binding = "partial" THEN "exit" ELSE "quarantine"
    /\ UNCHANGED <<disk, fenced, runtime, child, counts, faults>>

(* recover: the journal, the registry and the two directories decide.       *)
(* completeFromPublishedRegistry and completeFromPublishedRoot inspect the  *)
(* root and let a child validate its database before they go on.            *)
Decide ==
    /\ pc = "decide"
    /\ \/ Goes(
            IF staging[op.ws] \notin {"absent", "operation"} /\ final[op.ws] # "absent" THEN "exit"
            ELSE IF op.ws \in registry.entries
            THEN IF final[op.ws] = "whole" /\ Reached("rootPublished")
                      /\ registry.active = op.previous
                 THEN "cleanup" ELSE "exit"
            ELSE IF final[op.ws] # "absent"
            THEN IF /\ op.state \in {"candidateValidated", "rootPublished"}
                    /\ Admissible /\ registry.active = op.previous
                    /\ final[op.ws] = "whole"
                 THEN "cleanup" ELSE "exit"
            ELSE IF Reached("rootPublished") \/ registry.active # op.previous
            THEN "exit" ELSE "discard")
       \/ Fault /\ pc' = "exit" /\ UNCHANGED fenced
    /\ UNCHANGED <<disk, local, runtime, child, counts>>

(* The rest of the startup; the selector has no backend. *)
Boot ==
    /\ pc = "boot"
    /\ backend' = IF registry.active = None THEN "absent" ELSE "alive"
    /\ pc' = "idle"
    /\ UNCHANGED <<disk, local, fenced, lifecycle, relaunch, child, counts, faults>>

(* The end of the process: its backend goes with it, a candidate process    *)
(* may stay a while.                                                        *)
Gone ==
    /\ pc' = "down" /\ mode' = "cold" /\ op' = NoJournal /\ fenced' = FALSE
    /\ backend' = "absent" /\ lifecycle' = "active" /\ relaunch' = "unasked"
    /\ UNCHANGED <<disk, child, ops, lineage, faults>>

(* complete: the requested relaunch happens only after a certain end. *)
Quit ==
    /\ pc = "exit" \/ (pc = "idle" /\ relaunch = "requested" /\ ~fenced)
    /\ Gone /\ UNCHANGED crashes

Close ==
    /\ pc = "idle"
    /\ Gone /\ UNCHANGED crashes

(* A first write of the binding may be cut off in its next slot. *)
Crash ==
    /\ pc # "down"
    /\ crashes < MaxCrashes /\ crashes' = crashes + 1
    /\ Gone

CrashInBind ==
    /\ pc = "bind"
    /\ crashes < MaxCrashes /\ crashes' = crashes + 1
    /\ binding' = "partial"
    /\ pc' = "down" /\ mode' = "cold" /\ op' = NoJournal /\ fenced' = FALSE
    /\ backend' = "absent" /\ lifecycle' = "active" /\ relaunch' = "unasked"
    /\ UNCHANGED <<registry, journal, plain, staging, final, child, ops, lineage, faults>>

----------------------------------------------------------------------------
Command == Decrypt \/ Preflight \/ Quiesce \/ Stop \/ Prepare \/ Bind \/ CreateRoot
             \/ MarkRoot \/ Stage \/ MarkStaged \/ (\E job \in Jobs: Spawn(job)) \/ Await
             \/ MarkMigrated \/ MarkValidated \/ Strip \/ Publish \/ Ensure
             \/ HandleFailure \/ Restore
Shared  == CleanQuarantine \/ MarkPublished \/ Cleanup \/ Register \/ MarkRegistered
             \/ Discard \/ ClearBinding \/ RemoveJournal
Startup == Start \/ Decide \/ Boot

Next ==
    \/ Import \/ Command \/ Shared \/ Startup
    \/ ChildWorks \/ ChildExits \/ Quit \/ Close \/ Crash \/ CrashInBind

Spec == Init /\ [][Next]_vars

(* The main process keeps going and is started again when it is down; a     *)
(* child ends; an application that is fenced or without its backend is      *)
(* closed by its user.                                                      *)
FairSpec ==
    /\ Spec
    /\ WF_vars(Command \/ Shared \/ Startup \/ Quit)
    /\ WF_vars(ChildExits)
    /\ WF_vars(Close /\ (fenced \/ lifecycle # "active"))

----------------------------------------------------------------------------
(* Every variable has its type. *)
TypeOK ==
    /\ registry \in [active: Workspaces \cup {None}, entries: SUBSET Workspaces]
    /\ journal \in Records(States) \cup {NoJournal}
    /\ binding \in {"absent", "partial", "published"} /\ plain \in BOOLEAN
    /\ staging \in [Imported -> Stagings]
    /\ final \in [Imported -> Stagings]
    /\ lineage \in [Workspaces -> Lineages]
    /\ mode \in {"live", "cold"} /\ fenced \in BOOLEAN
    /\ backend \in {"alive", "absent"} /\ relaunch \in {"unasked", "requested"}
    /\ lifecycle \in {"active", "quiesced", "stopped", "stopFailed"}
    /\ child \in [ws: Imported, job: Jobs] \cup {None}
    /\ ops \in 0 .. MaxImports /\ faults \in 0 .. MaxFaults /\ crashes \in 0 .. MaxCrashes

(* A workspace the registry lists has a root whose database was migrated    *)
(* and whose documents were materialized, whatever died or threw.           *)
ListedIsWhole ==
    \A w \in registry.entries \ {0}: final[w] = "whole"

(* No two listed workspaces come from one profile. *)
OneWorkspacePerLineage ==
    \A v, w \in registry.entries: v # w => lineage[v] # lineage[w]

(* An operation directory is never there without the binding that says      *)
(* whose it is, and the binding never without its journal; a root the       *)
(* registry does not list has a journal.  A backend runs only over a        *)
(* settled installation, with none of these, in no order of failures.       *)
EverythingBound ==
    /\ TypeOK
    /\ \A w \in Imported: staging[w] # "absent" =>
           binding = "published" /\ journal # NoJournal /\ journal.ws = w
    /\ binding # "absent" => journal # NoJournal
    /\ journal = NoJournal => \A w \in Imported: final[w] # "absent" => w \in registry.entries
    /\ backend = "alive" =>
         journal = NoJournal /\ binding = "absent" /\ \A w \in Imported: staging[w] = "absent"

(* Decrypted business data never lies beside an application that goes on    *)
(* as if nothing had happened: it is removed, or the application is fenced. *)
NoPlaintextAdmitted == pc = "idle" /\ plain => fenced

(* Once failures stop, a pending import is finished or undone at one of the *)
(* next starts, unless its candidate holds a rollback journal or the first  *)
(* write of its binding was cut off, which the startup refuses; once its    *)
(* root is published it is finished: it ends listed.                        *)
ImportSettles ==
    /\ journal # NoJournal ~>
        (journal = NoJournal \/ staging[journal.ws] = "hot" \/ binding = "partial")
    /\ \A w \in Imported: final[w] # "absent" ~> w \in registry.entries
=============================================================================
