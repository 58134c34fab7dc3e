-------------------------- MODULE WorkspaceSwitch --------------------------
(***************************************************************************)
(* Switching the active company workspace of the desktop application       *)
(* (workspaceSwitchCoordinator.ts) and the resolution of an unfinished     *)
(* switch at the next start (workspaceSwitchStartup.ts).                   *)
(*                                                                         *)
(* Two durable records survive the process: the registry, whose active     *)
(* pointer names the workspace to open, and the switch journal.  A switch  *)
(* stops the backend of the source, writes journal `prepared', moves the   *)
(* pointer, writes `targetSelected' and relaunches; the new process        *)
(* validates the target and clears the journal, or moves the pointer back, *)
(* writes `rollbackSelected' and relaunches once more.                     *)
(*                                                                         *)
(* Both records are kept by the slot store, which DurableRegister          *)
(* abstracts: a call takes effect wholly or not at all, and may throw      *)
(* either way.  So a storage call is one step here with three ends, and    *)
(* the process may die between any two of them.                            *)
(***************************************************************************)
EXTENDS Naturals

CONSTANTS
    Workspaces,      \* the entries of the registry
    First,           \* the workspace that is active to begin with
    NoWorkspace,     \* no backend has been prepared in this process
    NoJournal,       \* the journal has no record
    MaxSwitches,     \* bound: switches started
    MaxFaults,       \* bound: storage and shutdown calls that throw
    MaxCrashes       \* bound: deaths of the process

JournalStates == {"prepared", "targetSelected", "rollbackSelected", "recoveryRequired"}

(* The record of the switch journal; "unwritten" is the command's own view *)
(* of it before it has been created.                                       *)
Records(states) == [id: Nat, source: Workspaces, target: Workspaces, state: states]

ASSUME SwitchAssumption ==
    /\ First \in Workspaces
    /\ NoWorkspace \notin Workspaces
    /\ NoJournal \notin Records(JournalStates \cup {"unwritten"})
    /\ MaxSwitches \in Nat /\ MaxFaults \in Nat /\ MaxCrashes \in Nat

VARIABLES
    registry,   \* durable: active pointer, and the entries in state ready
    journal,    \* durable: the switch journal
    pc,         \* where the process is
    op,         \* the journal record the running command or startup holds
    serving,    \* the workspace this process was started for
    backend,    \* its backend process: alive or absent
    lifecycle,  \* MainOwnedActiveWorkspaceLifecycle.state
    relaunch,   \* DeferredWorkspaceRuntimeRelaunch: unasked or requested
    validated,  \* history: workspaces that passed a startup's validation
    rejected,   \* history: workspaces a startup's validation turned down
    ops, faults, crashes

disk    == <<registry, journal>>
runtime == <<serving, backend, lifecycle, relaunch>>
ghosts  == <<validated, rejected>>
vars    == <<registry, journal, pc, op, runtime, ghosts, ops, faults, crashes>>

StartupSteps == {"resolve", "reconcile", "admit", "boot", "validate", "accept",
                 "abort", "recover", "reject", "rolledBack", "persist", "exit"}
CommandSteps == {"quiesce", "stop", "prepare", "select", "mark", "rollback",
                 "rollbackMark", "ensure", "ensureFailed", "require"}

Init ==
    /\ registry = [active |-> First, ready |-> Workspaces]
    /\ journal = NoJournal
    /\ pc = "down"
    /\ op = NoJournal
    /\ serving = NoWorkspace /\ backend = "absent"
    /\ lifecycle = "active" /\ relaunch = "unasked"
    /\ validated = {First} /\ rejected = {}
    /\ ops = 0 /\ faults = 0 /\ crashes = 0

----------------------------------------------------------------------------
(* Storage calls.  Each ends at `ok' or throws to `bad'.                    *)

Fault == faults < MaxFaults /\ faults' = faults + 1

Transitions ==
    [prepared         |-> JournalStates,
     targetSelected   |-> JournalStates \ {"prepared"},
     rollbackSelected |-> {"rollbackSelected", "recoveryRequired"},
     recoveryRequired |-> {"recoveryRequired"}]

(* A first record must be `prepared'; a later one continues the same       *)
(* operation and never goes back.                                          *)
CanFollow(next) ==
    IF journal = NoJournal
    THEN next.state = "prepared"
    ELSE /\ next.id = journal.id
         /\ next.source = journal.source
         /\ next.target = journal.target
         /\ next.state \in Transitions[journal.state]

Owned == journal # NoJournal /\ journal.id = op.id

WriteJournal(next, ok, bad) ==
    /\ UNCHANGED registry
    /\ IF CanFollow(next)
       THEN \/ journal' = next /\ pc' = ok /\ UNCHANGED faults
            \/ Fault /\ journal' \in {journal, next} /\ pc' = bad
       ELSE pc' = bad /\ UNCHANGED <<journal, faults>>

ClearJournal(ok, bad) ==
    /\ UNCHANGED registry
    /\ IF Owned
       THEN \/ journal' = NoJournal /\ pc' = ok /\ UNCHANGED faults
            \/ Fault /\ journal' \in {journal, NoJournal} /\ pc' = bad
       ELSE pc' = bad /\ UNCHANGED <<journal, faults>>

WriteRegistry(next, ok, bad) ==
    /\ UNCHANGED journal
    /\ \/ registry' = next /\ pc' = ok /\ UNCHANGED faults
       \/ Fault /\ registry' \in {registry, next} /\ pc' = bad

Select(w) == [registry EXCEPT !.active = w]

At(state) == [op EXCEPT !.state = state]

----------------------------------------------------------------------------
(* The command.  The maintenance lease admits one at a time, so nothing     *)
(* else touches the two records while it runs.  A command that finds a      *)
(* journal, the target already active or the target not ready refuses       *)
(* without effect, and so does one whose first reads throw.                 *)

SwitchTo(target) ==
    /\ pc = "idle"
    /\ journal = NoJournal
    /\ target # registry.active
    /\ target \in registry.ready
    /\ ops < MaxSwitches /\ ops' = ops + 1
    /\ op' = [id |-> ops', source |-> registry.active, target |-> target,
              state |-> "unwritten"]
    /\ pc' = "quiesce"
    /\ UNCHANGED <<disk, runtime, ghosts, faults, crashes>>

(* A shutdown that fails closes what it can: the backend may be gone or     *)
(* still be alive, and the lifecycle says so with stopFailed.               *)
ShutdownFails ==
    /\ Fault
    /\ lifecycle' = "stopFailed"
    /\ backend' \in {backend, "absent"}
    /\ pc' = "ensure"

(* quiesceWrites: a second call joins the first one's result. *)
Quiesce ==
    /\ pc = "quiesce"
    /\ \/ /\ lifecycle = "active" /\ op.source = serving
          /\ \/ lifecycle' = "quiesced" /\ pc' = "stop" /\ UNCHANGED <<backend, faults>>
             \/ ShutdownFails
       \/ /\ lifecycle \in {"quiesced", "stopped"} /\ op.source = serving
          /\ pc' = "stop"
          /\ UNCHANGED <<lifecycle, backend, faults>>
       \/ /\ lifecycle = "stopFailed" \/ op.source # serving
          /\ pc' = "ensure"
          /\ UNCHANGED <<lifecycle, backend, faults>>
    /\ UNCHANGED <<disk, op, serving, relaunch, ghosts, ops, crashes>>

(* stopAndProveHandlesClosed *)
Stop ==
    /\ pc = "stop"
    /\ \/ /\ lifecycle = "quiesced"
          /\ \/ /\ lifecycle' = "stopped" /\ backend' = "absent"
                /\ pc' = "prepare" /\ UNCHANGED faults
             \/ ShutdownFails
       \/ /\ lifecycle = "stopped"
          /\ pc' = "prepare"
          /\ UNCHANGED <<lifecycle, backend, faults>>
    /\ UNCHANGED <<disk, op, serving, relaunch, ghosts, ops, crashes>>

Prepare ==
    /\ pc = "prepare"
    /\ op' = At("prepared")
    /\ WriteJournal(At("prepared"), "select", "rollback")
    /\ UNCHANGED <<runtime, ghosts, ops, crashes>>

SelectTarget ==
    /\ pc = "select"
    /\ WriteRegistry(Select(op.target), "mark", "rollback")
    /\ UNCHANGED <<op, runtime, ghosts, ops, crashes>>

MarkSelected ==
    /\ pc = "mark"
    /\ op' = At("targetSelected")
    /\ WriteJournal(At("targetSelected"), "idle", "rollback")
    /\ relaunch' = IF pc' = "idle" THEN "requested" ELSE relaunch
    /\ UNCHANGED <<serving, backend, lifecycle, ghosts, ops, crashes>>

(* rollbackBeforeRelaunch: put the pointer back, then say so. *)
Rollback ==
    /\ pc = "rollback"
    /\ IF ~Owned \/ registry.active \notin {op.source, op.target}
       THEN pc' = "ensureFailed" /\ UNCHANGED <<disk, faults>>
       ELSE IF registry.active = op.target
       THEN IF op.source \in registry.ready
            THEN WriteRegistry(Select(op.source), "rollbackMark", "ensureFailed")
            ELSE pc' = "ensureFailed" /\ UNCHANGED <<disk, faults>>
       ELSE IF journal.state = "prepared"
       THEN ClearJournal("ensure", "ensureFailed")
       ELSE WriteJournal(At("rollbackSelected"), "ensure", "ensureFailed")
    /\ UNCHANGED <<op, runtime, ghosts, ops, crashes>>

RollbackMark ==
    /\ pc = "rollbackMark"
    /\ WriteJournal(At("rollbackSelected"), "ensure", "ensureFailed")
    /\ UNCHANGED <<op, runtime, ghosts, ops, crashes>>

(* Mutant: the stopped runtime is left down. *)
EnsureWithoutRelaunch ==
    /\ pc \in {"ensure", "ensureFailed"}
    /\ pc' = IF pc = "ensure" /\ lifecycle \in {"active", "stopped"} THEN "idle" ELSE "require"
    /\ UNCHANGED <<disk, op, runtime, ghosts, ops, faults, crashes>>

(* ensurePreviousWorkspaceRunning: a stopped runtime comes back by a        *)
(* relaunch; one that failed to stop cannot.                                *)
Ensure ==
    /\ pc \in {"ensure", "ensureFailed"}
    /\ relaunch' = IF op.source = serving /\ lifecycle = "stopped" THEN "requested" ELSE relaunch
    /\ pc' = IF /\ pc = "ensure" /\ op.source = serving
                /\ lifecycle \in {"active", "stopped"}
             THEN "idle" ELSE "require"
    /\ UNCHANGED <<disk, op, serving, backend, lifecycle, ghosts, ops, faults, crashes>>

(* markRecoveryRequired: best effort. *)
Require ==
    /\ pc = "require"
    /\ IF op.state # "unwritten" /\ Owned
       THEN WriteJournal([journal EXCEPT !.state = "recoveryRequired"], "idle", "idle")
       ELSE pc' = "idle" /\ UNCHANGED <<disk, faults>>
    /\ UNCHANGED <<op, runtime, ghosts, ops, crashes>>

----------------------------------------------------------------------------
(* The next start.                                                          *)

Start ==
    /\ pc = "down"
    /\ pc' = "resolve"
    /\ UNCHANGED <<disk, op, runtime, ghosts, ops, faults, crashes>>

(* resolveWorkspaceSwitchStartup reads the registry and the journal. *)
Resolve ==
    /\ pc = "resolve"
    /\ \/ op' = journal /\ pc' = "reconcile" /\ UNCHANGED faults
       \/ Fault /\ pc' = "exit" /\ UNCHANGED op
    /\ UNCHANGED <<disk, runtime, ghosts, ops, crashes>>

(* Mutant: the pointer is not looked at. *)
ClearAnyPrepared ==
    /\ pc = "reconcile"
    /\ op # NoJournal /\ op.state = "prepared"
    /\ ClearJournal("admit", "exit") /\ op' = NoJournal
    /\ UNCHANGED <<runtime, ghosts, ops, crashes>>

(* A death before or after the pointer moved. *)
ReconcilePrepared ==
    /\ pc = "reconcile"
    /\ op # NoJournal /\ op.state = "prepared"
    /\ IF registry.active = op.source
       THEN ClearJournal("admit", "exit") /\ op' = NoJournal
       ELSE IF registry.active = op.target
       THEN /\ WriteJournal(At("targetSelected"), "admit", "exit")
            /\ op' = At("targetSelected")
       ELSE pc' = "exit" /\ UNCHANGED <<disk, op, faults>>
    /\ UNCHANGED <<runtime, ghosts, ops, crashes>>

(* reconcileInterruptedRollbackSelection: a death between moving the        *)
(* pointer back and saying so.                                              *)
ReconcileRollback ==
    /\ pc = "reconcile"
    /\ op # NoJournal /\ op.state = "targetSelected" /\ registry.active = op.source
    /\ IF op.source # op.target /\ op.source \in registry.ready
       THEN /\ WriteJournal(At("rollbackSelected"), "admit", "persist")
            /\ op' = At("rollbackSelected")
       ELSE pc' = "exit" /\ UNCHANGED <<disk, op, faults>>
    /\ UNCHANGED <<runtime, ghosts, ops, crashes>>

(* resolveMode, where the pair needs no repair. *)
Agree ==
    \/ op = NoJournal
    \/ op.state = "targetSelected" /\ registry.active = op.target
    \/ op.state = "rollbackSelected" /\ registry.active = op.source

Unrepaired ==
    /\ op # NoJournal
    /\ \/ op.state = "prepared"
       \/ op.state = "targetSelected" /\ registry.active = op.source

ReconcileRest ==
    /\ pc = "reconcile"
    /\ ~Unrepaired
    /\ pc' = IF Agree THEN "admit" ELSE "exit"
    /\ UNCHANGED <<disk, op, runtime, ghosts, ops, faults, crashes>>

(* requireActiveReadyWorkspace *)
Admit ==
    /\ pc = "admit"
    /\ IF registry.active \in registry.ready
       THEN pc' = "boot" /\ serving' = registry.active
       ELSE pc' = "exit" /\ UNCHANGED serving
    /\ UNCHANGED <<disk, op, backend, lifecycle, relaunch, ghosts, ops, faults, crashes>>

(* What the startup's own checks conclude is free: the root is inspected,   *)
(* the target's migration history is inspected, the backend is started and  *)
(* the profile is validated.                                                *)
Boot ==
    /\ pc = "boot"
    /\ \/ pc' = "validate" /\ backend' = "alive" /\ UNCHANGED rejected
       \/ /\ pc' = IF op = NoJournal THEN "exit" ELSE "recover"
          /\ rejected' = rejected \cup {serving} /\ UNCHANGED backend
       \/ /\ op # NoJournal /\ op.state = "targetSelected"
          /\ pc' = "reject"
          /\ rejected' = rejected \cup {serving} /\ UNCHANGED backend
    /\ UNCHANGED <<disk, op, serving, lifecycle, relaunch, validated, ops, faults, crashes>>

Validate ==
    /\ pc = "validate"
    /\ \/ pc' = "accept" /\ validated' = validated \cup {serving} /\ UNCHANGED rejected
       \/ pc' = "abort" /\ rejected' = rejected \cup {serving} /\ UNCHANGED validated
    /\ UNCHANGED <<disk, op, runtime, ops, faults, crashes>>

(* Mutant: the record is left behind. *)
AcceptWithJournal ==
    /\ pc = "accept"
    /\ pc' = "idle"
    /\ UNCHANGED <<disk, op, runtime, ghosts, ops, faults, crashes>>

(* accept: the switch is over once its record is gone. *)
Accept ==
    /\ pc = "accept"
    /\ IF op = NoJournal
       THEN pc' = "idle" /\ UNCHANGED <<disk, faults>>
       ELSE ClearJournal("idle", "abort")
    /\ UNCHANGED <<op, runtime, ghosts, ops, crashes>>

(* The startup failed: no recovery may select another workspace while the   *)
(* backend of this one may be alive.                                        *)
Abort ==
    /\ pc = "abort"
    /\ \/ backend' = "absent" /\ pc' = "recover" /\ UNCHANGED faults
       \/ Fault /\ pc' = "exit" /\ UNCHANGED backend
    /\ UNCHANGED <<disk, op, serving, lifecycle, relaunch, ghosts, ops, crashes>>

(* A throwing registry write is read back: it is taken for done only if     *)
(* the registry already shows the source.                                   *)
ReturnToSource(next) ==
    /\ UNCHANGED journal
    /\ \/ registry' = next /\ pc' = "rolledBack" /\ UNCHANGED faults
       \/ Fault /\ UNCHANGED registry /\ pc' = "persist"
       \/ Fault /\ registry' = next /\ pc' \in {"rolledBack", "persist"}

(* Mutant: the journal is written before the pointer moves. *)
RecoverJournalFirst ==
    /\ pc = "recover"
    /\ \/ op = NoJournal /\ pc' = "exit" /\ UNCHANGED <<disk, faults>>
       \/ op # NoJournal /\ WriteJournal(At("rollbackSelected"), "exit", "persist")
    /\ UNCHANGED <<op, runtime, ghosts, ops, crashes>>

(* recoverFromFailure, or requireRecovery after an ambiguous restore of the *)
(* workspace.                                                               *)
Recover ==
    /\ pc = "recover"
    /\ \/ op = NoJournal /\ pc' = "exit" /\ UNCHANGED <<disk, faults>>
       \/ /\ op # NoJournal
          /\ IF /\ op.state = "targetSelected"
                /\ registry.active = op.target /\ op.source \in registry.ready
             THEN ReturnToSource(Select(op.source))
             ELSE pc' = "persist" /\ UNCHANGED <<disk, faults>>
       \/ op # NoJournal /\ Fault /\ pc' = "persist" /\ UNCHANGED disk
    /\ UNCHANGED <<op, runtime, ghosts, ops, crashes>>

(* rejectInvalidTarget: also takes the target out of service. *)
Reject ==
    /\ pc = "reject"
    /\ IF registry.active = op.target /\ {op.source, op.target} \subseteq registry.ready
       THEN ReturnToSource([active |-> op.source, ready |-> registry.ready \ {op.target}])
       ELSE pc' = "persist" /\ UNCHANGED <<disk, faults>>
    /\ UNCHANGED <<op, runtime, ghosts, ops, crashes>>

MarkRolledBack ==
    /\ pc = "rolledBack"
    /\ WriteJournal(At("rollbackSelected"), "exit", "persist")
    /\ UNCHANGED <<op, runtime, ghosts, ops, crashes>>

(* persistRecoveryRequired *)
Persist ==
    /\ pc = "persist"
    /\ IF Owned
       THEN WriteJournal([journal EXCEPT !.state = "recoveryRequired"], "exit", "exit")
       ELSE pc' = "exit" /\ UNCHANGED <<disk, faults>>
    /\ UNCHANGED <<op, runtime, ghosts, ops, crashes>>

----------------------------------------------------------------------------
(* The end of the process; the backend is its child and goes with it.       *)

Gone ==
    /\ pc' = "down"
    /\ op' = NoJournal
    /\ serving' = NoWorkspace /\ backend' = "absent"
    /\ lifecycle' = "active" /\ relaunch' = "unasked"
    /\ UNCHANGED <<disk, ghosts, ops, faults>>

Quit ==
    /\ pc = "exit" \/ (pc = "idle" /\ relaunch = "requested")
    /\ Gone /\ UNCHANGED crashes

(* The user closes the application. *)
Close ==
    /\ pc = "idle"
    /\ Gone /\ UNCHANGED crashes

Crash ==
    /\ pc # "down"
    /\ crashes < MaxCrashes /\ crashes' = crashes + 1
    /\ Gone

----------------------------------------------------------------------------
Command == Quiesce \/ Stop \/ Prepare \/ SelectTarget \/ MarkSelected
             \/ Rollback \/ RollbackMark \/ Ensure \/ Require
Startup == Start \/ Resolve \/ ReconcilePrepared \/ ReconcileRollback \/ ReconcileRest
             \/ Admit \/ Boot \/ Validate \/ Accept \/ Abort
             \/ Recover \/ Reject \/ MarkRolledBack \/ Persist

Next ==
    \/ \E w \in Workspaces: SwitchTo(w)
    \/ Command \/ Startup \/ Quit \/ Close \/ Crash

Spec == Init /\ [][Next]_vars

(* The process keeps going, a requested relaunch happens, and an            *)
(* application that is down is started again; nobody need ask for a switch  *)
(* and nothing need fail.                                                   *)
FairSpec == Spec /\ WF_vars(Command \/ Startup \/ Quit)

----------------------------------------------------------------------------
(* Every variable has its type. *)
TypeOK ==
    /\ registry \in [active: Workspaces, ready: SUBSET Workspaces]
    /\ journal \in Records(JournalStates) \cup {NoJournal}
    /\ pc \in StartupSteps \cup CommandSteps \cup {"down", "idle"}
    /\ op \in Records(JournalStates \cup {"unwritten"}) \cup {NoJournal}
    /\ pc \in CommandSteps => op # NoJournal
    /\ serving \in Workspaces \cup {NoWorkspace}
    /\ backend \in {"alive", "absent"} /\ relaunch \in {"unasked", "requested"}
    /\ lifecycle \in {"active", "quiesced", "stopped", "stopFailed"}
    /\ validated \subseteq Workspaces /\ rejected \subseteq Workspaces
    /\ ops \in 0 .. MaxSwitches
    /\ faults \in 0 .. MaxFaults
    /\ crashes \in 0 .. MaxCrashes

(* Whatever dies or throws between whichever two writes, the next start     *)
(* finds a registry and a journal it can resolve: the pointer names a ready *)
(* end of the unfinished switch, and the source once the journal says       *)
(* rollbackSelected.                                                        *)
StartupResolves ==
    /\ registry.active \in registry.ready
    /\ journal # NoJournal =>
         /\ registry.active \in {journal.source, journal.target}
         /\ journal.state = "rollbackSelected" => registry.active = journal.source

(* With no switch pending the pointer names a workspace that has passed a   *)
(* startup's validation: a journal is never dropped while an untried target *)
(* is selected.                                                             *)
OnlyValidatedStands ==
    journal = NoJournal => registry.active \in validated

(* A backend that is alive outside a startup serves the selected workspace, *)
(* and no switch is pending then.                                           *)
RunsSelection ==
    backend = "alive" /\ pc \in CommandSteps \cup {"idle"} =>
        serving = registry.active /\ journal = NoJournal

(* Process deaths and an unusable target alone never lock the installation: *)
(* recoveryRequired is written only after a call that threw, or when the    *)
(* source itself failed its validation after a rollback.                    *)
LockHasCause ==
    journal # NoJournal /\ journal.state = "recoveryRequired" =>
        faults > 0 \/ journal.source \in rejected

(* The pointer moves only while no backend is alive: two workspaces are     *)
(* never open at once.                                                      *)
SelectionMovesAtRest ==
    [][registry'.active # registry.active => backend = "absent"]_vars

(* Once failures stop, every unfinished switch is resolved at one of the    *)
(* next starts: accepted, rolled back, or marked for recovery.              *)
SwitchSettles ==
    journal # NoJournal ~> (journal = NoJournal \/ journal.state = "recoveryRequired")
=============================================================================
