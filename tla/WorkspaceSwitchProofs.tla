------------------------ MODULE WorkspaceSwitchProofs ------------------------
(***************************************************************************)
(* The invariants of the workspace switch for every set of workspaces and  *)
(* every number of switches, failing calls and deaths of the process.      *)
(***************************************************************************)
EXTENDS WorkspaceSwitch, TLAPS

(* The inductive invariant behind the five invariants of WorkspaceSwitch.   *)

(* The switch a record describes: two workspaces, the source in service and *)
(* validated before.                                                        *)
Sound(r) ==
    /\ r.source # r.target
    /\ r.source \in validated
    /\ r.source \in registry.ready

SameSwitch ==
    /\ journal # NoJournal => Sound(journal)
    /\ op # NoJournal => Sound(op)
    /\ journal # NoJournal /\ op # NoJournal =>
         journal.id = op.id /\ journal.source = op.source /\ journal.target = op.target

BackendAtRest ==
    /\ pc \in {"down", "resolve", "reconcile", "admit", "boot", "recover", "reject",
               "rolledBack", "persist", "prepare", "select", "mark", "rollback",
               "rollbackMark"} => backend = "absent"
    /\ lifecycle = "stopped" => backend = "absent"
    /\ pc \in StartupSteps \cup {"down"} => lifecycle = "active"

CommandFacts ==
    /\ pc \in {"quiesce", "stop", "prepare"} =>
         /\ journal = NoJournal /\ op.state = "unwritten"
         /\ registry.active = op.source /\ op.target \in registry.ready
    /\ pc \in {"select", "mark"} =>
         /\ journal # NoJournal /\ journal.state = "prepared"
         /\ op.target \in registry.ready
    /\ pc = "rollbackMark" => registry.active = op.source
    /\ pc \in {"rollback", "rollbackMark", "ensure", "ensureFailed", "require"}
         /\ op.state # "unwritten" => faults > 0

(* Until it recovers, a startup holds the record on disk; only a clear that *)
(* threw after its effect parts them.                                       *)
StartupFacts ==
    /\ pc \in {"reconcile", "admit", "boot", "validate", "accept"} => journal = op
    /\ pc \in {"abort", "recover", "reject", "rolledBack"} =>
         journal = op \/ (journal = NoJournal /\ faults > 0)
    /\ pc \in {"admit", "boot", "validate", "accept", "abort", "recover", "reject"}
         => Agree
    /\ pc \in {"boot", "validate", "accept", "abort", "recover"} => serving = registry.active
    /\ pc = "accept" => serving \in validated
    /\ pc \in {"abort", "recover"} => faults > 0 \/ serving \in rejected
    /\ pc = "reject" => op # NoJournal /\ op.state = "targetSelected"
    /\ pc = "rolledBack" =>
         op # NoJournal /\ op.state = "targetSelected" /\ registry.active = op.source
    /\ pc = "persist" => op # NoJournal /\ (faults > 0 \/ op.source \in rejected)

SwitchInv ==
    /\ TypeOK /\ StartupResolves /\ OnlyValidatedStands /\ RunsSelection /\ LockHasCause
    /\ SameSwitch /\ BackendAtRest /\ CommandFacts /\ StartupFacts

----------------------------------------------------------------------------
(* The initial state satisfies the invariant. *)
LEMMA InitInv == Init => SwitchInv
  BY SwitchAssumption
     DEF Init, SwitchInv, TypeOK, StartupResolves, OnlyValidatedStands, RunsSelection,
         LockHasCause, SameSwitch, Sound, BackendAtRest, CommandFacts, StartupFacts,
         StartupSteps, CommandSteps

(* Every action keeps the invariant. *)
LEMMA NextInv == SwitchInv /\ [Next]_vars => SwitchInv'
<1> SUFFICES ASSUME SwitchInv, [Next]_vars PROVE SwitchInv'
  OBVIOUS
<1> USE SwitchAssumption
    DEF SwitchInv, TypeOK, StartupResolves, OnlyValidatedStands, RunsSelection,
        LockHasCause, SameSwitch, Sound, BackendAtRest, CommandFacts, StartupFacts,
        StartupSteps, CommandSteps, Records, JournalStates, Agree,
        disk, runtime, ghosts
<1>1. ASSUME NEW w \in Workspaces, SwitchTo(w) PROVE SwitchInv'
  BY <1>1 DEF SwitchTo
<1>2. CASE Quiesce
  BY <1>2 DEF Quiesce, ShutdownFails, Fault
<1>3. CASE Stop
  BY <1>3 DEF Stop, ShutdownFails, Fault
<1>4. CASE Prepare
  BY <1>4 DEF Prepare, WriteJournal, CanFollow, Fault, At, Transitions
<1>5. CASE SelectTarget
  BY <1>5 DEF SelectTarget, WriteRegistry, Fault, Select
<1>6. CASE MarkSelected
  BY <1>6 DEF MarkSelected, WriteJournal, CanFollow, Fault, At, Transitions
<1>7. CASE Rollback
  BY <1>7 DEF Rollback, WriteJournal, WriteRegistry, ClearJournal, Owned, Select, CanFollow, Fault, At, Transitions
<1>8. CASE RollbackMark
  BY <1>8 DEF RollbackMark, WriteJournal, CanFollow, Fault, At, Transitions
<1>9. CASE Ensure
  BY <1>9 DEF Ensure
<1>10. CASE Require
  BY <1>10 DEF Require, WriteJournal, CanFollow, Fault, Transitions, Owned
<1>11. CASE Start
  BY <1>11 DEF Start
<1>12. CASE Resolve
  BY <1>12 DEF Resolve, Fault
<1>13. CASE ReconcilePrepared
  BY <1>13 DEF ReconcilePrepared, ClearJournal, WriteJournal, CanFollow, Owned, Fault, At, Transitions
<1>14. CASE ReconcileRollback
  BY <1>14 DEF ReconcileRollback, WriteJournal, CanFollow, Fault, At, Transitions
<1>15. CASE ReconcileRest
  BY <1>15 DEF ReconcileRest, Unrepaired
<1>16. CASE Admit
  BY <1>16 DEF Admit
<1>17. CASE Boot
  BY <1>17 DEF Boot
<1>18. CASE Validate
  BY <1>18 DEF Validate
<1>19. CASE Accept
  BY <1>19 DEF Accept, ClearJournal, Owned, Fault
<1>20. CASE Abort
  BY <1>20 DEF Abort, Fault
<1>21. CASE Recover
  BY <1>21 DEF Recover, ReturnToSource, Select, Fault
<1>22. CASE Reject
  BY <1>22 DEF Reject, ReturnToSource, Fault
<1>23. CASE MarkRolledBack
  BY <1>23 DEF MarkRolledBack, WriteJournal, CanFollow, Fault, At, Transitions
<1>24. CASE Persist
  BY <1>24 DEF Persist, WriteJournal, CanFollow, Fault, Transitions, Owned
<1>25. CASE Quit
  BY <1>25 DEF Quit, Gone
<1>26. CASE Close
  BY <1>26 DEF Close, Gone
<1>27. CASE Crash
  BY <1>27 DEF Crash, Gone
<1>28. CASE UNCHANGED vars
  BY <1>28 DEF vars
<1>29. QED
  BY <1>1, <1>2, <1>3, <1>4, <1>5, <1>6, <1>7, <1>8, <1>9, <1>10, <1>11, <1>12, <1>13, <1>14, <1>15, <1>16, <1>17, <1>18, <1>19, <1>20, <1>21, <1>22, <1>23, <1>24, <1>25, <1>26, <1>27, <1>28 DEF Next, Command, Startup

----------------------------------------------------------------------------
(* The invariant holds in every reachable state. *)
THEOREM Invariance == Spec => []SwitchInv
  BY InitInv, NextInv, PTL DEF Spec

(* Every variable keeps its type. *)
THEOREM TypeCorrect == Spec => []TypeOK
<1>1. SwitchInv => TypeOK
  BY DEF SwitchInv
<1>2. QED
  BY <1>1, Invariance, PTL

(* Whatever the process was doing when it died, workspaceSwitchStartup.ts   *)
(* finds a registry and a journal that it can resolve.                      *)
THEOREM AlwaysResolvable == Spec => []StartupResolves
<1>1. SwitchInv => StartupResolves
  BY DEF SwitchInv
<1>2. QED
  BY <1>1, Invariance, PTL

(* The switch journal is never dropped while the pointer names a workspace  *)
(* that no startup has validated.                                           *)
THEOREM ValidatedSelection == Spec => []OnlyValidatedStands
<1>1. SwitchInv => OnlyValidatedStands
  BY DEF SwitchInv
<1>2. QED
  BY <1>1, Invariance, PTL

(* A backend that runs outside a startup serves the selected workspace and  *)
(* no switch is pending.                                                    *)
THEOREM BackendMatches == Spec => []RunsSelection
<1>1. SwitchInv => RunsSelection
  BY DEF SwitchInv
<1>2. QED
  BY <1>1, Invariance, PTL

(* Deaths of the process and an unusable target never end in                *)
(* recoveryRequired by themselves.                                          *)
THEOREM NoIdleLock == Spec => []LockHasCause
<1>1. SwitchInv => LockHasCause
  BY DEF SwitchInv
<1>2. QED
  BY <1>1, Invariance, PTL

(* One step moves the active pointer only while no backend is alive. *)
LEMMA MoveAtRest ==
  SwitchInv /\ [Next]_vars => [registry'.active # registry.active => backend = "absent"]_vars
<1> SUFFICES ASSUME SwitchInv, [Next]_vars, registry'.active # registry.active
             PROVE backend = "absent"
  OBVIOUS
<1>1. pc \in {"select", "rollback", "recover", "reject"}
  BY DEF Next, Command, Startup, vars, disk, SwitchTo, Quiesce, Stop, Prepare,
         SelectTarget, MarkSelected, Rollback, RollbackMark, Ensure, Require, Start,
         Resolve, ReconcilePrepared, ReconcileRollback, ReconcileRest, Admit, Boot,
         Validate, Accept, Abort, Recover, Reject, MarkRolledBack, Persist, Quit,
         Close, Crash, Gone, WriteJournal, ClearJournal
<1>2. QED
  BY <1>1 DEF SwitchInv, BackendAtRest

(* The registry's active pointer never moves under a live backend, in a     *)
(* command or in a startup's recovery.                                      *)
THEOREM MovesAtRest == Spec => SelectionMovesAtRest
  BY Invariance, MoveAtRest, PTL DEF Spec, SelectionMovesAtRest
=============================================================================
