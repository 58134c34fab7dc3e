------------------------- MODULE WorkspaceCreation -------------------------
(***************************************************************************)
(* Creating an empty company workspace (emptyWorkspaceCreationCoordinator) *)
(* and finishing or undoing an interrupted creation at the next start,     *)
(* before any backend runs (emptyWorkspaceCreationRecovery).               *)
(*                                                                         *)
(* A creation stops the running backend, writes its journal, makes a       *)
(* candidate directory, lets a child process fill its database, renames    *)
(* the candidate to the workspace's root, adds the registry entry, asks    *)
(* for a relaunch and removes the journal.  The journal, the registry and  *)
(* the two directories survive the process; the child may outlive it.      *)
(*                                                                         *)
(* The records are kept by the slot store (DurableRegister): a call takes  *)
(* effect wholly or not at all and may throw either way.  Workspace 0 is   *)
(* the one that is there to begin with; creation n makes workspace n.      *)
(***************************************************************************)
EXTENDS Naturals, FiniteSets

CONSTANTS
    None,         \* null: no active workspace (the selector), no child
    NoJournal,    \* the journal has no record
    MaxEntries,   \* WORKSPACE_REGISTRY_MAX_ENTRIES
    MaxCreates,   \* bound: creations started
    MaxFaults,    \* bound: calls that throw
    MaxCrashes    \* bound: deaths of the main process

Created    == 1 .. MaxCreates
Workspaces == 0 .. MaxCreates

JournalStates == <<"prepared", "candidateRootCreated", "bootstrapCompleted",
                   "candidateValidated", "rootPublished", "registryPublished">>

States == {JournalStates[i]: i \in DOMAIN JournalStates}

Index(state) == CHOOSE i \in DOMAIN JournalStates: JournalStates[i] = state

Records(states) == [ws: Created, previous: Workspaces \cup {None}, state: states]

ASSUME CreationAssumption ==
    /\ None \notin Nat
    /\ NoJournal \notin Records(States \cup {"unwritten"})
    /\ MaxEntries \in Nat \ {0}
    /\ MaxCreates \in Nat /\ MaxFaults \in Nat /\ MaxCrashes \in Nat

(* The operation directory of a creation: not there; there without a       *)
(* candidate; a candidate whose database is unfinished; the same with      *)
(* SQLite's rollback journal beside the database; a finished candidate.    *)
Stagings == {"absent", "operation", "created", "hot", "bootstrapped"}

VARIABLES
    registry,    \* durable: active pointer and entries
    journal,     \* durable: the creation journal
    staging,     \* durable: operation directory of each creation
    final,       \* durable: what stands at each workspace's root
    pc,
    mode,        \* the coordinator ("live") or the startup recovery ("cold")
    op,          \* the record it works on
    backend,     \* backend process of the active workspace
    lifecycle,   \* state of the active or selector lifecycle
    relaunch,    \* DeferredWorkspaceRuntimeRelaunch
    child,       \* the workspace the candidate process works on
    ops, faults, crashes

disk   == <<registry, journal, staging, final>>
local  == <<mode, op>>
runtime == <<backend, lifecycle, relaunch>>
counts == <<ops, crashes>>
vars   == <<disk, pc, local, runtime, child, counts, faults>>

Init ==
    /\ registry \in [active: {0, None}, entries: {{0}}]
    /\ journal = NoJournal
    /\ staging = [w \in Created |-> "absent"]
    /\ final = [w \in Created |-> "absent"]
    /\ pc = "down" /\ mode = "cold" /\ op = NoJournal
    /\ backend = "absent" /\ lifecycle = "active" /\ relaunch = "unasked"
    /\ child = None
    /\ ops = 0 /\ faults = 0 /\ crashes = 0

----------------------------------------------------------------------------
(* Calls that may throw.                                                    *)

Fault == faults < MaxFaults /\ faults' = faults + 1

(* Where a throw leads: to handleFailure, or out of the startup. *)
Bad == IF mode = "live" THEN "failed" ELSE "exit"

Reached(state) == Index(journal.state) >= Index(state)

(* assertWorkspaceCreationJournalTransition *)
CanFollow(next) ==
    IF journal = NoJournal
    THEN next.state = "prepared"
    ELSE /\ next.ws = journal.ws /\ next.previous = journal.previous
         /\ Index(next.state) - Index(journal.state) \in {0, 1}

WriteJournal(state, ok) ==
    LET next == [op EXCEPT !.state = state] IN
    /\ IF CanFollow(next)
       THEN \/ journal' = next /\ pc' = ok /\ UNCHANGED faults
            \/ Fault /\ journal' \in {journal, next} /\ pc' = Bad
       ELSE pc' = Bad /\ UNCHANGED <<journal, faults>>
    /\ op' = next

(* remove and discardBeforePublication: the same slots, opposite states. *)
DropJournal(published, ok, bad) ==
    IF journal # NoJournal /\ journal.ws = op.ws
         /\ IF published THEN journal.state = "registryPublished" ELSE ~Reached("rootPublished")
    THEN \/ journal' = NoJournal /\ pc' = ok /\ UNCHANGED faults
         \/ Fault /\ journal' \in {journal, NoJournal} /\ pc' = bad
    ELSE pc' = bad /\ UNCHANGED <<journal, faults>>

(* assertNoActiveWorkspaceRuntime: main owns the process reservation and    *)
(* its own backend is down.                                                 *)
RuntimeAbsent ==
    child = None /\ (mode = "live" => lifecycle = "stopped")

----------------------------------------------------------------------------
(* The command, admitted by the operation guard only when no journal is     *)
(* pending, and by the maintenance lease one at a time.                     *)

Create ==
    /\ pc = "idle"
    /\ journal = NoJournal
    /\ ops < MaxCreates /\ ops' = ops + 1
    /\ mode' = "live"
    /\ op' = [ws |-> ops', previous |-> registry.active, state |-> "unwritten"]
    /\ pc' = "quiesce"
    /\ UNCHANGED <<disk, runtime, child, faults, crashes>>

(* A second call joins the first one's result; a failed stop cannot be      *)
(* repaired in this process.                                                *)
Quiesce ==
    /\ pc = "quiesce"
    /\ \/ /\ lifecycle \in {"active", "quiesced", "stopped"}
          /\ lifecycle' = IF lifecycle = "active" THEN "quiesced" ELSE lifecycle
          /\ pc' = "stop" /\ UNCHANGED <<backend, faults>>
       \/ /\ lifecycle = "active" /\ Fault
          /\ lifecycle' = "stopFailed" /\ backend' \in {backend, "absent"}
          /\ pc' = "failed"
       \/ lifecycle = "stopFailed" /\ pc' = "failed" /\ UNCHANGED <<lifecycle, backend, faults>>
    /\ UNCHANGED <<disk, local, relaunch, child, counts>>

(* Mutant: the closed handles are not proved. *)
StopUnproved ==
    /\ pc = "stop"
    /\ lifecycle' = "stopped" /\ backend' \in {backend, "absent"} /\ pc' = "prepare"
    /\ UNCHANGED <<disk, local, relaunch, child, counts, faults>>

Stop ==
    /\ pc = "stop"
    /\ \/ /\ lifecycle' = "stopped" /\ backend' = "absent"
          /\ pc' = "prepare" /\ UNCHANGED faults
       \/ /\ lifecycle = "quiesced" /\ Fault
          /\ lifecycle' = "stopFailed" /\ backend' \in {backend, "absent"}
          /\ pc' = "failed"
    /\ UNCHANGED <<disk, local, relaunch, child, counts>>

(* The registry's capacity and the runtime's absence are tested only now.   *)
Prepare ==
    /\ pc = "prepare"
    /\ IF RuntimeAbsent /\ op.ws \notin registry.entries
            /\ Cardinality(registry.entries) < MaxEntries
       THEN WriteJournal("prepared", "createRoot")
       ELSE pc' = "failed" /\ UNCHANGED <<journal, op, faults>>
    /\ UNCHANGED <<registry, staging, final, mode, runtime, child, counts>>

(* createCandidate makes the operation directory, then the candidate.       *)
CreateRoot ==
    /\ pc = "createRoot"
    /\ \/ /\ staging' = [staging EXCEPT ![op.ws] = "created"]
          /\ pc' = "markRoot" /\ UNCHANGED faults
       \/ /\ Fault
          /\ \E s \in {"absent", "operation", "created"}: staging' = [staging EXCEPT ![op.ws] = s]
          /\ pc' = "failed"
    /\ UNCHANGED <<registry, journal, final, local, runtime, child, counts>>

MarkRoot ==
    /\ pc = "markRoot"
    /\ WriteJournal("candidateRootCreated", "spawn")
    /\ UNCHANGED <<registry, staging, final, mode, runtime, child, counts>>

(* The bootstrap: main hands its reservation to the child it spawns.        *)
Spawn ==
    /\ pc = "spawn"
    /\ \/ child' = op.ws /\ pc' = "await" /\ UNCHANGED faults
       \/ Fault /\ pc' = "failed" /\ UNCHANGED child
    /\ UNCHANGED <<disk, local, runtime, counts>>

(* The child writes in transactions of SQLite's default rollback journal.   *)
ChildWorks ==
    /\ child # None
    /\ staging[child] \in {"created", "hot"}
    /\ \E s \in {"created", "hot", "bootstrapped"}: staging' = [staging EXCEPT ![child] = s]
    /\ UNCHANGED <<registry, journal, final, pc, local, runtime, child, counts, faults>>

(* It ends with its work done, killed, or with the main process gone.       *)
ChildExits ==
    /\ child # None
    /\ child' = None
    /\ UNCHANGED <<disk, pc, local, runtime, counts, faults>>

(* Mutant: the candidate's readiness is not read back. *)
AwaitExitOnly ==
    /\ pc = "await" /\ child = None
    /\ pc' = "markBootstrap"
    /\ UNCHANGED <<disk, local, runtime, child, counts, faults>>

(* Success needs the child's exit and a readable, ready candidate.  A       *)
(* failure (a timeout too) kills the child, whose exit may stay unproved.   *)
AwaitBootstrap ==
    /\ pc = "await"
    /\ \/ /\ child = None /\ staging[op.ws] = "bootstrapped"
          /\ pc' = "markBootstrap" /\ UNCHANGED <<child, faults>>
       \/ /\ child = None /\ staging[op.ws] # "bootstrapped"
          /\ pc' = "failed" /\ UNCHANGED <<child, faults>>
       \/ Fault /\ child' \in {child, None} /\ pc' = "failed"
    /\ UNCHANGED <<disk, local, runtime, counts>>

MarkBootstrap ==
    /\ pc = "markBootstrap"
    /\ IF RuntimeAbsent
       THEN WriteJournal("bootstrapCompleted", "markValidated")
       ELSE pc' = "failed" /\ UNCHANGED <<journal, op, faults>>
    /\ UNCHANGED <<registry, staging, final, mode, runtime, child, counts>>

(* inspectCandidate insists on the exact entries of a finished candidate.   *)
MarkValidated ==
    /\ pc = "markValidated"
    /\ IF staging[op.ws] \in {"created", "bootstrapped"}
       THEN WriteJournal("candidateValidated", "publish")
       ELSE pc' = "failed" /\ UNCHANGED <<journal, op, faults>>
    /\ UNCHANGED <<registry, staging, final, mode, runtime, child, counts>>

(* publishCandidate: one rename, after the registry has been read again.    *)
Publish ==
    /\ pc = "publish"
    /\ \/ /\ registry.active = op.previous /\ op.ws \notin registry.entries
          /\ Cardinality(registry.entries) < MaxEntries
          /\ final[op.ws] = "absent"
          /\ staging[op.ws] \in {"created", "bootstrapped"}
          /\ final' = [final EXCEPT ![op.ws] = staging[op.ws]]
          /\ staging' = [staging EXCEPT ![op.ws] = "operation"]
          /\ \/ pc' = "markPublished" /\ UNCHANGED faults
             \/ Fault /\ pc' = "failed"
       \/ Fault /\ pc' = "failed" /\ UNCHANGED <<staging, final>>
    /\ UNCHANGED <<registry, journal, local, runtime, child, counts>>

MarkPublished ==
    /\ pc = "markPublished"
    /\ WriteJournal("rootPublished", IF mode = "live" THEN "cleanup" ELSE "register")
    /\ UNCHANGED <<registry, staging, final, mode, runtime, child, counts>>

(* What a recovery still has to do once the operation directory is gone.    *)
ColdNext ==
    IF op.ws \in registry.entries
    THEN IF op.state = "rootPublished" THEN "markRegistered" ELSE "remove"
    ELSE IF op.state = "candidateValidated" THEN "markPublished" ELSE "register"

(* Mutant: the operation directory must still be there. *)
CleanupOnce ==
    /\ pc = "cleanup"
    /\ IF staging[op.ws] = "operation"
       THEN /\ staging' = [staging EXCEPT ![op.ws] = "absent"]
            /\ pc' = IF mode = "live" THEN "register" ELSE ColdNext
       ELSE pc' = Bad /\ UNCHANGED staging
    /\ UNCHANGED <<registry, journal, final, local, runtime, child, counts, faults>>

(* cleanupPublishedOperation removes the operation directory if it is there *)
(* and empty.                                                               *)
Cleanup ==
    /\ pc = "cleanup"
    /\ LET gone == [staging EXCEPT ![op.ws] = "absent"] IN
       IF staging[op.ws] \in {"absent", "operation"}
       THEN \/ staging' = gone /\ UNCHANGED faults
               /\ pc' = IF mode = "live" THEN "register" ELSE ColdNext
            \/ Fault /\ staging' \in {staging, gone} /\ pc' = Bad
       ELSE pc' = Bad /\ UNCHANGED <<staging, faults>>
    /\ UNCHANGED <<registry, journal, final, local, runtime, child, counts>>

(* publishWorkspaceEntry, appendRecoveredWorkspaceEntry: the new workspace  *)
(* is listed, not selected.                                                 *)
WithEntry == [registry EXCEPT !.entries = @ \cup {op.ws}]

Register ==
    /\ pc = "register"
    /\ IF op.ws \notin registry.entries /\ Cardinality(registry.entries) < MaxEntries
       THEN \/ registry' = WithEntry /\ pc' = "markRegistered" /\ UNCHANGED faults
            \/ Fault /\ registry' \in {registry, WithEntry} /\ pc' = Bad
       ELSE pc' = Bad /\ UNCHANGED <<registry, faults>>
    /\ UNCHANGED <<journal, staging, final, local, runtime, child, counts>>

MarkRegistered ==
    /\ pc = "markRegistered"
    /\ WriteJournal("registryPublished", IF mode = "live" THEN "ensure" ELSE "remove")
    /\ UNCHANGED <<registry, staging, final, mode, runtime, child, counts>>

(* ensurePreviousWorkspaceRunning *)
Ensure ==
    /\ pc = "ensure"
    /\ \/ lifecycle = "stopped" /\ relaunch' = "requested" /\ pc' = "remove" /\ UNCHANGED faults
       \/ Fault /\ pc' = "undone" /\ UNCHANGED relaunch
    /\ UNCHANGED <<disk, local, backend, lifecycle, child, counts>>

(* The journal goes last; a recovery first asserts that the registry is     *)
(* what it left and that the workspace to continue with is there.           *)
RemoveJournal ==
    /\ pc = "remove"
    /\ DropJournal(TRUE, IF mode = "live" THEN "idle" ELSE "boot",
                   IF mode = "live" THEN "undone" ELSE "exit")
    /\ UNCHANGED <<registry, staging, final, local, runtime, child, counts>>

----------------------------------------------------------------------------
(* handleFailure.  "failed" still owes the caller a relaunch, "undone" has  *)
(* had its one attempt.                                                     *)

Settled == IF pc = "failed" THEN "restore" ELSE "idle"

HandleFailure ==
    /\ pc \in {"failed", "undone"}
    /\ \/ op.state = "unwritten" /\ pc' = Settled /\ UNCHANGED faults
       \/ op.state # "unwritten" /\ ~RuntimeAbsent /\ pc' = Settled /\ UNCHANGED faults
       \/ op.state # "unwritten" /\ Fault /\ pc' = Settled
       \/ /\ op.state # "unwritten" /\ RuntimeAbsent
          /\ pc' = IF \/ journal # NoJournal /\ (journal.ws # op.ws \/ Reached("rootPublished"))
                      \/ final[op.ws] # "absent"
                   THEN Settled ELSE "discard"
          /\ UNCHANGED faults
    /\ UNCHANGED <<disk, local, runtime, child, counts>>

(* discardCandidate removes the operation tree only if it holds nothing but *)
(* what creation puts there; a removal that throws may have removed part.   *)
Remains(s) ==
    CASE s = "bootstrapped" -> {"bootstrapped", "created", "operation", "absent"}
      [] s = "created"      -> {"created", "operation", "absent"}
      [] OTHER              -> {s, "absent"}

(* Mutant: the journal is dropped before the candidate. *)
DiscardJournalFirst ==
    /\ pc = "discard"
    /\ IF journal = NoJournal
       THEN pc' = "idle" /\ UNCHANGED <<journal, faults>>
       ELSE DropJournal(FALSE, "discard", "idle")
    /\ UNCHANGED <<registry, staging, final, local, runtime, child, counts>>

Discard ==
    /\ pc = "discard"
    /\ LET after == IF mode = "cold" \/ journal # NoJournal THEN "drop" ELSE "restore"
           bad   == IF mode = "live" THEN "restore" ELSE "exit" IN
       IF staging[op.ws] = "hot"
       THEN pc' = bad /\ UNCHANGED <<staging, faults>>
       ELSE \/ staging' = [staging EXCEPT ![op.ws] = "absent"] /\ pc' = after /\ UNCHANGED faults
            \/ /\ Fault /\ pc' = bad
               /\ \E s \in Remains(staging[op.ws]): staging' = [staging EXCEPT ![op.ws] = s]
    /\ UNCHANGED <<registry, journal, final, local, runtime, child, counts>>

DiscardJournal ==
    /\ pc = "drop"
    /\ DropJournal(FALSE, IF mode = "live" THEN "restore" ELSE "boot",
                   IF mode = "live" THEN "restore" ELSE "exit")
    /\ UNCHANGED <<registry, staging, final, local, runtime, child, counts>>

(* The previous workspace comes back by a relaunch, unless its backend      *)
(* failed to stop or the candidate process may be alive.                    *)
Restore ==
    /\ pc = "restore"
    /\ relaunch' = IF lifecycle = "stopped" /\ (op.state = "unwritten" \/ child = None)
                   THEN "requested" ELSE relaunch
    /\ pc' = "idle"
    /\ UNCHANGED <<disk, local, backend, lifecycle, child, counts, faults>>

----------------------------------------------------------------------------
(* The next start takes the process reservation, which a child of an        *)
(* earlier process may still hold, recovers, and starts the backend.        *)

Start ==
    /\ pc = "down"
    /\ pc' = IF child = None THEN "recover" ELSE "exit"
    /\ UNCHANGED <<disk, local, runtime, child, counts, faults>>

(* recover: the journal, the registry and the two directories decide.       *)
(* completeFromPublishedRegistry and completeFromPublishedRoot inspect the  *)
(* root and let a child validate its database before they go on.            *)
Recover ==
    /\ pc = "recover"
    /\ op' = journal /\ mode' = "cold"
    /\ \/ /\ pc' = IF journal = NoJournal THEN "boot"
                   ELSE IF staging[journal.ws] \notin {"absent", "operation"}
                             /\ final[journal.ws] # "absent" THEN "exit"
                   ELSE IF journal.ws \in registry.entries
                   THEN IF final[journal.ws] = "bootstrapped" /\ Reached("rootPublished")
                             /\ registry.active = journal.previous
                        THEN "cleanup" ELSE "exit"
                   ELSE IF final[journal.ws] # "absent"
                   THEN IF /\ journal.state \in {"candidateValidated", "rootPublished"}
                           /\ registry.active = journal.previous
                           /\ final[journal.ws] = "bootstrapped"
                        THEN "cleanup" ELSE "exit"
                   ELSE IF Reached("rootPublished") \/ registry.active # journal.previous
                   THEN "exit" ELSE "discard"
          /\ UNCHANGED faults
       \/ Fault /\ pc' = "exit"
    /\ UNCHANGED <<disk, runtime, child, counts>>

(* The rest of the startup; the selector has no backend. *)
Boot ==
    /\ pc = "boot"
    /\ backend' = IF registry.active = None THEN "absent" ELSE "alive"
    /\ lifecycle' = "active"
    /\ pc' = "idle"
    /\ UNCHANGED <<disk, local, relaunch, child, counts, faults>>

(* The end of the process: its backend goes with it, a candidate process    *)
(* may stay a while.                                                        *)
Gone ==
    /\ pc' = "down" /\ mode' = "cold" /\ op' = NoJournal
    /\ backend' = "absent" /\ lifecycle' = "active" /\ relaunch' = "unasked"
    /\ UNCHANGED <<disk, child, ops, faults>>

Quit ==
    /\ pc = "exit" \/ (pc = "idle" /\ relaunch = "requested")
    /\ Gone /\ UNCHANGED crashes

Close ==
    /\ pc = "idle"
    /\ Gone /\ UNCHANGED crashes

Crash ==
    /\ pc # "down"
    /\ crashes < MaxCrashes /\ crashes' = crashes + 1
    /\ Gone

----------------------------------------------------------------------------
Command == Quiesce \/ Stop \/ Prepare \/ CreateRoot \/ MarkRoot \/ Spawn \/ AwaitBootstrap
             \/ MarkBootstrap \/ MarkValidated \/ Publish \/ Ensure \/ HandleFailure \/ Restore
Shared  == MarkPublished \/ Cleanup \/ Register \/ MarkRegistered \/ RemoveJournal
             \/ Discard \/ DiscardJournal
Startup == Start \/ Recover \/ Boot

Next ==
    \/ Create \/ Command \/ Shared \/ Startup
    \/ ChildWorks \/ ChildExits \/ Quit \/ Close \/ Crash

Spec == Init /\ [][Next]_vars

(* The main process keeps going and is started again when it is down; a     *)
(* child ends; an application left without its backend is closed.           *)
FairSpec ==
    /\ Spec
    /\ WF_vars(Command \/ Shared \/ Startup \/ Quit)
    /\ WF_vars(ChildExits)
    /\ WF_vars(Close /\ lifecycle # "active")

----------------------------------------------------------------------------
(* Every variable has its type. *)
TypeOK ==
    /\ registry \in [active: Workspaces \cup {None}, entries: SUBSET Workspaces]
    /\ journal \in Records(States) \cup {NoJournal}
    /\ staging \in [Created -> Stagings]
    /\ final \in [Created -> Stagings]
    /\ mode \in {"live", "cold"}
    /\ backend \in {"alive", "absent"} /\ relaunch \in {"unasked", "requested"}
    /\ lifecycle \in {"active", "quiesced", "stopped", "stopFailed"}
    /\ child \in Created \cup {None}
    /\ ops \in 0 .. MaxCreates /\ faults \in 0 .. MaxFaults /\ crashes \in 0 .. MaxCrashes

(* A workspace the registry lists has a root whose database was finished:   *)
(* whatever died or threw in between, no entry precedes its workspace.      *)
ListedIsWhole ==
    \A w \in registry.entries \ {0}: final[w] = "bootstrapped"

(* Without a journal nothing of a creation is left over: no operation       *)
(* directory, and no root the registry does not list.                       *)
NothingOrphaned ==
    journal = NoJournal =>
        \A w \in Created: /\ staging[w] = "absent"
                          /\ final[w] # "absent" => w \in registry.entries

(* One process at a time owns a database: the candidate process never runs  *)
(* beside the backend of the active workspace, in this run of the           *)
(* application or the next, and its candidate is not removed under it.      *)
OneOwner ==
    /\ TypeOK
    /\ child # None => backend = "absent" /\ staging[child] \notin {"absent", "operation"}

(* Once failures stop, a pending creation is finished or undone at one of   *)
(* the next starts, unless its candidate holds a rollback journal, which no *)
(* start removes; once its root is published it is finished: it ends listed.*)
CreationSettles ==
    /\ journal # NoJournal ~> (journal = NoJournal \/ staging[journal.ws] = "hot")
    /\ \A w \in Created: final[w] # "absent" ~> w \in registry.entries
=============================================================================
