----------------------- MODULE WorkspaceCreationProofs -----------------------
(***************************************************************************)
(* The safety invariants of workspace creation for every registry limit    *)
(* and every number of creations, throwing calls and deaths.               *)
(***************************************************************************)
EXTENDS WorkspaceCreation, TLAPS

(* The inductive invariant.                                                 *)

LiveSteps == {"quiesce", "stop", "prepare", "createRoot", "markRoot", "spawn", "await",
              "markBootstrap", "markValidated", "publish", "ensure", "failed", "undone",
              "restore"}
SharedSteps == {"markPublished", "cleanup", "register", "markRegistered", "remove",
                "discard", "drop"}
Elsewhere == {"down", "recover", "exit", "boot", "idle"}

(* The record a step works on; the command's steps are the coordinator's. *)
StepTyped ==
    /\ pc \in LiveSteps \cup SharedSteps \cup Elsewhere
    /\ op \in Records(States \cup {"unwritten"}) \cup {NoJournal}
    /\ pc \notin Elsewhere => op # NoJournal
    /\ pc \in LiveSteps => mode = "live"

(* The backend is down before anything is written. *)
AtRest ==
    pc \in {"prepare", "createRoot", "markRoot", "spawn", "await"} =>
        lifecycle = "stopped" /\ backend = "absent"

(* The journal is the record the process holds while it goes forward, and   *)
(* at most behind it once a write threw.                                    *)
JournalBound ==
    /\ pc \in {"quiesce", "stop", "prepare"} => journal = NoJournal
    /\ pc \in {"createRoot", "markRoot", "spawn", "await", "markBootstrap", "markValidated",
               "publish", "markPublished", "cleanup", "register", "markRegistered", "ensure",
               "remove"} => journal = op
    /\ pc \in {"failed", "undone", "discard", "drop"} =>
         journal = NoJournal \/ journal.ws = op.ws

(* Only the journal's workspace has anything on disk that the registry does *)
(* not list.                                                                *)
Clean(w) == staging[w] = "absent" /\ (final[w] # "absent" => w \in registry.entries)

OthersClean == \A w \in Created: journal = NoJournal \/ w # journal.ws => Clean(w)

(* What stands on disk at each step. *)
RootFacts ==
    /\ pc \in {"markRoot", "spawn"} => staging[op.ws] = "created"
    /\ pc \in {"markBootstrap", "markValidated", "publish"} => staging[op.ws] = "bootstrapped"
    /\ pc \in {"markPublished", "cleanup", "register", "markRegistered", "ensure", "remove"}
         => final[op.ws] = "bootstrapped"
    /\ pc \in {"register", "markRegistered", "ensure", "remove"} => staging[op.ws] = "absent"
    /\ pc = "markPublished" /\ mode = "cold" => staging[op.ws] = "absent"
    /\ pc \in {"markRegistered", "ensure", "remove"} => op.ws \in registry.entries
    /\ pc \in {"discard", "drop"} => final[op.ws] = "absent"
    /\ pc = "drop" => staging[op.ws] = "absent"

(* A candidate process works for the journal's workspace while no backend   *)
(* runs, at steps that leave its candidate alone.                           *)
ChildBound ==
    child # None =>
        /\ journal # NoJournal /\ journal.ws = child /\ backend = "absent"
        /\ staging[child] \in {"created", "hot", "bootstrapped"}
        /\ pc \in {"await", "failed", "restore", "idle", "down", "exit"}

CreationInv ==
    /\ TypeOK /\ ListedIsWhole /\ StepTyped /\ AtRest /\ JournalBound /\ OthersClean
    /\ RootFacts /\ ChildBound

----------------------------------------------------------------------------
(* The initial state satisfies the invariant. *)
LEMMA InitInv == Init => CreationInv
  BY CreationAssumption
     DEF Init, CreationInv, TypeOK, ListedIsWhole, StepTyped, AtRest, JournalBound,
         OthersClean, Clean, RootFacts, ChildBound, LiveSteps, SharedSteps, Elsewhere,
         Stagings, Workspaces, Created

(* The names of the states. *)
LEMMA StateNames ==
  States = {"prepared", "candidateRootCreated", "bootstrapCompleted", "candidateValidated",
            "rootPublished", "registryPublished"}
  BY DEF States, JournalStates

(* A write of the journal advances the record in memory and leaves on disk  *)
(* what was there or that record.                                           *)
LEMMA Written ==
  ASSUME faults \in 0 .. MaxFaults, op \in Records(States \cup {"unwritten"}),
         NEW state \in States, NEW ok, WriteJournal(state, ok)
  PROVE  /\ op' \in Records(States) /\ op' # NoJournal /\ op'.ws = op.ws
         /\ faults' \in 0 .. MaxFaults
         /\ \/ pc' = ok /\ journal' = op'
            \/ pc' = Bad /\ journal' \in {journal, op'}
         /\ journal' # journal /\ journal # NoJournal => journal.ws = op.ws
<1>1. /\ op' = [op EXCEPT !.state = state]
      /\ op' \in Records(States) /\ op' \in Records(States \cup {"unwritten"}) /\ op'.ws = op.ws
  BY DEF WriteJournal, Records
<1>2. \/ /\ CanFollow(op')
         /\ \/ journal' = op' /\ pc' = ok /\ UNCHANGED faults
            \/ Fault /\ journal' \in {journal, op'} /\ pc' = Bad
      \/ pc' = Bad /\ UNCHANGED <<journal, faults>>
  BY <1>1 DEF WriteJournal
<1>3. faults' \in 0 .. MaxFaults
  BY <1>2, CreationAssumption DEF Fault
<1>4. QED
  BY <1>1, <1>2, <1>3, CreationAssumption DEF CanFollow

(* A removal that throws leaves part of what there was. *)
LEMMA RemainsSmaller ==
  ASSUME NEW s \in Stagings, NEW t \in Remains(s)
  PROVE  t \in Stagings /\ (s = "absent" => t = "absent")
  BY DEF Remains, Stagings

(* Every step keeps the invariant. *)
LEMMA NextInv == CreationInv /\ [Next]_vars => CreationInv'
<1> SUFFICES ASSUME CreationInv, [Next]_vars PROVE CreationInv'
  OBVIOUS
<1> USE CreationAssumption, StateNames
    DEF CreationInv, TypeOK, ListedIsWhole, StepTyped, AtRest, JournalBound, OthersClean,
        Clean, RootFacts, ChildBound, LiveSteps, SharedSteps, Elsewhere, Records, Stagings,
        Workspaces, Created, disk, local, runtime, counts
<1>1. CASE Create
  BY <1>1 DEF Create
<1>2. CASE Quiesce
  BY <1>2 DEF Quiesce, Fault
<1>3. CASE Stop
  BY <1>3 DEF Stop, Fault
<1>4. CASE Prepare
  <2>1. CASE UNCHANGED <<journal, op, faults>> /\ pc' = "failed"
    BY <1>4, <2>1 DEF Prepare
  <2>2. CASE RuntimeAbsent /\ WriteJournal("prepared", "createRoot")
    BY <1>4, <2>2, Written DEF Prepare, RuntimeAbsent, Bad
  <2>3. QED
    BY <1>4, <2>1, <2>2 DEF Prepare
<1>5. CASE CreateRoot
  BY <1>5 DEF CreateRoot, Fault
<1>6. CASE MarkRoot
  BY <1>6, Written DEF MarkRoot, Bad
<1>7. CASE Spawn
  BY <1>7 DEF Spawn, Fault
<1>8. CASE AwaitBootstrap
  BY <1>8 DEF AwaitBootstrap, Fault
<1>9. CASE MarkBootstrap
  BY <1>9, Written DEF MarkBootstrap, Bad
<1>10. CASE MarkValidated
  BY <1>10, Written DEF MarkValidated, Bad
<1>11. CASE Publish
  BY <1>11 DEF Publish, Fault
<1>12. CASE Ensure
  BY <1>12 DEF Ensure, Fault
<1>13. CASE HandleFailure
  BY <1>13 DEF HandleFailure, Fault, RuntimeAbsent, Settled
<1>14. CASE Restore
  BY <1>14 DEF Restore
<1>15. CASE MarkPublished
  BY <1>15, Written DEF MarkPublished, Bad
<1>16. CASE Cleanup
  BY <1>16 DEF Cleanup, Fault, Bad, ColdNext
<1>17. CASE Register
  BY <1>17 DEF Register, WithEntry, Fault, Bad
<1>18. CASE MarkRegistered
  BY <1>18, Written DEF MarkRegistered, Bad
<1>19. CASE RemoveJournal
  BY <1>19 DEF RemoveJournal, DropJournal, Fault
<1>20. CASE Discard
  <2>1. /\ op \in Records(States \cup {"unwritten"}) /\ op.ws \in Created
        /\ UNCHANGED <<registry, journal, final, local, runtime, child, counts>>
        /\ child = None /\ pc = "discard" /\ final[op.ws] = "absent"
        /\ journal = NoJournal \/ journal.ws = op.ws
    BY <1>20 DEF Discard
  <2>2. /\ staging' \in [Created -> Stagings]
        /\ \A w \in Created: w # op.ws => staging'[w] = staging[w]
        /\ staging[op.ws] = "absent" => staging'[op.ws] = "absent"
    <3>1. \/ staging' = staging
          \/ \E t \in Remains(staging[op.ws]) \cup {"absent"}:
               staging' = [staging EXCEPT ![op.ws] = t]
      BY <1>20 DEF Discard
    <3>2. \A t \in Remains(staging[op.ws]):
            t \in Stagings /\ (staging[op.ws] = "absent" => t = "absent")
      BY <2>1, RemainsSmaller
    <3>3. QED
      BY <2>1, <3>1, <3>2
  <2>3. /\ pc' \in {"drop", "restore", "exit"} /\ faults' \in 0 .. MaxFaults
        /\ pc' = "drop" => staging'[op.ws] = "absent"
        /\ pc' = "restore" => mode = "live"
    BY <1>20, <2>1 DEF Discard, Fault
  <2>4. QED
    BY <2>1, <2>2, <2>3
<1>21. CASE DiscardJournal
  BY <1>21 DEF DiscardJournal, DropJournal, Fault
<1>22. CASE Start
  BY <1>22 DEF Start
<1>23. CASE Recover
  BY <1>23 DEF Recover, Fault
<1>24. CASE Boot
  BY <1>24 DEF Boot
<1>25. CASE ChildWorks
  BY <1>25 DEF ChildWorks
<1>26. CASE ChildExits
  BY <1>26 DEF ChildExits
<1>27. CASE Quit
  BY <1>27 DEF Quit, Gone
<1>28. CASE Close
  BY <1>28 DEF Close, Gone
<1>29. CASE Crash
  BY <1>29 DEF Crash, Gone
<1>30. CASE UNCHANGED vars
  BY <1>30 DEF vars
<1>31. QED
  BY <1>1, <1>2, <1>3, <1>4, <1>5, <1>6, <1>7, <1>8, <1>9, <1>10, <1>11, <1>12, <1>13,
     <1>14, <1>15, <1>16, <1>17, <1>18, <1>19, <1>20, <1>21, <1>22, <1>23, <1>24, <1>25,
     <1>26, <1>27, <1>28, <1>29, <1>30
     DEF Next, Command, Shared, Startup

----------------------------------------------------------------------------
(* The invariant holds in every reachable state. *)
THEOREM Invariance == Spec => []CreationInv
  BY InitInv, NextInv, PTL DEF Spec

(* publishWorkspaceEntry and appendRecoveredWorkspaceEntry never list a     *)
(* workspace before its finished root stands.                               *)
THEOREM EntriesAreWhole == Spec => []ListedIsWhole
<1>1. CreationInv => ListedIsWhole
  BY DEF CreationInv
<1>2. QED
  BY <1>1, Invariance, PTL

(* The journal outlives everything a creation has put on disk and not       *)
(* published.                                                               *)
THEOREM JournalOutlives == Spec => []NothingOrphaned
<1>1. CreationInv => NothingOrphaned
  BY DEF CreationInv, NothingOrphaned, OthersClean, Clean
<1>2. QED
  BY <1>1, Invariance, PTL

(* The candidate process never runs beside a backend and never loses its    *)
(* candidate, even when it outlives the process that spawned it.            *)
THEOREM SingleOwner == Spec => []OneOwner
<1>1. CreationInv => OneOwner
  BY DEF CreationInv, OneOwner, ChildBound
<1>2. QED
  BY <1>1, Invariance, PTL
=============================================================================
