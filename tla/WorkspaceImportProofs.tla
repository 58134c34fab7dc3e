------------------------ MODULE WorkspaceImportProofs ------------------------
(***************************************************************************)
(* The safety invariants of the backup import for every registry limit and *)
(* every number of imports, throwing calls and deaths.                     *)
(***************************************************************************)
EXTENDS WorkspaceImport, TLAPS

(* The inductive invariant.                                                 *)

LiveSteps == {"preflight", "looked", "quiesce", "stop", "prepare", "bind", "createRoot",
              "markRoot", "stage", "extract", "markStaged", "migrate", "await",
              "markMigrated", "validate", "markValidated", "strip", "publish", "ensure",
              "failed", "restore"}
SharedSteps == {"quarantine", "markPublished", "cleanup", "register", "markRegistered",
                "clear", "remove", "discard"}
Elsewhere == {"down", "decide", "exit", "boot", "idle"}

(* The steps that go by the journal they have written or read. *)
Journaled == {"bind", "createRoot", "markRoot", "stage", "extract", "markStaged", "migrate",
              "await", "markMigrated", "validate", "markValidated", "strip", "publish",
              "markPublished", "cleanup", "register", "markRegistered", "ensure", "clear",
              "remove", "discard", "decide"}

(* The steps that put files into the operation directory. *)
Filling == {"createRoot", "markRoot", "stage", "extract", "markStaged", "migrate", "await",
            "markMigrated", "validate", "markValidated", "strip", "publish"}

(* The type invariant in three parts, the two flags aside. *)
DiskTyped ==
    /\ registry \in [active: Workspaces \cup {None}, entries: SUBSET Workspaces]
    /\ journal \in Records(States) \cup {NoJournal}
    /\ binding \in {"absent", "partial", "published"}
    /\ staging \in [Imported -> Stagings]
    /\ final \in [Imported -> Stagings]
    /\ lineage \in [Workspaces -> Lineages]

RunTyped ==
    /\ mode \in {"live", "cold"}
    /\ backend \in {"alive", "absent"} /\ relaunch \in {"unasked", "requested"}
    /\ lifecycle \in {"active", "quiesced", "stopped", "stopFailed"}
    /\ child \in [ws: Imported, job: Jobs] \cup {None}

Counted ==
    ops \in 0 .. MaxImports /\ faults \in 0 .. MaxFaults /\ crashes \in 0 .. MaxCrashes

StepTyped ==
    /\ pc \in LiveSteps \cup SharedSteps \cup Elsewhere
    /\ op \in Records(States \cup {"unwritten"}) \cup {NoJournal}
    /\ pc \notin {"down", "exit", "boot", "idle"} => op # NoJournal
    /\ pc \in LiveSteps => mode = "live"

(* Workspaces that no import has named yet are not listed, so naming one    *)
(* changes no listed profile.                                               *)
NamedBefore ==
    /\ \A w \in registry.entries: w <= ops
    /\ op # NoJournal => op.ws <= ops
    /\ journal # NoJournal => journal.ws <= ops

(* The journal and the record in memory are one; a failed write goes        *)
(* nowhere that relies on it.                                               *)
JournalBound ==
    /\ pc \in {"preflight", "looked", "quiesce", "stop", "prepare"} =>
         journal = NoJournal /\ op.state = "unwritten"
    /\ pc = "boot" => journal = NoJournal
    /\ pc = "quarantine" => \/ mode = "live" /\ journal = NoJournal /\ op.state = "unwritten"
                            \/ mode = "cold" /\ journal = op
    /\ pc \in Journaled => journal = op
    /\ pc = "failed" => journal = IF op.state = "unwritten" THEN NoJournal ELSE op

(* The backend runs only without a journal, and is down before one exists.  *)
BackendFree ==
    /\ backend = "alive" => journal = NoJournal
    /\ pc = "prepare" => backend = "absent"

(* Every operation directory is bound and every unlisted root has its       *)
(* journal.                                                                 *)
Bound ==
    /\ \A w \in Imported: staging[w] # "absent" =>
           binding = "published" /\ journal # NoJournal /\ journal.ws = w
    /\ \A w \in Imported: final[w] # "absent" /\ w \notin registry.entries =>
           journal # NoJournal /\ journal.ws = w
    /\ binding # "absent" => journal # NoJournal
    /\ pc \in {"bind", "remove"} => binding = "absent"
    /\ pc \in Filling => binding = "published"

(* What stands on disk at each step. *)
RootFacts ==
    /\ pc = "migrate" => op.state = "backupStaged"
    /\ pc = "validate" => op.state = "candidateMigrated"
    /\ pc \in {"markValidated", "strip"} => staging[op.ws] = "materialized"
    /\ pc = "publish" => staging[op.ws] = "whole"
    /\ pc \in {"markPublished", "cleanup", "register", "markRegistered", "ensure"} =>
         final[op.ws] = "whole"
    /\ pc \in {"markRegistered", "ensure"} => op.ws \in registry.entries
    /\ pc \in {"clear", "remove"} /\ final[op.ws] # "absent" => op.ws \in registry.entries
    /\ pc = "discard" => final[op.ws] = "absent"

(* A candidate process has a journal, at steps that leave its candidate     *)
(* alone.                                                                   *)
ChildBound ==
    child # None => journal # NoJournal /\ pc \in {"await", "failed", "idle", "down", "exit"}

(* Where decrypted data may lie, and when the application is fenced. *)
PlainBound ==
    /\ plain => \/ pc \in {"looked", "extract", "exit", "down"}
                \/ pc = "quarantine" /\ mode = "cold"
                \/ pc = "idle" /\ fenced
    /\ fenced => pc = "idle"

DiskInv ==
    /\ TypeOK /\ ListedIsWhole /\ OneWorkspacePerLineage /\ StepTyped /\ NamedBefore
    /\ JournalBound /\ BackendFree /\ Bound /\ RootFacts /\ ChildBound

ImportInv == DiskInv /\ PlainBound

----------------------------------------------------------------------------
(* The initial state satisfies the invariant. *)
LEMMA InitInv == Init => ImportInv
<1> SUFFICES ASSUME Init PROVE ImportInv
  OBVIOUS
<1>1. plain \in BOOLEAN /\ fenced \in BOOLEAN /\ ~plain /\ ~fenced
  BY Zenon DEF Init
<1>2. QED
  BY <1>1, ImportAssumption
     DEF Init, ImportInv, DiskInv, TypeOK, ListedIsWhole, OneWorkspacePerLineage, StepTyped,
         NamedBefore, JournalBound, BackendFree, Bound, RootFacts, ChildBound, PlainBound,
         LiveSteps, SharedSteps, Elsewhere, Journaled, Filling, Stagings, Workspaces,
         Imported, Lineages

(* The names of the states. *)
LEMMA StateNames ==
  States = {"prepared", "candidateRootCreated", "backupStaged", "candidateMigrated",
            "candidateValidated", "rootPublished", "registryPublished"}
  BY DEF States, JournalStates

(* What the steps need to know of the sets of workspaces and records. *)
LEMMA Opaque ==
  /\ Imported \subseteq Workspaces /\ 0 \in Workspaces /\ 0 \notin Imported /\ 0 \in Lineages
  /\ None \notin Workspaces /\ None \notin [ws: Imported, job: Jobs]
  /\ \A n \in 0 .. MaxImports: n < MaxImports => n + 1 \in Imported
  /\ Records(States) \subseteq Records(States \cup {"unwritten"})
  BY ImportAssumption DEF Imported, Workspaces, Lineages, Records

(* The type invariant is its parts and the types of the two flags. *)
LEMMA TypeParts ==
  TypeOK <=> /\ DiskTyped /\ RunTyped /\ Counted
             /\ plain \in BOOLEAN /\ fenced \in BOOLEAN
  BY Zenon DEF TypeOK, DiskTyped, RunTyped, Counted

(* A write of the journal advances the record on disk and in memory, or     *)
(* ends in uncertainty with the old or the new record on disk.              *)
LEMMA Written ==
  ASSUME op \in Records(States \cup {"unwritten"}),
         NEW state \in States, NEW ok, WriteJournal(state, ok)
  PROVE  \/ /\ journal' = op' /\ pc' = ok /\ UNCHANGED fenced
            /\ op' \in Records(States) /\ op' # NoJournal
            /\ op'.ws = op.ws /\ op'.state = state
         \/ /\ op' = op /\ Uncertain
            /\ \/ journal' = journal
               \/ /\ journal' \in Records(States) /\ journal' # NoJournal
                  /\ journal'.ws = op.ws
<1> DEFINE next == [op EXCEPT !.state = state]
<1>1. /\ next \in Records(States) /\ next \in Records(States \cup {"unwritten"})
      /\ next.ws = op.ws /\ next.state = state
  BY DEF Records
<1>2. \/ journal' = next /\ op' = next /\ pc' = ok /\ UNCHANGED <<fenced, faults>>
      \/ Fault /\ journal' \in {journal, next} /\ op' = op /\ Uncertain
      \/ Uncertain /\ UNCHANGED <<journal, op, faults>>
  BY DEF WriteJournal, Goes
<1>3. QED
  BY <1>1, <1>2, ImportAssumption

----------------------------------------------------------------------------
(* Types.                                                                   *)

(* The two flags stay Booleans. *)
LEMMA FlagsAreBoolean == TypeOK /\ [Next]_vars => plain' \in BOOLEAN /\ fenced' \in BOOLEAN
<1> SUFFICES ASSUME TypeOK, [Next]_vars PROVE plain' \in BOOLEAN /\ fenced' \in BOOLEAN
  OBVIOUS
<1>1. /\ plain' = plain \/ plain' = TRUE \/ plain' = FALSE
      /\ fenced' = fenced \/ fenced' = (mode = "live") \/ fenced' = FALSE
  BY Zenon
     DEF Next, Command, Shared, Startup, vars, disk, Import, CleanQuarantine, Decrypt,
         Preflight, RemovePlain, Quiesce, Stop, Prepare, WriteJournal, Bind, CreateRoot,
         MarkRoot, Stage, MarkStaged, Spawn, Await, MarkMigrated, MarkValidated, Strip,
         Publish, MarkPublished, Cleanup, Register, MarkRegistered, Ensure, ClearBinding,
         RemoveJournal, HandleFailure, Discard, Restore, Start, Decide, Boot, ChildWorks,
         ChildExits, Quit, Close, Crash, CrashInBind, Gone, Goes, Fails, Uncertain
<1>2. plain \in BOOLEAN /\ fenced \in BOOLEAN
  BY DEF TypeOK
<1>3. QED
  BY <1>1, <1>2, Zenon

(* Every step keeps the counters within their bounds. *)
LEMMA CountedNext == DiskInv /\ [Next]_vars => Counted'
<1> SUFFICES ASSUME DiskInv, [Next]_vars PROVE Counted'
  OBVIOUS
<1>0. Counted
  BY TypeParts DEF DiskInv
<1>1. \/ (faults' = faults \/ Fault) /\ UNCHANGED <<ops, crashes>>
      \/ Import \/ Crash \/ CrashInBind
  BY Zenon
     DEF Next, Command, Shared, Startup, vars, counts, CleanQuarantine, Decrypt,
         Preflight, RemovePlain, Quiesce, Stop, Prepare, WriteJournal, Bind, CreateRoot,
         MarkRoot, Stage, MarkStaged, Spawn, Await, MarkMigrated, MarkValidated, Strip,
         Publish, MarkPublished, Cleanup, Register, MarkRegistered, Ensure, ClearBinding,
         RemoveJournal, HandleFailure, Discard, Restore, Start, Decide, Boot, ChildWorks,
         ChildExits, Quit, Close, Gone, Goes
<1>2. QED
  BY <1>0, <1>1, ImportAssumption DEF Counted, Import, Crash, CrashInBind, Gone, Fault

(* Every step keeps the types of the runtime. *)
LEMMA RunTypedNext == DiskInv /\ [Next]_vars => RunTyped'
<1> SUFFICES ASSUME DiskInv, [Next]_vars PROVE RunTyped'
  OBVIOUS
<1>0. RunTyped /\ StepTyped /\ plain' \in BOOLEAN /\ fenced' \in BOOLEAN
  BY TypeParts, FlagsAreBoolean DEF DiskInv
<1> USE <1>0 DEF RunTyped, local, runtime, Jobs
<1>1. CASE \E job \in Jobs: Spawn(job)
  BY <1>1, ImportAssumption DEF Spawn, StepTyped, Records, LiveSteps
<1>2. CASE Command
  BY <1>1, <1>2
     DEF Command, Decrypt, Preflight, RemovePlain, Quiesce, Stop, Prepare, WriteJournal,
         Bind, CreateRoot, MarkRoot, Stage, MarkStaged, Await, MarkMigrated,
         MarkValidated, Strip, Publish, Ensure, HandleFailure, Restore
<1>3. CASE Shared
  BY <1>3
     DEF Shared, CleanQuarantine, MarkPublished, Cleanup, Register, MarkRegistered,
         Discard, ClearBinding, RemoveJournal
<1>4. CASE Import \/ Startup
  BY <1>4 DEF Import, Startup, Start, Decide, Boot
<1>5. CASE ChildWorks \/ ChildExits
  BY <1>5 DEF ChildWorks, ChildExits
<1>6. CASE Quit \/ Close \/ Crash \/ CrashInBind
  BY <1>6 DEF Quit, Close, Crash, CrashInBind, Gone
<1>7. CASE UNCHANGED vars
  BY <1>7 DEF vars
<1>8. QED
  BY <1>2, <1>3, <1>4, <1>5, <1>6, <1>7 DEF Next


(* Every step keeps the types of what is on disk. *)
LEMMA DiskTypedNext == DiskInv /\ [Next]_vars => DiskTyped'
<1> SUFFICES ASSUME DiskInv, [Next]_vars PROVE DiskTyped'
  OBVIOUS
<1>0. /\ DiskTyped /\ RunTyped /\ Counted /\ StepTyped
      /\ plain' \in BOOLEAN /\ fenced' \in BOOLEAN
  BY TypeParts, FlagsAreBoolean DEF DiskInv
<1> USE <1>0, StateNames, Opaque DEF DiskTyped, disk, counts, Goes
<1>1. CASE Import
  <2>1. PICK p \in Lineages: lineage' = [lineage EXCEPT ![ops'] = p]
    BY <1>1 DEF Import
  <2>2. QED
    BY <1>1, <2>1 DEF Import
<1>2. CASE CleanQuarantine
  BY <1>2 DEF CleanQuarantine, Uncertain, Fault, Stagings
<1>3. CASE Decrypt
  BY <1>3 DEF Decrypt, Uncertain, Fault, Stagings
<1>4. CASE Preflight
  BY <1>4 DEF Preflight, RemovePlain, Fails, Uncertain, Fault, Stagings
<1>5. CASE Quiesce
  BY <1>5 DEF Quiesce, Fault, Stagings
<1>6. CASE Stop
  BY <1>6 DEF Stop, Fault, Fails, Stagings
<1>7. CASE Prepare
  BY <1>7, Written DEF Prepare, Uncertain, StepTyped, LiveSteps
<1>8. CASE Bind
  BY <1>8 DEF Bind, Fault, Uncertain, Stagings
<1>9. CASE CreateRoot
  BY <1>9 DEF CreateRoot, Fault, Fails, Stagings
<1>10. CASE MarkRoot
  BY <1>10, Written DEF MarkRoot, Uncertain, StepTyped, LiveSteps
<1>11. CASE Stage
  BY <1>11 DEF Stage, RemovePlain, Fails, Uncertain, Fault, Stagings
<1>12. CASE MarkStaged
  BY <1>12, Written DEF MarkStaged, Uncertain, StepTyped, LiveSteps
<1>13. CASE \E job \in Jobs: Spawn(job)
  BY <1>13 DEF Spawn, Fault, Fails, Jobs, Stagings
<1>14. CASE Await
  BY <1>14 DEF Await, JobNow, Done, Fault, Fails, Stagings
<1>15. CASE MarkMigrated
  BY <1>15, Written DEF MarkMigrated, Uncertain, StepTyped, LiveSteps
<1>16. CASE MarkValidated
  BY <1>16, Written DEF MarkValidated, Uncertain, StepTyped, LiveSteps
<1>17. CASE Strip
  BY <1>17 DEF Strip, Fault, Fails, Stagings
<1>18. CASE Publish
  BY <1>18 DEF Publish, Fault, Fails, Stagings
<1>19. CASE MarkPublished
  BY <1>19, Written DEF MarkPublished, Uncertain, StepTyped, LiveSteps
<1>20. CASE Cleanup
  BY <1>20 DEF Cleanup, Fault, Fails, ColdNext, Stagings
<1>21. CASE Register
    BY <1>21 DEF Register, Admissible, ListedLineages, WithEntry, Fault, Uncertain,
     StepTyped, Records
<1>22. CASE MarkRegistered
  BY <1>22, Written DEF MarkRegistered, Uncertain, StepTyped, LiveSteps
<1>23. CASE Ensure
  BY <1>23 DEF Ensure, Fault, Fails, Stagings
<1>24. CASE ClearBinding
  BY <1>24 DEF ClearBinding, Fault, Uncertain, Stagings
<1>25. CASE RemoveJournal
  BY <1>25 DEF RemoveJournal, Fault, Uncertain, Stagings
<1>26. CASE HandleFailure
  BY <1>26 DEF HandleFailure, RuntimeAbsent, Fault, Uncertain, Stagings
<1>27. CASE Discard
  BY <1>27 DEF Discard, Remains, Fault, Uncertain, Stagings
<1>28. CASE Restore
  BY <1>28 DEF Restore, Fault, Uncertain, Stagings
<1>29. CASE Start
  BY <1>29 DEF Start, Stagings
<1>30. CASE Decide
  BY <1>30 DEF Decide, Fault, Stagings
<1>31. CASE Boot
  BY <1>31 DEF Boot, Stagings
<1>32. CASE ChildWorks
  BY <1>32 DEF ChildWorks, Passes, Done, RunTyped, Jobs, Stagings
<1>33. CASE ChildExits
  BY <1>33 DEF ChildExits, Stagings
<1>34. CASE Quit
  BY <1>34 DEF Quit, Gone, Stagings
<1>35. CASE Close
  BY <1>35 DEF Close, Gone, Stagings
<1>36. CASE Crash
  BY <1>36 DEF Crash, Gone, Stagings
<1>37. CASE CrashInBind
  BY <1>37 DEF CrashInBind, Stagings
<1>38. CASE UNCHANGED vars
  BY <1>38 DEF vars
<1>39. QED
  BY <1>1, <1>2, <1>3, <1>4, <1>5, <1>6, <1>7, <1>8, <1>9, <1>10, <1>11, <1>12, <1>13,
     <1>14, <1>15, <1>16, <1>17, <1>18, <1>19, <1>20, <1>21, <1>22, <1>23, <1>24,
     <1>25, <1>26, <1>27, <1>28, <1>29, <1>30, <1>31, <1>32, <1>33, <1>34, <1>35,
     <1>36, <1>37, <1>38
     DEF Next, Command, Shared, Startup

(* Every step keeps the step and its record typed. *)
LEMMA StepTypedNext == DiskInv /\ [Next]_vars => StepTyped'
<1> SUFFICES ASSUME DiskInv, [Next]_vars PROVE StepTyped'
  OBVIOUS
<1>0. /\ DiskTyped /\ RunTyped /\ Counted /\ StepTyped
      /\ plain' \in BOOLEAN /\ fenced' \in BOOLEAN
  BY TypeParts, FlagsAreBoolean DEF DiskInv
<1> USE <1>0, StateNames, Opaque, ImportAssumption
    DEF StepTyped, local, Goes, DiskTyped, RunTyped
<1>1. CASE Import
  BY <1>1 DEF Import, Records, Counted, LiveSteps, SharedSteps, Elsewhere
<1>2. CASE CleanQuarantine
  BY <1>2 DEF CleanQuarantine, Uncertain, Fault, LiveSteps, SharedSteps, Elsewhere
<1>3. CASE Decrypt
  BY <1>3 DEF Decrypt, Uncertain, Fault, LiveSteps, SharedSteps, Elsewhere
<1>4. CASE Preflight
    BY <1>4 DEF Preflight, RemovePlain, Fails, Uncertain, Fault, LiveSteps,
     SharedSteps, Elsewhere
<1>5. CASE Quiesce
  BY <1>5 DEF Quiesce, Fault, LiveSteps, SharedSteps, Elsewhere
<1>6. CASE Stop
  BY <1>6 DEF Stop, Fault, Fails, LiveSteps, SharedSteps, Elsewhere
<1>7. CASE Prepare
  BY <1>7, Written DEF Prepare, Uncertain, Fails, LiveSteps, SharedSteps, Elsewhere
<1>8. CASE Bind
  BY <1>8 DEF Bind, Fault, Uncertain, LiveSteps, SharedSteps, Elsewhere
<1>9. CASE CreateRoot
  BY <1>9 DEF CreateRoot, Fault, Fails, LiveSteps, SharedSteps, Elsewhere
<1>10. CASE MarkRoot
  BY <1>10, Written DEF MarkRoot, Uncertain, Fails, LiveSteps, SharedSteps, Elsewhere
<1>11. CASE Stage
    BY <1>11 DEF Stage, RemovePlain, Fails, Uncertain, Fault, LiveSteps,
     SharedSteps, Elsewhere
<1>12. CASE MarkStaged
    BY <1>12, Written DEF MarkStaged, Uncertain, Fails, LiveSteps, SharedSteps,
     Elsewhere
<1>13. CASE \E job \in Jobs: Spawn(job)
  BY <1>13 DEF Spawn, Fault, Fails, Jobs, LiveSteps, SharedSteps, Elsewhere
<1>14. CASE Await
  BY <1>14 DEF Await, JobNow, Done, Fault, Fails, LiveSteps, SharedSteps, Elsewhere
<1>15. CASE MarkMigrated
    BY <1>15, Written DEF MarkMigrated, Uncertain, Fails, LiveSteps, SharedSteps,
     Elsewhere
<1>16. CASE MarkValidated
    BY <1>16, Written DEF MarkValidated, Uncertain, Fails, LiveSteps, SharedSteps,
     Elsewhere
<1>17. CASE Strip
  BY <1>17 DEF Strip, Fault, Fails, LiveSteps, SharedSteps, Elsewhere
<1>18. CASE Publish
  BY <1>18 DEF Publish, Fault, Fails, LiveSteps, SharedSteps, Elsewhere
<1>19. CASE MarkPublished
    BY <1>19, Written DEF MarkPublished, Uncertain, Fails, LiveSteps, SharedSteps,
     Elsewhere
<1>20. CASE Cleanup
  BY <1>20 DEF Cleanup, Fault, Fails, ColdNext, LiveSteps, SharedSteps, Elsewhere
<1>21. CASE Register
    BY <1>21 DEF Register, Admissible, ListedLineages, WithEntry, Fault, Uncertain,
     LiveSteps, SharedSteps, Elsewhere
<1>22. CASE MarkRegistered
    BY <1>22, Written DEF MarkRegistered, Uncertain, Fails, LiveSteps, SharedSteps,
     Elsewhere
<1>23. CASE Ensure
  BY <1>23 DEF Ensure, Fault, Fails, LiveSteps, SharedSteps, Elsewhere
<1>24. CASE ClearBinding
  BY <1>24 DEF ClearBinding, Fault, Uncertain, LiveSteps, SharedSteps, Elsewhere
<1>25. CASE RemoveJournal
  BY <1>25 DEF RemoveJournal, Fault, Uncertain, LiveSteps, SharedSteps, Elsewhere
<1>26. CASE HandleFailure
    BY <1>26 DEF HandleFailure, RuntimeAbsent, Fault, Uncertain, LiveSteps,
     SharedSteps, Elsewhere
<1>27. CASE Discard
  BY <1>27 DEF Discard, Remains, Fault, Uncertain, LiveSteps, SharedSteps, Elsewhere
<1>28. CASE Restore
  BY <1>28 DEF Restore, Fault, Uncertain, LiveSteps, SharedSteps, Elsewhere
<1>29. CASE Start
  BY <1>29 DEF Start, LiveSteps, SharedSteps, Elsewhere
<1>30. CASE Decide
  BY <1>30 DEF Decide, Fault, LiveSteps, SharedSteps, Elsewhere
<1>31. CASE Boot
  BY <1>31 DEF Boot, LiveSteps, SharedSteps, Elsewhere
<1>32. CASE ChildWorks
  BY <1>32 DEF ChildWorks, Passes, Done, LiveSteps, SharedSteps, Elsewhere
<1>33. CASE ChildExits
  BY <1>33 DEF ChildExits, LiveSteps, SharedSteps, Elsewhere
<1>34. CASE Quit
  BY <1>34 DEF Quit, Gone, LiveSteps, SharedSteps, Elsewhere
<1>35. CASE Close
  BY <1>35 DEF Close, Gone, LiveSteps, SharedSteps, Elsewhere
<1>36. CASE Crash
  BY <1>36 DEF Crash, Gone, LiveSteps, SharedSteps, Elsewhere
<1>37. CASE CrashInBind
  BY <1>37 DEF CrashInBind, LiveSteps, SharedSteps, Elsewhere
<1>38. CASE UNCHANGED vars
  BY <1>38 DEF vars, LiveSteps, SharedSteps, Elsewhere
<1>39. QED
  BY <1>1, <1>2, <1>3, <1>4, <1>5, <1>6, <1>7, <1>8, <1>9, <1>10, <1>11, <1>12, <1>13,
     <1>14, <1>15, <1>16, <1>17, <1>18, <1>19, <1>20, <1>21, <1>22, <1>23, <1>24,
     <1>25, <1>26, <1>27, <1>28, <1>29, <1>30, <1>31, <1>32, <1>33, <1>34, <1>35,
     <1>36, <1>37, <1>38
     DEF Next, Command, Shared, Startup

----------------------------------------------------------------------------
(* The registry.                                                            *)

(* Every step keeps listed roots whole and their profiles apart. *)
LEMMA ListedNext == DiskInv /\ [Next]_vars =>
    ListedIsWhole' /\ OneWorkspacePerLineage' /\ NamedBefore'
<1> SUFFICES ASSUME DiskInv, [Next]_vars
             PROVE  ListedIsWhole' /\ OneWorkspacePerLineage' /\ NamedBefore'
  OBVIOUS
<1>0. plain' \in BOOLEAN /\ fenced' \in BOOLEAN
  BY FlagsAreBoolean DEF DiskInv
<1> USE <1>0, ImportAssumption, StateNames, Opaque
    DEF DiskInv, TypeOK, StepTyped, ListedIsWhole, OneWorkspacePerLineage,
        NamedBefore, RootFacts, JournalBound, LiveSteps, SharedSteps, Elsewhere,
        Journaled, Filling, Records, Stagings, disk, local, runtime, counts, Goes,
        Workspaces, Imported
<1>1. CASE Import
  BY <1>1 DEF Import
<1>2. CASE CleanQuarantine
  BY <1>2 DEF CleanQuarantine, Uncertain, Fault
<1>3. CASE Decrypt
  BY <1>3 DEF Decrypt, Uncertain, Fault
<1>4. CASE Preflight
  BY <1>4 DEF Preflight, RemovePlain, Fails, Uncertain, Fault
<1>5. CASE Quiesce
  BY <1>5 DEF Quiesce, Fault
<1>6. CASE Stop
  BY <1>6 DEF Stop, Fault, Fails
<1>7. CASE Prepare
  BY <1>7, Written DEF Prepare, Uncertain, RuntimeAbsent, Fails
<1>8. CASE Bind
  BY <1>8 DEF Bind, Fault, Uncertain
<1>9. CASE CreateRoot
  BY <1>9 DEF CreateRoot, Fault, Fails
<1>10. CASE MarkRoot
  BY <1>10, Written DEF MarkRoot, Uncertain, RuntimeAbsent, Fails
<1>11. CASE Stage
  BY <1>11 DEF Stage, RemovePlain, Fails, Uncertain, Fault
<1>12. CASE MarkStaged
  BY <1>12, Written DEF MarkStaged, Uncertain, RuntimeAbsent, Fails
<1>13. CASE \E job \in Jobs: Spawn(job)
  BY <1>13 DEF Spawn, Fault, Fails, Jobs
<1>14. CASE Await
  BY <1>14 DEF Await, JobNow, Done, Fault, Fails
<1>15. CASE MarkMigrated
  BY <1>15, Written DEF MarkMigrated, Uncertain, RuntimeAbsent, Fails
<1>16. CASE MarkValidated
  BY <1>16, Written DEF MarkValidated, Uncertain, RuntimeAbsent, Fails
<1>17. CASE Strip
  BY <1>17 DEF Strip, Fault, Fails
<1>18. CASE Publish
  BY <1>18 DEF Publish, Fault, Fails
<1>19. CASE MarkPublished
  BY <1>19, Written DEF MarkPublished, Uncertain, RuntimeAbsent, Fails
<1>20. CASE Cleanup
  BY <1>20 DEF Cleanup, Fault, Fails, ColdNext
<1>21. CASE Register
  BY <1>21 DEF Register, Admissible, ListedLineages, WithEntry, Fault, Uncertain
<1>22. CASE MarkRegistered
  BY <1>22, Written DEF MarkRegistered, Uncertain, RuntimeAbsent, Fails
<1>23. CASE Ensure
  BY <1>23 DEF Ensure, Fault, Fails
<1>24. CASE ClearBinding
  BY <1>24 DEF ClearBinding, Fault, Uncertain
<1>25. CASE RemoveJournal
  BY <1>25 DEF RemoveJournal, Fault, Uncertain
<1>26. CASE HandleFailure
  BY <1>26 DEF HandleFailure, RuntimeAbsent, Fault, Uncertain
<1>27. CASE Discard
  BY <1>27 DEF Discard, Remains, Fault, Uncertain
<1>28. CASE Restore
  BY <1>28 DEF Restore, Fault, Uncertain
<1>29. CASE Start
  BY <1>29 DEF Start
<1>30. CASE Decide
  BY <1>30 DEF Decide, Fault
<1>31. CASE Boot
  BY <1>31 DEF Boot
<1>32. CASE ChildWorks
  BY <1>32 DEF ChildWorks, Passes, Done
<1>33. CASE ChildExits
  BY <1>33 DEF ChildExits
<1>34. CASE Quit
  BY <1>34 DEF Quit, Gone
<1>35. CASE Close
  BY <1>35 DEF Close, Gone
<1>36. CASE Crash
  BY <1>36 DEF Crash, Gone
<1>37. CASE CrashInBind
  BY <1>37 DEF CrashInBind
<1>38. CASE UNCHANGED vars
  BY <1>38 DEF vars
<1>39. QED
  BY <1>1, <1>2, <1>3, <1>4, <1>5, <1>6, <1>7, <1>8, <1>9, <1>10, <1>11, <1>12, <1>13,
     <1>14, <1>15, <1>16, <1>17, <1>18, <1>19, <1>20, <1>21, <1>22, <1>23, <1>24,
     <1>25, <1>26, <1>27, <1>28, <1>29, <1>30, <1>31, <1>32, <1>33, <1>34, <1>35,
     <1>36, <1>37, <1>38
     DEF Next, Command, Shared, Startup

----------------------------------------------------------------------------
(* The journal, the binding and the files.                                  *)

(* Every step keeps the record in memory that of the journal. *)
LEMMA JournalNext == DiskInv /\ [Next]_vars => (JournalBound' /\ BackendFree' /\ ChildBound')
<1> SUFFICES ASSUME DiskInv, [Next]_vars PROVE JournalBound' /\ BackendFree' /\ ChildBound'
  OBVIOUS
<1>0. plain' \in BOOLEAN /\ fenced' \in BOOLEAN
  BY FlagsAreBoolean DEF DiskInv
<1> USE <1>0, ImportAssumption, StateNames, Opaque
    DEF DiskInv, TypeOK, StepTyped, JournalBound, BackendFree, ChildBound,
        LiveSteps, SharedSteps, Elsewhere, Journaled, Filling, Records, Stagings,
        disk, local, runtime, counts, Goes
<1>1. CASE Import
  BY <1>1 DEF Import
<1>2. CASE CleanQuarantine
  BY <1>2 DEF CleanQuarantine, Uncertain, Fault
<1>3. CASE Decrypt
  BY <1>3 DEF Decrypt, Uncertain, Fault
<1>4. CASE Preflight
  BY <1>4 DEF Preflight, RemovePlain, Fails, Uncertain, Fault
<1>5. CASE Quiesce
  BY <1>5 DEF Quiesce, Fault
<1>6. CASE Stop
  BY <1>6 DEF Stop, Fault, Fails
<1>7. CASE Prepare
  BY <1>7, Written DEF Prepare, Uncertain, RuntimeAbsent, Fails
<1>8. CASE Bind
  BY <1>8 DEF Bind, Fault, Uncertain
<1>9. CASE CreateRoot
  BY <1>9 DEF CreateRoot, Fault, Fails
<1>10. CASE MarkRoot
  BY <1>10, Written DEF MarkRoot, Uncertain, RuntimeAbsent, Fails
<1>11. CASE Stage
  BY <1>11 DEF Stage, RemovePlain, Fails, Uncertain, Fault
<1>12. CASE MarkStaged
  BY <1>12, Written DEF MarkStaged, Uncertain, RuntimeAbsent, Fails
<1>13. CASE \E job \in Jobs: Spawn(job)
  BY <1>13 DEF Spawn, Fault, Fails, Jobs
<1>14. CASE Await
  BY <1>14 DEF Await, JobNow, Done, Fault, Fails
<1>15. CASE MarkMigrated
  BY <1>15, Written DEF MarkMigrated, Uncertain, RuntimeAbsent, Fails
<1>16. CASE MarkValidated
  BY <1>16, Written DEF MarkValidated, Uncertain, RuntimeAbsent, Fails
<1>17. CASE Strip
  BY <1>17 DEF Strip, Fault, Fails
<1>18. CASE Publish
  BY <1>18 DEF Publish, Fault, Fails
<1>19. CASE MarkPublished
  BY <1>19, Written DEF MarkPublished, Uncertain, RuntimeAbsent, Fails
<1>20. CASE Cleanup
  BY <1>20 DEF Cleanup, Fault, Fails, ColdNext
<1>21. CASE Register
  BY <1>21 DEF Register, Admissible, ListedLineages, WithEntry, Fault, Uncertain
<1>22. CASE MarkRegistered
  BY <1>22, Written DEF MarkRegistered, Uncertain, RuntimeAbsent, Fails
<1>23. CASE Ensure
  BY <1>23 DEF Ensure, Fault, Fails
<1>24. CASE ClearBinding
  BY <1>24 DEF ClearBinding, Fault, Uncertain
<1>25. CASE RemoveJournal
  BY <1>25 DEF RemoveJournal, Fault, Uncertain
<1>26. CASE HandleFailure
  BY <1>26 DEF HandleFailure, RuntimeAbsent, Fault, Uncertain
<1>27. CASE Discard
  BY <1>27 DEF Discard, Remains, Fault, Uncertain
<1>28. CASE Restore
  BY <1>28 DEF Restore, Fault, Uncertain
<1>29. CASE Start
  BY <1>29 DEF Start
<1>30. CASE Decide
  BY <1>30 DEF Decide, Fault
<1>31. CASE Boot
  BY <1>31 DEF Boot
<1>32. CASE ChildWorks
  BY <1>32 DEF ChildWorks, Passes, Done
<1>33. CASE ChildExits
  BY <1>33 DEF ChildExits
<1>34. CASE Quit
  BY <1>34 DEF Quit, Gone
<1>35. CASE Close
  BY <1>35 DEF Close, Gone
<1>36. CASE Crash
  BY <1>36 DEF Crash, Gone
<1>37. CASE CrashInBind
  BY <1>37 DEF CrashInBind
<1>38. CASE UNCHANGED vars
  BY <1>38 DEF vars
<1>39. QED
  BY <1>1, <1>2, <1>3, <1>4, <1>5, <1>6, <1>7, <1>8, <1>9, <1>10, <1>11, <1>12, <1>13,
     <1>14, <1>15, <1>16, <1>17, <1>18, <1>19, <1>20, <1>21, <1>22, <1>23, <1>24,
     <1>25, <1>26, <1>27, <1>28, <1>29, <1>30, <1>31, <1>32, <1>33, <1>34, <1>35,
     <1>36, <1>37, <1>38
     DEF Next, Command, Shared, Startup

(* Every step keeps files bound. *)
LEMMA BoundNext == DiskInv /\ [Next]_vars => Bound'
<1> SUFFICES ASSUME DiskInv, [Next]_vars PROVE Bound'
  OBVIOUS
<1>0. plain' \in BOOLEAN /\ fenced' \in BOOLEAN
  BY FlagsAreBoolean DEF DiskInv
<1> USE <1>0, ImportAssumption, StateNames, Opaque
    DEF DiskInv, TypeOK, StepTyped, JournalBound, Bound, RootFacts, ChildBound,
        LiveSteps, SharedSteps, Elsewhere, Journaled, Filling, Records, Stagings,
        disk, local, runtime, counts, Goes
<1>1. CASE Import
  BY <1>1 DEF Import
<1>2. CASE CleanQuarantine
  BY <1>2 DEF CleanQuarantine, Uncertain, Fault
<1>3. CASE Decrypt
  BY <1>3 DEF Decrypt, Uncertain, Fault
<1>4. CASE Preflight
  BY <1>4 DEF Preflight, RemovePlain, Fails, Uncertain, Fault
<1>5. CASE Quiesce
  BY <1>5 DEF Quiesce, Fault
<1>6. CASE Stop
  BY <1>6 DEF Stop, Fault, Fails
<1>7. CASE Prepare
  BY <1>7, Written DEF Prepare, Uncertain, RuntimeAbsent, Fails
<1>8. CASE Bind
  BY <1>8 DEF Bind, Fault, Uncertain
<1>9. CASE CreateRoot
  BY <1>9 DEF CreateRoot, Fault, Fails
<1>10. CASE MarkRoot
  BY <1>10, Written DEF MarkRoot, Uncertain, RuntimeAbsent, Fails
<1>11. CASE Stage
  <2>1. /\ UNCHANGED <<registry, journal, binding, final>>
        /\ \E s \in Stagings: staging' = [staging EXCEPT ![op.ws] = s]
        /\ binding = "published" /\ journal = op /\ op # NoJournal
        /\ pc' \notin {"bind", "remove"}
    BY <1>11 DEF Stage, RemovePlain, Fails, Uncertain
  <2>2. QED
    BY <2>1
<1>12. CASE MarkStaged
  BY <1>12, Written DEF MarkStaged, Uncertain, RuntimeAbsent, Fails
<1>13. CASE \E job \in Jobs: Spawn(job)
  BY <1>13 DEF Spawn, Fault, Fails, Jobs
<1>14. CASE Await
  BY <1>14 DEF Await, JobNow, Done, Fault, Fails
<1>15. CASE MarkMigrated
  BY <1>15, Written DEF MarkMigrated, Uncertain, RuntimeAbsent, Fails
<1>16. CASE MarkValidated
  BY <1>16, Written DEF MarkValidated, Uncertain, RuntimeAbsent, Fails
<1>17. CASE Strip
  BY <1>17 DEF Strip, Fault, Fails
<1>18. CASE Publish
  BY <1>18 DEF Publish, Fault, Fails
<1>19. CASE MarkPublished
  BY <1>19, Written DEF MarkPublished, Uncertain, RuntimeAbsent, Fails
<1>20. CASE Cleanup
  BY <1>20 DEF Cleanup, Fault, Fails, ColdNext
<1>21. CASE Register
  BY <1>21 DEF Register, Admissible, ListedLineages, WithEntry, Fault, Uncertain
<1>22. CASE MarkRegistered
  BY <1>22, Written DEF MarkRegistered, Uncertain, RuntimeAbsent, Fails
<1>23. CASE Ensure
  BY <1>23 DEF Ensure, Fault, Fails
<1>24. CASE ClearBinding
  BY <1>24 DEF ClearBinding, Fault, Uncertain
<1>25. CASE RemoveJournal
  BY <1>25 DEF RemoveJournal, Fault, Uncertain
<1>26. CASE HandleFailure
  BY <1>26 DEF HandleFailure, RuntimeAbsent, Fault, Uncertain
<1>27. CASE Discard
  BY <1>27 DEF Discard, Remains, Fault, Uncertain
<1>28. CASE Restore
  BY <1>28 DEF Restore, Fault, Uncertain
<1>29. CASE Start
  BY <1>29 DEF Start
<1>30. CASE Decide
  BY <1>30 DEF Decide, Fault
<1>31. CASE Boot
  BY <1>31 DEF Boot
<1>32. CASE ChildWorks
  BY <1>32 DEF ChildWorks, Passes, Done
<1>33. CASE ChildExits
  BY <1>33 DEF ChildExits
<1>34. CASE Quit
  BY <1>34 DEF Quit, Gone
<1>35. CASE Close
  BY <1>35 DEF Close, Gone
<1>36. CASE Crash
  BY <1>36 DEF Crash, Gone
<1>37. CASE CrashInBind
  BY <1>37 DEF CrashInBind
<1>38. CASE UNCHANGED vars
  BY <1>38 DEF vars
<1>39. QED
  BY <1>1, <1>2, <1>3, <1>4, <1>5, <1>6, <1>7, <1>8, <1>9, <1>10, <1>11, <1>12, <1>13,
     <1>14, <1>15, <1>16, <1>17, <1>18, <1>19, <1>20, <1>21, <1>22, <1>23, <1>24,
     <1>25, <1>26, <1>27, <1>28, <1>29, <1>30, <1>31, <1>32, <1>33, <1>34, <1>35,
     <1>36, <1>37, <1>38
     DEF Next, Command, Shared, Startup

(* Every step keeps what stands on disk at it. *)
LEMMA RootNext == DiskInv /\ [Next]_vars => RootFacts'
<1> SUFFICES ASSUME DiskInv, [Next]_vars PROVE RootFacts'
  OBVIOUS
<1>0. plain' \in BOOLEAN /\ fenced' \in BOOLEAN
  BY FlagsAreBoolean DEF DiskInv
<1> USE <1>0, ImportAssumption, StateNames, Opaque
    DEF DiskInv, TypeOK, StepTyped, JournalBound, Bound, RootFacts, ChildBound,
        LiveSteps, SharedSteps, Elsewhere, Journaled, Filling, Records, Stagings,
        disk, local, runtime, counts, Goes
<1>1. CASE Import
  BY <1>1 DEF Import
<1>2. CASE CleanQuarantine
  BY <1>2 DEF CleanQuarantine, Uncertain, Fault
<1>3. CASE Decrypt
  BY <1>3 DEF Decrypt, Uncertain, Fault
<1>4. CASE Preflight
  BY <1>4 DEF Preflight, RemovePlain, Fails, Uncertain, Fault
<1>5. CASE Quiesce
  BY <1>5 DEF Quiesce, Fault
<1>6. CASE Stop
  BY <1>6 DEF Stop, Fault, Fails
<1>7. CASE Prepare
  BY <1>7, Written DEF Prepare, Uncertain, RuntimeAbsent, Fails
<1>8. CASE Bind
  BY <1>8 DEF Bind, Fault, Uncertain
<1>9. CASE CreateRoot
  BY <1>9 DEF CreateRoot, Fault, Fails
<1>10. CASE MarkRoot
  BY <1>10, Written DEF MarkRoot, Uncertain, RuntimeAbsent, Fails
<1>11. CASE Stage
  BY <1>11 DEF Stage, RemovePlain, Fails, Uncertain, Fault
<1>12. CASE MarkStaged
  BY <1>12, Written DEF MarkStaged, Uncertain, RuntimeAbsent, Fails
<1>13. CASE \E job \in Jobs: Spawn(job)
  BY <1>13 DEF Spawn, Fault, Fails, Jobs
<1>14. CASE Await
  BY <1>14 DEF Await, JobNow, Done, Fault, Fails
<1>15. CASE MarkMigrated
  BY <1>15, Written DEF MarkMigrated, Uncertain, RuntimeAbsent, Fails
<1>16. CASE MarkValidated
  BY <1>16, Written DEF MarkValidated, Uncertain, RuntimeAbsent, Fails
<1>17. CASE Strip
  BY <1>17 DEF Strip, Fault, Fails
<1>18. CASE Publish
  BY <1>18 DEF Publish, Fault, Fails
<1>19. CASE MarkPublished
  BY <1>19, Written DEF MarkPublished, Uncertain, RuntimeAbsent, Fails
<1>20. CASE Cleanup
  BY <1>20 DEF Cleanup, Fault, Fails, ColdNext
<1>21. CASE Register
  BY <1>21 DEF Register, Admissible, ListedLineages, WithEntry, Fault, Uncertain
<1>22. CASE MarkRegistered
  BY <1>22, Written DEF MarkRegistered, Uncertain, RuntimeAbsent, Fails
<1>23. CASE Ensure
  BY <1>23 DEF Ensure, Fault, Fails
<1>24. CASE ClearBinding
  BY <1>24 DEF ClearBinding, Fault, Uncertain
<1>25. CASE RemoveJournal
  BY <1>25 DEF RemoveJournal, Fault, Uncertain
<1>26. CASE HandleFailure
  BY <1>26 DEF HandleFailure, RuntimeAbsent, Fault, Uncertain
<1>27. CASE Discard
  BY <1>27 DEF Discard, Remains, Fault, Uncertain
<1>28. CASE Restore
  BY <1>28 DEF Restore, Fault, Uncertain
<1>29. CASE Start
  BY <1>29 DEF Start
<1>30. CASE Decide
  BY <1>30 DEF Decide, Fault
<1>31. CASE Boot
  BY <1>31 DEF Boot
<1>32. CASE ChildWorks
  BY <1>32 DEF ChildWorks, Passes, Done
<1>33. CASE ChildExits
  BY <1>33 DEF ChildExits
<1>34. CASE Quit
  BY <1>34 DEF Quit, Gone
<1>35. CASE Close
  BY <1>35 DEF Close, Gone
<1>36. CASE Crash
  BY <1>36 DEF Crash, Gone
<1>37. CASE CrashInBind
  BY <1>37 DEF CrashInBind
<1>38. CASE UNCHANGED vars
  BY <1>38 DEF vars
<1>39. QED
  BY <1>1, <1>2, <1>3, <1>4, <1>5, <1>6, <1>7, <1>8, <1>9, <1>10, <1>11, <1>12, <1>13,
     <1>14, <1>15, <1>16, <1>17, <1>18, <1>19, <1>20, <1>21, <1>22, <1>23, <1>24,
     <1>25, <1>26, <1>27, <1>28, <1>29, <1>30, <1>31, <1>32, <1>33, <1>34, <1>35,
     <1>36, <1>37, <1>38
     DEF Next, Command, Shared, Startup

----------------------------------------------------------------------------
(* The decrypted payload.                                                   *)

(* Every step keeps decrypted data where a start or a fence meets it. *)
LEMMA PlainNext == ImportInv /\ [Next]_vars => PlainBound'
<1> SUFFICES ASSUME ImportInv, [Next]_vars PROVE PlainBound'
  OBVIOUS
<1>0. /\ plain \in BOOLEAN /\ fenced \in BOOLEAN /\ PlainBound
      /\ plain' \in BOOLEAN /\ fenced' \in BOOLEAN
      /\ mode \in {"live", "cold"} /\ StepTyped /\ JournalBound
  BY FlagsAreBoolean DEF ImportInv, DiskInv, TypeOK
<1> USE <1>0 DEF PlainBound, StepTyped, JournalBound, LiveSteps, SharedSteps, Elsewhere,
             Journaled, disk, local, Goes
<1>1. CASE Import
  BY <1>1 DEF Import
<1>2. CASE CleanQuarantine
  BY <1>2 DEF CleanQuarantine, Uncertain, Fault
<1>3. CASE Decrypt
  BY <1>3 DEF Decrypt, Uncertain, Fault
<1>4. CASE Preflight
  BY <1>4 DEF Preflight, RemovePlain, Fails, Uncertain, Fault
<1>5. CASE Quiesce
  BY <1>5 DEF Quiesce, Fault
<1>6. CASE Stop
  BY <1>6 DEF Stop, Fault, Fails
<1>7. CASE Prepare
  BY <1>7 DEF Prepare, Uncertain, RuntimeAbsent, Fails, WriteJournal
<1>8. CASE Bind
  BY <1>8 DEF Bind, Fault, Uncertain
<1>9. CASE CreateRoot
  BY <1>9 DEF CreateRoot, Fault, Fails
<1>10. CASE MarkRoot
  BY <1>10 DEF MarkRoot, Uncertain, RuntimeAbsent, Fails, WriteJournal
<1>11. CASE Stage
  <2>1. mode = "live" /\ ~fenced
    BY <1>11 DEF Stage
  <2>2. \/ plain' = FALSE /\ pc' \in {"markStaged", "failed"} /\ UNCHANGED fenced
        \/ pc' = "idle" /\ fenced' = TRUE
    <3>1. \/ plain' = FALSE /\ pc' = "markStaged" /\ UNCHANGED fenced
          \/ plain' = FALSE /\ Fails
          \/ Uncertain
      BY <1>11, Zenon DEF Stage, RemovePlain
    <3>2. QED
      BY <3>1, <2>1 DEF Fails, Uncertain
  <2>3. QED
    BY <2>1, <2>2
<1>12. CASE MarkStaged
  BY <1>12 DEF MarkStaged, Uncertain, RuntimeAbsent, Fails, WriteJournal
<1>13. CASE \E job \in Jobs: Spawn(job)
  BY <1>13 DEF Spawn, Fault, Fails, Jobs
<1>14. CASE Await
  BY <1>14 DEF Await, JobNow, Done, Fault, Fails
<1>15. CASE MarkMigrated
  BY <1>15 DEF MarkMigrated, Uncertain, RuntimeAbsent, Fails, WriteJournal
<1>16. CASE MarkValidated
  BY <1>16 DEF MarkValidated, Uncertain, RuntimeAbsent, Fails, WriteJournal
<1>17. CASE Strip
  BY <1>17 DEF Strip, Fault, Fails
<1>18. CASE Publish
  BY <1>18 DEF Publish, Fault, Fails
<1>19. CASE MarkPublished
  BY <1>19 DEF MarkPublished, Uncertain, RuntimeAbsent, Fails, WriteJournal
<1>20. CASE Cleanup
  BY <1>20 DEF Cleanup, Fault, Fails, ColdNext
<1>21. CASE Register
  BY <1>21 DEF Register, Admissible, ListedLineages, WithEntry, Fault, Uncertain
<1>22. CASE MarkRegistered
  BY <1>22 DEF MarkRegistered, Uncertain, RuntimeAbsent, Fails, WriteJournal
<1>23. CASE Ensure
  BY <1>23 DEF Ensure, Fault, Fails
<1>24. CASE ClearBinding
  BY <1>24 DEF ClearBinding, Fault, Uncertain
<1>25. CASE RemoveJournal
  BY <1>25 DEF RemoveJournal, Fault, Uncertain
<1>26. CASE HandleFailure
  BY <1>26 DEF HandleFailure, RuntimeAbsent, Fault, Uncertain
<1>27. CASE Discard
  BY <1>27 DEF Discard, Remains, Fault, Uncertain
<1>28. CASE Restore
  BY <1>28 DEF Restore, Fault, Uncertain
<1>29. CASE Start
  BY <1>29 DEF Start
<1>30. CASE Decide
  BY <1>30 DEF Decide, Fault
<1>31. CASE Boot
  BY <1>31 DEF Boot
<1>32. CASE ChildWorks
  BY <1>32 DEF ChildWorks, Passes, Done
<1>33. CASE ChildExits
  BY <1>33 DEF ChildExits
<1>34. CASE Quit
  BY <1>34 DEF Quit, Gone
<1>35. CASE Close
  BY <1>35 DEF Close, Gone
<1>36. CASE Crash
  BY <1>36 DEF Crash, Gone
<1>37. CASE CrashInBind
  BY <1>37 DEF CrashInBind
<1>38. CASE UNCHANGED vars
  BY <1>38 DEF vars
<1>39. QED
  BY <1>1, <1>2, <1>3, <1>4, <1>5, <1>6, <1>7, <1>8, <1>9, <1>10, <1>11, <1>12, <1>13,
     <1>14, <1>15, <1>16, <1>17, <1>18, <1>19, <1>20, <1>21, <1>22, <1>23, <1>24,
     <1>25, <1>26, <1>27, <1>28, <1>29, <1>30, <1>31, <1>32, <1>33, <1>34, <1>35,
     <1>36, <1>37, <1>38
     DEF Next, Command, Shared, Startup

----------------------------------------------------------------------------
(* Every step keeps the whole invariant. *)
LEMMA NextInv == ImportInv /\ [Next]_vars => ImportInv'
<1> SUFFICES ASSUME ImportInv, [Next]_vars PROVE ImportInv'
  OBVIOUS
<1>1. DiskInv
  BY DEF ImportInv
<1>2. DiskTyped' /\ RunTyped' /\ Counted' /\ plain' \in BOOLEAN /\ fenced' \in BOOLEAN
  BY <1>1, DiskTypedNext, RunTypedNext, CountedNext, FlagsAreBoolean DEF DiskInv
<1>3. TypeOK'
  BY <1>2, Zenon DEF TypeOK, DiskTyped, RunTyped, Counted
<1>4. StepTyped' /\ ListedIsWhole' /\ OneWorkspacePerLineage' /\ NamedBefore'
  BY <1>1, StepTypedNext, ListedNext
<1>5. JournalBound' /\ BackendFree' /\ ChildBound' /\ Bound' /\ RootFacts'
  BY <1>1, JournalNext, BoundNext, RootNext
<1>6. PlainBound'
  BY PlainNext
<1>7. QED
  BY <1>3, <1>4, <1>5, <1>6, Zenon DEF ImportInv, DiskInv

(* The inductive invariant holds in every reachable state of the import and *)
(* of its recovery (workspaceBackupImportCoordinator,                       *)
(* workspaceBackupImportRecovery).                                          *)
THEOREM Invariance == Spec => []ImportInv
  BY InitInv, NextInv, PTL DEF Spec

(* Every operation directory has its binding, every binding its journal,    *)
(* every unlisted root its journal, and a backend runs over none of them:   *)
(* nothing the import leaves behind is without an owner.                    *)
THEOREM FilesAreBound == Spec => []EverythingBound
<1>1. ImportInv => EverythingBound
  BY DEF ImportInv, DiskInv, EverythingBound, Bound, BackendFree
<1>2. QED
  BY <1>1, Invariance, PTL

(* A workspace the registry lists was migrated and materialized, whatever   *)
(* died or threw between createCandidate and publishRegistry.               *)
THEOREM ListingIsLast == Spec => []ListedIsWhole
<1>1. ImportInv => ListedIsWhole
  BY DEF ImportInv, DiskInv
<1>2. QED
  BY <1>1, Invariance, PTL

(* assertImportLineageAvailable, read again at publication, keeps two       *)
(* listed workspaces from having one profile.                               *)
THEOREM ProfilesStayApart == Spec => []OneWorkspacePerLineage
<1>1. ImportInv => OneWorkspacePerLineage
  BY DEF ImportInv, DiskInv
<1>2. QED
  BY <1>1, Invariance, PTL

(* An application that admits commands never has a decrypted payload in its *)
(* quarantine unless it is fenced.                                          *)
THEOREM PlaintextIsFenced == Spec => []NoPlaintextAdmitted
<1>1. ImportInv => NoPlaintextAdmitted
  <2>1. SUFFICES ASSUME ImportInv, pc = "idle", plain PROVE fenced
    BY DEF NoPlaintextAdmitted
  <2>2. QED
    BY <2>1 DEF ImportInv, PlainBound
<1>2. QED
  BY <1>1, Invariance, PTL
=============================================================================
