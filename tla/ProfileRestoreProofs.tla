------------------------ MODULE ProfileRestoreProofs ------------------------
(***************************************************************************)
(* The safety invariants of the profile restore for every number of        *)
(* restores, throwing calls and deaths of the process.                     *)
(***************************************************************************)
EXTENDS ProfileRestore, FiniteSetTheorems, TLAPS

(* The inductive invariant.                                                 *)

(* A first write has nothing to set aside, and only the first phase is ever *)
(* written first.                                                           *)
Writing ==
    goal # None =>
      /\ \/ next = None /\ backup = None /\ current # goal
         \/ next \in {Empty, goal} /\ backup = None /\ current # goal
         \/ next = goal /\ current = None /\ backup \notin {None, goal}
         \/ next = None /\ current = goal
      /\ current = None /\ backup = None => goal = "prepared"

(* Which phases each step of the main process can meet and write. *)
StepFacts ==
    /\ pc \in {"serving", "maintenance"} => Selected = None /\ goal = None
    /\ pc \in {"creating", "fenced"} =>
         Selected \in {None, Empty, "prepared"} /\ goal \in {None, "prepared"} /\ ~accepted
    /\ pc = "forward" => IsForward(Selected) /\ (goal = None \/ IsForward(goal))
    /\ pc = "rollback" => /\ IsForward(Selected) \/ Selected \in {"rollbackStarting", "rolledBack"}
                          /\ goal \in {None, "rollbackStarting", "rolledBack"}
    /\ pc \in {"trial", "cleaning"} =>
         Selected \in {"validationStarting", "accepted", "rolledBack"}
    /\ pc \in {"trial", "off", "fenced"} => goal = None
    /\ pc = "cleaning" => /\ goal \in {None, "accepted"}
                          /\ goal = "accepted" => Selected # "rolledBack"
    /\ pc = "blocked" => /\ goal \in {None, "failedSafe"}
                         /\ goal = "failedSafe" => Selected \in {"rollbackStarting", "failedSafe"}

(* What is staged is untouched until the activation begins. *)
StagedFacts ==
    pc = "maintenance" => /\ ~accepted /\ stagingAt = "staging" /\ ~failedRoot
                          /\ rollback = NoPart /\ staged = NewProfile

(* A backend runs only where no file is moved. *)
BackendFacts ==
    /\ pc \in {"off", "forward", "rollback"} => backend = "off"
    /\ pc = "blocked" => \/ backend = "off"
                         \/ goal = None /\ Selected = "validationStarting"

(* The flag is what the journal says while there is one. *)
Verdict ==
    /\ Selected = "accepted" => accepted
    /\ Selected \notin {None, "accepted"} => ~accepted

(* Without a phase on disk the decided profile is in place. *)
Decided ==
    Selected \in {None, Empty} => active = IF accepted THEN NewProfile ELSE OldProfile

(* What the census of each forward phase expects of a part, by how far the  *)
(* part has come.                                                           *)
Before(p)     == ((active[p] # Absent) <=> p \in had) /\ rollback[p] = Absent /\ staged[p] # Absent
Leaving(p)    == /\ staged[p] # Absent
                 /\ \/ p \in had /\ active[p] # Absent /\ rollback[p] = Absent
                    \/ p \in had /\ active[p] = Absent /\ rollback[p] # Absent
                    \/ p \notin had /\ active[p] = Absent /\ rollback[p] = Absent
Aside(p)      == active[p] = Absent /\ ((rollback[p] # Absent) <=> p \in had) /\ staged[p] # Absent
Arriving(p)   == /\ (active[p] # Absent) <=> (staged[p] = Absent)
                 /\ (rollback[p] # Absent) <=> p \in had
Arrived(p)    == active[p] # Absent /\ staged[p] = Absent /\ ((rollback[p] # Absent) <=> p \in had)

Progress(ph) ==
  /\ ph = "prepared" => Before("db") /\ Before("docs")
  /\ ph = "movingCurrentDatabase" => Leaving("db") /\ Before("docs")
  /\ ph = "currentDatabaseMoved" => Aside("db") /\ Before("docs")
  /\ ph = "movingCurrentDocuments" => Aside("db") /\ Leaving("docs")
  /\ ph = "currentDocumentsMoved" => Aside("db") /\ Aside("docs")
  /\ ph = "activatingStagedDatabase" => Arriving("db") /\ Aside("docs")
  /\ ph = "stagedDatabaseActivated" => Arrived("db") /\ Aside("docs")
  /\ ph = "activatingStagedDocuments" => Arrived("db") /\ Arriving("docs")
  /\ ph \in {"stagedDocumentsActivated", "validationStarting"} =>
       Arrived("db") /\ Arrived("docs")

(* What the files look like in a phase. *)
Fits(ph) ==
    /\ IsForward(ph) =>
         /\ stagingAt = "staging" /\ rollbackRoot
         /\ failedRoot => ph = "validationStarting"
         /\ Progress(ph)
    /\ ph \in {"rollbackStarting", "rolledBack"} => RollbackAdmits(ph)
    /\ ph = "accepted" => active = NewProfile

(* Each part of the restored profile is in one place, and until it is       *)
(* accepted so is each part of the replaced one.                            *)
Place(p) ==
    /\ \/ staged[p] = op /\ active[p] # op /\ failed[p] = Absent
       \/ staged[p] = Absent /\ active[p] = op /\ failed[p] = Absent
       \/ staged[p] = Absent /\ active[p] # op /\ failed[p] = op
    /\ ~accepted => \/ p \in had /\ active[p] = base /\ rollback[p] = Absent
                    \/ p \in had /\ active[p] # base /\ rollback[p] = base
                    \/ p \notin had /\ active[p] # base /\ rollback[p] = Absent

Placed == op > 0 => base < op /\ \A p \in Parts : Place(p)

Unstarted ==
    op = 0 => base = 0 /\ Selected = None /\ goal = None /\ pc \in {"serving", "off"} /\ ~accepted

RestoreInv ==
    /\ TypeOK /\ "db" \in had
    /\ Writing /\ StepFacts /\ StagedFacts /\ BackendFacts /\ Verdict /\ Decided
    /\ Fits(Selected) /\ Fits(goal)
    /\ Placed /\ Unstarted

-----------------------------------------------------------------------------
(* Phases.                                                                  *)

(* The phases by name. *)
LEMMA PhaseNames ==
  /\ \A ph : IsForward(ph) <=>
       ph \in {"prepared", "movingCurrentDatabase", "currentDatabaseMoved",
               "movingCurrentDocuments", "currentDocumentsMoved",
               "activatingStagedDatabase", "stagedDatabaseActivated",
               "activatingStagedDocuments", "stagedDocumentsActivated",
               "validationStarting"}
  /\ \A ph : ph \in Phases <=>
       IsForward(ph) \/ ph \in {"accepted", "rollbackStarting", "rolledBack", "failedSafe"}
  BY DEF IsForward, Phases, ToSet, Forward

(* The order of the forward phases. *)
LEMMA PhaseOrder ==
  /\ Index("prepared") = 1 /\ Index("movingCurrentDatabase") = 2
  /\ Index("currentDatabaseMoved") = 3 /\ Index("movingCurrentDocuments") = 4
  /\ Index("currentDocumentsMoved") = 5 /\ Index("activatingStagedDatabase") = 6
  /\ Index("stagedDatabaseActivated") = 7 /\ Index("activatingStagedDocuments") = 8
  /\ Index("stagedDocumentsActivated") = 9 /\ Index("validationStarting") = 10
  BY DEF Index, Forward

(* What follows each of them. *)
LEMMA PhaseSuccessors ==
  /\ Forward[2] = "movingCurrentDatabase" /\ Forward[3] = "currentDatabaseMoved"
  /\ Forward[4] = "movingCurrentDocuments" /\ Forward[5] = "currentDocumentsMoved"
  /\ Forward[6] = "activatingStagedDatabase" /\ Forward[7] = "stagedDatabaseActivated"
  /\ Forward[8] = "activatingStagedDocuments" /\ Forward[9] = "stagedDocumentsActivated"
  /\ Forward[10] = "validationStarting"
  BY DEF Forward

(* The census read by phase. *)
LEMMA Census ==
  ASSUME NEW ph, IsForward(ph)
  PROVE  (\A p \in Parts : ForwardSlot(p, ph)) <=> Progress(ph)
  BY PhaseNames, PhaseOrder
     DEF ForwardSlot, Progress, Before, Leaving, Aside, Arriving, Arrived, Parts

-----------------------------------------------------------------------------
(* The journal.                                                             *)

(* A repair keeps the selected phase. *)
LEMMA RepairKeeps ==
  ASSUME TypeOK, Repair
  PROVE  Selected' = Selected /\ goal' = None
  BY PhaseNames DEF TypeOK, Repair, Selected, Clean, None, Empty

(* A step of a write leaves the selected phase, makes a first write         *)
(* unreadable, or selects the phase that is being written.                  *)
LEMMA WriteSelects ==
  ASSUME TypeOK, Writing, WriteJournal
  PROVE  /\ Writing' /\ goal' \in {goal, None}
         /\ \/ Selected' = Selected
            \/ Selected' = Empty /\ Selected = None /\ goal = "prepared" /\ goal' = goal
            \/ Selected' = goal
         /\ current' = "accepted" => Selected' = "accepted" /\ "accepted" \in {Selected, goal}
  BY PhaseNames DEF TypeOK, Writing, WriteJournal, Selected, Clean, None, Empty

(* What the files look like does not depend on the journal. *)
LEMMA FitsFrame ==
  ASSUME UNCHANGED <<content, choice>>
  PROVE  \A ph : Fits(ph) => Fits(ph)'
<1> SUFFICES ASSUME NEW ph PROVE Fits(ph) => Fits(ph)'
  OBVIOUS
<1> QED
  BY DEF Fits, Progress, Before, Leaving, Aside, Arriving, Arrived, RollbackAdmits,
         RollbackSlot, NewProfile, content, choice

(* Files fit where there is no phase. *)
LEMMA FitsNoPhase == Fits(None) /\ Fits(Empty) /\ Fits("failedSafe")
  BY PhaseNames DEF Fits, None, Empty

(* The selected phase depends on the three files only, and is the current   *)
(* file's once a write is over.                                             *)
LEMMA SelectedIs ==
  /\ UNCHANGED <<current, backup, next>> => Selected' = Selected
  /\ Clean => Selected = current
  BY DEF Selected, Clean

-----------------------------------------------------------------------------
(* The moves.                                                               *)

(* A part of the old profile goes aside, a part of the new one comes in; in *)
(* a rollback the new one goes out and the old one comes back.              *)
GoesAside(p) ==
    /\ current = IF p = "db" THEN "movingCurrentDatabase" ELSE "movingCurrentDocuments"
    /\ p \in had /\ active[p] = base /\ rollback[p] = Absent /\ staged[p] = op
    /\ active' = [active EXCEPT ![p] = Absent] /\ rollback' = [rollback EXCEPT ![p] = base]
    /\ UNCHANGED <<staged, failed>>

ComesIn(p) ==
    /\ current = IF p = "db" THEN "activatingStagedDatabase" ELSE "activatingStagedDocuments"
    /\ active[p] = Absent /\ staged[p] = op /\ failed[p] = Absent
    /\ active' = [active EXCEPT ![p] = op] /\ staged' = [staged EXCEPT ![p] = Absent]
    /\ UNCHANGED <<rollback, failed>>

GoesOut(p) ==
    /\ active[p] = op /\ failed[p] = Absent /\ staged[p] = Absent
    /\ rollback[p] = IF p \in had THEN base ELSE Absent
    /\ active' = [active EXCEPT ![p] = Absent] /\ failed' = [failed EXCEPT ![p] = op]
    /\ UNCHANGED <<rollback, staged>>

ComesBack(p) ==
    /\ p \in had /\ active[p] = Absent /\ rollback[p] = base
    /\ active' = [active EXCEPT ![p] = base] /\ rollback' = [rollback EXCEPT ![p] = Absent]
    /\ UNCHANGED <<staged, failed>>

(* A move of the activation is one of the first two. *)
LEMMA AdvanceMoves ==
  ASSUME RestoreInv, Advance, Move(current), UNCHANGED failed
  PROVE  ~accepted /\ \E p \in Parts : GoesAside(p) \/ ComesIn(p)
<1>1. Selected = current /\ IsForward(current) /\ current # None /\ ~accepted
  BY SelectedIs, PhaseNames DEF Advance, Idle, RestoreInv, Verdict, None
<1>2. op > 0 /\ \A p \in Parts : Place(p)
  BY <1>1 DEF RestoreInv, Placed, Unstarted, TypeOK
<1>3. Progress(current)
  BY <1>1 DEF RestoreInv, Fits
<1>4. \A p \in Parts : /\ active[p] \in {Absent, base, op} /\ rollback[p] \in {Absent, base}
                       /\ staged[p] \in {Absent, op} /\ failed[p] \in {Absent, op}
  BY DEF RestoreInv, TypeOK
<1>5. QED
  BY <1>1, <1>2, <1>3, <1>4
     DEF Move, MoveAside, Activate, Parts, Place, Progress, Before, Leaving, Aside, Arriving,
         GoesAside, ComesIn

(* A move of the rollback is one of the other two. *)
LEMMA RollbackMoves ==
  ASSUME RestoreInv, RestorePrevious, NEW p \in Parts, RollbackPart(p), UNCHANGED staged
  PROVE  ~accepted /\ (GoesOut(p) \/ ComesBack(p))
<1>1. Selected = "rollbackStarting" /\ ~accepted
  BY SelectedIs DEF RestorePrevious, Idle, RestoreInv, Verdict, None
<1>2. op > 0 /\ Place(p)
  BY <1>1 DEF RestoreInv, Placed, Unstarted, TypeOK, None
<1>3. /\ active[p] \in {Absent, base, op} /\ rollback[p] \in {Absent, base}
      /\ staged[p] \in {Absent, op} /\ failed[p] \in {Absent, op}
  BY DEF RestoreInv, TypeOK
<1>4. base # Absent /\ op # Absent
  BY DEF RestoreInv, TypeOK, Absent
<1>5. QED
  BY <1>1, <1>2, <1>3, <1>4 DEF RollbackPart, PartBack, Place, GoesOut, ComesBack

(* The moves of the activation keep the census of their phase. *)
LEMMA AdvanceKeepsCensus ==
  ASSUME RestoreInv, NEW p \in Parts, GoesAside(p) \/ ComesIn(p), Progress(current),
         UNCHANGED <<current, had>>
  PROVE  Progress(current)'
<1>1. /\ active \in [Parts -> {Absent, base, op}] /\ rollback \in [Parts -> {Absent, base}]
      /\ staged \in [Parts -> {Absent, op}] /\ base # Absent /\ op # Absent
  BY DEF RestoreInv, TypeOK, Absent
<1>2. CASE p = "db"
  BY <1>1, <1>2
     DEF GoesAside, ComesIn, Parts, Progress, Before, Leaving, Aside, Arriving
<1>3. CASE p = "docs"
  BY <1>1, <1>3
     DEF GoesAside, ComesIn, Parts, Progress, Aside, Leaving, Arriving, Arrived
<1>4. QED
  BY <1>2, <1>3 DEF Parts

(* The moves of the rollback keep each part in its place, *)
LEMMA RollbackKeepsPlaces ==
  ASSUME RestoreInv, op > 0, ~accepted, NEW p \in Parts, GoesOut(p) \/ ComesBack(p),
         UNCHANGED <<op, base, had, accepted>>
  PROVE  Placed'
<1>1. /\ active \in [Parts -> {Absent, base, op}] /\ rollback \in [Parts -> {Absent, base}]
      /\ failed \in [Parts -> {Absent, op}] /\ base # Absent /\ op # Absent
      /\ base \in Int /\ op \in Int
  BY DEF RestoreInv, TypeOK, Absent
<1>2. base < op /\ \A q \in Parts : Place(q)
  BY DEF RestoreInv, Placed
<1>3. ASSUME NEW q \in Parts PROVE Place(q)'
  <2>1. CASE q = p
    BY <1>1, <1>2, <2>1 DEF GoesOut, ComesBack, Place
  <2>2. CASE q # p
    <3>1. /\ active'[q] = active[q] /\ rollback'[q] = rollback[q] /\ staged'[q] = staged[q]
          /\ failed'[q] = failed[q]
      BY <1>1, <2>2 DEF GoesOut, ComesBack
    <3>2. QED
      BY <3>1, <1>2 DEF Place
  <2>3. QED
    BY <2>1, <2>2
<1>4. QED
  BY <1>2, <1>3 DEF Placed

(* and keep the census of the rollback. *)
LEMMA RollbackKeepsCensus ==
  ASSUME RestoreInv, NEW p \in Parts, GoesOut(p) \/ ComesBack(p),
         RollbackAdmits("rollbackStarting"),
         UNCHANGED <<had, stagingAt, rollbackRoot, failedRoot>>
  PROVE  RollbackAdmits("rollbackStarting")'
<1>1. /\ active \in [Parts -> {Absent, base, op}] /\ rollback \in [Parts -> {Absent, base}]
      /\ failed \in [Parts -> {Absent, op}] /\ base # Absent /\ op # Absent
  BY DEF RestoreInv, TypeOK, Absent
<1>2. \A q \in Parts : RollbackSlot(q, stagingAt = "failed")
  BY DEF RollbackAdmits
<1>3. ASSUME NEW q \in Parts PROVE RollbackSlot(q, stagingAt = "failed")'
  <2>1. CASE q = p
    BY <1>1, <1>2, <2>1 DEF GoesOut, ComesBack, RollbackSlot
  <2>2. CASE q # p
    <3>1. /\ active'[q] = active[q] /\ rollback'[q] = rollback[q] /\ staged'[q] = staged[q]
          /\ failed'[q] = failed[q]
      BY <1>1, <2>2 DEF GoesOut, ComesBack
    <3>2. QED
      BY <3>1, <1>2 DEF RollbackSlot
  <2>3. QED
    BY <2>1, <2>2
<1>4. QED
  BY <1>3 DEF RollbackAdmits

(* A part that is back passes the stricter census of a staging directory    *)
(* that was set aside.                                                      *)
LEMMA PartBackIsDone ==
  ASSUME NEW p \in Parts, RollbackSlot(p, FALSE), PartBack(p)
  PROVE  RollbackSlot(p, TRUE)
  BY DEF RollbackSlot, PartBack

(* The phases in which a backend may run name the profile that is in place. *)
LEMMA InPlace ==
  ASSUME RestoreInv
  PROVE  /\ Selected \in {"prepared", "rolledBack"} => active = OldProfile
         /\ Selected \in {"validationStarting", "accepted"} => active = NewProfile
<1>1. active \in [Parts -> {Absent, base, op}]
  BY DEF RestoreInv, TypeOK
<1>2. \A p \in Parts : /\ rollback[p] \in {Absent, base} /\ staged[p] \in {Absent, op}
                       /\ base # Absent /\ op # Absent
  BY DEF RestoreInv, TypeOK, Absent
<1>3. Selected \in {"prepared", "rolledBack", "validationStarting"} =>
        ~accepted /\ \A p \in Parts : Place(p)
  BY DEF RestoreInv, Verdict, Placed, Unstarted, TypeOK, None
<1>4. Selected = "prepared" => active = OldProfile
  <2>1. Selected = "prepared" => \A p \in Parts : Before(p)
    BY PhaseNames DEF RestoreInv, Fits, Progress, Parts
  <2>2. QED
    BY <1>1, <1>2, <1>3, <2>1 DEF Before, Place, OldProfile
<1>5. Selected = "rolledBack" => active = OldProfile
  <2>1. Selected = "rolledBack" =>
          \A p \in Parts : rollback[p] = Absent /\ ((active[p] # Absent) <=> p \in had)
    BY DEF RestoreInv, Fits, RollbackAdmits, RollbackSlot
  <2>2. QED
    BY <1>1, <1>2, <1>3, <2>1 DEF Place, OldProfile
<1>6. Selected = "validationStarting" => active = NewProfile
  <2>1. Selected = "validationStarting" => \A p \in Parts : Arrived(p)
    BY PhaseNames DEF RestoreInv, Fits, Progress, Parts
  <2>2. QED
    BY <1>1, <1>2, <1>3, <2>1 DEF Arrived, Place, NewProfile
<1>7. QED
  BY <1>4, <1>5, <1>6 DEF RestoreInv, Fits

(* Once the move of a phase is made the files fit the next phase. *)
LEMMA NextPhaseFits ==
  ASSUME RestoreInv, Advance, Moved(current)
  PROVE  Fits(Forward[Index(current) + 1])
<1>1. /\ Selected = current /\ IsForward(current) /\ current # "validationStarting"
      /\ Fits(current) /\ ~failedRoot
  BY SelectedIs DEF Advance, Idle, RestoreInv, ForwardAdmits
<1>2. IsForward(Forward[Index(current) + 1]) /\ Forward[Index(current) + 1] # "prepared"
  BY <1>1, PhaseNames, PhaseOrder, PhaseSuccessors
<1>3. Progress(Forward[Index(current) + 1])
  BY <1>1, PhaseNames, PhaseOrder, PhaseSuccessors
     DEF Fits, Moved, Progress, Before, Leaving, Aside, Arriving, Arrived
<1>4. QED
  BY <1>1, <1>2, <1>3, PhaseNames DEF Fits

(* From every phase of the activation a rollback can start. *)
LEMMA RollbackFits ==
  ASSUME RestoreInv, StartRollback
  PROVE  Fits("rollbackStarting")
<1>1. Selected = current /\ IsForward(current) /\ Fits(current)
  BY SelectedIs DEF StartRollback, Idle, RestoreInv
<1>2. ~accepted /\ op > 0 /\ \A p \in Parts : Place(p)
  BY <1>1, PhaseNames DEF RestoreInv, Verdict, Placed, Unstarted, TypeOK, None
<1>3. \A p \in Parts : /\ active[p] \in {Absent, base, op} /\ rollback[p] \in {Absent, base}
                       /\ staged[p] \in {Absent, op} /\ failed[p] \in {Absent, op}
                       /\ base # Absent /\ op # Absent
  BY DEF RestoreInv, TypeOK, Absent
<1>4. \A p \in Parts : Before(p) \/ Leaving(p) \/ Aside(p) \/ Arriving(p) \/ Arrived(p)
  BY <1>1, PhaseNames DEF Fits, Progress, Parts
<1>5. \A p \in Parts : RollbackSlot(p, FALSE)
  <2> SUFFICES ASSUME NEW p \in Parts PROVE RollbackSlot(p, FALSE)
    OBVIOUS
  <2> QED
    BY <1>2, <1>3, <1>4
       DEF Place, Before, Leaving, Aside, Arriving, Arrived, RollbackSlot
<1>6. QED
  BY <1>1, <1>5, PhaseNames DEF Fits, RollbackAdmits

-----------------------------------------------------------------------------
(* Types.                                                                   *)

(* The flags stay Booleans. *)
LEMMA FlagsAreBoolean ==
  TypeOK /\ [Next]_vars => /\ good' \in BOOLEAN /\ accepted' \in BOOLEAN
                           /\ rollbackRoot' \in BOOLEAN /\ failedRoot' \in BOOLEAN
<1> SUFFICES ASSUME TypeOK, [Next]_vars
             PROVE  /\ good' \in BOOLEAN /\ accepted' \in BOOLEAN
                    /\ rollbackRoot' \in BOOLEAN /\ failedRoot' \in BOOLEAN
  OBVIOUS
<1>1. /\ good' = good \/ good' \in BOOLEAN
      /\ accepted' = accepted \/ accepted' = FALSE \/ accepted' = (accepted \/ current' = "accepted")
      /\ rollbackRoot' = rollbackRoot \/ rollbackRoot' = TRUE \/ rollbackRoot' = FALSE
      /\ failedRoot' = failedRoot \/ failedRoot' = TRUE \/ failedRoot' = FALSE
  BY Zenon
     DEF Next, Work, Stage, Prepare, StopRuntime, Relaunch, Advance, Anchor, StartRollback,
         RestorePrevious, OpenOnTrial, Validated, Rejected, CleanAccepted, ClearRolledBack,
         ClearJournal, WriteJournal, MayRepair, Repair, Start, Throw, Close, Crash, vars,
         content, choice
<1>2. QED
  BY <1>1, Zenon DEF TypeOK

(* Every step keeps the journal's writes in order. *)
LEMMA WritingNext == RestoreInv /\ [Next]_vars => Writing'
<1> SUFFICES ASSUME RestoreInv, [Next]_vars PROVE Writing'
  OBVIOUS
<1>0. /\ good' \in BOOLEAN /\ accepted' \in BOOLEAN
      /\ rollbackRoot' \in BOOLEAN /\ failedRoot' \in BOOLEAN
  BY FlagsAreBoolean DEF RestoreInv
<1> USE <1>0, SelectedIs, PhaseNames
    DEF RestoreInv, TypeOK, Writing, StepFacts, Idle, Clean, journal, None, Empty
<1>1. CASE Stage
  BY <1>1 DEF Stage
<1>2. CASE Prepare
  BY <1>2 DEF Prepare, Write, Selected
<1>3. CASE StopRuntime
  BY <1>3 DEF StopRuntime
<1>4. CASE Relaunch
  BY <1>4 DEF Relaunch
<1>5. CASE Advance
  BY <1>5 DEF Advance, Write
<1>6. CASE Anchor
  BY <1>6 DEF Anchor
<1>7. CASE StartRollback
  BY <1>7 DEF StartRollback, Write
<1>8. CASE RestorePrevious
  BY <1>8 DEF RestorePrevious, Write
<1>9. CASE OpenOnTrial
  BY <1>9 DEF OpenOnTrial
<1>10. CASE Validated
  BY <1>10, PhaseNames DEF Validated, Write
<1>11. CASE Rejected
  BY <1>11 DEF Rejected
<1>12. CASE CleanAccepted
  BY <1>12 DEF CleanAccepted
<1>13. CASE ClearRolledBack
  BY <1>13 DEF ClearRolledBack
<1>14. CASE ClearJournal
  BY <1>14 DEF ClearJournal, Selected, Idle, Clean
<1>15. CASE WriteJournal
  BY <1>15, WriteSelects DEF WriteJournal
<1>16. CASE MayRepair
  BY <1>16, RepairKeeps DEF MayRepair, Repair
<1>17. CASE Start
  BY <1>17 DEF Start, NothingPending
<1>18. CASE Throw
  BY <1>18 DEF Throw, Handled
<1>19. CASE Close
  BY <1>19 DEF Close
<1>20. CASE Crash
  BY <1>20 DEF Crash
<1>21. CASE UNCHANGED vars
  BY <1>21 DEF vars
<1>22. QED
  BY <1>1, <1>2, <1>3, <1>4, <1>5, <1>6, <1>7, <1>8, <1>9, <1>10, <1>11, <1>12,
     <1>13, <1>14, <1>15, <1>16, <1>17, <1>18, <1>19, <1>20, <1>21
     DEF Next, Work

(* Every step keeps what each step of the process may meet. *)
LEMMA StepNext == RestoreInv /\ [Next]_vars => StepFacts'
<1> SUFFICES ASSUME RestoreInv, [Next]_vars PROVE StepFacts'
  OBVIOUS
<1>0. /\ good' \in BOOLEAN /\ accepted' \in BOOLEAN
      /\ rollbackRoot' \in BOOLEAN /\ failedRoot' \in BOOLEAN
  BY FlagsAreBoolean DEF RestoreInv
<1> USE <1>0, SelectedIs, PhaseNames
    DEF RestoreInv, TypeOK, StepFacts, choice, journal, process, cold, Idle, None,
        Empty
<1>1. CASE Stage
  BY <1>1 DEF Stage
<1>2. CASE Prepare
  BY <1>2 DEF Prepare, Write, StagedFacts
<1>3. CASE StopRuntime
  BY <1>3 DEF StopRuntime
<1>4. CASE Relaunch
  BY <1>4 DEF Relaunch
<1>5. CASE Advance
  BY <1>5, PhaseOrder, PhaseSuccessors DEF Advance, Write
<1>6. CASE Anchor
  BY <1>6 DEF Anchor
<1>7. CASE StartRollback
  BY <1>7 DEF StartRollback, Write
<1>8. CASE RestorePrevious
  BY <1>8 DEF RestorePrevious, Write
<1>9. CASE OpenOnTrial
  BY <1>9 DEF OpenOnTrial
<1>10. CASE Validated
  BY <1>10 DEF Validated, Write
<1>11. CASE Rejected
  BY <1>11 DEF Rejected
<1>12. CASE CleanAccepted
  BY <1>12 DEF CleanAccepted
<1>13. CASE ClearRolledBack
  BY <1>13 DEF ClearRolledBack
<1>14. CASE ClearJournal
  BY <1>14 DEF ClearJournal, Selected, Idle, Clean
<1>15. CASE WriteJournal
  BY <1>15, WriteSelects DEF WriteJournal
<1>16. CASE MayRepair
  BY <1>16, RepairKeeps DEF MayRepair, Repair
<1>17. CASE Start
  BY <1>17 DEF Start, NothingPending
<1>18. CASE Throw
  BY <1>18 DEF Throw, Handled
<1>19. CASE Close
  BY <1>19 DEF Close
<1>20. CASE Crash
  BY <1>20 DEF Crash
<1>21. CASE UNCHANGED vars
  BY <1>21 DEF vars
<1>22. QED
  BY <1>1, <1>2, <1>3, <1>4, <1>5, <1>6, <1>7, <1>8, <1>9, <1>10, <1>11, <1>12,
     <1>13, <1>14, <1>15, <1>16, <1>17, <1>18, <1>19, <1>20, <1>21
     DEF Next, Work

(* Every step keeps backends away from moving files. *)
LEMMA BackendNext == RestoreInv /\ [Next]_vars => (BackendFacts' /\ Unstarted')
<1> SUFFICES ASSUME RestoreInv, [Next]_vars PROVE BackendFacts' /\ Unstarted'
  OBVIOUS
<1>0. /\ good' \in BOOLEAN /\ accepted' \in BOOLEAN
      /\ rollbackRoot' \in BOOLEAN /\ failedRoot' \in BOOLEAN
  BY FlagsAreBoolean DEF RestoreInv
<1> USE <1>0, SelectedIs, PhaseNames
    DEF RestoreInv, TypeOK, StepFacts, BackendFacts, Unstarted, Idle, content,
        choice, journal, process, cold, None, Empty
<1>1. CASE Stage
  BY <1>1 DEF Stage
<1>2. CASE Prepare
  BY <1>2 DEF Prepare, Write
<1>3. CASE StopRuntime
  BY <1>3 DEF StopRuntime
<1>4. CASE Relaunch
  BY <1>4 DEF Relaunch
<1>5. CASE Advance
  BY <1>5 DEF Advance, Write
<1>6. CASE Anchor
  BY <1>6 DEF Anchor
<1>7. CASE StartRollback
  BY <1>7 DEF StartRollback, Write
<1>8. CASE RestorePrevious
  BY <1>8 DEF RestorePrevious, Write
<1>9. CASE OpenOnTrial
  BY <1>9 DEF OpenOnTrial
<1>10. CASE Validated
  BY <1>10 DEF Validated, Write
<1>11. CASE Rejected
  BY <1>11 DEF Rejected
<1>12. CASE CleanAccepted
  BY <1>12 DEF CleanAccepted
<1>13. CASE ClearRolledBack
  BY <1>13 DEF ClearRolledBack
<1>14. CASE ClearJournal
  BY <1>14 DEF ClearJournal, Selected, Idle, Clean
<1>15. CASE WriteJournal
  BY <1>15, WriteSelects DEF WriteJournal
<1>16. CASE MayRepair
  BY <1>16, RepairKeeps DEF MayRepair, Repair
<1>17. CASE Start
  BY <1>17 DEF Start, NothingPending
<1>18. CASE Throw
  BY <1>18 DEF Throw, Handled
<1>19. CASE Close
  BY <1>19 DEF Close
<1>20. CASE Crash
  BY <1>20 DEF Crash
<1>21. CASE UNCHANGED vars
  BY <1>21 DEF vars
<1>22. QED
  BY <1>1, <1>2, <1>3, <1>4, <1>5, <1>6, <1>7, <1>8, <1>9, <1>10, <1>11, <1>12,
     <1>13, <1>14, <1>15, <1>16, <1>17, <1>18, <1>19, <1>20, <1>21
     DEF Next, Work

(* Every step keeps the flag. *)
LEMMA VerdictNext == RestoreInv /\ [Next]_vars => Verdict'
<1> SUFFICES ASSUME RestoreInv, [Next]_vars PROVE Verdict'
  OBVIOUS
<1>0. /\ good' \in BOOLEAN /\ accepted' \in BOOLEAN
      /\ rollbackRoot' \in BOOLEAN /\ failedRoot' \in BOOLEAN
  BY FlagsAreBoolean DEF RestoreInv
<1> USE <1>0, SelectedIs, PhaseNames
    DEF RestoreInv, TypeOK, Writing, StepFacts, Verdict, Idle, choice, journal,
        process, None, Empty
<1>1. CASE Stage
  BY <1>1 DEF Stage
<1>2. CASE Prepare
  BY <1>2 DEF Prepare, Write
<1>3. CASE StopRuntime
  BY <1>3 DEF StopRuntime
<1>4. CASE Relaunch
  BY <1>4 DEF Relaunch
<1>5. CASE Advance
  BY <1>5 DEF Advance, Write
<1>6. CASE Anchor
  BY <1>6 DEF Anchor
<1>7. CASE StartRollback
  BY <1>7 DEF StartRollback, Write
<1>8. CASE RestorePrevious
  BY <1>8 DEF RestorePrevious, Write
<1>9. CASE OpenOnTrial
  BY <1>9 DEF OpenOnTrial
<1>10. CASE Validated
  BY <1>10 DEF Validated, Write
<1>11. CASE Rejected
  BY <1>11 DEF Rejected
<1>12. CASE CleanAccepted
  BY <1>12 DEF CleanAccepted
<1>13. CASE ClearRolledBack
  BY <1>13 DEF ClearRolledBack
<1>14. CASE ClearJournal
  BY <1>14 DEF ClearJournal, Selected, Idle, Clean
<1>15. CASE WriteJournal
  BY <1>15, WriteSelects DEF WriteJournal, Selected
<1>16. CASE MayRepair
  BY <1>16, RepairKeeps DEF MayRepair, Repair
<1>17. CASE Start
  BY <1>17 DEF Start, NothingPending
<1>18. CASE Throw
  BY <1>18 DEF Throw, Handled
<1>19. CASE Close
  BY <1>19 DEF Close
<1>20. CASE Crash
  BY <1>20 DEF Crash
<1>21. CASE UNCHANGED vars
  BY <1>21 DEF vars
<1>22. QED
  BY <1>1, <1>2, <1>3, <1>4, <1>5, <1>6, <1>7, <1>8, <1>9, <1>10, <1>11, <1>12,
     <1>13, <1>14, <1>15, <1>16, <1>17, <1>18, <1>19, <1>20, <1>21
     DEF Next, Work

(* Every step keeps the staged profile ready. *)
LEMMA StagedNext == RestoreInv /\ [Next]_vars => StagedFacts'
<1> SUFFICES ASSUME RestoreInv, [Next]_vars PROVE StagedFacts'
  OBVIOUS
<1>0. /\ good' \in BOOLEAN /\ accepted' \in BOOLEAN
      /\ rollbackRoot' \in BOOLEAN /\ failedRoot' \in BOOLEAN
  BY FlagsAreBoolean DEF RestoreInv
<1> USE <1>0, SelectedIs
    DEF RestoreInv, TypeOK, StepFacts, StagedFacts, content, choice, process,
        NoPart, NewProfile
<1>1. CASE Stage
  BY <1>1 DEF Stage
<1>2. CASE Prepare
  BY <1>2 DEF Prepare, Write
<1>3. CASE StopRuntime
  BY <1>3 DEF StopRuntime
<1>4. CASE Relaunch
  BY <1>4 DEF Relaunch
<1>5. CASE Advance
  BY <1>5 DEF Advance, Write
<1>6. CASE Anchor
  BY <1>6 DEF Anchor
<1>7. CASE StartRollback
  BY <1>7 DEF StartRollback, Write
<1>8. CASE RestorePrevious
  BY <1>8 DEF RestorePrevious, Write
<1>9. CASE OpenOnTrial
  BY <1>9 DEF OpenOnTrial
<1>10. CASE Validated
  BY <1>10 DEF Validated, Write
<1>11. CASE Rejected
  BY <1>11 DEF Rejected
<1>12. CASE CleanAccepted
  BY <1>12 DEF CleanAccepted
<1>13. CASE ClearRolledBack
  BY <1>13 DEF ClearRolledBack
<1>14. CASE ClearJournal
  BY <1>14 DEF ClearJournal
<1>15. CASE WriteJournal
  BY <1>15 DEF WriteJournal
<1>16. CASE MayRepair
  BY <1>16 DEF MayRepair, Repair
<1>17. CASE Start
  BY <1>17 DEF Start, NothingPending
<1>18. CASE Throw
  BY <1>18 DEF Throw, Handled
<1>19. CASE Close
  BY <1>19 DEF Close
<1>20. CASE Crash
  BY <1>20 DEF Crash
<1>21. CASE UNCHANGED vars
  BY <1>21 DEF vars
<1>22. QED
  BY <1>1, <1>2, <1>3, <1>4, <1>5, <1>6, <1>7, <1>8, <1>9, <1>10, <1>11, <1>12,
     <1>13, <1>14, <1>15, <1>16, <1>17, <1>18, <1>19, <1>20, <1>21
     DEF Next, Work

(* Every step keeps the types. *)
LEMMA TypeNext == RestoreInv /\ [Next]_vars => TypeOK'
<1> SUFFICES ASSUME RestoreInv, [Next]_vars PROVE TypeOK'
  OBVIOUS
<1>0. /\ good' \in BOOLEAN /\ accepted' \in BOOLEAN
      /\ rollbackRoot' \in BOOLEAN /\ failedRoot' \in BOOLEAN
  BY FlagsAreBoolean DEF RestoreInv
<1>a. Advance /\ Move(current) /\ UNCHANGED failed =>
        ~accepted /\ \E p \in Parts : GoesAside(p) \/ ComesIn(p)
  BY AdvanceMoves
<1>b. \A p \in Parts : RestorePrevious /\ RollbackPart(p) /\ UNCHANGED staged =>
        GoesOut(p) \/ ComesBack(p)
  BY RollbackMoves
<1> USE <1>0, PhaseNames, RestoreAssumption
    DEF RestoreInv, TypeOK, content, choice, journal, process, budget, None, Empty
<1>1. CASE Stage
  BY <1>1 DEF Stage, NoPart, Parts, Decided, StepFacts, NewProfile, OldProfile,
     Absent
<1>2. CASE Prepare
  BY <1>2 DEF Prepare, Write
<1>3. CASE StopRuntime
  BY <1>3 DEF StopRuntime
<1>4. CASE Relaunch
  BY <1>4 DEF Relaunch
<1>5. CASE Advance
  <2>1. CASE Move(current) /\ UNCHANGED <<journal, failed, stagingAt, rollbackRoot, failedRoot>>
    BY <1>5, <1>a, <2>1 DEF Advance, GoesAside, ComesIn
  <2>2. CASE UNCHANGED content
    BY <1>5, <2>2, PhaseOrder, PhaseSuccessors DEF Advance, Write
  <2>3. QED
    BY <1>5, <2>1, <2>2 DEF Advance
<1>6. CASE Anchor
  BY <1>6 DEF Anchor
<1>7. CASE StartRollback
  BY <1>7 DEF StartRollback, Write
<1>8. CASE RestorePrevious
  <2>1. ASSUME NEW p \in Parts, RollbackPart(p),
               UNCHANGED <<staged, stagingAt, rollbackRoot, failedRoot, journal>>
        PROVE  TypeOK'
    BY <1>8, <1>b, <2>1 DEF RestorePrevious, GoesOut, ComesBack
  <2>2. CASE UNCHANGED <<active, rollback, staged, failed>>
    BY <1>8, <2>2 DEF RestorePrevious, Write
  <2>3. QED
    BY <1>8, <2>1, <2>2 DEF RestorePrevious, Parts
<1>9. CASE OpenOnTrial
  BY <1>9 DEF OpenOnTrial
<1>10. CASE Validated
  BY <1>10 DEF Validated, Write
<1>11. CASE Rejected
  BY <1>11 DEF Rejected
<1>12. CASE CleanAccepted
  BY <1>12 DEF CleanAccepted, NoPart, Parts
<1>13. CASE ClearRolledBack
  BY <1>13 DEF ClearRolledBack
<1>14. CASE ClearJournal
  BY <1>14 DEF ClearJournal
<1>15. CASE WriteJournal
  BY <1>15 DEF WriteJournal
<1>16. CASE MayRepair
  BY <1>16 DEF MayRepair, Repair, Selected, Clean
<1>17. CASE Start
  BY <1>17 DEF Start, NothingPending
<1>18. CASE Throw
  BY <1>18 DEF Throw, Handled
<1>19. CASE Close
  BY <1>19 DEF Close
<1>20. CASE Crash
  BY <1>20 DEF Crash
<1>21. CASE UNCHANGED vars
  BY <1>21 DEF vars
<1>22. QED
  BY <1>1, <1>2, <1>3, <1>4, <1>5, <1>6, <1>7, <1>8, <1>9, <1>10, <1>11, <1>12,
     <1>13, <1>14, <1>15, <1>16, <1>17, <1>18, <1>19, <1>20, <1>21
     DEF Next, Work

(* Every step keeps each part in its place. *)
LEMMA PlacedNext == RestoreInv /\ [Next]_vars => Placed'
<1> SUFFICES ASSUME RestoreInv, [Next]_vars PROVE Placed'
  OBVIOUS
<1>0. /\ good' \in BOOLEAN /\ accepted' \in BOOLEAN
      /\ rollbackRoot' \in BOOLEAN /\ failedRoot' \in BOOLEAN
  BY FlagsAreBoolean DEF RestoreInv
<1>a. Advance /\ Move(current) /\ UNCHANGED failed =>
        ~accepted /\ \E p \in Parts : GoesAside(p) \/ ComesIn(p)
  BY AdvanceMoves
<1>b. ASSUME RestorePrevious, NEW p \in Parts, RollbackPart(p), UNCHANGED staged
      PROVE  Placed'
  <2>1. op > 0 /\ UNCHANGED <<op, base, had, accepted>>
    BY <1>b, SelectedIs
       DEF RestorePrevious, Idle, RestoreInv, TypeOK, Unstarted, choice, None
  <2>2. QED
    BY <1>b, <2>1, RollbackMoves, RollbackKeepsPlaces
<1> USE <1>0, SelectedIs
    DEF RestoreInv, TypeOK, Placed, Place, content, choice, journal
<1>1. CASE Stage
  <2>1. \A p \in Parts : active[p] \in {Absent, active["db"]}
    BY <1>1 DEF Stage, Decided, StepFacts, NewProfile, OldProfile, Parts
  <2>2. active["db"] \in 0 .. op
    BY <1>1 DEF Stage, Decided, StepFacts, NewProfile, OldProfile, Parts, Unstarted
  <2>3. /\ op' = op + 1 /\ base' = active["db"] /\ had' = {p \in Parts : active[p] # Absent}
        /\ staged' = [p \in Parts |-> op + 1] /\ active' = active
        /\ rollback' = NoPart /\ failed' = NoPart
    BY <1>1 DEF Stage
  <2>4. ASSUME NEW p \in Parts PROVE Place(p)'
    BY <2>1, <2>2, <2>3 DEF NoPart, Absent
  <2>5. QED
    BY <2>2, <2>3, <2>4
<1>2. CASE Prepare
  BY <1>2 DEF Prepare, Write
<1>3. CASE StopRuntime
  BY <1>3 DEF StopRuntime
<1>4. CASE Relaunch
  BY <1>4 DEF Relaunch
<1>5. CASE Advance
  <2>1. CASE Move(current) /\ UNCHANGED <<journal, failed, stagingAt, rollbackRoot, failedRoot>>
    BY <1>5, <1>a, <2>1 DEF Advance, GoesAside, ComesIn
  <2>2. CASE UNCHANGED content
    BY <1>5, <2>2 DEF Advance, Write
  <2>3. QED
    BY <1>5, <2>1, <2>2 DEF Advance
<1>6. CASE Anchor
  BY <1>6 DEF Anchor
<1>7. CASE StartRollback
  BY <1>7 DEF StartRollback, Write
<1>8. CASE RestorePrevious
  <2>1. ASSUME NEW p \in Parts, RollbackPart(p), UNCHANGED staged
        PROVE  Placed'
    BY <1>8, <1>b, <2>1
  <2>2. CASE UNCHANGED <<active, rollback, staged, failed>>
    BY <1>8, <2>2 DEF RestorePrevious, Write
  <2>3. QED
    BY <1>8, <2>1, <2>2 DEF RestorePrevious, Parts
<1>9. CASE OpenOnTrial
  BY <1>9 DEF OpenOnTrial
<1>10. CASE Validated
  BY <1>10 DEF Validated, Write
<1>11. CASE Rejected
  BY <1>11 DEF Rejected
<1>12. CASE CleanAccepted
  BY <1>12 DEF CleanAccepted, Verdict, Idle
<1>13. CASE ClearRolledBack
  BY <1>13 DEF ClearRolledBack
<1>14. CASE ClearJournal
  BY <1>14 DEF ClearJournal
<1>15. CASE WriteJournal
  BY <1>15 DEF WriteJournal
<1>16. CASE MayRepair
  BY <1>16 DEF MayRepair, Repair
<1>17. CASE Start
  BY <1>17 DEF Start, NothingPending
<1>18. CASE Throw
  BY <1>18 DEF Throw, Handled
<1>19. CASE Close
  BY <1>19 DEF Close
<1>20. CASE Crash
  BY <1>20 DEF Crash
<1>21. CASE UNCHANGED vars
  BY <1>21 DEF vars
<1>22. QED
  BY <1>1, <1>2, <1>3, <1>4, <1>5, <1>6, <1>7, <1>8, <1>9, <1>10, <1>11, <1>12,
     <1>13, <1>14, <1>15, <1>16, <1>17, <1>18, <1>19, <1>20, <1>21
     DEF Next, Work

(* Every step keeps the decided profile in place. *)
LEMMA DecidedNext == RestoreInv /\ [Next]_vars => Decided'
<1> SUFFICES ASSUME RestoreInv, [Next]_vars PROVE Decided'
  OBVIOUS
<1>0. /\ good' \in BOOLEAN /\ accepted' \in BOOLEAN
      /\ rollbackRoot' \in BOOLEAN /\ failedRoot' \in BOOLEAN
  BY FlagsAreBoolean DEF RestoreInv
<1> USE <1>0, SelectedIs, PhaseNames
    DEF RestoreInv, TypeOK, Decided, StepFacts, content, choice, journal, process,
        None, Empty, NewProfile, OldProfile
<1>1. CASE Stage
  BY <1>1 DEF Stage, Parts, Absent
<1>2. CASE Prepare
  BY <1>2 DEF Prepare, Write
<1>3. CASE StopRuntime
  BY <1>3 DEF StopRuntime
<1>4. CASE Relaunch
  BY <1>4 DEF Relaunch
<1>5. CASE Advance
  BY <1>5 DEF Advance, Write, Idle, Move, MoveAside, Activate
<1>6. CASE Anchor
  BY <1>6 DEF Anchor
<1>7. CASE StartRollback
  BY <1>7 DEF StartRollback, Write
<1>8. CASE RestorePrevious
  BY <1>8 DEF RestorePrevious, Write, Idle
<1>9. CASE OpenOnTrial
  BY <1>9 DEF OpenOnTrial
<1>10. CASE Validated
  BY <1>10 DEF Validated, Write
<1>11. CASE Rejected
  BY <1>11 DEF Rejected
<1>12. CASE CleanAccepted
  BY <1>12 DEF CleanAccepted, Idle
<1>13. CASE ClearRolledBack
  BY <1>13 DEF ClearRolledBack, Idle
<1>14. CASE ClearJournal
  BY <1>14, InPlace DEF ClearJournal, Idle, Verdict
<1>15. CASE WriteJournal
  BY <1>15, WriteSelects DEF WriteJournal, Verdict
<1>16. CASE MayRepair
  BY <1>16, RepairKeeps DEF MayRepair, Repair
<1>17. CASE Start
  BY <1>17 DEF Start, NothingPending
<1>18. CASE Throw
  BY <1>18 DEF Throw, Handled
<1>19. CASE Close
  BY <1>19 DEF Close
<1>20. CASE Crash
  BY <1>20 DEF Crash
<1>21. CASE UNCHANGED vars
  BY <1>21 DEF vars
<1>22. QED
  BY <1>1, <1>2, <1>3, <1>4, <1>5, <1>6, <1>7, <1>8, <1>9, <1>10, <1>11, <1>12,
     <1>13, <1>14, <1>15, <1>16, <1>17, <1>18, <1>19, <1>20, <1>21
     DEF Next, Work

(* Every step keeps the files fit for the phase on disk and for the phase being written. *)
LEMMA FitsNext == RestoreInv /\ [Next]_vars => (Fits(Selected)' /\ Fits(goal)')
<1> SUFFICES ASSUME RestoreInv, [Next]_vars PROVE Fits(Selected)' /\ Fits(goal)'
  OBVIOUS
<1>0. /\ good' \in BOOLEAN /\ accepted' \in BOOLEAN
      /\ rollbackRoot' \in BOOLEAN /\ failedRoot' \in BOOLEAN
  BY FlagsAreBoolean DEF RestoreInv
<1>a. ASSUME Advance, Move(current), UNCHANGED <<failed, current>>
      PROVE  Progress(current)'
  <2>1. Progress(current) /\ UNCHANGED had
    BY <1>a, SelectedIs DEF Advance, Idle, RestoreInv, Fits, choice
  <2>2. QED
    BY <1>a, <2>1, AdvanceMoves, AdvanceKeepsCensus
<1>b. ASSUME RestorePrevious, NEW p \in Parts, RollbackPart(p),
             UNCHANGED <<staged, stagingAt, rollbackRoot, failedRoot>>
      PROVE  RollbackAdmits("rollbackStarting")'
  <2>1. RollbackAdmits("rollbackStarting") /\ UNCHANGED had
    BY <1>b DEF RestorePrevious, choice
  <2>2. QED
    BY <1>b, <2>1, RollbackMoves, RollbackKeepsCensus
<1> USE <1>0, SelectedIs, FitsFrame, FitsNoPhase
    DEF RestoreInv, TypeOK, StepFacts, content, choice, journal, process, Idle,
        None, Empty
<1>1. CASE Stage
  <2>1. Selected' = None /\ goal' = None
    BY <1>1 DEF Stage
  <2>2. QED
    BY <2>1, PhaseNames DEF Fits
<1>2. CASE Prepare
  <2>1. /\ Selected' = None /\ goal' = "prepared" /\ stagingAt' = "staging" /\ rollbackRoot'
        /\ ~failedRoot'
    BY <1>2 DEF Prepare, Write, StagedFacts
  <2>2. ASSUME NEW p \in Parts PROVE Before(p)'
    BY <1>2, <2>1 DEF Prepare, StagedFacts, Decided, OldProfile, NewProfile, NoPart, Before, Absent
  <2>3. QED
    BY <2>1, <2>2, PhaseNames DEF Fits, Progress, Parts
<1>3. CASE StopRuntime
  BY <1>3 DEF StopRuntime
<1>4. CASE Relaunch
  BY <1>4 DEF Relaunch
<1>5. CASE Advance
  <2>1. Selected = current /\ IsForward(current) /\ Fits(current) /\ goal = None
    BY <1>5 DEF Advance
  <2>2. CASE Move(current) /\ UNCHANGED <<journal, failed, stagingAt, rollbackRoot, failedRoot>>
    <3>1. Progress(current)'
      BY <1>5, <1>a, <2>2
    <3>2. QED
      BY <1>5, <2>1, <2>2, <3>1, PhaseNames DEF Advance, Fits
  <2>3. CASE Moved(current) /\ Write(Forward[Index(current) + 1]) /\ UNCHANGED content
    BY <1>5, <2>1, <2>3, NextPhaseFits DEF Advance, Write
  <2>4. QED
    BY <1>5, <2>2, <2>3 DEF Advance
<1>6. CASE Anchor
  <2>1. /\ Selected' = Selected /\ goal' = None /\ failedRoot' = TRUE
        /\ Selected \in {"validationStarting", "rollbackStarting", "rolledBack"}
        /\ UNCHANGED <<active, rollback, staged, failed, stagingAt, rollbackRoot, op, had>>
    BY <1>6 DEF Anchor, RollbackAdmits
  <2>2. QED
    BY <2>1, PhaseNames
       DEF Fits, Progress, Arrived, RollbackAdmits, RollbackSlot
<1>7. CASE StartRollback
  BY <1>7, RollbackFits DEF StartRollback, Write
<1>8. CASE RestorePrevious
  <2>1. /\ Selected = "rollbackStarting" /\ Selected' = Selected /\ RollbackAdmits("rollbackStarting")
        /\ goal' \in {None, "rolledBack"} /\ UNCHANGED <<had, op>>
    BY <1>8 DEF RestorePrevious, Write
  <2>2. ASSUME NEW p \in Parts, RollbackPart(p), failedRoot,
               UNCHANGED <<staged, stagingAt, rollbackRoot, failedRoot, journal>>
        PROVE  RollbackAdmits("rollbackStarting")' /\ goal' = None
    BY <1>8, <1>b, <2>1, <2>2 DEF RestorePrevious
  <2>3. ASSUME failedRoot' = TRUE,
               UNCHANGED <<active, rollback, staged, failed, stagingAt, rollbackRoot, journal>>
        PROVE  RollbackAdmits("rollbackStarting")' /\ goal' = None
    <3>1. ASSUME NEW p \in Parts
          PROVE  RollbackSlot(p, stagingAt = "failed") => RollbackSlot(p, stagingAt = "failed")'
      BY <2>1, <2>3 DEF RollbackSlot
    <3>2. QED
      BY <1>8, <2>1, <2>3, <3>1 DEF RestorePrevious, RollbackAdmits
  <2>4. ASSUME failedRoot, \A p \in Parts : PartBack(p), stagingAt = "staging", stagingAt' = "failed",
               UNCHANGED <<active, rollback, staged, failed, rollbackRoot, failedRoot, journal>>
        PROVE  RollbackAdmits("rollbackStarting")' /\ goal' = None
    <3>1. ASSUME NEW p \in Parts PROVE RollbackSlot(p, stagingAt = "failed")'
      <4>1. RollbackSlot(p, FALSE) /\ PartBack(p)
        BY <2>1, <2>4 DEF RollbackAdmits
      <4>2. RollbackSlot(p, TRUE)
        BY <4>1, PartBackIsDone
      <4>3. QED
        BY <4>2, <2>1, <2>4 DEF RollbackSlot
    <3>2. QED
      BY <1>8, <2>1, <2>4, <3>1 DEF RestorePrevious, RollbackAdmits
  <2>5. ASSUME stagingAt = "failed", \A p \in Parts : PartBack(p), Write("rolledBack"), UNCHANGED content
        PROVE  Fits("rolledBack")
    BY <1>8, <2>1, <2>5, PhaseNames DEF Fits, RollbackAdmits, RollbackSlot
  <2>6. QED
    BY <1>8, <2>1, <2>2, <2>3, <2>5, <2>4, PhaseNames DEF RestorePrevious, Fits, Parts
<1>9. CASE OpenOnTrial
  BY <1>9 DEF OpenOnTrial
<1>10. CASE Validated
  <2>1. goal' \in {None, "accepted"} /\ Selected' = Selected
    BY <1>10 DEF Validated, Write
  <2>2. goal' = "accepted" => Fits("accepted")
    BY <1>10, InPlace, PhaseNames DEF Validated, Write, Fits
  <2>3. QED
    BY <1>10, <2>1, <2>2 DEF Validated
<1>11. CASE Rejected
  BY <1>11 DEF Rejected
<1>12. CASE CleanAccepted
  <2>1. Selected = "accepted" /\ Selected' = Selected /\ goal' = None /\ UNCHANGED <<active, op>>
    BY <1>12 DEF CleanAccepted
  <2>2. QED
    BY <2>1, PhaseNames DEF Fits, NewProfile
<1>13. CASE ClearRolledBack
  <2>1. /\ Selected = "rolledBack" /\ Selected' = Selected /\ goal' = None
        /\ UNCHANGED <<active, rollback, staged, failed, stagingAt, failedRoot, had>>
    BY <1>13 DEF ClearRolledBack
  <2>2. QED
    BY <2>1, PhaseNames DEF Fits, RollbackAdmits, RollbackSlot
<1>14. CASE ClearJournal
  BY <1>14, PhaseNames DEF ClearJournal, Selected, Clean
<1>15. CASE WriteJournal
  BY <1>15, WriteSelects DEF WriteJournal
<1>16. CASE MayRepair
  BY <1>16, RepairKeeps DEF MayRepair, Repair
<1>17. CASE Start
  BY <1>17 DEF Start, NothingPending
<1>18. CASE Throw
  BY <1>18 DEF Throw, Handled
<1>19. CASE Close
  BY <1>19 DEF Close
<1>20. CASE Crash
  BY <1>20 DEF Crash
<1>21. CASE UNCHANGED vars
  BY <1>21 DEF vars
<1>22. QED
  BY <1>1, <1>2, <1>3, <1>4, <1>5, <1>6, <1>7, <1>8, <1>9, <1>10, <1>11, <1>12,
     <1>13, <1>14, <1>15, <1>16, <1>17, <1>18, <1>19, <1>20, <1>21
     DEF Next, Work

(* Every step keeps a database in the profile that would be replaced. *)
LEMMA DatabaseNext == RestoreInv /\ [Next]_vars => "db" \in had'
<1> SUFFICES ASSUME RestoreInv, [Next]_vars PROVE "db" \in had'
  OBVIOUS
<1>1. CASE Stage
  <2>1. active["db"] # Absent
    BY <1>1 DEF Stage, RestoreInv, StepFacts, Decided, NewProfile, OldProfile, Parts, TypeOK,
                Absent
  <2>2. QED
    BY <1>1, <2>1 DEF Stage, Parts
<1>2. CASE ~Stage
  <2>1. UNCHANGED had
    BY <1>2, Zenon
       DEF Next, Work, Prepare, StopRuntime, Relaunch, Advance, Anchor, StartRollback,
           RestorePrevious, OpenOnTrial, Validated, Rejected, CleanAccepted,
           ClearRolledBack, ClearJournal, WriteJournal, MayRepair, Repair, Start, Throw,
           Close, Crash, vars, choice
  <2>2. QED
    BY <2>1 DEF RestoreInv
<1>3. QED
  BY <1>1, <1>2

-----------------------------------------------------------------------------
(* The initial state satisfies the invariant. *)
LEMMA InitInv == Init => RestoreInv
<1> SUFFICES ASSUME Init PROVE RestoreInv
  OBVIOUS
<1>1. /\ good \in BOOLEAN /\ accepted \in BOOLEAN /\ rollbackRoot \in BOOLEAN
      /\ failedRoot \in BOOLEAN /\ ~accepted
  BY Zenon DEF Init
<1>2. Selected = None /\ "db" \in had /\ had \in SUBSET Parts
  BY RestoreAssumption DEF Init, Selected
<1>3. TypeOK
  BY <1>1, <1>2, RestoreAssumption, PhaseNames DEF Init, TypeOK, NoPart, Absent
<1>4. Writing /\ StepFacts /\ StagedFacts /\ BackendFacts
  BY <1>1, <1>2 DEF Init, Writing, StepFacts, StagedFacts, BackendFacts
<1>5. Verdict /\ Decided /\ Placed /\ Unstarted
  BY <1>1, <1>2 DEF Init, Verdict, Decided, OldProfile, Placed, Unstarted, None
<1>6. Fits(Selected) /\ Fits(goal)
  BY <1>2, FitsNoPhase DEF Init
<1>7. QED
  BY <1>2, <1>3, <1>4, <1>5, <1>6 DEF RestoreInv

(* Every step preserves the invariant. *)
LEMMA NextInv == RestoreInv /\ [Next]_vars => RestoreInv'
<1> SUFFICES ASSUME RestoreInv, [Next]_vars PROVE RestoreInv'
  OBVIOUS
<1>1. TypeOK' /\ "db" \in had'
  BY TypeNext, DatabaseNext
<1>2. Writing' /\ StepFacts' /\ StagedFacts' /\ BackendFacts' /\ Unstarted'
  BY WritingNext, StepNext, StagedNext, BackendNext
<1>3. Verdict' /\ Decided' /\ Placed'
  BY VerdictNext, DecidedNext, PlacedNext
<1>4. Fits(Selected)' /\ Fits(goal)'
  BY FitsNext
<1>5. QED
  BY <1>1, <1>2, <1>3, <1>4 DEF RestoreInv

(* The inductive invariant holds in every reachable state of the            *)
(* transaction, of its journal and of the recovery at each start.           *)
THEOREM Invariance == Spec => []RestoreInv
  BY InitInv, NextInv, PTL DEF Spec

(* A backend never runs on the database of one profile and the documents of *)
(* the other (profileRestoreActivationTransaction, profileRestoreStartup-   *)
(* Recovery).                                                               *)
THEOREM BackendSeesOneProfile == Spec => []NeverMixed
<1>1. RestoreInv => NeverMixed
  <2> SUFFICES ASSUME RestoreInv, backend # "off" PROVE active \in {OldProfile, NewProfile}
    BY DEF NeverMixed
  <2>1. Selected \in {None, Empty, "prepared", "rolledBack", "validationStarting", "accepted"}
    BY DEF RestoreInv, TypeOK, StepFacts, BackendFacts
  <2>2. Selected \in {None, Empty} => active \in {OldProfile, NewProfile}
    BY DEF RestoreInv, Decided
  <2>3. QED
    BY <2>1, <2>2, InPlace
<1>2. QED
  BY <1>1, Invariance, PTL

(* Until the acceptance is published no part of the replaced profile is     *)
(* lost, and no part of the restored one is lost or doubled, wherever the   *)
(* renames of the transaction or of its rollback were cut short.            *)
THEOREM NoPartIsLost == Spec => []NothingLost
<1>1. RestoreInv => NothingLost
  <2> SUFFICES ASSUME RestoreInv PROVE NothingLost
    OBVIOUS
  <2>1. ~accepted => \A p \in had : base \in {active[p], rollback[p]}
    <3>1. CASE op > 0
      BY <3>1 DEF RestoreInv, TypeOK, Placed, Place
    <3>2. CASE op = 0
      BY <3>2 DEF RestoreInv, TypeOK, Unstarted, Decided, OldProfile
    <3>3. QED
      BY <3>1, <3>2 DEF RestoreInv, TypeOK
  <2>2. ASSUME op > 0, NEW p \in Parts
        PROVE  Cardinality({x \in {<<"staged", staged[p]>>, <<"active", active[p]>>,
                                   <<"failed", failed[p]>>} : x[2] = op}) = 1
    <3> DEFINE here == {x \in {<<"staged", staged[p]>>, <<"active", active[p]>>,
                               <<"failed", failed[p]>>} : x[2] = op}
    <3>1. Place(p) /\ op # Absent
      BY <2>2 DEF RestoreInv, Placed, Absent
    <3>2. \/ staged[p] = op /\ active[p] # op /\ failed[p] # op
          \/ staged[p] # op /\ active[p] = op /\ failed[p] # op
          \/ staged[p] # op /\ active[p] # op /\ failed[p] = op
      BY <3>1 DEF Place
    <3>3. here \in {{<<"staged", op>>}, {<<"active", op>>}, {<<"failed", op>>}}
      BY <3>2
    <3>4. QED
      BY <3>3, FS_Singleton
  <2>3. QED
    BY <2>1, <2>2 DEF NothingLost
<1>2. QED
  BY <1>1, Invariance, PTL

(* The profile that is served is the one the journal's decision named, also *)
(* when the process died before the journal was cleared.                    *)
THEOREM DecisionIsKept == Spec => []DecisionStands
<1>1. RestoreInv => DecisionStands
  BY DEF RestoreInv, StepFacts, Decided, DecisionStands
<1>2. QED
  BY <1>1, Invariance, PTL

(* The censuses of the next start (readForwardRecoverySources and           *)
(* readRollbackRecoverySources) recognise every state the program can leave *)
(* behind.                                                                  *)
THEOREM CensusIsComplete == Spec => []CensusAdmits
<1>1. RestoreInv => CensusAdmits
  <2> SUFFICES ASSUME RestoreInv PROVE CensusAdmits
    OBVIOUS
  <2>1. IsForward(Selected) /\ ~Anchored => ForwardAdmits(Selected)
    BY Census DEF RestoreInv, Fits, ForwardAdmits, Anchored
  <2>2. Selected \in {"rollbackStarting", "rolledBack"} => RollbackAdmits(Selected)
    BY DEF RestoreInv, Fits
  <2>3. QED
    BY <2>1, <2>2 DEF RestoreInv, CensusAdmits
<1>2. QED
  BY <1>1, Invariance, PTL
=============================================================================
