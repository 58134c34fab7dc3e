---------------------------- MODULE ByteSlotStore ----------------------------
(***************************************************************************)
(* CrashSafeByteSlotStore over its three file slots, driven by one owner   *)
(* (WorkspaceRegistryStore, WorkspaceCreationJournalStore, ...), whose     *)
(* runExclusive admits one operation at a time.  Every filesystem call is  *)
(* a step of its own: it succeeds, throws without effect (Fail), or throws *)
(* after its effect (FailLate), and the process may die before any of them *)
(* (Crash).  Loss of power is outside the model, as docs/architecture/     *)
(* local-company-workspace-plan.md (2514) leaves it outside the promise.   *)
(***************************************************************************)
CONSTANTS Value,      \* record contents the owner's validateBytes accepts
          None,       \* `undefined': no file in the slot, no stored value
          Torn,       \* an empty or partly written file, refused by readSlot
                      \* (empty) or by validateBytes (partial)
          Idle,       \* abstract request: none open
          Reading     \* abstract request: a read

ASSUME ContentsDistinct ==
  /\ None \notin Value /\ Torn \notin Value /\ None # Torn
  /\ Idle \notin Value \cup {None} /\ Reading \notin Value \cup {None}
  /\ Idle # Reading

VARIABLES slots,      \* [current, backup, next]: contents of each file slot
          pc,         \* the filesystem call about to be made
          kind,       \* the open operation: "none", "read", "write", "remove"
          target,     \* bytes being written (kind "write")
          selected,   \* TRUE in the *Selected operations: no roll back, no clean up
          seen,       \* the value recovery or the selection found
          touched,    \* removedNext || removedBackup
          reply       \* what the last successful operation returned

vars == <<slots, pc, kind, target, selected, seen, touched, reply>>
request == <<kind, target, selected>>

Contents == Value \cup {None, Torn}
Slots == [current : Contents, backup : Contents, next : Contents]
Empty == [current |-> None, backup |-> None, next |-> None]

RecoverySteps == {"inspect", "dropNext", "dropBackup", "restoreBackup",
                  "promoteNext", "syncRecovered"}
StagingSteps == {"createNext", "writeNext", "syncNext", "closeNext",
                 "setAside", "publish"}
PublishedSteps == {"syncPublished", "dropOld", "syncDropped"}
UndoSteps == {"rollBack", "syncRolledBack", "cleanUp"}
ClearSteps == {"clearNext", "clearBackup", "clearCurrent", "syncCleared"}
Steps == {"idle", "prepare"} \cup RecoverySteps \cup StagingSteps
           \cup PublishedSteps \cup UndoSteps \cup ClearSteps

\* Mutant: inspection prefers next to backup.
AuthorityPrefersNext(s) == IF s.current # None THEN s.current
                           ELSE IF s.next # None THEN s.next
                           ELSE s.backup

\* inspect: the first slot that exists, in the order current, backup, next.
Authority(s) == IF s.current # None THEN s.current
                ELSE IF s.backup # None THEN s.backup
                ELSE s.next

Remove(s, slot) == [s EXCEPT ![slot] = None]
Move(s, from, to) == [s EXCEPT ![to] = s[from], ![from] = None]

Init == /\ slots = Empty
        /\ pc = "idle" /\ kind = "none" /\ target = None
        /\ selected = FALSE /\ seen = None /\ touched = FALSE
        /\ reply = None

-----------------------------------------------------------------------------
(* The owner's calls.  read, write and remove begin with recoverAndRead.   *)

Call(k, v, sel, first) ==
  /\ pc = "idle"
  /\ kind' = k /\ target' = v /\ selected' = sel /\ touched' = FALSE
  /\ pc' = first
  /\ UNCHANGED <<slots, reply>>

Read == Call("read", None, FALSE, "inspect") /\ UNCHANGED seen
Write(v) == Call("write", v, FALSE, "inspect") /\ UNCHANGED seen
RemoveRecord == Call("remove", None, FALSE, "inspect") /\ UNCHANGED seen

\* A selection is captured from inspectSlots, which refuses a torn slot.
Selectable == Torn \notin {slots.current, slots.backup, slots.next}

ReplaceSelected(v) ==
  /\ Selectable /\ slots.next = None /\ slots.backup = None
  /\ Call("write", v, TRUE, "prepare")
  /\ seen' = slots.current

RecoverSelected ==
  /\ Selectable
  /\ slots.current # None \/ slots.backup # None
  /\ slots.current = None \/ slots.backup = None \/ slots.next = None
  /\ Call("read", None, TRUE, "dropNext")
  /\ seen' = Authority(slots)

PromoteInitialSelected ==
  /\ Selectable
  /\ slots.current = None /\ slots.backup = None /\ slots.next # None
  /\ Call("read", None, TRUE, "promoteNext")
  /\ seen' = slots.next

ClearSelected ==
  /\ Selectable
  /\ Call("remove", None, TRUE, "clearNext")
  /\ seen' = Authority(slots)

\* recoverObservedSelection reads only its source slot: siblings may be torn.
RecoverObserved ==
  /\ Authority(slots) \in Value
  /\ Call("read", None, TRUE, IF slots.current = None /\ slots.backup = None
                              THEN "promoteNext" ELSE "dropNext")
  /\ seen' = Authority(slots)

-----------------------------------------------------------------------------
(* Ends of an operation.                                                   *)

Close == /\ pc' = "idle" /\ kind' = "none" /\ target' = None
         /\ selected' = FALSE /\ seen' = None /\ touched' = FALSE

Return(v) == Close /\ reply' = v
Throw == Close /\ UNCHANGED reply

Goto(step) == pc' = step /\ UNCHANGED <<request, seen, touched, reply>>
Continue(step) == Goto(step) /\ UNCHANGED slots

\* recoverAndRead has returned v to the owner: a read is answered, a write
\* goes on to replace, a removal needs a record to remove.
Recovered(v) ==
  \/ kind = "read" /\ Return(v)
  \/ kind = "write" /\ pc' = "prepare" /\ seen' = v
     /\ UNCHANGED <<request, touched, reply>>
  \/ kind = "remove" /\ v # None /\ pc' = "clearNext" /\ seen' = v
     /\ UNCHANGED <<request, touched, reply>>
  \/ kind = "remove" /\ v = None /\ Throw

-----------------------------------------------------------------------------
(* recoverAndRead, and the same calls of the selected recoveries.          *)

Inspect ==
  /\ pc = "inspect"
  /\ UNCHANGED slots
  /\ LET found == Authority(slots) IN
     \/ found = Torn /\ Throw
     \/ found = None /\ Recovered(None)
     \/ /\ found \in Value
        /\ seen' = found
        /\ pc' = IF slots.current = None /\ slots.backup = None
                 THEN "promoteNext" ELSE "dropNext"
        /\ UNCHANGED <<request, touched, reply>>

\* Mutant: a stale next is left behind when the backup is restored.
DropNextUnlessRestoring ==
  /\ pc = "dropNext"
  /\ slots' = IF slots.current # None THEN Remove(slots, "next") ELSE slots
  /\ touched' = (slots.next # None)
  /\ pc' = IF slots.current # None THEN "dropBackup" ELSE "restoreBackup"
  /\ UNCHANGED <<request, seen, reply>>

DropNext ==
  /\ pc = "dropNext"
  /\ slots' = Remove(slots, "next")
  /\ touched' = (slots.next # None)
  /\ pc' = IF slots.current # None THEN "dropBackup" ELSE "restoreBackup"
  /\ UNCHANGED <<request, seen, reply>>

DropBackup ==
  /\ pc = "dropBackup"
  /\ slots' = Remove(slots, "backup")
  /\ \/ /\ touched \/ slots.backup # None \/ selected
        /\ pc' = "syncRecovered" /\ touched' = TRUE
        /\ UNCHANGED <<request, seen, reply>>
     \/ ~touched /\ slots.backup = None /\ ~selected /\ Recovered(seen)

RestoreBackup == /\ pc = "restoreBackup"
                 /\ slots' = Move(slots, "backup", "current")
                 /\ Goto("syncRecovered")

PromoteNext == /\ pc = "promoteNext"
               /\ slots' = Move(slots, "next", "current")
               /\ Goto("syncRecovered")

SyncRecovered == pc = "syncRecovered" /\ Recovered(seen) /\ UNCHANGED slots

-----------------------------------------------------------------------------
(* replace(bytes, hadCurrentValue) and replaceSelected.                    *)

hadCurrentValue == seen # None

Prepare == pc = "prepare" /\ Continue("createNext")

\* open(nextPath, 'wx'): the exclusive create throws when next exists.
CreateNext == /\ pc = "createNext" /\ slots.next = None
              /\ slots' = [slots EXCEPT !.next = Torn]
              /\ Goto("writeNext")

\* Mutant: the number of bytes written is not compared with the record's.
WriteNextUnchecked == /\ pc = "writeNext"
                      /\ \E bytes \in {target, Torn} :
                           slots' = [slots EXCEPT !.next = bytes]
                      /\ Goto("syncNext")

WriteNext == /\ pc = "writeNext"
             /\ slots' = [slots EXCEPT !.next = target]
             /\ Goto("syncNext")

SyncNext == pc = "syncNext" /\ Continue("closeNext")
CloseNext == /\ pc = "closeNext"
             /\ Continue(IF hadCurrentValue THEN "setAside" ELSE "publish")

\* moveSlot needs its source and refuses an existing destination.
SetAside == /\ pc = "setAside" /\ slots.current # None /\ slots.backup = None
            /\ slots' = Move(slots, "current", "backup")
            /\ Goto("publish")

Publish == /\ pc = "publish" /\ slots.current = None
           /\ slots' = Move(slots, "next", "current")
           /\ Goto("syncPublished")

SyncPublished ==
  /\ pc = "syncPublished"
  /\ UNCHANGED slots
  /\ \/ hadCurrentValue /\ Goto("dropOld")
     \/ ~hadCurrentValue /\ Return(target)

DropOld == /\ pc = "dropOld"
           /\ slots' = Remove(slots, "backup")
           /\ Goto("syncDropped")

SyncDropped == pc = "syncDropped" /\ Return(target) /\ UNCHANGED slots

\* restoreBackupBestEffort, then the finally block's removal of next.
RollBack ==
  /\ pc = "rollBack"
  /\ \/ slots.current = None /\ slots' = Move(slots, "backup", "current")
        /\ Goto("syncRolledBack")
     \/ slots.current # None /\ Continue("cleanUp")

SyncRolledBack == pc = "syncRolledBack" /\ Continue("cleanUp")

CleanUp == pc = "cleanUp" /\ slots' = Remove(slots, "next") /\ Throw

-----------------------------------------------------------------------------
(* clear and clearSelected: next, then backup, then current.               *)

ClearNext == /\ pc = "clearNext"
             /\ slots' = Remove(slots, "next")
             /\ Goto("clearBackup")
ClearBackup == /\ pc = "clearBackup"
               /\ slots' = Remove(slots, "backup")
               /\ Goto("clearCurrent")
ClearCurrent == /\ pc = "clearCurrent"
                /\ slots' = Remove(slots, "current")
                /\ Goto("syncCleared")
SyncCleared == pc = "syncCleared" /\ Return(None) /\ UNCHANGED slots

-----------------------------------------------------------------------------
(* Errors and the death of the process.                                    *)

\* Where control goes when the call at pc throws.
AfterThrow ==
  IF selected THEN Throw
  ELSE \/ pc = "publish" /\ hadCurrentValue /\ Goto("rollBack")
       \/ pc = "publish" /\ ~hadCurrentValue /\ Goto("cleanUp")
       \/ pc \in StagingSteps \ {"publish"} /\ Goto("cleanUp")
       \/ pc \in {"rollBack", "syncRolledBack"} /\ Goto("cleanUp")
       \/ /\ pc \in {"prepare", "cleanUp"} \cup RecoverySteps
                      \cup PublishedSteps \cup ClearSteps
          /\ Throw

\* The call throws and has done nothing.  A failed write leaves a torn next.
Fail == pc # "idle" /\ AfterThrow /\ UNCHANGED slots

\* The call throws after its effect: the rename or the create happened, the
\* check that follows it did not pass.
FailLate ==
  /\ pc \in {"createNext", "writeNext", "setAside", "publish", "rollBack",
             "restoreBackup", "promoteNext"}
  /\ slots' = CASE pc = "createNext" -> [slots EXCEPT !.next = Torn]
                [] pc = "writeNext" -> [slots EXCEPT !.next = target]
                [] pc = "setAside" -> Move(slots, "current", "backup")
                [] pc = "publish" -> Move(slots, "next", "current")
                [] pc = "promoteNext" -> Move(slots, "next", "current")
                [] pc = "restoreBackup" -> Move(slots, "backup", "current")
                [] OTHER -> IF slots.current = None
                            THEN Move(slots, "backup", "current") ELSE slots
  /\ AfterThrow

\* The process dies between two calls; the files stay, the operation is gone.
Crash == pc # "idle" /\ Throw /\ UNCHANGED slots

-----------------------------------------------------------------------------
Operate == \/ Inspect \/ DropNext \/ DropBackup \/ RestoreBackup
           \/ PromoteNext \/ SyncRecovered
           \/ Prepare \/ CreateNext \/ WriteNext \/ SyncNext \/ CloseNext
           \/ SetAside \/ Publish \/ SyncPublished \/ DropOld \/ SyncDropped
           \/ RollBack \/ SyncRolledBack \/ CleanUp
           \/ ClearNext \/ ClearBackup \/ ClearCurrent \/ SyncCleared

Begin == \/ Read \/ RemoveRecord \/ RecoverSelected \/ ClearSelected
         \/ PromoteInitialSelected \/ RecoverObserved
         \/ \E v \in Value : Write(v) \/ ReplaceSelected(v)

Next == Begin \/ Operate \/ Fail \/ FailLate \/ Crash

Spec == Init /\ [][Next]_vars

-----------------------------------------------------------------------------
(* Properties.                                                             *)

\* Every variable keeps its type; an operation is open exactly when a
\* filesystem call is due.
TypeOK ==
  /\ slots \in Slots /\ pc \in Steps
  /\ kind \in {"none", "read", "write", "remove"}
  /\ target \in Value \cup {None} /\ (kind = "write" <=> target \in Value)
  /\ selected \in BOOLEAN /\ touched \in BOOLEAN
  /\ seen \in Value \cup {None} /\ reply \in Value \cup {None}
  /\ (pc = "idle" <=> kind = "none")

\* A partly written record is only ever in next: whatever failed and whenever
\* the process died, current and backup hold complete records, so the slots
\* that inspect prefers are never the ones that it refuses.
OnlyNextIsTorn == slots.current # Torn /\ slots.backup # Torn

\* The three slots never all exist: the state recoverSelected and the cold
\* recoveries refuse (current, next and backup present) is not one that any
\* interrupted operation leaves behind.
NeverAllThree == slots.current = None \/ slots.backup = None \/ slots.next = None

\* No operation collides with what earlier interrupted ones left: the
\* exclusive create finds next free, and each rename finds its source there
\* and its destination free, so moveSlot's refusals are never reached.
MovesNeverCollide ==
  /\ pc = "createNext" => slots.next = None
  /\ pc = "setAside" => slots.current \in Value /\ slots.backup = None
  /\ pc = "publish" => slots.next = target /\ slots.current = None
  /\ pc = "restoreBackup" => slots.backup \in Value /\ slots.current = None
  /\ pc = "promoteNext" => slots.next \in Value /\ slots.current = None

\* The register the slots stand for.  A first record still being staged, or
\* being cleaned up after a failure, is not yet the register's value.
Staging == /\ pc \in StagingSteps \cup {"cleanUp"}
           /\ slots.current = None /\ slots.backup = None

RegisterValue == IF Staging THEN None ELSE Authority(slots)
RegisterRequest == CASE kind = "none" -> Idle
                     [] kind = "read" -> Reading
                     [] kind = "write" -> target
                     [] OTHER -> None

Register == INSTANCE DurableRegister
              WITH value <- RegisterValue, request <- RegisterRequest

\* The store is an atomic register for its owner: every answer is the value
\* the slots hold, an acknowledged record stays until a later write or removal
\* replaces it, an interrupted or failed replace leaves the old record or the
\* new one, a removed record never comes back, and only the very first record
\* of an empty store can be left unreadable.
RegisterSpec == Register!Spec
=============================================================================
