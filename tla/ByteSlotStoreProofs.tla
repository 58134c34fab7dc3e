------------------------- MODULE ByteSlotStoreProofs -------------------------
(***************************************************************************)
(* The slot store for every set of records.  Shape says, for every call    *)
(* that may be next, which slots can exist and whose contents they hold;   *)
(* with the type invariant it is inductive, and the store's safety and its *)
(* implementation of DurableRegister follow from it.                       *)
(***************************************************************************)
EXTENDS ByteSlotStore, TLAPS

\* What the slots hold before each call of a recovery.
RecoveryShape ==
  /\ pc = "dropNext" => /\ seen = Authority(slots) /\ seen \in Value
                        /\ slots.current # None \/ slots.backup # None
  /\ pc = "dropBackup" => /\ slots.current = seen /\ seen \in Value
                          /\ slots.next = None
  /\ pc = "restoreBackup" => /\ slots.backup = seen /\ seen \in Value
                             /\ slots.current = None /\ slots.next = None
  /\ pc = "promoteNext" => /\ slots.next = seen /\ seen \in Value
                           /\ slots.current = None /\ slots.backup = None
  /\ pc = "syncRecovered" => /\ slots.current = seen /\ seen \in Value
                             /\ slots.backup = None /\ slots.next = None
  /\ pc \in RecoverySteps /\ selected => kind = "read"

\* ... of a replacement, of its roll back and its clean up.
ReplaceShape ==
  /\ pc \in {"prepare"} \cup StagingSteps \cup PublishedSteps \cup UndoSteps
       => kind = "write"
  /\ pc \in {"prepare", "createNext"} => /\ slots.current = seen
                                         /\ slots.backup = None /\ slots.next = None
  /\ pc = "writeNext" => /\ slots.current = seen /\ slots.backup = None
                         /\ slots.next = Torn
  /\ pc \in {"syncNext", "closeNext", "setAside"} =>
       /\ slots.current = seen /\ slots.backup = None /\ slots.next = target
  /\ pc = "setAside" => seen # None
  /\ pc = "publish" => /\ slots.current = None /\ slots.backup = seen
                       /\ slots.next = target
  /\ pc \in {"syncPublished", "dropOld"} =>
       /\ slots.current = target /\ slots.backup = seen /\ slots.next = None
  /\ pc = "syncDropped" => /\ slots.current = target /\ slots.backup = None
                           /\ slots.next = None
  /\ pc = "rollBack" => /\ slots.backup = seen /\ seen # None
                        /\ \/ slots.current = None /\ slots.next = target
                           \/ slots.current = target /\ slots.next = None
  /\ pc = "syncRolledBack" => /\ slots.current = seen /\ seen # None
                              /\ slots.backup = None /\ slots.next = target
  /\ pc = "cleanUp" => slots.next \in {None, Torn, target}

\* ... and of a removal.
ClearShape ==
  /\ pc \in ClearSteps => kind = "remove" /\ slots.next # Torn
  /\ pc \in {"clearBackup", "clearCurrent", "syncCleared"} => slots.next = None
  /\ pc \in {"clearCurrent", "syncCleared"} => slots.backup = None
  /\ pc = "syncCleared" => slots.current = None

Inv == /\ TypeOK /\ OnlyNextIsTorn /\ NeverAllThree
       /\ RecoveryShape /\ ReplaceShape /\ ClearShape

USE ContentsDistinct DEF ContentsDistinct

\* An empty directory satisfies the invariant.
LEMMA InitInv == Init => Inv
<1> SUFFICES ASSUME Init PROVE Inv
    OBVIOUS
<1> USE DEF Init, Slots, Contents, Empty, Steps, RecoverySteps, StagingSteps,
            PublishedSteps, UndoSteps, ClearSteps
<1>1. slots \in Slots
  OBVIOUS
<1>2. TypeOK
  BY <1>1 DEF TypeOK
<1>3. OnlyNextIsTorn /\ NeverAllThree
  BY DEF OnlyNextIsTorn, NeverAllThree
<1>4. RecoveryShape /\ ReplaceShape /\ ClearShape
  BY DEF RecoveryShape, ReplaceShape, ClearShape
<1> QED
  BY <1>2, <1>3, <1>4 DEF Inv

\* recoverAndRead hands v over with v in current and the siblings gone.
LEMMA RecoveredInv ==
  ASSUME Inv, NEW v \in Value \cup {None}, Recovered(v),
         pc \in {"inspect", "dropBackup", "syncRecovered"},
         slots' = [current |-> v, backup |-> None, next |-> None]
  PROVE  Inv'
<1> USE DEF Inv, TypeOK, OnlyNextIsTorn, NeverAllThree, RecoveryShape,
            ReplaceShape, ClearShape, Slots, Contents, Steps, RecoverySteps,
            StagingSteps, PublishedSteps, UndoSteps, ClearSteps, request
<1>0. /\ slots' \in Slots
      /\ slots'.current = v /\ slots'.backup = None /\ slots'.next = None
  OBVIOUS
<1>1. CASE kind = "read" /\ Return(v)
  BY <1>0, <1>1 DEF Return, Close
<1>2. CASE /\ kind = "write" /\ pc' = "prepare" /\ seen' = v
           /\ UNCHANGED <<request, touched, reply>>
  BY <1>0, <1>2
<1>3. CASE /\ kind = "remove" /\ pc' = "clearNext" /\ seen' = v
           /\ UNCHANGED <<request, touched, reply>>
  BY <1>0, <1>3
<1>4. CASE Throw
  BY <1>0, <1>4 DEF Throw, Close
<1> QED
  BY <1>1, <1>2, <1>3, <1>4 DEF Recovered

\* Every call of every operation, failing or not, and the death of the process
\* between any two of them preserve the invariant.
LEMMA NextInv == Inv /\ [Next]_vars => Inv'
<1> SUFFICES ASSUME Inv, [Next]_vars PROVE Inv'
    OBVIOUS
<1> USE DEF Inv, TypeOK, OnlyNextIsTorn, NeverAllThree, RecoveryShape,
            ReplaceShape, ClearShape, Slots, Contents, Steps, RecoverySteps,
            StagingSteps, PublishedSteps, UndoSteps, ClearSteps, request
<1>1. CASE UNCHANGED vars
  BY <1>1 DEF vars
<1>2. CASE Read \/ RemoveRecord \/ \E v \in Value : Write(v)
  BY <1>2 DEF Read, RemoveRecord, Write, Call
<1>3. CASE \E v \in Value : ReplaceSelected(v)
  BY <1>3 DEF ReplaceSelected, Call, Selectable
<1>4. CASE RecoverSelected
  BY <1>4 DEF RecoverSelected, Call, Selectable, Authority
<1>5. CASE PromoteInitialSelected \/ ClearSelected
  BY <1>5 DEF PromoteInitialSelected, ClearSelected, Call, Selectable, Authority
<1>6. CASE RecoverObserved
  BY <1>6 DEF RecoverObserved, Call, Authority
<1>7. CASE Inspect
  <2>1. CASE Authority(slots) = Torn /\ Throw
    BY <1>7, <2>1 DEF Inspect, Throw, Close
  <2>2. CASE Authority(slots) = None /\ Recovered(None)
    <3>1. slots' = [current |-> None, backup |-> None, next |-> None]
      BY <1>7, <2>2 DEF Inspect, Authority
    <3> QED BY <1>7, <2>2, <3>1, RecoveredInv DEF Inspect
  <2>3. CASE /\ Authority(slots) \in Value
             /\ seen' = Authority(slots)
             /\ pc' = IF slots.current = None /\ slots.backup = None
                      THEN "promoteNext" ELSE "dropNext"
             /\ UNCHANGED <<request, touched, reply>>
    BY <1>7, <2>3 DEF Inspect, Authority
  <2> QED BY <1>7, <2>1, <2>2, <2>3 DEF Inspect
<1>8. CASE DropNext
  BY <1>8 DEF DropNext, Remove, Authority
<1>9. CASE DropBackup
  <2>1. CASE pc' = "syncRecovered" /\ touched' = TRUE /\ UNCHANGED <<request, seen, reply>>
    BY <1>9, <2>1 DEF DropBackup, Remove
  <2>2. CASE Recovered(seen)
    <3>1. slots' = [current |-> seen, backup |-> None, next |-> None]
      BY <1>9 DEF DropBackup, Remove
    <3> QED BY <1>9, <2>2, <3>1, RecoveredInv DEF DropBackup
  <2> QED BY <1>9, <2>1, <2>2 DEF DropBackup
<1>10. CASE RestoreBackup \/ PromoteNext
  BY <1>10 DEF RestoreBackup, PromoteNext, Move, Goto
<1>11. CASE SyncRecovered
  <2>1. slots' = [current |-> seen, backup |-> None, next |-> None]
    BY <1>11 DEF SyncRecovered
  <2> QED BY <1>11, <2>1, RecoveredInv DEF SyncRecovered
<1>12. CASE Prepare \/ CreateNext \/ WriteNext \/ SyncNext \/ CloseNext
  BY <1>12 DEF Prepare, CreateNext, WriteNext, SyncNext, CloseNext, Continue,
               Goto, hadCurrentValue
<1>13. CASE SetAside \/ Publish
  BY <1>13 DEF SetAside, Publish, Move, Goto
<1>14. CASE SyncPublished \/ DropOld \/ SyncDropped
  BY <1>14 DEF SyncPublished, DropOld, SyncDropped, Remove, Goto, Return, Close,
               hadCurrentValue
<1>15. CASE RollBack \/ SyncRolledBack \/ CleanUp
  BY <1>15 DEF RollBack, SyncRolledBack, CleanUp, Move, Remove, Goto, Continue,
               Throw, Close
<1>16. CASE ClearNext \/ ClearBackup \/ ClearCurrent \/ SyncCleared
  BY <1>16 DEF ClearNext, ClearBackup, ClearCurrent, SyncCleared, Remove, Goto,
               Return, Close
<1>17. CASE Fail \/ Crash
  BY <1>17 DEF Fail, Crash, AfterThrow, Throw, Close, Goto, hadCurrentValue
<1>18. CASE FailLate
  <2> USE DEF AfterThrow, Throw, Close, Goto, Move, hadCurrentValue
  <2>1. CASE pc \in {"createNext", "writeNext"}
    BY <1>18, <2>1 DEF FailLate
  <2>2. CASE pc = "setAside"
    BY <1>18, <2>2 DEF FailLate
  <2>3. CASE pc = "publish"
    BY <1>18, <2>3 DEF FailLate
  <2>4. CASE pc = "rollBack"
    BY <1>18, <2>4 DEF FailLate
  <2>5. CASE pc = "restoreBackup"
    BY <1>18, <2>5 DEF FailLate
  <2>6. CASE pc = "promoteNext"
    BY <1>18, <2>6 DEF FailLate
  <2> QED BY <1>18, <2>1, <2>2, <2>3, <2>4, <2>5, <2>6 DEF FailLate
<1> QED
  BY <1>1, <1>2, <1>3, <1>4, <1>5, <1>6, <1>7, <1>8, <1>9, <1>10, <1>11, <1>12,
     <1>13, <1>14, <1>15, <1>16, <1>17, <1>18 DEF Next, Begin, Operate

\* Shape and types hold in every reachable state.
LEMMA Invariance == Spec => []Inv
BY InitInv, NextInv, PTL DEF Spec

\* The type invariant holds in every reachable state, for every set of records.
THEOREM TypeCorrect == Spec => []TypeOK
BY Invariance, PTL DEF Inv

\* However operations of CrashSafeByteSlotStore are interrupted, current and
\* backup never hold a partly written record.
THEOREM NeverTorn == Spec => []OnlyNextIsTorn
BY Invariance, PTL DEF Inv

\* The slot combination recoverSelected refuses is never reached.
THEOREM AtMostTwoSlots == Spec => []NeverAllThree
BY Invariance, PTL DEF Inv

\* The exclusive create and the renames of replace and of both recoveries
\* never meet a missing source or an existing destination.
THEOREM NoCollision == Spec => []MovesNeverCollide
<1>1. Inv => MovesNeverCollide
  BY DEF Inv, TypeOK, RecoveryShape, ReplaceShape, MovesNeverCollide, StagingSteps
<1> QED BY <1>1, Invariance, PTL

-----------------------------------------------------------------------------
(* The store implements DurableRegister.                                   *)

\* An empty directory is an empty register.
LEMMA InitRegister == Init => Register!Init
BY DEF Init, Register!Init, RegisterValue, RegisterRequest, Staging, Empty,
       Authority, StagingSteps

\* A step that changes neither the register nor the request is a stutter.
LEMMA Silent ==
  ASSUME RegisterValue' = RegisterValue, UNCHANGED <<request, reply>>
  PROVE  [Register!Next]_(Register!vars)
BY DEF request, RegisterRequest, Register!vars

\* The open mutation takes effect.
LEMMA Applied ==
  ASSUME TypeOK, kind \in {"write", "remove"}, UNCHANGED <<request, reply>>,
         RegisterValue \in Value \cup {None},
         RegisterValue' = IF kind = "write" THEN target ELSE None
  PROVE  [Register!Next]_(Register!vars)
BY DEF TypeOK, request, RegisterRequest, Register!Next, Register!Apply

\* The operation returns what the register holds.
LEMMA Answered ==
  ASSUME TypeOK, pc # "idle", NEW v \in Value \cup {None}, Return(v),
         RegisterValue' = RegisterValue, RegisterValue = v,
         kind = "read" \/ v = IF kind = "write" THEN target ELSE None
  PROVE  [Register!Next]_(Register!vars)
BY DEF TypeOK, RegisterRequest, Return, Close, Register!Next, Register!Answer

\* The operation is lost, after or before its effect.
LEMMA Abandoned ==
  ASSUME TypeOK, pc # "idle", Throw,
         \/ RegisterValue' = RegisterValue
         \/ /\ kind = "write" /\ RegisterValue \in Value \cup {None}
            /\ RegisterValue' = target
         \/ kind = "write" /\ RegisterValue = None /\ RegisterValue' = Torn
  PROVE  [Register!Next]_(Register!vars)
BY DEF TypeOK, RegisterRequest, Throw, Close, Register!Next, Register!Abandon

\* Every step of the store is one step of the register, or none.
LEMMA NextRegister == Inv /\ Inv' /\ [Next]_vars => [Register!Next]_(Register!vars)
<1> SUFFICES ASSUME Inv, Inv', [Next]_vars
             PROVE  [Register!Next]_(Register!vars)
    OBVIOUS
<1> USE DEF Inv, TypeOK, OnlyNextIsTorn, RecoveryShape, ReplaceShape,
            ClearShape, Slots, Contents, Steps, RecoverySteps, StagingSteps,
            PublishedSteps, UndoSteps, ClearSteps, request, RegisterValue,
            RegisterRequest, Staging, Authority, Register!vars
<1>1. CASE UNCHANGED vars
  BY <1>1 DEF vars
<1>2. CASE Begin
  <2>1. /\ kind = "none" /\ kind' # "none" /\ slots' = slots /\ reply' = reply
        /\ pc' \in {"inspect", "prepare", "dropNext", "promoteNext", "clearNext"}
    BY <1>2 DEF Begin, Read, RemoveRecord, Write, ReplaceSelected, RecoverSelected,
                ClearSelected, PromoteInitialSelected, RecoverObserved, Call
  <2>2. RegisterValue' = RegisterValue
    BY <2>1
  <2>3. RegisterRequest = Idle /\ RegisterRequest' \in Value \cup {None, Reading}
    BY <2>1
  <2> QED BY <2>1, <2>2, <2>3 DEF Register!Next, Register!Open
<1>3. CASE Inspect
  <2>1. RegisterValue' = RegisterValue
    BY <1>3 DEF Inspect, Recovered, Throw, Return, Close
  <2>2. CASE Throw
    BY <1>3, <2>1, <2>2, Abandoned DEF Inspect
  <2>3. CASE kind = "read" /\ Return(None) /\ Authority(slots) = None
    BY <1>3, <2>1, <2>3, Answered DEF Inspect
  <2>4. CASE UNCHANGED <<request, touched, reply>>
    BY <2>1, <2>4, Silent
  <2> QED BY <1>3, <2>2, <2>3, <2>4 DEF Inspect, Recovered
<1>4. CASE DropBackup \/ SyncRecovered
  <2>1. RegisterValue' = RegisterValue /\ (Recovered(seen) => RegisterValue = seen)
    BY <1>4 DEF DropBackup, SyncRecovered, Remove, Recovered, Throw, Return, Close
  <2>2. CASE Throw
    BY <1>4, <2>1, <2>2, Abandoned DEF DropBackup, SyncRecovered
  <2>3. CASE kind = "read" /\ Return(seen) /\ Recovered(seen)
    BY <1>4, <2>1, <2>3, Answered DEF DropBackup, SyncRecovered
  <2>4. CASE UNCHANGED <<request, reply>>
    BY <2>1, <2>4, Silent
  <2> QED BY <1>4, <2>2, <2>3, <2>4 DEF DropBackup, SyncRecovered, Recovered
<1>5. CASE DropNext \/ RestoreBackup \/ PromoteNext
  <2>1. RegisterValue' = RegisterValue /\ UNCHANGED <<request, reply>>
    BY <1>5 DEF DropNext, RestoreBackup, PromoteNext, Remove, Move, Goto
  <2> QED BY <2>1, Silent
<1>6. CASE Prepare \/ CreateNext \/ WriteNext \/ SyncNext \/ CloseNext \/ SetAside
  <2>1. UNCHANGED <<request, reply>>
    BY <1>6 DEF Prepare, CreateNext, WriteNext, SyncNext, CloseNext, SetAside,
                Continue, Goto
  <2>2. RegisterValue' = RegisterValue
    BY <1>6 DEF Prepare, CreateNext, WriteNext, SyncNext, CloseNext, SetAside,
                Continue, Goto, Move, hadCurrentValue
  <2> QED BY <2>1, <2>2, Silent
<1>7. CASE Publish
  <2>1. RegisterValue' = target /\ RegisterValue \in Value \cup {None}
        /\ UNCHANGED <<request, reply>> /\ kind = "write"
    BY <1>7 DEF Publish, Move, Goto
  <2> QED BY <2>1, Applied
<1>8. CASE SyncPublished \/ SyncDropped
  <2>1. RegisterValue' = RegisterValue /\ RegisterValue = target /\ kind = "write"
    BY <1>8 DEF SyncPublished, SyncDropped, Goto, Return, Close
  <2>2. CASE Return(target)
    BY <1>8, <2>1, <2>2, Answered DEF SyncPublished, SyncDropped
  <2>3. CASE Goto("dropOld")
    BY <2>1, <2>3, Silent DEF Goto
  <2> QED BY <1>8, <2>2, <2>3 DEF SyncPublished, SyncDropped
<1>9. CASE DropOld \/ RollBack \/ SyncRolledBack
  <2>1. RegisterValue' = RegisterValue /\ UNCHANGED <<request, reply>>
    BY <1>9 DEF DropOld, RollBack, SyncRolledBack, Remove, Move, Goto, Continue
  <2> QED BY <2>1, Silent
<1>10. CASE CleanUp
  <2>1. RegisterValue' = RegisterValue /\ Throw
    BY <1>10 DEF CleanUp, Remove, Throw, Close
  <2> QED BY <1>10, <2>1, Abandoned DEF CleanUp
<1>11. CASE ClearNext \/ ClearBackup \/ ClearCurrent
  <2>1. UNCHANGED <<request, reply>> /\ kind = "remove"
    BY <1>11 DEF ClearNext, ClearBackup, ClearCurrent, Goto
  <2>2. RegisterValue' \in {RegisterValue, None} /\ RegisterValue \in Value \cup {None}
    BY <1>11 DEF ClearNext, ClearBackup, ClearCurrent, Goto, Remove
  <2> QED BY <2>1, <2>2, Silent, Applied
<1>12. CASE SyncCleared
  <2>1. RegisterValue' = RegisterValue /\ RegisterValue = None /\ kind = "remove"
        /\ Return(None)
    BY <1>12 DEF SyncCleared, Return, Close
  <2> QED BY <1>12, <2>1, Answered DEF SyncCleared
<1>13. CASE Fail \/ Crash
  <2>1. pc # "idle" /\ (Throw \/ UNCHANGED <<request, reply>>) /\ slots' = slots
    BY <1>13 DEF Fail, Crash, AfterThrow, Goto
  <2>2. CASE Throw
    <3>1. \/ RegisterValue' = RegisterValue
          \/ kind = "write" /\ RegisterValue = None /\ RegisterValue' \in {Torn, target}
      BY <2>1, <2>2 DEF Throw, Close
    <3> QED BY <2>1, <2>2, <3>1, Abandoned
  <2>3. CASE UNCHANGED <<request, reply>> /\ ~Throw
    <3>1. RegisterValue' = RegisterValue
      BY <1>13, <2>1, <2>3 DEF Fail, Crash, AfterThrow, Goto, hadCurrentValue
    <3> QED BY <2>3, <3>1, Silent
  <2> QED BY <2>1, <2>2, <2>3
<1>14. CASE FailLate
  <2> USE DEF AfterThrow, Goto, Throw, Close, Move, hadCurrentValue
  <2>0. pc # "idle" /\ (Throw \/ UNCHANGED <<request, reply>>)
    BY <1>14 DEF FailLate
  <2>1. CASE pc \in {"createNext", "writeNext", "setAside", "publish"}
    <3>1. kind = "write" /\ RegisterValue \in Value \cup {None}
      BY <2>1
    <3>2. CASE pc = "createNext"
      <4>1. \/ RegisterValue' = RegisterValue
            \/ Throw /\ RegisterValue = None /\ RegisterValue' = Torn
        BY <1>14, <3>2 DEF FailLate
      <4> QED BY <2>0, <3>1, <4>1, Silent, Abandoned
    <3>3. CASE pc = "writeNext"
      <4>1. RegisterValue' \in {RegisterValue, target}
        BY <1>14, <3>3 DEF FailLate
      <4> QED BY <2>0, <3>1, <4>1, Silent, Applied, Abandoned
    <3>5. CASE pc = "publish"
      <4>1. slots' = Move(slots, "next", "current")
        BY <1>14, <3>5 DEF FailLate
      <4>2. RegisterValue' = target
        BY <3>5, <4>1
      <4> QED BY <2>0, <3>1, <4>2, Applied, Abandoned
    <3>4. CASE pc = "setAside"
      <4>1. RegisterValue' = RegisterValue
        BY <1>14, <3>4 DEF FailLate
      <4> QED BY <2>0, <4>1, Silent, Abandoned
    <3> QED BY <2>1, <3>2, <3>3, <3>4, <3>5
  <2>2. CASE pc \in {"rollBack", "restoreBackup", "promoteNext"}
    <3>1. CASE pc = "rollBack"
      <4>1. slots' = IF slots.current = None
                     THEN Move(slots, "backup", "current") ELSE slots
        BY <1>14, <3>1 DEF FailLate
      <4>2. RegisterValue' = RegisterValue
        BY <3>1, <4>1
      <4> QED BY <2>0, <4>2, Silent, Abandoned
    <3>2. CASE pc = "restoreBackup"
      <4>1. slots' = Move(slots, "backup", "current") /\ pc' \notin StagingSteps \cup {"cleanUp"}
        BY <1>14, <3>2 DEF FailLate
      <4>2. RegisterValue' = RegisterValue
        BY <3>2, <4>1
      <4> QED BY <2>0, <4>2, Silent, Abandoned
    <3>3. CASE pc = "promoteNext"
      <4>1. slots' = Move(slots, "next", "current") /\ pc' \notin StagingSteps \cup {"cleanUp"}
        BY <1>14, <3>3 DEF FailLate
      <4>2. RegisterValue' = RegisterValue
        BY <3>3, <4>1
      <4> QED BY <2>0, <4>2, Silent, Abandoned
    <3> QED BY <2>2, <3>1, <3>2, <3>3
  <2> QED BY <1>14, <2>1, <2>2 DEF FailLate
<1> QED
  BY <1>1, <1>2, <1>3, <1>4, <1>5, <1>6, <1>7, <1>8, <1>9, <1>10, <1>11, <1>12,
     <1>13, <1>14 DEF Next, Operate

\* For every set of records the slot store is an atomic register: answers are
\* truthful, acknowledged records stay, interrupted replacements leave the old
\* record or the new one, and removed records do not come back.
THEOREM Implements == Spec => RegisterSpec
<1>1. Init => Register!Init
  BY InitRegister
<1>2. Inv /\ Inv' /\ [Next]_vars => [Register!Next]_(Register!vars)
  BY NextRegister
<1> QED BY <1>1, <1>2, Invariance, PTL DEF Spec, RegisterSpec, Register!Spec
=============================================================================
