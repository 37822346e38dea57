----------------------------- MODULE EditProofs -----------------------------
(***************************************************************************)
(* Proofs about EditTransaction and EditPlan.                               *)
(*                                                                          *)
(* EditTransaction, for any number of executions and attempts: an edit is   *)
(* atomic, and implements AtomicEdit, as long as it is alone and no thread  *)
(* or failed roll back outlives it.  The inductive invariant Sound says,    *)
(* for the undisturbed states, that at most one edit is alive, where its    *)
(* thread is, and what the file and the checkpoint hold at each point of    *)
(* its transaction.                                                         *)
(*                                                                          *)
(* EditPlan, for any work and any steps: what a split or a drain leaves     *)
(* open is neither lost nor done twice.  The inductive invariant PlanInv    *)
(* says where each piece of the work is, and that no two steps share one.   *)
(***************************************************************************)
EXTENDS EditTransaction, EditPlan, FiniteInduction

\* At most one execution runs.
Single == \A d, e \in Edits : Alive(d) /\ Alive(e) => d = e

\* An edit that has begun is in its first attempt or a later one.
Started ==
  \A e \in Edits : pc[e] # "idle" \/ thread[e] # "none" => tries[e] # 0

Typed == EditTypeOK /\ Started

\* The thread of an edit is the one its task waits for.
ThreadPlaced ==
  \A e \in Edits :
    /\ pc[e] = "copy" => thread[e] = "copy" /\ file # NoFile /\ ~isNew[e]
    /\ pc[e] = "apply" => thread[e] \in {"read", "write"}
    /\ pc[e] \notin {"copy", "apply"} => thread[e] = "none"

\* What the file holds while an edit is alive.
FilePlaced ==
  \A e \in Edits :
    /\ pc[e] = "apply" => file = checkpoint
    /\ thread[e] = "write" => read[e] = checkpoint
    /\ pc[e] = "validate" => file = Patched(checkpoint, <<e, tries[e]>>)
    /\ pc[e] = "cleanup" => file # NoFile

\* Outside a transaction a checkpoint lies only beside a file.
CheckpointBesideFile ==
  (\A e \in Edits : pc[e] \notin InTransaction) /\ file = NoFile =>
    checkpoint = NoFile

Undoable ==
  \A e \in Edits :
    pc[e] \in InTransaction \cup {"cleanup"} =>
      /\ isNew[e] <=> checkpoint = NoFile
      /\ \A n \in 1 .. Attempts :
           checkpoint # NoFile => <<e, n>> \notin checkpoint

Calm ==
  /\ Single
  /\ ThreadPlaced
  /\ FilePlaced
  /\ CheckpointBesideFile
  /\ Undoable
  /\ OnlyCommitted
  /\ EachCommitted

Sound == Typed /\ (~disturbed => Calm)

-----------------------------------------------------------------------------

\* A patch makes a content of a content.
LEMMA PatchedContent ==
  ASSUME NEW c \in Contents, NEW e \in Edits, NEW n \in 1 .. Attempts
  PROVE  /\ Patched(c, <<e, n>>) \in Contents
         /\ Patched(c, <<e, n>>) # NoFile
         /\ <<e, n>> \in Patched(c, <<e, n>>)
         /\ \A d \in Edits, m \in 1 .. Attempts :
              <<d, m>> \in Patched(c, <<e, n>>) =>
                \/ d = e /\ m = n
                \/ c # NoFile /\ <<d, m>> \in c
         /\ \A d \in Edits, m \in 1 .. Attempts :
              c # NoFile /\ <<d, m>> \in c => <<d, m>> \in Patched(c, <<e, n>>)
<1> DEFINE b == IF c = NoFile THEN {} ELSE c
<1>1. b \in SUBSET Patches
  BY DEF Contents
<1>2. <<e, n>> \in Patches
  BY DEF Patches
<1>3. Patched(c, <<e, n>>) = b \cup {<<e, n>>}
  BY DEF Patched
<1>4. Patched(c, <<e, n>>) \in SUBSET Patches
  BY <1>1, <1>2, <1>3
<1> QED
  BY <1>3, <1>4, FileContentsAssumption DEF Contents

\* Initial states are sound.
LEMMA InitSound == Init => Sound
<1> SUFFICES ASSUME Init PROVE Sound
  OBVIOUS
<1>1. EditTypeOK
  <2>1. file \in Contents /\ checkpoint \in Contents
    BY DEF Init, Contents
  <2>2. pc \in [Edits -> {"idle", "generate", "copy", "cleanup"}
                          \cup InTransaction \cup Ended]
    BY DEF Init
  <2>3. tries \in [Edits -> 0 .. Attempts]
    BY FileContentsAssumption DEF Init
  <2>4. thread \in [Edits -> {"none", "copy", "read", "write"}]
    BY DEF Init
  <2>5. read \in [Edits -> Contents] /\ isNew \in [Edits -> BOOLEAN]
    BY DEF Init, Contents
  <2> QED
    BY <2>1, <2>2, <2>3, <2>4, <2>5 DEF Init, EditTypeOK
<1>2. \A e \in Edits : pc[e] = "idle" /\ thread[e] = "none"
  BY DEF Init
<1>3. Single /\ ThreadPlaced /\ FilePlaced /\ Undoable
  BY <1>2 DEF Single, Alive, ThreadPlaced, FilePlaced, Undoable, InTransaction
<1>4. CheckpointBesideFile
  BY DEF Init, CheckpointBesideFile
<1>5. Durable \in {NoFile, {}}
  BY <1>2 DEF Durable, Init, InTransaction
<1>6. \A e \in Edits : Outcome(e) = "open"
  BY <1>2 DEF Outcome
<1>7. OnlyCommitted /\ EachCommitted
  BY <1>5, <1>6 DEF OnlyCommitted, EachCommitted
<1>8. Started
  BY <1>2 DEF Started
<1> QED
  BY <1>1, <1>3, <1>4, <1>7, <1>8 DEF Sound, Calm, Typed

\* Every step preserves the types, and counts the attempts.
LEMMA TypeStep == Typed /\ [Next]_vars => Typed'
<1> SUFFICES ASSUME EditTypeOK, Started, [Next]_vars
             PROVE  EditTypeOK' /\ Started'
  BY DEF Typed
<1> USE FileContentsAssumption, EditTransactionAssumption
    DEF Goto, Run, InTransaction, Ended
<1>1. CASE UNCHANGED vars
  BY <1>1 DEF vars, EditTypeOK, Started
<1>2. ASSUME NEW e \in Edits, Begin(e) PROVE EditTypeOK' /\ Started'
  <2>1. EditTypeOK'
    BY <1>2 DEF EditTypeOK, Begin
  <2>2. Started'
    BY <1>2 DEF EditTypeOK, Started, Begin
  <2> QED
    BY <2>1, <2>2
<1>3. ASSUME NEW e \in Edits, GenerateAgain(e) PROVE EditTypeOK' /\ Started'
  <2>1. EditTypeOK'
    BY <1>3 DEF EditTypeOK, GenerateAgain
  <2>2. Started'
    BY <1>3 DEF EditTypeOK, Started, GenerateAgain
  <2> QED
    BY <2>1, <2>2
<1>4. ASSUME NEW e \in Edits, GenerateFails(e) PROVE EditTypeOK' /\ Started'
  <2>1. EditTypeOK'
    BY <1>4 DEF EditTypeOK, GenerateFails
  <2>2. Started'
    BY <1>4 DEF EditTypeOK, Started, GenerateFails
  <2> QED
    BY <2>1, <2>2
<1>5. ASSUME NEW e \in Edits, Enter(e) PROVE EditTypeOK' /\ Started'
  <2>1. isNew' \in [Edits -> BOOLEAN]
    <3>1. (file = NoFile) \in BOOLEAN
      OBVIOUS
    <3> QED
      BY <1>5, <3>1, Zenon DEF EditTypeOK, Enter
  <2>2. pc' \in [Edits -> {"idle", "generate", "copy", "cleanup"}
                           \cup InTransaction \cup Ended]
    BY <1>5 DEF EditTypeOK, Enter
  <2>3. thread' \in [Edits -> {"none", "copy", "read", "write"}]
    BY <1>5 DEF EditTypeOK, Enter
  <2>4. Started'
    BY <1>5 DEF EditTypeOK, Started, Enter
  <2> QED
    BY <1>5, <2>1, <2>2, <2>3, <2>4 DEF EditTypeOK, Enter
<1>6. ASSUME NEW e \in Edits, Copy(e) PROVE EditTypeOK' /\ Started'
  <2>1. EditTypeOK'
    BY <1>6 DEF EditTypeOK, Copy
  <2>2. Started'
    BY <1>6 DEF EditTypeOK, Started, Copy
  <2> QED
    BY <2>1, <2>2
<1>7. ASSUME NEW e \in Edits, CopyFails(e) PROVE EditTypeOK' /\ Started'
  <2>1. EditTypeOK'
    BY <1>7 DEF EditTypeOK, CopyFails
  <2>2. Started'
    BY <1>7 DEF EditTypeOK, Started, CopyFails
  <2> QED
    BY <2>1, <2>2
<1>8. ASSUME NEW e \in Edits, Read(e) PROVE EditTypeOK' /\ Started'
  <2>1. EditTypeOK'
    BY <1>8 DEF EditTypeOK, Read
  <2>2. Started'
    BY <1>8 DEF EditTypeOK, Started, Read
  <2> QED
    BY <2>1, <2>2
<1>9. ASSUME NEW e \in Edits, Write(e) PROVE EditTypeOK' /\ Started'
  <2>1. tries[e] \in 1 .. Attempts /\ read[e] \in Contents
    BY <1>9 DEF EditTypeOK, Started, Write
  <2>2. file' \in Contents
    BY <1>9, <2>1, PatchedContent DEF Write
  <2>3. Started'
    BY <1>9 DEF EditTypeOK, Started, Write
  <2> QED
    BY <1>9, <2>2, <2>3 DEF EditTypeOK, Write
<1>10. ASSUME NEW e \in Edits, ApplyFails(e) PROVE EditTypeOK' /\ Started'
  <2>1. EditTypeOK'
    BY <1>10 DEF EditTypeOK, ApplyFails
  <2>2. Started'
    BY <1>10 DEF EditTypeOK, Started, ApplyFails
  <2> QED
    BY <2>1, <2>2
<1>11. ASSUME NEW e \in Edits, Validate(e) PROVE EditTypeOK' /\ Started'
  <2>1. EditTypeOK'
    BY <1>11 DEF EditTypeOK, Validate
  <2>2. Started'
    BY <1>11 DEF EditTypeOK, Started, Validate
  <2> QED
    BY <2>1, <2>2
<1>12. ASSUME NEW e \in Edits, Cleanup(e) PROVE EditTypeOK' /\ Started'
  <2>1. EditTypeOK'
    BY <1>12 DEF EditTypeOK, Cleanup, Contents
  <2>2. Started'
    BY <1>12 DEF EditTypeOK, Started, Cleanup, Contents
  <2> QED
    BY <2>1, <2>2
<1>13. ASSUME NEW e \in Edits, Rollback(e) PROVE EditTypeOK' /\ Started'
  <2>1. EditTypeOK'
    BY <1>13 DEF EditTypeOK, Rollback, Retry, Contents
  <2>2. Started'
    BY <1>13 DEF EditTypeOK, Started, Rollback, Retry, Contents
  <2> QED
    BY <2>1, <2>2
<1>14. ASSUME NEW e \in Edits, Return(e) PROVE EditTypeOK' /\ Started'
  <2>1. EditTypeOK'
    BY <1>14 DEF EditTypeOK, Return
  <2>2. Started'
    BY <1>14 DEF EditTypeOK, Started, Return
  <2> QED
    BY <2>1, <2>2
<1>15. ASSUME NEW e \in Edits, RollbackFails(e) PROVE EditTypeOK' /\ Started'
  <2>1. EditTypeOK'
    BY <1>15 DEF EditTypeOK, RollbackFails, Retry
  <2>2. Started'
    BY <1>15 DEF EditTypeOK, Started, RollbackFails, Retry
  <2> QED
    BY <2>1, <2>2
<1>16. CASE Interrupt
  BY <1>16 DEF EditTypeOK, Started, Interrupt
<1>17. CASE Quit
  BY <1>17 DEF EditTypeOK, Started, Quit, Cancelled
<1> QED
  BY <1>1, <1>2, <1>3, <1>4, <1>5, <1>6, <1>7, <1>8, <1>9,
     <1>10, <1>11, <1>12, <1>13, <1>14, <1>15, <1>16, <1>17
  DEF Next, InterruptedNext, SequentialNext, EditStep

-----------------------------------------------------------------------------

\* In a calm state only the edit that is alive moves, and its place decides
\* what can be restored.
LEMMA Focus ==
  ASSUME EditTypeOK, Single, NEW e \in Edits, Alive(e),
         pc' = [pc EXCEPT ![e] = pc'[e]]
  PROVE  /\ Durable = IF pc[e] \in InTransaction THEN checkpoint ELSE file
         /\ Durable' = IF pc'[e] \in InTransaction THEN checkpoint' ELSE file'
         /\ Single'
         /\ \A d \in Edits : d # e =>
              /\ pc'[d] = pc[d]
              /\ pc[d] \in Ended \cup {"idle"}
              /\ Outcome(d)' = Outcome(d)
<1>1. \A d \in Edits : d # e => pc[d] \in Ended \cup {"idle"}
  BY DEF Single, Alive
<1>2. \A d \in Edits : d # e => pc'[d] = pc[d]
  BY DEF EditTypeOK
<1>3. \A d \in Edits : d # e => pc[d] \notin InTransaction
  BY <1>1 DEF Ended, InTransaction
<1>4. Durable = IF pc[e] \in InTransaction THEN checkpoint ELSE file
  BY <1>3 DEF Durable
<1>5. Durable' = IF pc'[e] \in InTransaction THEN checkpoint' ELSE file'
  BY <1>2, <1>3 DEF Durable
<1>6. Single'
  BY <1>1, <1>2 DEF Single, Alive
<1> QED
  BY <1>1, <1>2, <1>4, <1>5, <1>6 DEF Outcome

\* The account of the committed edits holds as long as what can be restored
\* and the set of committed edits stay.
LEMMA KeepAccount ==
  ASSUME OnlyCommitted, EachCommitted, Durable' = Durable,
         \A d \in Edits : Outcome(d)' = "committed" <=> Outcome(d) = "committed"
  PROVE  OnlyCommitted' /\ EachCommitted'
BY DEF OnlyCommitted, EachCommitted

\* A step that only changes the awaited edit or the session keeps the calm.
LEMMA KeepCalm ==
  ASSUME Calm,
         UNCHANGED <<file, checkpoint, pc, thread, tries, isNew, read>>
  PROVE  Calm'
<1>1. Durable' = Durable /\ \A d \in Edits : Outcome(d)' = Outcome(d)
  BY DEF Durable, Outcome
<1>2. OnlyCommitted' /\ EachCommitted'
  BY <1>1, KeepAccount DEF Calm
<1>3. Single' /\ ThreadPlaced' /\ CheckpointBesideFile' /\ Undoable'
  BY DEF Calm, Single, Alive, ThreadPlaced, CheckpointBesideFile, Undoable
<1>4. FilePlaced'
  BY DEF Calm, FilePlaced, Patched
<1> QED
  BY <1>2, <1>3, <1>4 DEF Calm

\* What a step of an edit may do to what AtomicEdit speaks of.
Effect(e) ==
  /\ \A d \in Edits : d # e => Outcome(d)' = Outcome(d)
  /\ \/ Durable' = Durable /\ Outcome(e)' = Outcome(e)
     \/ Durable' = Durable /\ Outcome(e) = "open" /\ Outcome(e)' = "failed"
     \/ /\ Outcome(e) = "open" /\ Outcome(e)' = "committed"
        /\ tries[e] \in 1 .. Attempts
        /\ Durable' = Patched(Durable, <<e, tries[e]>>)

\* A step of an edit in a calm state leaves it calm, and changes what can be
\* restored only by committing the edit.
LEMMA EditStepCalm ==
  ASSUME Typed, Calm, NEW e \in Edits, EditStep(e)
  PROVE  Calm' /\ Effect(e)
<1> USE FileContentsAssumption DEF Goto, Run
<1>a. /\ Single /\ ThreadPlaced /\ FilePlaced /\ CheckpointBesideFile
      /\ Undoable /\ OnlyCommitted /\ EachCommitted
      /\ EditTypeOK /\ Started
  BY DEF Calm, Typed
<1>b. ASSUME Alive(e), pc' = [pc EXCEPT ![e] = pc'[e]],
             Durable' = Durable,
             \/ Outcome(e)' = Outcome(e)
             \/ Outcome(e) = "open" /\ Outcome(e)' = "failed",
             ThreadPlaced', FilePlaced', CheckpointBesideFile', Undoable'
      PROVE  Calm' /\ Effect(e)
  <2>1. Single' /\ \A d \in Edits : d # e => Outcome(d)' = Outcome(d)
    BY <1>a, <1>b, Focus
  <2>2. OnlyCommitted' /\ EachCommitted'
    BY <1>a, <1>b, <2>1, KeepAccount
  <2> QED
    BY <1>b, <2>1, <2>2 DEF Calm, Effect
<1>1. CASE GenerateAgain(e)
  <2>1. Alive(e)
    BY <1>1, <1>a DEF GenerateAgain, Alive, Ended, ThreadPlaced, EditTypeOK
  <2>2. pc' = [pc EXCEPT ![e] = pc'[e]]
    BY <1>1, <1>a DEF GenerateAgain, EditTypeOK
  <2>3. /\ Durable = IF pc[e] \in InTransaction THEN checkpoint ELSE file
        /\ Durable' = IF pc'[e] \in InTransaction THEN checkpoint' ELSE file'
        /\ \A d \in Edits : d # e =>
             pc'[d] = pc[d] /\ pc[d] \in Ended \cup {"idle"}
    BY <1>a, <2>1, <2>2, Focus
  <2>4. \A d \in Edits : d # e => thread[d] = "none" /\ thread'[d] = "none"
    BY <1>1, <1>a, <2>3 DEF GenerateAgain, EditTypeOK, ThreadPlaced, Ended
  <2>5. Durable' = Durable
    BY <1>1, <1>a, <2>3 DEF GenerateAgain, EditTypeOK, InTransaction,
       ThreadPlaced, FilePlaced, Undoable
  <2>6. \/ Outcome(e)' = Outcome(e)
        \/ Outcome(e) = "open" /\ Outcome(e)' = "failed"
    BY <1>1, <1>a DEF GenerateAgain, EditTypeOK, Outcome, ThreadPlaced
  <2>7. ThreadPlaced'
    BY <1>1, <1>a, <2>3, <2>4
    DEF GenerateAgain, EditTypeOK, ThreadPlaced, Ended
  <2>8. FilePlaced'
    BY <1>1, <1>a, <2>3, <2>4
    DEF GenerateAgain, EditTypeOK, ThreadPlaced, FilePlaced, Ended
  <2>9. CheckpointBesideFile'
    BY <1>1, <1>a, <2>3
    DEF GenerateAgain, EditTypeOK, ThreadPlaced, FilePlaced,
        CheckpointBesideFile, Undoable, InTransaction, Ended
  <2>10. Undoable'
    BY <1>1, <1>a, <2>3
    DEF GenerateAgain, EditTypeOK, ThreadPlaced, CheckpointBesideFile, Undoable,
        InTransaction, Ended
  <2> QED
    BY <1>b, <2>1, <2>2, <2>5, <2>6, <2>7, <2>8, <2>9, <2>10
<1>2. CASE GenerateFails(e)
  <2>1. Alive(e)
    BY <1>2, <1>a DEF GenerateFails, Alive, Ended, ThreadPlaced, EditTypeOK
  <2>2. pc' = [pc EXCEPT ![e] = pc'[e]]
    BY <1>2, <1>a DEF GenerateFails, EditTypeOK
  <2>3. /\ Durable = IF pc[e] \in InTransaction THEN checkpoint ELSE file
        /\ Durable' = IF pc'[e] \in InTransaction THEN checkpoint' ELSE file'
        /\ \A d \in Edits : d # e =>
             pc'[d] = pc[d] /\ pc[d] \in Ended \cup {"idle"}
    BY <1>a, <2>1, <2>2, Focus
  <2>4. \A d \in Edits : d # e => thread[d] = "none" /\ thread'[d] = "none"
    BY <1>2, <1>a, <2>3 DEF GenerateFails, EditTypeOK, ThreadPlaced, Ended
  <2>5. Durable' = Durable
    BY <1>2, <1>a, <2>3 DEF GenerateFails, EditTypeOK, InTransaction,
       ThreadPlaced, FilePlaced, Undoable
  <2>6. \/ Outcome(e)' = Outcome(e)
        \/ Outcome(e) = "open" /\ Outcome(e)' = "failed"
    BY <1>2, <1>a DEF GenerateFails, EditTypeOK, Outcome, ThreadPlaced
  <2>7. ThreadPlaced'
    BY <1>2, <1>a, <2>3, <2>4
    DEF GenerateFails, EditTypeOK, ThreadPlaced, Ended
  <2>8. FilePlaced'
    BY <1>2, <1>a, <2>3, <2>4
    DEF GenerateFails, EditTypeOK, ThreadPlaced, FilePlaced, Ended
  <2>9. CheckpointBesideFile'
    BY <1>2, <1>a, <2>3
    DEF GenerateFails, EditTypeOK, ThreadPlaced, FilePlaced,
        CheckpointBesideFile, Undoable, InTransaction, Ended
  <2>10. Undoable'
    BY <1>2, <1>a, <2>3
    DEF GenerateFails, EditTypeOK, ThreadPlaced, CheckpointBesideFile, Undoable,
        InTransaction, Ended
  <2> QED
    BY <1>b, <2>1, <2>2, <2>5, <2>6, <2>7, <2>8, <2>9, <2>10
<1>3. CASE Enter(e)
  <2>1. Alive(e)
    BY <1>3, <1>a DEF Enter, Alive, Ended, ThreadPlaced, EditTypeOK
  <2>2. pc' = [pc EXCEPT ![e] = pc'[e]]
    BY <1>3, <1>a DEF Enter, EditTypeOK
  <2>3. /\ Durable = IF pc[e] \in InTransaction THEN checkpoint ELSE file
        /\ Durable' = IF pc'[e] \in InTransaction THEN checkpoint' ELSE file'
        /\ \A d \in Edits : d # e =>
             pc'[d] = pc[d] /\ pc[d] \in Ended \cup {"idle"}
    BY <1>a, <2>1, <2>2, Focus
  <2>4. \A d \in Edits : d # e => thread[d] = "none" /\ thread'[d] = "none"
    BY <1>3, <1>a, <2>3 DEF Enter, EditTypeOK, ThreadPlaced, Ended
  <2>a. file = NoFile => checkpoint = NoFile
    BY <1>3, <1>a, <2>3 DEF Enter, CheckpointBesideFile, InTransaction, Ended
  <2>5. Durable' = Durable
    BY <1>3, <1>a, <2>3, <2>a DEF Enter, EditTypeOK, InTransaction,
       ThreadPlaced, FilePlaced, Undoable
  <2>6. \/ Outcome(e)' = Outcome(e)
        \/ Outcome(e) = "open" /\ Outcome(e)' = "failed"
    BY <1>3, <1>a DEF Enter, EditTypeOK, Outcome, ThreadPlaced
  <2>7. ThreadPlaced'
    BY <1>3, <1>a, <2>3, <2>4
    DEF Enter, EditTypeOK, ThreadPlaced, Ended
  <2>8. FilePlaced'
    BY <1>3, <1>a, <2>3, <2>4, <2>a
    DEF Enter, EditTypeOK, ThreadPlaced, FilePlaced, Ended
  <2>9. CheckpointBesideFile'
    BY <1>3, <1>a, <2>3
    DEF Enter, EditTypeOK, ThreadPlaced, FilePlaced,
        CheckpointBesideFile, Undoable, InTransaction, Ended
  <2>10. Undoable'
    BY <1>3, <1>a, <2>3, <2>a
    DEF Enter, EditTypeOK, ThreadPlaced, CheckpointBesideFile, Undoable,
        InTransaction, Ended
  <2> QED
    BY <1>b, <2>1, <2>2, <2>5, <2>6, <2>7, <2>8, <2>9, <2>10
<1>4. CASE Copy(e)
  <2>1. Alive(e)
    BY <1>4, <1>a DEF Copy, Alive, Ended, ThreadPlaced, EditTypeOK
  <2>2. pc' = [pc EXCEPT ![e] = pc'[e]]
    BY <1>4, <1>a DEF Copy, EditTypeOK
  <2>3. /\ Durable = IF pc[e] \in InTransaction THEN checkpoint ELSE file
        /\ Durable' = IF pc'[e] \in InTransaction THEN checkpoint' ELSE file'
        /\ \A d \in Edits : d # e =>
             pc'[d] = pc[d] /\ pc[d] \in Ended \cup {"idle"}
    BY <1>a, <2>1, <2>2, Focus
  <2>4. \A d \in Edits : d # e => thread[d] = "none" /\ thread'[d] = "none"
    BY <1>4, <1>a, <2>3 DEF Copy, EditTypeOK, ThreadPlaced, Ended
  <2>5. Durable' = Durable
    BY <1>4, <1>a, <2>3 DEF Copy, EditTypeOK, InTransaction,
       ThreadPlaced, FilePlaced, Undoable
  <2>6. \/ Outcome(e)' = Outcome(e)
        \/ Outcome(e) = "open" /\ Outcome(e)' = "failed"
    BY <1>4, <1>a DEF Copy, EditTypeOK, Outcome, ThreadPlaced
  <2>7. ThreadPlaced'
    BY <1>4, <1>a, <2>3, <2>4
    DEF Copy, EditTypeOK, ThreadPlaced, Ended
  <2>8. FilePlaced'
    BY <1>4, <1>a, <2>3, <2>4
    DEF Copy, EditTypeOK, ThreadPlaced, FilePlaced, Ended
  <2>9. CheckpointBesideFile'
    BY <1>4, <1>a, <2>3
    DEF Copy, EditTypeOK, ThreadPlaced, FilePlaced,
        CheckpointBesideFile, Undoable, InTransaction, Ended
  <2>a. \A n \in 1 .. Attempts : <<e, n>> \notin file
    <3>1. pc[e] = "copy" /\ Outcome(e) = "open"
      BY <1>4, <1>a DEF Copy, ThreadPlaced, Outcome
    <3>2. Durable = file /\ file # NoFile
      BY <1>4, <2>3, <3>1 DEF Copy, InTransaction
    <3> QED
      BY <1>a, <3>1, <3>2 DEF OnlyCommitted
  <2>10. Undoable'
    BY <1>4, <1>a, <2>3, <2>a
    DEF Copy, EditTypeOK, ThreadPlaced, CheckpointBesideFile, Undoable,
        InTransaction, Ended
  <2> QED
    BY <1>b, <2>1, <2>2, <2>5, <2>6, <2>7, <2>8, <2>9, <2>10
<1>5. CASE CopyFails(e)
  <2>1. Alive(e)
    BY <1>5, <1>a DEF CopyFails, Alive, Ended, ThreadPlaced, EditTypeOK
  <2>2. pc' = [pc EXCEPT ![e] = pc'[e]]
    BY <1>5, <1>a DEF CopyFails, EditTypeOK
  <2>3. /\ Durable = IF pc[e] \in InTransaction THEN checkpoint ELSE file
        /\ Durable' = IF pc'[e] \in InTransaction THEN checkpoint' ELSE file'
        /\ \A d \in Edits : d # e =>
             pc'[d] = pc[d] /\ pc[d] \in Ended \cup {"idle"}
    BY <1>a, <2>1, <2>2, Focus
  <2>4. \A d \in Edits : d # e => thread[d] = "none" /\ thread'[d] = "none"
    BY <1>5, <1>a, <2>3 DEF CopyFails, EditTypeOK, ThreadPlaced, Ended
  <2>5. Durable' = Durable
    BY <1>5, <1>a, <2>3 DEF CopyFails, EditTypeOK, InTransaction,
       ThreadPlaced, FilePlaced, Undoable
  <2>6. \/ Outcome(e)' = Outcome(e)
        \/ Outcome(e) = "open" /\ Outcome(e)' = "failed"
    BY <1>5, <1>a DEF CopyFails, EditTypeOK, Outcome, ThreadPlaced
  <2>7. ThreadPlaced'
    BY <1>5, <1>a, <2>3, <2>4
    DEF CopyFails, EditTypeOK, ThreadPlaced, Ended
  <2>8. FilePlaced'
    BY <1>5, <1>a, <2>3, <2>4
    DEF CopyFails, EditTypeOK, ThreadPlaced, FilePlaced, Ended
  <2>9. CheckpointBesideFile'
    BY <1>5, <1>a, <2>3
    DEF CopyFails, EditTypeOK, ThreadPlaced, FilePlaced,
        CheckpointBesideFile, Undoable, InTransaction, Ended
  <2>10. Undoable'
    BY <1>5, <1>a, <2>3
    DEF CopyFails, EditTypeOK, ThreadPlaced, CheckpointBesideFile, Undoable,
        InTransaction, Ended
  <2> QED
    BY <1>b, <2>1, <2>2, <2>5, <2>6, <2>7, <2>8, <2>9, <2>10
<1>6. CASE Read(e)
  <2>1. Alive(e)
    BY <1>6, <1>a DEF Read, Alive, Ended, ThreadPlaced, EditTypeOK
  <2>2. pc' = [pc EXCEPT ![e] = pc'[e]]
    BY <1>6, <1>a DEF Read, EditTypeOK
  <2>3. /\ Durable = IF pc[e] \in InTransaction THEN checkpoint ELSE file
        /\ Durable' = IF pc'[e] \in InTransaction THEN checkpoint' ELSE file'
        /\ \A d \in Edits : d # e =>
             pc'[d] = pc[d] /\ pc[d] \in Ended \cup {"idle"}
    BY <1>a, <2>1, <2>2, Focus
  <2>4. \A d \in Edits : d # e => thread[d] = "none" /\ thread'[d] = "none"
    BY <1>6, <1>a, <2>3 DEF Read, EditTypeOK, ThreadPlaced, Ended
  <2>5. Durable' = Durable
    BY <1>6, <1>a, <2>3 DEF Read, EditTypeOK, InTransaction,
       ThreadPlaced, FilePlaced, Undoable
  <2>6. \/ Outcome(e)' = Outcome(e)
        \/ Outcome(e) = "open" /\ Outcome(e)' = "failed"
    BY <1>6, <1>a DEF Read, EditTypeOK, Outcome, ThreadPlaced
  <2>7. ThreadPlaced'
    BY <1>6, <1>a, <2>3, <2>4
    DEF Read, EditTypeOK, ThreadPlaced, Ended
  <2>8. FilePlaced'
    BY <1>6, <1>a, <2>3, <2>4
    DEF Read, EditTypeOK, ThreadPlaced, FilePlaced, Ended
  <2>9. CheckpointBesideFile'
    BY <1>6, <1>a, <2>3
    DEF Read, EditTypeOK, ThreadPlaced, FilePlaced,
        CheckpointBesideFile, Undoable, InTransaction, Ended
  <2>10. Undoable'
    BY <1>6, <1>a, <2>3
    DEF Read, EditTypeOK, ThreadPlaced, CheckpointBesideFile, Undoable,
        InTransaction, Ended
  <2> QED
    BY <1>b, <2>1, <2>2, <2>5, <2>6, <2>7, <2>8, <2>9, <2>10
<1>7. CASE Write(e)
  <2>1. Alive(e)
    BY <1>7, <1>a DEF Write, Alive, Ended, ThreadPlaced, EditTypeOK
  <2>2. pc' = [pc EXCEPT ![e] = pc'[e]]
    BY <1>7, <1>a DEF Write, EditTypeOK
  <2>3. /\ Durable = IF pc[e] \in InTransaction THEN checkpoint ELSE file
        /\ Durable' = IF pc'[e] \in InTransaction THEN checkpoint' ELSE file'
        /\ \A d \in Edits : d # e =>
             pc'[d] = pc[d] /\ pc[d] \in Ended \cup {"idle"}
    BY <1>a, <2>1, <2>2, Focus
  <2>4. \A d \in Edits : d # e => thread[d] = "none" /\ thread'[d] = "none"
    BY <1>7, <1>a, <2>3 DEF Write, EditTypeOK, ThreadPlaced, Ended
  <2>5. Durable' = Durable
    BY <1>7, <1>a, <2>3 DEF Write, EditTypeOK, InTransaction,
       ThreadPlaced, FilePlaced, Undoable
  <2>6. \/ Outcome(e)' = Outcome(e)
        \/ Outcome(e) = "open" /\ Outcome(e)' = "failed"
    BY <1>7, <1>a DEF Write, EditTypeOK, Outcome, ThreadPlaced
  <2>7. ThreadPlaced'
    BY <1>7, <1>a, <2>3, <2>4
    DEF Write, EditTypeOK, ThreadPlaced, Ended
  <2>8. FilePlaced'
    BY <1>7, <1>a, <2>3, <2>4
    DEF Write, EditTypeOK, ThreadPlaced, FilePlaced, Ended
  <2>9. CheckpointBesideFile'
    BY <1>7, <1>a, <2>3
    DEF Write, EditTypeOK, ThreadPlaced, FilePlaced,
        CheckpointBesideFile, Undoable, InTransaction, Ended
  <2>10. Undoable'
    BY <1>7, <1>a, <2>3
    DEF Write, EditTypeOK, ThreadPlaced, CheckpointBesideFile, Undoable,
        InTransaction, Ended
  <2> QED
    BY <1>b, <2>1, <2>2, <2>5, <2>6, <2>7, <2>8, <2>9, <2>10
<1>8. CASE ApplyFails(e)
  <2>1. Alive(e)
    BY <1>8, <1>a DEF ApplyFails, Alive, Ended, ThreadPlaced, EditTypeOK
  <2>2. pc' = [pc EXCEPT ![e] = pc'[e]]
    BY <1>8, <1>a DEF ApplyFails, EditTypeOK
  <2>3. /\ Durable = IF pc[e] \in InTransaction THEN checkpoint ELSE file
        /\ Durable' = IF pc'[e] \in InTransaction THEN checkpoint' ELSE file'
        /\ \A d \in Edits : d # e =>
             pc'[d] = pc[d] /\ pc[d] \in Ended \cup {"idle"}
    BY <1>a, <2>1, <2>2, Focus
  <2>4. \A d \in Edits : d # e => thread[d] = "none" /\ thread'[d] = "none"
    BY <1>8, <1>a, <2>3 DEF ApplyFails, EditTypeOK, ThreadPlaced, Ended
  <2>5. Durable' = Durable
    BY <1>8, <1>a, <2>3 DEF ApplyFails, EditTypeOK, InTransaction,
       ThreadPlaced, FilePlaced, Undoable
  <2>6. \/ Outcome(e)' = Outcome(e)
        \/ Outcome(e) = "open" /\ Outcome(e)' = "failed"
    BY <1>8, <1>a DEF ApplyFails, EditTypeOK, Outcome, ThreadPlaced
  <2>7. ThreadPlaced'
    BY <1>8, <1>a, <2>3, <2>4
    DEF ApplyFails, EditTypeOK, ThreadPlaced, Ended
  <2>8. FilePlaced'
    BY <1>8, <1>a, <2>3, <2>4
    DEF ApplyFails, EditTypeOK, ThreadPlaced, FilePlaced, Ended
  <2>9. CheckpointBesideFile'
    BY <1>8, <1>a, <2>3
    DEF ApplyFails, EditTypeOK, ThreadPlaced, FilePlaced,
        CheckpointBesideFile, Undoable, InTransaction, Ended
  <2>10. Undoable'
    BY <1>8, <1>a, <2>3
    DEF ApplyFails, EditTypeOK, ThreadPlaced, CheckpointBesideFile, Undoable,
        InTransaction, Ended
  <2> QED
    BY <1>b, <2>1, <2>2, <2>5, <2>6, <2>7, <2>8, <2>9, <2>10
<1>9. CASE Validate(e)
  <2>1. Alive(e)
    BY <1>9, <1>a DEF Validate, Alive, Ended, ThreadPlaced, EditTypeOK
  <2>2. pc' = [pc EXCEPT ![e] = pc'[e]]
    BY <1>9, <1>a DEF Validate, EditTypeOK
  <2>3. /\ Durable = IF pc[e] \in InTransaction THEN checkpoint ELSE file
        /\ Durable' = IF pc'[e] \in InTransaction THEN checkpoint' ELSE file'
        /\ \A d \in Edits : d # e =>
             pc'[d] = pc[d] /\ pc[d] \in Ended \cup {"idle"}
    BY <1>a, <2>1, <2>2, Focus
  <2>4. \A d \in Edits : d # e => thread[d] = "none" /\ thread'[d] = "none"
    BY <1>9, <1>a, <2>3 DEF Validate, EditTypeOK, ThreadPlaced, Ended
  <2>a. file # NoFile
    <3>1. checkpoint \in Contents /\ tries[e] \in 1 .. Attempts
      BY <1>9, <1>a DEF Validate, EditTypeOK, Started
    <3>2. file = Patched(checkpoint, <<e, tries[e]>>)
      BY <1>9, <1>a DEF Validate, FilePlaced
    <3> QED
      BY <3>1, <3>2, PatchedContent
  <2>7. ThreadPlaced'
    BY <1>9, <1>a, <2>3, <2>4
    DEF Validate, EditTypeOK, ThreadPlaced, Ended
  <2>8. FilePlaced'
    BY <1>9, <1>a, <2>3, <2>4, <2>a
    DEF Validate, EditTypeOK, ThreadPlaced, FilePlaced, Ended
  <2>9. CheckpointBesideFile'
    BY <1>9, <1>a, <2>3, <2>a
    DEF Validate, EditTypeOK, ThreadPlaced, FilePlaced,
        CheckpointBesideFile, Undoable, InTransaction, Ended
  <2>10. Undoable'
    BY <1>9, <1>a, <2>3
    DEF Validate, EditTypeOK, ThreadPlaced, CheckpointBesideFile, Undoable,
        InTransaction, Ended
  <2>11. CASE pc'[e] = "rollback"
    <3>1. Durable' = Durable
      BY <1>9, <2>3, <2>11 DEF Validate, InTransaction
    <3>2. Outcome(e)' = Outcome(e)
      BY <1>9, <2>11 DEF Validate, Outcome
    <3> QED
      BY <1>b, <2>1, <2>2, <2>7, <2>8, <2>9, <2>10, <3>1, <3>2
  <2>12. CASE pc'[e] = "cleanup"
    <3>1. tries[e] \in 1 .. Attempts
      BY <1>9, <1>a DEF Validate, EditTypeOK, Started
    <3>2. Durable = checkpoint /\ Durable' = file
      BY <1>9, <2>3, <2>12 DEF Validate, InTransaction
    <3>3. Durable' = Patched(Durable, <<e, tries[e]>>)
      BY <1>9, <1>a, <3>2 DEF Validate, FilePlaced
    <3>4. Outcome(e) = "open" /\ Outcome(e)' = "committed"
      BY <1>9, <2>12 DEF Validate, Outcome
    <3>5. Single' /\ \A d \in Edits : d # e => Outcome(d)' = Outcome(d)
      BY <1>a, <2>1, <2>2, Focus
    <3>6. Durable \in Contents
      BY <1>a, <3>2 DEF EditTypeOK
    <3>7. OnlyCommitted'
      BY <1>a, <3>1, <3>3, <3>4, <3>5, <3>6, PatchedContent
      DEF OnlyCommitted
    <3>8. \A n \in 1 .. Attempts : Durable # NoFile => <<e, n>> \notin Durable
      BY <1>a, <3>4 DEF OnlyCommitted
    <3>9. EachCommitted'
      <4> SUFFICES ASSUME NEW d \in Edits, Outcome(d)' = "committed"
                   PROVE  /\ Durable' # NoFile
                          /\ \E n \in 1 .. Attempts :
                               /\ <<d, n>> \in Durable'
                               /\ \A m \in 1 .. Attempts :
                                    <<d, m>> \in Durable' => m = n
        BY DEF EachCommitted
      <4>1. CASE d = e
        <5> DEFINE k == tries[e]
        <5>1. Durable' # NoFile /\ <<e, k>> \in Durable'
          BY <3>1, <3>3, <3>6, PatchedContent
        <5>2. ASSUME NEW m \in 1 .. Attempts, <<e, m>> \in Durable'
              PROVE  m = k
          BY <3>1, <3>3, <3>6, <3>8, <5>2, PatchedContent
        <5> QED
          BY <4>1, <3>1, <5>1, <5>2
      <4>2. CASE d # e
        <5>1. Outcome(d) = "committed"
          BY <4>2, <3>5
        <5>2. PICK n \in 1 .. Attempts :
                /\ Durable # NoFile /\ <<d, n>> \in Durable
                /\ \A m \in 1 .. Attempts : <<d, m>> \in Durable => m = n
          BY <1>a, <5>1 DEF EachCommitted
        <5> QED
          <6>1. Durable' # NoFile /\ <<d, n>> \in Durable'
            BY <5>2, <3>1, <3>3, <3>6, PatchedContent
          <6>2. ASSUME NEW m \in 1 .. Attempts, <<d, m>> \in Durable'
                PROVE  m = n
            <7>1. <<d, m>> \in Durable
              BY <4>2, <6>2, <3>1, <3>3, <3>6, PatchedContent
            <7> QED
              BY <5>2, <7>1
          <6> QED
            BY <6>1, <6>2
      <4> QED
        BY <4>1, <4>2
    <3> QED
      BY <2>7, <2>8, <2>9, <2>10, <3>1, <3>3, <3>4, <3>5, <3>7, <3>9
      DEF Calm, Effect
  <2> QED
    BY <1>9, <1>a, <2>11, <2>12 DEF Validate, EditTypeOK
<1>10. CASE Cleanup(e)
  <2>1. Alive(e)
    BY <1>10, <1>a DEF Cleanup, Alive, Ended, ThreadPlaced, EditTypeOK
  <2>2. pc' = [pc EXCEPT ![e] = pc'[e]]
    BY <1>10, <1>a DEF Cleanup, EditTypeOK
  <2>3. /\ Durable = IF pc[e] \in InTransaction THEN checkpoint ELSE file
        /\ Durable' = IF pc'[e] \in InTransaction THEN checkpoint' ELSE file'
        /\ \A d \in Edits : d # e =>
             pc'[d] = pc[d] /\ pc[d] \in Ended \cup {"idle"}
    BY <1>a, <2>1, <2>2, Focus
  <2>4. \A d \in Edits : d # e => thread[d] = "none" /\ thread'[d] = "none"
    BY <1>10, <1>a, <2>3 DEF Cleanup, EditTypeOK, ThreadPlaced, Ended
  <2>5. Durable' = Durable
    BY <1>10, <1>a, <2>3 DEF Cleanup, EditTypeOK, InTransaction,
       ThreadPlaced, FilePlaced, Undoable
  <2>6. \/ Outcome(e)' = Outcome(e)
        \/ Outcome(e) = "open" /\ Outcome(e)' = "failed"
    BY <1>10, <1>a DEF Cleanup, EditTypeOK, Outcome, ThreadPlaced
  <2>7. ThreadPlaced'
    BY <1>10, <1>a, <2>3, <2>4
    DEF Cleanup, EditTypeOK, ThreadPlaced, Ended
  <2>8. FilePlaced'
    BY <1>10, <1>a, <2>3, <2>4
    DEF Cleanup, EditTypeOK, ThreadPlaced, FilePlaced, Ended
  <2>9. CheckpointBesideFile'
    BY <1>10, <1>a, <2>3
    DEF Cleanup, EditTypeOK, ThreadPlaced, FilePlaced,
        CheckpointBesideFile, Undoable, InTransaction, Ended
  <2>10. Undoable'
    BY <1>10, <1>a, <2>3
    DEF Cleanup, EditTypeOK, ThreadPlaced, CheckpointBesideFile, Undoable,
        InTransaction, Ended
  <2> QED
    BY <1>b, <2>1, <2>2, <2>5, <2>6, <2>7, <2>8, <2>9, <2>10
<1>11. CASE Rollback(e)
  <2>1. Alive(e)
    BY <1>11, <1>a DEF Rollback, Alive, Ended, ThreadPlaced, EditTypeOK
  <2>2. pc' = [pc EXCEPT ![e] = pc'[e]]
    BY <1>11, <1>a DEF Rollback, Retry, EditTypeOK
  <2>3. /\ Durable = IF pc[e] \in InTransaction THEN checkpoint ELSE file
        /\ Durable' = IF pc'[e] \in InTransaction THEN checkpoint' ELSE file'
        /\ \A d \in Edits : d # e =>
             pc'[d] = pc[d] /\ pc[d] \in Ended \cup {"idle"}
    BY <1>a, <2>1, <2>2, Focus
  <2>4. \A d \in Edits : d # e => thread[d] = "none" /\ thread'[d] = "none"
    BY <1>11, <1>a, <2>3 DEF Rollback, Retry, EditTypeOK, ThreadPlaced, Ended
  <2>5. Durable' = Durable
    BY <1>11, <1>a, <2>3 DEF Rollback, Retry, EditTypeOK, InTransaction,
       ThreadPlaced, FilePlaced, Undoable
  <2>6. \/ Outcome(e)' = Outcome(e)
        \/ Outcome(e) = "open" /\ Outcome(e)' = "failed"
    BY <1>11, <1>a DEF Rollback, Retry, EditTypeOK, Outcome, ThreadPlaced
  <2>7. ThreadPlaced'
    BY <1>11, <1>a, <2>3, <2>4
    DEF Rollback, Retry, EditTypeOK, ThreadPlaced, Ended
  <2>8. FilePlaced'
    BY <1>11, <1>a, <2>3, <2>4
    DEF Rollback, Retry, EditTypeOK, ThreadPlaced, FilePlaced, Ended
  <2>9. CheckpointBesideFile'
    BY <1>11, <1>a, <2>3
    DEF Rollback, Retry, EditTypeOK, ThreadPlaced, FilePlaced,
        CheckpointBesideFile, Undoable, InTransaction, Ended
  <2>10. Undoable'
    BY <1>11, <1>a, <2>3
    DEF Rollback, Retry, EditTypeOK, ThreadPlaced, CheckpointBesideFile, Undoable,
        InTransaction, Ended
  <2> QED
    BY <1>b, <2>1, <2>2, <2>5, <2>6, <2>7, <2>8, <2>9, <2>10
<1>12. CASE Return(e)
  <2>1. Calm'
    BY <1>12, KeepCalm DEF Return
  <2>2. Durable' = Durable /\ \A d \in Edits : Outcome(d)' = Outcome(d)
    BY <1>12 DEF Return, Durable, Outcome
  <2> QED
    BY <2>1, <2>2 DEF Effect
<1> QED
  BY <1>1, <1>2, <1>3, <1>4, <1>5, <1>6, <1>7, <1>8, <1>9, <1>10, <1>11, <1>12 DEF EditStep

\* An edit that begins while none is alive changes nothing that can be
\* restored.
LEMMA BeginCalm ==
  ASSUME Typed, Calm, NEW e \in Edits, Begin(e), \A d \in Edits : ~Alive(d)
  PROVE  /\ Calm'
         /\ Durable' = Durable
         /\ \A d \in Edits : Outcome(d)' = Outcome(d)
<1> USE DEF Goto
<1>1. \A d \in Edits : pc[d] \in Ended \cup {"idle"} /\ thread[d] = "none"
  BY DEF Calm, Alive, ThreadPlaced, Ended
<1>2. /\ pc[e] = "idle" /\ pc'[e] = "generate"
      /\ \A d \in Edits : d # e => pc'[d] = pc[d]
      /\ UNCHANGED <<file, checkpoint, thread>>
  BY DEF Begin, Typed, EditTypeOK
<1>3. \A d \in Edits : pc[d] \notin InTransaction /\ pc'[d] \notin InTransaction
  BY <1>1, <1>2 DEF InTransaction, Ended
<1>4. Durable = file /\ Durable' = Durable
  BY <1>2, <1>3 DEF Durable
<1>5. \A d \in Edits : Outcome(d)' = Outcome(d)
  BY <1>2 DEF Outcome
<1>6. OnlyCommitted' /\ EachCommitted'
  BY <1>4, <1>5, KeepAccount DEF Calm
<1>7. Single'
  BY <1>1, <1>2 DEF Single, Alive
<1>8. ThreadPlaced' /\ FilePlaced'
  BY <1>1, <1>2 DEF ThreadPlaced, FilePlaced, Ended
<1>9. CheckpointBesideFile' /\ Undoable'
  BY <1>1, <1>2, <1>3 DEF Calm, CheckpointBesideFile, Undoable, Ended
<1> QED
  BY <1>4, <1>5, <1>6, <1>7, <1>8, <1>9 DEF Calm

\* Leaving the session while no thread runs undoes the edit that is alive.
LEMMA QuitCalm ==
  ASSUME Typed, Calm, Quit, \A e \in Edits : thread[e] = "none"
  PROVE  Calm'
<1>1. \A e \in Edits :
        /\ pc[e] \notin {"copy", "apply"}
        /\ pc'[e] = Cancelled(pc[e])
  BY DEF Calm, ThreadPlaced, Quit, Typed, EditTypeOK
<1>2. UNCHANGED <<file, checkpoint, thread, tries, isNew, read>>
  BY DEF Quit
<1>3. \A e \in Edits : pc'[e] \in InTransaction <=> pc[e] \in InTransaction
  BY <1>1 DEF Cancelled, InTransaction
<1>4. \A e \in Edits : Outcome(e)' = "committed" <=> Outcome(e) = "committed"
  BY <1>1 DEF Cancelled, Outcome
<1>5. Durable' = Durable
  BY <1>2, <1>3 DEF Durable
<1>6. OnlyCommitted' /\ EachCommitted'
  BY <1>4, <1>5, KeepAccount DEF Calm
<1>7. Single'
  BY <1>1 DEF Calm, Single, Alive, Cancelled, Ended
<1>8. ThreadPlaced'
  BY <1>1, <1>2 DEF ThreadPlaced, Cancelled
<1>9. FilePlaced'
  BY <1>1, <1>2 DEF Calm, FilePlaced, Cancelled
<1>10. CheckpointBesideFile'
  BY <1>2, <1>3 DEF Calm, CheckpointBesideFile
<1>11. \A e \in Edits : pc'[e] = "cleanup" => pc[e] = "cleanup"
  BY <1>1 DEF Cancelled
<1>12. Undoable'
  BY <1>2, <1>3, <1>11 DEF Calm, Undoable
<1> QED
  BY <1>6, <1>7, <1>8, <1>9, <1>10, <1>12 DEF Calm

\* Sound is inductive.
LEMMA SoundStep == Sound /\ [Next]_vars => Sound'
<1> SUFFICES ASSUME Typed, ~disturbed => Calm, [Next]_vars, ~disturbed'
             PROVE  Calm'
  BY TypeStep DEF Sound
<1>1. CASE UNCHANGED vars
  BY <1>1, KeepCalm DEF vars
<1>2. ASSUME NEW e \in Edits, Begin(e) PROVE Calm'
  <2>1. ~disturbed /\ \A d \in Edits : ~Alive(d)
    BY <1>2 DEF Begin, Typed, EditTypeOK
  <2> QED
    BY <1>2, <2>1, BeginCalm
<1>3. ASSUME NEW e \in Edits, EditStep(e) PROVE Calm'
  <2>1. ~disturbed
    BY <1>3 DEF EditStep, GenerateAgain, GenerateFails, Enter, Copy, CopyFails,
       Read, Write, ApplyFails, Validate, Cleanup, Rollback, Return
  <2> QED
    BY <1>3, <2>1, EditStepCalm
<1>4. CASE Interrupt
  BY <1>4, KeepCalm DEF Interrupt
<1>5. CASE Quit
  <2>1. ~disturbed /\ \A e \in Edits : thread[e] = "none"
    BY <1>5 DEF Quit
  <2> QED
    BY <1>5, <2>1, QuitCalm
<1>6. ASSUME NEW e \in Edits, RollbackFails(e) PROVE FALSE
  BY <1>6 DEF RollbackFails
<1> QED
  BY <1>1, <1>2, <1>3, <1>4, <1>5, <1>6
  DEF Next, InterruptedNext, SequentialNext

-----------------------------------------------------------------------------

\* Sound holds in every reachable state, for any executions and attempts.
THEOREM EditInvariant == Spec => []Sound
BY InitSound, SoundStep, PTL DEF Spec

\* Type correctness: no execution tries more than Attempts patches.
THEOREM EditTypeCorrect == Spec => []EditTypeOK
<1>1. Sound => EditTypeOK
  BY DEF Sound, Typed
<1> QED
  BY <1>1, EditInvariant, PTL

\* A lone edit leaves no trace of a rejected patch and loses no committed one,
\* even when it is cancelled.
THEOREM LoneEditsAtomic == Spec => []LoneEditAtomic
<1>1. Sound => LoneEditAtomic
  BY DEF Sound, Calm, LoneEditAtomic
<1> QED
  BY <1>1, EditInvariant, PTL

\* A patch that is not accepted is on disk only while it can be undone.
THEOREM RejectedUndone == Spec => []RejectedIsUndone
<1>1. Sound => RejectedIsUndone
  BY DEF Sound, Calm, Undoable, RejectedIsUndone
<1> QED
  BY <1>1, EditInvariant, PTL

-----------------------------------------------------------------------------

\* The initial states are initial states of AtomicEdit.
LEMMA AtomicInitial == Init => Atomic!AtomicInit
<1> SUFFICES ASSUME Init PROVE Atomic!AtomicInit
  OBVIOUS
<1>1. \A e \in Edits : pc[e] = "idle"
  BY DEF Init
<1>2. Durable \in {NoFile, {}}
  BY <1>1 DEF Init, Durable, InTransaction
<1>3. Outcomes = [e \in Edits |-> "open"]
  BY <1>1 DEF Outcomes, Outcome
<1> QED
  BY <1>2, <1>3 DEF Atomic!AtomicInit

\* Leaving the session fails the edit that is alive, if it is not yet in its
\* transaction; no other edit is concerned.
LEMMA QuitAtomic ==
  ASSUME Typed, Calm, Quit
  PROVE  [Atomic!AtomicNext]_<<Durable, Outcomes>>
<1>1. \A e \in Edits : pc'[e] = Cancelled(pc[e])
  BY DEF Quit
<1>2. \A e \in Edits : pc'[e] \in InTransaction <=> pc[e] \in InTransaction \/ pc'[e] = "unwind"
  BY <1>1 DEF Cancelled, InTransaction
<1>3. \A e \in Edits : pc'[e] = "unwind" => pc[e] \in InTransaction
  BY <1>1 DEF Cancelled, InTransaction
<1>4. Durable' = Durable
  BY <1>2, <1>3 DEF Durable, Quit
<1>5. \A e \in Edits : \/ Outcome(e)' = Outcome(e)
                       \/ /\ Alive(e)
                          /\ Outcome(e) = "open" /\ Outcome(e)' = "failed"
  BY <1>1 DEF Cancelled, Outcome, Alive, Ended
<1>6. CASE \A e \in Edits : Outcome(e)' = Outcome(e)
  BY <1>4, <1>6 DEF Outcomes
<1>7. CASE \E e \in Edits : Outcome(e)' # Outcome(e)
  <2>1. PICK e \in Edits : Outcome(e)' # Outcome(e)
    BY <1>7
  <2>2. Alive(e) /\ Outcome(e) = "open" /\ Outcome(e)' = "failed"
    BY <1>5, <2>1
  <2>3. \A d \in Edits : d # e => Outcome(d)' = Outcome(d)
    BY <1>5, <2>2 DEF Calm, Single
  <2>4. Outcomes' = [Outcomes EXCEPT ![e] = "failed"]
    BY <2>2, <2>3 DEF Outcomes
  <2>5. Atomic!Fail(e)
    BY <1>4, <2>2, <2>4 DEF Atomic!Fail, Outcomes
  <2> QED
    BY <2>5 DEF Atomic!AtomicNext
<1> QED
  BY <1>6, <1>7

\* Every step that disturbs nothing is a commit or a failure of AtomicEdit, or
\* changes nothing of it.
LEMMA AtomicStep ==
  Sound /\ [Next]_vars =>
    [disturbed' \/ Atomic!AtomicNext]_<<Durable, Outcomes>>
<1> SUFFICES ASSUME Sound, [Next]_vars, ~disturbed'
             PROVE  [Atomic!AtomicNext]_<<Durable, Outcomes>>
  OBVIOUS
<1>1. CASE UNCHANGED vars
  BY <1>1 DEF vars, Durable, Outcomes, Outcome
<1>2. ASSUME NEW e \in Edits, Begin(e)
      PROVE  UNCHANGED <<Durable, Outcomes>>
  <2>1. ~disturbed /\ \A d \in Edits : ~Alive(d)
    BY <1>2 DEF Begin, Sound, Typed, EditTypeOK
  <2>2. Typed /\ Calm
    BY <2>1 DEF Sound
  <2> QED
    BY <1>2, <2>1, <2>2, BeginCalm DEF Outcomes
<1>3. ASSUME NEW e \in Edits, EditStep(e)
      PROVE  [Atomic!AtomicNext]_<<Durable, Outcomes>>
  <2>1. ~disturbed
    BY <1>3 DEF EditStep, GenerateAgain, GenerateFails, Enter, Copy, CopyFails,
       Read, Write, ApplyFails, Validate, Cleanup, Rollback, Return
  <2>2. Effect(e)
    BY <1>3, <2>1, EditStepCalm DEF Sound
  <2>3. CASE Durable' = Durable /\ Outcome(e)' = Outcome(e)
    BY <2>2, <2>3 DEF Effect, Outcomes
  <2>4. CASE Durable' = Durable /\ Outcome(e) = "open" /\ Outcome(e)' = "failed"
    <3>1. Outcomes' = [Outcomes EXCEPT ![e] = "failed"]
      BY <2>2, <2>4 DEF Effect, Outcomes
    <3>2. Atomic!Fail(e)
      BY <2>4, <3>1 DEF Atomic!Fail, Outcomes
    <3> QED
      BY <3>2 DEF Atomic!AtomicNext
  <2>5. CASE /\ Outcome(e) = "open" /\ Outcome(e)' = "committed"
             /\ tries[e] \in 1 .. Attempts
             /\ Durable' = Patched(Durable, <<e, tries[e]>>)
    <3>1. Outcomes' = [Outcomes EXCEPT ![e] = "committed"]
      BY <2>2, <2>5 DEF Effect, Outcomes
    <3>2. Durable' = Atomic!Patched(Durable, <<e, tries[e]>>)
      BY <2>5 DEF Patched, Atomic!Patched
    <3>3. Atomic!Commit(e)
      BY <2>5, <3>1, <3>2 DEF Atomic!Commit, Outcomes
    <3> QED
      BY <3>3 DEF Atomic!AtomicNext
  <2> QED
    BY <2>2, <2>3, <2>4, <2>5 DEF Effect
<1>4. CASE Interrupt
  BY <1>4 DEF Interrupt, Durable, Outcomes, Outcome
<1>5. CASE Quit
  <2>1. ~disturbed
    BY <1>5 DEF Quit
  <2> QED
    BY <1>5, <2>1, QuitAtomic DEF Sound
<1>6. ASSUME NEW e \in Edits, RollbackFails(e) PROVE FALSE
  BY <1>6 DEF RollbackFails
<1> QED
  BY <1>1, <1>2, <1>3, <1>4, <1>5, <1>6
  DEF Next, InterruptedNext, SequentialNext

\* Edits implement AtomicEdit as long as nothing disturbs them: with retries,
\* failures, Ctrl-C and the end of the session, for any executions and attempts.
THEOREM EditsAtomic == Spec => ImplementsAtomicEdit
BY AtomicInitial, AtomicStep, EditInvariant, PTL
   DEF Spec, ImplementsAtomicEdit

-----------------------------------------------------------------------------
-----------------------------------------------------------------------------
(* The work of steps.                                                      *)

\* The steps of a sequence have no work in common.
Apart(q) ==
  \A i, j \in DOMAIN q : i # j => ToSet(q[i].work) \cap ToSet(q[j].work) = {}

\* What a step is made of.
LEMMA StepParts ==
  ASSUME NEW s \in Steps
  PROVE  /\ s.work \in Seq(Work) /\ s.work # <<>> /\ s.symbols \in Nat
         /\ s.heavy \in BOOLEAN /\ s.shown \in BOOLEAN /\ s.named \in BOOLEAN
         /\ ToSet(s.work) \subseteq Work
<1>1. s.work \in Seq(Work) /\ s.work # <<>> /\ s.symbols \in Nat
      /\ s.heavy \in BOOLEAN /\ s.shown \in BOOLEAN /\ s.named \in BOOLEAN
  BY DEF Steps
<1>2. ToSet(s.work) \subseteq Work
  BY <1>1 DEF ToSet
<1> QED BY <1>1, <1>2

\* The work of steps is work.
LEMMA WorkOfSteps ==
  ASSUME NEW q \in Seq(Steps)
  PROVE  WorkOf(q) \subseteq Work
<1>1. \A i \in DOMAIN q : q[i] \in Steps
  OBVIOUS
<1> QED BY <1>1, StepParts DEF WorkOf

\* The work of the first step and that of the others.
LEMMA WorkOfTail ==
  ASSUME NEW q \in Seq(Steps), q # <<>>
  PROVE  /\ Head(q) \in Steps /\ Tail(q) \in Seq(Steps)
         /\ WorkOf(q) = ToSet(Head(q).work) \cup WorkOf(Tail(q))
         /\ Apart(q) => /\ Apart(Tail(q))
                        /\ ToSet(Head(q).work) \cap WorkOf(Tail(q)) = {}
<1> DEFINE t == Tail(q)
<1>1. /\ t \in Seq(Steps) /\ Len(t) = Len(q) - 1 /\ Len(q) \in Nat \ {0} /\ Head(q) = q[1]
      /\ \A i \in 1 .. Len(t) : t[i] = q[i + 1]
      /\ DOMAIN t = 1 .. Len(t) /\ DOMAIN q = 1 .. Len(q)
  OBVIOUS
<1> HIDE DEF t
<1>2. /\ \A i \in DOMAIN t : i + 1 \in DOMAIN q /\ i + 1 # 1 /\ t[i] = q[i + 1]
      /\ \A i \in DOMAIN q : i = 1 \/ (i - 1 \in DOMAIN t /\ t[i - 1] = q[i])
      /\ 1 \in DOMAIN q
  BY <1>1
<1>3. WorkOf(q) = ToSet(q[1].work) \cup WorkOf(t)
  <2>1. ASSUME NEW w
        PROVE  w \in WorkOf(q) <=> w \in ToSet(q[1].work) \cup WorkOf(t)
    <3>1. w \in WorkOf(q) <=> \E i \in DOMAIN q : w \in ToSet(q[i].work)
      BY DEF WorkOf
    <3>2. w \in WorkOf(t) <=> \E i \in DOMAIN t : w \in ToSet(t[i].work)
      BY DEF WorkOf
    <3> QED BY <1>2, <3>1, <3>2
  <2> QED BY <2>1
<1>4. ASSUME Apart(q)
      PROVE  Apart(t) /\ ToSet(q[1].work) \cap WorkOf(t) = {}
  <2>1. Apart(t)
    <3>1. ASSUME NEW i \in DOMAIN t, NEW j \in DOMAIN t, i # j
          PROVE  ToSet(t[i].work) \cap ToSet(t[j].work) = {}
      <4>1. i + 1 # j + 1
        BY <1>1, <3>1
      <4> QED BY <1>2, <1>4, <4>1 DEF Apart
    <3> QED BY <3>1 DEF Apart
  <2>2. ASSUME NEW w \in WorkOf(t)
        PROVE  w \notin ToSet(q[1].work)
    <3>1. PICK i \in DOMAIN t : w \in ToSet(t[i].work)
      BY DEF WorkOf
    <3>2. ToSet(q[i + 1].work) \cap ToSet(q[1].work) = {}
      BY <1>2, <1>4 DEF Apart
    <3> QED BY <1>2, <3>1, <3>2
  <2> QED BY <2>1, <2>2
<1> QED BY <1>1, <1>3, <1>4 DEF t

\* What is left of a queue when its current step has run.
LEMMA RemainingNext ==
  ASSUME NEW q, q.steps \in Seq(Steps), q.cursor \in 0 .. Len(q.steps)
  PROVE  /\ Remaining(q) \in Seq(Steps)
         /\ Drained(q) <=> Remaining(q) = <<>>
         /\ ~Drained(q) =>
              /\ Head(Remaining(q)) = q.steps[q.cursor + 1]
              /\ \A r : r.steps = q.steps /\ r.cursor = q.cursor + 1
                          => Remaining(r) = Tail(Remaining(q))
<1> DEFINE n == q.cursor
           s == q.steps
<1>1. Len(s) \in Nat /\ n \in Nat /\ n <= Len(s)
  OBVIOUS
<1>2. Remaining(q) = SubSeq(s, n + 1, Len(s))
  BY DEF Remaining
<1>3. /\ SubSeq(s, n + 1, Len(s)) \in Seq(Steps)
      /\ Len(SubSeq(s, n + 1, Len(s))) = Len(s) - n
      /\ \A i \in 1 .. Len(s) - n : SubSeq(s, n + 1, Len(s))[i] = s[n + i]
  <2> HIDE DEF n, s
  <2>1. s \in Seq(Steps) /\ n + 1 \in 1 .. Len(s) + 1
    BY <1>1 DEF s
  <2>2. \A i \in n + 1 .. Len(s) : i \in 1 .. Len(s)
    BY <1>1
  <2> QED BY <1>1, <2>1, <2>2, SubSeqProperties
<1>4. Drained(q) <=> Remaining(q) = <<>>
  <2>1. Drained(q) <=> n >= Len(s)
    BY DEF Drained
  <2> DEFINE b == SubSeq(s, n + 1, Len(s))
  <2>2. b \in Seq(Steps) /\ Len(b) = Len(s) - n
    BY <1>3
  <2>3. Remaining(q) = b
    BY <1>2
  <2> HIDE DEF n, s, b
  <2>4. b = <<>> <=> Len(b) = 0
    BY <2>2
  <2> QED BY <1>1, <2>1, <2>2, <2>3, <2>4
<1>5. ASSUME ~Drained(q)
      PROVE  Head(Remaining(q)) = s[n + 1] /\ n + 1 <= Len(s) /\ Remaining(q) # <<>>
  <2>1. n < Len(s)
    BY <1>1, <1>5 DEF Drained
  <2> HIDE DEF n, s
  <2> QED BY <1>1, <1>2, <1>3, <1>4, <1>5, <2>1
<1>6. ASSUME ~Drained(q), NEW r, r.steps = q.steps, r.cursor = q.cursor + 1
      PROVE  Remaining(r) = Tail(Remaining(q))
  <2>1. Remaining(r) = SubSeq(s, n + 2, Len(s))
    <3>1. r.cursor + 1 = n + 2
      BY <1>1, <1>6
    <3> QED BY <1>6, <3>1 DEF Remaining
  <2>2. n + 1 <= Len(s)
    BY <1>5, <1>6
  <2> HIDE DEF n, s
  <2>3. /\ SubSeq(s, n + 2, Len(s)) \in Seq(Steps)
        /\ Len(SubSeq(s, n + 2, Len(s))) = Len(s) - n - 1
        /\ \A i \in 1 .. Len(s) - n - 1 : SubSeq(s, n + 2, Len(s))[i] = s[n + 1 + i]
    <3>1. s \in Seq(Steps) /\ n + 2 \in 1 .. Len(s) + 1
      BY <1>1, <2>2 DEF s
    <3> QED BY <1>1, <2>2, <3>1, SubSeqProperties
  <2> DEFINE a == SubSeq(s, n + 2, Len(s))
             b == SubSeq(s, n + 1, Len(s))
             t == Tail(b)
  <2>4. t \in Seq(Steps) /\ Len(t) = Len(b) - 1 /\ \A i \in 1 .. Len(t) : t[i] = b[i + 1]
    <3>1. b \in Seq(Steps) /\ b # <<>>
      BY <1>2, <1>3, <1>4, <1>6
    <3> HIDE DEF a, b
    <3> QED BY <3>1
  <2>5. Len(t) = Len(a) /\ a \in Seq(Steps) /\ Len(a) = Len(s) - n - 1
    BY <1>1, <1>3, <2>3, <2>4
  <2>6. ASSUME NEW i \in 1 .. Len(a)
        PROVE  a[i] = t[i]
    <3>1. i + 1 \in 1 .. Len(s) - n /\ n + (i + 1) = n + 1 + i
      BY <1>1, <2>2, <2>5
    <3>2. b[i + 1] = s[n + (i + 1)] /\ a[i] = s[n + 1 + i] /\ t[i] = b[i + 1]
      BY <1>3, <2>3, <2>4, <2>5, <3>1
    <3> QED BY <3>1, <3>2
  <2> HIDE DEF a, b, t
  <2>7. a = t
    BY <2>4, <2>5, <2>6, SeqEqual
  <2> QED BY <1>2, <2>1, <2>7 DEF a, b, t
<1> QED BY <1>2, <1>3, <1>4, <1>5, <1>6
-----------------------------------------------------------------------------
(* Splitting.                                                              *)

\* A part of a call is a step with one change.
LEMMA PartStep ==
  ASSUME NEW c \in Steps, NEW w \in Work
  PROVE  Part(c, w) \in Steps /\ ToSet(Part(c, w).work) = {w}
<1> DEFINE p == Part(c, w)
<1>1. c \in [key : Keys, work : Seq(Work), symbols : Nat, heavy : BOOLEAN,
             shown : BOOLEAN, named : BOOLEAN]
  BY DEF Steps
<1>2. /\ p \in [key : Keys, work : Seq(Work), symbols : Nat, heavy : BOOLEAN,
                shown : BOOLEAN, named : BOOLEAN]
      /\ p.work = <<w>> /\ p.symbols <= 1
  <2>1. <<w>> \in Seq(Work)
    OBVIOUS
  <2>2. (IF c.symbols > 1 THEN 1 ELSE c.symbols) \in Nat
        /\ (IF c.symbols > 1 THEN 1 ELSE c.symbols) <= 1
    BY <1>1
  <2>3. PartKey[w] \in Keys
    BY EditPlanAssumption DEF EditPlanAssumption
  <2> QED BY <1>1, <2>1, <2>2, <2>3 DEF Part
<1> HIDE DEF p
<1>3. <<w>> # <<>> /\ p.symbols \in Nat /\ ~(p.symbols > 1)
  BY <1>2
<1>4. p \in Steps
  BY <1>2, <1>3 DEF Steps
<1>5. ToSet(<<w>>) = {w}
  BY DEF ToSet
<1> QED BY <1>2, <1>4, <1>5 DEF p

\* The first parts of a call.
LEMMA FirstParts ==
  ASSUME NEW c \in Steps, NEW n \in Nat \ {0}
  PROVE  /\ First(c, n) \in Seq(Steps) /\ First(c, n) # <<>>
         /\ \A i \in DOMAIN First(c, n) :
              i \in 1 .. Len(c.work) /\ ToSet(First(c, n)[i].work) = {c.work[i]}
<1> DEFINE m == IF Len(c.work) < n THEN Len(c.work) ELSE n
           f == First(c, n)
<1>1. c.work \in Seq(Work) /\ c.work # <<>> /\ Len(c.work) \in Nat \ {0}
  BY StepParts
<1>2. m \in Nat \ {0} /\ m <= Len(c.work)
  BY <1>1
<1>3. f = [i \in 1 .. m |-> Part(c, c.work[i])]
  BY DEF First
<1> HIDE DEF f, m
<1>4. \A i \in 1 .. m : i \in 1 .. Len(c.work) /\ c.work[i] \in Work
  BY <1>1, <1>2
<1>5. \A i \in 1 .. m : Part(c, c.work[i]) \in Steps
                         /\ ToSet(Part(c, c.work[i]).work) = {c.work[i]}
  BY <1>4, PartStep
<1>6. f \in [1 .. m -> Steps]
  BY <1>3, <1>5
<1>7. f \in Seq(Steps) /\ Len(f) = m /\ DOMAIN f = 1 .. m
  BY <1>2, <1>6
<1>8. f # <<>>
  BY <1>2, <1>7
<1> QED BY <1>3, <1>4, <1>5, <1>7, <1>8 DEF f

\* What a call is split into: at least one step, each with work of the call, and
\* no two with the same when a call that is split lists no change twice.
LEMMA ExpandedSteps ==
  ASSUME NEW c \in Steps
  PROVE  /\ Expanded(c) \in Seq(Steps) /\ Expanded(c) # <<>>
         /\ WorkOf(Expanded(c)) \subseteq ToSet(c.work)
         /\ ~NeedsSplit(c) \/ IsInjective(c.work) => Apart(Expanded(c))
<1>0. SplitMax \in Nat \ {0} /\ FollowMax + 1 \in Nat \ {0}
  BY EditPlanAssumption DEF EditPlanAssumption
<1>1. ASSUME NEW n \in Nat \ {0}, Expanded(c) = First(c, n), NeedsSplit(c)
      PROVE  /\ Expanded(c) \in Seq(Steps) /\ Expanded(c) # <<>>
             /\ WorkOf(Expanded(c)) \subseteq ToSet(c.work)
             /\ ~NeedsSplit(c) \/ IsInjective(c.work) => Apart(Expanded(c))
  <2> DEFINE f == First(c, n)
  <2>1. /\ f \in Seq(Steps) /\ f # <<>>
        /\ \A i \in DOMAIN f : i \in 1 .. Len(c.work) /\ ToSet(f[i].work) = {c.work[i]}
    BY FirstParts
  <2>2. DOMAIN c.work = 1 .. Len(c.work)
    BY StepParts
  <2> HIDE DEF f
  <2>3. WorkOf(f) \subseteq ToSet(c.work)
    <3>1. \A i \in DOMAIN f : ToSet(f[i].work) \subseteq ToSet(c.work)
      <4>1. \A k \in 1 .. Len(c.work) : c.work[k] \in ToSet(c.work)
        BY <2>2 DEF ToSet
      <4> QED BY <2>1, <4>1
    <3> QED BY <3>1 DEF WorkOf
  <2>4. ASSUME IsInjective(c.work)
        PROVE  Apart(f)
    <3>1. \A i, j \in 1 .. Len(c.work) : c.work[i] = c.work[j] => i = j
      BY <2>2, <2>4 DEF IsInjective
    <3> QED BY <2>1, <3>1 DEF Apart
  <2> QED BY <1>1, <2>1, <2>3, <2>4 DEF f
<1>2. ASSUME Expanded(c) = <<c>>
      PROVE  /\ Expanded(c) \in Seq(Steps) /\ Expanded(c) # <<>>
             /\ WorkOf(Expanded(c)) = ToSet(c.work)
             /\ Apart(Expanded(c))
  <2> DEFINE f == <<c>>
  <2>1. f \in Seq(Steps) /\ f # <<>> /\ DOMAIN f = {1} /\ f[1] = c
    OBVIOUS
  <2> HIDE DEF f
  <2>2. WorkOf(f) = ToSet(c.work)
    BY <2>1 DEF WorkOf
  <2>3. Apart(f)
    BY <2>1 DEF Apart
  <2> QED BY <1>2, <2>1, <2>2, <2>3 DEF f
<1>3. CASE NeedsSplit(c) /\ c.symbols > 1
  <2>1. Expanded(c) = First(c, SplitMax)
    BY <1>3, StepParts DEF Expanded, BySymbols
  <2> QED BY <1>0, <1>1, <1>3, <2>1
<1>4. CASE NeedsSplit(c) /\ c.symbols <= 1 /\ Len(c.work) > 1
  <2>1. Expanded(c) = First(c, FollowMax + 1)
    <3>1. ~(c.symbols > 1)
      BY <1>4, StepParts
    <3> QED BY <1>4, <3>1 DEF Expanded, ByClauses
  <2> QED BY <1>0, <1>1, <1>4, <2>1
<1>5. CASE ~(NeedsSplit(c) /\ c.symbols > 1)
           /\ ~(NeedsSplit(c) /\ c.symbols <= 1 /\ Len(c.work) > 1)
  <2>1. Expanded(c) = <<c>>
    BY <1>5 DEF Expanded
  <2> QED BY <1>2, <2>1
<1> QED BY <1>3, <1>4, <1>5

\* The steps of the calls that run as calls.
Ahead(cs) == [i \in 1 .. Len(cs) |-> FirstStep(cs[i])]

\* They are steps, as many as the calls.
LEMMA AheadSteps ==
  ASSUME NEW cs \in Seq(Steps)
  PROVE  /\ Ahead(cs) \in Seq(Steps) /\ Len(Ahead(cs)) = Len(cs)
         /\ cs # <<>> => /\ Ahead(cs) # <<>> /\ Tail(cs) \in Seq(Steps)
                         /\ Head(Ahead(cs)) = FirstStep(Head(cs))
                         /\ Tail(Ahead(cs)) = Ahead(Tail(cs))
<1>1. \A i \in 1 .. Len(cs) : cs[i] \in Steps
  OBVIOUS
<1>2. \A c \in Steps : FirstStep(c) \in Steps
  BY ExpandedSteps, HeadTailProperties DEF FirstStep
<1>3. Ahead(cs) \in Seq(Steps) /\ Len(Ahead(cs)) = Len(cs)
  <2>1. Ahead(cs) \in [1 .. Len(cs) -> Steps]
    BY <1>1, <1>2 DEF Ahead
  <2>2. Len(cs) \in Nat
    OBVIOUS
  <2> QED BY <2>1, <2>2
<1>4. ASSUME cs # <<>>
      PROVE  /\ Ahead(cs) # <<>> /\ Tail(cs) \in Seq(Steps)
             /\ Head(Ahead(cs)) = FirstStep(Head(cs))
             /\ Tail(Ahead(cs)) = Ahead(Tail(cs))
  <2> DEFINE a == Ahead(cs)
             t == Tail(cs)
  <2>1. /\ t \in Seq(Steps) /\ Len(t) = Len(cs) - 1 /\ Len(cs) \in Nat \ {0}
        /\ \A i \in 1 .. Len(t) : t[i] = cs[i + 1]
        /\ Head(cs) = cs[1]
    BY <1>4
  <2> HIDE DEF t
  <2>2. a # <<>> /\ Head(a) = a[1] /\ Len(Tail(a)) = Len(t) /\ Tail(a) \in Seq(Steps)
        /\ \A i \in 1 .. Len(t) : Tail(a)[i] = a[i + 1]
    <3> HIDE DEF a
    <3>1. a \in Seq(Steps) /\ Len(a) = Len(cs)
      BY <1>3 DEF a
    <3> QED BY <2>1, <3>1
  <2>3. a[1] = FirstStep(cs[1]) /\ \A i \in 1 .. Len(t) : a[i + 1] = FirstStep(cs[i + 1])
    BY <2>1 DEF Ahead
  <2>4. Ahead(t) \in Seq(Steps) /\ Len(Ahead(t)) = Len(t)
    <3>1. \A i \in 1 .. Len(t) : t[i] \in Steps
      BY <2>1
    <3>2. Ahead(t) \in [1 .. Len(t) -> Steps]
      BY <1>2, <3>1 DEF Ahead
    <3>3. Len(t) \in Nat
      BY <2>1
    <3> QED BY <3>2, <3>3
  <2>5. \A i \in 1 .. Len(t) : Ahead(t)[i] = FirstStep(t[i])
    BY DEF Ahead
  <2> HIDE DEF a
  <2>6. Tail(a) = Ahead(t)
    BY <2>1, <2>2, <2>3, <2>4, <2>5, SeqEqual
  <2> QED BY <2>1, <2>2, <2>3, <2>6 DEF a, t
<1> QED BY <1>3, <1>4

\* The work of the calls is that of the steps that run as calls and of the others,
\* as far as it is not lost in splitting.
LEMMA FollowonsWork ==
  ASSUME NEW cs \in Seq(Steps)
  PROVE  /\ Followons(cs) \in Seq(Steps)
         /\ WorkOf(Ahead(cs)) \cup WorkOf(Followons(cs))
              = UNION {WorkOf(Expanded(cs[i])) : i \in 1 .. Len(cs)}
         /\ \E o : ComesFrom(Followons(cs), o, [i \in DOMAIN cs |-> Tail(Expanded(cs[i]))], Len(cs))
<1> DEFINE N == Len(cs)
           q == [i \in DOMAIN cs |-> Tail(Expanded(cs[i]))]
           F == Followons(cs)
<1>1. N \in Nat /\ DOMAIN cs = 1 .. N /\ \A i \in 1 .. N : cs[i] \in Steps
  OBVIOUS
<1>2. ASSUME NEW i \in 1 .. N
      PROVE  /\ Expanded(cs[i]) \in Seq(Steps) /\ Expanded(cs[i]) # <<>>
             /\ Tail(Expanded(cs[i])) \in Seq(Steps)
             /\ WorkOf(Expanded(cs[i]))
                  = ToSet(FirstStep(cs[i]).work) \cup WorkOf(Tail(Expanded(cs[i])))
  <2>1. Expanded(cs[i]) \in Seq(Steps) /\ Expanded(cs[i]) # <<>>
    BY <1>1, ExpandedSteps
  <2> QED BY <2>1, WorkOfTail DEF FirstStep
<1>3. q \in Seq(Seq(Steps)) /\ Len(q) = N /\ \A i \in 1 .. N : q[i] = Tail(Expanded(cs[i]))
  <2>1. q \in [1 .. N -> Seq(Steps)]
    BY <1>1, <1>2
  <2> QED BY <1>1, <2>1
<1>4. F = FlattenSeq(q)
  BY DEF Followons
<1> HIDE DEF q, F
<1>5. F \in Seq(Steps) /\ \E o : ComesFrom(F, o, q, N)
  BY <1>3, <1>4, FlattenOrigins
<1>6. PICK o : ComesFrom(F, o, q, N)
  BY <1>5
<1>7. DOMAIN F = 1 .. Len(F) /\ \A i \in 1 .. N : DOMAIN q[i] = 1 .. Len(q[i])
  BY <1>3, <1>5
<1>8. WorkOf(F) = UNION {WorkOf(q[i]) : i \in 1 .. N}
  <2>1. ASSUME NEW w \in WorkOf(F)
        PROVE  \E i \in 1 .. N : w \in WorkOf(q[i])
    <3>1. PICK n \in 1 .. Len(F) : w \in ToSet(F[n].work)
      BY <1>7 DEF WorkOf
    <3>2. /\ o[n][1] \in 1 .. N /\ o[n][2] \in 1 .. Len(q[o[n][1]])
          /\ F[n] = q[o[n][1]][o[n][2]]
      BY <1>6 DEF ComesFrom
    <3> QED BY <1>7, <3>1, <3>2 DEF WorkOf
  <2>2. ASSUME NEW i \in 1 .. N, NEW w \in WorkOf(q[i])
        PROVE  w \in WorkOf(F)
    <3>1. PICK k \in 1 .. Len(q[i]) : w \in ToSet(q[i][k].work)
      BY <1>7 DEF WorkOf
    <3>2. PICK n \in 1 .. Len(F) : o[n] = <<i, k>>
      BY <1>6 DEF ComesFrom
    <3>3. F[n] = q[i][k]
      BY <1>6, <3>2 DEF ComesFrom
    <3> QED BY <1>7, <3>1, <3>3 DEF WorkOf
  <2> QED BY <2>1, <2>2
<1>9. WorkOf(Ahead(cs)) = UNION {ToSet(FirstStep(cs[i]).work) : i \in 1 .. N}
  <2>1. DOMAIN Ahead(cs) = 1 .. N /\ \A i \in 1 .. N : Ahead(cs)[i] = FirstStep(cs[i])
    BY DEF Ahead
  <2> QED BY <2>1 DEF WorkOf
<1>10. WorkOf(Ahead(cs)) \cup WorkOf(F) = UNION {WorkOf(Expanded(cs[i])) : i \in 1 .. N}
  <2>1. ASSUME NEW w
        PROVE  w \in WorkOf(Ahead(cs)) \cup WorkOf(F)
                 <=> \E i \in 1 .. N : w \in WorkOf(Expanded(cs[i]))
    <3>1. w \in WorkOf(F) <=> \E i \in 1 .. N : w \in WorkOf(Tail(Expanded(cs[i])))
      BY <1>3, <1>8
    <3>2. w \in WorkOf(Ahead(cs)) <=> \E i \in 1 .. N : w \in ToSet(FirstStep(cs[i]).work)
      BY <1>9
    <3>3. \A i \in 1 .. N : w \in WorkOf(Expanded(cs[i]))
             <=> w \in ToSet(FirstStep(cs[i]).work) \/ w \in WorkOf(Tail(Expanded(cs[i])))
      BY <1>2
    <3> QED BY <3>1, <3>2, <3>3
  <2> QED BY <2>1
<1> QED BY <1>5, <1>10 DEF F, q

\* A step that joins the plan for a split call makes a single change.
LEMMA FollowonsSingle ==
  ASSUME NEW cs \in Seq(Steps)
  PROVE  \A n \in 1 .. Len(Followons(cs)) : \E w : ToSet(Followons(cs)[n].work) = {w}
<1> DEFINE N == Len(cs)
           q == [i \in DOMAIN cs |-> Tail(Expanded(cs[i]))]
           F == Followons(cs)
<1>1. DOMAIN cs = 1 .. N /\ \A i \in 1 .. N : cs[i] \in Steps
  OBVIOUS
<1>2. \A i \in 1 .. N : q[i] = Tail(Expanded(cs[i]))
  BY <1>1
<1>3. PICK o : ComesFrom(F, o, q, N)
  <2> HIDE DEF F, N
  <2> QED BY FollowonsWork DEF F, N
<1> HIDE DEF F, q
<1> SUFFICES ASSUME NEW n \in 1 .. Len(F)
             PROVE  \E w : ToSet(F[n].work) = {w}
  BY DEF F
<1>4. PICK i \in 1 .. N : \E k \in 1 .. Len(q[i]) : F[n] = q[i][k]
  <2>1. /\ o[n][1] \in 1 .. N /\ o[n][2] \in 1 .. Len(q[o[n][1]])
        /\ F[n] = q[o[n][1]][o[n][2]]
    BY <1>3 DEF ComesFrom
  <2> QED BY <2>1
<1>5. PICK k \in 1 .. Len(q[i]) : F[n] = q[i][k]
  BY <1>4
<1> DEFINE c == cs[i]
           e == Expanded(c)
<1>6. c \in Steps /\ e \in Seq(Steps) /\ e # <<>> /\ q[i] = Tail(e)
  BY <1>1, <1>2, ExpandedSteps
<1>7. SplitMax \in Nat \ {0} /\ FollowMax + 1 \in Nat \ {0}
  BY EditPlanAssumption DEF EditPlanAssumption
<1>8. e = <<c>> \/ \E m \in Nat \ {0} : e = First(c, m)
  BY <1>7 DEF Expanded, BySymbols, ByClauses
<1> HIDE DEF c, e
<1>9. k + 1 \in DOMAIN e /\ F[n] = e[k + 1]
  BY <1>5, <1>6
<1>10. CASE e = <<c>>
  BY <1>5, <1>6, <1>10
<1>11. CASE \E m \in Nat \ {0} : e = First(c, m)
  <2>1. PICK m \in Nat \ {0} : e = First(c, m)
    BY <1>11
  <2>2. \A j \in DOMAIN First(c, m) : ToSet(First(c, m)[j].work) = {c.work[j]}
    BY <1>6, FirstParts
  <2>3. \A j \in DOMAIN e : ToSet(e[j].work) = {c.work[j]}
    BY <2>1, <2>2
  <2> QED BY <1>9, <2>3
<1> QED BY <1>8, <1>10, <1>11

\* Where the calls have nothing in common, their steps have nothing in common.
LEMMA FollowonsApart ==
  ASSUME NEW cs \in Seq(Steps),
         \A i, j \in 1 .. Len(cs) :
           i # j => ToSet(cs[i].work) \cap ToSet(cs[j].work) = {},
         \A i \in 1 .. Len(cs) : ~NeedsSplit(cs[i]) \/ IsInjective(cs[i].work)
  PROVE  /\ Apart(Ahead(cs)) /\ Apart(Followons(cs))
         /\ WorkOf(Ahead(cs)) \cap WorkOf(Followons(cs)) = {}
<1> DEFINE N == Len(cs)
           q == [i \in DOMAIN cs |-> Tail(Expanded(cs[i]))]
           F == Followons(cs)
<1>1. DOMAIN cs = 1 .. N /\ \A i \in 1 .. N : cs[i] \in Steps
  OBVIOUS
<1>2. ASSUME NEW i \in 1 .. N
      PROVE  /\ q[i] \in Seq(Steps)
             /\ ToSet(FirstStep(cs[i]).work) \subseteq ToSet(cs[i].work)
             /\ WorkOf(q[i]) \subseteq ToSet(cs[i].work)
             /\ ToSet(FirstStep(cs[i]).work) \cap WorkOf(q[i]) = {}
             /\ Apart(q[i])
  <2>1. /\ Expanded(cs[i]) \in Seq(Steps) /\ Expanded(cs[i]) # <<>> /\ Apart(Expanded(cs[i]))
        /\ WorkOf(Expanded(cs[i])) \subseteq ToSet(cs[i].work)
    BY <1>1, ExpandedSteps
  <2>2. q[i] = Tail(Expanded(cs[i]))
    BY <1>1
  <2> HIDE DEF q
  <2> QED BY <2>1, <2>2, WorkOfTail DEF FirstStep
<1>3. PICK o : ComesFrom(F, o, q, N)
  <2> HIDE DEF F, N
  <2> QED BY FollowonsWork DEF F, N
<1>4. F \in Seq(Steps)
  BY FollowonsWork
<1> HIDE DEF F, q
<1>5. DOMAIN F = 1 .. Len(F) /\ \A i \in 1 .. N : DOMAIN q[i] = 1 .. Len(q[i])
  BY <1>2, <1>4
<1>6. ASSUME NEW n \in 1 .. Len(F)
      PROVE  \E i \in 1 .. N : \E k \in DOMAIN q[i] :
               o[n] = <<i, k>> /\ F[n] = q[i][k] /\ ToSet(F[n].work) \subseteq WorkOf(q[i])
  <2>1. /\ o[n] \in (1 .. N) \X Nat /\ o[n][2] \in 1 .. Len(q[o[n][1]])
        /\ F[n] = q[o[n][1]][o[n][2]]
    BY <1>3 DEF ComesFrom
  <2>2. PICK i \in 1 .. N, k \in Nat : o[n] = <<i, k>>
    BY <2>1
  <2>3. k \in DOMAIN q[i] /\ F[n] = q[i][k]
    BY <1>5, <2>1, <2>2
  <2>4. ToSet(F[n].work) \subseteq WorkOf(q[i])
    BY <2>3 DEF WorkOf
  <2> QED BY <2>2, <2>3, <2>4
<1>7. Apart(F)
  <2>1. ASSUME NEW m \in 1 .. Len(F), NEW n \in 1 .. Len(F), m # n
        PROVE  ToSet(F[m].work) \cap ToSet(F[n].work) = {}
    <3>1. PICK i \in 1 .. N : \E k \in DOMAIN q[i] :
            o[m] = <<i, k>> /\ F[m] = q[i][k] /\ ToSet(F[m].work) \subseteq WorkOf(q[i])
      BY <1>6
    <3>2. PICK k \in DOMAIN q[i] :
            o[m] = <<i, k>> /\ F[m] = q[i][k] /\ ToSet(F[m].work) \subseteq WorkOf(q[i])
      BY <3>1
    <3>3. PICK j \in 1 .. N : \E l \in DOMAIN q[j] :
            o[n] = <<j, l>> /\ F[n] = q[j][l] /\ ToSet(F[n].work) \subseteq WorkOf(q[j])
      BY <1>6
    <3>4. PICK l \in DOMAIN q[j] :
            o[n] = <<j, l>> /\ F[n] = q[j][l] /\ ToSet(F[n].work) \subseteq WorkOf(q[j])
      BY <3>3
    <3>5. CASE i # j
      <4>1. ToSet(cs[i].work) \cap ToSet(cs[j].work) = {}
        BY <3>5
      <4>2. WorkOf(q[i]) \subseteq ToSet(cs[i].work) /\ WorkOf(q[j]) \subseteq ToSet(cs[j].work)
        BY <1>2
      <4> QED BY <3>2, <3>4, <4>1, <4>2
    <3>6. CASE i = j
      <4>1. k # l
        <5>1. o[m] = o[n] => m = n
          BY <1>3 DEF ComesFrom
        <5> QED BY <2>1, <3>2, <3>4, <3>6, <5>1
      <4>2. Apart(q[i])
        BY <1>2
      <4> QED BY <3>2, <3>4, <3>6, <4>1, <4>2 DEF Apart
    <3> QED BY <3>5, <3>6
  <2> QED BY <1>5, <2>1 DEF Apart
<1>8. DOMAIN Ahead(cs) = 1 .. N /\ \A i \in 1 .. N : Ahead(cs)[i] = FirstStep(cs[i])
  BY DEF Ahead
<1>9. Apart(Ahead(cs))
  <2>1. ASSUME NEW i \in 1 .. N, NEW j \in 1 .. N, i # j
        PROVE  ToSet(FirstStep(cs[i]).work) \cap ToSet(FirstStep(cs[j]).work) = {}
    <3>1. ToSet(cs[i].work) \cap ToSet(cs[j].work) = {}
      BY <2>1
    <3> QED BY <1>2, <3>1
  <2> QED BY <1>8, <2>1 DEF Apart
<1>10. WorkOf(Ahead(cs)) \cap WorkOf(F) = {}
  <2>1. ASSUME NEW i \in 1 .. N, NEW n \in 1 .. Len(F)
        PROVE  ToSet(FirstStep(cs[i]).work) \cap ToSet(F[n].work) = {}
    <3>1. PICK j \in 1 .. N : ToSet(F[n].work) \subseteq WorkOf(q[j])
      BY <1>6
    <3>2. CASE j = i
      <4>1. ToSet(FirstStep(cs[i]).work) \cap WorkOf(q[i]) = {}
        BY <1>2
      <4> QED BY <3>1, <3>2, <4>1
    <3>3. CASE j # i
      <4>1. ToSet(cs[i].work) \cap ToSet(cs[j].work) = {}
        BY <3>3
      <4>2. /\ ToSet(FirstStep(cs[i]).work) \subseteq ToSet(cs[i].work)
            /\ WorkOf(q[j]) \subseteq ToSet(cs[j].work)
        BY <1>2
      <4> QED BY <3>1, <4>1, <4>2
    <3> QED BY <3>2, <3>3
  <2>2. ASSUME NEW w \in WorkOf(Ahead(cs)), w \in WorkOf(F)
        PROVE  FALSE
    <3>1. PICK i \in 1 .. N : w \in ToSet(FirstStep(cs[i]).work)
      BY <1>8 DEF WorkOf
    <3>2. PICK n \in 1 .. Len(F) : w \in ToSet(F[n].work)
      BY <1>5, <2>2 DEF WorkOf
    <3> QED BY <2>1, <3>1, <3>2
  <2> QED BY <2>2
<1> QED BY <1>7, <1>9, <1>10 DEF F

-----------------------------------------------------------------------------
(* Freezing.                                                               *)

\* p says for each item kept of a plan which item of the plan it is.
Keeps(p, plan, cs) ==
  /\ p \in [1 .. Len(Residual(plan, cs)) -> 1 .. Len(plan)]
  /\ \A m, n \in DOMAIN p : p[m] = p[n] => m = n
  /\ \A n \in DOMAIN p : Residual(plan, cs)[n] = plan[p[n]] /\ ~LeftOut(plan, cs, p[n])
  /\ \A i \in 1 .. Len(plan) :
       plan[i].named /\ ~LeftOut(plan, cs, i) => \E n \in DOMAIN p : p[n] = i

\* What is kept of a plan: items of it, each once, and every named one that is not
\* left out for a call.
LEMMA ResidualPlaces ==
  ASSUME NEW plan \in Seq(Steps), NEW cs
  PROVE  /\ Residual(plan, cs) \in Seq(Steps)
         /\ \E p : Keeps(p, plan, cs)
<1> DEFINE N == Len(plan)
           ids == [i \in DOMAIN plan |-> i]
           S == {i \in DOMAIN plan : plan[i].named /\ ~LeftOut(plan, cs, i)}
           p == Only(ids, S)
           R == Residual(plan, cs)
<1>1. DOMAIN plan = 1 .. N /\ N \in Nat /\ \A i \in 1 .. N : plan[i] \in Steps
  OBVIOUS
<1>2. /\ ids \in Seq(1 .. N) /\ Len(ids) = N
      /\ \A i \in 1 .. N : ids[i] = i
      /\ \A i, j \in 1 .. Len(ids) : ids[i] = ids[j] => i = j
      /\ ToSet(ids) = 1 .. N
  <2>1. ids \in [1 .. N -> 1 .. N] /\ \A i \in 1 .. N : ids[i] = i
    BY <1>1
  <2>2. DOMAIN ids = 1 .. N
    BY <1>1
  <2> HIDE DEF ids
  <2> QED BY <1>1, <2>1, <2>2 DEF ToSet
<1>3. S \subseteq 1 .. N /\ \A i \in 1 .. N :
        i \in S <=> plan[i].named /\ ~LeftOut(plan, cs, i)
  BY <1>1
<1>4. R = [n \in DOMAIN p |-> plan[p[n]]]
  BY DEF Residual
<1> HIDE DEF ids, S
<1>5. /\ p \in Seq(1 .. N) /\ ToSet(p) = S
      /\ \A i, j \in 1 .. Len(p) : p[i] = p[j] => i = j
  <2>1. p \in Seq(1 .. N) /\ ToSet(p) = ToSet(ids) \cap S
    BY <1>2, OnlySelects
  <2>2. \A i, j \in 1 .. Len(p) : p[i] = p[j] => i = j
    BY <1>2, OnlyInjective
  <2> QED BY <1>2, <1>3, <2>1, <2>2
<1> HIDE DEF p, R
<1>6. DOMAIN p = 1 .. Len(p) /\ Len(p) \in Nat /\ \A n \in 1 .. Len(p) : p[n] \in S /\ p[n] \in 1 .. N
  BY <1>5 DEF ToSet
<1>7. R \in Seq(Steps) /\ Len(R) = Len(p) /\ \A n \in 1 .. Len(p) : R[n] = plan[p[n]]
  <2>1. R \in [1 .. Len(p) -> Steps]
    BY <1>1, <1>4, <1>6
  <2> QED BY <1>4, <1>6, <2>1
<1>8. p \in [1 .. Len(R) -> 1 .. N]
  BY <1>5, <1>7
<1>9. \A i \in 1 .. N : i \in S => \E n \in DOMAIN p : p[n] = i
  BY <1>5 DEF ToSet
<1>10. /\ p \in [1 .. Len(R) -> 1 .. N]
       /\ \A m, n \in DOMAIN p : p[m] = p[n] => m = n
       /\ \A n \in DOMAIN p : R[n] = plan[p[n]] /\ ~LeftOut(plan, cs, p[n])
       /\ \A i \in 1 .. N :
            plan[i].named /\ ~LeftOut(plan, cs, i) => \E n \in DOMAIN p : p[n] = i
  BY <1>3, <1>5, <1>6, <1>7, <1>8, <1>9
<1>11. Keeps(p, plan, cs)
  BY <1>10 DEF R, Keeps
<1> QED BY <1>7, <1>11 DEF R

\* An item is left out for a call; one with the file and intent of a call is kept
\* only after another item with these.
LEMMA LeftOutKeys ==
  ASSUME NEW plan \in Seq(Steps), NEW cs \in Seq(Steps), NEW i \in 1 .. Len(plan)
  PROVE  /\ LeftOut(plan, cs, i) => \E j \in 1 .. Len(cs) : cs[j].key = plan[i].key
         /\ ~LeftOut(plan, cs, i) /\ (\E j \in 1 .. Len(cs) : cs[j].key = plan[i].key)
              => \E j \in 1 .. i - 1 : plan[j].key = plan[i].key
<1> DEFINE A == {j \in 1 .. i - 1 : plan[j].key = plan[i].key}
           B == {j \in DOMAIN cs : cs[j].key = plan[i].key}
<1>1. LeftOut(plan, cs, i) <=> Cardinality(A) < Cardinality(B)
  BY DEF LeftOut
<1>2. IsFiniteSet(A) /\ IsFiniteSet(B)
  <2>1. DOMAIN cs = 1 .. Len(cs) /\ Len(cs) \in Nat /\ i - 1 \in Nat
    OBVIOUS
  <2>2. IsFiniteSet(1 .. i - 1) /\ IsFiniteSet(1 .. Len(cs))
    BY <2>1, FS_Interval
  <2>3. A \subseteq 1 .. i - 1 /\ B \subseteq 1 .. Len(cs)
    BY <2>1
  <2> QED BY <2>2, <2>3, FS_Subset
<1>3. B = {j \in 1 .. Len(cs) : cs[j].key = plan[i].key}
  OBVIOUS
<1> HIDE DEF A, B
<1>4. /\ Cardinality(A) \in Nat /\ Cardinality(B) \in Nat
      /\ Cardinality(A) = 0 <=> A = {}
      /\ Cardinality(B) = 0 <=> B = {}
  BY <1>2, FS_CardinalityType, FS_EmptySet
<1>5. LeftOut(plan, cs, i) => B # {}
  BY <1>1, <1>4
<1>6. ~LeftOut(plan, cs, i) /\ B # {} => A # {}
  BY <1>1, <1>4
<1> QED BY <1>3, <1>5, <1>6 DEF A

-----------------------------------------------------------------------------
(* What the invariant says.                                                *)

\* The types of the state.
PlanTyped ==
  /\ stage \in {"core", "call", "drain", "answered", "failed"}
  /\ stage # "call" => calls = <<>>
  /\ turn \in 0 .. MaxTurns
  /\ calls \in Seq(Steps)
  /\ queue \in [steps : Seq(Steps), cursor : Nat] /\ queue.cursor <= Len(queue.steps)
  /\ card \in [status : {"empty", "draining", "halted", "complete"},
               names : SUBSET Work, completed : BOOLEAN]
  /\ round \in [ok : BOOLEAN, halted : BOOLEAN, planned : BOOLEAN]
  /\ open \subseteq Work /\ again \subseteq Work

\* What a card has told that no call of this response has yet replaced.
Told == IF stage \in {"call", "drain"} /\ ~round.halted THEN {} ELSE Reported

\* Open work is ahead of the calls, in the plan or told.
PlanKept ==
  /\ causes \subseteq {"asked_twice"} =>
       open \subseteq WorkOf(Ahead(calls)) \cup WorkOf(Remaining(queue)) \cup Told
  /\ stage = "drain" => ~round.halted
  /\ stage = "answered" /\ causes \subseteq {"asked_twice"} => Drained(queue)

\* What is ahead of the calls and what is in the plan is open, each change once.
PlanApart ==
  /\ card.status = "halted" => Drained(queue)
  /\ causes \cap {"asked_twice", "same_intent"} = {} =>
       /\ again = {}
       /\ Apart(Ahead(calls)) /\ Apart(Remaining(queue))
       /\ WorkOf(Ahead(calls)) \cap WorkOf(Remaining(queue)) = {}
       /\ WorkOf(Ahead(calls)) \cup WorkOf(Remaining(queue)) \subseteq open

PlanInv == PlanTyped /\ PlanKept /\ PlanApart

-----------------------------------------------------------------------------
(* Types.                                                                  *)

\* Nothing is left of an empty plan, nor of a drained one.
LEMMA NothingLeft ==
  /\ Fresh(<<>>) \in [steps : Seq(Steps), cursor : Nat]
  /\ Fresh(<<>>).cursor <= Len(Fresh(<<>>).steps)
  /\ Drained(Fresh(<<>>)) /\ Remaining(Fresh(<<>>)) = <<>>
  /\ WorkOf(<<>>) = {} /\ Apart(<<>>) /\ Ahead(<<>>) = <<>>
<1>1. <<>> \in Seq(Steps) /\ Len(<<>>) = 0 /\ DOMAIN <<>> = {}
  OBVIOUS
<1>2. /\ Fresh(<<>>) \in [steps : Seq(Steps), cursor : Nat]
      /\ Fresh(<<>>).cursor = 0 /\ Fresh(<<>>).steps = <<>>
  BY <1>1 DEF Fresh
<1>3. Drained(Fresh(<<>>))
  BY <1>1, <1>2 DEF Drained
<1>4. Remaining(Fresh(<<>>)) = <<>>
  BY <1>1, <1>2, <1>3, RemainingNext
<1>5. WorkOf(<<>>) = {} /\ Apart(<<>>)
  BY <1>1 DEF WorkOf, Apart
<1>6. Ahead(<<>>) = <<>>
  <2> DEFINE a == Ahead(<<>>)
  <2>1. a \in Seq(Steps) /\ Len(a) = 0
    BY <1>1, AheadSteps
  <2> HIDE DEF a
  <2>2. a = <<>>
    BY <2>1
  <2> QED BY <2>2 DEF a
<1> QED BY <1>1, <1>2, <1>3, <1>4, <1>5, <1>6

\* A plan that was just frozen is the whole of its steps.
LEMMA FreshPlan ==
  ASSUME NEW s \in Seq(Steps)
  PROVE  /\ Fresh(s) \in [steps : Seq(Steps), cursor : Nat]
         /\ Fresh(s).cursor <= Len(Fresh(s).steps)
         /\ Remaining(Fresh(s)) = s
<1>1. /\ Fresh(s) \in [steps : Seq(Steps), cursor : Nat] /\ Len(s) \in Nat
      /\ Fresh(s).cursor = 0 /\ Fresh(s).steps = s
  BY DEF Fresh
<1>2. Remaining(Fresh(s)) = SubSeq(s, 1, Len(s))
  BY <1>1 DEF Remaining
<1>3. SubSeq(s, 1, Len(s)) = s
  <2> DEFINE b == SubSeq(s, 1, Len(s))
  <2>1. b \in Seq(Steps) /\ Len(b) = Len(s) /\ \A i \in 1 .. Len(b) : b[i] = s[i]
    BY <1>1, SubSeqProperties
  <2> HIDE DEF b
  <2>2. b = s
    BY <2>1, SeqEqual
  <2> QED BY <2>2 DEF b
<1> QED BY <1>1, <1>2, <1>3

\* The first steps of a sequence: of their work, and all of it when they are all.
LEMMA FirstOfSteps ==
  ASSUME NEW s \in Seq(Steps), NEW n \in Nat
  PROVE  /\ WorkOf(FirstOf(s, n)) \subseteq Work
         /\ Len(s) <= n => FirstOf(s, n) = s
<1> DEFINE m == IF Len(s) < n THEN Len(s) ELSE n
           b == SubSeq(s, 1, m)
<1>1. Len(s) \in Nat /\ m \in 0 .. Len(s)
  OBVIOUS
<1>2. FirstOf(s, n) = b
  BY DEF FirstOf
<1> HIDE DEF m
<1>3. b \in Seq(Steps) /\ Len(b) = m /\ \A i \in 1 .. Len(b) : b[i] = s[i]
  <2>1. \A i \in 1 .. m : i \in 1 .. Len(s)
    BY <1>1
  <2>2. 1 \in 1 .. Len(s) + 1 /\ m \in Nat
    BY <1>1
  <2> QED BY <1>1, <2>1, <2>2, SubSeqProperties
<1> HIDE DEF b
<1>4. WorkOf(b) \subseteq Work
  BY <1>3, WorkOfSteps
<1>5. ASSUME Len(s) <= n
      PROVE  b = s
  <2>1. m = Len(s)
    BY <1>1, <1>5 DEF m
  <2> QED BY <1>3, <2>1, SeqEqual
<1> QED BY <1>2, <1>4, <1>5


\* The first step of a call has work of the call.
LEMMA FirstStepWork ==
  ASSUME NEW c \in Steps
  PROVE  FirstStep(c) \in Steps /\ ToSet(FirstStep(c).work) \subseteq ToSet(c.work)
<1>1. Expanded(c) \in Seq(Steps) /\ Expanded(c) # <<>> /\ WorkOf(Expanded(c)) \subseteq ToSet(c.work)
  BY ExpandedSteps
<1>2. /\ Head(Expanded(c)) \in Steps
      /\ WorkOf(Expanded(c)) = ToSet(Head(Expanded(c)).work) \cup WorkOf(Tail(Expanded(c)))
  BY <1>1, WorkOfTail
<1> QED BY <1>1, <1>2 DEF FirstStep

\* The current step, and what a halt leaves of the plan.
LEMMA CurrentStep ==
  ASSUME PlanTyped
  PROVE  /\ Remaining(queue) \in Seq(Steps)
         /\ ~Drained(queue) =>
              /\ Remaining(queue) # <<>>
              /\ Current \in Steps /\ Current = Head(Remaining(queue))
              /\ LET q == [queue EXCEPT !.cursor = @ + 1]
                 IN  /\ q \in [steps : Seq(Steps), cursor : Nat] /\ q.cursor <= Len(q.steps)
                     /\ Remaining(q) = Tail(Remaining(queue))
<1>1. /\ queue.steps \in Seq(Steps) /\ queue.cursor \in Nat
      /\ queue.cursor <= Len(queue.steps) /\ Len(queue.steps) \in Nat
      /\ queue \in [steps : Seq(Steps), cursor : Nat]
  BY DEF PlanTyped
<1>2. queue.cursor \in 0 .. Len(queue.steps)
  BY <1>1
<1>3. /\ Remaining(queue) \in Seq(Steps)
      /\ Drained(queue) <=> Remaining(queue) = <<>>
      /\ ~Drained(queue) =>
           /\ Head(Remaining(queue)) = queue.steps[queue.cursor + 1]
           /\ \A r : r.steps = queue.steps /\ r.cursor = queue.cursor + 1
                       => Remaining(r) = Tail(Remaining(queue))
  BY <1>1, <1>2, RemainingNext
<1>4. ASSUME ~Drained(queue)
      PROVE  /\ Remaining(queue) # <<>>
             /\ Current \in Steps /\ Current = Head(Remaining(queue))
             /\ LET q == [queue EXCEPT !.cursor = @ + 1]
                IN  /\ q \in [steps : Seq(Steps), cursor : Nat] /\ q.cursor <= Len(q.steps)
                    /\ Remaining(q) = Tail(Remaining(queue))
  <2> DEFINE q == [queue EXCEPT !.cursor = @ + 1]
  <2>1. queue.cursor < Len(queue.steps)
    BY <1>1, <1>4 DEF Drained
  <2>2. queue.cursor + 1 \in 1 .. Len(queue.steps)
    BY <1>1, <2>1
  <2>3. Current \in Steps /\ Current = Head(Remaining(queue))
    BY <1>1, <1>3, <1>4, <2>2 DEF Current
  <2>4. /\ q \in [steps : Seq(Steps), cursor : Nat]
        /\ q.steps = queue.steps /\ q.cursor = queue.cursor + 1
    BY <1>1
  <2> HIDE DEF q
  <2>5. q.cursor <= Len(q.steps) /\ Remaining(q) = Tail(Remaining(queue))
    BY <1>1, <1>3, <1>4, <2>1, <2>4
  <2> QED BY <1>3, <1>4, <2>3, <2>4, <2>5 DEF q
<1> QED BY <1>3, <1>4

\* A frozen plan is a plan.
LEMMA FrozenTypes ==
  ASSUME NEW q \in [steps : Seq(Steps), cursor : Nat], q.cursor <= Len(q.steps),
         NEW t \in [calls : Seq(Steps), plan : Seq(Steps)]
  PROVE  /\ Frozen(q, t) \in [steps : Seq(Steps), cursor : Nat]
         /\ Frozen(q, t).cursor <= Len(Frozen(q, t).steps)
<1>1. t.calls \in Seq(Steps) /\ t.plan \in Seq(Steps)
  OBVIOUS
<1>2. Residual(Minors(t), t.calls) \in Seq(Steps)
  <2>1. Minors(t) \in Seq(Steps)
    BY <1>1, FollowonsWork DEF Minors
  <2> QED BY <1>1, <2>1, ResidualPlaces
<1>3. CASE Minors(t) # <<>>
  <2>1. Frozen(q, t) = Fresh(Residual(Minors(t), t.calls))
    BY <1>3 DEF Frozen
  <2> QED BY <1>2, <2>1, FreshPlan
<1>4. CASE Minors(t) = <<>>
  <2>1. Frozen(q, t) = IF Drained(q) THEN Fresh(<<>>) ELSE q
    BY <1>4 DEF Frozen
  <2>2. Fresh(<<>>) \in [steps : Seq(Steps), cursor : Nat]
        /\ Fresh(<<>>).cursor <= Len(Fresh(<<>>).steps)
    BY NothingLeft
  <2> QED BY <2>1, <2>2
<1> QED BY <1>3, <1>4

\* The cards are cards.
LEMMA CardTypes ==
  ASSUME PlanTyped, NEW q \in [steps : Seq(Steps), cursor : Nat], q.cursor <= Len(q.steps),
         NEW done \in BOOLEAN
  PROVE  LET Cards == [status : {"empty", "draining", "halted", "complete"},
                       names : SUBSET Work, completed : BOOLEAN]
         IN  /\ QueueCard(q, done) \in Cards /\ QueueCard(q, done).status # "halted"
             /\ \A s \in Steps, rest \in Seq(Steps) :
                  /\ HaltCard(s, rest) \in Cards
                  /\ HaltCard(s, rest).status = "halted"
                  /\ Len(rest) <= CardMax
                       => HaltCard(s, rest).names = ToSet(s.work) \cup WorkOf(rest)
             /\ SyncedCard(q) \in Cards
             /\ ~Drained(q) => SyncedCard(q).status # "halted"
<1> DEFINE Cards == [status : {"empty", "draining", "halted", "complete"},
                     names : SUBSET Work, completed : BOOLEAN]
<1>0. CardMax \in Nat /\ CardMax + 1 \in Nat
  BY EditPlanAssumption DEF EditPlanAssumption
<1>1. card \in Cards /\ card.completed \in BOOLEAN
  BY DEF PlanTyped
<1>2. q.steps \in Seq(Steps) /\ q.cursor \in 0 .. Len(q.steps)
  OBVIOUS
<1>3. Remaining(q) \in Seq(Steps)
  BY <1>2, RemainingNext
<1>4. WorkOf(FirstOf(Remaining(q), CardMax + 1)) \in SUBSET Work
  BY <1>0, <1>3, FirstOfSteps
<1>5. ASSUME NEW d \in BOOLEAN
      PROVE  /\ QueueCard(q, d) \in Cards /\ QueueCard(q, d).status # "halted"
             /\ QueueCard(q, d).completed \in BOOLEAN
  <2>1. CASE Drained(q)
    BY <2>1 DEF QueueCard
  <2>2. CASE ~Drained(q)
    BY <1>4, <2>2 DEF QueueCard
  <2> QED BY <2>1, <2>2
<1>6. ASSUME NEW s \in Steps, NEW rest \in Seq(Steps)
      PROVE  /\ HaltCard(s, rest) \in Cards
             /\ HaltCard(s, rest).status = "halted"
             /\ Len(rest) <= CardMax
                  => HaltCard(s, rest).names = ToSet(s.work) \cup WorkOf(rest)
  <2>1. WorkOf(FirstOf(rest, CardMax)) \in SUBSET Work
        /\ (Len(rest) <= CardMax => FirstOf(rest, CardMax) = rest)
    BY <1>0, FirstOfSteps
  <2>2. ToSet(s.work) \in SUBSET Work
    BY StepParts
  <2>3. ToSet(s.work) \cup WorkOf(FirstOf(rest, CardMax)) \in SUBSET Work
    BY <2>1, <2>2
  <2> QED BY <1>1, <2>1, <2>3 DEF HaltCard
<1>7. SyncedCard(q) \in Cards /\ (~Drained(q) => SyncedCard(q).status # "halted")
  <2>1. CASE ~Drained(q)
    <3> DEFINE d == card.completed /\ card.status = "draining" /\ q.cursor > 0
    <3>1. d \in BOOLEAN
      OBVIOUS
    <3>2. SyncedCard(q) = QueueCard(q, d)
      BY <2>1 DEF SyncedCard
    <3> HIDE DEF d
    <3> QED BY <1>5, <3>1, <3>2
  <2>2. CASE Drained(q) /\ card.status = "halted"
    BY <1>1, <2>2 DEF SyncedCard
  <2>3. CASE Drained(q) /\ ~(card.status = "halted")
    <3>1. SyncedCard(q) = [status |-> IF card.completed THEN "complete" ELSE "empty",
                           names |-> {}, completed |-> card.completed]
      BY <2>3 DEF SyncedCard
    <3> QED BY <1>1, <2>3, <3>1
  <2> QED BY <2>1, <2>2, <2>3
<1> QED BY <1>5, <1>6, <1>7


-----------------------------------------------------------------------------
(* A response.                                                             *)

\* The entries of a response are its calls and the items of its plan.
LEMMA EntriesOfTurn ==
  ASSUME NEW t \in [calls : Seq(Steps), plan : Seq(Steps)]
  PROVE  /\ Entries(t) \in Seq(Steps)
         /\ Len(Entries(t)) = Len(t.calls) + Len(t.plan)
         /\ \A i \in 1 .. Len(t.calls) : Entries(t)[i] = t.calls[i]
         /\ \A i \in 1 .. Len(t.plan) : Entries(t)[Len(t.calls) + i] = t.plan[i]
         /\ WorkOf(Entries(t)) = WorkOf(t.calls) \cup WorkOf(t.plan)
<1> DEFINE c == t.calls
           p == t.plan
           e == c \o p
<1>1. c \in Seq(Steps) /\ p \in Seq(Steps) /\ Len(c) \in Nat /\ Len(p) \in Nat
  OBVIOUS
<1> HIDE DEF c, p
<1>2. /\ e \in Seq(Steps) /\ Len(e) = Len(c) + Len(p)
      /\ \A i \in 1 .. Len(c) : e[i] = c[i]
      /\ \A i \in 1 .. Len(p) : e[Len(c) + i] = p[i]
  <2>1. e \in Seq(Steps) /\ Len(e) = Len(c) + Len(p)
        /\ \A i \in 1 .. Len(c) + Len(p) : e[i] = IF i <= Len(c) THEN c[i] ELSE p[i - Len(c)]
    BY <1>1, ConcatProperties
  <2> HIDE DEF e
  <2>2. ASSUME NEW i \in 1 .. Len(c)
        PROVE  e[i] = c[i]
    <3>1. i \in 1 .. Len(c) + Len(p) /\ i <= Len(c)
      BY <1>1
    <3> QED BY <2>1, <3>1
  <2>3. ASSUME NEW i \in 1 .. Len(p)
        PROVE  e[Len(c) + i] = p[i]
    <3>1. Len(c) + i \in 1 .. Len(c) + Len(p) /\ ~(Len(c) + i <= Len(c)) /\ (Len(c) + i) - Len(c) = i
      BY <1>1
    <3> QED BY <2>1, <3>1
  <2> QED BY <2>1, <2>2, <2>3
<1> HIDE DEF e
<1>3. WorkOf(e) = WorkOf(c) \cup WorkOf(p)
  <2>1. DOMAIN e = 1 .. Len(e) /\ DOMAIN c = 1 .. Len(c) /\ DOMAIN p = 1 .. Len(p)
    BY <1>1, <1>2
  <2>2. ASSUME NEW i \in DOMAIN e
        PROVE  ToSet(e[i].work) \subseteq WorkOf(c) \cup WorkOf(p)
    <3>1. CASE i <= Len(c)
      <4>1. i \in 1 .. Len(c)
        BY <1>1, <1>2, <2>1, <3>1
      <4> QED BY <1>2, <2>1, <4>1 DEF WorkOf
    <3>2. CASE ~(i <= Len(c))
      <4>1. i - Len(c) \in 1 .. Len(p) /\ Len(c) + (i - Len(c)) = i
        BY <1>1, <1>2, <2>1, <3>2
      <4>2. e[i] = p[i - Len(c)]
        BY <1>2, <4>1
      <4> QED BY <2>1, <4>1, <4>2 DEF WorkOf
    <3> QED BY <3>1, <3>2
  <2>3. ASSUME NEW i \in DOMAIN c
        PROVE  ToSet(c[i].work) \subseteq WorkOf(e)
    <3>1. i \in DOMAIN e /\ e[i] = c[i]
      BY <1>1, <1>2, <2>1
    <3> QED BY <3>1 DEF WorkOf
  <2>4. ASSUME NEW i \in DOMAIN p
        PROVE  ToSet(p[i].work) \subseteq WorkOf(e)
    <3>1. Len(c) + i \in DOMAIN e /\ e[Len(c) + i] = p[i]
      BY <1>1, <1>2, <2>1
    <3> QED BY <3>1 DEF WorkOf
  <2>5. WorkOf(e) \subseteq WorkOf(c) \cup WorkOf(p)
    BY <2>2 DEF WorkOf
  <2>6. WorkOf(c) \subseteq WorkOf(e) /\ WorkOf(p) \subseteq WorkOf(e)
    BY <2>3, <2>4 DEF WorkOf
  <2> QED BY <2>5, <2>6
<1> QED BY <1>2, <1>3 DEF e, c, p, Entries

\* A response without a call or an item that names the work of another one.
LEMMA NamedOnce ==
  ASSUME NEW t \in [calls : Seq(Steps), plan : Seq(Steps)], ~NamedTwice(t)
  PROVE  /\ \A i, j \in 1 .. Len(t.calls) :
              i # j => ToSet(t.calls[i].work) \cap ToSet(t.calls[j].work) = {}
         /\ \A i \in 1 .. Len(t.calls) :
              ~NeedsSplit(t.calls[i]) \/ IsInjective(t.calls[i].work)
         /\ \A i, j \in 1 .. Len(t.plan) :
              i # j => ToSet(t.plan[i].work) \cap ToSet(t.plan[j].work) = {}
         /\ \A i \in 1 .. Len(t.calls), j \in 1 .. Len(t.plan) :
              \/ ToSet(t.calls[i].work) \cap ToSet(t.plan[j].work) = {}
              \/ t.calls[i].key = t.plan[j].key
<1> DEFINE c == t.calls
           p == t.plan
           e == Entries(t)
<1>1. /\ c \in Seq(Steps) /\ p \in Seq(Steps) /\ Len(c) \in Nat /\ Len(p) \in Nat
      /\ DOMAIN c = 1 .. Len(c)
  OBVIOUS
<1>2. /\ DOMAIN e = 1 .. Len(c) + Len(p)
      /\ \A i \in 1 .. Len(c) : e[i] = c[i]
      /\ \A i \in 1 .. Len(p) : e[Len(c) + i] = p[i]
  <2>1. e \in Seq(Steps) /\ Len(e) = Len(c) + Len(p)
    BY EntriesOfTurn
  <2>2. DOMAIN e = 1 .. Len(e)
    BY <2>1
  <2> QED BY <2>1, <2>2, EntriesOfTurn
<1>3. /\ \A call \in ToSet(c) : ~NeedsSplit(call) \/ IsInjective(call.work)
      /\ \A i, j \in DOMAIN e :
           i < j => \/ ToSet(e[i].work) \cap ToSet(e[j].work) = {}
                    \/ /\ ~(j <= Len(c)) /\ ~(i > Len(c))
                       /\ e[i].key = e[j].key
  BY DEF NamedTwice
<1> HIDE DEF c, p, e
<1>4. \A i \in 1 .. Len(c) : ~NeedsSplit(c[i]) \/ IsInjective(c[i].work)
  <2>1. \A i \in 1 .. Len(c) : c[i] \in ToSet(c)
    BY <1>1 DEF ToSet
  <2> QED BY <1>3, <2>1
<1>5. ASSUME NEW i \in 1 .. Len(c), NEW j \in 1 .. Len(c), i < j
      PROVE  ToSet(c[i].work) \cap ToSet(c[j].work) = {}
  <2>1. i \in DOMAIN e /\ j \in DOMAIN e /\ j <= Len(c) /\ e[i] = c[i] /\ e[j] = c[j]
    BY <1>1, <1>2
  <2> QED BY <1>3, <1>5, <2>1
<1>6. ASSUME NEW i \in 1 .. Len(p), NEW j \in 1 .. Len(p), i < j
      PROVE  ToSet(p[i].work) \cap ToSet(p[j].work) = {}
  <2>1. /\ Len(c) + i \in DOMAIN e /\ Len(c) + j \in DOMAIN e /\ Len(c) + i < Len(c) + j
        /\ Len(c) + i > Len(c) /\ e[Len(c) + i] = p[i] /\ e[Len(c) + j] = p[j]
    BY <1>1, <1>2, <1>6
  <2> QED BY <1>3, <2>1
<1>7. ASSUME NEW i \in 1 .. Len(c), NEW j \in 1 .. Len(p)
      PROVE  ToSet(c[i].work) \cap ToSet(p[j].work) = {} \/ c[i].key = p[j].key
  <2>1. /\ i \in DOMAIN e /\ Len(c) + j \in DOMAIN e /\ i < Len(c) + j
        /\ e[i] = c[i] /\ e[Len(c) + j] = p[j]
    BY <1>1, <1>2
  <2> QED BY <1>3, <2>1
<1>8. \A i, j \in 1 .. Len(c) : i # j => i < j \/ j < i
  BY <1>1
<1>9. \A i, j \in 1 .. Len(p) : i # j => i < j \/ j < i
  BY <1>1
<1>10. \A i, j \in 1 .. Len(c) : i # j => ToSet(c[i].work) \cap ToSet(c[j].work) = {}
  BY <1>5, <1>8
<1>11. \A i, j \in 1 .. Len(p) : i # j => ToSet(p[i].work) \cap ToSet(p[j].work) = {}
  BY <1>6, <1>9
<1> QED BY <1>4, <1>7, <1>10, <1>11 DEF c, p


\* The work of named items is kept, or is that of a call with their file and intent.
LEMMA ResidualWork ==
  ASSUME NEW items \in Seq(Steps), NEW cs \in Seq(Steps),
         \A y \in ToSet(items) : y.named,
         \A x \in ToSet(cs), y \in ToSet(items) : x.key = y.key => x.work = y.work,
         NEW i \in 1 .. Len(items)
  PROVE  \/ ToSet(items[i].work) \subseteq WorkOf(Residual(items, cs))
         \/ \E j \in 1 .. Len(cs) : cs[j].work = items[i].work
<1> DEFINE R == Residual(items, cs)
<1>1. DOMAIN items = 1 .. Len(items) /\ DOMAIN cs = 1 .. Len(cs)
  OBVIOUS
<1>2. R \in Seq(Steps)
  BY ResidualPlaces
<1>3. items[i] \in ToSet(items) /\ \A j \in 1 .. Len(cs) : cs[j] \in ToSet(cs)
  BY <1>1 DEF ToSet
<1>4. CASE LeftOut(items, cs, i)
  <2>1. PICK j \in 1 .. Len(cs) : cs[j].key = items[i].key
    BY <1>4, LeftOutKeys
  <2> QED BY <1>3, <2>1
<1>5. CASE ~LeftOut(items, cs, i)
  <2>1. PICK m : Keeps(m, items, cs)
    BY ResidualPlaces
  <2>2. PICK n \in 1 .. Len(R) : R[n] = items[i]
    BY <1>3, <1>5, <2>1 DEF Keeps, R
  <2> HIDE DEF R
  <2>3. ToSet(R[n].work) \subseteq WorkOf(R)
    BY <1>2 DEF WorkOf
  <2> QED BY <2>2, <2>3 DEF R
<1> QED BY <1>4, <1>5

\* What is kept of a plan is apart where the plan is, and of its work.
LEMMA ResidualApart ==
  ASSUME NEW items \in Seq(Steps), NEW cs
  PROVE  /\ Residual(items, cs) \in Seq(Steps)
         /\ WorkOf(Residual(items, cs)) \subseteq WorkOf(items)
         /\ Apart(items) => Apart(Residual(items, cs))
<1> DEFINE R == Residual(items, cs)
<1>1. R \in Seq(Steps)
  BY ResidualPlaces
<1>2. PICK m : Keeps(m, items, cs)
  BY ResidualPlaces
<1>3. DOMAIN items = 1 .. Len(items) /\ DOMAIN R = 1 .. Len(R)
  BY <1>1
<1>4. /\ \A n \in 1 .. Len(R) : m[n] \in 1 .. Len(items) /\ R[n] = items[m[n]]
      /\ \A k, n \in 1 .. Len(R) : m[k] = m[n] => k = n
  BY <1>2 DEF Keeps, R
<1> HIDE DEF R
<1>5. WorkOf(R) \subseteq WorkOf(items)
  BY <1>3, <1>4 DEF WorkOf
<1>6. ASSUME Apart(items)
      PROVE  Apart(R)
  <2>1. ASSUME NEW k \in DOMAIN R, NEW n \in DOMAIN R, k # n
        PROVE  ToSet(R[k].work) \cap ToSet(R[n].work) = {}
    <3>1. m[k] \in DOMAIN items /\ m[n] \in DOMAIN items /\ m[k] # m[n]
          /\ R[k] = items[m[k]] /\ R[n] = items[m[n]]
      BY <1>3, <1>4, <2>1
    <3>2. ToSet(items[m[k]].work) \cap ToSet(items[m[n]].work) = {}
      BY <1>6, <3>1 DEF Apart
    <3> QED BY <3>1, <3>2
  <2> QED BY <2>1 DEF Apart
<1> QED BY <1>1, <1>5, <1>6 DEF R

\* A response whose calls are split whole, that has no plan beside split calls and
\* displaces no plan, loses nothing.
LEMMA TurnKept ==
  ASSUME PlanTyped, NEW t \in [calls : Seq(Steps), plan : Seq(Steps)],
         CausesOf(t) \subseteq {"asked_twice"}
  PROVE  /\ WorkOf(Entries(t)) \subseteq WorkOf(Ahead(t.calls)) \cup WorkOf(Remaining(Frozen(queue, t)))
         /\ t.plan = <<>> => WorkOf(Remaining(queue)) \subseteq WorkOf(Remaining(Frozen(queue, t)))
<1> DEFINE c == t.calls
           p == t.plan
           F == Followons(c)
           M == Minors(t)
           R == Residual(M, c)
           q == Frozen(queue, t)
<1>1. c \in Seq(Steps) /\ p \in Seq(Steps) /\ DOMAIN c = 1 .. Len(c) /\ DOMAIN p = 1 .. Len(p)
  OBVIOUS
<1>2. /\ \A x \in ToSet(c) : WorkOf(Expanded(x)) = ToSet(x.work)
      /\ ~(p # <<>> /\ F # <<>>)
      /\ ~(p = <<>> /\ F # <<>> /\ ~Drained(queue))
      /\ \A y \in ToSet(M) : y.named
      /\ \A x \in ToSet(c), y \in ToSet(M) : x.key = y.key => x.work = y.work
  <2>1. /\ "call_truncated" \notin CausesOf(t) /\ "split_beside_plan" \notin CausesOf(t)
        /\ "plan_displaced" \notin CausesOf(t) /\ "item_unnamed" \notin CausesOf(t)
        /\ "same_intent" \notin CausesOf(t) /\ "step_consumed" \notin CausesOf(t)
    OBVIOUS
  <2>2. \A x \in ToSet(c) : WorkOf(Expanded(x)) = ToSet(x.work)
    BY <2>1 DEF CausesOf
  <2>3. ~(p # <<>> /\ F # <<>>)
    BY <2>1 DEF CausesOf
  <2>4. ~(p = <<>> /\ F # <<>> /\ ~Drained(queue))
    BY <2>1 DEF CausesOf
  <2>5. \A y \in ToSet(M) : y.named
    BY <2>1 DEF CausesOf
  <2>6. \A x \in ToSet(c), y \in ToSet(M) : x.key = y.key => x.work = y.work
    <3>1. CASE p # <<>>
      <4>1. M = p
        BY <3>1 DEF Minors
      <4> QED BY <2>1, <4>1 DEF CausesOf
    <3>2. CASE p = <<>>
      <4>1. M = F
        BY <3>2 DEF Minors
      <4> QED BY <2>1, <3>2, <4>1 DEF CausesOf
    <3> QED BY <3>1, <3>2
  <2> QED BY <2>2, <2>3, <2>4, <2>5, <2>6
<1>3. WorkOf(Entries(t)) = WorkOf(c) \cup WorkOf(p)
  BY EntriesOfTurn
<1>4. /\ q = IF M # <<>> THEN Fresh(R)
            ELSE IF Drained(queue) THEN Fresh(<<>>) ELSE queue
      /\ M = IF p # <<>> THEN p ELSE F
  BY DEF Frozen, Minors
<1> HIDE DEF c, p, R, F, M, q
<1>5. M \in Seq(Steps) /\ R \in Seq(Steps) /\ F \in Seq(Steps)
  BY <1>1, <1>4, ResidualPlaces, FollowonsWork DEF R, F
<1>6. \A i \in 1 .. Len(c) : c[i] \in ToSet(c)
  BY <1>1 DEF ToSet
<1>7. ASSUME NEW i \in 1 .. Len(M)
      PROVE  \/ ToSet(M[i].work) \subseteq WorkOf(R)
             \/ \E j \in 1 .. Len(c) : c[j].work = M[i].work
  <2>1. /\ \A y \in ToSet(M) : y.named
        /\ \A x \in ToSet(c), y \in ToSet(M) : x.key = y.key => x.work = y.work
    BY <1>2
  <2> QED BY <1>1, <1>5, <2>1, ResidualWork DEF R
<1>8. WorkOf(c) = WorkOf(Ahead(c)) \cup WorkOf(F)
  <2>1. WorkOf(Ahead(c)) \cup WorkOf(F) = UNION {WorkOf(Expanded(c[i])) : i \in 1 .. Len(c)}
    BY <1>1, FollowonsWork DEF F
  <2>2. \A i \in 1 .. Len(c) : WorkOf(Expanded(c[i])) = ToSet(c[i].work)
    BY <1>2, <1>6
  <2>3. WorkOf(c) = UNION {ToSet(c[i].work) : i \in 1 .. Len(c)}
    BY <1>1 DEF WorkOf
  <2>4. ASSUME NEW w
        PROVE  w \in WorkOf(c) <=> w \in WorkOf(Ahead(c)) \cup WorkOf(F)
    BY <2>1, <2>2, <2>3
  <2> QED BY <2>4
<1>9. WorkOf(<<>>) = {}
  BY NothingLeft
<1>10. Drained(queue) => WorkOf(Remaining(queue)) = {}
  <2>1. queue.steps \in Seq(Steps) /\ queue.cursor \in 0 .. Len(queue.steps)
    BY DEF PlanTyped
  <2> QED BY <1>9, <2>1, RemainingNext
<1>11. CASE p # <<>>
  <2>1. F = <<>> /\ M = p /\ Remaining(q) = R
    BY <1>2, <1>4, <1>5, <1>11, FreshPlan
  <2>2. WorkOf(c) = WorkOf(Ahead(c))
    BY <1>8, <1>9, <2>1
  <2>3. ASSUME NEW i \in 1 .. Len(p)
        PROVE  ToSet(p[i].work) \subseteq WorkOf(c) \cup WorkOf(R)
    <3>1. \A j \in 1 .. Len(c) : ToSet(c[j].work) \subseteq WorkOf(c)
      BY <1>1 DEF WorkOf
    <3> QED BY <1>7, <2>1, <3>1
  <2>4. WorkOf(p) \subseteq WorkOf(c) \cup WorkOf(R)
    BY <1>1, <2>3 DEF WorkOf
  <2> QED BY <1>3, <1>11, <2>1, <2>2, <2>4 DEF c, p, q
<1>12. CASE p = <<>> /\ F # <<>>
  <2>1. M = F /\ Remaining(q) = R
    BY <1>4, <1>5, <1>12, FreshPlan
  <2>2. WorkOf(Remaining(queue)) = {}
    BY <1>2, <1>10, <1>12
  <2>3. ASSUME NEW i \in 1 .. Len(F)
        PROVE  ToSet(F[i].work) \subseteq WorkOf(Ahead(c)) \cup WorkOf(R)
    <3>1. CASE ToSet(F[i].work) \subseteq WorkOf(R)
      BY <3>1
    <3>2. CASE \E j \in 1 .. Len(c) : c[j].work = F[i].work
      <4>1. PICK j \in 1 .. Len(c) : c[j].work = F[i].work
        BY <3>2
      <4>2. PICK w : ToSet(F[i].work) = {w}
        BY <1>1, FollowonsSingle DEF F
      <4> DEFINE f == FirstStep(c[j])
      <4>3. f \in Steps /\ ToSet(f.work) \subseteq {w}
        <5>1. c[j] \in Steps /\ ToSet(c[j].work) = {w}
          BY <1>1, <4>1, <4>2
        <5> QED BY <5>1, FirstStepWork
      <4>4. ToSet(f.work) # {}
        <5> HIDE DEF f
        <5>1. f.work \in Seq(Work) /\ f.work # <<>> /\ DOMAIN f.work = 1 .. Len(f.work)
          BY <4>3, StepParts
        <5>2. f.work[1] \in ToSet(f.work)
          BY <5>1 DEF ToSet
        <5> QED BY <5>2
      <4>5. ToSet(f.work) \subseteq WorkOf(Ahead(c))
        <5>1. DOMAIN Ahead(c) = 1 .. Len(c) /\ Ahead(c)[j] = f
          BY <1>1 DEF Ahead
        <5> QED BY <5>1 DEF WorkOf
      <4> HIDE DEF f
      <4> QED BY <4>2, <4>3, <4>4, <4>5
    <3> QED BY <1>7, <2>1, <3>1, <3>2
  <2>4. WorkOf(F) \subseteq WorkOf(Ahead(c)) \cup WorkOf(R)
    <3>1. DOMAIN F = 1 .. Len(F)
      BY <1>5
    <3> QED BY <2>3, <3>1 DEF WorkOf
  <2> QED BY <1>3, <1>8, <1>9, <1>12, <2>1, <2>2, <2>4 DEF c, p, q
<1>13. CASE p = <<>> /\ F = <<>>
  <2>1. WorkOf(Remaining(q)) = WorkOf(Remaining(queue))
    <3>1. q = IF Drained(queue) THEN Fresh(<<>>) ELSE queue
      BY <1>4, <1>13
    <3> QED BY <1>9, <1>10, <3>1, NothingLeft
  <2> QED BY <1>3, <1>8, <1>9, <1>13, <2>1 DEF c, p, q
<1> QED BY <1>11, <1>12, <1>13

\* A response that asks for nothing twice asks for nothing twice once frozen.
LEMMA TurnApart ==
  ASSUME PlanTyped, Apart(Remaining(queue)),
         NEW t \in [calls : Seq(Steps), plan : Seq(Steps)],
         CausesOf(t) \cap {"asked_twice", "same_intent"} = {}
  PROVE  LET rest == Remaining(Frozen(queue, t))
         IN  /\ Apart(Ahead(t.calls)) /\ Apart(rest)
             /\ WorkOf(Ahead(t.calls)) \cap WorkOf(rest) = {}
             /\ WorkOf(Ahead(t.calls)) \subseteq WorkOf(Entries(t))
             /\ \/ WorkOf(rest) \subseteq WorkOf(Entries(t))
                \/ ~Drained(queue) /\ t.plan = <<>> /\ rest = Remaining(queue)
<1> DEFINE c == t.calls
           p == t.plan
           R == Residual(p, c)
           F == Followons(c)
           q == Frozen(queue, t)
<1>1. c \in Seq(Steps) /\ p \in Seq(Steps) /\ DOMAIN c = 1 .. Len(c) /\ DOMAIN p = 1 .. Len(p)
  OBVIOUS
<1>2. /\ \A x \in ToSet(c), y \in ToSet(p) : x.key = y.key => x.work = y.work
      /\ ~NamedTwice(t)
      /\ p = <<>> => WorkOf(c) \cap WorkOf(Remaining(queue)) = {}
  <2>1. "asked_twice" \notin CausesOf(t) /\ "same_intent" \notin CausesOf(t)
    OBVIOUS
  <2>2. \A x \in ToSet(c), y \in ToSet(p) : x.key = y.key => x.work = y.work
    BY <2>1 DEF CausesOf
  <2>3. ~NamedTwice(t) /\ (p = <<>> => WorkOf(c) \cap WorkOf(Remaining(queue)) = {})
    <3>1. ASSUME NamedTwice(t)
          PROVE  FALSE
      <4>1. "asked_twice" \in CausesOf(t)
        BY <3>1 DEF CausesOf
      <4> QED BY <2>1, <4>1
    <3>2. ASSUME p = <<>>, WorkOf(c) \cap WorkOf(Remaining(queue)) # {}
          PROVE  FALSE
      <4>1. "asked_twice" \in CausesOf(t)
        BY <3>2 DEF CausesOf
      <4> QED BY <2>1, <4>1
    <3> HIDE DEF c, p
    <3> QED BY <3>1, <3>2
  <2> HIDE DEF c, p
  <2> QED BY <2>2, <2>3
<1>3. WorkOf(Entries(t)) = WorkOf(c) \cup WorkOf(p)
  BY EntriesOfTurn
<1>4. q = CASE p # <<>> -> Fresh(R)
            [] p = <<>> /\ F # <<>> -> Fresh(Residual(F, c))
            [] OTHER -> IF Drained(queue) THEN Fresh(<<>>) ELSE queue
  BY DEF Frozen, Minors
<1>5. /\ \A i, j \in 1 .. Len(c) : i # j => ToSet(c[i].work) \cap ToSet(c[j].work) = {}
      /\ \A i \in 1 .. Len(c) : ~NeedsSplit(c[i]) \/ IsInjective(c[i].work)
      /\ \A i, j \in 1 .. Len(p) : i # j => ToSet(p[i].work) \cap ToSet(p[j].work) = {}
      /\ \A i \in 1 .. Len(c), j \in 1 .. Len(p) :
           ToSet(c[i].work) \cap ToSet(p[j].work) = {} \/ c[i].key = p[j].key
  BY <1>2, NamedOnce
<1> HIDE DEF c, p, R, F, q
<1>6. /\ Apart(Ahead(c)) /\ Apart(F) /\ WorkOf(Ahead(c)) \cap WorkOf(F) = {}
  BY <1>1, <1>5, FollowonsApart DEF F
<1>7. R \in Seq(Steps) /\ F \in Seq(Steps)
  BY <1>1, ResidualPlaces, FollowonsWork DEF R, F
<1>8. WorkOf(Ahead(c)) \subseteq WorkOf(c) /\ WorkOf(F) \subseteq WorkOf(c)
  <2>1. WorkOf(Ahead(c)) \cup WorkOf(F) = UNION {WorkOf(Expanded(c[i])) : i \in 1 .. Len(c)}
    BY <1>1, FollowonsWork DEF F
  <2>2. \A i \in 1 .. Len(c) : WorkOf(Expanded(c[i])) \subseteq ToSet(c[i].work)
    BY <1>1, ExpandedSteps
  <2>3. WorkOf(c) = UNION {ToSet(c[i].work) : i \in 1 .. Len(c)}
    BY <1>1 DEF WorkOf
  <2>4. UNION {WorkOf(Expanded(c[i])) : i \in 1 .. Len(c)} \subseteq WorkOf(c)
    BY <2>2, <2>3
  <2> QED BY <2>1, <2>4
<1>9. CASE p # <<>>
  <2>1. Remaining(q) = R
    BY <1>4, <1>7, <1>9, FreshPlan
  <2>2. PICK m : Keeps(m, p, c)
    BY <1>1, ResidualPlaces
  <2>3. /\ DOMAIN R = 1 .. Len(R) /\ DOMAIN m = 1 .. Len(R)
        /\ \A n \in 1 .. Len(R) : /\ m[n] \in 1 .. Len(p) /\ R[n] = p[m[n]]
                                  /\ ~LeftOut(p, c, m[n])
        /\ \A k, n \in 1 .. Len(R) : m[k] = m[n] => k = n
    BY <1>7, <2>2 DEF Keeps, R
  <2>4. Apart(R)
    <3>1. ASSUME NEW k \in 1 .. Len(R), NEW n \in 1 .. Len(R), k # n
          PROVE  ToSet(R[k].work) \cap ToSet(R[n].work) = {}
      <4>1. m[k] \in 1 .. Len(p) /\ m[n] \in 1 .. Len(p) /\ m[k] # m[n]
        BY <2>3, <3>1
      <4>2. ToSet(p[m[k]].work) \cap ToSet(p[m[n]].work) = {}
        BY <1>5, <4>1
      <4> QED BY <2>3, <4>2
    <3> QED BY <2>3, <3>1 DEF Apart
  <2>5. WorkOf(R) \subseteq WorkOf(p)
    <3>1. \A n \in DOMAIN R : \E i \in DOMAIN p : R[n] = p[i]
      BY <1>1, <2>3
    <3> QED BY <3>1 DEF WorkOf
  <2>6. ASSUME NEW n \in 1 .. Len(R), NEW i \in 1 .. Len(c)
        PROVE  ToSet(c[i].work) \cap ToSet(R[n].work) = {}
    <3>1. m[n] \in 1 .. Len(p) /\ R[n] = p[m[n]] /\ ~LeftOut(p, c, m[n])
      BY <2>3
    <3>2. SUFFICES ASSUME ToSet(c[i].work) \cap ToSet(R[n].work) # {}
                   PROVE  FALSE
      OBVIOUS
    <3>3. c[i].key = p[m[n]].key
      BY <1>5, <3>1, <3>2
    <3>4. PICK j \in 1 .. m[n] - 1 : p[j].key = p[m[n]].key
      <4> DEFINE k == m[n]
      <4>1. k \in 1 .. Len(p) /\ ~LeftOut(p, c, k) /\ c[i].key = p[k].key
        BY <3>1, <3>3
      <4> HIDE DEF k
      <4>2. \E j \in 1 .. k - 1 : p[j].key = p[k].key
        <5>1. \E l \in 1 .. Len(c) : c[l].key = p[k].key
          BY <4>1
        <5>2. c \in Seq(Steps) /\ p \in Seq(Steps)
          BY <1>1
        <5> QED BY <4>1, <5>1, <5>2, LeftOutKeys
      <4> QED BY <4>2 DEF k
    <3>5. j \in 1 .. Len(p) /\ j # m[n]
      BY <1>1, <3>1
    <3>6. c[i] \in ToSet(c) /\ p[j] \in ToSet(p) /\ p[m[n]] \in ToSet(p)
      BY <1>1, <3>1, <3>5 DEF ToSet
    <3>7. c[i].work = p[j].work /\ c[i].work = p[m[n]].work
      BY <1>2, <3>3, <3>4, <3>6
    <3>8. ToSet(p[j].work) \cap ToSet(p[m[n]].work) = {}
      BY <1>5, <3>1, <3>5
    <3> QED BY <3>1, <3>2, <3>7, <3>8
  <2>7. WorkOf(c) \cap WorkOf(R) = {}
    <3>1. ASSUME NEW w \in WorkOf(c), w \in WorkOf(R)
          PROVE  FALSE
      <4>1. PICK i \in 1 .. Len(c) : w \in ToSet(c[i].work)
        BY <1>1 DEF WorkOf
      <4>2. PICK n \in 1 .. Len(R) : w \in ToSet(R[n].work)
        BY <2>3, <3>1 DEF WorkOf
      <4> QED BY <2>6, <4>1, <4>2
    <3> QED BY <3>1
  <2> QED BY <1>3, <1>6, <1>8, <2>1, <2>4, <2>5, <2>7 DEF c, p, q
<1>10. CASE p = <<>> /\ F # <<>>
  <2> DEFINE S == Residual(F, c)
  <2>1. S \in Seq(Steps) /\ WorkOf(S) \subseteq WorkOf(F) /\ Apart(S)
    BY <1>6, <1>7, ResidualApart
  <2> HIDE DEF S
  <2>2. Remaining(q) = S
    BY <1>4, <1>10, <2>1, FreshPlan DEF S
  <2> QED BY <1>3, <1>6, <1>8, <2>1, <2>2 DEF c, p, q
<1>11. CASE p = <<>> /\ F = <<>>
  <2>1. q = IF Drained(queue) THEN Fresh(<<>>) ELSE queue
    BY <1>4, <1>11
  <2>2. CASE Drained(queue)
    <3>1. Remaining(q) = <<>> /\ WorkOf(<<>>) = {} /\ Apart(<<>>)
      BY <2>1, <2>2, NothingLeft
    <3> QED BY <1>3, <1>6, <1>8, <3>1 DEF c, p, q
  <2>3. CASE ~Drained(queue)
    <3>1. q = queue
      BY <2>1, <2>3
    <3>2. WorkOf(Ahead(c)) \cap WorkOf(Remaining(queue)) = {}
      BY <1>2, <1>8, <1>11
    <3> QED BY <1>3, <1>6, <1>8, <1>11, <2>3, <3>1, <3>2 DEF c, p, q
  <2> QED BY <2>2, <2>3
<1> QED BY <1>9, <1>10, <1>11


-----------------------------------------------------------------------------
(* Each action keeps the types.                                            *)

\* The next call: its first step, the steps ahead after it, and its work.
LEMMA NextCall ==
  ASSUME PlanTyped, calls # <<>>
  PROVE  /\ FirstStep(Head(calls)) \in Steps
         /\ Tail(calls) \in Seq(Steps)
         /\ Ahead(calls) \in Seq(Steps) /\ Ahead(calls) # <<>>
         /\ Head(Ahead(calls)) = FirstStep(Head(calls))
         /\ Tail(Ahead(calls)) = Ahead(Tail(calls))
         /\ WorkOf(Ahead(calls))
              = ToSet(FirstStep(Head(calls)).work) \cup WorkOf(Ahead(Tail(calls)))
         /\ Apart(Ahead(calls)) =>
              /\ Apart(Ahead(Tail(calls)))
              /\ ToSet(FirstStep(Head(calls)).work) \cap WorkOf(Ahead(Tail(calls))) = {}
<1>1. calls \in Seq(Steps) /\ Head(calls) \in Steps
  <2>1. calls \in Seq(Steps)
    BY DEF PlanTyped
  <2> QED BY <2>1
<1>2. /\ Ahead(calls) \in Seq(Steps) /\ Ahead(calls) # <<>> /\ Tail(calls) \in Seq(Steps)
      /\ Head(Ahead(calls)) = FirstStep(Head(calls))
      /\ Tail(Ahead(calls)) = Ahead(Tail(calls))
  BY <1>1, AheadSteps
<1>3. /\ WorkOf(Ahead(calls)) = ToSet(Head(Ahead(calls)).work) \cup WorkOf(Tail(Ahead(calls)))
      /\ Apart(Ahead(calls)) =>
           /\ Apart(Tail(Ahead(calls)))
           /\ ToSet(Head(Ahead(calls)).work) \cap WorkOf(Tail(Ahead(calls))) = {}
  BY <1>2, WorkOfTail
<1>4. FirstStep(Head(calls)) \in Steps
  BY <1>1, FirstStepWork
<1> QED BY <1>2, <1>3, <1>4

\* Every step of the plan and of the calls keeps the types.
LEMMA TypesKept ==
  ASSUME PlanTyped, PlanNext
  PROVE  PlanTyped'
<1>1. CASE TakeResponse
  <2>1. PICK t \in Turns, offered \in BOOLEAN :
          /\ queue' = Frozen(queue, t)
          /\ card' = SyncedCard(queue')
          /\ calls' = t.calls
          /\ open' = (open \ (Reported \cup (IF t.plan = <<>> THEN {}
                                             ELSE WorkOf(Remaining(queue)))))
                     \cup WorkOf(Entries(t))
          /\ stage' = IF t.calls # <<>> THEN "call"
                      ELSE IF ~Drained(queue') /\ offered THEN "drain"
                      ELSE "answered"
          /\ round' = [ok |-> FALSE, halted |-> FALSE, planned |-> t.plan # <<>>]
    BY <1>1 DEF TakeResponse
  <2>2. t \in [calls : Seq(Steps), plan : Seq(Steps)]
    BY EditPlanAssumption DEF EditPlanAssumption
  <2>3. queue' \in [steps : Seq(Steps), cursor : Nat] /\ queue'.cursor <= Len(queue'.steps)
    BY <2>1, <2>2, FrozenTypes DEF PlanTyped
  <2>4. card' \in [status : {"empty", "draining", "halted", "complete"},
                   names : SUBSET Work, completed : BOOLEAN]
    BY <2>1, <2>3, CardTypes
  <2>5. open' \subseteq Work
    <3>1. WorkOf(Entries(t)) \subseteq Work
      BY <2>2, EntriesOfTurn, WorkOfSteps
    <3>2. open \subseteq Work
      BY DEF PlanTyped
    <3> QED BY <2>1, <3>1, <3>2
  <2>6. /\ turn' \in 0 .. MaxTurns /\ again' \subseteq Work /\ calls' \in Seq(Steps)
        /\ round' \in [ok : BOOLEAN, halted : BOOLEAN, planned : BOOLEAN]
    <3>1. turn' \in 0 .. MaxTurns
      BY <1>1, EditPlanAssumption DEF EditPlanAssumption, PlanTyped, TakeResponse
    <3>2. again' \subseteq Work
      BY <1>1 DEF PlanTyped, TakeResponse
    <3>3. calls' \in Seq(Steps)
      BY <2>1, <2>2
    <3> QED BY <2>1, <3>1, <3>2, <3>3
  <2>7. stage' \in {"core", "call", "drain", "answered", "failed"} /\ (stage' # "call" => calls' = <<>>)
    BY <2>1
  <2> QED BY <2>3, <2>4, <2>5, <2>6, <2>7 DEF PlanTyped
<1>2. CASE ReachMaxTurns
  BY <1>2 DEF PlanTyped, ReachMaxTurns
<1>3. CASE RefuseCall
  <2>1. calls' \in Seq(Steps)
    BY <1>3, NextCall DEF RefuseCall
  <2> QED BY <1>3, <2>1 DEF PlanTyped, RefuseCall
<1>4. CASE CallSucceeds
  <2>1. calls' \in Seq(Steps) /\ ToSet(FirstStep(Head(calls)).work) \subseteq Work
    BY <1>4, NextCall, StepParts DEF CallSucceeds
  <2>2. /\ open' = open \ ToSet(FirstStep(Head(calls)).work)
        /\ again' = again \cup (ToSet(FirstStep(Head(calls)).work) \ open)
    BY <1>4 DEF CallSucceeds, Ran
  <2>3. open' \subseteq Work /\ again' \subseteq Work
    BY <2>1, <2>2 DEF PlanTyped
  <2>4. card' \in [status : {"empty", "draining", "halted", "complete"},
                   names : SUBSET Work, completed : BOOLEAN]
    <3>1. QueueCard(queue, TRUE) \in [status : {"empty", "draining", "halted", "complete"},
                                      names : SUBSET Work, completed : BOOLEAN]
      BY CardTypes DEF PlanTyped
    <3> QED BY <1>4, <3>1 DEF CallSucceeds
  <2>5. round' \in [ok : BOOLEAN, halted : BOOLEAN, planned : BOOLEAN]
    BY <1>4 DEF CallSucceeds, PlanTyped
  <2> QED BY <1>4, <2>1, <2>3, <2>4, <2>5 DEF PlanTyped, CallSucceeds
<1>5. CASE CallFails
  <2>1. calls' \in Seq(Steps) /\ FirstStep(Head(calls)) \in Steps
    BY <1>5, NextCall DEF CallFails
  <2>2. card' = HaltCard(FirstStep(Head(calls)), Remaining(queue))
        /\ open' = open \ ToSet(FirstStep(Head(calls)).work)
    BY <1>5 DEF CallFails
  <2>3. card' \in [status : {"empty", "draining", "halted", "complete"},
                   names : SUBSET Work, completed : BOOLEAN]
    <3>1. Remaining(queue) \in Seq(Steps)
      BY CurrentStep
    <3> QED BY <2>1, <2>2, <3>1, CardTypes DEF PlanTyped
  <2>4. queue' \in [steps : Seq(Steps), cursor : Nat] /\ queue'.cursor <= Len(queue'.steps)
    BY <1>5, NothingLeft DEF CallFails
  <2>5. round' \in [ok : BOOLEAN, halted : BOOLEAN, planned : BOOLEAN]
    BY <1>5 DEF CallFails, PlanTyped
  <2> QED BY <1>5, <2>1, <2>2, <2>3, <2>4, <2>5 DEF PlanTyped, CallFails
<1>6. CASE EndCalls
  BY <1>6 DEF PlanTyped, EndCalls
<1>7. CASE DrainStep
  <2>1. Current \in Steps /\ queue' \in [steps : Seq(Steps), cursor : Nat]
        /\ queue'.cursor <= Len(queue'.steps)
    BY <1>7, CurrentStep DEF DrainStep
  <2>2. open' = open \ ToSet(Current.work) /\ again' = again \cup (ToSet(Current.work) \ open)
    BY <1>7 DEF DrainStep, Ran
  <2>3. open' \subseteq Work /\ again' \subseteq Work
    BY <2>1, <2>2, StepParts DEF PlanTyped
  <2>4. card' \in [status : {"empty", "draining", "halted", "complete"},
                   names : SUBSET Work, completed : BOOLEAN]
    BY <1>7, <2>1, CardTypes DEF DrainStep
  <2> QED BY <1>7, <2>1, <2>3, <2>4 DEF PlanTyped, DrainStep
<1>8. CASE DrainFails
  <2>1. Current \in Steps /\ Tail(Remaining(queue)) \in Seq(Steps)
    <3>1. Current \in Steps /\ Remaining(queue) \in Seq(Steps) /\ Remaining(queue) # <<>>
      BY <1>8, CurrentStep DEF DrainFails
    <3> QED BY <3>1, WorkOfTail
  <2>2. card' \in [status : {"empty", "draining", "halted", "complete"},
                   names : SUBSET Work, completed : BOOLEAN]
    BY <1>8, <2>1, CardTypes DEF DrainFails, PlanTyped
  <2>3. queue' \in [steps : Seq(Steps), cursor : Nat] /\ queue'.cursor <= Len(queue'.steps)
    BY <1>8, NothingLeft DEF DrainFails
  <2> QED BY <1>8, <2>2, <2>3 DEF PlanTyped, DrainFails
<1>9. CASE EndDrain
  BY <1>9 DEF PlanTyped, EndDrain
<1>10. CASE EndRun
  BY <1>10 DEF PlanTyped, EndRun
<1> QED BY <1>1, <1>2, <1>3, <1>4, <1>5, <1>6, <1>7, <1>8, <1>9, <1>10 DEF PlanNext


-----------------------------------------------------------------------------
(* Open work stays ahead, in the plan or told.                             *)

\* The steps left of a plan that a halt leaves, on the card when they fit.
LEMMA HaltTells ==
  ASSUME PlanTyped, NEW s \in Steps, NEW rest \in Seq(Steps), Len(rest) <= CardMax,
         card' = HaltCard(s, rest)
  PROVE  card'.status = "halted" /\ card'.names = ToSet(s.work) \cup WorkOf(rest)
<1>1. queue \in [steps : Seq(Steps), cursor : Nat] /\ queue.cursor <= Len(queue.steps)
  BY DEF PlanTyped
<1>2. /\ HaltCard(s, rest).status = "halted"
      /\ HaltCard(s, rest).names = ToSet(s.work) \cup WorkOf(rest)
  BY <1>1, CardTypes
<1> QED BY <1>2

\* A call that does not leave the card of a halt in the same response.
LEMMA ToldInCall ==
  ASSUME PlanTyped, stage = "call", LosesCard \subseteq {"asked_twice"}
  PROVE  Told = {}
BY DEF Told, Reported, LosesCard

\* Every step keeps open work ahead of the calls, in the plan or told.
LEMMA KeptStep ==
  ASSUME PlanTyped, PlanTyped', PlanKept, PlanNext
  PROVE  PlanKept'
<1>0. WorkOf(<<>>) = {} /\ Ahead(<<>>) = <<>> /\ (Drained(queue) => Remaining(queue) = <<>>)
  <2>1. queue.steps \in Seq(Steps) /\ queue.cursor \in 0 .. Len(queue.steps)
    BY DEF PlanTyped
  <2> QED BY <2>1, NothingLeft, RemainingNext
<1>1. CASE TakeResponse
  <2>1. PICK t \in Turns, offered \in BOOLEAN :
          /\ queue' = Frozen(queue, t)
          /\ calls' = t.calls
          /\ open' = (open \ (Reported \cup (IF t.plan = <<>> THEN {}
                                             ELSE WorkOf(Remaining(queue)))))
                     \cup WorkOf(Entries(t))
          /\ stage' = IF t.calls # <<>> THEN "call"
                      ELSE IF ~Drained(queue') /\ offered THEN "drain"
                      ELSE "answered"
          /\ causes' = causes \cup CausesOf(t)
                       \cup (IF t.calls = <<>> /\ ~Drained(queue') /\ ~offered
                             THEN {"answered"} ELSE {})
          /\ round' = [ok |-> FALSE, halted |-> FALSE, planned |-> t.plan # <<>>]
    BY <1>1 DEF TakeResponse
  <2>2. t \in [calls : Seq(Steps), plan : Seq(Steps)]
    BY EditPlanAssumption DEF EditPlanAssumption
  <2>3. stage = "core" /\ calls = <<>>
    BY <1>1 DEF TakeResponse, PlanTyped
  <2>4. ASSUME causes' \subseteq {"asked_twice"}
        PROVE  /\ open' \subseteq WorkOf(Ahead(calls')) \cup WorkOf(Remaining(queue'))
               /\ stage' = "answered" => Drained(queue')
    <3>1. causes \subseteq {"asked_twice"} /\ CausesOf(t) \subseteq {"asked_twice"}
          /\ ~(t.calls = <<>> /\ ~Drained(queue') /\ ~offered)
      BY <2>1, <2>4
    <3>2. /\ WorkOf(Entries(t)) \subseteq WorkOf(Ahead(calls')) \cup WorkOf(Remaining(queue'))
          /\ t.plan = <<>> => WorkOf(Remaining(queue)) \subseteq WorkOf(Remaining(queue'))
      BY <2>1, <2>2, <3>1, TurnKept
    <3>3. open \subseteq WorkOf(Remaining(queue)) \cup Reported
      BY <1>0, <2>3, <3>1 DEF PlanKept, Told
    <3>4. open' \subseteq WorkOf(Ahead(calls')) \cup WorkOf(Remaining(queue'))
      BY <2>1, <3>2, <3>3
    <3> QED BY <2>1, <3>1, <3>4
  <2>5. stage' = "drain" => ~round'.halted
    BY <2>1
  <2> QED BY <2>4, <2>5 DEF PlanKept
<1>2. CASE ReachMaxTurns
  <2>1. Told' = Told /\ stage' = "failed" /\ UNCHANGED <<calls, queue, open, causes>>
    BY <1>2 DEF ReachMaxTurns, Told, Reported
  <2> QED BY <2>1 DEF PlanKept
<1>3. CASE RefuseCall
  <2>1. /\ Told' = Told /\ stage' = "call" /\ UNCHANGED <<queue, causes>>
        /\ open' = open \ ToSet(FirstStep(Head(calls)).work)
        /\ calls' = Tail(calls) /\ calls # <<>>
    BY <1>3 DEF RefuseCall, Told, Reported
  <2>2. WorkOf(Ahead(calls))
          = ToSet(FirstStep(Head(calls)).work) \cup WorkOf(Ahead(Tail(calls)))
    BY <2>1, NextCall
  <2> QED BY <2>1, <2>2 DEF PlanKept
<1>4. CASE CallSucceeds
  <2>1. /\ stage = "call" /\ stage' = "call" /\ UNCHANGED queue
        /\ causes' = causes \cup LosesCard
        /\ open' = open \ ToSet(FirstStep(Head(calls)).work)
        /\ calls' = Tail(calls) /\ calls # <<>>
    BY <1>4 DEF CallSucceeds, Ran
  <2>2. WorkOf(Ahead(calls))
          = ToSet(FirstStep(Head(calls)).work) \cup WorkOf(Ahead(Tail(calls)))
    BY <2>1, NextCall
  <2>3. ASSUME causes' \subseteq {"asked_twice"}
        PROVE  open' \subseteq WorkOf(Ahead(calls')) \cup WorkOf(Remaining(queue'))
    <3>1. causes \subseteq {"asked_twice"} /\ Told = {}
      BY <2>1, <2>3, ToldInCall
    <3> QED BY <2>1, <2>2, <3>1 DEF PlanKept
  <2> QED BY <2>1, <2>3 DEF PlanKept
<1>5. CASE CallFails
  <2>1. /\ stage = "call" /\ stage' = "call" /\ queue' = Fresh(<<>>)
        /\ causes' = causes \cup LosesCard
             \cup (IF Len(Remaining(queue)) > CardMax THEN {"card_full"} ELSE {})
        /\ open' = open \ ToSet(FirstStep(Head(calls)).work)
        /\ card' = HaltCard(FirstStep(Head(calls)), Remaining(queue))
        /\ calls' = Tail(calls) /\ calls # <<>>
    BY <1>5 DEF CallFails
  <2>2. round'.halted
    BY <1>5 DEF CallFails, PlanTyped
  <2>3. WorkOf(Ahead(calls))
          = ToSet(FirstStep(Head(calls)).work) \cup WorkOf(Ahead(Tail(calls)))
    BY <2>1, NextCall
  <2>4. ASSUME causes' \subseteq {"asked_twice"}
        PROVE  open' \subseteq WorkOf(Ahead(calls')) \cup Told'
    <3>1. /\ causes \subseteq {"asked_twice"} /\ LosesCard \subseteq {"asked_twice"}
          /\ ~(Len(Remaining(queue)) > CardMax)
      BY <2>1, <2>4
    <3>2. Remaining(queue) \in Seq(Steps) /\ FirstStep(Head(calls)) \in Steps
      BY <2>1, CurrentStep, NextCall
    <3>3. Len(Remaining(queue)) <= CardMax
      BY <3>1, <3>2, EditPlanAssumption DEF EditPlanAssumption
    <3>4. Told' = ToSet(FirstStep(Head(calls)).work) \cup WorkOf(Remaining(queue))
      BY <2>1, <2>2, <3>2, <3>3, HaltTells DEF Told, Reported
    <3>5. Told = {}
      BY <2>1, <3>1, ToldInCall
    <3> QED BY <2>1, <2>3, <3>1, <3>4, <3>5 DEF PlanKept
  <2> QED BY <2>1, <2>4 DEF PlanKept
<1>6. CASE EndCalls
  <2>1. /\ stage = "call" /\ stage' \in {"drain", "core"} /\ (stage' = "drain" => ~round.halted)
        /\ UNCHANGED <<calls, queue, card, round, open, causes>>
    BY <1>6 DEF EndCalls
  <2>2. Told \subseteq Told'
    BY <2>1 DEF Told, Reported
  <2> QED BY <2>1, <2>2 DEF PlanKept
<1>7. CASE DrainStep
  <2>1. /\ stage = "drain" /\ ~Drained(queue) /\ queue' = [queue EXCEPT !.cursor = @ + 1]
        /\ open' = open \ ToSet(Current.work) /\ UNCHANGED <<stage, calls, round, causes>>
    BY <1>7 DEF DrainStep, Ran
  <2>2. Remaining(queue) \in Seq(Steps) /\ Remaining(queue) # <<>>
        /\ Current = Head(Remaining(queue)) /\ Remaining(queue') = Tail(Remaining(queue))
    BY <2>1, CurrentStep
  <2>3. WorkOf(Remaining(queue)) = ToSet(Current.work) \cup WorkOf(Remaining(queue'))
    BY <2>2, WorkOfTail
  <2>4. Told = {}
    BY <2>1 DEF PlanKept, Told
  <2> QED BY <2>1, <2>3, <2>4 DEF PlanKept
<1>8. CASE DrainFails
  <2>1. /\ stage = "drain" /\ ~Drained(queue) /\ stage' = "core" /\ UNCHANGED <<calls, open>>
        /\ card' = HaltCard(Current, Tail(Remaining(queue)))
        /\ causes' = causes
             \cup (IF Len(Remaining(queue)) > CardMax + 1 THEN {"card_full"} ELSE {})
    BY <1>8 DEF DrainFails
  <2>2. Remaining(queue) \in Seq(Steps) /\ Remaining(queue) # <<>>
        /\ Current \in Steps /\ Current = Head(Remaining(queue))
    BY <2>1, CurrentStep
  <2>3. /\ WorkOf(Remaining(queue)) = ToSet(Current.work) \cup WorkOf(Tail(Remaining(queue)))
        /\ Tail(Remaining(queue)) \in Seq(Steps)
    BY <2>2, WorkOfTail
  <2>4. ASSUME causes' \subseteq {"asked_twice"}
        PROVE  open' \subseteq WorkOf(Ahead(calls')) \cup Told'
    <3>1. causes \subseteq {"asked_twice"} /\ ~(Len(Remaining(queue)) > CardMax + 1)
      BY <2>1, <2>4
    <3>2. Len(Tail(Remaining(queue))) <= CardMax
      <4>1. Len(Tail(Remaining(queue))) = Len(Remaining(queue)) - 1 /\ Len(Remaining(queue)) \in Nat
        BY <2>2
      <4> QED BY <3>1, <4>1, EditPlanAssumption DEF EditPlanAssumption
    <3>3. Told' = ToSet(Current.work) \cup WorkOf(Tail(Remaining(queue)))
      BY <2>1, <2>2, <2>3, <3>2, HaltTells DEF Told, Reported
    <3>4. Told = {}
      BY <2>1 DEF PlanKept, Told
    <3> QED BY <2>1, <2>3, <3>1, <3>3, <3>4 DEF PlanKept
  <2> QED BY <2>1, <2>4 DEF PlanKept
<1>9. CASE EndDrain
  <2>1. /\ stage = "drain" /\ stage' = "core" /\ UNCHANGED <<calls, queue, card, round, open, causes>>
    BY <1>9 DEF EndDrain
  <2>2. Told \subseteq Told'
    BY <2>1 DEF Told, Reported
  <2> QED BY <2>1, <2>2 DEF PlanKept
<1>10. CASE EndRun
  <2>1. Told' = Told /\ stage' = "failed" /\ UNCHANGED <<calls, queue, open, causes>>
    BY <1>10 DEF EndRun, Told, Reported
  <2> QED BY <2>1 DEF PlanKept
<1> QED BY <1>1, <1>2, <1>3, <1>4, <1>5, <1>6, <1>7, <1>8, <1>9, <1>10 DEF PlanNext


-----------------------------------------------------------------------------
(* No change is asked of two steps.                                        *)

\* Every step keeps the work ahead apart and open.
LEMMA ApartStep ==
  ASSUME PlanTyped, PlanTyped', PlanApart, PlanNext
  PROVE  PlanApart'
<1> DEFINE Once(cs) == cs \cap {"asked_twice", "same_intent"} = {}
<1>0. WorkOf(<<>>) = {} /\ Ahead(<<>>) = <<>> /\ Apart(<<>>) /\ Drained(Fresh(<<>>))
      /\ Remaining(Fresh(<<>>)) = <<>>
  BY NothingLeft
<1>1. CASE TakeResponse
  <2>1. PICK t \in Turns, offered \in BOOLEAN :
          /\ queue' = Frozen(queue, t)
          /\ card' = SyncedCard(queue')
          /\ calls' = t.calls
          /\ open' = (open \ (Reported \cup (IF t.plan = <<>> THEN {}
                                             ELSE WorkOf(Remaining(queue)))))
                     \cup WorkOf(Entries(t))
          /\ causes' = causes \cup CausesOf(t)
                       \cup (IF t.calls = <<>> /\ ~Drained(queue') /\ ~offered
                             THEN {"answered"} ELSE {})
    BY <1>1 DEF TakeResponse
  <2>2. t \in [calls : Seq(Steps), plan : Seq(Steps)]
    BY EditPlanAssumption DEF EditPlanAssumption
  <2>3. card'.status = "halted" => Drained(queue')
    BY <2>1, CardTypes DEF PlanTyped
  <2>4. ASSUME Once(causes')
        PROVE  /\ again' = {}
               /\ Apart(Ahead(calls')) /\ Apart(Remaining(queue'))
               /\ WorkOf(Ahead(calls')) \cap WorkOf(Remaining(queue')) = {}
               /\ WorkOf(Ahead(calls')) \cup WorkOf(Remaining(queue')) \subseteq open'
    <3>1. Once(causes) /\ Once(CausesOf(t))
      BY <2>1, <2>4
    <3>2. /\ again = {} /\ Apart(Remaining(queue)) /\ WorkOf(Remaining(queue)) \subseteq open
      BY <3>1 DEF PlanApart
    <3>3. again' = {}
      BY <1>1, <3>2 DEF TakeResponse
    <3>4. /\ Apart(Ahead(calls')) /\ Apart(Remaining(queue'))
          /\ WorkOf(Ahead(calls')) \cap WorkOf(Remaining(queue')) = {}
          /\ WorkOf(Ahead(calls')) \subseteq WorkOf(Entries(t))
          /\ \/ WorkOf(Remaining(queue')) \subseteq WorkOf(Entries(t))
             \/ ~Drained(queue) /\ t.plan = <<>> /\ Remaining(queue') = Remaining(queue)
      BY <2>1, <2>2, <3>1, <3>2, TurnApart
    <3>5. WorkOf(Entries(t)) \subseteq open'
      BY <2>1
    <3>6. CASE ~Drained(queue) /\ t.plan = <<>> /\ Remaining(queue') = Remaining(queue)
      <4>1. Reported = {}
        BY <3>6 DEF PlanApart, Reported
      <4>2. WorkOf(Remaining(queue')) \subseteq open'
        BY <2>1, <3>2, <3>6, <4>1
      <4> QED BY <3>3, <3>4, <3>5, <4>2
    <3> QED BY <3>3, <3>4, <3>5, <3>6
  <2> QED BY <2>3, <2>4 DEF PlanApart
<1>2. CASE ReachMaxTurns
  BY <1>2 DEF PlanApart, ReachMaxTurns
<1>3. CASE RefuseCall
  <2>1. /\ UNCHANGED <<queue, card, again, causes>>
        /\ open' = open \ ToSet(FirstStep(Head(calls)).work)
        /\ calls' = Tail(calls) /\ calls # <<>>
    BY <1>3 DEF RefuseCall
  <2>2. /\ WorkOf(Ahead(calls)) = ToSet(FirstStep(Head(calls)).work) \cup WorkOf(Ahead(calls'))
        /\ Apart(Ahead(calls)) =>
             /\ Apart(Ahead(calls'))
             /\ ToSet(FirstStep(Head(calls)).work) \cap WorkOf(Ahead(calls')) = {}
    BY <2>1, NextCall
  <2> QED BY <2>1, <2>2 DEF PlanApart
<1>4. CASE CallSucceeds
  <2>1. /\ UNCHANGED queue
        /\ causes \subseteq causes'
        /\ open' = open \ ToSet(FirstStep(Head(calls)).work)
        /\ again' = again \cup (ToSet(FirstStep(Head(calls)).work) \ open)
        /\ calls' = Tail(calls) /\ calls # <<>>
    BY <1>4 DEF CallSucceeds, Ran
  <2>2. /\ WorkOf(Ahead(calls)) = ToSet(FirstStep(Head(calls)).work) \cup WorkOf(Ahead(calls'))
        /\ Apart(Ahead(calls)) =>
             /\ Apart(Ahead(calls'))
             /\ ToSet(FirstStep(Head(calls)).work) \cap WorkOf(Ahead(calls')) = {}
    BY <2>1, NextCall
  <2>3. card'.status # "halted"
    <3>1. QueueCard(queue, TRUE).status # "halted"
      BY CardTypes DEF PlanTyped
    <3> QED BY <1>4, <3>1 DEF CallSucceeds
  <2>4. Once(causes') => Once(causes)
    BY <2>1
  <2> QED BY <2>1, <2>2, <2>3, <2>4 DEF PlanApart
<1>5. CASE CallFails
  <2>1. /\ queue' = Fresh(<<>>)
        /\ causes \subseteq causes'
        /\ open' = open \ ToSet(FirstStep(Head(calls)).work)
        /\ again' = again
        /\ calls' = Tail(calls) /\ calls # <<>>
    BY <1>5 DEF CallFails
  <2>2. /\ WorkOf(Ahead(calls)) = ToSet(FirstStep(Head(calls)).work) \cup WorkOf(Ahead(calls'))
        /\ Apart(Ahead(calls)) =>
             /\ Apart(Ahead(calls'))
             /\ ToSet(FirstStep(Head(calls)).work) \cap WorkOf(Ahead(calls')) = {}
    BY <2>1, NextCall
  <2>3. Once(causes') => Once(causes)
    BY <2>1
  <2> QED BY <1>0, <2>1, <2>2, <2>3 DEF PlanApart
<1>6. CASE EndCalls
  BY <1>6 DEF PlanApart, EndCalls
<1>7. CASE DrainStep
  <2>1. /\ stage = "drain" /\ ~Drained(queue) /\ queue' = [queue EXCEPT !.cursor = @ + 1]
        /\ open' = open \ ToSet(Current.work)
        /\ again' = again \cup (ToSet(Current.work) \ open)
        /\ card' = QueueCard(queue', TRUE) /\ UNCHANGED <<calls, causes>>
    BY <1>7 DEF DrainStep, Ran
  <2>2. calls = <<>>
    BY <2>1 DEF PlanTyped
  <2>3. Remaining(queue) \in Seq(Steps) /\ Remaining(queue) # <<>>
        /\ Current = Head(Remaining(queue)) /\ Remaining(queue') = Tail(Remaining(queue))
    BY <2>1, CurrentStep
  <2>4. /\ WorkOf(Remaining(queue)) = ToSet(Current.work) \cup WorkOf(Remaining(queue'))
        /\ Apart(Remaining(queue)) =>
             /\ Apart(Remaining(queue'))
             /\ ToSet(Current.work) \cap WorkOf(Remaining(queue')) = {}
    BY <2>3, WorkOfTail
  <2>5. card'.status # "halted"
    BY <2>1, CardTypes DEF PlanTyped
  <2> QED BY <1>0, <2>1, <2>2, <2>4, <2>5 DEF PlanApart
<1>8. CASE DrainFails
  <2>1. /\ stage = "drain" /\ queue' = Fresh(<<>>) /\ UNCHANGED <<calls, open, again>>
        /\ causes \subseteq causes'
    BY <1>8 DEF DrainFails
  <2>2. calls = <<>>
    BY <2>1 DEF PlanTyped
  <2>3. Once(causes') => Once(causes)
    BY <2>1
  <2> QED BY <1>0, <2>1, <2>2, <2>3 DEF PlanApart
<1>9. CASE EndDrain
  BY <1>9 DEF PlanApart, EndDrain
<1>10. CASE EndRun
  BY <1>10 DEF PlanApart, EndRun
<1> QED BY <1>1, <1>2, <1>3, <1>4, <1>5, <1>6, <1>7, <1>8, <1>9, <1>10 DEF PlanNext

-----------------------------------------------------------------------------

\* The inductive invariant: types; open work is ahead of the calls, in the frozen
\* plan or told; and what is ahead is open and asked of one step only.
THEOREM PlanInvariant == PlanSpec => []PlanInv
<1>1. PlanInit => PlanInv
  <2> SUFFICES ASSUME PlanInit
               PROVE  PlanInv
    OBVIOUS
  <2>1. /\ Fresh(<<>>) \in [steps : Seq(Steps), cursor : Nat]
        /\ Fresh(<<>>).cursor <= Len(Fresh(<<>>).steps)
        /\ Drained(Fresh(<<>>)) /\ Remaining(Fresh(<<>>)) = <<>>
        /\ WorkOf(<<>>) = {} /\ Apart(<<>>) /\ Ahead(<<>>) = <<>>
    BY NothingLeft
  <2>2. MaxTurns \in Nat
    BY EditPlanAssumption DEF EditPlanAssumption
  <2>3. PlanTyped
    BY <2>1, <2>2 DEF PlanInit, NoCard, PlanTyped
  <2>4. PlanKept
    BY DEF PlanInit, PlanKept
  <2>5. PlanApart
    BY <2>1 DEF PlanInit, PlanApart
  <2> QED BY <2>3, <2>4, <2>5 DEF PlanInv
<1>2. PlanInv /\ [PlanNext]_planVars => PlanInv'
  <2> SUFFICES ASSUME PlanInv, [PlanNext]_planVars
               PROVE  PlanInv'
    OBVIOUS
  <2>1. CASE PlanNext
    BY <2>1, TypesKept, KeptStep, ApartStep DEF PlanInv
  <2>2. CASE UNCHANGED planVars
    <3>1. PlanTyped'
      BY <2>2 DEF PlanInv, planVars, PlanTyped
    <3>2. PlanKept'
      BY <2>2 DEF PlanInv, planVars, PlanKept, Told, Reported
    <3>3. PlanApart'
      BY <2>2 DEF PlanInv, planVars, PlanApart
    <3> QED BY <3>1, <3>2, <3>3 DEF PlanInv
  <2> QED BY <2>1, <2>2
<1> QED BY <1>1, <1>2, PTL DEF PlanSpec

\* The plan's cursor stays within the plan, and what is open, done again or on the
\* card is work the Core asked for.
THEOREM PlanTypeCorrect == PlanSpec => []EditPlanTypeOK
<1>1. PlanInv => EditPlanTypeOK
  BY DEF PlanInv, PlanTyped, EditPlanTypeOK
<1> QED BY <1>1, PlanInvariant, PTL

\* Whatever the calls, plans, splits, refusals and failures, work the Core asked for
\* and that was not done is in the frozen plan or on the card, unless one of the
\* nine causes dropped it.
THEOREM NoWorkIsLost == PlanSpec => []WorkKept
<1>1. PlanInv => WorkKept
  <2> SUFFICES ASSUME PlanInv
               PROVE  WorkKept
    OBVIOUS
  <2>1. WorkOf(<<>>) = {} /\ Ahead(<<>>) = <<>> /\ (Drained(queue) => Remaining(queue) = <<>>)
    <3>1. queue.steps \in Seq(Steps) /\ queue.cursor \in 0 .. Len(queue.steps)
      BY DEF PlanInv, PlanTyped
    <3> QED BY <3>1, NothingLeft, RemainingNext
  <2>2. ASSUME stage = "core", causes \subseteq {"asked_twice"}
        PROVE  open \subseteq WorkOf(Remaining(queue)) \cup Reported
    BY <2>1, <2>2 DEF PlanInv, PlanTyped, PlanKept, Told
  <2>3. ASSUME stage = "answered", causes \subseteq {"asked_twice"}
        PROVE  open \subseteq Reported
    BY <2>1, <2>3 DEF PlanInv, PlanTyped, PlanKept, Told
  <2> QED BY <2>2, <2>3 DEF WorkKept
<1> QED BY <1>1, PlanInvariant, PTL

\* No change runs twice for one request: a step that ran as a call is not drained,
\* and a split call does not meet its own steps again.
THEOREM NothingRunsAgain == PlanSpec => []NothingDoneAgain
<1>1. PlanInv => NothingDoneAgain
  BY DEF PlanInv, PlanApart, NothingDoneAgain
<1> QED BY <1>1, PlanInvariant, PTL
=============================================================================
