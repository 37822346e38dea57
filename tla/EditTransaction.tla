-------------------------- MODULE EditTransaction --------------------------
(***************************************************************************)
(* Executions of decision_edit on one file: the attempts of                 *)
(* DecisionEditTool.execute, each a transaction of CursorExecutor inside a  *)
(* CursorHarnessContext, which copies the file to a checkpoint before the   *)
(* patch and moves the checkpoint back unless the validator commits.        *)
(*                                                                          *)
(* An execution is a task of the event loop; the copy, the patch and the    *)
(* roll back run in threads it waits for.  Ctrl-C cancels the request that  *)
(* waits for the task and not the task, so the user may start another edit  *)
(* while it runs; leaving the session cancels the task and not its thread.  *)
(*                                                                          *)
(* The file is replaced in one step (os.replace), and so are the checkpoint *)
(* and the file in a roll back (a rename in one directory).                 *)
(***************************************************************************)
EXTENDS FileContents

CONSTANT NoEdit

ASSUME EditTransactionAssumption == NoEdit \notin Edits

VARIABLES
  file,        \* content of the target file
  checkpoint,  \* content of <file>.checkpoint
  pc,          \* where the task of an edit is
  thread,      \* the thread its transaction waits for
  tries,       \* patch_attempt
  isNew,       \* is_new_file of its transaction
  read,        \* what its patch was planned against
  awaited,     \* the edit the running request waits for
  session,     \* the REPL: one Ctrl-C cancels the request, a second one ends it
  disturbed    \* history: edits overlapped, or a cancelled one kept a thread

vars == <<file, checkpoint, pc, thread, tries, isNew, read, awaited, session,
          disturbed>>

Ended == {"committed", "failed"}
InTransaction == {"apply", "validate", "rollback", "unwind"}
Alive(e) == pc[e] \notin Ended \cup {"idle"}

\* An earlier run may have left a checkpoint beside the file.
Init ==
  /\ file \in {NoFile, {}}
  /\ checkpoint \in {NoFile, file}
  /\ pc = [e \in Edits |-> "idle"]
  /\ thread = [e \in Edits |-> "none"]
  /\ tries = [e \in Edits |-> 0]
  /\ isNew = [e \in Edits |-> FALSE]
  /\ read = [e \in Edits |-> NoFile]
  /\ awaited = NoEdit
  /\ session = "open"
  /\ disturbed = FALSE

Goto(e, l) == pc' = [pc EXCEPT ![e] = l]
Run(e, t) == thread' = [thread EXCEPT ![e] = t]

-----------------------------------------------------------------------------
(* An execution: generate a patch, try it in a transaction, try again.     *)

Begin(e) ==
  /\ session # "closed"
  /\ awaited = NoEdit
  /\ pc[e] = "idle"
  /\ Goto(e, "generate")
  /\ tries' = [tries EXCEPT ![e] = 1]
  /\ awaited' = e
  /\ disturbed' = (disturbed \/ \E d \in Edits : Alive(d))
  /\ UNCHANGED <<file, checkpoint, thread, isNew, read, session>>

\* Mutation of GenerateAgain: one attempt too many.
GenerateOnceMore(e) ==
  /\ pc[e] = "generate"
  /\ tries[e] <= Attempts
  /\ tries' = [tries EXCEPT ![e] = @ + 1]
  /\ UNCHANGED <<file, checkpoint, pc, thread, isNew, read, awaited, session,
                 disturbed>>

\* An answer that cannot be parsed or made a patch, and is for Edit to retry.
GenerateAgain(e) ==
  /\ pc[e] = "generate"
  /\ tries[e] < Attempts
  /\ tries' = [tries EXCEPT ![e] = @ + 1]
  /\ UNCHANGED <<file, checkpoint, pc, thread, isNew, read, awaited, session,
                 disturbed>>

\* A timeout, an answer that is no edit, a failure that is for Core to retry.
GenerateFails(e) ==
  /\ pc[e] = "generate"
  /\ Goto(e, "failed")
  /\ UNCHANGED <<file, checkpoint, thread, tries, isNew, read, awaited,
                 session, disturbed>>

\* CursorHarnessContext.__init__ and __aenter__: only a file that exists is
\* copied.
Enter(e) ==
  /\ pc[e] = "generate"
  /\ isNew' = [isNew EXCEPT ![e] = (file = NoFile)]
  /\ IF file = NoFile
     THEN Goto(e, "apply") /\ Run(e, "read")
     ELSE Goto(e, "copy") /\ Run(e, "copy")
  /\ UNCHANGED <<file, checkpoint, tries, read, awaited, session, disturbed>>

\* copy2 raises when the file is gone, or the disk fails.  The thread of a
\* cancelled task copies all the same.
Copy(e) ==
  /\ thread[e] = "copy"
  /\ file # NoFile
  /\ checkpoint' = file
  /\ IF pc[e] = "copy"
     THEN Goto(e, "apply") /\ Run(e, "read")
     ELSE UNCHANGED pc /\ Run(e, "none")
  /\ UNCHANGED <<file, tries, isNew, read, awaited, session, disturbed>>

CopyFails(e) ==
  /\ thread[e] = "copy"
  /\ Run(e, "none")
  /\ Goto(e, "failed")
  /\ UNCHANGED <<file, checkpoint, tries, isNew, read, awaited, session,
                 disturbed>>

\* apply_patch reads the file and plans the new content ...
Read(e) ==
  /\ thread[e] = "read"
  /\ read' = [read EXCEPT ![e] = file]
  /\ Run(e, "write")
  /\ UNCHANGED <<file, checkpoint, pc, tries, isNew, awaited, session,
                 disturbed>>

\* ... and replaces the file by it.
Write(e) ==
  /\ thread[e] = "write"
  /\ file' = Patched(read[e], <<e, tries[e]>>)
  /\ Run(e, "none")
  /\ pc' = IF pc[e] = "apply" THEN [pc EXCEPT ![e] = "validate"] ELSE pc
  /\ UNCHANGED <<checkpoint, tries, isNew, read, awaited, session, disturbed>>

\* No match, no change, or an I/O error.
ApplyFails(e) ==
  /\ thread[e] \in {"read", "write"}
  /\ Run(e, "none")
  /\ pc' = IF pc[e] = "apply" THEN [pc EXCEPT ![e] = "rollback"] ELSE pc
  /\ UNCHANGED <<file, checkpoint, tries, isNew, read, awaited, session,
                 disturbed>>

\* The verdict: harness.commit(), or leave the context without it.
Validate(e) ==
  /\ pc[e] = "validate"
  /\ \E l \in {"cleanup", "rollback"} : Goto(e, l)
  /\ UNCHANGED <<file, checkpoint, thread, tries, isNew, read, awaited,
                 session, disturbed>>

\* A checkpoint that cannot be deleted stays, without an error.
Cleanup(e) ==
  /\ pc[e] = "cleanup"
  /\ checkpoint' \in {NoFile, checkpoint}
  /\ Goto(e, "committed")
  /\ UNCHANGED <<file, thread, tries, isNew, read, awaited, session,
                 disturbed>>

\* After a roll back an edit may have another attempt, a cancelled one not.
Retry(e) ==
  \/ /\ Goto(e, "failed")
     /\ UNCHANGED tries
  \/ /\ pc[e] = "rollback"
     /\ tries[e] < Attempts
     /\ Goto(e, "generate")
     /\ tries' = [tries EXCEPT ![e] = @ + 1]

\* Mutation of Rollback: the file a failed edit has created stays.
RollbackKeeping(e) ==
  /\ pc[e] \in {"rollback", "unwind"}
  /\ file' = IF checkpoint # NoFile THEN checkpoint ELSE file
  /\ checkpoint' = NoFile
  /\ Retry(e)
  /\ UNCHANGED <<thread, isNew, read, awaited, session, disturbed>>

\* Mutation of Rollback: the retry is not counted.
RollbackUncounted(e) ==
  /\ pc[e] \in {"rollback", "unwind"}
  /\ file' = IF checkpoint # NoFile THEN checkpoint
             ELSE IF isNew[e] THEN NoFile
             ELSE file
  /\ checkpoint' = NoFile
  /\ \E l \in {"generate", "failed"} : Goto(e, l)
  /\ UNCHANGED <<thread, tries, isNew, read, awaited, session, disturbed>>

\* Mutation of Rollback: only the last attempt of an edit is rolled back.
RollbackLast(e) ==
  /\ pc[e] \in {"rollback", "unwind"}
  /\ Retry(e)
  /\ IF pc'[e] = "generate"
     THEN UNCHANGED <<file, checkpoint>>
     ELSE /\ file' = IF checkpoint # NoFile THEN checkpoint
                     ELSE IF isNew[e] THEN NoFile
                     ELSE file
          /\ checkpoint' = NoFile
  /\ UNCHANGED <<thread, isNew, read, awaited, session, disturbed>>

\* CursorHarnessContext.rollback.
Rollback(e) ==
  /\ pc[e] \in {"rollback", "unwind"}
  /\ file' = IF checkpoint # NoFile THEN checkpoint
             ELSE IF isNew[e] THEN NoFile
             ELSE file
  /\ checkpoint' = NoFile
  /\ Retry(e)
  /\ UNCHANGED <<thread, isNew, read, awaited, session, disturbed>>

Return(e) ==
  /\ awaited = e
  /\ pc[e] \in Ended
  /\ awaited' = NoEdit
  /\ UNCHANGED <<file, checkpoint, pc, thread, tries, isNew, read, session,
                 disturbed>>

-----------------------------------------------------------------------------
(* The user interrupts.                                                    *)

\* The first Ctrl-C of the session, while the loop waits for the progress of
\* the tool: the loop's coroutine is cancelled, the task of the tool is not.
Interrupt ==
  /\ session = "open"
  /\ awaited # NoEdit
  /\ session' = "interrupted"
  /\ awaited' = NoEdit
  /\ UNCHANGED <<file, checkpoint, pc, thread, tries, isNew, read, disturbed>>

\* Where the cancellation of its task leaves an edit.
Cancelled(l) ==
  IF l \in {"generate", "copy"} THEN "failed"
  ELSE IF l \in {"apply", "validate", "rollback"} THEN "unwind"
  ELSE l

\* The session ends: asyncio.run cancels the tasks that still run and waits
\* for the threads.
Quit ==
  /\ session # "closed"
  /\ awaited = NoEdit \/ session = "interrupted"
  /\ session' = "closed"
  /\ awaited' = NoEdit
  /\ pc' = [e \in Edits |-> Cancelled(pc[e])]
  /\ disturbed' = (disturbed \/ \E e \in Edits : thread[e] # "none")
  /\ UNCHANGED <<file, checkpoint, thread, tries, isNew, read>>

\* A roll back that fails says nothing: the checkpoint stays.
RollbackFails(e) ==
  /\ pc[e] \in {"rollback", "unwind"}
  /\ disturbed' = TRUE
  /\ Retry(e)
  /\ UNCHANGED <<file, checkpoint, thread, isNew, read, awaited, session>>

-----------------------------------------------------------------------------

EditStep(e) ==
  \/ GenerateAgain(e)
  \/ GenerateFails(e)
  \/ Enter(e)
  \/ Copy(e)
  \/ CopyFails(e)
  \/ Read(e)
  \/ Write(e)
  \/ ApplyFails(e)
  \/ Validate(e)
  \/ Cleanup(e)
  \/ Rollback(e)
  \/ Return(e)

\* Without interruptions and disk faults.
SequentialNext == \E e \in Edits : Begin(e) \/ EditStep(e)

InterruptedNext == SequentialNext \/ Interrupt

Next == InterruptedNext \/ Quit \/ \E e \in Edits : RollbackFails(e)

\* The event loop runs every task, and each of the calls it waits for has a
\* deadline or is a thread that returns.
Fairness == \A e \in Edits : WF_vars(EditStep(e))

InterruptedSpec == Init /\ [][InterruptedNext]_vars
Spec == Init /\ [][Next]_vars /\ Fairness

-----------------------------------------------------------------------------
(* Properties.                                                             *)

\* Type invariant.  No edit tries more than Attempts patches.
EditTypeOK ==
  /\ file \in Contents
  /\ checkpoint \in Contents
  /\ pc \in [Edits -> {"idle", "generate", "copy", "cleanup"}
                        \cup InTransaction \cup Ended]
  /\ thread \in [Edits -> {"none", "copy", "read", "write"}]
  /\ tries \in [Edits -> 0 .. Attempts]
  /\ isNew \in [Edits -> BOOLEAN]
  /\ read \in [Edits -> Contents]
  /\ awaited \in Edits \cup {NoEdit}
  /\ session \in {"open", "interrupted", "closed"}
  /\ disturbed \in BOOLEAN

\* What the file will be if the open transaction is rolled back.
Durable ==
  IF \E e \in Edits : pc[e] \in InTransaction THEN checkpoint ELSE file

Outcome(e) ==
  IF pc[e] \in {"cleanup", "committed"} THEN "committed"
  ELSE IF pc[e] = "failed" THEN "failed"
  ELSE "open"

Outcomes == [e \in Edits |-> Outcome(e)]

Atomic == INSTANCE AtomicEdit WITH content <- Durable, outcome <- Outcomes

\* Until two edits overlap, a thread is left behind or a roll back fails, edits
\* implement AtomicEdit, interrupted and cancelled ones too: what can be restored
\* changes only when an edit commits, and then by one patch of it.
ImplementsAtomicEdit ==
  /\ Atomic!AtomicInit
  /\ [][disturbed' \/ Atomic!AtomicNext]_<<Durable, Outcomes>>

\* What can be restored holds patches of committed edits only ...
OnlyCommitted ==
  \A e \in Edits, n \in 1 .. Attempts :
    Durable # NoFile /\ <<e, n>> \in Durable => Outcome(e) = "committed"

\* ... and one of each.
EachCommitted ==
  \A e \in Edits : Outcome(e) = "committed" =>
    /\ Durable # NoFile
    /\ \E n \in 1 .. Attempts :
         /\ <<e, n>> \in Durable
         /\ \A m \in 1 .. Attempts : <<e, m>> \in Durable => m = n

\* As long as no two edits overlap, no thread is left behind and no roll back
\* fails, a rejected patch leaves no trace and a committed one is not lost.
LoneEditAtomic == ~disturbed => OnlyCommitted /\ EachCommitted

\* A patch the validator has not accepted is on disk only while a checkpoint,
\* or the knowledge that the file is new, can undo it.
RejectedIsUndone ==
  ~disturbed =>
    \A e \in Edits :
      pc[e] \in InTransaction \cup {"cleanup"} =>
        /\ isNew[e] <=> checkpoint = NoFile
        /\ \A n \in 1 .. Attempts :
             checkpoint # NoFile => <<e, n>> \notin checkpoint

\* Every execution ends, interrupted or not: attempts are bounded.
EditEnds == \A e \in Edits : pc[e] = "generate" ~> pc[e] \in Ended

\* Violated.  When the loop is told that an edit failed, none of the patches
\* the edit tried is in the file: not so when the edit overlapped one that
\* Ctrl-C left running, because both use one checkpoint.
RolledBackWhenReported ==
  \A e \in Edits :
    awaited = e /\ pc[e] = "failed" =>
      file = NoFile \/ \A n \in 1 .. Attempts : <<e, n>> \notin file
=============================================================================
