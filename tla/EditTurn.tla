------------------------------ MODULE EditTurn ------------------------------
(***************************************************************************)
(* One call of decision_edit (DecisionEditTool.execute): the preflight      *)
(* checks, the context shown to the Edit model, its streamed answer, the    *)
(* patch made of it, the transaction that writes, validates and keeps or    *)
(* rolls it back, and the retries.  Nothing else edits, but the user may    *)
(* save another text of the target once while the call runs.                *)
(***************************************************************************)
EXTENDS EditContext, PatchCheck, ModelStream

CONSTANTS
  Files,
  Texts,      \* the texts a file may have at first
  UserTexts,  \* the texts the user may save
  Calls,      \* calls Core may make
  Answers,    \* answers of the Edit model that can be parsed
  MaxSpan,    \* MAX_CONTEXT_SPAN_LINES
  Attempts,   \* patch_retry_max + 1
  NoCall

\* Lines are numbered from 1; what a search found in a file is in it.
CallShape ==
  [file : Files, spans : Seq(Int \X Int), focus : Seq(Symbols),
   cached : Seq((Nat \ {0}) \X Nat), other : Files, otherSpans : Seq(Int \X Int)]

\* An answer has SITEs or, in the old form, blocks.
SiteShape ==
  [symbol : Symbols \cup {NoSymbol}, span : Nat \X Nat, mode : STRING,
   anchor : Lines \cup {NoLine}, body : Seq(Lines)]
AnswerShape ==
  {a \in [file : Files, sites : Seq(SiteShape),
          blocks : Seq([old : Seq(Lines), new : Seq(Lines)])] :
     a.sites = <<>> \/ a.blocks = <<>>}

ASSUME EditTurnAssumption ==
  /\ Texts \subseteq [Files -> Seq(Lines)]
  /\ UserTexts \subseteq Seq(Lines)
  /\ {MaxSpan, Attempts} \subseteq Nat \ {0}
  /\ NoCall \notin Calls
  /\ Calls \subseteq CallShape
  /\ Answers \subseteq AnswerShape

VARIABLES
  disk,        \* [Files -> text]
  sequential,  \* cursor_decision_sequential_patch
  phase,
  call,        \* arguments of the call
  pack,        \* context_pack
  tries,       \* patch_attempt
  patch,       \* the patch of this attempt
  saved,       \* the checkpoint of the file it edits
  error,       \* class of the last failure
  tests,       \* verdict of the tests on the committed patch
  before,      \* history: disk when the call began
  moved        \* history: the user has saved

rest == <<sequential, call, pack, before>>
vars == <<disk, sequential, phase, call, pack, tries, stream, patch, saved,
          error, tests, before, moved>>

NoPatch == <<>>
Ended == {"committed", "failed"}
Errors == {"none", "E1", "E2", "E3", "E6"}

Init ==
  /\ disk \in Texts
  /\ sequential \in BOOLEAN
  /\ phase = "idle"
  /\ call = NoCall
  /\ pack = <<>>
  /\ tries = 0
  /\ stream = NoStream
  /\ patch = NoPatch
  /\ saved = <<>>
  /\ error = "none"
  /\ tests = "SKIPPED"
  /\ before = disk
  /\ moved = FALSE

-----------------------------------------------------------------------------
(* The call.                                                               *)

SpanAdmitted(text, span) ==
  /\ 1 <= span[1] /\ span[1] <= span[2] /\ span[1] <= Len(text)
  /\ Smaller(span[2], Len(text)) - span[1] + 1 <= MaxSpan

\* inspect_edit_brief_spec: focus symbols the file does not define are dropped;
\* they must not be all, nor most.
FocusAdmitted(text, focus) ==
  LET kept == SanitizedFocus(text, focus)
      Known(s) == s \in ScannedSymbols(text)
      dropped == SelectSeq(focus, LAMBDA s : ~Known(s) /\ ~Known(NearName[s]))
      remapped == {s \in Range(focus) : ~Known(s) /\ Known(NearName[s])}
  IN ScannedSymbols(text) # {} =>
       /\ kept # <<>>
       /\ ~(Len(dropped) >= 2 /\ Len(kept) <= 1 /\ remapped = {})

\* The preflight checks on the arguments.
Admitted(c) ==
  /\ c.focus # <<>>
  /\ c.spans \o c.otherSpans # <<>>
  /\ \A s \in Range(c.spans) : SpanAdmitted(disk[c.file], s)
  /\ \A s \in Range(c.otherSpans) : SpanAdmitted(disk[c.other], s)
  /\ FocusAdmitted(disk[c.file], c.focus)

Call(c) ==
  /\ phase = "idle"
  /\ Admitted(c)
  /\ LET focus == SanitizedFocus(disk[c.file], c.focus)
     IN /\ call' = [c EXCEPT !.focus = focus]
        /\ pack' = ContextPack(c.file, disk[c.file], c.spans, focus, c.cached,
                               c.other, disk[c.other], c.otherSpans)
  /\ phase' = "generate"
  /\ tries' = 1
  /\ stream' = NewStream
  /\ before' = disk
  /\ UNCHANGED <<disk, sequential, patch, saved, error, tests, moved>>

\* Mutation of Retry: an answer that cannot be used is not counted.
RetryUncounted(class) ==
  /\ error' = class
  /\ patch' = NoPatch
  /\ IF class \in {"E1", "E2", "E3"} /\ tries < Attempts
     THEN phase' = "generate" /\ stream' = NewStream
          /\ tries' = IF phase = "generate" THEN tries ELSE tries + 1
     ELSE phase' = "failed" /\ UNCHANGED tries /\ stream' = NoStream

\* Mutation of Retry: one attempt too many.
RetryOnceMore(class) ==
  /\ error' = class
  /\ patch' = NoPatch
  /\ IF class \in {"E1", "E2", "E3"} /\ tries <= Attempts
     THEN phase' = "generate" /\ tries' = tries + 1 /\ stream' = NewStream
     ELSE phase' = "failed" /\ UNCHANGED tries /\ stream' = NoStream

\* Another attempt for Edit, or a failure for Core.
Retry(class) ==
  /\ error' = class
  /\ patch' = NoPatch
  /\ IF class \in {"E1", "E2", "E3"} /\ tries < Attempts
     THEN phase' = "generate" /\ tries' = tries + 1 /\ stream' = NewStream
     ELSE phase' = "failed" /\ UNCHANGED tries /\ stream' = NoStream

-----------------------------------------------------------------------------
(* _generate_patch and materialize_edit_patch.                             *)

Wait == phase = "generate" /\ Tick
        /\ UNCHANGED <<rest, disk, phase, tries, patch, saved, error, tests, moved>>

Receive ==
  /\ phase = "generate"
  /\ Connected \/ EmptyEvent \/ Reason \/ Content \/ ToolDelta \/ EndOfStream
  /\ UNCHANGED <<rest, disk, phase, tries, patch, saved, error, tests, moved>>

StreamFails ==
  /\ phase = "generate"
  /\ TimeOut \/ Break
  /\ UNCHANGED <<rest, disk, phase, tries, patch, saved, error, tests, moved>>

\* Neither a timeout nor an exception is tried again.
GenerateFails ==
  /\ phase = "generate"
  /\ stream.stage \in {"timeout", "broken"}
  /\ phase' = "failed"
  /\ UNCHANGED <<rest, disk, tries, stream, patch, saved, error, tests, moved>>

Windows(file) == IF file = call.file THEN call.spans ELSE call.otherSpans

\* Blocks of an old answer are taken as they are.
Prepared(a) ==
  IF a.blocks # <<>> THEN Blocks(a.blocks)
  ELSE Materialized(disk[a.file], a.sites, call.focus, Windows(a.file))

\* The patch, and what the answer asked for.
NewPatch(a) ==
  LET text == disk[a.file]
      focus == call.focus
      windows == Windows(a.file)
  IN [file |-> a.file,
      blocks |-> Prepared(a).blocks,
      written |-> <<>>,
      sites |-> Len(a.sites),
      outside |-> IF Len(a.sites) # 1 THEN {}
                  ELSE ScannedSymbols(text) \ ScannedSymbols(
                         Segment(text, SiteSpan(text, a.sites[1], 1, focus, windows))),
      meant |-> IF a.sites = <<>> THEN text ELSE Meant(text, a.sites, focus, windows),
      plain |-> /\ Cardinality(Range(text)) = Len(text)
                /\ \A i \in DOMAIN a.sites : Whole(text, a.sites[i], i, focus, windows)]

\* An answer that can be parsed and is about a file of the context.
Answer(a) ==
  /\ phase = "generate"
  /\ stream.stage = "done"
  /\ stream.said
  /\ a.file \in CandidateFiles(pack)
  /\ IF Prepared(a).error # "none" THEN Retry(Prepared(a).error)
     ELSE /\ phase' = "enter"
          /\ patch' = NewPatch(a)
          /\ stream' = NoStream
          /\ UNCHANGED <<tries, error>>
  /\ UNCHANGED <<rest, disk, saved, tests, moved>>

\* No answer, or one that cannot be parsed, is no edit or names another file.
BadAnswer ==
  /\ phase = "generate"
  /\ stream.stage = "done"
  /\ Retry("E1")
  /\ UNCHANGED <<rest, disk, saved, tests, moved>>

-----------------------------------------------------------------------------
(* execute_transaction.                                                    *)

Enter ==
  /\ phase = "enter"
  /\ saved' = disk[patch.file]
  /\ phase' = "apply"
  /\ UNCHANGED <<rest, disk, tries, stream, patch, error, tests, moved>>

Apply ==
  /\ phase = "apply"
  /\ LET new == ApplyPatch(disk[patch.file], patch.blocks, sequential)
     IN IF new.error # "none"
        THEN phase' = "rollback" /\ error' = new.error /\ UNCHANGED <<disk, patch>>
        ELSE /\ disk' = [disk EXCEPT ![patch.file] = new.text]
             /\ patch' = [patch EXCEPT !.written = new.text]
             /\ phase' = "validate"
             /\ UNCHANGED error
  /\ UNCHANGED <<rest, tries, stream, saved, tests, moved>>

\* The validator sees the patch and the text that was written.
Validate(schema, verdict) ==
  /\ phase = "validate"
  /\ LET ast == AstPasses([i \in DOMAIN patch.blocks |-> Reparsed(patch.blocks[i])],
                          patch.written)
     IN IF Commits(ast, schema, verdict)
        THEN phase' = "committed" /\ tests' = verdict /\ UNCHANGED error
        ELSE phase' = "rollback" /\ error' = RejectClass(ast) /\ UNCHANGED tests
  /\ UNCHANGED <<rest, disk, tries, stream, patch, saved, moved>>

\* Mutation of Rollback: the file is not restored.
RollbackForgets ==
  /\ phase = "rollback"
  /\ Retry(error)
  /\ UNCHANGED <<rest, disk, saved, tests, moved>>

\* __aexit__ without a commit, and the decision to try again.
Rollback ==
  /\ phase = "rollback"
  /\ disk' = [disk EXCEPT ![patch.file] = saved]
  /\ Retry(error)
  /\ UNCHANGED <<rest, saved, tests, moved>>

-----------------------------------------------------------------------------

\* The user saves the target in an editor; nothing is locked.
UserSaves(text) ==
  /\ phase \notin Ended \cup {"idle"}
  /\ ~moved
  /\ disk' = [disk EXCEPT ![call.file] = text]
  /\ moved' = TRUE
  /\ UNCHANGED <<rest, phase, tries, stream, patch, saved, error, tests>>

Finished == phase \in Ended /\ UNCHANGED vars

Next ==
  \/ \E c \in Calls : Call(c)
  \/ Wait \/ Receive \/ StreamFails \/ GenerateFails
  \/ \E a \in Answers : Answer(a)
  \/ BadAnswer
  \/ Enter \/ Apply \/ Rollback
  \/ \E schema \in BOOLEAN, verdict \in TestVerdicts : Validate(schema, verdict)
  \/ \E text \in UserTexts : UserSaves(text)
  \/ Finished

Spec == Init /\ [][Next]_vars

-----------------------------------------------------------------------------
(* Properties.                                                             *)

\* The model must answer: the first content comes within the timeout for the
\* connection or, when the model reasons, the longer one for reasoning, whatever
\* the provider sends before.
FirstContentDeadline ==
  /\ stream.stage \in {"connect", "first"} => stream.elapsed <= ConnectTimeout
  /\ stream.stage = "reason" => stream.elapsed <= ReasonLimit

\* Types, and the clocks of the stream.
EditTurnTypeOK ==
  /\ DOMAIN disk = Files
  /\ sequential \in BOOLEAN
  /\ phase \in {"idle", "generate", "enter", "apply", "validate", "rollback"} \cup Ended
  /\ tries \in 0 .. Attempts
  /\ stream \in Streams
  /\ error \in Errors
  /\ tests \in TestVerdicts
  /\ moved \in BOOLEAN
  /\ patch = NoPatch <=> phase \in {"idle", "generate", "failed"}
  /\ stream.stage = "off" => phase # "generate"
  /\ FirstContentDeadline

\* The lines a call names in its target are all shown, unless a window is cut or
\* there is no room for another one.
NothingHidden ==
  \A s \in Range(call.spans) :
    \A n \in s[1] .. Smaller(s[2], Len(before[call.file])) :
      \/ \E w \in Range(pack) :
           /\ w.file = call.file
           /\ (w.from <= n /\ n < w.from + Len(w.shown)) \/ Marker \in Range(w.shown)
      \/ ~HasRoom(pack)

\* Every attempt, the first and the ones after a failure, starts from the files
\* as the call found them, and the model is shown these files, no others, and
\* all that the call names of them.
AttemptsStartClean ==
  /\ phase \in {"generate", "failed"} /\ ~moved =>
       /\ disk = before
       /\ \A w \in Range(pack) : Truthful(w, disk[w.file])
  /\ phase # "idle" => NothingHidden

\* What is committed can be parsed, and an edit of one SITE keeps every
\* definition outside of that SITE.
CommitKeepsCode ==
  phase = "committed" /\ ~moved =>
    /\ WellFormed(disk[patch.file])
    /\ patch.outside \subseteq ScannedSymbols(disk[patch.file])

\* When no two lines of the file are alike and the answer says exactly what it
\* replaces, the commit is what the answer asked for.
EditedAsMeantWhenPlain ==
  phase = "committed" /\ ~moved /\ patch.sites > 0 /\ patch.plain
    /\ (sequential => patch.sites = 1) =>
      disk[patch.file] = patch.meant

PhaseRank ==
  [p \in {"idle", "generate", "enter", "apply", "validate", "rollback"} \cup Ended |->
     CASE p = "idle" -> 6 [] p = "generate" -> 5 [] p = "enter" -> 4 [] p = "apply" -> 3
       [] p = "validate" -> 2 [] p = "rollback" -> 1 [] OTHER -> 0]

\* What is left of a call: the user's one save, attempts, phases of the attempt,
\* stages of the stream, its events, and the time until its next one.
Remaining ==
  <<IF moved THEN 0 ELSE 1, Attempts - tries, PhaseRank[phase], StageRank,
    MaxEvents - stream.events, TimeLeft>>

\* Every step leaves less of a call than there was, and less than nothing is never
\* left.  As a call that has not ended can always go on, it ends.
CallAdvances ==
  [][/\ \A i \in DOMAIN Remaining : Remaining'[i] >= 0
     /\ \E i \in DOMAIN Remaining :
          /\ Remaining'[i] < Remaining[i]
          /\ \A j \in 1 .. i - 1 : Remaining'[j] = Remaining[j]]_vars
=============================================================================
