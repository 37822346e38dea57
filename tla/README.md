# Verification of the Harness-Mitchi agent

TLA+ models of the state-assembled coding agent in `src/src/`: the reducer that
owns a run, the gate that decides which tools the model may call, the loop that
executes tool calls and edit plans, the code it keeps in context, the searches it
makes, the conversation it sends, and everything an edit goes through from the
call of `decision_edit` to the commit or the roll back. TLC checks the models on
small instances; TLAPS proves the invariants of most of them for all values of
their constants.

Paths are relative to the root of the repository. `PROJECT.json` maps each
definition to the lines it models.

## 1. The system

A user types a request in the REPL. `StateAssembledAgentLoop.run` starts a run,
and `queryLoop` repeats steps until the run is terminal: it projects the evidence
manifest onto the code in context, allocates the tools of the step, folds the
conversation, asks the Core model, and processes the tool calls of the response.
Retrieval tools read the repo map and the disk and bring code into context.
`decision_edit` asks a second model for a patch and applies it in a transaction. A
response may also freeze an *edit plan*, whose steps the loop executes without
asking the Core again.

| component | state it keeps | operations | talks to | hard behaviour |
|---|---|---|---|---|
| run-state reducer `agent/run_state.py` | one `RunState`: phase, waiting, step, ledger, references, manifest, retry budget, validation, result | `start_run`, eleven events of `reduce_run_state` | called by the loop only | any order of events; end of the run; one budget charged by two branches |
| evidence manifest `agent/manifest.py`, `agent/wiring.py` | items MISSING / SATISFIED / STALE with their lines | `project_manifest`, `reconcile_observations`, `compute_sufficiency` | reducer, gate | lines that edits move, nested symbols, stale items |
| tool gate `hooks/reallocate_tools.py`, `hooks/tool_gate.py`, `hooks/retrieval_convergence.py`, `hooks/tool_scorer.py` | none, a function of the run | `determine_allowed_tools`, ranking, card | loop | thresholds, fallbacks to a default set, three outputs that must agree |
| agent loop `agent/state_assembled_loop.py` | calls to process, plan queue and card, checklist, anchors, approval request | `run`, `queryLoop`, `_process_tool_calls`, `_drain_edit_queue`, `resolve_approval` | reducer, gate, tools, user | order of the calls of one response, refused approvals, a plan halted half way |
| edit plan `agent/edit_plan.py`, `agent/edit_brief.py` | queue, card | `sync_edit_queue_from_core_turn`, splitting of calls, halt | loop | agreement with the calls of the same response |
| context `agent/context_compress.py`, `hooks/preflight/fact_locking.py` | working set, durable anchors, locators, dates | ingest, dedupe, demote, invalidate, lock | loop, manifest | two stores of the same code under different rules |
| conversation `agent/turn_summary.py`, `agent/types.py`, `llm/dsml.py` | messages, summaries, boundary | append, fold, slice, calls found in text | loop, LLM client | folds that cut rounds, results matched by place |
| permissions `config/permissions.py`, `cli/permissions.py` | remembered decisions | `check`, `record_decision`, `request_approval` | loop, user | an answer that may never come |
| edit preparation `agent/edit_materialize.py`, `agent/decision.py`, `hooks/preflight/context_window.py` | none | context pack, SITEs to SEARCH/REPLACE | edit transaction | spans, windows that are cut, repeated lines |
| edit transaction `tools/assembled/decision_edit.py`, `agent/executor.py`, `agent/harness_context.py`, `agent/patch_applier.py`, `agent/edit_errors.py` | target file, `<file>.checkpoint`, attempt counter | `execute`, `execute_transaction`, `__aenter__`, `apply_patch`, `commit`, `rollback`, `cleanup` | loop, threads, validator | retries, cancellation, two edits of one file |
| validator `agent/validator.py` | none | layered checks, fusion of verdicts | transaction | which verdicts may commit |
| LLM client `llm/client.py` | stage of a stream, its clocks | `chat_stream` | loop, edit | three deadlines, a stream that says nothing |
| repo map service `indexer/repo_map_service.py`, `indexer/symbol_cache.py` | map, dirty paths, build state, lock, worker thread | `start_background_build`, `wait_until_ready`, `mark_dirty`, `refresh_if_dirty` | session, retrieval | unlocked fields shared by two threads |
| retrieval tools `tools/assembled/*`, `indexer/repo_map.py`, `indexer/graph*.py` | the map a call reads, history of greps | `codebase_retrieve`, `grep_search`, suggested views | repo map service, loop | a map replaced between two reads, limits that cut what matters |
| checkpoint store, prompts, server stubs, memory, skills, the earlier `harness/` library | - | - | - | text and I/O, or unreachable |

`PROJECT.json` lists every component with its status, and under `hazards` the
places that are hard to test, with the properties that cover them.

### What makes each component correct

- *reducer*: a run ends once, with a result; the retry budget ends it; evidence
  never outlives its artifact; an edit run succeeds only on a validation of its
  last edit; STALE is cleared by a new observation only.
- *gate and loop*: an edit request changes nothing before its evidence sufficed;
  after a refusal or a failed edit no other edit of the round or request runs; what
  the manifest calls SATISFIED is the current code; ranking and card tell the model
  to use tools it has; every request ends.
- *edit plan*: work the Core asked for is done, queued, or reported as not done, and
  nothing is done twice.
- *context*: the code in the prompt is the code on disk, for files whose writes the
  loop is told of; a view is refused only when
  the prompt shows the code.
- *manifest*: SATISFIED items lie where the item says and are held; what may not be
  viewed again counts; readiness is not lost by an edit, a roll back or a projection.
- *edit*: it commits one patch or leaves no trace, through failures, retries and
  cancellation; every attempt starts from the same files; what is committed can be
  parsed and keeps what it did not mean to change; it ends.
- *repo map*: the map is missing only while it is built; a map that is not dirty
  holds each visible path as new as its last mark, and the calls of every path that was
  not marked; every call returns.
- *retrieval*: an empty answer means that nothing is there; what the query names
  survives every cut; what is suggested exists.
- *conversation*: a request is well formed; summaries tell what came of each call;
  text with a call in it is never the answer.

## 2. The modules

| module | models | extends or instantiates |
|---|---|---|
| `RunState` | the reducer and the manifest operators; alone, any event in any state | - |
| `ToolGate` | `determine_allowed_tools` and the modes it is built from | `RunState` |
| `ToolAdvice` | the ranking of the tools and the card | `ToolGate` |
| `AgentLoop` | the loop, composed with reducer, gate and advice | `ToolAdvice` |
| `FileContents`, `AtomicEdit` | contents of a file; abstract: an edit commits one patch or changes nothing | `AtomicEdit`: `FileContents` |
| `EditTransaction` | executions of `decision_edit` on one file; refines `AtomicEdit` | `FileContents`, instance of `AtomicEdit` |
| `SourceText` | lines, their spans, the definitions they open | - |
| `EditPatch` | SITEs and blocks: from an answer to a patch, from a patch to a text | `SourceText` |
| `EditContext` | the context pack: focus, spans, windows and their cuts | `SourceText` |
| `PatchCheck` | the validator's syntax check, symbol protection, fusion, error class | `EditPatch` |
| `ModelStream` | a streamed answer with its deadlines | - |
| `EditTurn` | one call of `decision_edit` on real texts | `EditContext`, `PatchCheck`, `ModelStream` |
| `EditPlan` | the work behind calls, plan and card | `Selections` |
| `ContextStore` | working set, anchors, locators beside the files | `Selections` |
| `EvidenceManifest` | manifest items with lines, nested symbols, sufficiency | `Selections` |
| `RepoMapService` | the service with its threads, lock, dirty set and cache | - |
| `SymbolIndex`, `Project` | what two scans make of files that change; the project beside the index | `Project`: `SymbolIndex` |
| `Retrieval`, `GrepSearch`, `SearchTools` | one call of `codebase_retrieve`, one of `grep_search`, both beside a changing map | `Project`, `Selections`; `SearchTools` both |
| `TextCalls`, `Conversation` | calls written as text; the messages of a run | `TextCalls`: `Selections`; `Conversation`: `TextCalls` |
| `Selections` | what of a list is kept, as recursive functions | - |
| `FiniteInduction` | induction over `0 .. N`, the unfolding of recursive functions, what a selection keeps, as lemmas | `Selections` |
| `AgentLoopProofs`, `EditProofs`, `EditTurnProofs`, `ContextStoreProofs`, `EvidenceManifestProofs`, `SessionProofs`, `SearchProofs` | theorems | the module they name; `AgentLoopProofs` holds those of `RunState` too, `EditProofs` those of `EditTransaction` and `EditPlan`, `SessionProofs` those of `Conversation` and `RepoMapService`, `SearchProofs` those of `SearchTools` with `Project`, `Retrieval` and `GrepSearch`; the proofs about recursive functions use `FiniteInduction` |
| `MC*` | instances for TLC | the module they name |

### RunState, ToolGate, ToolAdvice, AgentLoop

`rs` is the frozen dataclass `RunState`. Each event kind is an operator on run
states (`EvidenceStored`, `EditApplied`, `ValidationFailed`, ...), so the reducer
can be checked alone (`Next`: any event, any state) and applied several times
within one step of `AgentLoop`. Artifacts, files and slots are constants; an
artifact is a slice with a file, manifest items are their status per artifact.
Round counters are capped at `CounterCap`, which is not below the largest threshold
the gate compares them with.

`AllowedTools` follows `determine_allowed_tools` branch by branch: recovery after a
failed patch or validation, verification after an edit, a burst of edits, evidence
that suffices or not, saturation by rounds without gain, and diagnosis. `ToolAdvice`
adds what the model is told beside the tools: `Preferred`, the ranking, and `Card`,
the lines of `execution_card`. The manifest layer of the scorer contributes nothing
in a running loop and is left out.

`pc` is where the loop is: at the start of a step, waiting for the Core, between
calls, waiting for approval, in an edit, draining the plan, at the end of the round,
done. A tool call is one action with every event the loop dispatches for it; only an
edit has a step in between, the wait for approval. The loop is a generator: while it
waits it is suspended between two events, and its consumer answers. In the REPL that
is the user (`Approve`, `Deny`; Ctrl-C at the prompt is a denial), who may never
answer; headless nobody answers and `ApprovalTimeout` ends the wait after 300
seconds. A denial is remembered for the session, and drained steps ask nobody. What
the Core answers (`Turns`), what tools return and what the user says are
nondeterministic. An edit names one file and writes any file whose code the Edit model
is shown (`Windows`): the loop invalidates and marks the file that is named. `anchors`
says for each slice whether the context holds its code, and whether the file was written
since; `seen.missed` is the slices whose file was written without their item being marked.

### EditTransaction

One target file. Its content is the set of patches in it, `NoFile` when it does not
exist; `Patched` adds a patch. `pc[e]` is where the task of execution `e` is and
`thread[e]` the thread it waits for: `asyncio.to_thread` goes on when its task is
cancelled, so the two are separate. `Enter` / `Copy` are `__init__` and
`__aenter__`, `Read` / `Write` the two halves of `apply_patch`, `Validate` the
verdict, `Cleanup` and `Rollback` the two branches of `__aexit__`, `Retry` the
decision of `execute` whether to try again. `Interrupt` is the first Ctrl-C (the
loop's coroutine is cancelled while it waits for progress; the tool's task is not)
and `Quit` the end of the session. `disturbed` is a history variable: it is
set when edits overlap, when a cancelled task leaves a thread running, or when a
roll back fails on the disk.

### EditTurn

One execution, with texts that are sequences of lines and answers that are SITEs or
SEARCH/REPLACE blocks. `Call` is the preflight and the making of the context pack:
the focus symbols that exist, the spans of the call, their merging, the windows and
the cuts by budget. `Wait`, `Receive` and `StreamFails` are the events of the
stream, `Answer` makes a patch of the answer, `Enter`, `Apply`, `Validate` and
`Rollback` are the transaction, `Retry` the next attempt. `UserSaves` is the user's
editor, once in a call. `patch.meant` and `patch.plain` say what the answer asked
for and whether it can be said without doubt; `patch.outside` is the definitions
outside of the SITE of a patch with one SITE.

### EditPlan

`Work` is the single changes the Core asks for; a call or an item of a plan stands
for a sequence of them, and `PartKey` gives the file and intent of the step that a split
makes of one. `Expanded` splits a call, `Frozen` makes the queue of a
response, `SyncedCard`, `QueueCard` and `HaltCard` the card. The history variable
`open` is the work that was asked for and is neither done nor reported as not done;
`causes` collects the nine ways in which the code drops work or asks for it twice.

### ContextStore and EvidenceManifest

`ContextStore` has the durable anchors `code` with the step of each load, the
working set `raw` from which the prompt is made, and the locators, beside the files
and the lines the repo map has of them. `Retrieve` holds every call of a batch
against the lock and reads at once; `StoreResult` stores one result.
`EvidenceManifest` has the items of the manifest with the lines at which they were
loaded; an edit replaces the layout of a file, which moves and resizes symbols.
`Ready` is `compute_sufficiency`. In both, `EditLands` and `DrainLands` take the file
that the call names, which the loop invalidates or marks, and the one that is written,
which may be any. History variables remember the files written under another name:
`outdated` (also those of drained steps and of the user) and `strayed`.

### RepoMapService, Project, SymbolIndex, Retrieval, GrepSearch, SearchTools

`RepoMapService` has the worker thread and the client threads as processes, each at
a place `at`; the lock is not reentrant. What an index holds of a path is the version it
was read at and whether the references of its calls are there: a full index has them, an
incremental one does not. `Stripped` is what `lstrip("./")` makes of a path, which for
one in a hidden directory is the name of another; `floor` and `marked` remember what was
asked for. `SymbolIndex` says what an index holds after two scans of files that may
change in between: entries, references and the graph over them. `Retrieval` is a
call of `codebase_retrieve` with its three reads of the map, and of files under their
stripped names, `GrepSearch` a call of
`grep_search`, from the fact lock to the views it suggests.

### Conversation

`history` is `messages_history`; messages are records of what matters of them: the
calls, the id a result answers, how it ended by its own words, and whether the text, of
the model or of a tool, quotes the mark of a boundary. `Shaped` folds, `AfterBoundary`
and `Shown` are what a request carries. `TextCalls` takes calls out of the text of a
response.

## 3. Runs

| run | checks | instance |
|---|---|---|
| `run_state` | `TypeOK`, `RunEnds`, `EvidenceAnchored`, `SuccessMeansValidated`, `StaleSurvives` | one slot, one slice, one file, budget 2, one step; states up to four counters no event reads (`MCView`) |
| `agent_loop` | `LoopTypeOK`, `NothingAfterStop`, `FirstEditGrounded`, `FreshUnlessMissed`, `AdviceFits`, `RequestEnds` | two files with a slice each and a grep hit, edits that write the file they name or the other, plans of two steps, three steps a request, budget 2, one tolerated bad response; 915,330 states |
| `edit_interrupted` | `EditTypeOK`, `RejectedIsUndone`, `ImplementsAtomicEdit`, `EditEnds` | two executions, two attempts each; 84,387 states |
| `edit_turn` | `EditTurnTypeOK`, `AttemptsStartClean`, `CommitKeepsCode`, `EditedAsMeantWhenPlain`, `CallAdvances` | files of up to five lines, 7 calls, about 110 answers, two attempts, deadlines of 2, 3 and 2, three events of the stream; 176,704 states |
| `edit_plan` | `EditPlanTypeOK`, `WorkKept`, `NothingDoneAgain` | four changes, two responses, splits of up to three, one step with the intent of its call, a card of one further step; 278,399 states |
| `context_store` | `ContextTypeOK`, `BodiesCurrent`, `LockedIsShown` | three slices in two files, two texts, working set of two, batches of two, two steps, one write; 1,613,119 states |
| `evidence_manifest` | `ManifestTypeOK`, `SatisfiedIsCurrent`, `LockedIsCounted`, `ReadyUntilGap` | three files of several layouts, five calls, four items; 1,862,430 states |
| `repo_map` | `RepoTypeOK`, `FreshUnlessRaced`, `CallsReturn` | a visible path and a hidden one, the worker and one client, two versions, threshold 2; 566,659 states |
| `retrieval` | `SearchTypeOK`, `EmptyIsTrue`, `SlotsDefended`, `AnswerLeads` | seven symbols in four files of which one changes, two builds, one call of `codebase_retrieve` or two of `grep_search`; 125,281 states |
| `conversation` | `SentWellFormed`, `SummariesTrue`, `AnswerIsProse` | four requests, plans of one step, one mishap (a result that says blocked or failed, or a message that quotes a boundary), three bad responses; 1,878,064 states |

*Why these bounds.* Three steps let a request retrieve, edit, fail, and edit again;
two files let an edit of one leave the other alone and let a response edit both; a
budget of 2 makes its last unit different from its first; plans of two steps can
halt after the first. Counters that only feed thresholds are capped above the
thresholds. Two executions overlap in every way two can, and two attempts make the
last attempt differ from the first. Limits of the code (32 items, 8 symbols, 6 lines
of a card, windows and their budgets, candidates) are scaled down so that each of
them is hit. Four requests are what a history needs to be folded twice.
`SearchTools` follows one tool per behaviour, publishes maps only between greps, and
stops changes of the project after the last call. `AdviceFits` also holds with four
steps (7,435,604 states, checked once without `RequestEnds`).

Deadlock is checked in the runs of the reducer, the loop, the repo map and the edit
turn. The others rest when their bounds are used up or every execution has ended, and
their configurations say so.

### Violations

Each of these runs checks one sentence of the repository that the code does not
keep; the findings in `PROJECT.json` quote it.

| run | property | what happens |
|---|---|---|
| `edit_overlap` | `RolledBackWhenReported` | Ctrl-C leaves an edit running; the next edit of the file uses the same checkpoint, and its roll back finds none |
| `orphan_results` | `ResultsFollowCalls` | a drained plan step leaves a tool message that no assistant message called, and the next request carries it |

Other disagreements of code and text are not runs of their own: the properties name
them as exceptions, and section 5 lists them.

### Fairness

`AgentLoop`: weak fairness of `LoopStep`, the steps the event loop takes by itself.
asyncio runs every ready coroutine; LLM calls have timeouts and end as a response or
as `LoseResponse`. Nothing is assumed of the user of the REPL: `RequestEnds` says
that a request ends or stands at a question to that user. `EditTransaction`: weak
fairness of the steps of each execution: its task is run, its model calls and
validations have deadlines, and its threads copy or write one file. `Begin`,
`Interrupt`, `Quit` and failing roll backs are under no fairness. `RepoMapService`:
weak fairness of the steps of each thread, which the operating system schedules.
`EditTurn` needs none: `CallAdvances` says that every step lowers a measure, and the
run finds no deadlock in a call. The other modules state safety only.

## 4. Proofs

TLAPS checks every theorem below from the definitions and the named assumptions
about the constants, to the last leaf.

**Induction** (`FiniteInduction`). The library states induction with operators as
parameters, which the provers cannot instantiate. `PrefixInduction` states it for a
*set*: a set that holds 0 and with each number below `n` the next one contains
`0 .. n`. `RecursionExists` and `RecursionUnfolds` say that a definition by recursion
over `0 .. n`, whose step is given as a *function*, has a value and that this value
obeys the recursion (`Unfolds`). With them what a recursive function of the models
returns can be proved for every input; `OnlySelects` does so for the comprehensions
(`Only`), which `ContextStore`, `EvidenceManifest`, `TextCalls` and `Conversation` share.
Models that are proved about recurse over
`0 .. Len(seq)` for that reason.

**Reducer** (first part of `AgentLoopProofs`; assumes `RunStateAssumption`).
`RunInvariant: Spec => []Sound(rs)`, and from it `TypeCorrect`, `RunsEnd`,
`LedgerAnchored`, `ValidatedSuccess`; `StaleItemsSurvive` is an action property. The
properties are not inductive as they stand: `SuccessMeansValidated` needs that an
edit run is never `responding` and never suspended from it (`PhaseSound`), or a
granted permission could resume into an answer, and that a passed validation leaves
no failure item (`ResultSound`); `RunEnds` needs that no run is suspended from the
end. One lemma per event says that the event preserves `Sound` of any run state, so
that a specification that applies several events in one step can use them.

**Agent loop** (second part of `AgentLoopProofs`; assumes `AgentLoopAssumption` and
`RunStateAssumption`). `LoopInvariant: LoopSpec => []LoopInv` with `LoopInv == LoopSound
/\ StopInv /\ GroundInv /\ FreshInv`. `LoopSound` carries the reducer's invariant
through the loop's sequences of events, with what the loop knows beside it: the facts of
the round, the bad responses borne so far, and that an edit waits at the head of the
calls. `StopInv` is what `NothingAfterStop` needs: an edit runs only when it was
approved, and a refusal has ended the run before anything else can be approved.
`GroundInv` is what `FirstEditGrounded` needs: whatever makes the gate open
`decision_edit` - recovery after a failure, verification, a burst, the fallback to all
tools - is a mark of an earlier edit or of evidence that sufficed, so in an edit request
it comes after `seen.grounded`. `FreshInv` adds to `FreshUnlessMissed` that an outdated
anchor is STALE or was missed by the edit that wrote its file, which the projection
keeps. `LoopKeepsReducer` says that the composed system keeps the reducer's safety
properties; `LoopTypeCorrect`, `EditsAreGrounded`, `StopsAreFinal` and `ManifestIsFresh`
state the run's invariants.

**Context store** (`ContextStoreProofs`; assumes `ContextAssumption` and
`LayoutAssumption`). `ContextInvariant: Spec => []ContextInv`, with five parts. *Typed*:
each anchor has its date, no date is without an anchor, and what grounded it is
recorded, so that its file counts as active (`ContextTypeCorrect`). *Current*: all code
held or on its way in a batch is the code on disk at its lines, unless its file was
written without notice - by the user, a drained step or under another name - and not
invalidated since (`BodiesAreCurrent`). *Index*: the repo map is right about files never
written, which is what makes a fresh view current. *Batch*: a batch is read at once and
compared with the anchors once, but stored result by result; a result that repeated
nothing then must still repeat nothing when it is stored, and a hit it repeats must have
been stored. *Cover*: the working set holds every anchor that nothing pushed out. The
lock looks at the anchors and the prompt is made from the working set, so
`LockedCodeIsShown` needs Cover, and Cover needs Batch.

**Evidence manifest** (`EvidenceManifestProofs`; assumes `ManifestAssumption`).
`ManifestInvariant: Spec => []ManifestInv`, with five parts. *Typed*: no symbol has two
items, which `Reconciled` keeps load by load. *Standing*: an item that is not STALE and
not of a hurried file is in context and, unless its file was written under another name,
lies where the layout has its symbol, also while it is still MISSING; `SatisfiedCurrent`
alone is not inductive, because the projection makes SATISFIED what was MISSING.
*Unedited*: a file never written, under whatever name, has no STALE item, and its code
in context is its code on disk. *Counted*: a held symbol of such a file that stands
apart from others has its item. *Projected*: after a projection nothing in context is
MISSING. The last three and Standing give `LockedCodeIsCounted`. `ReadinessKept` is an
action property: no step but a projection of a hurried file takes an item out of what
counts (`StepKeepsItems`), and items that are kept suffice as before unless there is a
new gap (`KeptSuffices`). The attempt to prove it showed that `ReadyUntilGap` had been
too strong: TLC had found no counterexample because the instance has one file with
schemas, while with two a satisfied schema item becomes MISSING when the schema of the
other file that covered it is dropped (`manifest.py:597` compares no files). `Forgotten`
is that exception.

**Conversation** (`SessionProofs`; assumes `ConversationAssumption` and
`TextCallsAssumption`). `ConversationInvariant: Spec => []ConversationInv`. `Sound` says
of a history, its last mark, the calls still open and what the run knows: behind the mark
there is no other (*Unmarked*); each assistant message is followed by the results of its
calls, in order and with the outcome they had, and what is missing of them is what is
still open (*Rounds*); each result belongs to such a round, to a plan step, or to a round
that the mark cut, of which it stands directly behind the mark (*Origins*); and each call
is behind the mark or named by a summary (*Remembered*). One lemma for each way the
history grows: results of a batch or of one call (`AppendedSound`), a new assistant message
(`CallsSound`), a message of any kind that quotes the mark and so becomes the last one
(`QuotedSound`), a fold (`FoldedSound`). A fold cuts wherever the fourth message from the
end is. It keeps *Origins* because at that point no call is open: what it keeps of a cut
round are results only. The summary is a recursion over the folded messages;
`SummaryTells` proves, with *Rounds*, that its queue of pending calls is always the rest of
one round, so that a result taken by its place is the result of that call.
`RequestsWellFormed`, `SummariesAreTrue` and `AnswersAreProse` follow; the last from what
`CallSegments` and `Cleaned` leave of a text without calls (`SpokenIsProse`).

**Edit turn** (`EditTurnProofs`; assumes the named assumptions of `SourceText`,
`EditContext`, `ModelStream`, `EditTurn`). `EditTurnInvariant: Spec => []TurnInv` with
`TurnInv == TypedInv /\ ShownInv /\ DiskInv /\ KeepInv`.
`ShownInv`: every window of the pack is true of the file as the call found it, and
nothing the call names is left out without a mark. It rests on a chain of lemmas
about the pure algorithms: spans of a call are merged without losing a line, a window
that is cut says so, and a pack that grows keeps what it shows (`AppendedWindow`,
`AppendedAllShows`, `PackShows`). `DiskInv`: as long as the user does not save, only
the file of the patch differs from what it was, and the checkpoint is that. A roll
back restores the right text only because of the latter, so `AttemptsStartClean` is
not inductive alone. `KeepInv`: a patch of one SITE is one block whose SEARCH is a
cut of the file in which no definition outside of the SITE lies (`SiteBlockCut`); the
patch applier may find the same lines at another place, but what it replaces there
are the same lines, so every definition outside of the SITE stays (`OneBlockKeeps`).
`CommitKeepsCode` follows with the verdict of the syntax check. `CallsAdvance` proves
the measure of `CallAdvances`, one lemma for each action on the component it lowers.

**Edit transaction** (`EditProofs`; assumes `FileContentsAssumption` and
`EditTransactionAssumption`). `Sound == Typed /\ (~disturbed => Calm)`. `Calm` says
that at most one execution is alive, where its thread can be relative to its task,
what the checkpoint holds at each place, and which patches are in what can be
restored. The properties alone are not inductive: that a roll back restores the right
content depends on what the checkpoint was when the transaction was entered, hence on
the relation of checkpoint, file and `isNew` at every place in between.
`EditInvariant` proves it for any number of executions and attempts, with
interruptions, the end of the session and failing roll backs included;
`EditTypeCorrect`, `LoneEditsAtomic` and `RejectedUndone` follow. `EditsAtomic`
proves that executions implement `AtomicEdit` until they are disturbed: each step
maps to a commit, a failure or a stutter, with `content` mapped to what the file
will be if the open transaction is rolled back.

**Edit plan** (`EditProofs`; assumes `EditPlanAssumption`). `PlanInvariant: PlanSpec =>
[]PlanInv` with `PlanInv == PlanTyped /\ PlanKept /\ PlanApart`. `WorkKept` and
`NothingDoneAgain` speak of the end of a response and of single pieces of work; neither
is inductive. `PlanKept` says where open work is at every step: ahead of the calls that
are still to run - which is not the work of the calls, for a call that is split takes
only its first part - or in the rest of the plan, or told by the card of an earlier
response. `PlanApart` says that what is ahead and what is in the plan is open work, each
piece once, as long as nothing asked for a piece twice. The lemmas below it are about
the data: a split asks only for work of the call and no two of its parts share a piece
(`ExpandedSteps`, `AheadSteps`), what follows on from the first parts and the filter of
repeated work, which passes over the steps of split calls too, lose and double nothing
(`FollowonsWork`, `FollowonsApart`, `ResidualWork`, `ResidualApart`), by the unfolding
of `Only` and the origin of each member of `FlattenSeq` (`FlattenOrigins`).
`PlanTypeCorrect`, `NoWorkIsLost` and `NothingRunsAgain` follow.

**Repo map service** (`SessionProofs`; assumes `RepoMapAssumption`). The invariant
says where the lock may be held, that a missing map means a build that is under way or
failed, and, as long as no mark overlaps a refresh, that what the map or the cache lacks
- a version below the last mark, or the calls of a path that was not marked - is dirty
or about to be. `RepoTypeCorrect`, `MapMissingInBuild` and `MapFreshUnlessRaced` follow, for
any number of clients and paths.

**Search tools** (`SearchProofs`; assumes `SymbolIndexAssumption`, `ProjectAssumption`,
`RetrievalAssumption`, `GrepAssumption` and `LinesApart`: each line of a file is
modelled once). `SearchInvariant: Spec => []SearchInv` with `SearchInv == ProjectTyped
/\ RetrievalInv /\ GrepInv`. None of `EmptyIsTrue`, `SlotsDefended` and `AnswerLeads` is
inductive: they speak of the end of a call, and what they claim was read several steps
before, from files and a map that have changed since. `ProjectTyped` says that files
only get newer and that a published map was read from what was on disk by then.
`RetrievalInv` follows the candidates of a call: they are the best matches of the map it
looked them up in (*LookedUp*), and each of them is still to be read, or was read, or
lies in a deleted or a hidden file (*Accounted*). `GrepInv` does so for the runs of
ripgrep: a run that printed nothing saw each file of its scope without a hit at some
time since the call began (*RunsTrue*), hence the empty answer (*EmptyTrue*), the memory
of it (*PastTrue*) and the refusal of its repetition (*RepeatedTrue*) are true of some
version of each file. Most of the proof is about the algorithms between reading and
answering. The quotas of the reranker: each of its three passes only grows the list, and
the first one has the slots for views and for query logic before any file is capped
(`PassGrows`, `DefendsBoth`, `DefendsFiles`). The pipeline of `grep_search`: cuts and
filters keep a definition unless other definitions displace it (`RankTaken`,
`RankedLeads`, `EnrichedLeads`), and what a view names is the word that was searched
for, a mount, or a symbol that was declared (`ViewsGood`). `SearchTypeCorrect`,
`EmptyAnswersTrue`, `SlotsAreDefended` and `AnswersLead` follow. The proof changed the
property: `AnswerLeads` had promised the definition in every answer, but more
definitions than are shown can push out the one that is searched for, and a view of a
call site names the word that was searched for rather than a symbol of the file; both
are stated as exceptions now.

**Only model-checked.** `RequestEnds`, `EditEnds` and `CallsReturn` are liveness.
`AdviceFits` is a statement about the scores of all tools in all contexts, and
`EditedAsMeantWhenPlain` about the whole of the patch applier with its three ways of
matching: both would be a case analysis without an invariant behind it. Every other
property of the passing runs is proved.

## 5. What is abstracted or left out

*Everywhere.* Prompts, wording, rendering and tracing are left out; names, texts and
messages are model values or members of small sets. Verdicts of preflight checks,
validators and models are free choices where no module decides them.

*Exceptions that properties name, where the code does not do what a text says.*
- `EditedAsMeantWhenPlain` leaves out files with two lines alike: a SEARCH that occurs
  twice may be applied at the other place.
- `FreshUnlessMissed`, `BodiesCurrent`, `LockedIsShown`, `SatisfiedIsCurrent` and
  `LockedIsCounted` leave out what was held of a file that an edit wrote under another
  name: the loop invalidates and marks the `target_file` of the call
  (`state_assembled_loop.py:3968`, `:4065`), the patch goes to the file of the Edit
  model's decision (`decision_edit.py:1285`). They also leave out what a drained step
  leaves unmarked.
- `FreshUnlessRaced` leaves out hidden paths, whose marks name another file
  (`repo_map_service.py:166`), the calls of marked paths, which an incremental refresh
  loses (`symbol_cache.py:147`), and marks that overlap a refresh.
- `EmptyIsTrue` leaves out hidden directories: `_node` reads their symbols under another
  name (`ast_structure.py:67`).
- `SummariesTrue` leaves out runs in which a message, a result or the model's own text,
  quotes the mark of a boundary (`state_assembled_loop.py:148`, `:185`).
- `LockedIsCounted` leaves out nested symbols: a class viewed after one of its methods
  gets no item of its own, contrary to `manifest.py:724`.
- `LockedIsShown` leaves out files whose code other evidence pushed out: a search hit on
  a line of a viewed symbol takes its code out of the working set, contrary to
  `state_assembled_loop.py:1128`.
- `WorkKept` and `NothingDoneAgain` leave out the causes that `EditPlan` lists: what
  follows on from a split call replaces the unfinished plan, contrary to
  `edit_plan.py:595`, and a step of a kept plan that the Core calls itself runs twice,
  contrary to `edit_plan.py:579`. A call that is split and lists one symbol twice has it
  done twice: `edit_brief.py:214` takes the symbols as they come. A step of a split call
  with the intent of the call is taken for done, contrary to `edit_plan.py:608`.
- `ReadyUntilGap` leaves out `Forgotten` (section 4).
- An expansion recurses once per symbol of a chain of calls (`_find_sccs`,
  `graph_bridge.py:222`); a graph as deep as this repository's 2346 symbols ends the call
  at Python's limit. `ExpansionSurvives` states the opposite and no run checks it.

*Run and gate.* How long code stays verbatim is not in `AgentLoop` (`ContextStore` has
it), nor is the cancellation of the loop outside an edit. The card can announce
verification, or a draining plan, or "use view_symbol_code" while the gate offers
something else; these texts depend on scores beyond the bounds of the run and are
exceptions of `AdviceFits`. The default of the gate differs from
`docs/step_evidence_manifest.md:79`. Edits after the end of a run are still executed
(`state_assembled_loop.py:3783`), an edit rolled back after validation makes its items
STALE (`:4196`), and an answer may end a run as a success while steps are queued: the
models do the same.

*Edit.* `execute_batched_transaction` is not called. Missing target files, saves of the
user in the middle of one write, and the cap on content after the first are left out.
Calls are cut to eight symbols before the preflight; spans that are too small are widened
and their windows cut (`decision_edit.py:686`); a patch of several blocks loses the
protection of symbols (`validator.py:630`). Empty SEARCH blocks on an empty file apply in
block order in the model, in the order of Python's tuples in the code
(`patch_applier.py:145`). Of the validator, the SQL, schema and view checks, the project
stack and the running of tests are free verdicts. Nothing calls
`FileTracker.record_edit`, so the repo map is not told of the agent's own edits.

*Edit plan.* The tightening of windows, the intent of derived steps and the parsing of
the plan's text are left out.

*Context.* Priority of `edit_ready`, post-edit observations, the prompt of a finished
diagnosis, other preflights, grounding by hits, summaries and contracts are left out.
Age and budget never take anything, because every view grounds its file, contrary to the
head of `context_compress.py`. A view repeated after a drained step is replayed as the
old code.

*Manifest.* Characters are lines; the lines of the repo map are those of the disk; the
registry of required slots, which no running manifest uses, is left out. Marks of mounts
are never renewed, the header of an entry file is decided by its first long item, a load
after an edit is compared with old lines, and the limit of 32 items gives none up: the
model has these as the code does.

*Retrieval.* Every map of `Project` is a full index; what an incremental one lacks is in
`RepoMapService`. Parsing, ranks, embeddings, spans and summaries of views, include
globs and the order of files are left out or free; distances in weights and the order
among equal edges are the order of the index, and `StackLimit` stands for Python's
limit. One call is modelled at a time. Keywords the user types are not looked up
(`repo_map_lookup.py:33`), fallback concepts replace the words of the query, and an
expansion that waits longer than 2.25 s is dropped. Of grep: one searched file is given
no name by ripgrep, so matches of `path="main.py"` are counted and not shown; its
history ignores case and is not invalidated by edits; a failing pattern is silent when
another one finds something.

*Conversation.* Ids of calls found in text repeat from response to response and results
are matched by place; four summaries are shown; the first results of a round of five or
more are folded before they are seen; a message that quotes the boundary hides what is
before it; a summary tells what the words of a result say (`turn_summary.py:91`), and a
message that quotes the head of a summary is shown as one; a call that is cut off
becomes the answer (`dsml.py:225`). The request of a finished diagnosis carries no
history and is left out, and so is the rewriting of old message texts
(`microcompact_assistant_messages`, collapsed anchors).

*Not modelled.* 42,294 of the 51,116 lines of Python can be reached from `src.cli.app`.
The rest is of an earlier design and in part cannot be imported (it names `src.planner`
and `src.orchestrator`): `harness/subtask`, `harness/discovery`, `harness/edit`, most of
`harness/gates`, `executor`, `memory`, `agent/explore_guard.py` and its kin,
`indexer/store.py` and `indexer/incremental.py`, `server/session.py`,
`context/compression.py`. `skills` is imported and not called by the loop. The
checkpoint store is written beside the loop and not read by it; the server has stubs.

## 6. Plan

1. *Proofs.* `EditedAsMeantWhenPlain`, by the ways in which `FindMatch` finds a block;
   `AdviceFits`, tool by tool.
2. *Models.* Schema and SQL checks of the validator and the project stack as operators;
   permission rules and risk levels; cancellation of the loop composed with
   `EditTransaction`; the checkpoint store; searches over an incremental index;
   the context pack and the merging of evidence.
