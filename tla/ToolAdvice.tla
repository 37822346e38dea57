----------------------------- MODULE ToolAdvice -----------------------------
(***************************************************************************)
(* What the Core model is told about the tools of a step, beside which it  *)
(* is offered: the ranking of src/src/hooks/tool_scorer.py and the lines   *)
(* of the STEP EVIDENCE card (execution_card of src/src/agent/manifest.py, *)
(* mechanical_rule_lines_for_turn of src/src/agent/edit_plan.py).  The     *)
(* gate decides on its own; scores and lines are computed beside it from   *)
(* the same run state.                                                     *)
(*                                                                         *)
(* A line of the card is its label.  A score is an integer: a logit in     *)
(* hundredths, times a ratio in percent where there is one, times the      *)
(* weight of its layer in tenths.                                          *)
(***************************************************************************)
EXTENDS ToolGate, Integers, FiniteSetsExt

-----------------------------------------------------------------------------
(* The ranking.  k is what the scorer is told of the step.                 *)

Logits(grep, view, edit, heavy) ==
  [t \in AllTools |->
     CASE t \in Grep -> grep [] t \in View -> view
       [] t \in Edit -> edit [] OTHER -> heavy]

NoLogits == Logits(0, 0, 0, 0)

When(condition, logits) == IF condition THEN logits ELSE NoLogits

Sum(layers) ==
  [t \in AllTools |-> FoldSet(LAMBDA i, n : n + layers[i][t], 0, DOMAIN layers)]

\* manifest_metrics of a manifest without core items, in percent.
NoCoreItems == [coverage |-> 0, missing |-> 0, stale |-> 0, critical |-> FALSE]

PhaseLayer(k) ==
  Sum(<<When(k.responding, Logits(30, 40, -30, -30)),
        When(k.mode = "diagnose", Logits(0, 0, -100, 20))>>)

\* STALE items call for a view only while the evidence does not suffice.
BoostForStale(k) == ~k.sufficient /\ k.metrics.stale > 0

Scaled(percent, logits) == [t \in AllTools |-> (percent * logits[t]) \div 100]

ManifestLayer(k) ==
  LET m == k.metrics IN
  Sum(<<Scaled(m.missing, Logits(90, 0, 0, IF k.bootstrap THEN 50 ELSE 20)),
        When(m.missing > 0, Logits(0, 0, -80, 0)),
        When(BoostForStale(k), Scaled(m.stale, Logits(10, 90, 0, 0))),
        When(k.wiring, Logits(30, 95, 0, 0)),
        When(m.coverage >= 95 /\ ~k.wiring /\ m.missing = 0,
             Logits(-50, -30, 90, -60)),
        When(m.critical, Logits(30, 0, -100, 0))>>)

RuntimeLayer(k) ==
  Sum(<<When(k.verifying, Logits(40, 95, 10, -50)),
        When(k.burst, Logits(-70, -80, 95, -90)),
        When(k.patchFailed, Logits(50, 50, 70, 0)),
        When(k.failures, Logits(30, 30, 60, 0)),
        When(k.noGain >= 2, Logits(-60, -80, 40, -70)),
        When(k.noGain = 1, Logits(10, -30, 0, 0)),
        When(k.viewDup, Logits(20, -90, 60, 0))>>)

AffordanceLayer(k) ==
  Sum(<<When(k.suggested, Logits(-30, 80, 0, 0)),
        When(k.pending, Logits(20, 90, 0, 0))>>)

Scores(k) ==
  [t \in AllTools |->
     10 * PhaseLayer(k)[t] + 12 * ManifestLayer(k)[t]
       + 15 * RuntimeLayer(k)[t] + 10 * AffordanceLayer(k)[t]]

\* The softmax grows with the score: the first of the ranking is a tool of the
\* highest score among those offered.
Preferred(k, offered) ==
  {t \in offered : \A u \in offered : Scores(k)[u] <= Scores(k)[t]}

-----------------------------------------------------------------------------
(* What the scorer is told.  pending: a grep found a mount in a file of    *)
(* which nothing is loaded.                                                *)

EditReady(s) == s.mode = "edit" /\ Sufficient(s)

\* Mutation of ScoringContext: both phases at once.
ScoringContextBoth(s, checklist, pending) ==
  [mode |-> s.mode, responding |-> s.phase = "responding",
   sufficient |-> EditReady(s), metrics |-> NoCoreItems, bootstrap |-> TRUE,
   wiring |-> FALSE, pending |-> pending,
   failures |-> s.failItems \/ s.validation = "failed",
   burst |-> EditBurst(s), verifying |-> Verifying(s, checklist),
   noGain |-> s.noGain, viewDup |-> s.viewDup, patchFailed |-> s.patchFailed,
   suggested |-> s.suggested]

\* _build_scoring_context: verification goes before the burst of edits.
ScoringContext(s, checklist, pending) ==
  [mode |-> s.mode, responding |-> s.phase = "responding",
   sufficient |-> EditReady(s), metrics |-> NoCoreItems, bootstrap |-> TRUE,
   wiring |-> FALSE, pending |-> pending,
   failures |-> s.failItems \/ s.validation = "failed",
   burst |-> EditBurst(s) /\ ~Verifying(s, checklist),
   verifying |-> Verifying(s, checklist),
   noGain |-> s.noGain, viewDup |-> s.viewDup, patchFailed |-> s.patchFailed,
   suggested |-> s.suggested]

-----------------------------------------------------------------------------
(* The card.  c is what execution_card is told: the run state, the tools,  *)
(* the status of the plan, whether the last grep left views (views), a     *)
(* mount among them that is not loaded (pending), the errors of the last   *)
(* grep and view, and whether the task names slots to look for (hints).    *)

\* The loop's own idea of a burst: edits validated, and no grep offered.
CardBurst(c) ==
  /\ c.s.files # {}
  /\ c.s.validation = "passed"
  /\ Edit \subseteq c.tools /\ Grep \cap c.tools = {}
  /\ ~c.s.patchFailed
  /\ ~Verifying(c.s, c.checklist)

Line(label, condition) == IF condition THEN {label} ELSE {}

\* Whether there is a target at all, and whether it carries an edit.
BootstrapLines(c) ==
  LET grounded == GroundedItems(c.s) # {} IN
  Line("bootstrap", ~grounded)
    \cup Line("bootstrap_gate", grounded /\ ~EditReady(c.s))
    \cup Line("grounded_observations", grounded)

\* Mounts that a grep found are advice, whatever tools are offered.
WiringLines(c) == Line("pending_wiring", c.pending)

InventoryLines(c) == Line("loaded", \E a \in Artifacts : c.s.items[a] = "satisfied")

\* stale_needing_refresh, and the failures to mend.
RepairLines(c) ==
  Line("stale", StaleItems(c.s) # {}) \cup Line("fix", c.s.failItems)

\* One of three: a burst goes before the recovery, the recovery before the
\* repetition of what is loaded.
PhaseLines(c) ==
  CASE CardBurst(c) -> {"edit_burst"}
    [] ~CardBurst(c) /\ c.s.patchFailed -> {"edit_recovery"}
    [] OTHER -> Line("retrieval_converged", c.s.viewDup /\ EditReady(c.s))

\* mechanical_rule_lines_for_turn: ask for a plan, leave the plan alone, or
\* mend it.
PlanLines(c) ==
  CASE EditReady(c.s) /\ c.plan \in {"empty", "complete"} /\ ~CardBurst(c) ->
         {"plan_contract"}
    [] CardBurst(c) \/ c.plan = "draining" -> {"plan_frozen"}
    [] ~CardBurst(c) /\ c.plan = "halted" -> {"plan_revise"}
    [] OTHER -> {}

\* Which tools to use, from the tools that are offered.
ToolLines(c) ==
  Line("retrieval_closed", EditReady(c.s) /\ c.tools = Edit)
    \cup Line("edit_ready", EditReady(c.s) /\ Edit \subseteq c.tools /\ c.tools # Edit)
    \cup Line("verification", Verifying(c.s, c.checklist))

\* How to repeat a search or a view that failed.
HintLines(c) ==
  LET searching == Grep \subseteq c.tools /\ ~EditReady(c.s) IN
  Line("discovery_hints", c.hints /\ searching)
    \cup Line("last_grep_error", c.grepError /\ searching)
    \cup Line("next_grep", c.grepError /\ c.hints /\ searching)
    \cup Line("next_view", c.viewError /\ View \subseteq c.tools)

\* What the last grep suggests to look at.
SuggestionLines(c) ==
  Line("suggested_views", c.views /\ c.tools \cap Primary # {})

Card(c) ==
  UNION {BootstrapLines(c), WiringLines(c), PhaseLines(c), PlanLines(c), ToolLines(c),
         InventoryLines(c), HintLines(c), SuggestionLines(c), RepairLines(c)}

\* The tools a line tells the Core to use, one of which it must have.
UrgedBy(line) ==
  CASE line \in {"edit_burst", "edit_recovery", "retrieval_converged",
                 "retrieval_closed", "edit_ready"} -> Edit
    [] line \in {"discovery_hints", "next_grep"} -> Grep
    [] line \in {"next_view", "suggested_views"} -> View
    [] line = "verification" -> Primary
    [] OTHER -> AllTools
=============================================================================
