------------------------------ MODULE EditPatch ------------------------------
(***************************************************************************)
(* From the answer of the Edit model to the new text of a file.  An answer  *)
(* is a sequence of SITEs (where, and the new code) or of ready SEARCH and  *)
(* REPLACE blocks; materialize_edit_patch reads the file and makes a SITE a *)
(* block, CursorPatchApplier reads it again and replaces, for every block,  *)
(* the first lines that match its SEARCH.                                   *)
(***************************************************************************)
EXTENDS SourceText

CONSTANTS
  Separator,   \* the dividing line of a block
  NoLine,      \* an omitted ANCHOR
  PartOf,      \* pairs <<anchor, line>>: the anchor is a part of the line
  Likeness,    \* [Lines \X Lines -> 0 .. 100]: SequenceMatcher's ratio
  NearName,    \* [Symbols -> the name it may be a slip of, or NoSymbol]
  MaxBlocks    \* cursor_decision_max_patch_blocks

ASSUME EditPatchAssumption ==
  /\ Separator \in Lines /\ Defines[Separator] = NoSymbol
  /\ NoLine \notin Lines
  /\ MaxBlocks \in Nat \ {0}

Block(old, new) == [old |-> old, new |-> new]
Blocks(bs) == [error |-> "none", blocks |-> bs]
Refused(class) == [error |-> class, blocks |-> <<>>]

-----------------------------------------------------------------------------
(* CursorPatchApplier: SEARCH and REPLACE.                                 *)

Alike(text, old, i, form) ==
  \A k \in DOMAIN old : form[text[i + k - 1]] = form[old[k]]

Same == [l \in Lines |-> l]

\* The first line at which the code stands: literally, without its white
\* space, or with its escapes written out; 0 when it does not.  Only an empty
\* file matches an empty SEARCH.
FindMatch(text, old) ==
  LET At(form) == {i \in 1 .. Len(text) - Len(old) + 1 : Alike(text, old, i, form)}
  IN IF old = <<>> THEN IF text = <<>> THEN 1 ELSE 0
     ELSE IF At(Same) # {} THEN Min(At(Same))
     ELSE IF At(Squeeze) # {} THEN Min(At(Squeeze))
     ELSE IF At(Fold) # {} THEN Min(At(Fold))
     ELSE 0

\* Mutation of Spliced: one line too many is replaced.
SplicedFar(text, i, n, new) ==
  SubSeq(text, 1, i - 1) \o new \o SubSeq(text, i + n + 1, Len(text))

\* The text with n lines from i on replaced.
Spliced(text, i, n, new) ==
  SubSeq(text, 1, i - 1) \o new \o SubSeq(text, i + n, Len(text))

Text(lines) == [error |-> "none", text |-> lines]
NotApplied(class) == [error |-> class, text |-> <<>>]

\* Every SEARCH is located in the original text; the lines that match are
\* replaced from the last ones to the first.
PlanReverse(text, bs) ==
  LET start == [i \in DOMAIN bs |-> FindMatch(text, bs[i].old)]
      overlap == \E i, j \in DOMAIN bs :
                   /\ i < j
                   /\ start[i] < start[j] + Len(bs[j].old)
                   /\ start[j] < start[i] + Len(bs[i].old)
      order == Ordered(DOMAIN bs, LAMBDA i, j :
                 start[i] > start[j] \/ (start[i] = start[j] /\ i < j))
      done[n \in 0 .. Len(bs)] ==
        IF n = 0 THEN text
        ELSE Spliced(done[n - 1], start[order[n]], Len(bs[order[n]].old), bs[order[n]].new)
  IN IF \E i \in DOMAIN bs : start[i] = 0 \/ overlap THEN NotApplied("E2")
     ELSE Text(done[Len(bs)])

\* Every SEARCH is located in what the blocks before it have left.
PlanSequential(text, bs) ==
  LET left[n \in 0 .. Len(bs)] ==
        IF n = 0 THEN text
        ELSE Spliced(left[n - 1], FindMatch(left[n - 1], bs[n].old),
                     Len(bs[n].old), bs[n].new)
  IN IF \E n \in 1 .. Len(bs) : FindMatch(left[n - 1], bs[n].old) = 0
     THEN NotApplied("E2") ELSE Text(left[Len(bs)])

\* A block is written out and parsed again: its first separator divides it.
Reparsed(b) ==
  LET whole == b.old \o <<Separator>> \o b.new
      at == Min({i \in DOMAIN whole : whole[i] = Separator})
  IN Block(SubSeq(whole, 1, at - 1), SubSeq(whole, at + 1, Len(whole)))

\* apply_patch, up to the write.
ApplyPatch(text, bs, sequential) ==
  LET parsed == [i \in DOMAIN bs |-> Reparsed(bs[i])]
      plan == IF sequential THEN PlanSequential(text, parsed)
                            ELSE PlanReverse(text, parsed)
  IN IF \/ bs = <<>>
        \/ Len(bs) > MaxBlocks
        \/ \E i \in DOMAIN parsed : Separator \in Range(parsed[i].new)
     THEN NotApplied("E1")
     ELSE IF plan.error = "none" /\ plan.text = text THEN NotApplied("E1")
     ELSE plan

-----------------------------------------------------------------------------
(* materialize_edit_patch: from SITEs to blocks.                           *)

Deltas == {"after", "before", "swap"}

\* normalize_replace_body: a body that repeats the old code before a separator
\* loses it.
AfterEdit(body) ==
  IF Separator \in Range(body)
  THEN SubSeq(body, Min({i \in DOMAIN body : body[i] = Separator}) + 1, Len(body))
  ELSE body

\* sanitize_focus_symbols: what the file defines, once each; a name that is
\* almost one of its names is taken for it.
SanitizedFocus(text, focus) ==
  LET Known(s) == IF s \in ScannedSymbols(text) THEN s
                  ELSE IF NearName[s] \in ScannedSymbols(text) THEN NearName[s]
                  ELSE NoSymbol
  IN FoldLeft(LAMBDA kept, s : IF s = NoSymbol \/ s \in Range(kept) THEN kept
                               ELSE Append(kept, s),
              <<>>, [i \in DOMAIN focus |-> Known(focus[i])])

\* The symbol of the i-th SITE: its own, or one of the call.
SiteSymbol(site, i, focus) ==
  IF site.symbol # NoSymbol THEN site.symbol
  ELSE IF i <= Len(focus) THEN focus[i]
  ELSE IF Len(focus) = 1 THEN focus[1]
  ELSE NoSymbol

\* resolve_site_span: the SITE's lines, its symbol's, or a window's of the
\* call; a symbol that is not in the file is never taken for another.
SiteSpan(text, site, i, focus, windows) ==
  IF site.span # NoSpan THEN site.span
  ELSE IF SiteSymbol(site, i, focus) # NoSymbol
       THEN LocateSymbol(text, SiteSymbol(site, i, focus))
  ELSE IF windows = <<>> THEN NoSpan
  ELSE IF i <= Len(windows) THEN windows[i]
  ELSE windows[1]

InFile(text, span) == 1 <= span[1] /\ span[1] <= span[2] /\ span[2] <= Len(text)

\* _find_anchor_line_index: the lines an anchor may mean.
AnchorLines(code, anchor) ==
  LET exact == {i \in DOMAIN code : code[i] = anchor}
      stripped == {i \in DOMAIN code : Squeeze[code[i]] = Squeeze[anchor]}
      part == {i \in DOMAIN code : <<anchor, code[i]>> \in PartOf}
  IN IF exact # {} THEN exact ELSE IF stripped # {} THEN stripped ELSE part

\* apply_delta_in_span: a block whose SEARCH is the anchor's line alone.
DeltaBlock(code, mode, anchor, body) ==
  IF anchor = NoLine \/ body = <<>> THEN Refused("E1")
  ELSE LET at == AnchorLines(code, anchor)
           line == SubSeq(code, Min(at), Min(at))
       IN IF Cardinality(at) # 1 THEN Refused("E2")
          ELSE IF mode = "after" THEN Blocks(<<Block(line, line \o body)>>)
          ELSE IF mode = "before" THEN Blocks(<<Block(line, body \o line)>>)
          ELSE IF SameText(body, line) THEN Refused("E1")
          ELSE Blocks(<<Block(line, body)>>)

\* locate_surgical_hunk: a body shorter than the code it replaces is taken for
\* a changed part of it when exactly one part is most like it, and enough.
Hunks(code, body) ==
  LET n == Len(body)
      score == [i \in 1 .. Len(code) - n + 1 |->
                  FoldLeft(LAMBDA sum, k : sum + Likeness[<<code[i + k - 1], body[k]>>],
                           0, [k \in 1 .. n |-> k])]
      near == {i \in DOMAIN score :
                 /\ SubSeq(code, i, i + n - 1) # body
                 /\ score[i] >= n * (IF n = 1 THEN 72 ELSE 55)}
  IN IF n = 0 \/ n >= Len(code) THEN {}
     ELSE {i \in near : \A j \in near : score[j] <= score[i]}

\* A body that is to replace all of the code; none when nothing changes.
FullBlock(code, body) ==
  IF SameText(body, code) THEN Blocks(<<>>)
  ELSE LET hunks == Hunks(code, body)
       IN IF Cardinality(hunks) = 1
          THEN Blocks(<<Block(SubSeq(code, Min(hunks), Min(hunks) + Len(body) - 1), body)>>)
          ELSE Blocks(<<Block(code, body)>>)

\* Mutation of SiteBlock: an anchor without a mode is replaced.
SiteBlockSwapped(text, site, i, focus, windows) ==
  LET span == SiteSpan(text, site, i, focus, windows)
      code == Segment(text, span)
      body == AfterEdit(site.body)
  IN IF ~InFile(text, span) THEN Refused("E2")
     ELSE IF site.mode \in Deltas THEN DeltaBlock(code, site.mode, site.anchor, body)
     ELSE IF site.mode = "none" /\ site.anchor # NoLine
          THEN DeltaBlock(code, "swap", site.anchor, body)
     ELSE FullBlock(code, body)

\* One SITE.  An anchor without a mode means an insertion after it; a mode that
\* is not known means that the body replaces all of the SITE.
SiteBlock(text, site, i, focus, windows) ==
  LET span == SiteSpan(text, site, i, focus, windows)
      code == Segment(text, span)
      body == AfterEdit(site.body)
  IN IF ~InFile(text, span) THEN Refused("E2")
     ELSE IF site.mode \in Deltas THEN DeltaBlock(code, site.mode, site.anchor, body)
     ELSE IF site.mode = "none" /\ site.anchor # NoLine
          THEN DeltaBlock(code, "after", site.anchor, body)
     ELSE FullBlock(code, body)

\* All of them, or the error of the first that fails; SITEs that change nothing
\* are dropped, unless no other is left.
Materialized(text, sites, focus, windows) ==
  LET block == [i \in DOMAIN sites |-> SiteBlock(text, sites[i], i, focus, windows)]
      failed == {i \in DOMAIN sites : block[i].error # "none"}
      blocks == FlattenSeq([i \in DOMAIN sites |-> block[i].blocks])
  IN IF failed # {} THEN block[Min(failed)]
     ELSE IF blocks = <<>> THEN Refused("E1")
     ELSE Blocks(blocks)

-----------------------------------------------------------------------------
(* What the answer asks for, told without SEARCH and REPLACE.              *)

\* The lines a SITE changes and what shall stand there.
Change(text, site, i, focus, windows) ==
  LET span == SiteSpan(text, site, i, focus, windows)
      body == AfterEdit(site.body)
      at == {k \in span[1] .. span[2] :
               k - span[1] + 1 \in AnchorLines(Segment(text, span), site.anchor)}
  IN IF site.anchor = NoLine \/ at = {} THEN [from |-> span[1], to |-> span[2], new |-> body]
     ELSE [from |-> Min(at), to |-> Min(at),
           new |-> IF site.mode = "before" THEN body \o <<text[Min(at)]>>
                   ELSE IF site.mode = "swap" THEN body
                   ELSE <<text[Min(at)]>> \o body]

\* The text with every SITE's lines replaced by its new code.
Meant(text, sites, focus, windows) ==
  LET change == [i \in DOMAIN sites |-> Change(text, sites[i], i, focus, windows)]
      Written(n) ==
        IF \E i \in DOMAIN sites : change[i].from = n
        THEN change[CHOOSE i \in DOMAIN sites : change[i].from = n].new
        ELSE IF \E i \in DOMAIN sites : change[i].from < n /\ n <= change[i].to
        THEN <<>>
        ELSE <<text[n]>>
  IN FlattenSeq([n \in DOMAIN text |-> Written(n)])

\* Whether a SITE is one the tools take as it is: an anchor with a mode that is
\* known, or a body that is not shorter than the code it replaces and differs in
\* more than the indentation of its first line.
Whole(text, site, i, focus, windows) ==
  LET code == Segment(text, SiteSpan(text, site, i, focus, windows))
      body == AfterEdit(site.body)
  IN IF site.anchor # NoLine THEN site.mode \in Deltas \cup {"none"}
     ELSE /\ site.mode = "none"
          /\ body = <<>> \/ Len(body) >= Len(code)
          /\ SameText(body, code) => body = code
=============================================================================
