---------------------------- MODULE EditContext ----------------------------
(***************************************************************************)
(* What the Edit model is shown: _build_context_pack of decision_edit makes *)
(* windows of the lines the call names, of the symbols it is about and of   *)
(* the search cache, under a budget.  Files are sequences of lines, sizes   *)
(* are counted in lines instead of characters.                              *)
(***************************************************************************)
EXTENDS SourceText

CONSTANTS
  Marker,       \* the line that tells that a window was cut
  Gap,          \* _SPAN_MERGE_GAP
  MaxWindows,   \* cursor_max_context_files, 3 at most
  WindowLines,  \* cursor_context_chars_per_file
  TotalLines,   \* the same for all windows
  MinRoom,      \* the least room worth a window (200 characters)
  MinFocus,     \* MIN_FOCUS_CONTEXT_LINES
  Pad,          \* lines shown after a symbol (8)
  Lead,         \* lines shown before it (2)
  FocusLines    \* the least window of a symbol, its first line included

ASSUME EditContextAssumption ==
  /\ Marker \notin Lines
  /\ {Gap, MinFocus, Pad, Lead} \subseteq Nat
  /\ {MaxWindows, WindowLines, TotalLines, MinRoom, FocusLines} \subseteq Nat \ {0}
  /\ WindowLines <= TotalLines

-----------------------------------------------------------------------------
(* Spans of one file.                                                      *)

Larger(x, y) == IF x >= y THEN x ELSE y
Smaller(x, y) == IF x <= y THEN x ELSE y

Before(s, t) == s[1] < t[1] \/ (s[1] = t[1] /\ s[2] < t[2])

\* Mutation of MergeSpans: the last span of a run gives its end.
MergeSpansShort(spans) ==
  LET order == Ordered(spans, Before)
      merged[n \in 0 .. Len(order)] ==
        IF n = 0 THEN <<>>
        ELSE LET runs == merged[n - 1]
             IN IF runs # <<>> /\ order[n][1] <= Last(runs)[2] + Gap + 1
                THEN Append(Front(runs), <<Last(runs)[1], order[n][2]>>)
                ELSE Append(runs, order[n])
  IN merged[Len(order)]

\* merge_context_spans: in order of the file, spans that overlap or are Gap
\* lines apart are one.
MergeSpans(spans) ==
  LET order == Ordered(spans, Before)
      merged[n \in 0 .. Len(order)] ==
        IF n = 0 THEN <<>>
        ELSE LET runs == merged[n - 1]
             IN IF runs # <<>> /\ order[n][1] <= Last(runs)[2] + Gap + 1
                THEN Append(Front(runs),
                            <<Last(runs)[1], Larger(Last(runs)[2], order[n][2])>>)
                ELSE Append(runs, order[n])
  IN merged[Len(order)]

\* _spans_from_focus_symbols: the first three symbols and some lines around them.
FocusSpans(text, focus) ==
  LET Around(at) == <<Larger(1, at[1] - Lead),
                      Smaller(Len(text), Larger(at[1] + FocusLines - 1, at[2] + Pad))>>
      located == {LocateSymbol(text, focus[i]) : i \in DOMAIN focus \cap 1 .. 3}
  IN MergeSpans({Around(at) : at \in located \ {NoSpan}})

Meets(s, t) == (s[1] <= t[1] /\ t[1] <= s[2]) \/ (t[1] <= s[1] /\ s[1] <= t[2])

\* A span of the call that is too small to edit in is widened to the first
\* symbol it meets - to the first of all when it meets none.
Widened(text, span, focusSpans) ==
  LET met == {i \in DOMAIN focusSpans : Meets(span, focusSpans[i])}
      best == focusSpans[IF met = {} THEN 1 ELSE Min(met)]
  IN IF span[2] - span[1] + 1 >= MinFocus THEN span
     ELSE <<Smaller(span[1], best[1]),
            Smaller(Len(text), Larger(span[2], best[2] + Pad))>>

\* The spans of the target: those of the call, or of its symbols, or of what
\* was found earlier.
TargetSpans(text, spans, focus, cached) ==
  LET focusSpans == FocusSpans(text, focus)
      called == MergeSpans(Range(spans))
  IN IF called # <<>>
     THEN IF focusSpans = <<>> THEN called
          ELSE MergeSpans({Widened(text, s, focusSpans) : s \in Range(called)})
     ELSE IF focusSpans # <<>> THEN focusSpans
     ELSE MergeSpans(Range(cached))

-----------------------------------------------------------------------------
(* Windows.                                                                *)

Window(file, from, shown) == [file |-> file, from |-> from, shown |-> shown]

Shown(pack) ==
  LET lines[n \in 0 .. Len(pack)] ==
        IF n = 0 THEN 0 ELSE lines[n - 1] + Len(pack[n].shown)
  IN lines[Len(pack)]

Room(pack) == Smaller(WindowLines, TotalLines - Shown(pack))

HasRoom(pack) == Len(pack) < MaxWindows /\ Room(pack) >= MinRoom

\* _append_window: the lines of the span that are in the file and within the
\* budget; the first window that finds no room is the last that is tried.
Appended(pack, file, text, span) ==
  LET lines == Segment(text, <<span[1], Smaller(Len(text), span[2])>>)
  IN IF ~HasRoom(pack) THEN pack
     ELSE Append(pack, Window(file, span[1],
                   IF Len(lines) <= Room(pack) THEN lines
                   ELSE Append(SubSeq(lines, 1, Room(pack)), Marker)))

AppendedAll(pack, file, text, spans) ==
  LET filled[n \in 0 .. Len(spans)] ==
        IF n = 0 THEN pack ELSE Appended(filled[n - 1], file, text, spans[n])
  IN filled[Len(spans)]

\* _build_context_pack: the target first - its head when nothing is known about
\* it -, then the other file of the call.
ContextPack(target, text, spans, focus, cached, other, otherText, otherSpans) ==
  LET inTarget == TargetSpans(text, spans, focus, cached)
      first == IF inTarget # <<>> THEN AppendedAll(<<>>, target, text, inTarget)
               ELSE Appended(<<>>, target, text, <<1, WindowLines>>)
  IN AppendedAll(first, other, otherText, MergeSpans(Range(otherSpans)))

\* The files the answer may be about.
CandidateFiles(pack) == {w.file : w \in Range(pack)}

-----------------------------------------------------------------------------

\* The lines of a window are the lines of its file that its line numbers name.
Truthful(w, text) ==
  \A i \in DOMAIN w.shown :
    w.shown[i] # Marker =>
      w.from + i - 1 \in DOMAIN text /\ text[w.from + i - 1] = w.shown[i]
=============================================================================
