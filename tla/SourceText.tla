----------------------------- MODULE SourceText -----------------------------
(***************************************************************************)
(* Source files as edits see them: a text is a sequence of lines, and a     *)
(* line is known by what the tools compare - its indentation, its text      *)
(* without white space, its text with escapes and glyphs made one, and the  *)
(* symbol it defines.  The files are Python files; there are no blank lines *)
(* and no decorators.                                                       *)
(***************************************************************************)
EXTENDS Integers, FiniteSets, Sequences, FiniteSetsExt, SequencesExt

CONSTANTS
  Lines,      \* the lines a file or a patch may have
  Squeeze,    \* [Lines -> the line without white space]
  Fold,       \* [Lines -> the line without white space, escapes written out]
  Depth,      \* [Lines -> its indentation]
  Defines,    \* [Lines -> the symbol a "def" or "class" line defines]
  Symbols,
  NoSymbol

\* A line is folded after it is squeezed.
ASSUME SourceTextAssumption ==
  /\ Depth \in [Lines -> Nat]
  /\ Defines \in [Lines -> Symbols \cup {NoSymbol}]
  /\ NoSymbol \notin Symbols
  /\ \A l, m \in Lines : Squeeze[l] = Squeeze[m] => Fold[l] = Fold[m]

NoSpan == <<0, 0>>

\* The members of a finite set, each once, in the order given.
Ordered(S, Precedes(_, _)) ==
  CHOOSE q \in [1 .. Cardinality(S) -> S] :
    Range(q) = S /\ \A i, j \in DOMAIN q : i < j => Precedes(q[i], q[j])

Segment(text, span) == SubSeq(text, span[1], span[2])

Opens(line) == Defines[line] # NoSymbol

\* What ast.parse accepts: a definition has a deeper body, and any other line
\* continues a block that is still open.
WellFormed(text) ==
  /\ text # <<>> => Depth[text[1]] = 0 /\ ~Opens(text[Len(text)])
  /\ \A i \in 2 .. Len(text) :
       IF Opens(text[i - 1])
       THEN Depth[text[i]] > Depth[text[i - 1]]
       ELSE \E j \in 1 .. i - 1 :
              /\ Depth[text[j]] = Depth[text[i]]
              /\ \A k \in j .. i - 1 : Depth[text[k]] >= Depth[text[i]]

\* The symbols of a fragment, none when it cannot be parsed.
SymbolsOf(text) ==
  IF WellFormed(text) THEN {Defines[l] : l \in Range(text)} \ {NoSymbol} ELSE {}

\* The names a scan of the lines finds, whether the file can be parsed or not.
ScannedSymbols(text) == {Defines[l] : l \in Range(text)} \ {NoSymbol}

\* A block ends before the next line that is not deeper.
BlockEnd(text, i) ==
  Min({j - 1 : j \in {k \in i + 1 .. Len(text) : Depth[text[k]] <= Depth[text[i]]}}
        \cup {Len(text)})

\* Where a symbol is: its outermost definition in a file that can be parsed,
\* and else the first line that looks like one.
LocateSymbol(text, symbol) ==
  LET found == {i \in DOMAIN text : Defines[text[i]] = symbol}
      outer == IF WellFormed(text)
               THEN {i \in found : \A j \in found : Depth[text[i]] <= Depth[text[j]]}
               ELSE found
  IN IF symbol = NoSymbol \/ found = {} THEN NoSpan
     ELSE <<Min(outer), BlockEnd(text, Min(outer))>>

\* _fingerprint: equal up to the indentation of the first line.
SameText(s, t) ==
  /\ Len(s) = Len(t)
  /\ \A i \in DOMAIN s : IF i = 1 THEN Squeeze[s[1]] = Squeeze[t[1]] ELSE s[i] = t[i]
=============================================================================
