----------------------------- MODULE PatchCheck -----------------------------
(***************************************************************************)
(* PatchValidator: what decides whether a patch that was written stays.     *)
(* The syntax check is a function of the patch and the new text; the SQL    *)
(* check of the schema and the test run depend on more than the file, and   *)
(* are free verdicts.  The judgement of the model is advice.                *)
(***************************************************************************)
EXTENDS EditPatch

\* Verdicts of the project's tests.
TestVerdicts == {"PASS", "FAIL", "NO_TESTS", "INFRA_ERROR", "SKIPPED"}

\* _missing_patch_scope_symbols: a symbol of a SEARCH must be in the new file,
\* unless a REPLACE defines symbols and not this one.
MissingSymbols(bs, patched) ==
  FoldLeft(LAMBDA required, b :
             LET asked == required \cup SymbolsOf(b.old)
             IN IF SymbolsOf(b.new) = {} THEN asked ELSE asked \cap SymbolsOf(b.new),
           {}, bs) \ SymbolsOf(patched)

\* Mutation of AstPasses: only the symbols are looked at.
AstPassesUnparsed(bs, patched) == MissingSymbols(bs, patched) = {}

\* validate_ast
AstPasses(bs, patched) == WellFormed(patched) /\ MissingSymbols(bs, patched) = {}

\* _fuse_validation: the tests have no say.
Commits(ast, schema, tests) == ast /\ schema

\* classify_edit_error of _validation_error.
RejectClass(ast) == IF ast THEN "E6" ELSE "E3"
=============================================================================
