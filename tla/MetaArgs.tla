------------------------------ MODULE MetaArgs ------------------------------
(***************************************************************************)
(* The arguments of `runbaypty meta` and `runbaypty ls --filter`           *)
(* (cmd/runbaypty/metaargs.go).                                            *)
(*                                                                         *)
(* A token is what stands left of its first "=", symbol by symbol, and the *)
(* text right of it.  A key of an object is a sequence of symbols.         *)
(***************************************************************************)
EXTENDS MetaJson, SequencesExt

CONSTANTS NullText, WordText, ArrayText  \* texts that are no numbers

\* What a text is as JSON; a word without quotes is not JSON.
JsonOf(t) == CASE t = NullText  -> [ok |-> TRUE, val |-> Null]
               [] t = ArrayText -> [ok |-> TRUE, val |-> Arr]
               [] t \in {WordText, 0} -> [ok |-> FALSE, val |-> Null]
               [] OTHER -> [ok |-> TRUE, val |-> Num(t)]

\* One symbol of the scan in splitEscapedDots: a backslash before a dot waits.
SplitSymbol(acc, s) ==
    IF acc.esc
    THEN CASE s = "."  -> [acc EXCEPT !.cur = Append(@, "."), !.esc = FALSE]
           [] s = "\\" -> [acc EXCEPT !.cur = Append(@, "\\")]
           [] OTHER    -> [acc EXCEPT !.cur = @ \o <<"\\", s>>, !.esc = FALSE]
    ELSE CASE s = "."  -> [acc EXCEPT !.parts = Append(@, acc.cur), !.cur = <<>>]
           [] s = "\\" -> [acc EXCEPT !.esc = TRUE]
           [] OTHER    -> [acc EXCEPT !.cur = Append(@, s)]

\* func splitEscapedDots; a backslash at the end stands for itself.
SplitEscapedDots(key) ==
    LET acc == FoldLeft(SplitSymbol, [parts |-> <<>>, cur |-> <<>>, esc |-> FALSE], key)
    IN  Append(acc.parts, IF acc.esc THEN Append(acc.cur, "\\") ELSE acc.cur)

\* func setPath: intermediate values that are no objects are overwritten.
RECURSIVE SetPath(_, _, _)
SetPath(root, path, val) ==
    Obj((Head(path) :> (IF Len(path) = 1 THEN val
                        ELSE SetPath(Obj(FieldsOf(At(root.of, Head(path)))), Tail(path), val)))
        @@ root.of)

Fails == [ok |-> FALSE, key |-> <<>>, val |-> Null]

\* Mutant: the value is always parsed as JSON when it can be.
ParseMetaPair_Guesses(tok) ==
    IF tok.left = <<>> THEN Fails
    ELSE [ok |-> TRUE, key |-> tok.left,
          val |-> IF JsonOf(tok.text).ok THEN JsonOf(tok.text).val ELSE Str(tok.text)]

\* func parseMetaPair
ParseMetaPair(tok) ==
    IF tok.left # <<>> /\ Last(tok.left) = ":"
    THEN IF Len(tok.left) = 1 \/ ~JsonOf(tok.text).ok THEN Fails
         ELSE [ok |-> TRUE, key |-> Front(tok.left), val |-> JsonOf(tok.text).val]
    ELSE [ok |-> tok.left # <<>>, key |-> tok.left, val |-> Str(tok.text)]

\* func buildMetaPatch, from an object and pairs that all parse.
BuildMetaPatch(base, toks) ==
    FoldLeft(LAMBDA root, tok :
        LET p == ParseMetaPair(tok) IN SetPath(root, SplitEscapedDots(p.key), p.val), base, toks)

\* func buildUnsetPatch
BuildUnsetPatch(keys) ==
    FoldLeft(LAMBDA root, key : SetPath(root, SplitEscapedDots(key), Null), Obj(NoKeys), keys)

\* func buildIncrPatch, from keys and numbers.
BuildIncrPatch(toks) ==
    FoldLeft(LAMBDA root, tok : SetPath(root, SplitEscapedDots(tok.left), Num(tok.text)), Obj(NoKeys), toks)

\* func scalarString; an object, an array and null are the empty string.
ScalarString(v) == IF v.kind \in {"string", "number"} THEN v.text ELSE 0

\* Whether the whole path leads somewhere, if only to null.
RECURSIVE HasPath(_, _)
HasPath(v, path) ==
    path = <<>> \/ (Head(path) \in DOMAIN FieldsOf(v) /\ HasPath(v.of[Head(path)], Tail(path)))

\* func metaMatches for one filter.
MetaMatches(doc, tok) ==
    LET path == SplitEscapedDots(tok.left)
    IN  HasPath(doc, path) /\ ScalarString(LookupPath(doc, path)) = tok.text
=============================================================================
