------------------------------ MODULE MCMetaDoc -----------------------------
(***************************************************************************)
(* Tokens with nested, escaped, empty and reserved keys and with every     *)
(* kind of value; documents in which an object meets a scalar.             *)
(***************************************************************************)
EXTENDS MetaDoc

a == <<"a">>
Tok(left, text) == [left |-> left, text |-> text]

MCSpawns == {[flat |-> NoKeys, json |-> Null],
             [flat |-> a :> 7, json |-> Null],
             [flat |-> a :> 7, json |-> Obj(<<"b">> :> Obj(a :> Num(1)))],
             [flat |-> NoKeys, json |-> Obj(<<"r">> :> Num(1))]}

MCMerges == {<<Tok(<<"a", ".", "b">>, 3)>>,
             <<Tok(<<"a", "\\", ".", "b">>, 3), Tok(<<"b", ".", "a">>, NullText)>>,
             <<Tok(<<"a", ":">>, NullText)>>,
             <<Tok(<<"b", ".", "a", ":">>, ArrayText)>>,
             <<Tok(<<"b", ".", "b", ":">>, NullText)>>,
             <<Tok(<<"a", ":">>, WordText)>>, <<Tok(<<"b", ".", "b", ":">>, 2)>>,
             <<Tok(<<"b">>, 1), Tok(<<"b", ".", "a", "\\">>, 2)>>,
             <<Tok(<<"r", "\\", ".", "x">>, 1)>>}

MCReplacements == {Obj(a :> Obj(a :> Null)), Arr}
MCUnsets == {<<<<"a", ".", "a">>, <<"n">>>>}
MCIncrements == {<<Tok(<<"n">>, 3)>>, <<Tok(<<"n">>, 1), Tok(<<"a", ".", "b">>, 1)>>}
MCFlats == {<<"n">> :> 1, a :> 5}
MCCounterKey == <<"n">>
MCCasKey == <<"c">>
=============================================================================
