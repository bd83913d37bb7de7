------------------------------ MODULE MetaJson ------------------------------
(***************************************************************************)
(* The JSON operations behind session metadata (pkg/metajson): RFC 7386    *)
(* merge, numeric increment, and the projection on flat string maps.       *)
(*                                                                         *)
(* A JSON value is a record tagged with its kind; an object maps keys to   *)
(* values.  Strings and numbers carry their text; the text of a number is  *)
(* the number itself and 0 is the empty string.  Numbers are integers of   *)
(* a small two's complement width; fractions are left out.  decode and     *)
(* encode are the identity on such values.                                 *)
(***************************************************************************)
EXTENDS Integers, Sequences, FiniteSets, Functions

CONSTANT Half  \* integers wrap at Half, 2^63 in the code

ASSUME HalfAssumption == Half \in Nat \ {0}

Null   == [kind |-> "null"]
Arr    == [kind |-> "array"]
Str(t) == [kind |-> "string", text |-> t]
Num(n) == [kind |-> "number", text |-> n]
Obj(f) == [kind |-> "object", of |-> f]
NoKeys == <<>>     \* the function with no keys

IsObject(v) == v.kind = "object"
FieldsOf(v) == IF IsObject(v) THEN v.of ELSE NoKeys
At(f, k)    == IF k \in DOMAIN f THEN f[k] ELSE Null

\* Mutant: a null in the patch is stored like any other value.
RECURSIVE MergeValue_KeepsNull(_, _)
MergeValue_KeepsNull(target, patch) ==
    IF ~IsObject(patch) THEN patch
    ELSE LET t == FieldsOf(target)
         IN  Obj([k \in DOMAIN t \cup DOMAIN patch.of |->
                    IF k \in DOMAIN patch.of THEN MergeValue_KeepsNull(At(t, k), patch.of[k]) ELSE t[k]])

\* func mergeValue, also MergePatch: a target that is no object counts as empty.
RECURSIVE MergeValue(_, _)
MergeValue(target, patch) ==
    IF ~IsObject(patch) THEN patch
    ELSE LET t == FieldsOf(target)
             deleted == {k \in DOMAIN patch.of : patch.of[k] = Null}
         IN  Obj([k \in (DOMAIN t \cup DOMAIN patch.of) \ deleted |->
                    IF k \in DOMAIN patch.of THEN MergeValue(At(t, k), patch.of[k]) ELSE t[k]])

\* func addNumbers, as int64 addition.
AddNumbers(a, b) == ((a + b + Half) % (2 * Half)) - Half

\* func incrInto: Null stands for its errors.
RECURSIVE IncrInto(_, _)
IncrInto(t, patch) ==
    LET new(k) ==
          LET p == patch[k] old == At(t, k)
          IN  CASE p.kind = "number" /\ k \notin DOMAIN t -> Num(AddNumbers(0, p.text))
                [] p.kind = "number" /\ old.kind = "number" -> Num(AddNumbers(old.text, p.text))
                [] IsObject(p) /\ (k \notin DOMAIN t \/ IsObject(old)) -> IncrInto(FieldsOf(old), p.of)
                [] OTHER -> Null
    IN  IF \E k \in DOMAIN patch : new(k) = Null THEN Null
        ELSE Obj([k \in DOMAIN t \cup DOMAIN patch |-> IF k \in DOMAIN patch THEN new(k) ELSE t[k]])

\* func IncrPatch
IncrPatch(target, patch) ==
    IF IsObject(patch) THEN IncrInto(FieldsOf(target), patch.of) ELSE Null

\* func TopLevelKeys
TopLevelKeys(v) == DOMAIN FieldsOf(v)

\* func Project: the top-level strings.
Project(v) == [k \in {j \in TopLevelKeys(v) : v.of[j].kind = "string"} |-> v.of[k].text]

\* func FromFlat
FromFlat(m) == Obj([k \in DOMAIN m |-> Str(m[k])])

\* The size of a document, for the cap: its keys and leaves.
RECURSIVE Size(_)
Size(v) ==
    IF ~IsObject(v) THEN 1
    ELSE LET sum[ks \in SUBSET DOMAIN v.of] ==
               IF ks = {} THEN 1
               ELSE LET k == CHOOSE j \in ks : TRUE IN Size(v.of[k]) + sum[ks \ {k}]
         IN  sum[DOMAIN v.of]

\* func lookupPath: the value at a path of keys; Null when there is none.
RECURSIVE LookupPath(_, _)
LookupPath(v, path) ==
    IF path = <<>> THEN v
    ELSE IF Head(path) \in DOMAIN FieldsOf(v) THEN LookupPath(v.of[Head(path)], Tail(path))
    ELSE Null
=============================================================================
